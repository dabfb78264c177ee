SPECIFICATION Spec
CONSTANTS
  N = 1
  Grown = {1}
  Firmware = FALSE
  Source = "oci"
  MaxFaults = 1
INVARIANT DiskSizeIsMinimum
