SPECIFICATION FairSpec
CONSTANTS
  N = 2
  Grown = {1}
  Firmware = TRUE
  Source = "oci"
  MaxFaults = 4
INVARIANTS TypeOK DefinedHasFiles DeployedIsFresh DeployedBoots
PROPERTY RerunDeploys
