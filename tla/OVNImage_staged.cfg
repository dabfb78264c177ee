SPECIFICATION Spec
CONSTANTS
  MaxVersion = 2
  MaxEdits = 4
  MaxFaults = 0
INVARIANT LocalChangesInvalidate
