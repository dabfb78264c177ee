SPECIFICATION Spec
CONSTANTS
  MaxVersion = 2
  MaxEdits = 3
  MaxFaults = 2
INVARIANTS TypeOK  IgnoreRestored
PROPERTY SourceNeverRemoved
