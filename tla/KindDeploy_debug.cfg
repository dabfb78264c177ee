SPECIFICATION Spec
CONSTANTS
  P = 2
  NumPairs = 1
  DockerUser = FALSE
  MaxIP = 5
  Debug = TRUE
  MaxFaults = 0
INVARIANT IdempotentByDefault
