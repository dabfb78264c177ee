SPECIFICATION Spec
CONSTANTS
  P = 2
  NumPairs = 2
  DockerUser = FALSE
  MaxIP = 5
  Debug = FALSE
  MaxFaults = 2
INVARIANTS
  TypeOK
  IdempotentByDefault
  DeploymentComplete
  AddressesDistinct
  KillsNeverLeak
PROPERTY EstablishedLinksSurvive
