SPECIFICATION Spec
CONSTANTS
  NumNat = 1
  NumOVS = 1
  NumChannels = 1
  DebianLike = TRUE
  Bootc = TRUE
  Masters = 2
  Workers = 1
  MaxFaults = 3
INVARIANTS
  TypeOK
  IdempotentByDefault
  DeploymentComplete
  CleanupComplete
  KubeconfigHasCluster
  MemberIsReachable
  NetworkHasBridge
