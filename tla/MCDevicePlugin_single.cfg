\* One VF, the real thresholds (60 s grace = 12 ticks), every environment event.
SPECIFICATION FairSpec
CONSTANTS
  Dev = {vf1}
  UnhealthyAfterMisses = 3
  Grace = 12
  CheckSpan = 1
  TeardownMax = 0
  MaxIndex = 3
  MaxContainers = 1
  Env = {"rename", "destroy", "crash", "kubelet"}
INVARIANT TypeOK
PROPERTIES HeldNeverBenched OnlyDestroyedBenched DestroyedIsReported PresentIsAdvertised
