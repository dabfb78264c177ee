SPECIFICATION Spec
CONSTANTS
  Counts = {0, 1}
  AddonLists <- MCAddonLists
  MaxFaults = 2
INVARIANTS
  TypeOK
  FreshRunSucceeds
  DeploymentComplete
  CountNeverLost
  WhereaboutsBeforeMultus
PROPERTY KeepsPromise
