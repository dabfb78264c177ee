\* Two VFs, prompt checks, a teardown of up to one tick.
SPECIFICATION Spec
CONSTANTS
  Dev = {vf1, vf2}
  UnhealthyAfterMisses = 3
  Grace = 2
  CheckSpan = 0
  TeardownMax = 1
  MaxIndex = 3
  MaxContainers = 1
  Env = {"destroy", "crash"}
SYMMETRY Symmetry
INVARIANT GrantedHasDevinfo
PROPERTY KeepsContract
