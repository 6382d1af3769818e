CONSTANTS
  Chain = {a, b}
  Workspace = {w1, w2}
  Shared = shared
  None = None
  MaxEvents = 4
SPECIFICATION FairSpec
INVARIANTS Inv
PROPERTIES UnitsAreAtomic EveryoneIsServed
CHECK_DEADLOCK FALSE
