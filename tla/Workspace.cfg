CONSTANTS
  u1 = u1  u2 = u2  u3 = u3
  User = {u1, u2, u3}
  Job = {j1, j2}
  Op <- MCOp
  None = None
SPECIFICATION FairSpec
INVARIANTS Inv GuardedChange
PROPERTIES EveryJobEnds
CHECK_DEADLOCK FALSE
