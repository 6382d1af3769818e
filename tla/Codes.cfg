CONSTANTS
  c1 = c1  c2 = c2  a1 = a1  g1 = g1  g2 = g2  sweep = sweep
  Call = {c1}
  Clerk = {a1}
  Guesser = {g1, g2}
  IssueMax = 2
  MaxAttempts = 2
  MaxCodes = 3
  MaxFaults = 1
  MaxWindows = 1
SPECIFICATION Spec
SYMMETRY Symmetry
INVARIANTS Inv SentWasDelivered
PROPERTIES OldCodeDead
CHECK_DEADLOCK FALSE
