CONSTANTS
  Login = {l1, l2}
  Request = {r1, r2}
  None = None
  MaxUsers = 2
  MaxChanges = 4
SPECIFICATION SignInSpec
INVARIANTS SignInInv
PROPERTIES EndedStaysEnded
CHECK_DEADLOCK FALSE
