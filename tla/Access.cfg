CONSTANTS
  boss = boss  aide = aide  k1 = k1  k2 = k2
  tool = tool  stdio = stdio  task = task  review = review  mint = mint
  narrow = narrow  revoke = revoke  disable = disable  enable = enable
  demote = demote  remove = remove  leave = leave  password = password
  wipe = wipe  agree = agree  peek = peek
  User = {boss, aide}
  Key = {k1, k2}
  Owner = boss
  None = None
  Request = {tool, stdio, task, review, mint, narrow, revoke, disable, enable,
             demote, remove, leave, password, wipe, agree, peek}
  surfaceOf <- MCSurface
  callerOf <- MCCaller
  callOf <- MCCall
  Mixes <- MCMixes
  MaxLocks = 1
SPECIFICATION MCSpec
INVARIANTS Inv NeverOutranks GatesHold
PROPERTIES DeletedWritesNothingOnPostgres
CHECK_DEADLOCK FALSE
