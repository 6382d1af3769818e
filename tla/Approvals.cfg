CONSTANTS
  ask = ask  approve1 = approve1  approve2 = approve2  reject = reject
  poll = poll  drop = drop  self = self  clerk = clerk  viewer = viewer
  Request = {ask, approve1, approve2, reject, poll, drop, self, clerk, viewer}
  opOf <- MCOpOf
  actorOf <- MCActorOf
  None = None
  MaxFailures = 1
SPECIFICATION FairSpec
INVARIANTS Inv RefusalIsRecorded
PROPERTIES TerminalIsFinalOnSqlite ExpiredIsSettled
