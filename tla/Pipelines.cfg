CONSTANTS
  p1 = p1  q1 = q1
  s1 = s1  s2 = s2  s3 = s3  t1 = t1  t2 = t2
  d1 = d1  d2 = d2  l1 = l1
  OldPipeline = {p1, q1}
  OldStage = {s1, s2, s3, t1, t2}
  OldRecord = {d1, d2, l1}
  Job = {j1, j2}
  Op <- MCOp
  InitPipe <- MCInitPipe
  InitStage <- MCInitStage
  InitRec <- MCInitRec
  None = None
SPECIFICATION FairSpec
INVARIANTS Inv GuardedWriteOnSqlite
PROPERTIES EveryJobEnds
CHECK_DEADLOCK FALSE
