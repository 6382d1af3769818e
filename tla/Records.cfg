CONSTANTS
  c1 = c1  c2 = c2  p1 = p1  p2 = p2  e1 = e1  d1 = d1
  o1 = o1  a1 = a1  t1 = t1  l1 = l1  f1 = f1  gone = gone
  OldId = {c1, c2, p1, p2, e1, d1, o1, a1, t1, l1, f1, gone}
  OldType <- MCType
  Job = {j1, j2, j3}
  Op <- MCOp
  InitAlive <- MCAlive
  InitLinks <- MCLinks
  InitListType <- MCListType
  Untyped = Untyped
SPECIFICATION GraphSpec
INVARIANTS GraphInv
SYMMETRY MCSymmetry
CHECK_DEADLOCK FALSE
