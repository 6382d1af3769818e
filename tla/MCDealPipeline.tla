---------------------------- MODULE MCDealPipeline ----------------------------
(* Instances of DealPipeline for TLC. *)
EXTENDS DealPipeline

CONSTANTS p1, q1, s1, s2, s3, t1, t2, d1, d2, l1

\* One pipeline of deals, with an open, a won and an unused stage, and one of
\* leads; an open deal, and a won one that was made from the only lead.
MCInitPipe ==
  [p \in Pipeline |->
     IF p = p1 THEN [type |-> "deal", isDefault |-> TRUE]
     ELSE IF p = q1 THEN [type |-> "lead", isDefault |-> TRUE]
     ELSE None]

At0(p, outcome, position) == [pipeline |-> p, outcome |-> outcome, position |-> position]

MCInitStage ==
  [s \in Stage |->
     CASE s = s1 -> At0(p1, None, 0)
       [] s = s2 -> At0(p1, "won", 1)
       [] s = s3 -> At0(p1, None, 2)
       [] s = t1 -> At0(q1, None, 0)
       [] s = t2 -> At0(q1, None, 1)
       [] OTHER -> None]

Row(kind, p, s, link) ==
  [kind |-> kind, pipeline |-> p, stage |-> s, status |-> "open", closedAt |-> FALSE,
   version |-> 1, link |-> link]

MCInitRec ==
  [r \in Record |->
     CASE r = d1 -> Row("deal", p1, s1, None)
       [] r = d2 -> [Row("deal", p1, s2, l1) EXCEPT !.status = "won", !.closedAt = TRUE]
       [] r = l1 -> Row("lead", q1, t1, d2)
       [] OTHER -> None]

MCOp ==
  {[op |-> "create", kind |-> "deal", pipeline |-> None, stage |-> None, link |-> l1],
   [op |-> "create", kind |-> "deal", pipeline |-> p1, stage |-> s3, link |-> None],
   [op |-> "create", kind |-> "lead", pipeline |-> p1, stage |-> None, link |-> None],
   [op |-> "import", pipeline |-> None, stage |-> None],
   [op |-> "import", pipeline |-> p1, stage |-> s3],
   [op |-> "touch", at |-> [rec |-> d1, expected |-> 1], link |-> None],
   [op |-> "touch", at |-> [rec |-> d1, expected |-> None], link |-> l1],
   [op |-> "touch", at |-> [rec |-> l1, expected |-> None], link |-> d1],
   [op |-> "move", at |-> [rec |-> d1, expected |-> 1], stage |-> s2],
   [op |-> "move", at |-> [rec |-> d1, expected |-> None], stage |-> s3],
   [op |-> "move", at |-> [rec |-> d1, expected |-> None], stage |-> t1],
   [op |-> "move", at |-> [rec |-> l1, expected |-> 2], stage |-> t2],
   [op |-> "move", at |-> [rec |-> d2, expected |-> 1], stage |-> s3],
   [op |-> "close", at |-> [rec |-> d1, expected |-> None], status |-> "won"],
   [op |-> "close", at |-> [rec |-> d2, expected |-> None], status |-> "lost"],
   [op |-> "reopen", at |-> [rec |-> d2, expected |-> 1]],
   [op |-> "close", at |-> [rec |-> d1, expected |-> 1], status |-> "lost"],
   [op |-> "reopen", at |-> [rec |-> d1, expected |-> None]],
   [op |-> "delete", at |-> [rec |-> d1, expected |-> None]],
   [op |-> "delete", at |-> [rec |-> l1, expected |-> None]],
   [op |-> "bulk_move", kind |-> "deal", ids |-> <<d1, l1, d2>>, stage |-> s3],
   [op |-> "bulk_touch", kind |-> "deal", ids |-> <<d2, d1, d2>>],
   [op |-> "new_pipeline", type |-> "deal", isDefault |-> TRUE, outcome |-> None],
   [op |-> "new_pipeline", type |-> "lead", isDefault |-> FALSE, outcome |-> "lost"],
   [op |-> "set_default", pipeline |-> p1],
   [op |-> "drop_pipeline", pipeline |-> q1],
   [op |-> "drop_pipeline", pipeline |-> p1],
   [op |-> "add_stage", pipeline |-> q1],
   [op |-> "edit_stage", stage |-> s3, outcome |-> "lost"],
   [op |-> "edit_stage", stage |-> s3, outcome |-> "done"],
   [op |-> "reorder", pipeline |-> p1, stages |-> <<s3, s1, s2>>],
   [op |-> "reorder", pipeline |-> q1, stages |-> <<t2, t2>>],
   [op |-> "drop_stage", stage |-> s3],
   [op |-> "drop_stage", stage |-> t2]}
=============================================================================
