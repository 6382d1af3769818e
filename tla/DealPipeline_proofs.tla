--------------------------- MODULE DealPipeline_proofs ---------------------------
(***************************************************************************)
(* Theorems about DealPipeline, for every set of pipelines, stages,        *)
(* records and jobs, and every list of records of a bulk operation: its    *)
(* invariant Inv on both stores, and on SQLite GuardedWriteOnSqlite.       *)
(*                                                                         *)
(* Neither is inductive, for an operation reads in some steps and writes   *)
(* in another.  On SQLite what it read stands when it writes (ReadStands), *)
(* because one operation at a time is under way (Alone).  On PostgreSQL    *)
(* others may write in between: what keeps a record in a stage of its      *)
(* pipeline there is that the write itself fails on the foreign keys, that *)
(* a bulk statement commits what its locked rows can still be (LocksFit),  *)
(* and that a row which an operation creates is there only when the        *)
(* operation is done (Fresh), so nothing leads to it early.                *)
(*                                                                         *)
(* A step reads, fails or commits: ReadKeeps, FailKeeps and CommitKeeps    *)
(* say what each has to show, and there is one lemma per action.           *)
(***************************************************************************)
EXTENDS DealPipeline, FiniteSetTheorems, WellFoundedInduction, TLAPS

UnderWay(j) == pc[j] \notin {"idle", "done"}

\* On SQLite one operation at a time.
Alone == store = "sqlite" => \A j, k \in Job : UnderWay(j) /\ UnderWay(k) => j = k

\* The row that an operation creates is there when it is done, and not before.
Fresh ==
  \A j \in Job : pc[j] # "done" => pipe[j] = None /\ stage[j] = None /\ rec[j] = None

\* By the pipelines pp and the stages ss, the row is where it may be.
Placed(pp, ss, row) ==
  /\ ss[row.stage] # None
  /\ ss[row.stage].pipeline = row.pipeline
  /\ pp[row.pipeline] # None

\* A locked record will be committed in a stage there is, and otherwise as it is;
\* a locked pipeline is there.
LocksFit ==
  /\ \A r \in Record :
       IF lock[r] = None THEN draft[r] = None
       ELSE /\ rec[r] # None
            /\ draft[r] # None
            /\ Placed(pipe, stage, draft[r])
            /\ draft[r].status = rec[r].status
            /\ draft[r].closedAt = rec[r].closedAt
            /\ draft[r].link = rec[r].link
            /\ draft[r].pipeline = rec[r].pipeline
  /\ \A p \in Pipeline : plock[p] # None => pipe[p] # None

\* What job j must have read when it is at a place.
Known(j, what, where) ==
  /\ what.next >= 1
  /\ where \in {"idle", "read"} => what.stage = None
  /\ where = "resolved" => what.pipeline # None /\ what.stage # None
  /\ where \in {"read", "located"} => what.row # None
  /\ where = "located" /\ req[j].op = "move" => what.stage # None
  /\ where = "bulk_write" => what.next <= Len(BulkIds(j)) /\ req[j].op \in Bulk
  /\ where = "bulk_write" /\ req[j].op = "bulk_move" => what.row # None

HasRead == \A j \in Job : Known(j, seen[j], pc[j])

OfType(t) == {p \in Pipeline : pipe[p] # None /\ pipe[p].type = t}

\* It is still so.
Stands(j, what, where) ==
  LET o == req[j]
  IN /\ where = "resolved" =>
          /\ stage[what.stage] # None
          /\ stage[what.stage].pipeline = what.pipeline
          /\ pipe[what.pipeline] # None
     /\ where \in {"read", "located"} =>
          /\ o.op \in OneRecord
          /\ what.row = rec[o.at.rec]
          /\ VersionMatches(o.at.expected, what.row.version)
          /\ o.op = "touch" /\ o.link # None => rec[o.link] # None
     /\ where = "located" /\ o.op \in {"move", "close"} /\ what.stage # None =>
          stage[what.stage] # None /\ stage[what.stage].pipeline = what.row.pipeline
     /\ where \in {"bulk", "bulk_write"} /\ o.op = "bulk_move" =>
          stage[o.stage] # None /\ stage[o.stage].pipeline = what.pipeline
     /\ where = "bulk_write" /\ o.op = "bulk_move" =>
          rec[o.ids[what.next]] # None /\ rec[o.ids[what.next]].pipeline = what.pipeline
     /\ where \in {"defaulting", "clearing", "cleared"} /\ o.op = "set_default" =>
          pipe[o.pipeline] # None /\ pipe[o.pipeline].type = what.type
     /\ where \in {"defaulting", "clearing", "cleared"} /\ o.op = "new_pipeline" =>
          what.type = o.type
     /\ where = "clearing" => what.rows = OfType(what.type)
     /\ where = "cleared" /\ (o.op = "set_default" \/ (o.op = "new_pipeline" /\ o.isDefault)) =>
          \A p \in OfType(what.type) : plock[p] = j
     /\ where = "checked" /\ o.op = "drop_stage" => InStage(o.stage) = {}
     /\ where = "checked" /\ o.op = "drop_pipeline" => InPipeline(o.pipeline) = {}

ReadStands == store = "sqlite" => \A j \in Job : Stands(j, seen[j], pc[j])

\* Every two default pipelines of a type are the same.
OneDefault(pp) ==
  \A p, q \in Pipeline :
    /\ pp[p] # None /\ pp[p].isDefault
    /\ pp[q] # None /\ pp[q].isDefault
    /\ pp[p].type = pp[q].type
    => p = q

IInv ==
  /\ TypeOK
  /\ StageInPipeline
  /\ ClosedIffDated
  /\ LinkedRecordExists
  /\ store = "sqlite" => OneDefault(pipe)
  /\ GuardedWriteOnSqlite
  /\ Alone
  /\ Fresh
  /\ LocksFit
  /\ HasRead
  /\ ReadStands

-----------------------------------------------------------------------------
(* The parameters, the placement of a row, the one default.                *)

Where == {"resolved", "read", "located", "bulk", "bulk_write", "defaulting", "clearing", "cleared",
          "checked"}
SeenRow == [row : RecordRow \cup {None}, pipeline : Pipeline \cup {None},
            stage : Stage \cup {None}, outcome : Outcome, position : Nat,
            type : Kind \cup {None}, rows : SUBSET Pipeline, next : Nat]
Failure == {"not_found", "version_conflict", "refused", "in_use", "deadlock"}

LEMMA OpFields ==
  ASSUME NEW o \in Operation
  PROVE  /\ o.op = "create" => /\ o.kind \in Kind /\ o.pipeline \in OldPipeline \cup {None}
                               /\ o.stage \in OldStage \cup {None} /\ o.link \in OldRecord \cup {None}
         /\ o.op = "import" => /\ o.pipeline \in OldPipeline \cup {None}
                               /\ o.stage \in OldStage \cup {None}
         /\ o.op \in OneRecord => o.at.rec \in OldRecord /\ o.at.expected \in Nat \cup {None}
         /\ o.op = "touch" => o.link \in OldRecord \cup {None}
         /\ o.op = "move" => o.stage \in OldStage
         /\ o.op = "close" => o.status \in Closed
         /\ o.op \in Bulk => o.kind \in Kind /\ o.ids \in Seq(OldRecord)
         /\ o.op = "bulk_move" => o.stage \in OldStage
         /\ o.op = "new_pipeline" => o.type \in Kind /\ o.isDefault \in BOOLEAN /\ o.outcome \in Outcome
         /\ o.op \in {"set_default", "drop_pipeline", "add_stage"} => o.pipeline \in OldPipeline
         /\ o.op = "reorder" => o.pipeline \in OldPipeline /\ o.stages \in Seq(OldStage)
         /\ o.op = "edit_stage" => o.stage \in OldStage /\ o.outcome \in Outcome
         /\ o.op = "drop_stage" => o.stage \in OldStage
<1>1. CASE o.op \in {"create", "import"}
  BY <1>1 DEF Operation, OneRecord, Bulk
<1>2. CASE o.op \in OneRecord
  BY <1>2 DEF Operation, OneRecord, Bulk, Target
<1>3. CASE o.op \in Bulk
  BY <1>3 DEF Operation, OneRecord, Bulk
<1>4. CASE o.op \notin {"create", "import"} \cup OneRecord \cup Bulk
  BY <1>4 DEF Operation, OneRecord, Bulk
<1>. QED
  BY <1>1, <1>2, <1>3, <1>4

LEMMA ReqTyped == ASSUME TypeOK, NEW j \in Job PROVE req[j] \in Operation
BY OperationAssumption DEF TypeOK

LEMMA StageInPipelineMeans ==
  StageInPipeline <=> \A r \in Record : rec[r] # None =>
                        rec[r].stage \in Stage /\ Placed(pipe, stage, rec[r])
BY DEF StageInPipeline, StagesOf, Placed

LEMMA PlacedStays ==
  ASSUME NEW row \in RecordRow, Placed(pipe, stage, row),
         \A s \in Stage : stage[s] # None => stage'[s] # None /\ stage'[s].pipeline = stage[s].pipeline,
         \A p \in Pipeline : pipe[p] # None => pipe'[p] # None
  PROVE  Placed(pipe', stage', row)
BY DEF Placed, RecordRow

LEMMA RowUpdates ==
  ASSUME NEW row \in RecordRow, NEW link \in Record \cup {None}, NEW more \in Nat
  PROVE  [row EXCEPT !.link = link, !.version = @ + more] \in RecordRow
<1>. DEFINE linked == [row EXCEPT !.link = link]
<1>1. linked \in RecordRow
  BY DEF RecordRow
<1>2. linked.version + more \in Nat
  BY <1>1 DEF RecordRow
<1>. HIDE DEF linked
<1>3. [linked EXCEPT !.version = linked.version + more] \in RecordRow
  BY <1>1, <1>2 DEF RecordRow
<1>. QED
  BY <1>3 DEF linked

LEMMA AtMostOne ==
  ASSUME NEW S, \A x, y \in S : x = y PROVE Cardinality(S) <= 1
<1>1. CASE S = {}
  BY <1>1, FS_EmptySet
<1>2. CASE S # {}
  <2>1. PICK x \in S : S = {x}
    BY <1>2
  <2>. QED
    BY <2>1, FS_Singleton
<1>. QED
  BY <1>1, <1>2

LEMMA OneDefaultCounts ==
  ASSUME NEW pp, OneDefault(pp), NEW t
  PROVE  Cardinality({p \in Pipeline : pp[p] # None /\ pp[p].type = t /\ pp[p].isDefault}) <= 1
<1>. DEFINE S == {p \in Pipeline : pp[p] # None /\ pp[p].type = t /\ pp[p].isDefault}
<1>1. \A x, y \in S : x = y
  BY DEF OneDefault
<1>. QED
  BY <1>1, AtMostOne

-----------------------------------------------------------------------------
LEMMA InitIInv == Init => IInv
<1>. SUFFICES ASSUME Init PROVE IInv
  OBVIOUS
<1>1. TypeOK
  <2>1. Nothing \in SeenRow
    BY DEF Nothing, SeenRow, Outcome
  <2>. QED
    BY <2>1, TablesAssumption DEF Init, TypeOK, SeenRow, NoResult
<1>2. StageInPipeline /\ ClosedIffDated /\ LinkedRecordExists
  BY TablesAssumption DEF Init, StageInPipeline, ClosedIffDated, LinkedRecordExists, StagesOf, RecordRow
<1>3. OneDefault(pipe)
  BY TablesAssumption DEF Init, OneDefault
<1>4. GuardedWriteOnSqlite /\ Alone /\ Fresh /\ LocksFit
  BY TablesAssumption DEF Init, GuardedWriteOnSqlite, Alone, UnderWay, Fresh, LocksFit, NoResult
<1>5. HasRead /\ ReadStands
  BY DEF Init, HasRead, ReadStands, Known, Stands, Nothing
<1>. QED
  BY <1>1, <1>2, <1>3, <1>4, <1>5 DEF IInv

-----------------------------------------------------------------------------
(* What every step of an operation does: it reads, it fails, it commits.   *)

LEMMA ReadKeeps ==
  ASSUME IInv, NEW j \in Job, NEW what \in SeenRow, NEW where \in Where,
         pc[j] # "done", pc[j] = "idle" => MayBegin(j),
         Reads(j, what, where),
         Known(j, what, where),
         store = "sqlite" => Stands(j, what, where)
  PROVE  IInv'
<1>1. /\ UNCHANGED <<store, pipe, stage, rec, lock, draft, plock, req, res>>
      /\ seen' = [seen EXCEPT ![j] = what]
      /\ pc' = [pc EXCEPT ![j] = where]
  BY DEF Reads, Goto, tables, locks
<1>2. /\ seen' \in [Job -> SeenRow] /\ seen'[j] = what /\ pc'[j] = where
      /\ \A k \in Job \ {j} : seen'[k] = seen[k] /\ pc'[k] = pc[k]
  BY <1>1 DEF IInv, TypeOK, SeenRow
<1>3. TypeOK'
  BY <1>1, <1>2 DEF IInv, TypeOK, SeenRow, Where
<1>4. StageInPipeline' /\ ClosedIffDated' /\ LinkedRecordExists' /\ (store = "sqlite" => OneDefault(pipe))'
  BY <1>1 DEF IInv, StageInPipeline, StagesOf, ClosedIffDated, LinkedRecordExists, OneDefault
<1>5. GuardedWriteOnSqlite' /\ LocksFit'
  BY <1>1 DEF IInv, GuardedWriteOnSqlite, LocksFit, Placed
<1>6. Alone'
  BY <1>1, <1>2 DEF IInv, Alone, UnderWay, MayBegin
<1>7. Fresh'
  BY <1>1, <1>2 DEF IInv, Fresh
<1>8. HasRead'
  BY <1>1, <1>2 DEF IInv, HasRead, Known, BulkIds
<1>9. ReadStands'
  <2>1. \A k \in Job : \A w, h : Stands(k, w, h)' <=> Stands(k, w, h)
    BY <1>1 DEF Stands, OfType, InStage, InPipeline
  <2>. QED
    BY <1>1, <1>2 DEF IInv, ReadStands, Stands, OfType, InStage, InPipeline
<1>. QED
  BY <1>3, <1>4, <1>5, <1>6, <1>7, <1>8, <1>9 DEF IInv

\* What j's end leaves to the others.
LEMMA EndsAlone ==
  ASSUME IInv, NEW j \in Job, pc[j] # "done", pc[j] = "idle" => MayBegin(j), store = "sqlite",
         NEW k \in Job \ {j}
  PROVE  pc[k] \in {"idle", "done"}
BY DEF IInv, Alone, UnderWay, MayBegin

LEMMA EndEffect ==
  ASSUME IInv, NEW j \in Job, NEW kind, NEW base \in Nat, End(j, kind, base)
  PROVE  /\ UNCHANGED <<store, req, seen>>
         /\ pc' = [pc EXCEPT ![j] = "done"] /\ pc'[j] = "done"
         /\ \A k \in Job \ {j} : pc'[k] = pc[k] /\ res'[k] = res[k]
         /\ res' = [res EXCEPT ![j] = [kind |-> kind, base |-> base]]
         /\ res'[j] = [kind |-> kind, base |-> base]
         /\ lock' \in [Record -> Job \cup {None}]
         /\ draft' \in [Record -> RecordRow \cup {None}]
         /\ plock' \in [Pipeline -> Job \cup {None}]
         /\ \A r \in Record : IF lock[r] = j THEN lock'[r] = None /\ draft'[r] = None
                              ELSE lock'[r] = lock[r] /\ draft'[r] = draft[r]
         /\ \A p \in Pipeline : plock'[p] = IF plock[p] = j THEN None ELSE plock[p]
BY DEF End, Goto, IInv, TypeOK

LEMMA FailKeeps ==
  ASSUME IInv, NEW j \in Job, NEW kind \in Failure,
         pc[j] # "done", pc[j] = "idle" => MayBegin(j), Fail(j, kind)
  PROVE  IInv'
<1>0. End(j, kind, 0) /\ UNCHANGED <<pipe, stage, rec>>
  BY DEF Fail, tables
<1>1. /\ UNCHANGED <<store, req, seen>>
      /\ pc' = [pc EXCEPT ![j] = "done"] /\ pc'[j] = "done"
      /\ \A k \in Job \ {j} : pc'[k] = pc[k] /\ res'[k] = res[k]
      /\ res' = [res EXCEPT ![j] = [kind |-> kind, base |-> 0]]
      /\ res'[j] = [kind |-> kind, base |-> 0]
      /\ lock' \in [Record -> Job \cup {None}]
      /\ draft' \in [Record -> RecordRow \cup {None}]
      /\ plock' \in [Pipeline -> Job \cup {None}]
      /\ \A r \in Record : IF lock[r] = j THEN lock'[r] = None /\ draft'[r] = None
                           ELSE lock'[r] = lock[r] /\ draft'[r] = draft[r]
      /\ \A p \in Pipeline : plock'[p] = IF plock[p] = j THEN None ELSE plock[p]
  BY <1>0, EndEffect
<1>2. TypeOK'
  BY <1>0, <1>1 DEF IInv, TypeOK, Failure
<1>3. StageInPipeline' /\ ClosedIffDated' /\ LinkedRecordExists' /\ (store = "sqlite" => OneDefault(pipe))'
  BY <1>0, <1>1 DEF IInv, StageInPipeline, StagesOf, ClosedIffDated, LinkedRecordExists, OneDefault
<1>4. GuardedWriteOnSqlite'
  BY <1>1 DEF IInv, GuardedWriteOnSqlite, Failure
<1>5. LocksFit'
  BY <1>0, <1>1 DEF IInv, LocksFit, Placed
<1>6. Alone'
  BY <1>1 DEF IInv, Alone, UnderWay
<1>7. Fresh'
  BY <1>0, <1>1 DEF IInv, Fresh
<1>8. HasRead'
  BY <1>1 DEF IInv, HasRead, Known, BulkIds
<1>9. ReadStands'
  BY <1>1, EndsAlone DEF ReadStands, Stands
<1>. QED
  BY <1>2, <1>3, <1>4, <1>5, <1>6, <1>7, <1>8, <1>9 DEF IInv

LEMMA CommitKeeps ==
  ASSUME IInv, NEW j \in Job, NEW base \in Nat,
         pc[j] # "done", pc[j] = "idle" => MayBegin(j), End(j, "ok", base),
         pipe' \in [Pipeline -> PipelineRow \cup {None}],
         stage' \in [Stage -> StageRow \cup {None}],
         rec' \in [Record -> RecordRow \cup {None}],
         StageInPipeline', ClosedIffDated', LinkedRecordExists',
         store = "sqlite" => OneDefault(pipe'),
         \A k \in Job \ {j} : /\ pipe[k] = None => pipe'[k] = None
                              /\ stage[k] = None => stage'[k] = None
                              /\ rec[k] = None => rec'[k] = None,
         \A r \in Record : lock[r] \notin {None, j} =>
                             rec'[r] = rec[r] /\ Placed(pipe', stage', draft[r]),
         \A p \in Pipeline : plock[p] \notin {None, j} => pipe'[p] # None,
         store = "sqlite" /\ req[j].op \in OneRecord \ {"delete"} => req[j].at.expected \in {None, base}
  PROVE  IInv'
<1>1. /\ UNCHANGED <<store, req, seen>>
      /\ pc' = [pc EXCEPT ![j] = "done"] /\ pc'[j] = "done"
      /\ \A k \in Job \ {j} : pc'[k] = pc[k] /\ res'[k] = res[k]
      /\ res' = [res EXCEPT ![j] = [kind |-> "ok", base |-> base]]
      /\ res'[j] = [kind |-> "ok", base |-> base]
      /\ lock' \in [Record -> Job \cup {None}]
      /\ draft' \in [Record -> RecordRow \cup {None}]
      /\ plock' \in [Pipeline -> Job \cup {None}]
      /\ \A r \in Record : IF lock[r] = j THEN lock'[r] = None /\ draft'[r] = None
                           ELSE lock'[r] = lock[r] /\ draft'[r] = draft[r]
      /\ \A p \in Pipeline : plock'[p] = IF plock[p] = j THEN None ELSE plock[p]
  BY EndEffect
<1>2. TypeOK'
  BY <1>1 DEF IInv, TypeOK
<1>3. (store = "sqlite" => OneDefault(pipe))'
  BY <1>1 DEF OneDefault
<1>4. GuardedWriteOnSqlite'
  BY <1>1 DEF IInv, GuardedWriteOnSqlite
<1>5. LocksFit'
  BY <1>1 DEF IInv, LocksFit
<1>6. Alone'
  BY <1>1 DEF IInv, Alone, UnderWay
<1>7. Fresh'
  BY <1>1 DEF IInv, Fresh
<1>8. HasRead'
  BY <1>1 DEF IInv, HasRead, Known, BulkIds
<1>9. ReadStands'
  BY <1>1, EndsAlone DEF ReadStands, Stands
<1>. QED
  BY <1>2, <1>3, <1>4, <1>5, <1>6, <1>7, <1>8, <1>9 DEF IInv

\* An end that changes the records only.
LEMMA RecordsCommitKeeps ==
  ASSUME IInv, NEW j \in Job, NEW base \in Nat,
         pc[j] # "done", pc[j] = "idle" => MayBegin(j), End(j, "ok", base),
         UNCHANGED <<pipe, stage>>,
         rec' \in [Record -> RecordRow \cup {None}],
         \A r \in Record : rec'[r] # None =>
           /\ Placed(pipe, stage, rec'[r])
           /\ rec'[r].closedAt <=> rec'[r].status # "open"
           /\ rec'[r].link # None => rec'[rec'[r].link] # None,
         \A k \in Job \ {j} : rec[k] = None => rec'[k] = None,
         \A r \in Record : lock[r] \notin {None, j} => rec'[r] = rec[r],
         store = "sqlite" /\ req[j].op \in OneRecord \ {"delete"} => req[j].at.expected \in {None, base}
  PROVE  IInv'
<1>1. StageInPipeline' /\ ClosedIffDated' /\ LinkedRecordExists'
  BY DEF StageInPipeline, ClosedIffDated, LinkedRecordExists, StagesOf, Placed, RecordRow
<1>2. store = "sqlite" => OneDefault(pipe')
  BY DEF IInv, OneDefault
<1>. QED
  BY <1>1, <1>2, CommitKeeps DEF IInv, TypeOK, LocksFit

\* An end that changes pipelines and stages, but none that a record is in.
LEMMA TablesCommitKeeps ==
  ASSUME IInv, NEW j \in Job,
         pc[j] # "done", pc[j] = "idle" => MayBegin(j), Succeed(j),
         UNCHANGED rec,
         pipe' \in [Pipeline -> PipelineRow \cup {None}],
         stage' \in [Stage -> StageRow \cup {None}],
         store = "sqlite" => OneDefault(pipe'),
         \A k \in Job \ {j} : /\ pipe[k] = None => pipe'[k] = None
                              /\ stage[k] = None => stage'[k] = None,
         \A r \in Record : /\ rec[r] # None => Placed(pipe', stage', rec[r])
                           /\ draft[r] # None => Placed(pipe', stage', draft[r]),
         \A p \in Pipeline : plock[p] \notin {None, j} => pipe'[p] # None,
         req[j].op \notin OneRecord
  PROVE  IInv'
<1>1. StageInPipeline' /\ ClosedIffDated' /\ LinkedRecordExists'
  BY DEF StageInPipeline, ClosedIffDated, LinkedRecordExists, StagesOf, Placed, RecordRow, IInv, TypeOK
<1>. QED
  BY <1>1, CommitKeeps DEF IInv, TypeOK, LocksFit, Succeed

-----------------------------------------------------------------------------
(* The operations, one by one.                                             *)

LEMMA SeenTyped == ASSUME IInv, NEW j \in Job PROVE seen[j] \in SeenRow /\ seen[j].next \in Nat
BY DEF IInv, TypeOK, SeenRow

LEMMA ResolveKeeps == ASSUME IInv, NEW j \in Job, Resolve(j) PROVE IInv'
<1>. DEFINE o == req[j]
            chosen == {p \in Candidates(TypeOf(o), o.pipeline) :
                         o.op = "create" => pipe[p].type = o.kind}
<1>1. /\ pc[j] = "idle" /\ MayBegin(j) /\ o.op \in {"create", "import"}
      /\ \/ Fail(j, "not_found") \/ Fail(j, "refused")
         \/ \E p \in chosen : \E s \in StageChoice(o, p) :
              Reads(j, [seen[j] EXCEPT !.pipeline = p, !.stage = s], "resolved")
  BY DEF Resolve, Starts
<1>2. CASE Fail(j, "not_found") \/ Fail(j, "refused")
  BY <1>1, <1>2, FailKeeps DEF Failure
<1>3. ASSUME NEW p \in chosen, NEW s \in StageChoice(o, p),
             Reads(j, [seen[j] EXCEPT !.pipeline = p, !.stage = s], "resolved")
      PROVE  IInv'
  <2>. DEFINE what == [seen[j] EXCEPT !.pipeline = p, !.stage = s]
  <2>1. p \in Pipeline /\ pipe[p] # None
    BY <1>1, OpFields, ReqTyped DEF Candidates, Pipeline, IInv
  <2>2. s \in Stage /\ stage[s] # None /\ stage[s].pipeline = p
    BY DEF StageChoice, FirstOf, StagesOf
  <2>3. what \in SeenRow /\ what.pipeline = p /\ what.stage = s /\ what.next >= 1
    BY <2>1, <2>2, SeenTyped DEF SeenRow, IInv, HasRead, Known
  <2>. HIDE DEF what
  <2>4. Known(j, what, "resolved") /\ Stands(j, what, "resolved")
    BY <2>1, <2>2, <2>3, TablesAssumption DEF Known, Stands
  <2>. QED
    BY <1>1, <1>3, <2>3, <2>4, ReadKeeps DEF Where, what
<1>. QED
  BY <1>1, <1>2, <1>3

LEMMA InsertKeeps == ASSUME IInv, NEW j \in Job, Insert(j) PROVE IInv'
<1>. DEFINE o == req[j]
            row == NewRow(o, seen[j].pipeline, seen[j].stage)
<1>1. /\ pc[j] = "resolved" /\ o.op \in {"create", "import"} /\ o \in Operation
  BY ReqTyped DEF Insert, At, IInv
<1>2. CASE Fail(j, "not_found")
  BY <1>1, <1>2, FailKeeps DEF Failure
<1>3. CASE /\ StageKeyHolds(row.pipeline, row.stage)
           /\ row.link # None => rec[row.link] # None
           /\ row.link # None => lock[row.link] = None
           /\ rec' = [r \in Record |->
                        IF r = j THEN row
                        ELSE IF r = row.link
                               THEN [rec[r] EXCEPT !.link = j, !.version = @ + 1]
                        ELSE rec[r]]
           /\ Succeed(j)
           /\ UNCHANGED <<pipe, stage>>
  <2>1. seen[j].pipeline \in Pipeline /\ seen[j].stage \in Stage
    BY <1>1, SeenTyped DEF SeenRow, IInv, HasRead, Known
  <2>2. /\ row \in RecordRow /\ row.link \in OldRecord \cup {None}
        /\ row.pipeline = seen[j].pipeline /\ row.stage = seen[j].stage
        /\ row.status = "open" /\ row.closedAt = FALSE
    BY <1>1, <2>1, OpFields DEF NewRow, RecordRow, TypeOf, Record, Kind
  <2>. HIDE DEF row
  <2>3. Placed(pipe, stage, row)
    <3>1. CASE store = "sqlite"
      BY <1>1, <2>2, <3>1 DEF IInv, ReadStands, Stands, Placed
    <3>2. CASE store = "postgres"
      BY <1>3, <3>2 DEF StageKeyHolds, StagesOf, Placed
    <3>. QED
      BY <3>1, <3>2 DEF IInv, TypeOK
  <2>4. \A r \in Record : rec[r] # None =>
          /\ rec[r] \in RecordRow
          /\ [rec[r] EXCEPT !.link = j, !.version = @ + 1] \in RecordRow
          /\ Placed(pipe, stage, rec[r])
          /\ rec[r].closedAt <=> rec[r].status # "open"
          /\ rec[r].link # None => rec[r].link \in Record /\ rec[rec[r].link] # None
    <3>. SUFFICES ASSUME NEW r \in Record, rec[r] # None
                  PROVE  /\ rec[r] \in RecordRow
                         /\ [rec[r] EXCEPT !.link = j, !.version = @ + 1] \in RecordRow
                         /\ Placed(pipe, stage, rec[r])
                         /\ rec[r].closedAt <=> rec[r].status # "open"
                         /\ rec[r].link # None => rec[r].link \in Record /\ rec[rec[r].link] # None
      OBVIOUS
    <3>1. rec[r] \in RecordRow
      BY DEF IInv, TypeOK
    <3>2. [rec[r] EXCEPT !.link = j, !.version = @ + 1] \in RecordRow
      BY <3>1, RowUpdates DEF Record
    <3>3. Placed(pipe, stage, rec[r])
      BY StageInPipelineMeans DEF IInv
    <3>. QED
      BY <3>1, <3>2, <3>3 DEF IInv, ClosedIffDated, LinkedRecordExists, RecordRow
  <2>5. j \in Record /\ row.link # j /\ rec[j] = None /\ lock[j] = None
    BY <1>1, <2>2, TablesAssumption DEF Record, IInv, Fresh, LocksFit
  <2>6. rec' \in [Record -> RecordRow \cup {None}]
    <3>1. \A r \in Record : r = row.link => rec[r] # None
      BY <1>3, TablesAssumption
    <3>. QED
      BY <1>3, <2>2, <2>4, <3>1 DEF IInv, TypeOK
  <2>7. \A r \in Record : rec'[r] # None =>
          /\ Placed(pipe, stage, rec'[r])
          /\ rec'[r].closedAt <=> rec'[r].status # "open"
          /\ rec'[r].link # None => rec'[rec'[r].link] # None
    <3>0. row # None /\ None \notin Record /\ None \notin RecordRow
      BY <2>2, TablesAssumption
    <3>1. \A r \in Record : rec[r] # None => rec'[r] # None
      BY <1>3, <2>4, <3>0
    <3>2. rec'[j] # None
      BY <1>3, <2>5, <3>0
    <3>3. \A r \in Record : rec'[r] # None =>
            rec'[r].link \in {row.link, j} \/ (rec[r] # None /\ rec'[r].link = rec[r].link)
      BY <1>3, <2>4, <3>0 DEF RecordRow
    <3>4. \A r \in Record : rec'[r] # None => (rec'[r].link # None => rec'[rec'[r].link] # None)
      BY <1>3, <2>2, <2>4, <3>1, <3>2, <3>3 DEF Record
    <3>5. \A r \in Record : rec'[r] # None =>
            /\ Placed(pipe, stage, rec'[r])
            /\ rec'[r].closedAt <=> rec'[r].status # "open"
      <4>1. ASSUME NEW r \in Record, r # j, r = row.link
            PROVE  /\ rec[r] # None /\ rec'[r].stage = rec[r].stage /\ rec'[r].pipeline = rec[r].pipeline
                   /\ rec'[r].status = rec[r].status /\ rec'[r].closedAt = rec[r].closedAt
        BY <1>3, <2>4, <3>0, <4>1 DEF RecordRow
      <4>2. \A r \in Record : r # j /\ r # row.link => rec'[r] = rec[r]
        BY <1>3
      <4>3. rec'[j] = row
        BY <1>3, <2>5
      <4>4. Placed(pipe, stage, row) /\ (row.closedAt <=> row.status # "open")
        BY <2>2, <2>3
      <4>5. ASSUME NEW r \in Record, rec'[r] # None, r # j
            PROVE  /\ Placed(pipe, stage, rec'[r])
                   /\ rec'[r].closedAt <=> rec'[r].status # "open"
        <5>1. CASE r = row.link
          BY <2>4, <4>1, <4>5, <5>1 DEF Placed
        <5>2. CASE r # row.link
          BY <2>4, <4>2, <4>5, <5>2
        <5>. QED
          BY <5>1, <5>2
      <4>. QED
        BY <4>3, <4>4, <4>5
    <3>. QED
      BY <3>4, <3>5
  <2>8. \A k \in Job \ {j} : rec[k] = None => rec'[k] = None
    BY <1>3, <2>2, TablesAssumption DEF Record
  <2>9. ASSUME NEW r \in Record, lock[r] \notin {None, j} PROVE rec'[r] = rec[r]
    <3>1. r # j /\ r # row.link
      BY <1>3, <2>5, <2>9, TablesAssumption
    <3>. QED
      BY <1>3, <3>1
  <2>. QED
    BY <1>1, <1>3, <2>6, <2>7, <2>8, <2>9, RecordsCommitKeeps DEF Succeed, OneRecord
<1>. QED
  BY <1>2, <1>3 DEF Insert

LEMMA ReadRecordKeeps == ASSUME IInv, NEW j \in Job, ReadRecord(j) PROVE IInv'
<1>. DEFINE o == req[j]
            row == rec[o.at.rec]
            what == [seen[j] EXCEPT !.row = row]
            next == IF o.op \in {"move", "close"} THEN "read" ELSE "located"
<1>1. pc[j] = "idle" /\ MayBegin(j) /\ o.op \in OneRecord /\ o.at.rec \in OldRecord
  BY OpFields, ReqTyped DEF ReadRecord, Starts, IInv
<1>2. CASE Fail(j, "not_found") \/ Fail(j, "version_conflict") \/ Fail(j, "refused")
  BY <1>1, <1>2, FailKeeps DEF Failure
<1>3. CASE /\ row # None
           /\ VersionMatches(o.at.expected, row.version)
           /\ o.op = "touch" /\ o.link # None => rec[o.link] # None
           /\ Reads(j, what, next)
  <2>1. what \in SeenRow /\ what.row = row /\ what.next >= 1 /\ what.stage = None
    BY <1>1, <1>3, SeenTyped DEF SeenRow, Record, IInv, TypeOK, HasRead, Known
  <2>. HIDE DEF what
  <2>2. Known(j, what, next) /\ Stands(j, what, next)
    BY <1>1, <1>3, <2>1 DEF Known, Stands
  <2>3. next \in Where
    BY DEF Where
  <2>. QED
    BY <1>1, <1>3, <2>1, <2>2, <2>3, ReadKeeps DEF what
<1>. QED
  BY <1>2, <1>3 DEF ReadRecord

LEMMA FindStageKeeps == ASSUME IInv, NEW j \in Job, FindStage(j) PROVE IInv'
<1>. DEFINE o == req[j]
            p == seen[j].row.pipeline
            found == IF o.op = "move" THEN {o.stage} \cap StagesOf(p)
                     ELSE FirstOf({s \in StagesOf(p) : stage[s].outcome = o.status})
<1>1. /\ pc[j] = "read" /\ o.op \in {"move", "close"}
      /\ seen[j] \in SeenRow /\ seen[j].row # None /\ seen[j].next >= 1
  BY SeenTyped DEF FindStage, At, IInv, HasRead, Known
<1>2. CASE Fail(j, "refused")
  BY <1>1, <1>2, FailKeeps DEF Failure
<1>3. CASE o.op = "close" /\ Reads(j, seen[j], "located")
  <2>1. Known(j, seen[j], "located")
    BY <1>1, <1>3 DEF Known
  <2>2. store = "sqlite" => Stands(j, seen[j], "read")
    BY <1>1 DEF IInv, ReadStands
  <2>3. store = "sqlite" => Stands(j, seen[j], "located")
    BY <1>1, <2>2 DEF Stands, IInv, HasRead, Known
  <2>. QED
    BY <1>1, <1>3, <2>1, <2>3, ReadKeeps DEF Where
<1>4. ASSUME NEW s \in found,
             Reads(j, [seen[j] EXCEPT !.stage = s, !.outcome = stage[s].outcome], "located")
      PROVE  IInv'
  <2>. DEFINE what == [seen[j] EXCEPT !.stage = s, !.outcome = stage[s].outcome]
  <2>1. s \in Stage /\ stage[s] # None /\ stage[s].pipeline = p
    BY <1>1 DEF FirstOf, StagesOf
  <2>2. /\ what \in SeenRow /\ what.row = seen[j].row /\ what.stage = s /\ what.next >= 1
    BY <1>1, <2>1 DEF SeenRow, IInv, TypeOK, StageRow
  <2>3. Known(j, what, "located")
    BY <1>1, <2>1, <2>2, TablesAssumption DEF Known
  <2>4. store = "sqlite" => Stands(j, seen[j], "read")
    BY <1>1 DEF IInv, ReadStands
  <2>. HIDE DEF what
  <2>5. store = "sqlite" => Stands(j, what, "located")
    BY <1>1, <2>1, <2>2, <2>4 DEF Stands
  <2>. QED
    BY <1>1, <1>4, <2>2, <2>3, <2>5, ReadKeeps DEF Where, what
<1>. QED
  BY <1>2, <1>3, <1>4 DEF FindStage

\* What an UPDATE of one record leaves: the status and the date go together, the row
\* stays in its pipeline, and goes to no stage and no link but those that were read
\* or asked for.
LEMMA PatchFits ==
  ASSUME NEW o \in Operation, o.op \in OneRecord \ {"delete"},
         NEW what \in SeenRow, NEW row \in RecordRow, row.closedAt <=> row.status # "open",
         o.op = "move" => what.stage # None /\ what.row # None
  PROVE  LET new == Patch(o, what, row)
         IN /\ new \in RecordRow
            /\ new.closedAt <=> new.status # "open"
            /\ new.pipeline = row.pipeline
            /\ new.version = row.version
            /\ new.stage = row.stage
                 \/ (o.op \in {"move", "close"} /\ what.stage # None /\ new.stage = what.stage)
            /\ new.link = row.link \/ (o.op = "touch" /\ o.link # None /\ new.link = o.link)
<1>1. CASE o.op = "move"
  <2>1. what.stage \in Stage
    BY <1>1 DEF SeenRow
  <2>2. Patch(o, what, row) \in {MoveDeal(what, row), MoveLead(what, row)}
    BY <1>1 DEF Patch, RecordRow, Kind
  <2>. DEFINE moved == [row EXCEPT !.stage = what.stage]
  <2>3. /\ moved \in RecordRow /\ moved.pipeline = row.pipeline /\ moved.version = row.version
        /\ moved.stage = what.stage /\ moved.link = row.link
        /\ moved.status = row.status /\ moved.closedAt = row.closedAt
    BY <2>1 DEF RecordRow
  <2>4. MoveLead(what, row) = moved
    BY DEF MoveLead
  <2>5. \/ MoveDeal(what, row) = moved
        \/ MoveDeal(what, row) = [moved EXCEPT !.status = "open", !.closedAt = FALSE]
        \/ \E c \in Closed : MoveDeal(what, row) = [moved EXCEPT !.status = c, !.closedAt = TRUE]
    BY DEF MoveDeal, Closing, Opened
  <2>. HIDE DEF moved
  <2>6. ASSUME NEW n,
               \/ n = moved
               \/ n = [moved EXCEPT !.status = "open", !.closedAt = FALSE]
               \/ \E c \in Closed : n = [moved EXCEPT !.status = c, !.closedAt = TRUE]
        PROVE  /\ n \in RecordRow /\ (n.closedAt <=> n.status # "open") /\ n.pipeline = row.pipeline
               /\ n.version = row.version /\ n.stage = what.stage /\ n.link = row.link
    <3>1. CASE n = moved
      BY <2>3, <3>1
    <3>2. CASE n = [moved EXCEPT !.status = "open", !.closedAt = FALSE]
      BY <2>3, <3>2 DEF RecordRow
    <3>3. ASSUME NEW c \in Closed, n = [moved EXCEPT !.status = c, !.closedAt = TRUE]
          PROVE  /\ n \in RecordRow /\ (n.closedAt <=> n.status # "open") /\ n.pipeline = row.pipeline
                 /\ n.version = row.version /\ n.stage = what.stage /\ n.link = row.link
      BY <2>3, <3>3 DEF RecordRow, Closed
    <3>. QED
      BY <2>6, <3>1, <3>2, <3>3
  <2>. QED
    BY <1>1, <2>1, <2>2, <2>4, <2>5, <2>6
<1>2. CASE o.op = "close"
  <2>1. o.status \in Closed
    BY <1>2, OpFields
  <2>2. Patch(o, what, row) = Close(o, what, row)
    BY <1>2 DEF Patch
  <2>. DEFINE at == [row EXCEPT !.stage = IF what.stage = None THEN row.stage ELSE what.stage]
  <2>3. /\ at \in RecordRow /\ at.pipeline = row.pipeline /\ at.version = row.version
        /\ at.link = row.link
        /\ at.stage = row.stage \/ (what.stage # None /\ at.stage = what.stage)
    BY DEF RecordRow, SeenRow
  <2>4. Close(o, what, row) = [at EXCEPT !.status = o.status, !.closedAt = TRUE]
    BY DEF Close, Closing
  <2>. HIDE DEF at
  <2>. QED
    BY <1>2, <2>1, <2>2, <2>3, <2>4 DEF RecordRow, Closed
<1>3. CASE o.op = "reopen"
  <2>1. Patch(o, what, row) = [row EXCEPT !.status = "open", !.closedAt = FALSE]
    BY <1>3 DEF Patch, Opened
  <2>. QED
    BY <1>3, <2>1 DEF RecordRow
<1>4. CASE o.op = "touch"
  <2>1. o.link \in OldRecord \cup {None}
    BY <1>4, OpFields DEF OneRecord
  <2>2. Patch(o, what, row) = IF o.link # None THEN [row EXCEPT !.link = o.link] ELSE row
    BY <1>4 DEF Patch
  <2>. QED
    BY <1>4, <2>1, <2>2 DEF RecordRow, Record
<1>. QED
  BY <1>1, <1>2, <1>3, <1>4 DEF OneRecord

LEMMA UpdateRecordKeeps == ASSUME IInv, NEW j \in Job, UpdateRecord(j) PROVE IInv'
<1>. DEFINE o == req[j]
            r == o.at.rec
            row == rec[r]
            new == Patch(o, seen[j], row)
            bumped == [new EXCEPT !.version = row.version + Bumps(o, row)]
<1>1. /\ pc[j] = "located" /\ o.op \in OneRecord \ {"delete"} /\ o \in Operation
      /\ r \in Record /\ seen[j] \in SeenRow /\ Known(j, seen[j], "located")
      /\ store = "sqlite" => Stands(j, seen[j], "located")
  BY OpFields, ReqTyped, SeenTyped DEF UpdateRecord, At, IInv, HasRead, ReadStands, Record
<1>2. CASE Fail(j, "not_found")
  BY <1>1, <1>2, FailKeeps DEF Failure
<1>3. CASE /\ row # None
           /\ lock[r] = None
           /\ KeysHold(row, new)
           /\ rec' = [rec EXCEPT ![r] = bumped]
           /\ End(j, "ok", row.version)
           /\ UNCHANGED <<pipe, stage>>
  <2>1. /\ row \in RecordRow /\ Placed(pipe, stage, row) /\ row.stage \in Stage
        /\ row.closedAt <=> row.status # "open"
        /\ row.link # None => rec[row.link] # None
    BY <1>1, <1>3, StageInPipelineMeans DEF IInv, TypeOK, ClosedIffDated, LinkedRecordExists
  <2>2. /\ new \in RecordRow
        /\ new.closedAt <=> new.status # "open"
        /\ new.pipeline = row.pipeline
        /\ new.version = row.version
        /\ new.stage = row.stage
             \/ (o.op \in {"move", "close"} /\ seen[j].stage # None /\ new.stage = seen[j].stage)
        /\ new.link = row.link \/ (o.op = "touch" /\ o.link # None /\ new.link = o.link)
    BY <1>1, <2>1, PatchFits DEF Known
  <2>. HIDE DEF new
  <2>3. bumped \in RecordRow /\ bumped.link = new.link /\ bumped.stage = new.stage
        /\ bumped.pipeline = new.pipeline /\ bumped.status = new.status /\ bumped.closedAt = new.closedAt
    BY <2>1, <2>2 DEF RecordRow, Bumps
  <2>4. Placed(pipe, stage, new)
    <3>1. CASE new.stage = row.stage
      BY <2>1, <2>2, <3>1 DEF Placed
    <3>2. CASE store = "postgres" /\ new.stage # row.stage
      BY <1>3, <3>2 DEF KeysHold, StageKeyHolds, StagesOf, Placed
    <3>3. CASE store = "sqlite" /\ new.stage # row.stage
      BY <1>1, <2>1, <2>2, <3>3 DEF Stands, Placed
    <3>. QED
      BY <3>1, <3>2, <3>3 DEF IInv, TypeOK
  <2>5. new.link # None => rec[new.link] # None
    <3>1. CASE new.link = row.link
      BY <2>1, <3>1
    <3>2. CASE store = "postgres" /\ new.link # row.link
      BY <1>3, <3>2 DEF KeysHold, LinkKeyHolds
    <3>3. CASE store = "sqlite" /\ new.link # row.link
      BY <1>1, <2>2, <3>3 DEF Stands
    <3>. QED
      BY <3>1, <3>2, <3>3 DEF IInv, TypeOK
  <2>. HIDE DEF bumped
  <2>6. /\ rec' \in [Record -> RecordRow \cup {None}] /\ rec'[r] = bumped /\ bumped # None
        /\ \A q \in Record \ {r} : rec'[q] = rec[q]
        /\ rec[r] # None
    BY <1>1, <1>3, <2>3, TablesAssumption DEF IInv, TypeOK
  <2>7. ASSUME NEW q \in Record, rec'[q] # None
        PROVE  /\ Placed(pipe, stage, rec'[q])
               /\ rec'[q].closedAt <=> rec'[q].status # "open"
               /\ rec'[q].link # None => rec'[rec'[q].link] # None
    <3>1. \A x \in Record : rec[x] # None => rec'[x] # None
      BY <2>6
    <3>2. CASE q = r
      BY <2>2, <2>3, <2>4, <2>5, <2>6, <3>1, <3>2 DEF Placed, RecordRow
    <3>3. CASE q # r
      <4>1. rec'[q] = rec[q] /\ rec[q] \in RecordRow
        BY <2>6, <2>7, <3>3 DEF IInv, TypeOK
      <4>2. Placed(pipe, stage, rec[q]) /\ (rec[q].closedAt <=> rec[q].status # "open")
        BY <2>7, <4>1, StageInPipelineMeans DEF IInv, ClosedIffDated
      <4>3. rec[q].link # None => rec[q].link \in Record /\ rec[rec[q].link] # None
        BY <2>7, <4>1 DEF IInv, LinkedRecordExists, RecordRow
      <4>. QED
        BY <3>1, <4>1, <4>2, <4>3
    <3>. QED
      BY <3>2, <3>3
  <2>8. store = "sqlite" => o.at.expected \in {None, row.version}
    BY <1>1 DEF Stands, VersionMatches
  <2>9. row.version \in Nat
    BY <2>1 DEF RecordRow
  <2>10. \A q \in Record : lock[q] \notin {None, j} => rec'[q] = rec[q]
    BY <1>3, <2>6
  <2>11. \A k \in Job \ {j} : rec[k] = None => rec'[k] = None
    BY <2>6 DEF Record
  <2>. QED
    BY <1>1, <1>3, <2>6, <2>7, <2>8, <2>9, <2>10, <2>11, RecordsCommitKeeps
<1>. QED
  BY <1>2, <1>3 DEF UpdateRecord

LEMMA DeleteRecordKeeps == ASSUME IInv, NEW j \in Job, DeleteRecord(j) PROVE IInv'
<1>. DEFINE r == req[j].at.rec
<1>1. /\ pc[j] = "located" /\ req[j].op = "delete"
      /\ rec' = WithoutRecord(r)
      /\ \A q \in Record : q = r \/ (rec[q] # None /\ rec[q].link = r) => lock[q] = None
      /\ UNCHANGED <<pipe, stage>> /\ End(j, "ok", 0)
  BY DEF DeleteRecord, At, Succeed
<1>2. \A q \in Record : rec'[q] =
        IF q = r \/ rec[q] = None THEN None
        ELSE IF rec[q].link = r THEN [rec[q] EXCEPT !.link = None] ELSE rec[q]
  BY <1>1 DEF WithoutRecord
<1>3. ASSUME NEW q \in Record, rec[q] # None, rec[q].link = r
      PROVE  [rec[q] EXCEPT !.link = None] \in RecordRow
  <2>1. rec[q] \in RecordRow
    BY <1>3 DEF IInv, TypeOK
  <2>. QED
    BY <2>1 DEF RecordRow
<1>4. rec' \in [Record -> RecordRow \cup {None}]
  BY <1>1, <1>2, <1>3 DEF WithoutRecord, IInv, TypeOK
<1>5. ASSUME NEW q \in Record, rec'[q] # None
      PROVE  /\ Placed(pipe, stage, rec'[q])
             /\ rec'[q].closedAt <=> rec'[q].status # "open"
             /\ rec'[q].link # None => rec'[rec'[q].link] # None
  <2>1. q # r /\ rec[q] # None /\ rec[q] \in RecordRow
    BY <1>2, <1>5 DEF IInv, TypeOK
  <2>2. /\ Placed(pipe, stage, rec[q]) /\ (rec[q].closedAt <=> rec[q].status # "open")
        /\ rec[q].link # None => rec[q].link \in Record /\ rec[rec[q].link] # None
    BY <2>1, StageInPipelineMeans DEF IInv, ClosedIffDated, LinkedRecordExists, RecordRow
  <2>3. CASE rec[q].link = r
    <3>1. rec'[q] = [rec[q] EXCEPT !.link = None]
      BY <1>2, <2>1, <2>3
    <3>. QED
      BY <2>1, <2>2, <3>1 DEF Placed, RecordRow
  <2>4. CASE rec[q].link # r
    <3>1. rec'[q] = rec[q]
      BY <1>2, <2>1, <2>4
    <3>2. \A x \in Record : rec[x] # None /\ x # r => rec'[x] # None
      <4>1. None \notin RecordRow
        BY TablesAssumption
      <4>. QED
        BY <1>2, <1>3, <4>1
    <3>. QED
      BY <2>2, <2>4, <3>1, <3>2
  <2>. QED
    BY <2>3, <2>4
<1>6. \A q \in Record : lock[q] \notin {None, j} => rec'[q] = rec[q]
  BY <1>1, <1>2
<1>7. \A k \in Job \ {j} : rec[k] = None => rec'[k] = None
  BY <1>2 DEF Record
<1>. QED
  BY <1>1, <1>4, <1>5, <1>6, <1>7, RecordsCommitKeeps

LEMMA BulkBeginKeeps == ASSUME IInv, NEW j \in Job, BulkBegin(j) PROVE IInv'
<1>. DEFINE o == req[j]
            known == o.op = "bulk_move" => stage[o.stage] # None
            p == IF o.op = "bulk_move" /\ known THEN stage[o.stage].pipeline ELSE None
            what == [seen[j] EXCEPT !.pipeline = p]
<1>1. pc[j] = "idle" /\ MayBegin(j) /\ o.op \in Bulk
  BY DEF BulkBegin, Starts
<1>2. CASE Fail(j, "not_found")
  BY <1>1, <1>2, FailKeeps DEF Failure
<1>3. CASE known /\ Reads(j, what, "bulk")
  <2>1. p \in Pipeline \cup {None}
    BY OpFields, ReqTyped DEF IInv, TypeOK, Stage, StageRow
  <2>2. what \in SeenRow /\ what.pipeline = p /\ what.next >= 1
    BY <2>1, SeenTyped DEF SeenRow, IInv, HasRead, Known
  <2>. HIDE DEF what
  <2>3. Known(j, what, "bulk") /\ Stands(j, what, "bulk")
    BY <1>1, <1>3, <2>2 DEF Known, Stands
  <2>. QED
    BY <1>1, <1>3, <2>2, <2>3, ReadKeeps DEF Where
<1>. QED
  BY <1>2, <1>3 DEF BulkBegin

LEMMA ItemTyped ==
  ASSUME IInv, NEW j \in Job, req[j].op \in Bulk, seen[j].next <= Len(BulkIds(j))
  PROVE  /\ Item(j) = req[j].ids[seen[j].next]
         /\ Item(j) \in Record
         /\ NextItem(j) \in SeenRow
         /\ NextItem(j).next >= 1
         /\ NextItem(j).pipeline = seen[j].pipeline
<1>1. req[j].ids \in Seq(OldRecord)
  BY OpFields, ReqTyped DEF IInv
<1>2. seen[j].next \in Nat /\ seen[j].next >= 1 /\ seen[j] \in SeenRow
  BY SeenTyped DEF IInv, HasRead, Known
<1>3. seen[j].next \in 1..Len(req[j].ids)
  BY <1>1, <1>2 DEF BulkIds
<1>. QED
  BY <1>1, <1>2, <1>3 DEF Item, BulkIds, NextItem, SeenRow, Record

\* What a transaction sees of a record is a row of it in a stage there is, that
\* differs from the committed one in its stage and version at most.
LEMMA OwnRowFits ==
  ASSUME IInv, NEW j \in Job, NEW r \in Record
  PROVE  LET row == OwnRow(j, r)
         IN /\ row \in RecordRow \cup {None}
            /\ row # None <=> rec[r] # None
            /\ row # None => /\ row \in RecordRow /\ Placed(pipe, stage, row)
                             /\ row.status = rec[r].status /\ row.closedAt = rec[r].closedAt
                             /\ row.link = rec[r].link /\ row.pipeline = rec[r].pipeline
  BY StageInPipelineMeans, TablesAssumption DEF OwnRow, IInv, TypeOK, LocksFit, Record

LEMMA BulkReadKeeps == ASSUME IInv, NEW j \in Job, BulkRead(j) PROVE IInv'
<1>. DEFINE o == req[j]
            skip == o.op = "bulk_move" /\ Item(j) \notin Movable(o, seen[j].pipeline)
            what == [seen[j] EXCEPT !.row = OwnRow(j, Item(j))]
<1>1. /\ pc[j] = "bulk" /\ o.op \in Bulk /\ seen[j].next <= Len(BulkIds(j))
      /\ seen[j] \in SeenRow /\ Known(j, seen[j], "bulk")
      /\ store = "sqlite" => Stands(j, seen[j], "bulk")
  BY SeenTyped DEF BulkRead, At, IInv, HasRead, ReadStands
<1>2. /\ Item(j) = req[j].ids[seen[j].next] /\ Item(j) \in Record
      /\ NextItem(j) \in SeenRow /\ NextItem(j).next >= 1
      /\ NextItem(j).pipeline = seen[j].pipeline
  BY <1>1, ItemTyped
<1>3. CASE Reads(j, NextItem(j), "bulk")
  <2>1. Known(j, NextItem(j), "bulk")
    BY <1>2 DEF Known
  <2>2. store = "sqlite" => Stands(j, NextItem(j), "bulk")
    BY <1>1, <1>2 DEF Stands
  <2>. QED
    BY <1>1, <1>2, <1>3, <2>1, <2>2, ReadKeeps DEF Where
<1>4. CASE ~skip /\ Reads(j, what, "bulk_write")
  <2>1. /\ what \in SeenRow /\ what.row = OwnRow(j, Item(j)) /\ what.next = seen[j].next
        /\ what.pipeline = seen[j].pipeline
        /\ rec[Item(j)] # None => what.row # None
    BY <1>1, <1>2, OwnRowFits DEF SeenRow, IInv, TypeOK
  <2>2. o.op = "bulk_move" => rec[Item(j)] # None /\ rec[Item(j)].pipeline = seen[j].pipeline
    BY <1>4 DEF Movable
  <2>. HIDE DEF what
  <2>3. Known(j, what, "bulk_write")
    BY <1>1, <2>1, <2>2 DEF Known
  <2>4. store = "sqlite" => Stands(j, what, "bulk_write")
    BY <1>1, <1>2, <2>1, <2>2 DEF Stands
  <2>. QED
    BY <1>1, <1>4, <2>1, <2>3, <2>4, ReadKeeps DEF Where
<1>. QED
  BY <1>3, <1>4 DEF BulkRead

LEMMA BulkPatchFits ==
  ASSUME NEW o \in Operation, o.op \in Bulk, NEW what \in SeenRow, NEW row \in RecordRow
  PROVE  LET new == BulkPatch(o, what, row)
         IN /\ new \in RecordRow
            /\ new.pipeline = row.pipeline /\ new.status = row.status
            /\ new.closedAt = row.closedAt /\ new.link = row.link
            /\ new.stage = row.stage \/ (o.op = "bulk_move" /\ new.stage = o.stage)
<1>0. row.version + 1 \in Nat /\ row.version + 2 \in Nat
  BY DEF RecordRow
<1>1. CASE o.op = "bulk_touch"
  <2>1. BulkPatch(o, what, row) = [row EXCEPT !.version = row.version + 1]
    BY <1>1 DEF BulkPatch
  <2>. QED
    BY <1>0, <2>1 DEF RecordRow
<1>2. CASE o.op = "bulk_move"
  <2>1. o.stage \in Stage
    BY <1>2, OpFields DEF Stage
  <2>. DEFINE moved == [row EXCEPT !.stage = o.stage]
  <2>2. /\ moved \in RecordRow /\ moved.stage = o.stage /\ moved.pipeline = row.pipeline
        /\ moved.status = row.status /\ moved.closedAt = row.closedAt /\ moved.link = row.link
        /\ moved.version = row.version
    BY <2>1 DEF RecordRow
  <2>3. \E n \in Nat : BulkPatch(o, what, row) = [moved EXCEPT !.version = n]
    BY <1>0, <1>2 DEF BulkPatch
  <2>. HIDE DEF moved
  <2>. QED
    BY <1>2, <2>2, <2>3 DEF RecordRow
<1>. QED
  BY <1>1, <1>2 DEF Bulk

LEMMA BulkWriteKeeps == ASSUME IInv, NEW j \in Job, BulkWrite(j) PROVE IInv'
<1>. DEFINE o == req[j]
            r == Item(j)
            row == OwnRow(j, r)
            new == BulkPatch(o, seen[j], row)
<1>1. /\ pc[j] = "bulk_write" /\ o.op \in Bulk /\ o \in Operation /\ lock[r] \in {None, j}
      /\ seen[j] \in SeenRow /\ Known(j, seen[j], "bulk_write")
      /\ store = "sqlite" => Stands(j, seen[j], "bulk_write")
  BY ReqTyped, SeenTyped DEF BulkWrite, At, IInv, HasRead, ReadStands
<1>2. /\ r = req[j].ids[seen[j].next] /\ r \in Record
      /\ NextItem(j) \in SeenRow /\ NextItem(j).next >= 1
      /\ NextItem(j).pipeline = seen[j].pipeline
  BY <1>1, ItemTyped DEF Known
<1>3. Known(j, NextItem(j), "bulk")
  BY <1>2 DEF Known
<1>4. store = "sqlite" => Stands(j, NextItem(j), "bulk")
  BY <1>1, <1>2 DEF Stands
<1>5. CASE Fail(j, "not_found")
  BY <1>1, <1>5, FailKeeps DEF Failure
<1>6. CASE Reads(j, NextItem(j), "bulk")
  BY <1>1, <1>2, <1>3, <1>4, <1>6, ReadKeeps DEF Where
<1>7. CASE /\ row # None
           /\ KeysHold(row, new)
           /\ lock' = [lock EXCEPT ![r] = j]
           /\ draft' = [draft EXCEPT ![r] = new]
           /\ seen' = [seen EXCEPT ![j] = NextItem(j)]
           /\ Goto(j, "bulk")
           /\ UNCHANGED <<tables, plock, res>>
  <2>1. /\ row \in RecordRow /\ Placed(pipe, stage, row) /\ rec[r] # None
        /\ row.status = rec[r].status /\ row.closedAt = rec[r].closedAt /\ row.link = rec[r].link
        /\ row.pipeline = rec[r].pipeline
    BY <1>2, <1>7, OwnRowFits
  <2>2. /\ new \in RecordRow
        /\ new.pipeline = row.pipeline /\ new.status = row.status
        /\ new.closedAt = row.closedAt /\ new.link = row.link
        /\ new.stage = row.stage \/ (o.op = "bulk_move" /\ new.stage = o.stage)
    BY <1>1, <2>1, BulkPatchFits
  <2>. HIDE DEF new
  <2>3. Placed(pipe, stage, new)
    <3>1. CASE new.stage = row.stage
      BY <2>1, <2>2, <3>1 DEF Placed
    <3>2. CASE store = "postgres" /\ new.stage # row.stage
      BY <1>7, <3>2 DEF KeysHold, StageKeyHolds, StagesOf, Placed
    <3>3. CASE store = "sqlite" /\ new.stage # row.stage
      BY <1>1, <1>2, <2>1, <2>2, <3>3 DEF Stands, Placed
    <3>. QED
      BY <3>1, <3>2, <3>3 DEF IInv, TypeOK
  <2>4. /\ UNCHANGED <<store, pipe, stage, rec, plock, req, res>>
        /\ lock' \in [Record -> Job \cup {None}] /\ lock'[r] = j
        /\ draft' \in [Record -> RecordRow \cup {None}] /\ draft'[r] = new
        /\ \A q \in Record \ {r} : lock'[q] = lock[q] /\ draft'[q] = draft[q]
        /\ seen' \in [Job -> SeenRow] /\ seen'[j] = NextItem(j)
        /\ pc' = [pc EXCEPT ![j] = "bulk"] /\ pc'[j] = "bulk"
        /\ \A k \in Job \ {j} : seen'[k] = seen[k] /\ pc'[k] = pc[k]
    BY <1>2, <1>7, <2>2 DEF Goto, tables, IInv, TypeOK, SeenRow
  <2>5. TypeOK'
    BY <2>4 DEF IInv, TypeOK, SeenRow
  <2>6. StageInPipeline' /\ ClosedIffDated' /\ LinkedRecordExists' /\ (store = "sqlite" => OneDefault(pipe))'
    BY <2>4 DEF IInv, StageInPipeline, StagesOf, ClosedIffDated, LinkedRecordExists, OneDefault
  <2>7. GuardedWriteOnSqlite' /\ Alone' /\ Fresh'
    BY <1>1, <2>4 DEF IInv, GuardedWriteOnSqlite, Alone, UnderWay, Fresh
  <2>8. LocksFit'
    <3>1. j # None /\ None \notin RecordRow
      BY TablesAssumption DEF Record
    <3>2. ASSUME NEW q \in Record
          PROVE  IF lock'[q] = None THEN draft'[q] = None
                 ELSE /\ rec[q] # None
                      /\ draft'[q] # None
                      /\ Placed(pipe, stage, draft'[q])
                      /\ draft'[q].status = rec[q].status
                      /\ draft'[q].closedAt = rec[q].closedAt
                      /\ draft'[q].link = rec[q].link
                      /\ draft'[q].pipeline = rec[q].pipeline
      <4>1. CASE q = r
        BY <2>1, <2>2, <2>3, <2>4, <3>1, <4>1
      <4>2. CASE q # r
        BY <2>4, <4>2 DEF IInv, LocksFit
      <4>. QED
        BY <4>1, <4>2
    <3>. QED
      BY <2>4, <3>2 DEF IInv, LocksFit, Placed
  <2>9. HasRead'
    BY <1>3, <2>4 DEF IInv, HasRead, Known, BulkIds
  <2>10. ReadStands'
    <3>1. \A k \in Job : \A w : Stands(k, w, "bulk")' <=> Stands(k, w, "bulk")
      BY <2>4 DEF Stands
    <3>. QED
      BY <1>1, <1>4, <2>4, <3>1, EndsAlone DEF ReadStands, Stands
  <2>. QED
    BY <2>5, <2>6, <2>7, <2>8, <2>9, <2>10 DEF IInv
<1>. QED
  BY <1>1, <1>5, <1>6, <1>7 DEF BulkWrite

LEMMA BulkCommitKeeps == ASSUME IInv, NEW j \in Job, BulkCommit(j) PROVE IInv'
<1>1. /\ pc[j] = "bulk" /\ req[j].op \in Bulk
      /\ rec' = [r \in Record |-> IF lock[r] = j THEN draft[r] ELSE rec[r]]
      /\ UNCHANGED <<pipe, stage>> /\ End(j, "ok", 0)
      /\ j # None
  BY TablesAssumption DEF BulkCommit, OwnRow, At, Succeed, Record
<1>2. rec' \in [Record -> RecordRow \cup {None}]
  BY <1>1 DEF IInv, TypeOK
<1>3. \A r \in Record : rec'[r] # None <=> rec[r] # None
  BY <1>1 DEF IInv, LocksFit
<1>4. ASSUME NEW r \in Record, rec'[r] # None
      PROVE  /\ Placed(pipe, stage, rec'[r])
             /\ rec'[r].closedAt <=> rec'[r].status # "open"
             /\ rec'[r].link # None => rec'[rec'[r].link] # None
  <2>1. rec[r] # None /\ rec[r] \in RecordRow
    BY <1>3, <1>4 DEF IInv, TypeOK
  <2>2. /\ Placed(pipe, stage, rec[r]) /\ (rec[r].closedAt <=> rec[r].status # "open")
        /\ rec[r].link # None => rec[r].link \in Record /\ rec[rec[r].link] # None
    BY <2>1, StageInPipelineMeans DEF IInv, ClosedIffDated, LinkedRecordExists, RecordRow
  <2>3. Placed(pipe, stage, rec'[r]) /\ rec'[r].status = rec[r].status
        /\ rec'[r].closedAt = rec[r].closedAt /\ rec'[r].link = rec[r].link
    BY <1>1, <2>2 DEF IInv, LocksFit
  <2>. QED
    BY <1>3, <2>2, <2>3
<1>5. \A r \in Record : lock[r] \notin {None, j} => rec'[r] = rec[r]
  BY <1>1
<1>6. \A k \in Job \ {j} : rec[k] = None => rec'[k] = None
  BY <1>3 DEF Record
<1>. QED
  BY <1>1, <1>2, <1>4, <1>5, <1>6, RecordsCommitKeeps DEF Bulk, OneRecord

LEMMA DeadlockAbortKeeps == ASSUME IInv, NEW j \in Job, DeadlockAbort(j) PROVE IInv'
BY FailKeeps DEF DeadlockAbort, Deadlocked, WaitsFor, Failure

\* The records and the drafts are where they were.
LEMMA AllPlaced ==
  ASSUME IInv
  PROVE  \A r \in Record : /\ rec[r] # None => rec[r] \in RecordRow /\ Placed(pipe, stage, rec[r])
                           /\ draft[r] # None => draft[r] \in RecordRow /\ Placed(pipe, stage, draft[r])
BY StageInPipelineMeans DEF IInv, TypeOK, LocksFit

LEMMA DefaultBeginKeeps == ASSUME IInv, NEW j \in Job, DefaultBegin(j) PROVE IInv'
<1>. DEFINE o == req[j]
            known == o.op = "set_default" => pipe[o.pipeline] # None
            type == IF o.op = "new_pipeline" THEN o.type ELSE pipe[o.pipeline].type
            where == IF o.op = "new_pipeline" /\ ~o.isDefault THEN "cleared" ELSE "defaulting"
            what == [seen[j] EXCEPT !.type = type]
<1>1. pc[j] = "idle" /\ MayBegin(j) /\ o.op \in {"set_default", "new_pipeline"} /\ o \in Operation
  BY ReqTyped DEF DefaultBegin, Starts, IInv
<1>2. CASE Fail(j, "not_found")
  BY <1>1, <1>2, FailKeeps DEF Failure
<1>3. CASE known /\ Reads(j, what, where)
  <2>1. type \in Kind
    BY <1>1, <1>3, OpFields DEF IInv, TypeOK, PipelineRow, Pipeline
  <2>2. what \in SeenRow /\ what.type = type /\ what.next >= 1
    BY <2>1, SeenTyped DEF SeenRow, IInv, HasRead, Known
  <2>. HIDE DEF what
  <2>3. Known(j, what, where) /\ Stands(j, what, where)
    BY <1>1, <1>3, <2>2 DEF Known, Stands
  <2>4. where \in Where
    BY DEF Where
  <2>. QED
    BY <1>1, <1>3, <2>2, <2>3, <2>4, ReadKeeps
<1>. QED
  BY <1>2, <1>3 DEF DefaultBegin

LEMMA ClearBeginKeeps == ASSUME IInv, NEW j \in Job, ClearBegin(j) PROVE IInv'
<1>. DEFINE what == [seen[j] EXCEPT !.rows = OfType(seen[j].type)]
<1>1. /\ pc[j] = "defaulting" /\ req[j].op \in {"set_default", "new_pipeline"}
      /\ Reads(j, what, "clearing")
      /\ store = "sqlite" => Stands(j, seen[j], "defaulting")
  BY DEF ClearBegin, At, OfType, IInv, ReadStands
<1>2. /\ what \in SeenRow /\ what.rows = OfType(seen[j].type) /\ what.type = seen[j].type
      /\ what.next >= 1
  BY SeenTyped DEF SeenRow, OfType, IInv, HasRead, Known
<1>. HIDE DEF what
<1>3. Known(j, what, "clearing")
  BY <1>2 DEF Known
<1>4. store = "sqlite" => Stands(j, what, "clearing")
  BY <1>1, <1>2 DEF Stands
<1>. QED
  BY <1>1, <1>2, <1>3, <1>4, ReadKeeps DEF Where

LEMMA ClearKeeps == ASSUME IInv, NEW j \in Job, Clear(j) PROVE IInv'
<1>1. /\ pc[j] = "clearing"
      /\ UNCHANGED <<store, pipe, stage, rec, lock, draft, req, seen, res>>
      /\ plock' = [p \in Pipeline |->
                     IF p \in seen[j].rows /\ pipe[p] # None THEN j ELSE plock[p]]
      /\ pc' = [pc EXCEPT ![j] = "cleared"]
      /\ store = "sqlite" => Stands(j, seen[j], "clearing")
  BY DEF Clear, At, Goto, tables, IInv, ReadStands
<1>2. pc'[j] = "cleared" /\ \A k \in Job \ {j} : pc'[k] = pc[k]
  BY <1>1 DEF IInv, TypeOK
<1>3. TypeOK'
  BY <1>1 DEF IInv, TypeOK
<1>4. StageInPipeline' /\ ClosedIffDated' /\ LinkedRecordExists' /\ (store = "sqlite" => OneDefault(pipe))'
  BY <1>1 DEF IInv, StageInPipeline, StagesOf, ClosedIffDated, LinkedRecordExists, OneDefault
<1>5. GuardedWriteOnSqlite' /\ Alone' /\ Fresh'
  BY <1>1, <1>2 DEF IInv, GuardedWriteOnSqlite, Alone, UnderWay, Fresh
<1>6. LocksFit'
  BY <1>1 DEF IInv, LocksFit, Placed
<1>7. HasRead'
  BY <1>1, <1>2 DEF IInv, HasRead, Known, BulkIds
<1>8. ReadStands'
  <2>1. store = "sqlite" => Stands(j, seen[j], "cleared")'
    BY <1>1 DEF Stands, OfType
  <2>. QED
    BY <1>1, <1>2, <2>1, EndsAlone DEF ReadStands, Stands
<1>. QED
  BY <1>3, <1>4, <1>5, <1>6, <1>7, <1>8 DEF IInv

LEMMA DefaultEndKeeps == ASSUME IInv, NEW j \in Job, DefaultEnd(j) PROVE IInv'
<1>. DEFINE o == req[j]
            p == IF o.op = "set_default" THEN o.pipeline ELSE j
            rows == Cleared(j)
<1>1. /\ pc[j] = "cleared" /\ o.op \in {"set_default", "new_pipeline"} /\ o \in Operation
      /\ p \in Pipeline /\ j \in Pipeline /\ j \in Stage
      /\ plock[p] \in {j, None} /\ UNCHANGED rec /\ Succeed(j)
      /\ store = "sqlite" => Stands(j, seen[j], "cleared")
      /\ pipe[j] = None /\ stage[j] = None /\ j # None
  BY ReqTyped, OpFields, TablesAssumption
     DEF DefaultEnd, At, IInv, Pipeline, Stage, ReadStands, Fresh
<1>2. /\ rows \in [Pipeline -> PipelineRow \cup {None}]
      /\ \A q \in Pipeline : /\ rows[q] = None <=> pipe[q] = None
                             /\ pipe[q] # None => /\ rows[q].type = pipe[q].type
                                                  /\ rows[q].isDefault => pipe[q].isDefault /\ plock[q] # j
  <2>1. \A q \in Pipeline : plock[q] = j => pipe[q] # None
    BY <1>1 DEF IInv, LocksFit
  <2>2. \A q \in Pipeline : pipe[q] # None =>
          /\ pipe[q] \in PipelineRow
          /\ [pipe[q] EXCEPT !.isDefault = FALSE] \in PipelineRow
          /\ [pipe[q] EXCEPT !.isDefault = FALSE].type = pipe[q].type
          /\ [pipe[q] EXCEPT !.isDefault = FALSE].isDefault = FALSE
    <3>1. \A row \in PipelineRow :
            /\ [row EXCEPT !.isDefault = FALSE] \in PipelineRow
            /\ [row EXCEPT !.isDefault = FALSE].type = row.type
            /\ [row EXCEPT !.isDefault = FALSE].isDefault = FALSE
      BY DEF PipelineRow
    <3>2. \A q \in Pipeline : pipe[q] # None => pipe[q] \in PipelineRow
      BY DEF IInv, TypeOK
    <3>. QED
      BY <3>1, <3>2
  <2>3. None \notin PipelineRow
    BY TablesAssumption
  <2>. QED
    BY <2>1, <2>2, <2>3 DEF Cleared, IInv, TypeOK
<1>. HIDE DEF rows
<1>3. store = "sqlite" => OneDefault(rows)
  BY <1>2 DEF IInv, OneDefault
<1>4. CASE o.op = "new_pipeline"
  <2>1. /\ pipe' = [rows EXCEPT ![j] = [type |-> o.type, isDefault |-> o.isDefault]]
        /\ stage' = [stage EXCEPT ![j] = [pipeline |-> j, outcome |-> o.outcome, position |-> 0]]
    BY <1>4 DEF DefaultEnd, rows
  <2>2. /\ [type |-> o.type, isDefault |-> o.isDefault] \in PipelineRow
        /\ [pipeline |-> j, outcome |-> o.outcome, position |-> 0] \in StageRow
    BY <1>1, <1>4, OpFields DEF PipelineRow, StageRow
  <2>3. /\ pipe' \in [Pipeline -> PipelineRow \cup {None}]
        /\ pipe'[j] = [type |-> o.type, isDefault |-> o.isDefault]
        /\ \A q \in Pipeline \ {j} : pipe'[q] = rows[q]
        /\ stage' \in [Stage -> StageRow \cup {None}]
        /\ \A s \in Stage \ {j} : stage'[s] = stage[s]
    BY <1>1, <1>2, <2>1, <2>2 DEF IInv, TypeOK
  <2>4. \A q \in Pipeline : pipe[q] # None => pipe'[q] # None
    BY <1>1, <1>2, <2>3
  <2>5. \A s \in Stage : stage[s] # None => stage'[s] # None /\ stage'[s].pipeline = stage[s].pipeline
    BY <1>1, <2>3
  <2>6. \A r \in Record : /\ rec[r] # None => Placed(pipe', stage', rec[r])
                          /\ draft[r] # None => Placed(pipe', stage', draft[r])
    BY <2>4, <2>5, AllPlaced, PlacedStays
  <2>7. store = "sqlite" => OneDefault(pipe')
    <3>. SUFFICES ASSUME store = "sqlite", NEW q \in Pipeline,
                         rows[q] # None, rows[q].isDefault, rows[q].type = o.type, o.isDefault
                  PROVE  FALSE
      BY <1>3, <2>3 DEF OneDefault
    <3>. QED
      BY <1>1, <1>2, <1>4 DEF Stands, OfType
  <2>8. /\ \A k \in Job \ {j} : /\ pipe[k] = None => pipe'[k] = None
                                /\ stage[k] = None => stage'[k] = None
        /\ \A q \in Pipeline : plock[q] \notin {None, j} => pipe'[q] # None
    BY <1>2, <2>3, <2>4 DEF Pipeline, Stage, IInv, LocksFit
  <2>. QED
    BY <1>1, <1>4, <2>3, <2>6, <2>7, <2>8, TablesCommitKeeps DEF OneRecord
<1>5. CASE o.op = "set_default"
  <2>1. /\ pipe' = IF rows[p] = None THEN rows ELSE [rows EXCEPT ![p].isDefault = TRUE]
        /\ UNCHANGED stage
    BY <1>5 DEF DefaultEnd, rows
  <2>2. \A q \in Pipeline : rows[q] # None =>
          /\ [rows[q] EXCEPT !.isDefault = TRUE] \in PipelineRow
          /\ [rows[q] EXCEPT !.isDefault = TRUE].type = rows[q].type
    BY <1>2 DEF PipelineRow
  <2>3. /\ pipe' \in [Pipeline -> PipelineRow \cup {None}]
        /\ \A q \in Pipeline : rows[q] = None <=> pipe'[q] = None
        /\ \A q \in Pipeline : pipe'[q] # None => pipe'[q].type = rows[q].type
        /\ \A q \in Pipeline \ {p} : pipe'[q] = rows[q]
    BY <1>1, <1>2, <2>1, <2>2, TablesAssumption
  <2>4. \A q \in Pipeline : pipe[q] = None <=> pipe'[q] = None
    BY <1>2, <2>3
  <2>5. \A r \in Record : /\ rec[r] # None => Placed(pipe', stage', rec[r])
                          /\ draft[r] # None => Placed(pipe', stage', draft[r])
    BY <2>1, <2>4, AllPlaced, PlacedStays
  <2>6. store = "sqlite" => OneDefault(pipe')
    <3>. SUFFICES ASSUME store = "sqlite", NEW q \in Pipeline, q # p,
                         rows[q] # None, rows[q].isDefault, pipe'[p] # None,
                         rows[q].type = rows[p].type
                  PROVE  FALSE
      BY <1>1, <1>3, <2>3 DEF OneDefault
    <3>1. pipe[p] # None /\ pipe[p].type = seen[j].type
      BY <1>1, <1>5 DEF Stands
    <3>2. pipe[q] # None /\ pipe[q].type = seen[j].type
      BY <1>1, <1>2, <3>1
    <3>3. plock[q] = j
      BY <1>1, <1>5, <3>2 DEF Stands, OfType
    <3>. QED
      BY <1>2, <3>2, <3>3
  <2>7. /\ \A k \in Job \ {j} : /\ pipe[k] = None => pipe'[k] = None
                                /\ stage[k] = None => stage'[k] = None
        /\ \A q \in Pipeline : plock[q] \notin {None, j} => pipe'[q] # None
    BY <2>1, <2>4 DEF Pipeline, IInv, LocksFit
  <2>8. stage' \in [Stage -> StageRow \cup {None}]
    BY <2>1 DEF IInv, TypeOK
  <2>. QED
    BY <1>1, <1>5, <2>3, <2>5, <2>6, <2>7, <2>8, TablesCommitKeeps DEF OneRecord
<1>. QED
  BY <1>1, <1>4, <1>5

LEMMA DropCheckKeeps == ASSUME IInv, NEW j \in Job, DropCheck(j) PROVE IInv'
<1>. DEFINE o == req[j]
            used == IF o.op = "drop_stage" THEN InStage(o.stage) # {} ELSE InPipeline(o.pipeline) # {}
<1>1. /\ pc[j] = "idle" /\ MayBegin(j) /\ o.op \in {"drop_pipeline", "drop_stage"}
      /\ seen[j] \in SeenRow /\ seen[j].next >= 1
  BY SeenTyped DEF DropCheck, Starts, IInv, HasRead, Known
<1>2. CASE Fail(j, "not_found") \/ Fail(j, "in_use")
  BY <1>1, <1>2, FailKeeps DEF Failure
<1>3. CASE ~used /\ Reads(j, seen[j], "checked")
  <2>1. Known(j, seen[j], "checked")
    BY <1>1 DEF Known
  <2>2. Stands(j, seen[j], "checked")
    BY <1>1, <1>3 DEF Stands
  <2>. QED
    BY <1>1, <1>3, <2>1, <2>2, ReadKeeps DEF Where
<1>. QED
  BY <1>2, <1>3 DEF DropCheck

LEMMA DropKeeps == ASSUME IInv, NEW j \in Job, Drop(j) PROVE IInv'
<1>. DEFINE o == req[j]
            gone == IF o.op = "drop_stage" THEN {o.stage} ELSE StagesOf(o.pipeline)
            kept == {r \in Record : rec[r] # None /\ rec[r].stage \in gone}
<1>1. /\ pc[j] = "checked" /\ o.op \in {"drop_pipeline", "drop_stage"} /\ o \in Operation
      /\ \A s \in gone : DraftsIn(s) = {}
      /\ o.op = "drop_pipeline" => plock[o.pipeline] = None /\ o.pipeline \in Pipeline
      /\ store = "sqlite" => Stands(j, seen[j], "checked")
  BY ReqTyped, OpFields DEF Drop, At, IInv, ReadStands, Pipeline
<1>2. CASE Fail(j, "not_found")
  BY <1>1, <1>2, FailKeeps DEF Failure
<1>3. CASE /\ ~(store = "postgres" /\ kept # {})
           /\ stage' = [s \in Stage |-> IF s \in gone THEN None ELSE stage[s]]
           /\ pipe' = IF o.op = "drop_stage" THEN pipe ELSE [pipe EXCEPT ![o.pipeline] = None]
           /\ UNCHANGED rec
           /\ Succeed(j)
  <2>1. /\ pipe' \in [Pipeline -> PipelineRow \cup {None}]
        /\ stage' \in [Stage -> StageRow \cup {None}]
        /\ \A q \in Pipeline : pipe'[q] \in {pipe[q], None}
        /\ \A q \in Pipeline : pipe'[q] # pipe[q] => o.op = "drop_pipeline" /\ q = o.pipeline
    BY <1>1, <1>3 DEF IInv, TypeOK
  <2>2. \A r \in Record : rec[r] # None => rec[r].stage \notin gone
    <3>1. CASE store = "postgres"
      BY <1>3, <3>1
    <3>2. CASE store = "sqlite"
      BY <1>1, <3>2, StageInPipelineMeans
         DEF Stands, InStage, InPipeline, StagesOf, Placed, IInv
    <3>. QED
      BY <3>1, <3>2 DEF IInv, TypeOK
  <2>3. \A r \in Record : draft[r] # None => draft[r].stage \notin gone
    BY <1>1 DEF DraftsIn
  <2>4. ASSUME NEW row \in RecordRow, Placed(pipe, stage, row), row.stage \notin gone
        PROVE  Placed(pipe', stage', row)
    <3>1. stage'[row.stage] = stage[row.stage]
      BY <1>3, <2>4 DEF RecordRow
    <3>2. pipe'[row.pipeline] = pipe[row.pipeline]
      BY <1>1, <2>1, <2>4 DEF StagesOf, Placed, RecordRow
    <3>. QED
      BY <2>4, <3>1, <3>2 DEF Placed
  <2>5. \A r \in Record : /\ rec[r] # None => Placed(pipe', stage', rec[r])
                          /\ draft[r] # None => Placed(pipe', stage', draft[r])
    BY <2>2, <2>3, <2>4, AllPlaced
  <2>6. store = "sqlite" => OneDefault(pipe')
    BY <2>1 DEF IInv, OneDefault
  <2>7. /\ \A k \in Job \ {j} : /\ pipe[k] = None => pipe'[k] = None
                                /\ stage[k] = None => stage'[k] = None
        /\ \A q \in Pipeline : plock[q] \notin {None, j} => pipe'[q] # None
    BY <1>1, <1>3, <2>1 DEF Pipeline, Stage, IInv, LocksFit
  <2>. QED
    BY <1>1, <1>3, <2>1, <2>5, <2>6, <2>7, TablesCommitKeeps DEF OneRecord
<1>. QED
  BY <1>2, <1>3 DEF Drop

\* An end that changes outcomes and positions, or adds a stage.
LEMMA StagesCommitKeeps ==
  ASSUME IInv, NEW j \in Job, pc[j] # "done", pc[j] = "idle" => MayBegin(j), Succeed(j),
         UNCHANGED <<pipe, rec>>,
         stage' \in [Stage -> StageRow \cup {None}],
         \A s \in Stage : stage[s] # None => stage'[s] # None /\ stage'[s].pipeline = stage[s].pipeline,
         \A s \in Stage \ {j} : stage[s] = None => stage'[s] = None,
         req[j].op \notin OneRecord
  PROVE  IInv'
<1>1. \A r \in Record : /\ rec[r] # None => Placed(pipe', stage', rec[r])
                        /\ draft[r] # None => Placed(pipe', stage', draft[r])
  BY AllPlaced, PlacedStays
<1>2. /\ pipe' \in [Pipeline -> PipelineRow \cup {None}]
      /\ store = "sqlite" => OneDefault(pipe')
      /\ \A k \in Job \ {j} : /\ pipe[k] = None => pipe'[k] = None
                              /\ stage[k] = None => stage'[k] = None
      /\ \A q \in Pipeline : plock[q] \notin {None, j} => pipe'[q] # None
  BY DEF IInv, TypeOK, OneDefault, LocksFit, Stage
<1>. QED
  BY <1>1, <1>2, TablesCommitKeeps

LEMMA AddStageReadKeeps == ASSUME IInv, NEW j \in Job, AddStageRead(j) PROVE IInv'
<1>. DEFINE places == {0} \cup {stage[s].position + 1 : s \in StagesOf(req[j].pipeline)}
<1>1. /\ pc[j] = "idle" /\ MayBegin(j) /\ req[j].op = "add_stage"
      /\ \/ Fail(j, "not_found")
         \/ \E n \in places : Reads(j, [seen[j] EXCEPT !.position = n], "checked")
  BY DEF AddStageRead, Starts
<1>2. CASE Fail(j, "not_found")
  BY <1>1, <1>2, FailKeeps DEF Failure
<1>3. ASSUME NEW n \in places, Reads(j, [seen[j] EXCEPT !.position = n], "checked") PROVE IInv'
  <2>. DEFINE what == [seen[j] EXCEPT !.position = n]
  <2>1. n \in Nat
    <3>1. \A s \in Stage : stage[s] # None => stage[s].position + 1 \in Nat
      <4>1. \A row \in StageRow : row.position + 1 \in Nat
        BY DEF StageRow
      <4>. QED
        BY <4>1 DEF IInv, TypeOK
    <3>. QED
      BY <3>1 DEF StagesOf
  <2>2. what \in SeenRow /\ what.next >= 1
    BY <2>1, SeenTyped DEF SeenRow, IInv, HasRead, Known
  <2>. HIDE DEF what
  <2>3. Known(j, what, "checked") /\ Stands(j, what, "checked")
    BY <1>1, <2>2 DEF Known, Stands
  <2>. QED
    BY <1>1, <1>3, <2>2, <2>3, ReadKeeps DEF Where, what
<1>. QED
  BY <1>1, <1>2, <1>3

LEMMA AddStageKeeps == ASSUME IInv, NEW j \in Job, AddStage(j) PROVE IInv'
<1>1. /\ pc[j] = "checked" /\ req[j].op = "add_stage" /\ req[j].pipeline \in Pipeline
      /\ stage[j] = None /\ j \in Stage
  BY ReqTyped, OpFields DEF AddStage, At, IInv, Pipeline, Stage, Fresh
<1>2. CASE Fail(j, "not_found")
  BY <1>1, <1>2, FailKeeps DEF Failure
<1>3. CASE /\ stage' = [stage EXCEPT ![j] = [pipeline |-> req[j].pipeline, outcome |-> None,
                                             position |-> seen[j].position]]
           /\ UNCHANGED <<pipe, rec>>
           /\ Succeed(j)
  <2>1. [pipeline |-> req[j].pipeline, outcome |-> None, position |-> seen[j].position] \in StageRow
    BY <1>1, SeenTyped DEF StageRow, SeenRow, Outcome
  <2>2. /\ stage' \in [Stage -> StageRow \cup {None}]
        /\ \A s \in Stage \ {j} : stage'[s] = stage[s]
    BY <1>1, <1>3, <2>1 DEF IInv, TypeOK
  <2>. QED
    BY <1>1, <1>3, <2>2, StagesCommitKeeps DEF OneRecord
<1>. QED
  BY <1>2, <1>3 DEF AddStage

LEMMA EditStageKeeps == ASSUME IInv, NEW j \in Job, EditStage(j) PROVE IInv'
<1>. DEFINE s == req[j].stage
<1>1. /\ pc[j] = "idle" /\ MayBegin(j) /\ req[j].op = "edit_stage"
      /\ s \in Stage /\ req[j].outcome \in Outcome
  BY ReqTyped, OpFields DEF EditStage, Starts, IInv, Stage
<1>2. CASE Fail(j, "not_found")
  BY <1>1, <1>2, FailKeeps DEF Failure
<1>3. CASE /\ stage[s] # None
           /\ stage' = [stage EXCEPT ![s].outcome = req[j].outcome]
           /\ UNCHANGED <<pipe, rec>>
           /\ Succeed(j)
  <2>1. stage[s] \in StageRow
    BY <1>1, <1>3 DEF IInv, TypeOK
  <2>2. /\ [stage[s] EXCEPT !.outcome = req[j].outcome] \in StageRow
        /\ [stage[s] EXCEPT !.outcome = req[j].outcome].pipeline = stage[s].pipeline
    BY <1>1, <2>1 DEF StageRow
  <2>3. /\ stage' \in [Stage -> StageRow \cup {None}]
        /\ stage'[s] # None /\ stage'[s].pipeline = stage[s].pipeline
        /\ \A x \in Stage \ {s} : stage'[x] = stage[x]
    BY <1>1, <1>3, <2>2, TablesAssumption DEF IInv, TypeOK
  <2>. QED
    BY <1>1, <1>3, <2>3, StagesCommitKeeps DEF OneRecord
<1>. QED
  BY <1>2, <1>3 DEF EditStage

LEMMA ReorderCheckKeeps == ASSUME IInv, NEW j \in Job, ReorderCheck(j) PROVE IInv'
<1>1. /\ pc[j] = "idle" /\ MayBegin(j) /\ req[j].op = "reorder"
      /\ seen[j] \in SeenRow /\ seen[j].next >= 1
      /\ Fail(j, "not_found") \/ Fail(j, "refused") \/ Reads(j, seen[j], "checked")
  BY SeenTyped DEF ReorderCheck, Starts, IInv, HasRead, Known
<1>2. CASE Fail(j, "not_found") \/ Fail(j, "refused")
  BY <1>1, <1>2, FailKeeps DEF Failure
<1>3. CASE Reads(j, seen[j], "checked")
  <2>1. Known(j, seen[j], "checked") /\ Stands(j, seen[j], "checked")
    BY <1>1 DEF Known, Stands
  <2>. QED
    BY <1>1, <1>3, <2>1, ReadKeeps DEF Where
<1>. QED
  BY <1>1, <1>2, <1>3

\* Of some of the numbers up to n one is the greatest.
LEMMA Greatest ==
  ASSUME NEW n \in Nat, NEW S \in SUBSET (1..n), S # {}
  PROVE  \E i \in S : \A k \in S : k <= i
<1>. DEFINE T == {n - i : i \in S}
<1>1. T \subseteq Nat /\ T # {}
  <2>1. \A i \in S : n - i \in Nat
    OBVIOUS
  <2>2. PICK i \in S : TRUE
    OBVIOUS
  <2>3. n - i \in T
    OBVIOUS
  <2>. QED
    BY <2>1, <2>3
<1>2. PICK x \in T : \A y \in T : ~(<<y, x>> \in OpToRel(<, Nat))
  BY <1>1, NatLessThanWellFounded, WFMin
<1>3. \A y \in T : ~(y < x)
  BY <1>1, <1>2 DEF OpToRel
<1>4. PICK i \in S : x = n - i
  OBVIOUS
<1>5. \A k \in S : k <= i
  BY <1>3, <1>4
<1>. QED
  BY <1>5

LEMMA ReorderKeeps == ASSUME IInv, NEW j \in Job, Reorder(j) PROVE IInv'
<1>. DEFINE o == req[j]
            last(s) == CHOOSE i \in DOMAIN o.stages :
                         o.stages[i] = s /\ \A k \in DOMAIN o.stages : o.stages[k] = s => k <= i
<1>1. /\ pc[j] = "checked" /\ o.op = "reorder" /\ o.stages \in Seq(OldStage)
      /\ stage' = [s \in Stage |->
                     IF s \in StagesOf(o.pipeline) /\ \E i \in DOMAIN o.stages : o.stages[i] = s
                       THEN [stage[s] EXCEPT !.position = last(s) - 1]
                       ELSE stage[s]]
      /\ UNCHANGED <<pipe, rec>> /\ Succeed(j)
  BY ReqTyped, OpFields DEF Reorder, At, IInv
<1>2. ASSUME NEW s \in Stage, \E i \in DOMAIN o.stages : o.stages[i] = s
      PROVE  last(s) - 1 \in Nat
  <2>1. DOMAIN o.stages = 1..Len(o.stages) /\ Len(o.stages) \in Nat
    BY <1>1
  <2>. DEFINE S == {i \in 1..Len(o.stages) : o.stages[i] = s}
  <2>2. S # {}
    BY <1>2, <2>1
  <2>3. \E i \in S : \A k \in S : k <= i
    BY <2>1, <2>2, Greatest
  <2>4. \E i \in DOMAIN o.stages :
          o.stages[i] = s /\ \A k \in DOMAIN o.stages : o.stages[k] = s => k <= i
    BY <2>1, <2>3
  <2>5. last(s) \in DOMAIN o.stages
    BY <2>4
  <2>. QED
    BY <2>1, <2>5
<1>. HIDE DEF last
<1>3. ASSUME NEW s \in Stage, stage[s] # None, NEW n \in Nat
      PROVE  /\ [stage[s] EXCEPT !.position = n] \in StageRow
             /\ [stage[s] EXCEPT !.position = n].pipeline = stage[s].pipeline
  <2>1. stage[s] \in StageRow
    BY <1>3 DEF IInv, TypeOK
  <2>. QED
    BY <2>1 DEF StageRow
<1>4. ASSUME NEW s \in Stage
      PROVE  /\ stage'[s] \in StageRow \cup {None}
             /\ stage[s] # None => stage'[s] # None /\ stage'[s].pipeline = stage[s].pipeline
             /\ stage[s] = None => stage'[s] = None
  <2>1. CASE s \in StagesOf(o.pipeline) /\ \E i \in DOMAIN o.stages : o.stages[i] = s
    <3>1. stage[s] # None /\ stage'[s] = [stage[s] EXCEPT !.position = last(s) - 1]
      BY <1>1, <2>1 DEF StagesOf
    <3>2. last(s) - 1 \in Nat
      BY <1>2, <2>1
    <3>. QED
      BY <1>3, <3>1, <3>2, TablesAssumption
  <2>2. CASE ~(s \in StagesOf(o.pipeline) /\ \E i \in DOMAIN o.stages : o.stages[i] = s)
    BY <1>1, <2>2 DEF IInv, TypeOK
  <2>. QED
    BY <2>1, <2>2
<1>5. stage' \in [Stage -> StageRow \cup {None}]
  BY <1>1, <1>4
<1>. QED
  BY <1>1, <1>4, <1>5, StagesCommitKeeps DEF OneRecord

LEMMA NextKeeps == ASSUME IInv, [Next]_vars PROVE IInv'
<1>1. CASE UNCHANGED vars
  <2>1. /\ UNCHANGED <<store, pipe, stage, rec, lock, draft, plock, req, pc, seen, res>>
    BY <1>1 DEF vars, tables, locks
  <2>. QED
    BY <2>1 DEF IInv, TypeOK, StageInPipeline, StagesOf, ClosedIffDated, LinkedRecordExists, OneDefault,
                GuardedWriteOnSqlite, Alone, UnderWay, Fresh, LocksFit, Placed, HasRead, Known, BulkIds,
                ReadStands, Stands, OfType, InStage, InPipeline
<1>2. ASSUME NEW j \in Job, Step(j) PROVE IInv'
  BY <1>2, ResolveKeeps, InsertKeeps, ReadRecordKeeps, FindStageKeeps, UpdateRecordKeeps,
     DeleteRecordKeeps, BulkBeginKeeps, BulkReadKeeps, BulkWriteKeeps, BulkCommitKeeps,
     DeadlockAbortKeeps, DefaultBeginKeeps, ClearBeginKeeps, ClearKeeps, DefaultEndKeeps,
     DropCheckKeeps, DropKeeps, AddStageReadKeeps, AddStageKeeps, EditStageKeeps,
     ReorderCheckKeeps, ReorderKeeps
  DEF Step
<1>. QED
  BY <1>1, <1>2 DEF Next

LEMMA IInvHolds == Spec => []IInv
<1>1. IInv /\ [Next]_vars => IInv'
  BY NextKeeps
<1>. QED
  BY InitIInv, <1>1, PTL DEF Spec

-----------------------------------------------------------------------------
(* The theorems.                                                           *)

\* Every record sits in a stage there is, of the pipeline it names; closing dates go
\* with the status; links lead to records that exist; and where units of work do not
\* interleave a type has one default pipeline.
THEOREM PipelinesInOrder == Spec => []Inv
<1>1. IInv => Inv
  <2>1. IInv => OneDefaultOnSqlite
    BY OneDefaultCounts DEF IInv, OneDefaultOnSqlite
  <2>. QED
    BY <2>1 DEF IInv, Inv
<1>. QED
  BY <1>1, IInvHolds, PTL

\* Where units of work do not interleave, an operation that names the version it
\* expects overwrites no other (domain.ts:32).
THEOREM GuardsHoldOnSqlite == Spec => []GuardedWriteOnSqlite
<1>1. IInv => GuardedWriteOnSqlite
  BY DEF IInv
<1>. QED
  BY <1>1, IInvHolds, PTL
=============================================================================
