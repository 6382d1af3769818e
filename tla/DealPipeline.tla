----------------------------- MODULE DealPipeline -----------------------------
(***************************************************************************)
(* Pipelines, their stages, and the leads and deals that sit in them:      *)
(* packages/core/src/operations/{deal,engagement,pipeline,bulk}-ops.ts and *)
(* the two stores' pipelines, engagements and deals ports                  *)
(* (packages/db/src/repositories.ts, packages/db/src/pg/repositories.ts).  *)
(*                                                                         *)
(* runOperation (catalog.ts) runs every operation in one transaction.  On  *)
(* SQLite it has the database to itself.  On PostgreSQL (READ COMMITTED)   *)
(* an operation is its statements: what it has read may be stale when it   *)
(* writes, rows it wrote are locked and hidden until it commits, and the   *)
(* foreign keys, which only PostgreSQL has, are checked as it writes.  A   *)
(* step below is one statement, or reads that follow each other, or the    *)
(* last writes of an operation with its commit.                            *)
(*                                                                         *)
(* A lead and a deal are both records; a lead has no status, so its status *)
(* stays "open".  link is a deal's engagementId or a lead's dealId.        *)
(***************************************************************************)
EXTENDS Integers, FiniteSets, Sequences

CONSTANTS
  OldPipeline, OldStage, OldRecord,  \* what the workspace starts with
  Job,         \* operations; each runs once and names the rows it creates
  Op,          \* the operations a job may be, a set of records of Operation
  InitPipe, InitStage, InitRec,      \* the tables at the start
  None

Pipeline == OldPipeline \cup Job
Stage == OldStage \cup Job
Record == OldRecord \cup Job

Kind == {"lead", "deal"}
Closed == {"won", "lost"}
Outcome == Closed \cup {"done", "dropped", None}
Target == [rec : OldRecord, expected : Nat \cup {None}]

\* Every operation that changes these tables.  touch stands for the updates
\* that leave stage and status alone: update, archive and restore.
Operation ==
  [op : {"create"}, kind : Kind, pipeline : OldPipeline \cup {None},
   stage : OldStage \cup {None}, link : OldRecord \cup {None}]
    \cup [op : {"import"}, pipeline : OldPipeline \cup {None}, stage : OldStage \cup {None}]
    \cup [op : {"touch"}, at : Target, link : OldRecord \cup {None}]
    \cup [op : {"move"}, at : Target, stage : OldStage]
    \cup [op : {"close"}, at : Target, status : Closed]
    \cup [op : {"reopen", "delete"}, at : Target]
    \cup [op : {"bulk_move"}, kind : Kind, ids : Seq(OldRecord), stage : OldStage]
    \cup [op : {"bulk_touch"}, kind : Kind, ids : Seq(OldRecord)]
    \cup [op : {"new_pipeline"}, type : Kind, isDefault : BOOLEAN, outcome : Outcome]
    \cup [op : {"set_default", "drop_pipeline", "add_stage"}, pipeline : OldPipeline]
    \cup [op : {"reorder"}, pipeline : OldPipeline, stages : Seq(OldStage)]
    \cup [op : {"edit_stage"}, stage : OldStage, outcome : Outcome]
    \cup [op : {"drop_stage"}, stage : OldStage]

PipelineRow == [type : Kind, isDefault : BOOLEAN]
StageRow == [pipeline : Pipeline, outcome : Outcome, position : Nat]
RecordRow ==
  [kind : Kind, pipeline : Pipeline, stage : Stage, status : Closed \cup {"open"},
   closedAt : BOOLEAN, version : Nat, link : Record \cup {None}]

ASSUME OperationAssumption == Op \subseteq Operation

\* The tables a workspace starts with are in order, and a created row has an id
\* nobody has had.
ASSUME TablesAssumption ==
  /\ Job \cap (OldPipeline \cup OldStage \cup OldRecord) = {}
  /\ None \notin Pipeline \cup Stage \cup Record \cup PipelineRow \cup StageRow \cup RecordRow
  /\ InitPipe \in [Pipeline -> PipelineRow \cup {None}]
  /\ InitStage \in [Stage -> StageRow \cup {None}]
  /\ InitRec \in [Record -> RecordRow \cup {None}]
  /\ \A j \in Job : InitPipe[j] = None /\ InitStage[j] = None /\ InitRec[j] = None
  /\ \A r \in Record : InitRec[r] # None =>
       /\ InitStage[InitRec[r].stage] # None
       /\ InitStage[InitRec[r].stage].pipeline = InitRec[r].pipeline
       /\ InitPipe[InitRec[r].pipeline] # None
       /\ InitRec[r].closedAt <=> InitRec[r].status # "open"
       /\ InitRec[r].link # None => InitRec[InitRec[r].link] # None
  /\ \A p, q \in Pipeline :
       /\ InitPipe[p] # None /\ InitPipe[p].isDefault
       /\ InitPipe[q] # None /\ InitPipe[q].isDefault
       /\ InitPipe[p].type = InitPipe[q].type
       => p = q

VARIABLES
  store,     \* "sqlite" or "postgres"
  pipe,      \* the pipelines table
  stage,     \* the stages table
  rec,       \* the engagements and deals tables
  lock,      \* lock[r]: the transaction that has updated r and is still open
  draft,     \* draft[r]: the row that transaction will commit
  plock,     \* plock[p]: the same for a pipelines row
  req, pc,   \* what job j is, and where
  seen,      \* what j's statements have read
  res        \* how j ended

tables == <<pipe, stage, rec>>
locks == <<lock, draft, plock>>
vars == <<store, tables, locks, req, pc, seen, res>>

-----------------------------------------------------------------------------
Nothing == [row |-> None, pipeline |-> None, stage |-> None, outcome |-> None,
            position |-> 0, type |-> None, rows |-> {}, next |-> 1]
NoResult == [kind |-> "none", base |-> 0]

TypeOK ==
  /\ store \in {"sqlite", "postgres"}
  /\ pipe \in [Pipeline -> PipelineRow \cup {None}]
  /\ stage \in [Stage -> StageRow \cup {None}]
  /\ rec \in [Record -> RecordRow \cup {None}]
  /\ lock \in [Record -> Job \cup {None}]
  /\ draft \in [Record -> RecordRow \cup {None}]
  /\ plock \in [Pipeline -> Job \cup {None}]
  /\ req \in [Job -> Op]
  /\ pc \in [Job -> {"idle", "resolved", "read", "located", "bulk", "bulk_write",
                     "defaulting", "clearing", "cleared", "checked", "done"}]
  /\ seen \in [Job -> [row : RecordRow \cup {None}, pipeline : Pipeline \cup {None},
                       stage : Stage \cup {None}, outcome : Outcome,
                       position : Nat, type : Kind \cup {None},
                       rows : SUBSET Pipeline, next : Nat]]
  /\ res \in [Job -> [kind : {"none", "ok", "not_found", "version_conflict",
                              "refused", "in_use", "deadlock"},
                      base : Nat]]

\* On SQLite a unit of work begins only when no other is open.
MayBegin(j) ==
  store = "sqlite" => \A k \in Job \ {j} : pc[k] \in {"idle", "done"}

Starts(j, ops) == pc[j] = "idle" /\ req[j].op \in ops /\ MayBegin(j)

At(j, where, ops) == pc[j] = where /\ req[j].op \in ops

Goto(j, where) == pc' = [pc EXCEPT ![j] = where] /\ UNCHANGED <<store, req>>

\* j's statement only read: what it saw is kept and j moves on.
Reads(j, what, where) ==
  /\ seen' = [seen EXCEPT ![j] = what]
  /\ Goto(j, where)
  /\ UNCHANGED <<tables, locks, res>>

\* j's transaction ends, and lets go of every row it held.  base is the
\* version of the row its UPDATE wrote over.
End(j, kind, base) ==
  /\ res' = [res EXCEPT ![j] = [kind |-> kind, base |-> base]]
  /\ lock' = [r \in Record |-> IF lock[r] = j THEN None ELSE lock[r]]
  /\ draft' = [r \in Record |-> IF lock[r] = j THEN None ELSE draft[r]]
  /\ plock' = [p \in Pipeline |-> IF plock[p] = j THEN None ELSE plock[p]]
  /\ Goto(j, "done")
  /\ UNCHANGED seen

\* The operation throws: its transaction rolls back.
Fail(j, kind) == End(j, kind, 0) /\ UNCHANGED tables

Succeed(j) == End(j, "ok", 0)

-----------------------------------------------------------------------------
(* Pipelines and stages, as a statement reads them.                        *)

StagesOf(p) == {s \in Stage : stage[s] # None /\ stage[s].pipeline = p}

\* The first of some stages in the order of position; the order of two
\* stages with one position is the store's choice.
FirstOf(stages) ==
  {s \in stages : \A other \in stages : stage[s].position <= stage[other].position}

\* pipelines.get, or getDefault: the default of the type, else any of them.
Candidates(type, p) ==
  LET ofType == {q \in Pipeline : pipe[q] # None /\ pipe[q].type = type}
      defaults == {q \in ofType : pipe[q].isDefault}
  IN IF p # None THEN {p} \ {q \in Pipeline : pipe[q] = None}
     ELSE IF defaults # {} THEN defaults ELSE ofType

\* Mutant: engagements and deals have no foreign key to stages.
NoStageKey(p, s) == TRUE

\* PostgreSQL's foreign key (workspace, pipeline, stage) of engagements and
\* deals; SQLite has none.
StageKeyHolds(p, s) ==
  store = "postgres" => s \in StagesOf(p) /\ pipe[p] # None

\* The foreign keys between deals and engagements.
LinkKeyHolds(r) == store = "postgres" /\ r # None => rec[r] # None

-----------------------------------------------------------------------------
(* deal.create, engagement.create and import.run's new lead.               *)

TypeOf(o) == IF o.op = "import" THEN "lead" ELSE o.kind

\* The stage asked for, if it is one of the pipeline's, else the first.
StageChoice(o, p) ==
  IF o.stage # None THEN {o.stage} \cap StagesOf(p) ELSE FirstOf(StagesOf(p))

\* The records named exist; resolvePipelineStage, which import.run does not
\* call: it never compares the pipeline's type.
Resolve(j) ==
  /\ Starts(j, {"create", "import"})
  /\ LET o == req[j]
         chosen == {p \in Candidates(TypeOf(o), o.pipeline) :
                      o.op = "create" => pipe[p].type = o.kind}
     IN \/ o.op = "create" /\ o.link # None /\ rec[o.link] = None /\ Fail(j, "not_found")
        \/ /\ o.op = "create" /\ o.link # None => rec[o.link] # None
           /\ \/ \E p \in chosen : \E s \in StageChoice(o, p) :
                   Reads(j, [seen[j] EXCEPT !.pipeline = p, !.stage = s], "resolved")
              \/ /\ \E p \in chosen : StageChoice(o, p) = {}
                 /\ Fail(j, "refused")
              \/ chosen = {} /\ Fail(j, "refused")

NewRow(o, p, s) ==
  [kind |-> TypeOf(o), pipeline |-> p, stage |-> s, status |-> "open",
   closedAt |-> FALSE, version |-> 1,
   link |-> IF o.op = "create" THEN o.link ELSE None]

\* The insert; a deal made from a lead also becomes that lead's deal.
Insert(j) ==
  /\ At(j, "resolved", {"create", "import"})
  /\ LET row == NewRow(req[j], seen[j].pipeline, seen[j].stage)
         ok == /\ StageKeyHolds(row.pipeline, row.stage)
               /\ row.link # None => rec[row.link] # None
     IN \/ /\ ok
           /\ row.link # None => lock[row.link] = None
           /\ rec' = [r \in Record |->
                        IF r = j THEN row
                        ELSE IF r = row.link
                               THEN [rec[r] EXCEPT !.link = j, !.version = @ + 1]
                        ELSE rec[r]]
           /\ Succeed(j)
           /\ UNCHANGED <<pipe, stage>>
        \/ ~ok /\ Fail(j, "not_found")

-----------------------------------------------------------------------------
(* The operations on one record.                                           *)

OneRecord == {"touch", "move", "close", "reopen", "delete"}

\* Mutant: checkVersion is not called.
VersionUnchecked(expected, current) == TRUE

\* checkVersion: an expectedVersion that is omitted matches.
VersionMatches(expected, current) == expected \in {None, current}

\* Every operation on a record gets it first; touch also gets the record it
\* will link, reopen refuses an open deal.
ReadRecord(j) ==
  /\ Starts(j, OneRecord)
  /\ LET o == req[j]
         row == rec[o.at.rec]
         next == IF o.op \in {"move", "close"} THEN "read" ELSE "located"
         linked == o.op = "touch" /\ o.link # None => rec[o.link] # None
     IN \/ row = None /\ Fail(j, "not_found")
        \/ /\ row # None
           /\ ~VersionMatches(o.at.expected, row.version)
           /\ Fail(j, "version_conflict")
        \/ /\ row # None
           /\ VersionMatches(o.at.expected, row.version)
           /\ \/ ~linked /\ Fail(j, "not_found")
              \/ /\ o.op = "reopen" /\ row.status = "open"
                 /\ Fail(j, "refused")
              \/ /\ linked
                 /\ ~(o.op = "reopen" /\ row.status = "open")
                 /\ Reads(j, [seen[j] EXCEPT !.row = row], next)

\* pipelines.get: a move's stage must be one of the pipeline's; closing goes
\* to the first stage with the outcome, if there is one.
FindStage(j) ==
  /\ At(j, "read", {"move", "close"})
  /\ LET o == req[j]
         p == seen[j].row.pipeline
         found == IF o.op = "move" THEN {o.stage} \cap StagesOf(p)
                  ELSE FirstOf({s \in StagesOf(p) : stage[s].outcome = o.status})
     IN \/ \E s \in found :
             Reads(j, [seen[j] EXCEPT !.stage = s, !.outcome = stage[s].outcome], "located")
        \/ found = {} /\ o.op = "move" /\ Fail(j, "refused")
        \/ found = {} /\ o.op = "close" /\ Reads(j, seen[j], "located")

Closing(row, status) == [row EXCEPT !.status = status, !.closedAt = TRUE]

Opened(row) == [row EXCEPT !.status = "open", !.closedAt = FALSE]

\* deal.updateStage's patch: a won or lost stage closes the deal, any other
\* opens it if it was read closed.
MoveDeal(what, row) ==
  LET moved == [row EXCEPT !.stage = what.stage]
  IN IF what.outcome \in Closed THEN Closing(moved, what.outcome)
     ELSE IF what.row.status # "open" THEN Opened(moved)
     ELSE moved

MoveLead(what, row) == [row EXCEPT !.stage = what.stage]

\* deal.markWon and deal.markLost.
Close(o, what, row) ==
  Closing([row EXCEPT !.stage = IF what.stage = None THEN @ ELSE what.stage], o.status)

\* The columns an operation sets, decided by what it read, on the row as it
\* is when the UPDATE runs.
Patch(o, what, row) ==
  CASE o.op = "move" /\ row.kind = "deal" -> MoveDeal(what, row)
    [] o.op = "move" /\ row.kind = "lead" -> MoveLead(what, row)
    [] o.op = "close" -> Close(o, what, row)
    [] o.op = "reopen" -> Opened(row)
    [] o.op = "touch" /\ o.link # None -> [row EXCEPT !.link = o.link]
    [] OTHER -> row

\* engagement.updateStage updates the lead twice, for its stage and for its
\* last activity, and answers with the row of the first.
Bumps(o, row) == IF o.op = "move" /\ row.kind = "lead" THEN 2 ELSE 1

\* The foreign keys of the columns the UPDATE changes.
KeysHold(old, new) ==
  /\ new.stage # old.stage => StageKeyHolds(new.pipeline, new.stage)
  /\ new.link # old.link => LinkKeyHolds(new.link)

\* repositories.update, by id: it repeats none of the guards.
UpdateRecord(j) ==
  /\ At(j, "located", OneRecord \ {"delete"})
  /\ LET o == req[j]
         r == o.at.rec
         row == rec[r]
         new == Patch(o, seen[j], row)
         bumped == [new EXCEPT !.version = row.version + Bumps(o, row)]
     IN \/ row = None /\ Fail(j, "not_found")
        \/ row # None /\ lock[r] = None /\ ~KeysHold(row, new) /\ Fail(j, "not_found")
        \/ /\ row # None
           /\ lock[r] = None
           /\ KeysHold(row, new)
           /\ rec' = [rec EXCEPT ![r] = bumped]
           /\ End(j, "ok", row.version)
           /\ UNCHANGED <<pipe, stage>>

\* hardDelete: the row goes and the records linked to it lose the link.
WithoutRecord(r) ==
  [q \in Record |->
     IF q = r \/ rec[q] = None THEN IF q = r THEN None ELSE rec[q]
     ELSE IF rec[q].link = r THEN [rec[q] EXCEPT !.link = None] ELSE rec[q]]

DeleteRecord(j) ==
  /\ At(j, "located", {"delete"})
  /\ LET r == req[j].at.rec
     IN /\ \A q \in Record : q = r \/ (rec[q] # None /\ rec[q].link = r) => lock[q] = None
        /\ rec' = WithoutRecord(r)
        /\ UNCHANGED <<pipe, stage>>
        /\ Succeed(j)

-----------------------------------------------------------------------------
(* Bulk moves, owner changes and archiving: one transaction over the ids.  *)

Bulk == {"bulk_move", "bulk_touch"}

BulkIds(j) == req[j].ids

Item(j) == BulkIds(j)[seen[j].next]

NextItem(j) == [seen[j] EXCEPT !.next = @ + 1]

\* A transaction sees its own updates: an id may be given twice.
OwnRow(j, r) == IF lock[r] = j THEN draft[r] ELSE rec[r]

\* bulk.updateStage gets the stage first; assignOwner and archive just begin.
BulkBegin(j) ==
  /\ Starts(j, Bulk)
  /\ LET o == req[j]
         known == o.op = "bulk_move" => stage[o.stage] # None
         p == IF o.op = "bulk_move" /\ known THEN stage[o.stage].pipeline ELSE None
     IN \/ known /\ Reads(j, [seen[j] EXCEPT !.pipeline = p], "bulk")
        \/ ~known /\ Fail(j, "not_found")

Movable(o, p) == {r \in Record : rec[r] # None /\ rec[r].kind = o.kind /\ rec[r].pipeline = p}

\* bulk.updateStage gets each record and skips the ones that are missing or
\* in another pipeline; the other two update at once.
BulkRead(j) ==
  /\ At(j, "bulk", Bulk)
  /\ seen[j].next <= Len(BulkIds(j))
  /\ LET skip == req[j].op = "bulk_move" /\ Item(j) \notin Movable(req[j], seen[j].pipeline)
     IN \/ skip /\ Reads(j, NextItem(j), "bulk")
        \/ ~skip /\ Reads(j, [seen[j] EXCEPT !.row = OwnRow(j, Item(j))], "bulk_write")

\* What the updates of one bulk item leave: a record that is really moved is
\* updated once more, for its last activity.  Status and closing date stay.
BulkPatch(o, what, row) ==
  IF o.op = "bulk_touch" THEN [row EXCEPT !.version = @ + 1]
  ELSE [row EXCEPT !.stage = o.stage,
                   !.version = @ + IF what.row.stage = o.stage THEN 1 ELSE 2]

\* The update of one item.  The catch of bulk.assignOwner and bulk.archive
\* skips a missing row; bulk.updateStage has none and fails as a whole.
BulkWrite(j) ==
  /\ At(j, "bulk_write", Bulk)
  /\ LET o == req[j]
         r == Item(j)
         row == OwnRow(j, r)
         there == row # None /\ row.kind = o.kind
         new == BulkPatch(o, seen[j], row)
     IN /\ lock[r] \in {None, j}
        /\ \/ ~there /\ o.op = "bulk_move" /\ Fail(j, "not_found")
           \/ ~there /\ o.op = "bulk_touch" /\ Reads(j, NextItem(j), "bulk")
           \/ there /\ ~KeysHold(row, new) /\ Fail(j, "not_found")
           \/ /\ there
              /\ KeysHold(row, new)
              /\ lock' = [lock EXCEPT ![r] = j]
              /\ draft' = [draft EXCEPT ![r] = new]
              /\ seen' = [seen EXCEPT ![j] = NextItem(j)]
              /\ Goto(j, "bulk")
              /\ UNCHANGED <<tables, plock, res>>

BulkCommit(j) ==
  /\ At(j, "bulk", Bulk)
  /\ seen[j].next > Len(BulkIds(j))
  /\ rec' = [r \in Record |-> OwnRow(j, r)]
  /\ UNCHANGED <<pipe, stage>>
  /\ Succeed(j)

\* j waits for the row k has locked.
WaitsFor(j, k) == pc[j] = "bulk_write" /\ lock[Item(j)] = k

\* Mutant: nobody notices that two transactions wait for each other.
NeverDeadlocked(j) == FALSE

\* PostgreSQL aborts one of two transactions that wait for each other.
Deadlocked(j) == \E k \in Job \ {j} : WaitsFor(j, k) /\ WaitsFor(k, j)

DeadlockAbort(j) == Deadlocked(j) /\ Fail(j, "deadlock")

-----------------------------------------------------------------------------
(* Changes to the pipelines themselves.                                    *)

\* pipeline.setDefault gets its pipeline; pipeline.create knows its type.
DefaultBegin(j) ==
  /\ Starts(j, {"set_default", "new_pipeline"})
  /\ LET o == req[j]
         known == o.op = "set_default" => pipe[o.pipeline] # None
         type == IF o.op = "new_pipeline" THEN o.type ELSE pipe[o.pipeline].type
         where == IF o.op = "new_pipeline" /\ ~o.isDefault THEN "cleared" ELSE "defaulting"
     IN \/ known /\ Reads(j, [seen[j] EXCEPT !.type = type], where)
        \/ ~known /\ Fail(j, "not_found")

\* UPDATE .. SET is_default = false starts: it will change the rows of the
\* type that are there now, and none that is inserted while it waits.
ClearBegin(j) ==
  /\ At(j, "defaulting", {"set_default", "new_pipeline"})
  /\ Reads(j, [seen[j] EXCEPT !.rows = {p \in Pipeline : pipe[p] # None
                                                        /\ pipe[p].type = seen[j].type}],
           "clearing")

\* .. and has every one of them.
Clear(j) ==
  /\ At(j, "clearing", {"set_default", "new_pipeline"})
  /\ \A p \in seen[j].rows : plock[p] = None
  /\ plock' = [p \in Pipeline |->
                 IF p \in seen[j].rows /\ pipe[p] # None THEN j ELSE plock[p]]
  /\ Goto(j, "cleared")
  /\ UNCHANGED <<tables, lock, draft, seen, res>>

\* The pipelines whose default j has cleared, as j commits them.
Cleared(j) ==
  [p \in Pipeline |-> IF plock[p] = j THEN [pipe[p] EXCEPT !.isDefault = FALSE] ELSE pipe[p]]

\* setDefault's second UPDATE, or the inserts of the pipeline and its stage.
DefaultEnd(j) ==
  /\ At(j, "cleared", {"set_default", "new_pipeline"})
  /\ LET o == req[j]
         p == IF o.op = "set_default" THEN o.pipeline ELSE j
         rows == Cleared(j)
     IN /\ plock[p] \in {j, None}
        /\ IF o.op = "new_pipeline"
             THEN /\ pipe' = [rows EXCEPT ![p] = [type |-> o.type, isDefault |-> o.isDefault]]
                  /\ stage' = [stage EXCEPT ![j] =
                                 [pipeline |-> p, outcome |-> o.outcome, position |-> 0]]
             ELSE /\ pipe' = IF rows[p] = None THEN rows ELSE [rows EXCEPT ![p].isDefault = TRUE]
                  /\ UNCHANGED stage
        /\ UNCHANGED rec
        /\ Succeed(j)

\* stageUsage and pipelineUsage count leads and deals, archived ones too.
InStage(s) == {r \in Record : rec[r] # None /\ rec[r].stage = s}

InPipeline(p) == {r \in Record : rec[r] # None /\ rec[r].pipeline = p}

\* pipeline.delete and stage.delete: not while a record is in them.
DropCheck(j) ==
  /\ Starts(j, {"drop_pipeline", "drop_stage"})
  /\ LET o == req[j]
         there == IF o.op = "drop_stage" THEN stage[o.stage] # None ELSE pipe[o.pipeline] # None
         used == IF o.op = "drop_stage" THEN InStage(o.stage) # {} ELSE InPipeline(o.pipeline) # {}
     IN \/ ~there /\ Fail(j, "not_found")
        \/ there /\ used /\ Fail(j, "in_use")
        \/ there /\ ~used /\ Reads(j, seen[j], "checked")

\* The rows an open transaction will commit into a stage hold the stage.
DraftsIn(s) == {r \in Record : draft[r] # None /\ draft[r].stage = s}

\* The deletes.  PostgreSQL refuses to delete a stage or a pipeline a record
\* refers to, whatever the operation has counted before.
Drop(j) ==
  /\ At(j, "checked", {"drop_pipeline", "drop_stage"})
  /\ LET o == req[j]
         gone == IF o.op = "drop_stage" THEN {o.stage} ELSE StagesOf(o.pipeline)
         kept == {r \in Record : rec[r] # None /\ rec[r].stage \in gone}
         held == store = "postgres" /\ kept # {}
     IN /\ \A s \in gone : DraftsIn(s) = {}
        /\ o.op = "drop_pipeline" => plock[o.pipeline] = None
        /\ \/ held /\ Fail(j, "not_found")
           \/ /\ ~held
              /\ stage' = [s \in Stage |-> IF s \in gone THEN None ELSE stage[s]]
              /\ pipe' = IF o.op = "drop_stage" THEN pipe ELSE [pipe EXCEPT ![o.pipeline] = None]
              /\ UNCHANGED rec
              /\ Succeed(j)

\* stage.add gets the pipeline and its highest position.
AddStageRead(j) ==
  /\ Starts(j, {"add_stage"})
  /\ LET p == req[j].pipeline
         places == {0} \cup {stage[s].position + 1 : s \in StagesOf(p)}
     IN \/ /\ pipe[p] # None
           /\ \E n \in places :
                /\ \A m \in places : m <= n
                /\ Reads(j, [seen[j] EXCEPT !.position = n], "checked")
        \/ pipe[p] = None /\ Fail(j, "not_found")

AddStage(j) ==
  /\ At(j, "checked", {"add_stage"})
  /\ LET p == req[j].pipeline
     IN \/ /\ pipe[p] # None
           /\ stage' = [stage EXCEPT ![j] = [pipeline |-> p, outcome |-> None,
                                             position |-> seen[j].position]]
           /\ UNCHANGED <<pipe, rec>>
           /\ Succeed(j)
        \/ pipe[p] = None /\ Fail(j, "not_found")

\* stage.update: the records already in the stage are not touched.
EditStage(j) ==
  /\ Starts(j, {"edit_stage"})
  /\ LET s == req[j].stage
     IN \/ /\ stage[s] # None
           /\ stage' = [stage EXCEPT ![s].outcome = req[j].outcome]
           /\ UNCHANGED <<pipe, rec>>
           /\ Succeed(j)
        \/ stage[s] = None /\ Fail(j, "not_found")

\* stage.reorder only counts the different ids it is given.
ReorderCheck(j) ==
  /\ Starts(j, {"reorder"})
  /\ LET o == req[j]
         ids == {o.stages[i] : i \in DOMAIN o.stages}
     IN \/ pipe[o.pipeline] = None /\ Fail(j, "not_found")
        \/ /\ pipe[o.pipeline] # None
           /\ Cardinality(ids) # Cardinality(StagesOf(o.pipeline))
           /\ Fail(j, "refused")
        \/ /\ pipe[o.pipeline] # None
           /\ Cardinality(ids) = Cardinality(StagesOf(o.pipeline))
           /\ Reads(j, seen[j], "checked")

\* One UPDATE per id, in order; a stage that is not the pipeline's is skipped.
Reorder(j) ==
  /\ At(j, "checked", {"reorder"})
  /\ LET o == req[j]
         last(s) == CHOOSE i \in DOMAIN o.stages :
                      o.stages[i] = s /\ \A k \in DOMAIN o.stages : o.stages[k] = s => k <= i
     IN stage' = [s \in Stage |->
                    IF s \in StagesOf(o.pipeline) /\ \E i \in DOMAIN o.stages : o.stages[i] = s
                      THEN [stage[s] EXCEPT !.position = last(s) - 1]
                      ELSE stage[s]]
  /\ UNCHANGED <<pipe, rec>>
  /\ Succeed(j)

-----------------------------------------------------------------------------
Init ==
  /\ store \in {"sqlite", "postgres"}
  /\ pipe = InitPipe
  /\ stage = InitStage
  /\ rec = InitRec
  /\ lock = [r \in Record |-> None]
  /\ draft = [r \in Record |-> None]
  /\ plock = [p \in Pipeline |-> None]
  /\ req \in [Job -> Op]
  /\ pc = [j \in Job |-> "idle"]
  /\ seen = [j \in Job |-> Nothing]
  /\ res = [j \in Job |-> NoResult]

Step(j) ==
  \/ Resolve(j) \/ Insert(j)
  \/ ReadRecord(j) \/ FindStage(j) \/ UpdateRecord(j) \/ DeleteRecord(j)
  \/ BulkBegin(j) \/ BulkRead(j) \/ BulkWrite(j) \/ BulkCommit(j) \/ DeadlockAbort(j)
  \/ DefaultBegin(j) \/ ClearBegin(j) \/ Clear(j) \/ DefaultEnd(j)
  \/ DropCheck(j) \/ Drop(j) \/ AddStageRead(j) \/ AddStage(j)
  \/ EditStage(j) \/ ReorderCheck(j) \/ Reorder(j)

Next == \E j \in Job : Step(j)

Spec == Init /\ [][Next]_vars

\* The stores run the statements they are sent: a started operation goes on.
FairSpec == Spec /\ \A j \in Job : WF_vars(Step(j))

-----------------------------------------------------------------------------
(* Properties.                                                             *)

\* Every lead and deal sits in a stage that exists, of the pipeline the
\* record names, which exists too.  PostgreSQL has a foreign key for this;
\* SQLite only the usage counts before a delete (pipeline-ops.ts:169) and the
\* lookups before a write, so it depends on operations not interleaving.
StageInPipeline ==
  \A r \in Record : rec[r] # None =>
    /\ rec[r].stage \in StagesOf(rec[r].pipeline)
    /\ pipe[rec[r].pipeline] # None

\* A deal has a closing date exactly while it is won or lost, whatever moves,
\* closings and reopenings run at once (deal-ops.ts sets the two together, but
\* from a status it may have read before another operation changed it).
ClosedIffDated ==
  \A r \in Record : rec[r] # None => (rec[r].closedAt <=> rec[r].status # "open")

\* Where units of work do not interleave, an operation that was given an
\* expectedVersion overwrites that version and no other ("Optimistic
\* concurrency check", domain.ts:32).  The check is a read; the UPDATE does
\* not repeat it.
GuardedWriteOnSqlite ==
  store = "sqlite" =>
    \A j \in Job : res[j].kind = "ok" /\ req[j].op \in OneRecord \ {"delete"} =>
      req[j].at.expected \in {None, res[j].base}

\* A lead's deal and a deal's lead exist: deleting one clears the other's link.
LinkedRecordExists ==
  \A r \in Record : rec[r] # None /\ rec[r].link # None => rec[rec[r].link] # None

\* Where units of work do not interleave, a type has at most one default
\* pipeline ("Make a pipeline the default for its type", pipeline-ops.ts:63).
OneDefaultOnSqlite ==
  store = "sqlite" =>
    \A t \in Kind : Cardinality({p \in Pipeline : pipe[p] # None /\ pipe[p].type = t
                                                  /\ pipe[p].isDefault}) <= 1

\* Every operation ends, also two bulk operations that take the same records
\* in opposite orders.
EveryJobEnds == \A j \in Job : <>(pc[j] = "done")

\* The types; stages of the record's pipeline, closing dates that go with the
\* status, links to records that exist, and one default pipeline.
Inv == TypeOK /\ StageInPipeline /\ ClosedIffDated /\ LinkedRecordExists /\ OneDefaultOnSqlite
=============================================================================
