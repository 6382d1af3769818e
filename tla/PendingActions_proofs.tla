------------------------- MODULE PendingActions_proofs -------------------------
(***************************************************************************)
(* Theorems about PendingActions, for every set of requests, whatever they *)
(* call and whoever calls them: its invariant Inv, that refusals are on    *)
(* record, and that on SQLite a decision is final.                         *)
(*                                                                         *)
(* None of the parts of Inv is inductive.  A decline is recorded once      *)
(* because whoever records one found the action pending and leaves it      *)
(* decided, and nothing makes it pending again (DeclineSettles); what was  *)
(* declined never ran because a run settles the action the same way        *)
(* (RunSettles).  The status tells what ran where a transaction that will  *)
(* approve is alone and the action it has read is still pending (Alone,    *)
(* ReadStands).                                                            *)
(***************************************************************************)
EXTENDS PendingActions, FiniteSetTheorems, TLAPS

\* r's call has its transaction open and has read the action.
Acting(r) == pc[r] \in {"approving", "deciding"}

HasDeclined(r) == audit[r] \cap {"rejected", "cancelled", "expired"} # {}

ActionRead == \A r \in Request : Acting(r) => action # None

RunSettles ==
  \A r \in Request : runs[r] > 0 => action # None /\ action.status \in {"approved", "failed"}

DeclineSettles ==
  \A r \in Request : HasDeclined(r) => action # None /\ action.status # "pending"

OneDeclines == \A r, s \in Request : HasDeclined(r) /\ HasDeclined(s) => r = s

Alone == store = "sqlite" => \A r, s \in Request : Acting(r) /\ Acting(s) => r = s

ReadStands ==
  store = "sqlite" => \A r \in Request : pc[r] = "approving" => action.status = "pending"

IInv ==
  /\ TypeOK
  /\ ActionRead
  /\ RunSettles
  /\ DeclineSettles
  /\ OneDeclines
  /\ RefusalIsRecorded
  /\ Alone
  /\ ReadStands
  /\ StatusTellsRunsOnSqlite

-----------------------------------------------------------------------------
LEMMA InvFromIInv == IInv => Inv
<1>. SUFFICES ASSUME IInv PROVE Inv
  OBVIOUS
<1>1. DeclinedNeverRan
  BY DEF IInv, RunSettles, DeclinedNeverRan, Ran
<1>2. OneDeclineRecorded
  <2>. DEFINE D == {r \in Request : HasDeclined(r)}
  <2>1. CASE D = {}
    <3>1. Cardinality(D) = 0
      BY <2>1, FS_EmptySet
    <3>. QED
      BY <3>1 DEF OneDeclineRecorded, HasDeclined
  <2>2. CASE D # {}
    <3>1. PICK r \in D : TRUE
      BY <2>2
    <3>2. D = {r}
      BY <3>1 DEF IInv, OneDeclines
    <3>3. Cardinality(D) = 1
      BY <3>2, FS_Singleton
    <3>. QED
      BY <3>3 DEF OneDeclineRecorded, HasDeclined
  <2>. QED
    BY <2>1, <2>2
<1>. QED
  BY <1>1, <1>2 DEF IInv, Inv

LEMMA InitIInv == Init => IInv
<1>. SUFFICES ASSUME Init PROVE IInv
  OBVIOUS
<1>. USE DEF Init
<1>1. TypeOK
  <2>1. audit \in [Request -> SUBSET (Terminal \cup {"created", "expired", "refused"})]
    OBVIOUS
  <2>2. pc \in [Request -> {"idle", "approving", "deciding", "refused", "answered"}]
    OBVIOUS
  <2>3. failures \in 0..MaxFailures
    BY RequestAssumption
  <2>. QED
    BY <2>1, <2>2, <2>3 DEF TypeOK
<1>2. ActionRead /\ Alone /\ ReadStands
  BY DEF ActionRead, Alone, ReadStands, Acting
<1>3. RunSettles /\ DeclineSettles /\ OneDeclines /\ RefusalIsRecorded
  BY DEF RunSettles, DeclineSettles, OneDeclines, RefusalIsRecorded, HasDeclined
<1>4. StatusTellsRunsOnSqlite
  BY DEF StatusTellsRunsOnSqlite, StatusTellsRuns, Ran
<1>. QED
  BY <1>1, <1>2, <1>3, <1>4 DEF IInv

-----------------------------------------------------------------------------
(* The steps that leave the action and what ran alone: every step but Ask, *)
(* Execute and a Decide that takes.                                        *)

Where == {"idle", "approving", "deciding", "refused", "answered"}
Event == Terminal \cup {"created", "expired", "refused"}
Answer == {"nothing", "pending", "expired", "denied", "not_found", "forbidden", "error"}
            \cup Terminal

\* r alone moves, begins a transaction only if it may, goes on to approve only
\* what is pending, and hears of a refusal that is on record.
Watches(r) ==
  /\ UNCHANGED <<store, action, runs>>
  /\ due' \in BOOLEAN
  /\ failures' \in 0..MaxFailures
  /\ pc' = [pc EXCEPT ![r] = pc'[r]] /\ pc'[r] \in Where
  /\ told' = [told EXCEPT ![r] = told'[r]] /\ told'[r] \in Answer
  /\ \/ audit' = audit
     \/ audit' = [audit EXCEPT ![r] = @ \cup {"refused"}]
  /\ told'[r] = "forbidden" => "refused" \in audit'[r]
  /\ pc'[r] \in {"approving", "deciding"} => MayBegin(r) /\ action # None
  /\ pc'[r] = "approving" => action.status = "pending"

LEMMA WatchKeeps == ASSUME IInv, NEW r \in Request, Watches(r) PROVE IInv'
<1>0. /\ UNCHANGED <<store, action, runs>>
      /\ pc \in [Request -> Where] /\ told \in [Request -> Answer]
      /\ audit \in [Request -> SUBSET Event]
  BY DEF Watches, IInv, TypeOK, Where, Answer, Event
<1>1. /\ pc' \in [Request -> Where] /\ told' \in [Request -> Answer]
      /\ \A s \in Request \ {r} : pc'[s] = pc[s] /\ told'[s] = told[s]
  BY <1>0 DEF Watches
<1>2. /\ audit' \in [Request -> SUBSET Event]
      /\ \A s \in Request : audit'[s] = audit[s] \/ audit'[s] = audit[s] \cup {"refused"}
  BY <1>0 DEF Watches, Event
<1>3. TypeOK'
  BY <1>0, <1>1, <1>2 DEF Watches, IInv, TypeOK, Where, Answer, Event
<1>4. ActionRead'
  BY <1>0, <1>1 DEF Watches, IInv, ActionRead, Acting
<1>5. RunSettles'
  BY <1>0 DEF IInv, RunSettles
<1>6. DeclineSettles' /\ OneDeclines'
  <2>1. \A s \in Request : HasDeclined(s)' => HasDeclined(s)
    BY <1>2 DEF HasDeclined
  <2>. QED
    BY <1>0, <2>1 DEF IInv, DeclineSettles, OneDeclines
<1>7. RefusalIsRecorded'
  BY <1>0, <1>1, <1>2 DEF Watches, IInv, RefusalIsRecorded
<1>8. Alone'
  BY <1>0, <1>1 DEF Watches, IInv, Alone, Acting, MayBegin
<1>9. ReadStands'
  BY <1>0, <1>1 DEF Watches, IInv, ReadStands
<1>10. StatusTellsRunsOnSqlite'
  BY <1>0 DEF IInv, StatusTellsRunsOnSqlite, StatusTellsRuns, Ran
<1>. QED
  BY <1>3, <1>4, <1>5, <1>6, <1>7, <1>8, <1>9, <1>10 DEF IInv

\* Ends of calls that wrote nothing.
LEMMA TellWatches ==
  ASSUME IInv, NEW r \in Request, NEW what \in Answer \ {"forbidden"}, Tell(r, what),
         UNCHANGED <<store, action, runs, audit>>, due' \in BOOLEAN,
         failures' \in 0..MaxFailures
  PROVE  Watches(r)
<1>1. pc \in [Request -> Where] /\ told \in [Request -> Answer]
  BY DEF IInv, TypeOK, Where, Answer
<1>2. pc'[r] = "answered" /\ told'[r] = what
  BY <1>1 DEF Tell
<1>. QED
  BY <1>1, <1>2 DEF Tell, Watches, Where, Answer

\* Calls that have read the action and go on.
LEMMA ProceedWatches ==
  ASSUME IInv, NEW r \in Request, NEW where \in Where, Proceed(r, where), MayBegin(r),
         UNCHANGED <<store, due>>, action # None,
         where = "approving" => action.status = "pending"
  PROVE  Watches(r)
<1>1. /\ pc \in [Request -> Where] /\ told \in [Request -> Answer]
      /\ due \in BOOLEAN /\ failures \in 0..MaxFailures
  BY DEF IInv, TypeOK, Where, Answer
<1>2. pc'[r] = where /\ told'[r] = told[r]
  BY <1>1 DEF Proceed
<1>. QED
  BY <1>1, <1>2 DEF Proceed, Watches, IInv, RefusalIsRecorded

LEMMA RowFacts ==
  ASSUME IInv, action # None
  PROVE  action \in ActionRow /\ action.status \in Answer \ {"forbidden"}
  BY DEF IInv, TypeOK, ActionRow, Answer, Terminal

LEMMA ReadsWatch ==
  ASSUME IInv, NEW r \in Request, ReadForApproval(r) \/ ReadForDecision(r) \/ ReadOwnTask(r)
  PROVE  Watches(r)
<1>1. /\ action # None /\ MayBegin(r) /\ UNCHANGED <<store, due>>
      /\ due \in BOOLEAN /\ failures \in 0..MaxFailures
  BY DEF ReadForApproval, ReadForDecision, ReadOwnTask, Begins, IInv, TypeOK
<1>2. action.status \in Answer \ {"forbidden"}
  BY <1>1, RowFacts
<1>3. \/ \E what \in Answer \ {"forbidden"} : TellOnly(r, what)
      \/ Proceed(r, "refused") \/ Proceed(r, "deciding")
      \/ Proceed(r, "approving") /\ action.status = "pending"
  <2>1. {"expired", "denied", "not_found"} \subseteq Answer \ {"forbidden"}
    BY DEF Answer
  <2>2. CASE ReadForApproval(r)
    BY <1>2, <2>1, <2>2 DEF ReadForApproval
  <2>3. CASE ReadForDecision(r)
    BY <1>2, <2>1, <2>3 DEF ReadForDecision
  <2>4. CASE ReadOwnTask(r)
    BY <1>2, <2>1, <2>4 DEF ReadOwnTask
  <2>. QED
    BY <2>2, <2>3, <2>4
<1>4. ASSUME NEW what \in Answer \ {"forbidden"}, TellOnly(r, what) PROVE Watches(r)
  BY <1>1, <1>4, TellWatches DEF TellOnly
<1>5. {"refused", "deciding", "approving"} \subseteq Where
  BY DEF Where
<1>. QED
  BY <1>1, <1>3, <1>4, <1>5, ProceedWatches

LEMMA AsideWatches ==
  ASSUME IInv, NEW r \in Request, Again(r) \/ Deny(r) \/ Fail(r) \/ RecordRefusal(r)
  PROVE  Watches(r)
<1>0. /\ pc \in [Request -> Where] /\ told \in [Request -> Answer]
      /\ audit \in [Request -> SUBSET Event]
      /\ due \in BOOLEAN /\ failures \in 0..MaxFailures
  BY DEF IInv, TypeOK, Where, Answer, Event
<1>1. CASE Again(r)
  <2>1. pc'[r] = "idle" /\ told'[r] = "nothing"
    BY <1>0, <1>1 DEF Again
  <2>. QED
    BY <1>0, <1>1, <2>1 DEF Again, Watches, Where, Answer
<1>2. CASE Deny(r)
  <2>1. "denied" \in Answer \ {"forbidden"}
    BY DEF Answer
  <2>. QED
    BY <1>0, <1>2, <2>1, TellWatches DEF Deny, TellOnly
<1>3. CASE Fail(r)
  <2>1. "error" \in Answer \ {"forbidden"}
    BY DEF Answer
  <2>2. failures' \in 0..MaxFailures
    BY <1>0, <1>3, RequestAssumption DEF Fail
  <2>. QED
    BY <1>0, <1>3, <2>1, <2>2, TellWatches DEF Fail
<1>4. CASE RecordRefusal(r)
  <2>1. pc'[r] = "answered" /\ told'[r] = "forbidden" /\ "refused" \in audit'[r]
    BY <1>0, <1>4 DEF RecordRefusal, Tell, Record
  <2>. QED
    BY <1>0, <1>4, <2>1 DEF RecordRefusal, Tell, Record, Watches, Where, Answer
<1>. QED
  BY <1>1, <1>2, <1>3, <1>4

-----------------------------------------------------------------------------
(* The steps that change the action.                                       *)

LEMMA AskKeeps == ASSUME IInv, NEW r \in Request, Ask(r) PROVE IInv'
<1>0. /\ pc \in [Request -> Where] /\ told \in [Request -> Answer]
      /\ audit \in [Request -> SUBSET Event]
  BY DEF IInv, TypeOK, Where, Answer, Event
<1>1. /\ action = None /\ action' = [status |-> "pending", result |-> None]
      /\ audit' = [audit EXCEPT ![r] = @ \cup {"created"}]
      /\ told' = [told EXCEPT ![r] = "pending"] /\ pc' = [pc EXCEPT ![r] = "answered"]
      /\ UNCHANGED <<store, due, runs, failures>>
  BY DEF Ask, Record, Tell
<1>2. /\ \A s \in Request : ~Acting(s) /\ ~(runs[s] > 0) /\ ~HasDeclined(s)
  BY <1>1 DEF IInv, ActionRead, RunSettles, DeclineSettles
<1>3. action' \in ActionRow
  BY <1>1 DEF ActionRow
<1>4. TypeOK'
  BY <1>0, <1>1, <1>3 DEF IInv, TypeOK, Where, Answer, Event
<1>5. \A s \in Request : ~Acting(s)' /\ ~(runs'[s] > 0) /\ ~HasDeclined(s)'
  BY <1>0, <1>1, <1>2 DEF Acting, HasDeclined
<1>6. RefusalIsRecorded'
  BY <1>0, <1>1 DEF IInv, RefusalIsRecorded
<1>7. Ran' = {} /\ action' # None /\ action'.status = "pending"
  BY <1>1, <1>3, <1>5, RowAssumption DEF Ran
<1>8. StatusTellsRunsOnSqlite'
  BY <1>7 DEF StatusTellsRunsOnSqlite, StatusTellsRuns
<1>. QED
  BY <1>4, <1>5, <1>6, <1>7, <1>8
     DEF IInv, ActionRead, RunSettles, DeclineSettles, OneDeclines, Alone, ReadStands, Acting

LEMMA ExecuteKeeps == ASSUME IInv, NEW r \in Request, Execute(r) PROVE IInv'
<1>0. /\ pc \in [Request -> Where] /\ told \in [Request -> Answer]
      /\ audit \in [Request -> SUBSET Event] /\ runs \in [Request -> Nat]
  BY DEF IInv, TypeOK, Where, Answer, Event
<1>1. PICK what \in {"approved", "failed"} :
        /\ pc[r] = "approving"
        /\ IF what = "approved"
             THEN action' = [status |-> what, result |-> r] /\ runs' = [runs EXCEPT ![r] = @ + 1]
             ELSE action' = [status |-> what, result |-> None] /\ runs' = runs
        /\ audit' = [audit EXCEPT ![r] = @ \cup {what}]
        /\ told' = [told EXCEPT ![r] = what] /\ pc' = [pc EXCEPT ![r] = "answered"]
        /\ UNCHANGED <<store, due, failures>>
  BY DEF Execute, SetStatus, Record, Tell
<1>2. action' \in ActionRow /\ action'.status = what
  BY <1>1 DEF ActionRow, Terminal
<1>3. action' # None
  BY <1>2, RowAssumption
<1>4. TypeOK'
  <2>1. runs' \in [Request -> Nat]
    BY <1>0, <1>1
  <2>2. audit' \in [Request -> SUBSET Event]
    BY <1>0, <1>1 DEF Event, Terminal
  <2>3. told' \in [Request -> Answer] /\ pc' \in [Request -> Where]
    BY <1>0, <1>1 DEF Answer, Terminal, Where
  <2>. QED
    BY <1>1, <1>2, <2>1, <2>2, <2>3 DEF IInv, TypeOK, Where, Answer, Event
<1>5. ActionRead' /\ RunSettles'
  BY <1>2, <1>3 DEF ActionRead, RunSettles
<1>6. \A s \in Request : HasDeclined(s)' => HasDeclined(s)
  BY <1>0, <1>1 DEF HasDeclined
<1>7. DeclineSettles' /\ OneDeclines'
  BY <1>2, <1>3, <1>6 DEF IInv, DeclineSettles, OneDeclines
<1>8. RefusalIsRecorded'
  BY <1>0, <1>1 DEF IInv, RefusalIsRecorded
<1>9. \A s \in Request : Acting(s)' => s # r /\ Acting(s)
  BY <1>0, <1>1 DEF Acting
<1>10. Alone' /\ ReadStands'
  <2>1. Acting(r)
    BY <1>1 DEF Acting
  <2>. QED
    BY <1>1, <1>9, <2>1 DEF IInv, Alone, ReadStands, Acting
<1>11. StatusTellsRunsOnSqlite'
  <2>. SUFFICES ASSUME store = "sqlite" PROVE StatusTellsRuns'
    BY <1>1 DEF StatusTellsRunsOnSqlite
  <2>1. action.status = "pending" /\ Ran = {}
    BY <1>1 DEF IInv, ReadStands, StatusTellsRunsOnSqlite, StatusTellsRuns
  <2>2. \A s \in Request : runs[s] = 0
    BY <1>0, <2>1 DEF Ran
  <2>3. CASE what = "approved"
    <3>1. action'.result = r /\ runs'[r] = 1 /\ \A s \in Request \ {r} : runs'[s] = 0
      BY <1>0, <1>1, <2>2, <2>3
    <3>2. Ran' = {r}
      BY <3>1 DEF Ran
    <3>. QED
      BY <1>2, <1>3, <2>3, <3>1, <3>2 DEF StatusTellsRuns
  <2>4. CASE what = "failed"
    BY <1>1, <1>2, <2>1, <2>4 DEF StatusTellsRuns, Ran
  <2>. QED
    BY <2>3, <2>4
<1>. QED
  BY <1>4, <1>5, <1>7, <1>8, <1>10, <1>11 DEF IInv

LEMMA DecideKeeps == ASSUME IInv, NEW r \in Request, Decide(r) PROVE IInv'
<1>0. /\ pc \in [Request -> Where] /\ told \in [Request -> Answer]
      /\ audit \in [Request -> SUBSET Event] /\ runs \in [Request -> Nat]
      /\ due \in BOOLEAN /\ failures \in 0..MaxFailures
  BY DEF IInv, TypeOK, Where, Answer, Event
<1>1. pc[r] = "deciding" /\ action # None /\ UNCHANGED <<store, due, runs, failures>>
  BY DEF Decide, IInv, ActionRead, Acting
<1>2. CASE action.status # "pending"
  <2>1. action.status \in Answer \ {"forbidden"}
    BY <1>1, RowFacts
  <2>2. Tell(r, action.status) /\ UNCHANGED <<action, audit>>
    BY <1>2 DEF Decide, StillPending
  <2>3. Watches(r)
    BY <1>0, <1>1, <2>1, <2>2, TellWatches
  <2>. QED
    BY <2>3, WatchKeeps
<1>3. CASE action.status = "pending"
  <2>1. PICK what \in {"rejected", "cancelled"}, event \in {"rejected", "cancelled", "expired"} :
          /\ action' = [status |-> what, result |-> None]
          /\ audit' = [audit EXCEPT ![r] = @ \cup {event}]
          /\ told' = [told EXCEPT ![r] = what] /\ pc' = [pc EXCEPT ![r] = "answered"]
    <3>1. /\ SetStatus(Declined(r), None) /\ Tell(r, Declined(r))
          /\ Record(r, IF opOf[r] = "getOwnTask" THEN "expired" ELSE Declined(r))
      BY <1>3 DEF Decide, StillPending
    <3>2. Declined(r) \in {"rejected", "cancelled"}
      BY DEF Declined
    <3>. QED
      BY <3>1, <3>2 DEF SetStatus, Tell, Record
  <2>2. action' \in ActionRow /\ action'.status = what
    BY <2>1 DEF ActionRow, Terminal
  <2>3. action' # None
    BY <2>2, RowAssumption
  <2>4. \A s \in Request : ~(runs[s] > 0) /\ ~HasDeclined(s)
    BY <1>3 DEF IInv, RunSettles, DeclineSettles
  <2>5. TypeOK'
    <3>1. audit' \in [Request -> SUBSET Event]
      BY <1>0, <2>1 DEF Event, Terminal
    <3>2. told' \in [Request -> Answer] /\ pc' \in [Request -> Where]
      BY <1>0, <2>1 DEF Answer, Terminal, Where
    <3>. QED
      BY <1>0, <1>1, <2>2, <3>1, <3>2 DEF IInv, TypeOK, Where, Answer, Event
  <2>6. ActionRead' /\ RunSettles' /\ DeclineSettles'
    BY <1>1, <2>2, <2>3, <2>4 DEF ActionRead, RunSettles, DeclineSettles
  <2>7. OneDeclines'
    <3>1. \A s \in Request \ {r} : ~HasDeclined(s)'
      BY <1>0, <2>1, <2>4 DEF HasDeclined
    <3>. QED
      BY <3>1 DEF OneDeclines
  <2>8. RefusalIsRecorded'
    BY <1>0, <2>1 DEF IInv, RefusalIsRecorded
  <2>9. Alone' /\ ReadStands'
    <3>1. \A s \in Request : Acting(s)' => s # r /\ Acting(s)
      BY <1>0, <2>1 DEF Acting
    <3>2. Acting(r)
      BY <1>1 DEF Acting
    <3>. QED
      BY <1>1, <3>1, <3>2 DEF IInv, Alone, ReadStands, Acting
  <2>10. StatusTellsRunsOnSqlite'
    BY <1>1, <2>2, <2>4 DEF StatusTellsRunsOnSqlite, StatusTellsRuns, Ran
  <2>. QED
    BY <2>5, <2>6, <2>7, <2>8, <2>9, <2>10 DEF IInv
<1>. QED
  BY <1>2, <1>3

LEMMA NextKeeps == IInv /\ [Next]_vars => IInv'
<1>. SUFFICES ASSUME IInv, [Next]_vars PROVE IInv'
  OBVIOUS
<1>1. ASSUME NEW r \in Request, Again(r) \/ Serve(r) \/ Fail(r) PROVE IInv'
  BY <1>1, WatchKeeps, ReadsWatch, AsideWatches, AskKeeps, ExecuteKeeps, DecideKeeps
     DEF Serve, Finish
<1>2. ASSUME UNCHANGED <<store, action, pc, told, runs, audit, failures>>, due' \in BOOLEAN
      PROVE  IInv'
  <2>. USE <1>2 DEF IInv
  <2>1. TypeOK' /\ RefusalIsRecorded'
    BY DEF TypeOK, RefusalIsRecorded
  <2>2. ActionRead' /\ Alone' /\ ReadStands'
    BY DEF ActionRead, Alone, ReadStands, Acting
  <2>3. RunSettles' /\ DeclineSettles' /\ OneDeclines'
    BY DEF RunSettles, DeclineSettles, OneDeclines, HasDeclined
  <2>4. StatusTellsRunsOnSqlite'
    BY DEF StatusTellsRunsOnSqlite, StatusTellsRuns, Ran
  <2>. QED
    BY <2>1, <2>2, <2>3, <2>4
<1>3. CASE Expire
  BY <1>2, <1>3 DEF Expire
<1>4. CASE UNCHANGED vars
  BY <1>2, <1>4 DEF vars, IInv, TypeOK
<1>. QED
  BY <1>1, <1>3, <1>4 DEF Next

LEMMA IInvHolds == Spec => []IInv
<1>1. Init => IInv
  BY InitIInv
<1>2. IInv /\ [Next]_vars => IInv'
  BY NextKeeps
<1>. QED
  BY <1>1, <1>2, PTL DEF Spec

\* A rejection or cancellation that stands means the stored operation never
\* ran, on either store, and one audit event says so however reject, cancel and
\* expiry race; on SQLite the status and the result tell what ran
\* (setStatus and transitionIfPending of approval-ops.ts).
THEOREM DecisionsTell == Spec => []Inv
<1>1. IInv => Inv
  BY InvFromIInv
<1>. QED
  BY <1>1, IInvHolds, PTL

\* An agent hears "forbidden" of its own approval only after the audit event
\* is on record, though the refusing transaction rolled back (AuditedRefusal,
\* catalog.ts:40).
THEOREM RefusalsAreRecorded == Spec => []RefusalIsRecorded
<1>1. IInv => RefusalIsRecorded
  BY DEF IInv
<1>. QED
  BY <1>1, IInvHolds, PTL

\* On SQLite a decided action stays as it was decided, by whatever calls and
\* failures follow.
THEOREM DecidedStays == Spec => TerminalIsFinalOnSqlite
<1>1. ASSUME IInv, [Next]_vars, store = "sqlite", action # None, action.status \in Terminal
      PROVE  action' = action
  <2>1. action.status # "pending"
    BY <1>1 DEF Terminal
  <2>2. ASSUME NEW r \in Request, Ask(r) PROVE action' = action
    BY <1>1, <2>2 DEF Ask
  <2>3. ASSUME NEW r \in Request, Execute(r) PROVE action' = action
    BY <1>1, <2>1, <2>3 DEF Execute, IInv, ReadStands
  <2>4. ASSUME NEW r \in Request, Decide(r) PROVE action' = action
    BY <2>1, <2>4 DEF Decide, StillPending
  <2>5. ASSUME NEW r \in Request, Watches(r) PROVE action' = action
    BY <2>5 DEF Watches
  <2>6. CASE UNCHANGED vars \/ Expire
    BY <2>6 DEF vars, Expire
  <2>. QED
    BY <1>1, <2>2, <2>3, <2>4, <2>5, <2>6, ReadsWatch, AsideWatches DEF Next, Serve, Finish
<1>2. IInv /\ [Next]_vars =>
        [store = "sqlite" /\ action # None /\ action.status \in Terminal => action' = action]_vars
  BY <1>1
<1>. QED
  BY <1>2, IInvHolds, PTL DEF Spec, TerminalIsFinalOnSqlite
=============================================================================
