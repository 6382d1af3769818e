---------------------------- MODULE PendingActions ----------------------------
(***************************************************************************)
(* The approval gate: a risky operation an agent may not run on its own    *)
(* becomes a pending action, which reviewers approve or reject, its        *)
(* requester cancels or polls, and time expires                            *)
(* (packages/core/src/catalog.ts, operations/approval-ops.ts).             *)
(*                                                                         *)
(* Every operation reads the action first and writes it later, in one      *)
(* transaction.  On SQLite the transaction has the database to itself; on  *)
(* PostgreSQL (READ COMMITTED) others commit between the read and the      *)
(* write.  approve writes by id alone (setStatus); the others write only   *)
(* if the action is still pending (transitionIfPending).                   *)
(***************************************************************************)
EXTENDS Naturals, FiniteSets

CONSTANTS
  Request,      \* requests about the one action
  opOf,         \* opOf[r]: the operation r calls
  actorOf,      \* actorOf[r]: who calls it
  None,
  MaxFailures   \* bound on transactions that fail to commit

Operation == {"ask", "approve", "reject", "cancel", "getOwnTask", "cancelOwnTask"}
Role == {"viewer", "member", "admin", "owner"}
Scope == {"read", "write", "admin", "approvals"}

\* agent: an MCP client, not a human.  requester: the caller is the client or
\* user the action is requested by.
Actor == [agent : BOOLEAN, role : Role, scopes : SUBSET Scope, requester : BOOLEAN]

ASSUME RequestAssumption ==
  /\ opOf \in [Request -> Operation]
  /\ actorOf \in [Request -> Actor]
  /\ None \notin Request
  /\ MaxFailures \in Nat

VARIABLES
  store,     \* "sqlite" or "postgres"
  action,    \* the pending_actions row, None before it is created
  due,       \* expires_at has passed
  pc,        \* where r's call is
  told,      \* the status r's caller was last told, or why none
  runs,      \* history: committed executions of the stored operation, by r
  audit,     \* the audit events r's calls committed
  failures

vars == <<store, action, due, pc, told, runs, audit, failures>>

-----------------------------------------------------------------------------
Terminal == {"approved", "failed", "rejected", "cancelled"}

\* result: whose execution the stored result is of.
ActionRow == [status : {"pending"} \cup Terminal, result : Request \cup {None}]

\* No row (NULL) is not a row.
ASSUME RowAssumption == None \notin ActionRow

TypeOK ==
  /\ store \in {"sqlite", "postgres"}
  /\ action \in ActionRow \cup {None}
  /\ due \in BOOLEAN
  /\ pc \in [Request -> {"idle", "approving", "deciding", "refused", "answered"}]
  /\ told \in [Request -> {"nothing", "pending", "expired", "denied", "not_found",
                           "forbidden", "error"} \cup Terminal]
  /\ runs \in [Request -> Nat]
  /\ audit \in [Request -> SUBSET (Terminal \cup {"created", "expired", "refused"})]
  /\ failures \in 0 .. MaxFailures

Rank == [viewer |-> 0, member |-> 1, admin |-> 2, owner |-> 3]
RoleAtLeast(role, min) == Rank[role] >= Rank[min]

MinRole == [op \in Operation |->
              IF op \in {"approve", "reject"} THEN "admin" ELSE "member"]
ScopeOf == [op \in Operation |-> IF op \in {"ask", "cancel"} THEN "write" ELSE "approvals"]
RequesterOnly == {"getOwnTask", "cancelOwnTask"}

\* authorize: humans need the role; agents the scope and, where no approval
\* gate follows, the role.
Authorized(r) ==
  LET op == opOf[r]
      actor == actorOf[r]
  IN \/ ~actor.agent /\ RoleAtLeast(actor.role, MinRole[op])
     \/ actor.agent /\ op \in RequesterOnly
     \/ /\ actor.agent
        /\ ScopeOf[op] \in actor.scopes
        /\ op = "ask" \/ RoleAtLeast(actor.role, MinRole[op])

\* On SQLite a transaction begins only when no other is open.
MayBegin(r) ==
  store = "sqlite" =>
    \A s \in Request \ {r} : pc[s] \notin {"approving", "deciding"}

Tell(r, what) ==
  /\ told' = [told EXCEPT ![r] = what]
  /\ pc' = [pc EXCEPT ![r] = "answered"]

Record(r, event) == audit' = [audit EXCEPT ![r] = @ \cup {event}]

\* A call that ends without having written anything.
TellOnly(r, what) ==
  /\ Tell(r, what)
  /\ UNCHANGED <<action, runs, audit, failures>>

\* The call read what it needs and goes on in its transaction.
Proceed(r, where) ==
  /\ pc' = [pc EXCEPT ![r] = where]
  /\ UNCHANGED <<action, told, runs, audit, failures>>

-----------------------------------------------------------------------------
Init ==
  /\ store \in {"sqlite", "postgres"}
  /\ action = None
  /\ due = FALSE
  /\ pc = [r \in Request |-> "idle"]
  /\ told = [r \in Request |-> "nothing"]
  /\ runs = [r \in Request |-> 0]
  /\ audit = [r \in Request |-> {}]
  /\ failures = 0

\* A requester polls its task again; every other request is sent once.
Again(r) ==
  /\ pc[r] = "answered"
  /\ opOf[r] = "getOwnTask"
  /\ pc' = [pc EXCEPT ![r] = "idle"]
  /\ told' = [told EXCEPT ![r] = "nothing"]
  /\ UNCHANGED <<store, action, due, runs, audit, failures>>

\* runOperation parks the agent's risky operation: the action and its audit
\* event commit together.
Ask(r) ==
  /\ pc[r] = "idle"
  /\ opOf[r] = "ask"
  /\ action = None
  /\ Authorized(r)
  /\ MayBegin(r)
  /\ action' = [status |-> "pending", result |-> None]
  /\ Record(r, "created")
  /\ Tell(r, "pending")
  /\ UNCHANGED <<store, due, runs, failures>>

\* authorize runs before any transaction.
Deny(r) ==
  /\ pc[r] = "idle"
  /\ ~Authorized(r)
  /\ TellOnly(r, "denied")
  /\ UNCHANGED <<store, due>>

\* An operation's transaction begins by reading the action.
Begins(r, ops) ==
  /\ pc[r] = "idle"
  /\ opOf[r] \in ops
  /\ Authorized(r)
  /\ action # None
  /\ MayBegin(r)
  /\ UNCHANGED <<store, due>>

SelfApproval(r) == actorOf[r].agent /\ actorOf[r].requester

\* Mutant: approve does not look at the status it read.
ReadForApprovalUnchecked(r) ==
  /\ Begins(r, {"approve"})
  /\ \/ SelfApproval(r) /\ Proceed(r, "refused")
     \/ ~SelfApproval(r) /\ due /\ TellOnly(r, "expired")
     \/ ~SelfApproval(r) /\ ~due /\ Proceed(r, "approving")

\* pendingAction.approve up to the call of the stored operation.  The expired
\* branch writes "cancelled" and throws: the write rolls back.
ReadForApproval(r) ==
  /\ Begins(r, {"approve"})
  /\ \/ action.status # "pending" /\ TellOnly(r, action.status)
     \/ action.status = "pending" /\ SelfApproval(r) /\ Proceed(r, "refused")
     \/ action.status = "pending" /\ ~SelfApproval(r) /\ due /\ TellOnly(r, "expired")
     \/ action.status = "pending" /\ ~SelfApproval(r) /\ ~due /\ Proceed(r, "approving")

\* Mutant: the refusal is not audited.
RecordRefusalLost(r) ==
  /\ pc[r] = "refused"
  /\ TellOnly(r, "forbidden")
  /\ UNCHANGED <<store, due>>

\* runOperation's audit of a refusal, after the operation rolled back.
RecordRefusal(r) ==
  /\ pc[r] = "refused"
  /\ MayBegin(r)
  /\ Record(r, "refused")
  /\ Tell(r, "forbidden")
  /\ UNCHANGED <<store, action, due, runs, failures>>

\* setStatus: an UPDATE by id alone.
SetStatus(status, result) == action' = [status |-> status, result |-> result]

\* The stored operation runs in a nested transaction; its writes, or its
\* failure, commit with the new status and the audit event.
Execute(r) ==
  /\ pc[r] = "approving"
  /\ \/ /\ SetStatus("approved", r)
        /\ runs' = [runs EXCEPT ![r] = @ + 1]
        /\ Record(r, "approved")
        /\ Tell(r, "approved")
     \/ /\ SetStatus("failed", None)
        /\ Record(r, "failed")
        /\ Tell(r, "failed")
        /\ UNCHANGED runs
  /\ UNCHANGED <<store, due, failures>>

\* canCancelPendingAction.
MayCancel(r) == actorOf[r].requester \/ RoleAtLeast(actorOf[r].role, "admin")

\* pendingAction.reject and pendingAction.cancel up to their guarded UPDATE.
ReadForDecision(r) ==
  /\ Begins(r, {"reject", "cancel"})
  /\ \/ action.status # "pending" /\ TellOnly(r, action.status)
     \/ /\ action.status = "pending"
        /\ opOf[r] = "cancel" /\ ~MayCancel(r)
        /\ TellOnly(r, "denied")
     \/ /\ action.status = "pending"
        /\ opOf[r] = "cancel" => MayCancel(r)
        /\ Proceed(r, "deciding")

\* Mutant: polling does not expire an action.
SettlesOnDemand(r) == opOf[r] = "cancelOwnTask"

\* The action is over for its requester: cancelled on demand, or expired.
Settles(r) == opOf[r] = "cancelOwnTask" \/ due

\* getOwnTask and cancelOwnTask up to their guarded UPDATE.
ReadOwnTask(r) ==
  /\ Begins(r, RequesterOnly)
  /\ \/ ~actorOf[r].requester /\ TellOnly(r, "not_found")
     \/ /\ actorOf[r].requester
        /\ action.status # "pending" \/ ~Settles(r)
        /\ TellOnly(r, action.status)
     \/ /\ actorOf[r].requester
        /\ action.status = "pending" /\ Settles(r)
        /\ Proceed(r, "deciding")

\* Mutant: the UPDATE is not guarded.
StillPendingUnguarded == TRUE

\* transitionIfPending: one UPDATE guarded by status = 'pending'.
StillPending == action.status = "pending"

Declined(r) == IF opOf[r] = "reject" THEN "rejected" ELSE "cancelled"

\* The guarded UPDATE, the audit event of a decision that took, the answer.
Decide(r) ==
  /\ pc[r] = "deciding"
  /\ \/ /\ StillPending
        /\ SetStatus(Declined(r), None)
        /\ Record(r, IF opOf[r] = "getOwnTask" THEN "expired" ELSE Declined(r))
        /\ Tell(r, Declined(r))
     \/ /\ ~StillPending
        /\ Tell(r, action.status)
        /\ UNCHANGED <<action, audit>>
  /\ UNCHANGED <<store, due, runs, failures>>

\* A statement, the audit or the commit fails: everything rolls back.
Fail(r) ==
  /\ pc[r] \in {"approving", "deciding", "refused"}
  /\ failures < MaxFailures
  /\ failures' = failures + 1
  /\ Tell(r, "error")
  /\ UNCHANGED <<store, action, due, runs, audit>>

\* Seven days pass.
Expire ==
  /\ action # None
  /\ ~due
  /\ due' = TRUE
  /\ UNCHANGED <<store, action, pc, told, runs, audit, failures>>

\* The steps of a call that has begun.
Finish(r) == RecordRefusal(r) \/ Execute(r) \/ Decide(r)

Serve(r) ==
  \/ Ask(r) \/ Deny(r) \/ Finish(r)
  \/ ReadForApproval(r) \/ ReadForDecision(r) \/ ReadOwnTask(r)

Next == Expire \/ \E r \in Request : Again(r) \/ Serve(r) \/ Fail(r)

Spec == Init /\ [][Next]_vars

\* A call that has begun ends, and a requester keeps polling its task (its
\* calls get the connection: the lock is a FIFO chain).  Nobody else need call.
FairSpec ==
  /\ Spec
  /\ \A r \in Request : WF_vars(Finish(r))
  /\ \A r \in {s \in Request : opOf[s] = "getOwnTask"} :
       SF_vars(Serve(r)) /\ WF_vars(Again(r))

-----------------------------------------------------------------------------
(* Properties.                                                             *)

Ran == {r \in Request : runs[r] > 0}

\* A reviewer's rejection or a requester's cancellation that stands means the
\* stored operation never ran, on either store: setStatus and the guarded
\* UPDATE never leave an executed action marked as declined.
DeclinedNeverRan ==
  action # None /\ action.status \in {"rejected", "cancelled"} => Ran = {}

\* However cancel, reject and expiry race, one of them takes effect and one
\* audit event says so.
OneDeclineRecorded ==
  Cardinality({r \in Request :
                 audit[r] \cap {"rejected", "cancelled", "expired"} # {}}) <= 1

\* A refused self-approval is a security event: the agent hears "forbidden"
\* only after the event is on record, though the refusing transaction rolled
\* back (AuditedRefusal, packages/core/src/catalog.ts:40).
RefusalIsRecorded ==
  \A r \in Request : told[r] = "forbidden" => "refused" \in audit[r]

\* The row tells what happened: the stored operation ran exactly once if the
\* action is approved, by the request whose result it keeps, and otherwise
\* never.
StatusTellsRuns ==
  IF action # None /\ action.status = "approved"
    THEN Ran = {action.result} /\ runs[action.result] = 1
    ELSE Ran = {}

\* It holds where transactions do not interleave.
StatusTellsRunsOnSqlite == store = "sqlite" => StatusTellsRuns

\* "guarded transitions preserve terminal status and approval results"
\* (packages/db/test/pg-isolation.test.ts:796): a decided action stays as it
\* was decided, where transactions do not interleave.  On PostgreSQL approve
\* writes over a decision made after it read the action.
TerminalIsFinalOnSqlite ==
  [][store = "sqlite" /\ action # None /\ action.status \in Terminal
       => action' = action]_vars

\* An action nobody reviews does not stay in the queue for ever: approve
\* never settles an expired action, but the requester's polling does.
ExpiredIsSettled ==
  action # None /\ due ~> action # None /\ action.status \in Terminal

\* The types; declining: once, recorded once, and of what never ran; a status
\* that tells what ran.
Inv ==
  TypeOK /\ DeclinedNeverRan /\ OneDeclineRecorded /\ StatusTellsRunsOnSqlite
=============================================================================
