--------------------------- MODULE WorkspaceControl ---------------------------
(***************************************************************************)
(* One hosted workspace under its two kinds of administrators: hosting     *)
(* control (packages/hosting-control/src/lifecycle.ts), which locks the    *)
(* workspace, sets its access state, transfers its owner, inspects and     *)
(* deletes it; and the CRM's own user operations                           *)
(* (packages/core/src/operations/admin-ops.ts), which change roles and     *)
(* login status, delete users and hand the ownership over.                 *)
(*                                                                         *)
(* The two never take each other's lock.  On SQLite that does not matter:  *)
(* every unit of work has the database to itself.  On PostgreSQL (READ     *)
(* COMMITTED) an operation is its statements, in order; each sees what is  *)
(* committed when it starts, and an UPDATE rechecks the rows it found.     *)
(* A step below is one statement, or the last statements of a transaction  *)
(* together with its commit.                                               *)
(***************************************************************************)
EXTENDS Naturals, FiniteSets

CONSTANTS
  User,      \* the workspace's users
  Job,       \* requests and CRM operations; each runs once
  Op,        \* the operations a job may be, a set of records of Operation
  None

Role == {"owner", "admin", "member"}
Mode == {"active", "locked"}
Change == {"admin", "member", "disable", "enable"}

\* The columns of a service_audit row that may hold a workspace's raw id.
Column == {"workspace_id", "path"}

\* expected is the optional expectedVersion of the two guarded requests.
Operation ==
  [op : {"access"}, user : {None}, want : Mode, expected : Nat \cup {None}]
    \cup [op : {"transfer"}, user : User, want : {None}, expected : Nat \cup {None}]
    \cup [op : {"inspect", "delete"}, user : {None}, want : {None}, expected : {None}]
    \cup [op : {"update"}, user : User, want : Change, expected : {None}]
    \cup [op : {"remove", "hand_over", "activate"}, user : User, want : {None},
          expected : {None}]

\* None stands apart from whatever it is the absence of.
ASSUME OperationAssumption ==
  /\ Op \subseteq Operation
  /\ None \notin User \cup Job \cup Role \cup Change
  /\ None \notin [mode : Mode, version : Nat]

VARIABLES
  store,     \* "sqlite" or "postgres"
  alive,     \* the workspaces row exists
  access,    \* the workspace_access row: None or [mode, version]
  role,      \* role[u]: u's membership, None when u is gone
  status,    \* users.status
  linked,    \* users.auth_subject is set
  setUp,     \* who has set up a login, at registration or by signing in (history)
  lock,      \* the job whose transaction holds the workspaces row
  req, pc,   \* what job j is, and where
  seen,      \* what j's statements have read
  res,       \* how j ended
  audit      \* the columns of j's service_audit row with the raw id, {} before

data == <<alive, access, role, status, linked, setUp>>
vars == <<store, data, lock, req, pc, seen, res, audit>>

-----------------------------------------------------------------------------
Owners == {u \in User : role[u] = "owner"}

Version == IF access = None THEN 0 ELSE access.version

NothingSeen == [version |-> 0, owners |-> {}]
NoResult == [kind |-> "none", version |-> 0, owners |-> {}]

TypeOK ==
  /\ store \in {"sqlite", "postgres"}
  /\ alive \in BOOLEAN
  /\ access \in [mode : Mode, version : Nat] \cup {None}
  /\ role \in [User -> Role \cup {None}]
  /\ status \in [User -> {"pending", "active", "disabled"}]
  /\ linked \in [User -> BOOLEAN]
  /\ setUp \subseteq User
  /\ lock \in Job \cup {None}
  /\ req \in [Job -> Op]
  /\ pc \in [Job -> {"idle", "locked", "versioned", "eligible", "compared",
                     "demoted", "viewed", "decided", "unaudited", "done"}]
  /\ seen \in [Job -> [version : Nat, owners : SUBSET User]]
  /\ res \in [Job -> [kind : {"none", "changed", "unchanged", "inspected",
                              "deleted", "absent", "not_found", "version_conflict",
                              "target_not_eligible", "refused", "conflict"},
                      version : Nat, owners : SUBSET User]]
  /\ audit \in [Job -> SUBSET Column]

\* On SQLite a unit of work begins only when no other is open.
MayBegin(j) ==
  store = "sqlite" => \A k \in Job \ {j} : pc[k] \in {"idle", "unaudited", "done"}

\* lockWorkspace (SELECT .. FOR NO KEY UPDATE) and deleteWorkspace (FOR
\* UPDATE) wait for the transaction that holds the workspaces row.
RowFree == lock = None

\* Job j moves on; what the jobs are and the store they run on stay.
Goto(j, where) ==
  /\ pc' = [pc EXCEPT ![j] = where]
  /\ UNCHANGED <<store, req>>

\* Mutant: a transaction that ends keeps the row.
UnlockNever(j) == UNCHANGED lock

Unlock(j) == lock' = IF lock = j THEN None ELSE lock

\* A hosting request commits its change, its result and its audit row, which has
\* the id in workspace_id and, as every row does, in the path of the request.
CommitRequest(j, kind, version, owners) ==
  /\ res' = [res EXCEPT ![j] = [kind |-> kind, version |-> version, owners |-> owners]]
  /\ audit' = [audit EXCEPT ![j] = Column]
  /\ Unlock(j)
  /\ Goto(j, "done")

\* A hosting request fails: its transaction rolls back and lets the row go.
\* Its audit row is still to be written.
Reject(j, kind) ==
  /\ res' = [res EXCEPT ![j].kind = kind]
  /\ Unlock(j)
  /\ Goto(j, "unaudited")
  /\ UNCHANGED <<data, seen, audit>>

\* A CRM operation ends; it writes no service audit.
EndOperation(j, kind) ==
  /\ res' = [res EXCEPT ![j].kind = kind]
  /\ Goto(j, "done")
  /\ UNCHANGED <<lock, audit>>

\* Mutant: the memberships table has no such index.
OneOwnerIndexMissing(roles) == TRUE

\* memberships_one_owner_ux: no commit leaves two owners.
OneOwnerIndex(roles) == Cardinality({u \in User : roles[u] = "owner"}) <= 1

IsOp(j, ops) == req[j].op \in ops

-----------------------------------------------------------------------------
(* Hosting control.                                                        *)

\* lockWorkspace, the first statement of every request but delete.
LockWorkspace(j) ==
  /\ pc[j] = "idle"
  /\ IsOp(j, {"access", "transfer", "inspect"})
  /\ MayBegin(j)
  /\ RowFree
  /\ \/ /\ alive
        /\ lock' = j
        /\ Goto(j, "locked")
        /\ UNCHANGED <<data, seen, res, audit>>
     \/ ~alive /\ Reject(j, "not_found")

\* getAccess and the expectedVersion guard.
CheckVersion(j) ==
  /\ pc[j] = "locked"
  /\ IsOp(j, {"access", "transfer"})
  /\ \/ /\ req[j].expected \in {None, Version}
        /\ seen' = [seen EXCEPT ![j].version = Version]
        /\ Goto(j, "versioned")
        /\ UNCHANGED <<data, lock, res, audit>>
     \/ /\ req[j].expected \notin {None, Version}
        /\ Reject(j, "version_conflict")

\* Mutant: the UPDATE leaves the version alone.
BumpAccessInPlace(mode) ==
  access' = [mode |-> mode, version |-> Version]

\* insertAccess or updateAccess: the SQL adds one to the stored version.
BumpAccess(mode) ==
  access' = [mode |-> mode, version |-> Version + 1]

SameAccess(mode) == access # None /\ access.mode = mode

\* setWorkspaceAccess: the same state again changes nothing.
SetAccess(j) ==
  /\ pc[j] = "versioned"
  /\ IsOp(j, {"access"})
  /\ \/ /\ SameAccess(req[j].want)
        /\ CommitRequest(j, "unchanged", Version, {})
        /\ UNCHANGED access
     \/ /\ ~SameAccess(req[j].want)
        /\ BumpAccess(req[j].want)
        /\ CommitRequest(j, "changed", Version + 1, {})
  /\ UNCHANGED <<alive, role, status, linked, setUp, seen>>

\* transferWorkspaceOwner: findMember, the target must be an active member.
FindTarget(j) ==
  /\ pc[j] = "versioned"
  /\ IsOp(j, {"transfer"})
  /\ LET eligible == role[req[j].user] # None /\ status[req[j].user] = "active"
     IN \/ /\ eligible
           /\ Goto(j, "eligible")
           /\ UNCHANGED <<data, lock, seen, res, audit>>
        \/ ~eligible /\ Reject(j, "target_not_eligible")

\* ownerOf: repeating a completed transfer succeeds and changes nothing.
CompareOwner(j) ==
  /\ pc[j] = "eligible"
  /\ \/ /\ Owners = {req[j].user}
        /\ CommitRequest(j, "unchanged", seen[j].version, Owners)
     \/ /\ Owners # {req[j].user}
        /\ Goto(j, "compared")
        /\ UNCHANGED <<lock, res, audit>>
  /\ UNCHANGED <<data, seen>>

\* swapOwner's first UPDATE finds the owners other than the target.
Demote(j) ==
  /\ pc[j] = "compared"
  /\ seen' = [seen EXCEPT ![j].owners = Owners \ {req[j].user}]
  /\ Goto(j, "demoted")
  /\ UNCHANGED <<data, lock, res, audit>>

\* The memberships after a swap: the owners found are demoted if they still
\* own, the target is promoted if it is still a member.
Swapped(found, target) ==
  [u \in User |-> IF u = target /\ role[u] # None THEN "owner"
                  ELSE IF u \in found /\ role[u] = "owner" THEN "admin"
                  ELSE role[u]]

\* swapOwner's second UPDATE, the version bump and the commit.
Promote(j) ==
  /\ pc[j] = "demoted"
  /\ LET roles == Swapped(seen[j].owners, req[j].user)
     IN \/ /\ OneOwnerIndex(roles)
           /\ role' = roles
           /\ IF access = None
                THEN /\ UNCHANGED access
                     /\ CommitRequest(j, "changed", 0, {req[j].user})
                ELSE /\ BumpAccess(access.mode)
                     /\ CommitRequest(j, "changed", seen[j].version + 1, {req[j].user})
           /\ UNCHANGED <<alive, status, linked, setUp, seen>>
        \/ ~OneOwnerIndex(roles) /\ Reject(j, "conflict")

\* getWorkspaceControlState: ownerOf, then getAccess.  seen notes the version
\* of the moment the owner was read.
ViewOwner(j) ==
  /\ pc[j] = "locked"
  /\ IsOp(j, {"inspect"})
  /\ seen' = [seen EXCEPT ![j] = [version |-> Version, owners |-> Owners]]
  /\ Goto(j, "viewed")
  /\ UNCHANGED <<data, lock, res, audit>>

ViewVersion(j) ==
  /\ pc[j] = "viewed"
  /\ res' = [res EXCEPT ![j] = [kind |-> "inspected", version |-> Version,
                                owners |-> seen[j].owners]]
  /\ Unlock(j)
  /\ Goto(j, "unaudited")
  /\ UNCHANGED <<data, seen, audit>>

\* redactAudit: the workspace_id of earlier rows is set NULL; their path stays.
Redacted == [j \in Job |-> audit[j] \ {"workspace_id"}]

\* deleteWorkspacePermanently; its own audit row has no workspace_id, but a path.
DeleteWorkspace(j) ==
  /\ pc[j] = "idle"
  /\ IsOp(j, {"delete"})
  /\ MayBegin(j)
  /\ RowFree
  /\ Goto(j, "done")
  /\ \/ /\ alive
        /\ alive' = FALSE
        /\ access' = None
        /\ role' = [u \in User |-> None]
        /\ audit' = [Redacted EXCEPT ![j] = {"path"}]
        /\ res' = [res EXCEPT ![j].kind = "deleted"]
     \/ /\ ~alive
        /\ audit' = [audit EXCEPT ![j] = {"path"}]
        /\ res' = [res EXCEPT ![j].kind = "absent"]
        /\ UNCHANGED <<alive, access, role>>
  /\ UNCHANGED <<status, linked, setUp, lock, seen>>

\* finishAudit after a failure or a read, in a transaction of its own.  The
\* access and owner routes set workspace_id before they know it exists, the
\* read route only after.
FinishAudit(j) ==
  /\ pc[j] = "unaudited"
  /\ MayBegin(j)
  /\ audit' = [audit EXCEPT ![j] =
       IF IsOp(j, {"inspect"}) /\ res[j].kind # "inspected" THEN {"path"} ELSE Column]
  /\ Goto(j, "done")
  /\ UNCHANGED <<data, lock, seen, res>>

-----------------------------------------------------------------------------
(* The CRM's user operations.  Each reads first and then writes; the actor *)
(* of hand_over is the owner it reads.                                     *)

\* The handlers' refusals: only enabling is done to an owner, and only an
\* active user is handed the ownership.
Refused(j) ==
  LET u == req[j].user
  IN \/ role[u] = None
     \/ role[u] = "owner" /\ req[j].want # "enable"
     \/ IsOp(j, {"hand_over"}) /\ (status[u] # "active" \/ Owners = {})

\* users.get and the refusals.
Decide(j) ==
  /\ pc[j] = "idle"
  /\ IsOp(j, {"update", "remove", "hand_over"})
  /\ MayBegin(j)
  /\ \/ Refused(j) /\ EndOperation(j, "refused") /\ UNCHANGED <<data, seen>>
     \/ /\ ~Refused(j)
        /\ seen' = [seen EXCEPT ![j].owners = Owners]
        /\ Goto(j, "decided")
        /\ UNCHANGED <<data, lock, res, audit>>

\* A login that is enabled again.  PostgreSQL makes every disabled user
\* active; SQLite only one whose subject is bound, and any other goes back to pending.
Enabled(u) ==
  IF store = "postgres" THEN (IF status[u] = "disabled" THEN "active" ELSE status[u])
  ELSE IF linked[u] THEN "active" ELSE "pending"

\* users.update, by user id alone.
UpdateUser(j) ==
  /\ pc[j] = "decided"
  /\ IsOp(j, {"update"})
  /\ LET u == req[j].user
         want == req[j].want
     IN \/ role[u] = None /\ EndOperation(j, "refused") /\ UNCHANGED data
        \/ /\ role[u] # None
           /\ role' = IF want \in Role THEN [role EXCEPT ![u] = want] ELSE role
           /\ status' = CASE want = "disable" -> [status EXCEPT ![u] = "disabled"]
                          [] want = "enable" -> [status EXCEPT ![u] = Enabled(u)]
                          [] OTHER -> status
           /\ UNCHANGED <<alive, access, linked, setUp>>
           /\ EndOperation(j, "changed")
  /\ UNCHANGED seen

\* deletePermanently's DELETE by user id.  It checks the role once more, but
\* an owner may be made, or the user be gone, after that check too.
RemoveUser(j) ==
  /\ pc[j] = "decided"
  /\ IsOp(j, {"remove"})
  /\ LET u == req[j].user
     IN \/ role' = [role EXCEPT ![u] = None] /\ EndOperation(j, "changed")
        \/ /\ role[u] \in {None, "owner"}
           /\ UNCHANGED role
           /\ EndOperation(j, "refused")
  /\ UNCHANGED <<alive, access, status, linked, setUp, seen>>

\* users.transferOwnership: the demotion must still find the owner, the
\* promotion must still find the target, the index admits one owner.  The
\* target's status is checked once more, and may still change after that.
HandOver(j) ==
  /\ pc[j] = "decided"
  /\ IsOp(j, {"hand_over"})
  /\ LET u == req[j].user
         roles == Swapped(seen[j].owners, u)
         fits == role[u] # None /\ seen[j].owners \subseteq Owners /\ OneOwnerIndex(roles)
     IN \/ fits /\ role' = roles /\ EndOperation(j, "changed")
        \/ /\ ~fits \/ status[u] # "active"
           /\ UNCHANGED role
           /\ EndOperation(j, "conflict")
  /\ UNCHANGED <<alive, access, status, linked, setUp, seen>>

\* A sign-in binds the user's auth subject once and activates, a pending user or
\* one that was provisioned active: one conditional UPDATE.
Activate(j) ==
  /\ pc[j] = "idle"
  /\ IsOp(j, {"activate"})
  /\ MayBegin(j)
  /\ LET u == req[j].user
     IN \/ /\ role[u] # None /\ ~linked[u] /\ status[u] # "disabled"
           /\ linked' = [linked EXCEPT ![u] = TRUE]
           /\ setUp' = setUp \cup {u}
           /\ status' = [status EXCEPT ![u] = "active"]
           /\ EndOperation(j, "changed")
        \/ /\ role[u] = None \/ linked[u] \/ status[u] = "disabled"
           /\ UNCHANGED <<linked, status, setUp>>
           /\ EndOperation(j, "refused")
  /\ UNCHANGED <<alive, access, role, seen>>

-----------------------------------------------------------------------------
\* A workspace as provisionWorkspace, user.create and first sign-ins leave it: one
\* owner, no one disabled, with or without an access row.  Who was provisioned as
\* the owner with an email registered before is active from the start, bound or
\* not, and may have handed over since; the others are active once they are bound.
Init ==
  /\ store \in {"sqlite", "postgres"}
  /\ alive = TRUE
  /\ access \in {None, [mode |-> "active", version |-> 1]}
  /\ linked \in [User -> BOOLEAN]
  /\ \E o \in User : role = [u \in User |-> IF u = o THEN "owner" ELSE "member"]
  /\ \E registered \in User \cup {None} :
       status = [u \in User |-> IF linked[u] \/ u = registered THEN "active" ELSE "pending"]
  /\ setUp = {u \in User : status[u] = "active"}
  /\ lock = None
  /\ req \in [Job -> Op]
  /\ pc = [j \in Job |-> "idle"]
  /\ seen = [j \in Job |-> NothingSeen]
  /\ res = [j \in Job |-> NoResult]
  /\ audit = [j \in Job |-> {}]

Serve(j) ==
  \/ LockWorkspace(j) \/ CheckVersion(j) \/ SetAccess(j)
  \/ FindTarget(j) \/ CompareOwner(j) \/ Demote(j) \/ Promote(j)
  \/ ViewOwner(j) \/ ViewVersion(j) \/ DeleteWorkspace(j) \/ FinishAudit(j)
  \/ Decide(j) \/ UpdateUser(j) \/ RemoveUser(j) \/ HandOver(j) \/ Activate(j)

Next == \E j \in Job : Serve(j)

Spec == Init /\ [][Next]_vars

\* Every open transaction goes on; PostgreSQL queues lock waiters and the
\* SQLite connection is handed on in order.
FairSpec == Spec /\ \A j \in Job : WF_vars(Serve(j))

-----------------------------------------------------------------------------
(* Properties.                                                             *)

\* "keeps exactly one owner" (packages/hosting-control/README.md:49) and "The
\* owner account cannot be demoted or disabled"
\* (packages/core/src/operations/admin-ops.ts:191): a live workspace has one
\* owner, who can sign in, after any mix of transfers by hosting control and
\* user operations in the CRM.
ExactlyOneOwner ==
  alive => \E u \in User : Owners = {u} /\ status[u] # "disabled"

\* It holds wherever units of work do not interleave.
ExactlyOneOwnerOnSqlite == store = "sqlite" => ExactlyOneOwner

\* On both stores no workspace ever has two owners.
NeverTwoOwners == Cardinality(Owners) <= 1

\* expectedVersion is a compare-and-set: a guarded request that changed the
\* control state moved exactly the version it named, and no other change
\* shares the version it reports.
GuardedChange ==
  \A j \in Job :
    res[j].kind = "changed" /\ IsOp(j, {"access", "transfer"}) /\ res[j].version > 0 =>
      /\ req[j].expected \in {None, res[j].version - 1}
      /\ \A k \in Job \ {j} :
           res[k].kind = "changed" => res[k].version # res[j].version

\* "an owner transfer can never land between the owner and version reads"
\* (packages/hosting-control/src/lifecycle.ts:229): inspect reports an owner
\* and a version the workspace had at one moment.
InspectIsSnapshot ==
  \A j \in Job : res[j].kind = "inspected" => res[j].version = seen[j].version

\* "after permanent deletion only the one-way target hash remains (workspace_id
\* is set NULL)" (packages/db/src/pg/schema.sql:1168): once the workspace is gone,
\* no change that was made to it has its workspace_id, however the change and the
\* deletion were ordered.  The path of the same rows holds the raw id for good, so
\* "scrubs the raw workspace id from earlier rows" (packages/hosting-control/
\* README.md:105) is not said here: the code does not do it.
SuccessesAreRedacted ==
  ~alive => \A j \in Job : res[j].kind \in {"changed", "unchanged"}
                              => "workspace_id" \notin audit[j]

\* Re-enabling a login "never resurrects a pre-activation 'pending' to
\* 'active'" (packages/db/src/pg/repositories.ts:791): an active user has
\* registered or signed in, whatever was enabled, disabled and handed over.
ActiveHasSetUp == \A u \in User : role[u] # None /\ status[u] = "active" => u \in setUp

\* It holds on SQLite, which remembers a sign-in by auth_subject, and makes an
\* active user without one pending when it is disabled and enabled.
ActiveHasSetUpOnSqlite == store = "sqlite" => ActiveHasSetUp

\* No request or operation waits for the workspace forever: every way out of
\* a locked transaction lets the row go.
EveryJobEnds == \A j \in Job : <>(pc[j] = "done")

\* The types, one owner, inspections that are snapshots, no login enabled that
\* was never set up, and no success listed under a deleted workspace's id.
Inv ==
  /\ TypeOK /\ NeverTwoOwners /\ ExactlyOneOwnerOnSqlite /\ InspectIsSnapshot
  /\ ActiveHasSetUpOnSqlite /\ SuccessesAreRedacted
=============================================================================
