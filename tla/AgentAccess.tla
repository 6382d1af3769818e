------------------------------- MODULE AgentAccess -------------------------------
(***************************************************************************)
(* How a call reaches the operation catalog, and what it may do there: the *)
(* web server functions (apps/web/src/server/fns.ts), MCP over HTTP and    *)
(* over stdio (apps/mcp/src), the keys agents present                      *)
(* (packages/db/src/auth.ts), the two request gates and the authorization  *)
(* of packages/core/src/catalog.ts and policy.ts.                          *)
(*                                                                         *)
(* A call resolves its caller, asks whether the workspace is locked, asks  *)
(* whether its user must change the password, and only then runs, each in  *)
(* a unit of work of its own: in between, other calls change roles, keys   *)
(* and users.  SQLite runs a handler with the connection to itself; on     *)
(* PostgreSQL others commit between its read and its write, and foreign    *)
(* keys tie every audit event to its user and its key.                     *)
(*                                                                         *)
(* Left out: batches of JSON-RPC messages, expiry of actions and of the    *)
(* hosting access row, previews, and the races inside one review           *)
(* (PendingActions has those).                                             *)
(***************************************************************************)
EXTENDS Naturals

CONSTANTS
  User, Key, Request, None,
  Owner,       \* the user who owns the workspace throughout
  surfaceOf,   \* surfaceOf[r]: "web", "http" or "stdio"
  callerOf,    \* callerOf[r]: the user or the key that calls
  callOf,      \* callOf[r]: the operation and its arguments
  Mixes,       \* bound: the sets of calls that come together
  MaxLocks     \* bound: how often hosting control turns the lock

Role == {"viewer", "member", "admin", "owner"}
Scope == {"read", "write", "admin", "approvals"}
Trust == {"review_risky_actions", "trusted_agent", "fully_authorized_agent"}

TaskOp == {"pendingAction.getOwnTask", "pendingAction.cancelOwnTask"}

\* One operation for every combination of role, scope and risk that differs,
\* and those that change whom a call may act for.  changePassword is none of
\* the catalog's.
Call ==
       [op : {"company.list", "company.update", "bulk.archive", "company.delete",
              "changePassword"}]
  \cup [op : {"mcpClient.create"}, key : Key, scopes : SUBSET Scope, trust : Trust]
  \cup [op : {"mcpClient.update"}, key : Key, scopes : SUBSET Scope]
  \cup [op : {"mcpClient.revoke"}, key : Key]
  \cup [op : {"user.update"}, user : User, to : Role \cup {"disabled", "enabled"}]
  \cup [op : {"user.delete"}, user : User]
  \cup [op : TaskOp \cup {"pendingAction.approve"}, of : Request]

UserRow == [status : {"active", "disabled"}, role : Role]
KeyRow == [creator : User, scopes : SUBSET Scope, trust : Trust, revoked : BOOLEAN]
Context == [user : User, key : Key \cup {None}, role : Role, scopes : SUBSET Scope,
            trust : Trust]
ActionRow == [status : {"pending", "approved", "failed", "cancelled"}, by : Key \cup {None}]

\* No two calls create the same key: the id is a new one each time.
ASSUME AccessAssumption ==
  /\ Owner \in User
  /\ User \cap Key = {}
  /\ None \notin User \cup Key \cup UserRow \cup KeyRow \cup Context \cup ActionRow
  /\ surfaceOf \in [Request -> {"web", "http", "stdio"}]
  /\ callOf \in [Request -> Call]
  /\ \A r \in Request :
       /\ callerOf[r] \in IF surfaceOf[r] = "web" THEN User ELSE Key
       /\ callOf[r].op \in TaskOp => surfaceOf[r] = "http"
       /\ callOf[r].op = "changePassword" => surfaceOf[r] = "web"
  /\ \A r, s \in Request :
       /\ callOf[r].op = "mcpClient.create" /\ callOf[s].op = "mcpClient.create"
       /\ callOf[r].key = callOf[s].key
       => r = s
  /\ Mixes \subseteq SUBSET Request
  /\ MaxLocks \in Nat

VARIABLES
  store,     \* "sqlite" or "postgres"
  user,      \* user[u]: the user and its membership, None once deleted
  session,   \* users with a session
  forced,    \* users whose password_must_change is set
  key,       \* key[k]: the mcp_clients row
  started,   \* keys with a stdio process
  locked,    \* the hosting access of the workspace
  action,    \* action[r]: the pending action that call r asked for
  pc,        \* where call r is
  ctx,       \* ctx[r]: its RequestContext
  answer,    \* answer[r]: how it ended
  locks,
  held,      \* history: what r's caller was allowed, at each moment of the call
  opened,    \* history: calls that saw the workspace unlocked at some moment
  ended      \* history: keys revoked, or lost with their user

base == <<store, user, session, forced, key, started, locked, action, pc, ctx, answer,
          locks, ended>>
vars == <<base, held, opened>>

TypeOK ==
  /\ store \in {"sqlite", "postgres"}
  /\ user \in [User -> UserRow \cup {None}]
  /\ session \subseteq User
  /\ forced \subseteq User
  /\ key \in [Key -> KeyRow \cup {None}]
  /\ started \subseteq Key
  /\ locked \in BOOLEAN
  /\ action \in [Request -> ActionRow \cup {None}]
  /\ pc \in [Request -> {"idle", "arrived", "touching", "resolved", "called", "gated",
                         "run", "updating", "cancelling", "asked", "answered"}]
  /\ ctx \in [Request -> Context \cup {None}]
  /\ answer \in [Request -> {"none", "ok", "task", "pending", "forbidden", "error",
                             "locked", "password", "unauthorized"}]
  /\ locks \in 0..MaxLocks
  /\ held \in [Request -> SUBSET (Context \cup {None})]
  /\ opened \subseteq Request
  /\ ended \subseteq Key

-----------------------------------------------------------------------------
(* Authority.                                                              *)

Rank == [viewer |-> 0, member |-> 1, admin |-> 2, owner |-> 3]
RoleAtLeast(role, min) == Rank[role] >= Rank[min]

Grantable == [role \in Role |->
  CASE role = "viewer" -> {"read"}
    [] role = "member" -> {"read", "write", "approvals"}
    [] OTHER -> Scope]

TrustAllows(trust, risk) ==
  risk \in CASE trust = "review_risky_actions" -> {}
             [] trust = "trusted_agent" -> {"bulk"}
             [] OTHER -> {"bulk", "admin", "destructive"}

MinRole(op) ==
  CASE op = "company.list" -> "viewer"
    [] op \in {"company.delete", "user.update", "user.delete", "pendingAction.approve"} -> "admin"
    [] OTHER -> "member"

ScopeOf(op) ==
  CASE op = "company.list" -> "read"
    [] op \in {"company.update", "bulk.archive", "company.delete"} -> "write"
    [] op = "pendingAction.approve" \/ op \in TaskOp -> "approvals"
    [] OTHER -> "admin"

RiskOf(op) ==
  CASE op = "bulk.archive" -> "bulk"
    [] op \in {"company.delete", "user.delete"} -> "destructive"
    [] op \in {"mcpClient.create", "mcpClient.update", "mcpClient.revoke", "user.update"} -> "admin"
    [] OTHER -> None

Active(u) == user[u] # None /\ user[u].status = "active"

KeyStands(k) == key[k] # None /\ ~key[k].revoked /\ Active(key[k].creator)

\* Mutant: the stored scopes are used as they are.
AgentContextUnclamped(k) ==
  [user |-> key[k].creator, key |-> k, role |-> user[key[k].creator].role,
   scopes |-> key[k].scopes, trust |-> key[k].trust]

\* mcpContext of resolveMcpToken: role of the key's creator, stored scopes
\* clamped to what that role may grant.
AgentContext(k) ==
  [user |-> key[k].creator, key |-> k, role |-> user[key[k].creator].role,
   scopes |-> key[k].scopes \cap Grantable[user[key[k].creator].role],
   trust |-> key[k].trust]

WebContext(u) ==
  [user |-> u, key |-> None, role |-> user[u].role, scopes |-> Scope,
   trust |-> "fully_authorized_agent"]

\* authorize.
Authorized(c, op) ==
  IF c.key = None THEN RoleAtLeast(c.role, MinRole(op))
  ELSE \/ op \in TaskOp
       \/ /\ ScopeOf(op) \in c.scopes
          /\ RiskOf(op) # None \/ RoleAtLeast(c.role, MinRole(op))

NeedsApproval(c, op) ==
  /\ RiskOf(op) # None
  /\ c.key # None
  /\ ~RoleAtLeast(c.role, MinRole(op)) \/ ~TrustAllows(c.trust, RiskOf(op))

-----------------------------------------------------------------------------
(* What the handlers refuse, and what they change.                         *)

\* assertCanManageClient.
CanManage(c, k) == key[k].creator = c.user \/ RoleAtLeast(c.role, "admin")

IsOwner(u) == user[u].role = "owner"

OtherAdmins(u) == {v \in User \ {u} : Active(v) /\ RoleAtLeast(user[v].role, "admin")}

Refuses(c, call) ==
  CASE call.op = "mcpClient.create" -> ~(call.scopes \subseteq Grantable[c.role])
    [] call.op = "mcpClient.update" ->
         \/ key[call.key] = None
         \/ ~CanManage(c, call.key)
         \/ user[key[call.key].creator] = None
         \/ ~(call.scopes \subseteq Grantable[user[key[call.key].creator].role])
    [] call.op = "mcpClient.revoke" -> key[call.key] = None \/ ~CanManage(c, call.key)
    [] call.op = "user.update" ->
         \/ user[call.user] = None
         \/ IsOwner(call.user) /\ call.to # "enabled"
         \/ call.to = "owner"
    [] call.op = "user.delete" ->
         \/ user[call.user] = None
         \/ IsOwner(call.user)
         \/ c.user = call.user /\ OtherAdmins(call.user) = {}
    [] OTHER -> FALSE

\* Mutant: audit events do not refer to users and keys.
AuditStoredAnyway(c, call) == TRUE

\* audit.record, last in the transaction: on PostgreSQL its foreign keys need
\* the rows of the caller, after what the handler did.
AuditStored(c, call) ==
  store = "postgres" =>
    /\ user[c.user] # None
    /\ c.key # None => key[c.key] # None
    /\ call.op = "user.delete" => call.user # c.user

Fails(c, call) ==
  \/ Refuses(c, call)
  \/ call.op # "company.list" /\ ~AuditStored(c, call)

KeysOf(u) == {k \in Key : key[k] # None /\ key[k].creator = u}

\* Mutant: disabling a user ends the sessions only.
DisableSessionsOnly(u) ==
  /\ user' = [user EXCEPT ![u].status = "disabled"]
  /\ session' = session \ {u}
  /\ ended' = ended \cup KeysOf(u)
  /\ UNCHANGED key

\* user.update with disabled: sessions go, and revokeAllForUser.
Disable(u) ==
  /\ user' = [user EXCEPT ![u].status = "disabled"]
  /\ session' = session \ {u}
  /\ key' = [k \in Key |-> IF k \in KeysOf(u) THEN [key[k] EXCEPT !.revoked = TRUE] ELSE key[k]]
  /\ ended' = ended \cup KeysOf(u)

\* deletePermanently.
Delete(u) ==
  /\ user' = [user EXCEPT ![u] = None]
  /\ session' = session \ {u}
  /\ key' = [k \in Key |-> IF k \in KeysOf(u) THEN None ELSE key[k]]
  /\ ended' = ended \cup KeysOf(u)

SetRow(u, to) ==
  /\ user' = [user EXCEPT ![u] = IF to = "enabled" THEN [@ EXCEPT !.status = "active"]
                                 ELSE [@ EXCEPT !.role = to]]
  /\ UNCHANGED <<session, key, ended>>

SetKey(k, row) ==
  /\ key' = [key EXCEPT ![k] = row]
  /\ UNCHANGED <<user, session>>

Effect(c, call) ==
  CASE call.op = "mcpClient.create" ->
         /\ SetKey(call.key, [creator |-> c.user, scopes |-> call.scopes,
                              trust |-> call.trust, revoked |-> FALSE])
         /\ UNCHANGED ended
    [] call.op = "mcpClient.update" ->
         SetKey(call.key, [key[call.key] EXCEPT !.scopes = call.scopes]) /\ UNCHANGED ended
    [] call.op = "mcpClient.revoke" ->
         /\ SetKey(call.key, [key[call.key] EXCEPT !.revoked = TRUE])
         /\ ended' = ended \cup {call.key}
    [] call.op = "user.update" /\ call.to = "disabled" -> Disable(call.user)
    [] call.op = "user.update" /\ call.to # "disabled" -> SetRow(call.user, call.to)
    [] call.op = "user.delete" -> Delete(call.user)
    [] OTHER -> UNCHANGED <<user, session, key, ended>>

-----------------------------------------------------------------------------
(* The way of a call.                                                      *)

Tells(r, what) ==
  /\ answer' = [answer EXCEPT ![r] = what]
  /\ pc' = [pc EXCEPT ![r] = "answered"]

Goes(r, where) == pc' = [pc EXCEPT ![r] = where] /\ UNCHANGED answer

people == <<user, session, forced, key, ended>>
around == <<store, started, locked, locks>>

\* A stdio process starts if its key authenticates then.
StartStdio(k) ==
  /\ k \notin started
  /\ KeyStands(k)
  /\ started' = started \cup {k}
  /\ UNCHANGED <<store, people, locked, action, pc, ctx, answer, locks>>

\* Hosting control locks or unlocks the workspace (external).
TurnLock ==
  /\ locks < MaxLocks
  /\ locks' = locks + 1
  /\ locked' = ~locked
  /\ UNCHANGED <<store, people, started, action, pc, ctx, answer>>

Arrive(r) ==
  /\ pc[r] = "idle"
  /\ \E mix \in Mixes : {s \in Request : pc[s] # "idle"} \cup {r} \subseteq mix
  /\ surfaceOf[r] = "stdio" => callerOf[r] \in started
  /\ Goes(r, "arrived")
  /\ UNCHANGED <<people, around, action, ctx>>

\* resolveSession and resolveMcpToken find an active user, and the key.
Resolves(r) ==
  IF callerOf[r] \in User THEN callerOf[r] \in session /\ Active(callerOf[r])
  ELSE KeyStands(callerOf[r])

\* requireContext, or resolveMcpToken and mcpContext; on PostgreSQL a key's
\* last_used_at is written by a second statement.
Resolve(r) ==
  /\ pc[r] = "arrived"
  /\ IF Resolves(r)
     THEN /\ ctx' = [ctx EXCEPT ![r] = IF callerOf[r] \in User THEN WebContext(callerOf[r])
                                       ELSE AgentContext(callerOf[r])]
          /\ Goes(r, IF store = "postgres" /\ callerOf[r] \in Key THEN "touching" ELSE "resolved")
     ELSE Tells(r, "unauthorized") /\ UNCHANGED ctx
  /\ UNCHANGED <<people, around, action>>

Touch(r) ==
  /\ pc[r] = "touching"
  /\ IF key[callerOf[r]] # None THEN Goes(r, "resolved") ELSE Tells(r, "unauthorized")
  /\ UNCHANGED <<people, around, action, ctx>>

\* The first gate: handleMcpRequest looks before it hands the call to the
\* MCP server, the web's op and changePassword once.
GateRequest(r) ==
  /\ pc[r] = "resolved"
  /\ surfaceOf[r] # "stdio"
  /\ IF locked THEN Tells(r, "locked")
     ELSE Goes(r, CASE surfaceOf[r] = "http" /\ callOf[r].op \notin TaskOp -> "called"
                    [] surfaceOf[r] = "web" /\ callOf[r].op = "changePassword" -> "run"
                    [] OTHER -> "gated")
  /\ UNCHANGED <<people, around, action, ctx>>

\* Mutant: the MCP server leaves the gate to the HTTP handler.
GateToolNever(r) ==
  /\ pc[r] = IF surfaceOf[r] = "http" THEN "called" ELSE "resolved"
  /\ surfaceOf[r] # "web"
  /\ Goes(r, "gated")
  /\ UNCHANGED <<people, around, action, ctx>>

\* registerTool looks before every tool call.
GateTool(r) ==
  /\ pc[r] = IF surfaceOf[r] = "http" THEN "called" ELSE "resolved"
  /\ surfaceOf[r] # "web"
  /\ IF locked THEN Tells(r, "locked") ELSE Goes(r, "gated")
  /\ UNCHANGED <<people, around, action, ctx>>

\* runGated.
GatePassword(r) ==
  /\ pc[r] = "gated"
  /\ IF ctx[r].user \in forced /\ user[ctx[r].user] # None
     THEN Tells(r, "password") ELSE Goes(r, "run")
  /\ UNCHANGED <<people, around, action, ctx>>

Forbid(r) ==
  /\ pc[r] = "run"
  /\ callOf[r].op # "changePassword"
  /\ ~Authorized(ctx[r], callOf[r].op)
  /\ Tells(r, "forbidden")
  /\ UNCHANGED <<people, around, action, ctx>>

\* needsApproval: the call is stored for a reviewer.  A client that takes
\* tasks gets its answer from a second run of its own.
Ask(r) ==
  /\ pc[r] = "run"
  /\ callOf[r].op # "changePassword"
  /\ Authorized(ctx[r], callOf[r].op)
  /\ NeedsApproval(ctx[r], callOf[r].op)
  /\ IF AuditStored(ctx[r], [op |-> "pendingAction.create"])
     THEN /\ action' = [action EXCEPT ![r] = [status |-> "pending", by |-> ctx[r].key]]
          /\ \/ Tells(r, "pending")
             \/ surfaceOf[r] = "http" /\ Goes(r, "asked")
     ELSE Tells(r, "error") /\ UNCHANGED action
  /\ UNCHANGED <<people, around, ctx>>

\* Deleting a key clears it in the actions it asked for, on PostgreSQL.
Requesters(rows) ==
  [r \in Request |->
     IF rows[r] # None /\ store = "postgres" /\ rows[r].by # None /\ key'[rows[r].by] = None
     THEN [rows[r] EXCEPT !.by = None] ELSE rows[r]]

MayRunNow(r) ==
  /\ pc[r] = "run"
  /\ callOf[r].op # "changePassword"
  /\ Authorized(ctx[r], callOf[r].op)
  /\ ~NeedsApproval(ctx[r], callOf[r].op)

\* The handler in one step.  On PostgreSQL mcpClient.update only reads here.
Run(r) ==
  /\ MayRunNow(r)
  /\ callOf[r].op \notin TaskOp \cup {"pendingAction.approve"}
  /\ IF Fails(ctx[r], callOf[r]) THEN Tells(r, "error") /\ UNCHANGED <<people, action>>
     ELSE IF store = "postgres" /\ callOf[r].op = "mcpClient.update"
     THEN Goes(r, "updating") /\ UNCHANGED <<people, action>>
     ELSE /\ Effect(ctx[r], callOf[r])
          /\ action' = Requesters(action)
          /\ Tells(r, "ok")
          /\ UNCHANGED forced
  /\ UNCHANGED <<around, ctx>>

\* mcpClient.update writes its columns by id.
Update(r) ==
  /\ pc[r] = "updating"
  /\ IF key[callOf[r].key] # None /\ AuditStored(ctx[r], callOf[r])
     THEN /\ SetKey(callOf[r].key, [key[callOf[r].key] EXCEPT !.scopes = callOf[r].scopes])
          /\ Tells(r, "ok")
     ELSE Tells(r, "error") /\ UNCHANGED <<user, session, key>>
  /\ UNCHANGED <<forced, ended, around, action, ctx>>

Decided(r, status) == [action EXCEPT ![callOf[r].of].status = status]

\* pendingAction.approve runs the stored operation as the approver; if that
\* fails, its writes are undone and the failure is stored.
Approve(r) ==
  /\ MayRunNow(r)
  /\ callOf[r].op = "pendingAction.approve"
  /\ LET of == callOf[r].of
     IN IF \/ action[of] = None
           \/ action[of].status # "pending"
           \/ ctx[r].key # None /\ action[of].by = ctx[r].key
           \/ ~AuditStored(ctx[r], callOf[r])
        THEN Tells(r, "error") /\ UNCHANGED <<people, action>>
        ELSE IF Fails(ctx[r], callOf[of])
        THEN action' = Decided(r, "failed") /\ Tells(r, "error") /\ UNCHANGED people
        ELSE /\ Effect(ctx[r], callOf[of])
             /\ action' = Requesters(Decided(r, "approved"))
             /\ Tells(r, "ok")
             /\ UNCHANGED forced
  /\ UNCHANGED <<around, ctx>>

\* ownPendingAction.
IsOwn(r, of) == action[of] # None /\ action[of].by = ctx[r].key

\* tasks/get, and what tasks/cancel reads first.
ReadTask(r) ==
  /\ MayRunNow(r)
  /\ callOf[r].op \in TaskOp
  /\ IF ~IsOwn(r, callOf[r].of) THEN Tells(r, "error")
     ELSE IF /\ callOf[r].op = "pendingAction.cancelOwnTask"
             /\ action[callOf[r].of].status = "pending"
     THEN Goes(r, "cancelling") ELSE Tells(r, "task")
  /\ UNCHANGED <<people, around, action, ctx>>

\* tasks/cancel, which is acknowledged whatever came of it.
CancelTask(r) ==
  /\ pc[r] = "cancelling"
  /\ Tells(r, "task")
  /\ \/ /\ IsOwn(r, callOf[r].of)
        /\ action[callOf[r].of].status = "pending"
        /\ AuditStored(ctx[r], callOf[r])
        /\ action' = Decided(r, "cancelled")
     \/ /\ ~(/\ IsOwn(r, callOf[r].of)
             /\ action[callOf[r].of].status = "pending"
             /\ AuditStored(ctx[r], callOf[r]))
        /\ UNCHANGED action
  /\ UNCHANGED <<people, around, ctx>>

\* handleMcpRequest turns the pending answer into a task handle.
AnswerTask(r) ==
  /\ pc[r] = "asked"
  /\ Tells(r, IF IsOwn(r, r) THEN "task" ELSE "error")
  /\ UNCHANGED <<people, around, action, ctx>>

\* changePassword, one transaction; a deleted user has no password to prove.
ChangePassword(r) ==
  /\ pc[r] = "run"
  /\ callOf[r].op = "changePassword"
  /\ IF user[ctx[r].user] = None THEN Tells(r, "error") /\ UNCHANGED forced
     ELSE forced' = forced \ {ctx[r].user} /\ Tells(r, "ok")
  /\ UNCHANGED <<user, session, key, ended, around, action, ctx>>

-----------------------------------------------------------------------------
\* Everybody active, the keys there are in use, nothing under way.
Init ==
  /\ store \in {"sqlite", "postgres"}
  /\ user \in [User -> [status : {"active"}, role : Role]]
  /\ \A u \in User : IsOwner(u) <=> u = Owner
  /\ session = User
  /\ forced \in SUBSET User
  /\ key \in [Key -> [creator : User, scopes : SUBSET Scope, trust : Trust,
                      revoked : {FALSE}] \cup {None}]
  /\ \A k \in Key : key[k] # None => key[k].scopes \subseteq Grantable[user[key[k].creator].role]
  /\ \A r \in Request : callOf[r].op = "mcpClient.create" => key[callOf[r].key] = None
  /\ started = {}
  /\ locked = FALSE
  /\ action = [r \in Request |-> None]
  /\ pc = [r \in Request |-> "idle"]
  /\ ctx = [r \in Request |-> None]
  /\ answer = [r \in Request |-> "none"]
  /\ locks = 0
  /\ held = [r \in Request |-> {}]
  /\ opened = {}
  /\ ended = {}

Step ==
  \/ \E k \in Key : StartStdio(k)
  \/ TurnLock
  \/ \E r \in Request :
       \/ Arrive(r) \/ Resolve(r) \/ Touch(r) \/ GateRequest(r) \/ GateTool(r)
       \/ GatePassword(r) \/ Forbid(r) \/ Ask(r) \/ Run(r) \/ Update(r) \/ Approve(r)
       \/ ReadTask(r) \/ CancelTask(r) \/ AnswerTask(r) \/ ChangePassword(r)

\* The user r's caller acts for, by the rows as they are now.
Principal(r) ==
  IF callerOf[r] \in User THEN callerOf[r]
  ELSE IF key[callerOf[r]] = None \/ key[callerOf[r]].revoked THEN None
  ELSE key[callerOf[r]].creator

\* What r's caller may do, by the rows as they are now.
Standing(r) ==
  LET u == Principal(r)
      k == callerOf[r]
  IN IF u = None THEN None
     ELSE IF user[u] = None THEN None
     ELSE IF user[u].status # "active" THEN None
     ELSE IF k = u THEN WebContext(u)
     ELSE [user |-> u, key |-> k, role |-> user[u].role, scopes |-> key[k].scopes,
           trust |-> key[k].trust]

\* The histories, which no action reads.
Remember ==
  /\ held' = [r \in Request |->
                IF pc'[r] \in {"idle", "answered"} THEN held[r]
                ELSE held[r] \cup {Standing(r)'}]
  /\ opened' = {r \in Request : ctx'[r] # None /\ (r \in opened \/ ~locked')}

Next == Step /\ Remember

Spec == Init /\ [][Next]_vars

-----------------------------------------------------------------------------
(* Properties.                                                             *)

\* "Removes their login, sessions, MCP clients" (operations/admin-ops.ts:248),
\* "every MCP client the user created is revoked" (:200-202): a key that was
\* revoked, by itself or with its user, or deleted never works again,
\* whatever updates it or re-enables its user later.
EndedKeysStayEnded == \A k \in ended : key[k] = None \/ key[k].revoked

Inv == TypeOK /\ EndedKeysStayEnded

Within(s, op) == s.key = None \/ ScopeOf(op) \in s.scopes \cap Grantable[s.role]

\* By standing s, the operation may run at once.
MayRun(s, op) ==
  /\ Within(s, op)
  /\ RoleAtLeast(s.role, MinRole(op))
  /\ s.key # None /\ RiskOf(op) # None => TrustAllows(s.trust, RiskOf(op))

\* "An agent acts on behalf of the user who created it and can never out-rank
\* them", "demotions apply immediately" (policy.ts:52-56), "takes effect on the
\* next call without a restart" (mcp/src/stdio.ts:10): what ran, or was stored
\* for review, was allowed to its caller by the rows of some moment of the
\* call; a task is told to the key that asked for it.
NeverOutranks ==
  \A r \in Request :
    LET op == callOf[r].op
        standings == held[r] \ {None}
    IN /\ answer[r] = "ok" /\ op # "changePassword" => \E s \in standings : MayRun(s, op)
       /\ action[r] # None => \E s \in standings : Within(s, op)
       /\ answer[r] = "task" /\ op \in TaskOp =>
            action[callOf[r].of].by \in {callerOf[r], None}

\* "A locked workspace refuses every tool call" (mcp/src/handler.ts:200-202) and
\* "the op layer refuses every catalog operation" while the password must be
\* changed (db/src/gated-run.ts:8-11): nothing runs for a call that found the
\* workspace locked all along, or whose user still has to change the password.
GatesHold ==
  \A r \in Request :
    answer[r] \in {"ok", "pending", "task"} =>
      /\ r \in opened
      /\ ctx[r].user \in forced => user[ctx[r].user] = None

\* On PostgreSQL a call resolved before its user or its key was deleted writes
\* nothing after it (schema.sql:704-707).  On SQLite it may.
DeletedWritesNothingOnPostgres ==
  [][\A r \in Request :
       /\ store = "postgres"
       /\ pc'[r] = "answered" /\ pc[r] \in {"run", "updating"}
       /\ \/ answer'[r] = "pending"
          \/ answer'[r] = "ok" /\ callOf[r].op # "company.list"
       => /\ user'[ctx[r].user] # None
          /\ ctx[r].key # None => key'[ctx[r].key] # None]_vars
=============================================================================
