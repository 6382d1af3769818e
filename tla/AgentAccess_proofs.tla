--------------------------- MODULE AgentAccess_proofs ---------------------------
(***************************************************************************)
(* Theorems about AgentAccess, for every set of users, keys and calls, and *)
(* however often the lock turns: its invariant Inv, that nobody outranks   *)
(* the rows, that nothing passes the gates, and that on PostgreSQL the     *)
(* deleted write nothing.                                                  *)
(*                                                                         *)
(* None of these is inductive, for a call is resolved, gated and run in    *)
(* units of work of their own.  What ran was allowed because the context a *)
(* call carries is what some standing it has had allows (Covers,           *)
(* ContextHeld); it passed the gates because where it is tells what it has *)
(* passed, and neither a flag nor a lock sends it back (Opened,            *)
(* PasswordKept).  A key that ended stays so because no call creates one   *)
(* that anybody has had (CreatedOnce), and the foreign keys of the audit   *)
(* log keep out whose user is gone because a key never changes hands       *)
(* (ActsForCreator).                                                       *)
(*                                                                         *)
(* Most actions are one call going on, or one call's handler: they are     *)
(* shown to be instances of Passes or of Works, and each of these to       *)
(* preserve the invariant.                                                 *)
(***************************************************************************)
EXTENDS AgentAccess, TLAPS

OpOf(r) == callOf[r].op

\* r's caller is known, and its answer is still to come.
UnderWay(r) ==
  pc[r] \in {"touching", "resolved", "called", "gated", "run", "updating", "cancelling", "asked"}

ContextKnown ==
  \A r \in Request :
    /\ UnderWay(r) => ctx[r] # None
    /\ ctx[r] # None => ctx[r].key = IF callerOf[r] \in User THEN None ELSE callerOf[r]

\* Standing s allows what context c allows.
Covers(s, c) ==
  /\ s.key = c.key
  /\ s.role = c.role
  /\ s.trust = c.trust
  /\ s.key # None => c.scopes = s.scopes \cap Grantable[s.role]

\* The context is what the rows of some moment of the call allowed.
ContextHeld ==
  \A r \in Request : ctx[r] # None => \E s \in held[r] \ {None} : Covers(s, ctx[r])

\* One that is between the statements of an update may run.
UpdaterMayRun ==
  \A r \in Request :
    pc[r] = "updating" =>
      OpOf(r) = "mcpClient.update" /\ \E s \in held[r] \ {None} : MayRun(s, OpOf(r))

\* What ran was allowed, what is stored for review was within the scopes.
RanAllowed ==
  \A r \in Request :
    /\ answer[r] = "ok" /\ OpOf(r) # "changePassword" =>
         \E s \in held[r] \ {None} : MayRun(s, OpOf(r))
    /\ action[r] # None => \E s \in held[r] \ {None} : Within(s, OpOf(r))

\* An action that a caller was told of stays its own, until its key is deleted.
TaskIsOwn ==
  \A r \in Request :
    /\ pc[r] = "cancelling" => OpOf(r) \in TaskOp
    /\ pc[r] = "asked" => OpOf(r) \notin TaskOp \cup {"changePassword"}
    /\ pc[r] = "cancelling" \/ (answer[r] = "task" /\ OpOf(r) \in TaskOp) =>
         action[callOf[r].of] # None /\ action[callOf[r].of].by \in {callerOf[r], None}

\* A call is stored or answered when it comes to that, and not before.
NothingYet ==
  \A r \in Request :
    /\ pc[r] # "answered" => answer[r] = "none"
    /\ pc[r] \notin {"asked", "answered"} => action[r] = None

Opened ==
  \A r \in Request :
    /\ pc[r] \in {"called", "gated", "run", "updating", "cancelling", "asked"} => r \in opened
    /\ answer[r] \in {"ok", "pending", "task"} => r \in opened /\ ctx[r] # None

\* r's user need not change the password.
Free(r) == ctx[r].user \in forced => user[ctx[r].user] = None

PasswordKept ==
  \A r \in Request :
    /\ pc[r] \in {"run", "updating", "cancelling", "asked"} /\ OpOf(r) # "changePassword" => Free(r)
    /\ answer[r] \in {"ok", "pending", "task"} => Free(r)

\* r may still create its key: when it runs, or when it is approved.
ToCreate(r) ==
  /\ OpOf(r) = "mcpClient.create"
  /\ \/ pc[r] \notin {"asked", "answered"}
     \/ action[r] # None /\ action[r].status = "pending"

\* Until then nobody has it, and nobody has ended it.
CreatedOnce ==
  \A r \in Request :
    ToCreate(r) =>
      /\ key[callOf[r].key] = None
      /\ callOf[r].key \notin ended
      /\ \A s \in Request : ctx[s] # None => ctx[s].key # callOf[r].key

\* A key acts for the user who created it.
ActsForCreator ==
  \A r \in Request :
    ctx[r] # None /\ ctx[r].key # None /\ key[ctx[r].key] # None
      => key[ctx[r].key].creator = ctx[r].user

IInv ==
  /\ TypeOK
  /\ EndedKeysStayEnded
  /\ ContextKnown
  /\ ContextHeld
  /\ UpdaterMayRun
  /\ RanAllowed
  /\ TaskIsOwn
  /\ NothingYet
  /\ Opened
  /\ PasswordKept
  /\ CreatedOnce
  /\ ActsForCreator

-----------------------------------------------------------------------------
(* The parameters, the authorization, the histories.                       *)

Where == {"idle", "arrived", "touching", "resolved", "called", "gated", "run", "updating",
          "cancelling", "asked", "answered"}
Told == {"none", "ok", "task", "pending", "forbidden", "error", "locked", "password",
         "unauthorized"}

LEMMA CallFields ==
  ASSUME NEW c \in Call
  PROVE  /\ c.op = "mcpClient.create" => c.key \in Key /\ c.scopes \subseteq Scope /\ c.trust \in Trust
         /\ c.op = "mcpClient.update" => c.key \in Key /\ c.scopes \subseteq Scope
         /\ c.op = "mcpClient.revoke" => c.key \in Key
         /\ c.op = "user.update" => c.user \in User /\ c.to \in Role \cup {"disabled", "enabled"}
         /\ c.op = "user.delete" => c.user \in User
         /\ c.op \in TaskOp \cup {"pendingAction.approve"} => c.of \in Request
  BY DEF Call, TaskOp

LEMMA Parameters ==
  ASSUME NEW r \in Request
  PROVE  /\ callOf[r] \in Call
         /\ callerOf[r] \in User \cup Key
         /\ callerOf[r] \in User <=> surfaceOf[r] = "web"
         /\ callerOf[r] \in Key <=> callerOf[r] \notin User
         /\ callerOf[r] # None
  BY AccessAssumption

\* What the context a call was given lets run at once, the standing it was given
\* from lets run.
LEMMA CoveredMayRun ==
  ASSUME NEW s, NEW c, NEW op, Covers(s, c), Authorized(c, op), ~NeedsApproval(c, op), op \notin TaskOp
  PROVE  MayRun(s, op)
  BY DEF Covers, Authorized, NeedsApproval, MayRun, Within

LEMMA CoveredWithin ==
  ASSUME NEW s, NEW c, NEW op, Covers(s, c), Authorized(c, op), op \notin TaskOp
  PROVE  Within(s, op)
  BY DEF Covers, Authorized, Within

\* What is stored for review is no task and no review.
LEMMA AskedIsRisky ==
  ASSUME NEW c, NEW op, NeedsApproval(c, op)
  PROVE  op \notin TaskOp \cup {"pendingAction.approve", "changePassword", "company.list"}
  BY DEF NeedsApproval, RiskOf, TaskOp

LEMMA Remembered ==
  ASSUME Remember,
         held \in [Request -> SUBSET (Context \cup {None})],
         user' \in [User -> UserRow \cup {None}],
         key' \in [Key -> KeyRow \cup {None}]
  PROVE  /\ held' \in [Request -> SUBSET (Context \cup {None})]
         /\ opened' \subseteq Request
         /\ \A r \in Request : held[r] \subseteq held'[r]
         /\ \A r \in Request : pc'[r] \notin {"idle", "answered"} => Standing(r)' \in held'[r]
<1>1. ASSUME NEW r \in Request PROVE Standing(r)' \in Context \cup {None}
  <2>1. ASSUME NEW u \in User, user'[u] # None PROVE WebContext(u)' \in Context
    BY <2>1 DEF WebContext, Context, UserRow, Trust
  <2>2. ASSUME callerOf[r] \notin User, key'[callerOf[r]] # None,
               user'[key'[callerOf[r]].creator] # None
        PROVE  [user |-> key'[callerOf[r]].creator, key |-> callerOf[r],
                role |-> user'[key'[callerOf[r]].creator].role,
                scopes |-> key'[callerOf[r]].scopes,
                trust |-> key'[callerOf[r]].trust] \in Context
    BY <2>2, Parameters DEF Context, UserRow, KeyRow
  <2>. QED
    BY <2>1, <2>2, Parameters, AccessAssumption DEF Standing, Principal, KeyRow
<1>. QED
  BY <1>1 DEF Remember

LEMMA InitIInv == Init => IInv
<1>. SUFFICES ASSUME Init PROVE IInv
  OBVIOUS
<1>1. TypeOK
  <2>1. user \in [User -> UserRow \cup {None}] /\ key \in [Key -> KeyRow \cup {None}]
    BY DEF Init, UserRow, KeyRow
  <2>2. locks \in 0..MaxLocks
    BY AccessAssumption DEF Init
  <2>3. /\ action \in [Request -> ActionRow \cup {None}]
        /\ ctx \in [Request -> Context \cup {None}]
        /\ held \in [Request -> SUBSET (Context \cup {None})]
    BY DEF Init
  <2>4. locked \in BOOLEAN
    BY DEF Init
  <2>. QED
    BY <2>1, <2>2, <2>3, <2>4 DEF Init, TypeOK
<1>2. EndedKeysStayEnded /\ ContextKnown /\ ContextHeld /\ UpdaterMayRun
  BY DEF Init, EndedKeysStayEnded, ContextKnown, ContextHeld, UpdaterMayRun, UnderWay
<1>3. RanAllowed /\ TaskIsOwn /\ NothingYet /\ Opened
  BY DEF Init, RanAllowed, TaskIsOwn, NothingYet, Opened
<1>4. PasswordKept /\ CreatedOnce /\ ActsForCreator
  BY DEF Init, PasswordKept, CreatedOnce, ToCreate, ActsForCreator, OpOf
<1>. QED
  BY <1>1, <1>2, <1>3, <1>4 DEF IInv

-----------------------------------------------------------------------------
(* The steps of a call that change no row: it goes on, or is answered.     *)

Unlocked(r) == r \in opened \/ ~locked

\* r alone moves, its context stays; it goes on to a place, or is told something,
\* only if it may.
Passes(r) ==
  /\ UNCHANGED <<people, around, action, ctx>>
  /\ pc[r] # "answered"
  /\ \E where \in Where, what \in Told :
       /\ pc' = [pc EXCEPT ![r] = where]
       /\ answer' = [answer EXCEPT ![r] = what]
       /\ where \notin {"asked", "updating", "idle"}
       /\ what \notin {"ok", "pending"}
       /\ where # "answered" => what = "none" /\ pc[r] # "asked"
       /\ where \notin {"arrived", "answered"} => ctx[r] # None
       /\ where = "cancelling" => OpOf(r) \in TaskOp
       /\ where = "cancelling" \/ (what = "task" /\ OpOf(r) \in TaskOp) =>
            action[callOf[r].of] # None /\ action[callOf[r].of].by \in {callerOf[r], None}
       /\ where \in {"called", "gated", "run", "cancelling"} \/ what = "task" =>
            Unlocked(r) /\ ctx[r] # None
       /\ (where \in {"run", "cancelling"} /\ OpOf(r) # "changePassword") \/ what = "task" => Free(r)

LEMMA PassesKeep == ASSUME IInv, NEW r \in Request, Passes(r), Remember PROVE IInv'
<1>1. PICK where \in Where, what \in Told :
        /\ pc' = [pc EXCEPT ![r] = where]
        /\ answer' = [answer EXCEPT ![r] = what]
        /\ where \notin {"asked", "updating", "idle"}
        /\ what \notin {"ok", "pending"}
        /\ where # "answered" => what = "none" /\ pc[r] # "asked"
        /\ where \notin {"arrived", "answered"} => ctx[r] # None
        /\ where = "cancelling" => OpOf(r) \in TaskOp
        /\ where = "cancelling" \/ (what = "task" /\ OpOf(r) \in TaskOp) =>
             action[callOf[r].of] # None /\ action[callOf[r].of].by \in {callerOf[r], None}
        /\ where \in {"called", "gated", "run", "cancelling"} \/ what = "task" =>
             Unlocked(r) /\ ctx[r] # None
        /\ (where \in {"run", "cancelling"} /\ OpOf(r) # "changePassword") \/ what = "task" => Free(r)
  BY DEF Passes
<1>2. UNCHANGED <<store, user, session, forced, key, ended, started, locked, locks, action, ctx>>
  BY DEF Passes, people, around
<1>3. /\ pc' \in [Request -> Where] /\ pc'[r] = where /\ pc[r] # "answered"
      /\ answer' \in [Request -> Told] /\ answer'[r] = what
      /\ \A s \in Request \ {r} : pc'[s] = pc[s] /\ answer'[s] = answer[s]
  BY <1>1 DEF Passes, IInv, TypeOK, Where, Told
<1>4. /\ held' \in [Request -> SUBSET (Context \cup {None})]
      /\ opened' \subseteq Request
      /\ \A s \in Request : held[s] \subseteq held'[s]
      /\ \A s \in Request : s \in opened' <=> ctx[s] # None /\ (s \in opened \/ ~locked)
  <2>1. user' \in [User -> UserRow \cup {None}] /\ key' \in [Key -> KeyRow \cup {None}]
    BY <1>2 DEF IInv, TypeOK
  <2>2. \A s \in Request : s \in opened' <=> ctx[s] # None /\ (s \in opened \/ ~locked)
    BY <1>2 DEF Remember
  <2>. QED
    BY <2>1, <2>2, Remembered DEF IInv, TypeOK
<1>5. TypeOK'
  BY <1>2, <1>3, <1>4 DEF IInv, TypeOK, Where, Told
<1>6. EndedKeysStayEnded' /\ ActsForCreator'
  BY <1>2 DEF IInv, EndedKeysStayEnded, ActsForCreator
<1>7. ContextKnown'
  BY <1>1, <1>2, <1>3 DEF IInv, ContextKnown, UnderWay
<1>8. ContextHeld'
  BY <1>2, <1>4 DEF IInv, ContextHeld
<1>9. UpdaterMayRun'
  BY <1>1, <1>3, <1>4 DEF IInv, UpdaterMayRun, OpOf
<1>10. RanAllowed'
  BY <1>1, <1>2, <1>3, <1>4 DEF IInv, RanAllowed, OpOf
<1>11. TaskIsOwn'
  BY <1>1, <1>2, <1>3 DEF IInv, TaskIsOwn, OpOf
<1>12. NothingYet'
  BY <1>1, <1>2, <1>3 DEF IInv, NothingYet
<1>13. Opened'
  BY <1>1, <1>2, <1>3, <1>4 DEF IInv, Opened, ContextKnown, UnderWay, Unlocked
<1>14. PasswordKept'
  BY <1>1, <1>2, <1>3 DEF IInv, PasswordKept, Free, OpOf
<1>15. CreatedOnce'
  <2>1. \A s \in Request : ToCreate(s)' => ToCreate(s)
    BY <1>1, <1>2, <1>3 DEF ToCreate, OpOf
  <2>. QED
    BY <1>2, <2>1 DEF IInv, CreatedOnce
<1>. QED
  BY <1>5, <1>6, <1>7, <1>8, <1>9, <1>10, <1>11, <1>12, <1>13, <1>14, <1>15 DEF IInv

LEMMA OnwardPasses ==
  ASSUME IInv, NEW r \in Request,
         Arrive(r) \/ Touch(r) \/ GateRequest(r) \/ GateTool(r) \/ GatePassword(r) \/ Forbid(r)
  PROVE  Passes(r)
<1>. USE DEF Passes, Goes, Tells, Where, Told
<1>0. /\ pc[r] # "answered" => answer[r] = "none"
      /\ UnderWay(r) => ctx[r] # None
      /\ answer = [answer EXCEPT ![r] = answer[r]]
  BY DEF IInv, NothingYet, ContextKnown, TypeOK
<1>1. CASE Arrive(r)
  BY <1>0, <1>1 DEF Arrive
<1>2. CASE Touch(r)
  BY <1>0, <1>2 DEF Touch, UnderWay
<1>3. CASE GateRequest(r)
  BY <1>0, <1>3 DEF GateRequest, UnderWay, Unlocked, OpOf
<1>4. CASE GateTool(r)
  BY <1>0, <1>4, AccessAssumption DEF GateTool, UnderWay, Unlocked
<1>5. CASE GatePassword(r)
  BY <1>0, <1>5 DEF GatePassword, UnderWay, Unlocked, Free, IInv, Opened
<1>6. CASE Forbid(r)
  BY <1>0, <1>6 DEF Forbid
<1>. QED
  BY <1>1, <1>2, <1>3, <1>4, <1>5, <1>6

LEMMA TaskReadsPass ==
  ASSUME IInv, NEW r \in Request, ReadTask(r) \/ AnswerTask(r) PROVE Passes(r)
<1>. USE DEF Passes, Goes, Tells, Where, Told
<1>0. /\ pc[r] # "answered" => answer[r] = "none"
      /\ UnderWay(r) => ctx[r] # None
      /\ answer = [answer EXCEPT ![r] = answer[r]]
  BY DEF IInv, NothingYet, ContextKnown, TypeOK
<1>1. CASE ReadTask(r)
  <2>1. callerOf[r] \notin User
    BY <1>1, Parameters, AccessAssumption DEF ReadTask
  <2>2. IsOwn(r, callOf[r].of) => action[callOf[r].of] # None /\ action[callOf[r].of].by = callerOf[r]
    BY <1>0, <1>1, <2>1 DEF ReadTask, MayRunNow, UnderWay, IsOwn, IInv, ContextKnown
  <2>3. Unlocked(r) /\ Free(r) /\ ctx[r] # None
    BY <1>0, <1>1 DEF ReadTask, MayRunNow, UnderWay, Unlocked, IInv, Opened, PasswordKept, OpOf
  <2>. QED
    BY <1>0, <1>1, <2>2, <2>3 DEF ReadTask, MayRunNow, OpOf
<1>2. CASE AnswerTask(r)
  <2>1. OpOf(r) \notin TaskOp /\ Unlocked(r) /\ ctx[r] # None
    BY <1>0, <1>2 DEF AnswerTask, UnderWay, Unlocked, IInv, Opened, TaskIsOwn
  <2>2. Free(r)
    BY <1>2 DEF AnswerTask, IInv, PasswordKept, TaskIsOwn
  <2>. QED
    BY <1>0, <1>2, <2>1, <2>2 DEF AnswerTask
<1>. QED
  BY <1>1, <1>2

-----------------------------------------------------------------------------
(* The caller is resolved.                                                 *)

LEMMA ResolveKeeps == ASSUME IInv, NEW r \in Request, Resolve(r), Remember PROVE IInv'
<1>. DEFINE c == IF callerOf[r] \in User THEN WebContext(callerOf[r]) ELSE AgentContext(callerOf[r])
<1>0. /\ UNCHANGED <<store, user, session, forced, key, ended, started, locked, locks, action>>
      /\ pc[r] = "arrived" /\ answer[r] = "none"
      /\ answer = [answer EXCEPT ![r] = answer[r]]
  BY DEF Resolve, people, around, IInv, NothingYet, TypeOK
<1>1. CASE ~Resolves(r)
  <2>1. Passes(r)
    BY <1>0, <1>1 DEF Resolve, Passes, Tells, Where, Told
  <2>. QED
    BY <2>1, PassesKeep
<1>2. CASE Resolves(r)
  <2>1. /\ ctx' = [ctx EXCEPT ![r] = c]
        /\ answer' = answer
        /\ \E where \in {"touching", "resolved"} : pc' = [pc EXCEPT ![r] = where]
    BY <1>2 DEF Resolve, Goes
  <2>2. /\ c \in Context
        /\ c.key = IF callerOf[r] \in User THEN None ELSE callerOf[r]
        /\ callerOf[r] \notin User => key[callerOf[r]] # None /\ key[callerOf[r]].creator = c.user
    <3>1. CASE callerOf[r] \in User
      BY <1>2, <3>1 DEF Resolves, WebContext, Active, Context, IInv, TypeOK, UserRow, Trust
    <3>2. CASE callerOf[r] \notin User
      <4>1. callerOf[r] \in Key /\ key[callerOf[r]] \in KeyRow
        BY <1>2, <3>2, Parameters DEF Resolves, KeyStands, IInv, TypeOK
      <4>2. user[key[callerOf[r]].creator] \in UserRow
        BY <1>2, <3>2, <4>1 DEF Resolves, KeyStands, Active, IInv, TypeOK, KeyRow
      <4>. QED
        BY <3>2, <4>1, <4>2, AccessAssumption DEF AgentContext, Context, UserRow, KeyRow
    <3>. QED
      BY <3>1, <3>2
  <2>3. Covers(Standing(r)', c) /\ Standing(r)' \in held'[r] \ {None}
    <3>0. pc'[r] \notin {"idle", "answered"}
      BY <1>0, <2>1 DEF IInv, TypeOK
    <3>1. Standing(r)' \in held'[r]
      BY <1>0, <3>0, Remembered DEF IInv, TypeOK
    <3>2. CASE callerOf[r] \in User
      <4>1. Standing(r)' = WebContext(callerOf[r])
        BY <1>0, <1>2, <3>2, AccessAssumption
           DEF Standing, Principal, Resolves, Active, WebContext
      <4>. QED
        BY <2>2, <3>1, <3>2, <4>1, AccessAssumption DEF Covers, WebContext
    <3>3. CASE callerOf[r] \notin User
      <4>1. /\ callerOf[r] \in Key /\ KeyStands(callerOf[r])
            /\ key[callerOf[r]] \in KeyRow
            /\ key[callerOf[r]].creator \in User
        BY <1>2, <3>3, Parameters DEF Resolves, KeyStands, IInv, TypeOK, KeyRow
      <4>2. Standing(r)' = [user |-> key[callerOf[r]].creator, key |-> callerOf[r],
                            role |-> user[key[callerOf[r]].creator].role,
                            scopes |-> key[callerOf[r]].scopes, trust |-> key[callerOf[r]].trust]
        BY <1>0, <3>3, <4>1, AccessAssumption DEF Standing, Principal, KeyStands, Active
      <4>3. Covers(Standing(r)', c)
        BY <3>3, <4>2 DEF Covers, AgentContext
      <4>4. Standing(r)' \in Context
        BY <4>1, <4>2 DEF Context, KeyRow, IInv, TypeOK, KeyStands, Active, UserRow
      <4>. QED
        BY <3>1, <4>3, <4>4, AccessAssumption
    <3>. QED
      BY <3>2, <3>3
  <2>. HIDE DEF c
  <2>4. /\ pc' \in [Request -> Where] /\ pc'[r] \in {"touching", "resolved"}
        /\ ctx' \in [Request -> Context \cup {None}] /\ ctx'[r] = c /\ c # None
        /\ \A s \in Request \ {r} : pc'[s] = pc[s] /\ ctx'[s] = ctx[s]
    BY <1>0, <2>1, <2>2, AccessAssumption DEF IInv, TypeOK, Where
  <2>5. /\ held' \in [Request -> SUBSET (Context \cup {None})]
        /\ opened' \subseteq Request
        /\ \A s \in Request : held[s] \subseteq held'[s]
        /\ \A s \in Request : s \in opened /\ ctx[s] # None => s \in opened'
    <3>1. \A s \in Request : s \in opened /\ ctx[s] # None => s \in opened'
      BY <2>4 DEF Remember
    <3>. QED
      BY <1>0, <3>1, Remembered DEF IInv, TypeOK
  <2>6. TypeOK'
    BY <1>0, <2>1, <2>4, <2>5 DEF IInv, TypeOK, Where, Told
  <2>7. EndedKeysStayEnded'
    BY <1>0 DEF IInv, EndedKeysStayEnded
  <2>8. ContextKnown' /\ ActsForCreator'
    BY <1>0, <2>2, <2>4 DEF IInv, ContextKnown, ActsForCreator, UnderWay
  <2>9. ContextHeld'
    BY <2>3, <2>4, <2>5 DEF IInv, ContextHeld
  <2>10. UpdaterMayRun' /\ RanAllowed'
    BY <1>0, <2>1, <2>4, <2>5 DEF IInv, UpdaterMayRun, RanAllowed, OpOf
  <2>11. TaskIsOwn' /\ NothingYet'
    BY <1>0, <2>1, <2>4 DEF IInv, TaskIsOwn, NothingYet, OpOf
  <2>12. Opened' /\ PasswordKept'
    BY <1>0, <2>1, <2>4, <2>5 DEF IInv, Opened, PasswordKept, Free, OpOf, ContextKnown, UnderWay
  <2>13. CreatedOnce'
    <3>1. \A s \in Request : ToCreate(s)' => ToCreate(s)
      BY <1>0, <2>1, <2>4 DEF ToCreate, OpOf
    <3>2. ASSUME NEW s \in Request, ToCreate(s) PROVE c.key # callOf[s].key
      BY <2>2, <3>2, CallFields, Parameters, AccessAssumption DEF IInv, CreatedOnce, ToCreate, OpOf
    <3>. QED
      BY <1>0, <2>4, <3>1, <3>2 DEF IInv, CreatedOnce
  <2>. QED
    BY <2>6, <2>7, <2>8, <2>9, <2>10, <2>11, <2>12, <2>13 DEF IInv
<1>. QED
  BY <1>1, <1>2

-----------------------------------------------------------------------------
(* The steps of a call that write.                                         *)

\* Nobody comes back, no key goes to another user, and what ends stays ended; a key
\* that is made has been made for good.
RowChange ==
  /\ user' \in [User -> UserRow \cup {None}]
  /\ session' \subseteq User
  /\ forced' \subseteq forced
  /\ key' \in [Key -> KeyRow \cup {None}]
  /\ ended' \subseteq Key
  /\ \A u \in User : user[u] = None => user'[u] = None
  /\ \A k \in Key :
       key'[k] # None =>
         \/ key[k] # None /\ key'[k].creator = key[k].creator
         \/ \E t \in Request : ToCreate(t) /\ ~ToCreate(t)' /\ callOf[t].key = k
  /\ \A k \in ended' \ ended : key[k] # None
  /\ EndedKeysStayEnded'

\* A stored action is never dropped, and never awaits review again; nobody gets
\* another's.
ActionChange(r) ==
  /\ action' \in [Request -> ActionRow \cup {None}]
  /\ \A s \in Request :
       action[s] # None =>
         /\ action'[s] # None
         /\ action'[s].by \in {action[s].by, None}
         /\ action'[s].status = "pending" => action[s].status = "pending"
  /\ \A s \in Request \ {r} : action[s] = None => action'[s] = None

\* r alone moves on from its handler, which changes rows as it may.
Works(r) ==
  /\ UNCHANGED <<around, ctx>>
  /\ RowChange
  /\ ActionChange(r)
  /\ pc[r] \in {"run", "updating", "cancelling"}
  /\ \E where \in {"answered", "asked", "updating"}, what \in Told :
       /\ pc' = [pc EXCEPT ![r] = where]
       /\ answer' = [answer EXCEPT ![r] = what]
       /\ where # "answered" => what = "none"
       /\ where = "updating" => OpOf(r) = "mcpClient.update" /\ UNCHANGED action
       /\ where = "updating" \/ (what = "ok" /\ OpOf(r) # "changePassword") =>
            \E s \in held[r] \ {None} : MayRun(s, OpOf(r))
       /\ where = "asked" \/ (action[r] = None /\ action'[r] # None) =>
            /\ OpOf(r) \notin TaskOp \cup {"changePassword"}
            /\ \E s \in held[r] \ {None} : Within(s, OpOf(r))
       /\ what = "task" /\ OpOf(r) \in TaskOp => pc[r] = "cancelling"
       /\ OpOf(r) = "changePassword" /\ what \in {"ok", "pending", "task"} =>
            ctx[r].user \notin forced'

LEMMA WorksKeep == ASSUME IInv, NEW r \in Request, Works(r), Remember PROVE IInv'
<1>1. PICK where \in {"answered", "asked", "updating"}, what \in Told :
       /\ pc' = [pc EXCEPT ![r] = where]
       /\ answer' = [answer EXCEPT ![r] = what]
       /\ where # "answered" => what = "none"
       /\ where = "updating" => OpOf(r) = "mcpClient.update" /\ UNCHANGED action
       /\ where = "updating" \/ (what = "ok" /\ OpOf(r) # "changePassword") =>
            \E s \in held[r] \ {None} : MayRun(s, OpOf(r))
       /\ where = "asked" \/ (action[r] = None /\ action'[r] # None) =>
            /\ OpOf(r) \notin TaskOp \cup {"changePassword"}
            /\ \E s \in held[r] \ {None} : Within(s, OpOf(r))
       /\ what = "task" /\ OpOf(r) \in TaskOp => pc[r] = "cancelling"
       /\ OpOf(r) = "changePassword" /\ what \in {"ok", "pending", "task"} =>
            ctx[r].user \notin forced'
  BY DEF Works
<1>2. /\ UNCHANGED <<store, started, locked, locks, ctx>>
      /\ pc[r] \in {"run", "updating", "cancelling"} /\ ctx[r] # None
      /\ RowChange /\ ActionChange(r)
  BY DEF Works, around, IInv, ContextKnown, UnderWay
<1>3. /\ pc' \in [Request -> Where] /\ pc'[r] = where
      /\ answer' \in [Request -> Told] /\ answer'[r] = what
      /\ \A s \in Request \ {r} : pc'[s] = pc[s] /\ answer'[s] = answer[s]
  BY <1>1 DEF IInv, TypeOK, Where, Told
<1>4. /\ held' \in [Request -> SUBSET (Context \cup {None})]
      /\ opened' \subseteq Request
      /\ \A s \in Request : held[s] \subseteq held'[s]
      /\ \A s \in Request : s \in opened /\ ctx[s] # None => s \in opened'
  <2>1. \A s \in Request : s \in opened /\ ctx[s] # None => s \in opened'
    BY <1>2 DEF Remember
  <2>. QED
    BY <1>2, <2>1, Remembered DEF RowChange, IInv, TypeOK
<1>5. TypeOK'
  BY <1>2, <1>3, <1>4 DEF RowChange, ActionChange, IInv, TypeOK, Where, Told
<1>6. EndedKeysStayEnded'
  BY <1>2 DEF RowChange
<1>7. ContextKnown'
  BY <1>2, <1>3 DEF IInv, ContextKnown, UnderWay
<1>8. ContextHeld'
  BY <1>2, <1>4 DEF IInv, ContextHeld
<1>9. UpdaterMayRun'
  BY <1>1, <1>3, <1>4 DEF IInv, UpdaterMayRun, OpOf
<1>10. RanAllowed'
  BY <1>1, <1>2, <1>3, <1>4 DEF IInv, RanAllowed, OpOf, ActionChange
<1>11. TaskIsOwn'
  <2>1. ASSUME NEW s \in Request,
               pc'[s] = "cancelling" \/ (answer'[s] = "task" /\ OpOf(s) \in TaskOp)
        PROVE  /\ callOf[s].of \in Request
               /\ action[callOf[s].of] # None
               /\ action[callOf[s].of].by \in {callerOf[s], None}
    BY <1>1, <1>3, <2>1, CallFields, Parameters DEF IInv, TaskIsOwn, OpOf
  <2>2. \A s \in Request :
          /\ pc'[s] = "cancelling" => OpOf(s) \in TaskOp
          /\ pc'[s] = "asked" => OpOf(s) \notin TaskOp \cup {"changePassword"}
    BY <1>1, <1>3 DEF IInv, TaskIsOwn
  <2>. QED
    BY <1>2, <2>1, <2>2 DEF ActionChange, TaskIsOwn, OpOf
<1>12. NothingYet'
  BY <1>1, <1>2, <1>3 DEF IInv, NothingYet, ActionChange
<1>13. Opened'
  BY <1>1, <1>2, <1>3, <1>4 DEF IInv, Opened, ContextKnown, UnderWay
<1>14. PasswordKept'
  <2>1. \A s \in Request : ctx[s] # None => ctx[s].user \in User
    BY DEF IInv, TypeOK, Context
  <2>2. \A s \in Request : ctx[s] # None /\ Free(s) => Free(s)'
    BY <1>2, <2>1 DEF Free, RowChange
  <2>. QED
    BY <1>1, <1>2, <1>3, <2>1, <2>2 DEF IInv, PasswordKept, Opened, ContextKnown, UnderWay, Free, OpOf
<1>15. \A s \in Request : ToCreate(s)' => ToCreate(s)
  BY <1>1, <1>2, <1>3 DEF ToCreate, OpOf, ActionChange
<1>16. CreatedOnce'
  <2>1. ASSUME NEW s \in Request, ToCreate(s)'
        PROVE  key'[callOf[s].key] = None /\ callOf[s].key \notin ended'
    <3>1. ToCreate(s) /\ callOf[s].key \in Key
      BY <1>15, <2>1, CallFields, Parameters DEF ToCreate, OpOf
    <3>2. key[callOf[s].key] = None /\ callOf[s].key \notin ended
      BY <3>1 DEF IInv, CreatedOnce
    <3>3. \A t \in Request : ToCreate(t) /\ callOf[t].key = callOf[s].key => t = s
      BY <3>1, AccessAssumption DEF ToCreate, OpOf
    <3>. QED
      BY <1>2, <2>1, <3>1, <3>2, <3>3 DEF RowChange
  <2>. QED
    BY <1>2, <1>15, <2>1 DEF IInv, CreatedOnce
<1>17. ActsForCreator'
  <2>1. ASSUME NEW s \in Request, ctx[s] # None, ctx[s].key # None, key'[ctx[s].key] # None
        PROVE  key[ctx[s].key] # None /\ key'[ctx[s].key].creator = key[ctx[s].key].creator
    <3>1. ctx[s].key \in Key
      BY <2>1 DEF IInv, TypeOK, Context
    <3>2. \A t \in Request : ToCreate(t) => callOf[t].key # ctx[s].key
      BY <2>1 DEF IInv, CreatedOnce
    <3>. QED
      BY <1>2, <2>1, <3>1, <3>2 DEF RowChange
  <2>. QED
    BY <1>2, <2>1 DEF IInv, ActsForCreator
<1>. QED
  BY <1>5, <1>6, <1>7, <1>8, <1>9, <1>10, <1>11, <1>12, <1>13, <1>14, <1>16, <1>17 DEF IInv

\* The effect of an operation that its handler did not refuse.
LEMMA EffectChanges ==
  ASSUME IInv, NEW c \in Context, NEW t \in Request,
         Effect(c, callOf[t]), ~Refuses(c, callOf[t]), forced' = forced,
         OpOf(t) = "mcpClient.create" => ToCreate(t) /\ ~ToCreate(t)'
  PROVE  RowChange
<1>. DEFINE call == callOf[t]
<1>0. /\ user \in [User -> UserRow \cup {None}]
      /\ session \subseteq User
      /\ key \in [Key -> KeyRow \cup {None}]
      /\ ended \subseteq Key
      /\ EndedKeysStayEnded
      /\ call \in Call
  BY Parameters DEF IInv, TypeOK
<1>. SUFFICES /\ user' \in [User -> UserRow \cup {None}]
              /\ session' \subseteq User
              /\ key' \in [Key -> KeyRow \cup {None}]
              /\ ended' \subseteq Key
              /\ \A u \in User : user[u] = None => user'[u] = None
              /\ \A k \in Key :
                   key'[k] # None =>
                     \/ key[k] # None /\ key'[k].creator = key[k].creator
                     \/ ToCreate(t) /\ ~ToCreate(t)' /\ callOf[t].key = k
              /\ \A k \in ended' \ ended : key[k] # None
              /\ EndedKeysStayEnded'
  BY DEF RowChange
<1>1. CASE call.op = "mcpClient.create"
  <2>1. call.key \in Key /\ call.scopes \subseteq Scope /\ call.trust \in Trust
    BY <1>0, <1>1, CallFields
  <2>2. /\ key' = [key EXCEPT ![call.key] = [creator |-> c.user, scopes |-> call.scopes,
                                             trust |-> call.trust, revoked |-> FALSE]]
        /\ UNCHANGED <<user, session, ended>>
    BY <1>1 DEF Effect, SetKey
  <2>3. [creator |-> c.user, scopes |-> call.scopes, trust |-> call.trust, revoked |-> FALSE] \in KeyRow
    BY <2>1 DEF KeyRow, Context
  <2>4. call.key \notin ended
    BY <1>1 DEF IInv, CreatedOnce, OpOf
  <2>. QED
    BY <1>0, <1>1, <2>1, <2>2, <2>3, <2>4 DEF EndedKeysStayEnded, OpOf
<1>2. CASE call.op = "mcpClient.update"
  <2>1. call.key \in Key /\ call.scopes \subseteq Scope /\ key[call.key] # None
    BY <1>0, <1>2, CallFields DEF Refuses
  <2>2. /\ key' = [key EXCEPT ![call.key] = [key[call.key] EXCEPT !.scopes = call.scopes]]
        /\ UNCHANGED <<user, session, ended>>
    BY <1>2 DEF Effect, SetKey
  <2>. QED
    BY <1>0, <2>1, <2>2 DEF EndedKeysStayEnded, KeyRow
<1>3. CASE call.op = "mcpClient.revoke"
  <2>1. call.key \in Key /\ key[call.key] # None
    BY <1>0, <1>3, CallFields DEF Refuses
  <2>2. /\ key' = [key EXCEPT ![call.key] = [key[call.key] EXCEPT !.revoked = TRUE]]
        /\ ended' = ended \cup {call.key}
        /\ UNCHANGED <<user, session>>
    BY <1>3 DEF Effect, SetKey
  <2>. QED
    BY <1>0, <2>1, <2>2 DEF EndedKeysStayEnded, KeyRow
<1>4. CASE call.op = "user.update"
  <2>1. /\ call.user \in User /\ user[call.user] \in UserRow
        /\ call.to \in Role \cup {"disabled", "enabled"}
    BY <1>0, <1>4, CallFields DEF Refuses
  <2>2. CASE call.to = "disabled"
    <3>1. Disable(call.user)
      BY <1>4, <2>2 DEF Effect
    <3>. DEFINE u == call.user
    <3>2. /\ user' = [user EXCEPT ![u].status = "disabled"] /\ session' = session \ {u}
          /\ key' = [k \in Key |-> IF k \in KeysOf(u) THEN [key[k] EXCEPT !.revoked = TRUE] ELSE key[k]]
          /\ ended' = ended \cup KeysOf(u)
          /\ u \in User /\ user[u] \in UserRow
      BY <2>1, <3>1 DEF Disable
    <3>. HIDE DEF u
    <3>3. user' \in [User -> UserRow \cup {None}]
      BY <1>0, <3>2 DEF UserRow
    <3>4. \A v \in User : user[v] = None => user'[v] = None
      BY <1>0, <3>2, AccessAssumption
    <3>5. \A k \in Key : key'[k] # None => key[k] # None /\ key'[k].creator = key[k].creator
      BY <1>0, <3>2 DEF KeysOf, KeyRow
    <3>6. key' \in [Key -> KeyRow \cup {None}]
      BY <1>0, <3>2 DEF KeysOf, KeyRow
    <3>7. \A k \in ended' \ ended : key[k] # None
      BY <3>2 DEF KeysOf
    <3>8. EndedKeysStayEnded'
      BY <1>0, <3>2 DEF EndedKeysStayEnded, KeysOf, KeyRow
    <3>. QED
      BY <1>0, <3>2, <3>3, <3>4, <3>5, <3>6, <3>7, <3>8 DEF KeysOf
  <2>3. CASE call.to # "disabled"
    <3>1. SetRow(call.user, call.to)
      BY <1>4, <2>3 DEF Effect
    <3>2. /\ user' = [user EXCEPT ![call.user] =
                         IF call.to = "enabled" THEN [user[call.user] EXCEPT !.status = "active"]
                         ELSE [user[call.user] EXCEPT !.role = call.to]]
          /\ UNCHANGED <<session, key, ended>>
      BY <3>1 DEF SetRow
    <3>3. call.to # "enabled" => call.to \in Role
      BY <2>1, <2>3
    <3>4. user' \in [User -> UserRow \cup {None}]
      BY <1>0, <2>1, <3>2, <3>3 DEF UserRow
    <3>5. \A v \in User : user[v] = None => user'[v] = None
      BY <1>0, <2>1, <3>2, AccessAssumption
    <3>. QED
      BY <1>0, <3>2, <3>4, <3>5 DEF EndedKeysStayEnded
  <2>. QED
    BY <2>2, <2>3
<1>5. CASE call.op = "user.delete"
  <2>1. call.user \in User
    BY <1>0, <1>5, CallFields
  <2>2. Delete(call.user)
    BY <1>5 DEF Effect
  <2>. QED
    BY <1>0, <2>1, <2>2 DEF Delete, KeysOf, EndedKeysStayEnded
<1>6. CASE call.op \notin {"mcpClient.create", "mcpClient.update", "mcpClient.revoke", "user.update",
                           "user.delete"}
  <2>1. UNCHANGED <<user, session, key, ended>>
    BY <1>6 DEF Effect
  <2>. QED
    BY <1>0, <2>1 DEF EndedKeysStayEnded
<1>. QED
  BY <1>1, <1>2, <1>3, <1>4, <1>5, <1>6

\* Nothing changed is a change, too.
LEMMA SameRows ==
  ASSUME IInv, UNCHANGED <<user, session, key, ended>>, forced' \subseteq forced
  PROVE  RowChange
BY DEF RowChange, IInv, TypeOK, EndedKeysStayEnded

LEMMA SameActions ==
  ASSUME IInv, UNCHANGED action, NEW r \in Request PROVE ActionChange(r)
BY DEF ActionChange, IInv, TypeOK

\* Deleting a key touches only who asked.
LEMMA RequestersKeep ==
  ASSUME NEW rows \in [Request -> ActionRow \cup {None}], action' = Requesters(rows)
  PROVE  /\ action' \in [Request -> ActionRow \cup {None}]
         /\ \A s \in Request :
              /\ action'[s] = None <=> rows[s] = None
              /\ rows[s] # None => /\ action'[s].by \in {rows[s].by, None}
                                   /\ action'[s].status = rows[s].status
BY AccessAssumption DEF Requesters, ActionRow

\* What is known of a call at its handler.
LEMMA AtHandler ==
  ASSUME IInv, NEW r \in Request, pc[r] = "run" \/ pc[r] = "updating" \/ pc[r] = "cancelling"
  PROVE  /\ ctx[r] \in Context
         /\ answer[r] = "none"
         /\ answer = [answer EXCEPT ![r] = "none"]
         /\ action[r] = None
         /\ callOf[r] \in Call
BY Parameters DEF IInv, TypeOK, ContextKnown, UnderWay, NothingYet

LEMMA AllowedNow ==
  ASSUME IInv, NEW r \in Request, pc[r] = "run", Authorized(ctx[r], OpOf(r)), OpOf(r) \notin TaskOp
  PROVE  /\ \E s \in held[r] \ {None} : Within(s, OpOf(r))
         /\ ~NeedsApproval(ctx[r], OpOf(r)) => \E s \in held[r] \ {None} : MayRun(s, OpOf(r))
<1>1. PICK s \in held[r] \ {None} : Covers(s, ctx[r])
  BY AtHandler, AccessAssumption DEF IInv, ContextHeld
<1>. QED
  BY <1>1, CoveredMayRun, CoveredWithin

\* A decided action, as its reviewer or its own caller leaves it.
LEMMA DecidedKeeps ==
  ASSUME IInv, NEW r \in Request, NEW status \in {"approved", "failed", "cancelled"},
         callOf[r].of \in Request, action[callOf[r].of] # None
  PROVE  /\ Decided(r, status) \in [Request -> ActionRow \cup {None}]
         /\ Decided(r, status)[callOf[r].of].status = status
         /\ \A s \in Request :
              /\ Decided(r, status)[s] = None <=> action[s] = None
              /\ action[s] # None =>
                   /\ Decided(r, status)[s].by = action[s].by
                   /\ Decided(r, status)[s].status \in {status, action[s].status}
<1>1. action \in [Request -> ActionRow \cup {None}] /\ action[callOf[r].of] \in ActionRow
  BY DEF IInv, TypeOK
<1>2. [action[callOf[r].of] EXCEPT !.status = status] \in ActionRow
  BY <1>1 DEF ActionRow
<1>. QED
  BY <1>1, <1>2, AccessAssumption DEF Decided, ActionRow

LEMMA AskWorks == ASSUME IInv, NEW r \in Request, Ask(r) PROVE Works(r)
<1>1. /\ pc[r] = "run" /\ OpOf(r) # "changePassword"
      /\ Authorized(ctx[r], OpOf(r)) /\ NeedsApproval(ctx[r], OpOf(r))
      /\ UNCHANGED <<user, session, forced, key, ended, store, started, locked, locks, ctx>>
  BY DEF Ask, OpOf, people, around
<1>2. /\ OpOf(r) \notin TaskOp
      /\ \E s \in held[r] \ {None} : Within(s, OpOf(r))
  BY <1>1, AskedIsRisky, AllowedNow
<1>3. RowChange
  BY <1>1, SameRows
<1>4. CASE ~AuditStored(ctx[r], [op |-> "pendingAction.create"])
  BY <1>1, <1>2, <1>3, <1>4, SameActions, AtHandler DEF Ask, Works, Tells, Told, around
<1>5. CASE AuditStored(ctx[r], [op |-> "pendingAction.create"])
  <2>1. action' = [action EXCEPT ![r] = [status |-> "pending", by |-> ctx[r].key]]
    BY <1>5 DEF Ask
  <2>2. ctx[r].key \in Key \cup {None} /\ action[r] = None
    BY <1>1, AtHandler DEF Context
  <2>3. ActionChange(r)
    BY <2>1, <2>2 DEF ActionChange, ActionRow, IInv, TypeOK
  <2>4. \/ pc' = [pc EXCEPT ![r] = "answered"] /\ answer' = [answer EXCEPT ![r] = "pending"]
        \/ pc' = [pc EXCEPT ![r] = "asked"] /\ answer' = [answer EXCEPT ![r] = "none"]
    BY <1>1, <1>5, AtHandler DEF Ask, Tells, Goes
  <2>. QED
    BY <1>1, <1>2, <1>3, <2>3, <2>4 DEF Works, Told, around
<1>. QED
  BY <1>4, <1>5

LEMMA CancelWorks == ASSUME IInv, NEW r \in Request, CancelTask(r) PROVE Works(r)
<1>1. /\ pc[r] = "cancelling" /\ OpOf(r) \in TaskOp
      /\ UNCHANGED <<user, session, forced, key, ended, store, started, locked, locks, ctx>>
      /\ callOf[r].of \in Request
  BY CallFields, Parameters DEF CancelTask, people, around, IInv, TaskIsOwn, OpOf
<1>2. RowChange
  BY <1>1, SameRows
<1>3. ActionChange(r) /\ action'[r] = None
  <2>1. CASE UNCHANGED action
    BY <1>1, <2>1, SameActions, AtHandler
  <2>2. CASE action' = Decided(r, "cancelled") /\ IsOwn(r, callOf[r].of)
    BY <1>1, <2>2, DecidedKeeps, AtHandler DEF ActionChange, IsOwn
  <2>. QED
    BY <2>1, <2>2 DEF CancelTask
<1>. QED
  BY <1>1, <1>2, <1>3 DEF CancelTask, Works, Tells, Told, TaskOp, around

LEMMA ChangePasswordWorks == ASSUME IInv, NEW r \in Request, ChangePassword(r) PROVE Works(r)
<1>1. /\ pc[r] = "run" /\ OpOf(r) = "changePassword"
      /\ UNCHANGED <<user, session, key, ended, action, store, started, locked, locks, ctx>>
      /\ \/ UNCHANGED forced /\ Tells(r, "error")
         \/ forced' = forced \ {ctx[r].user} /\ Tells(r, "ok")
  BY DEF ChangePassword, OpOf, around
<1>2. RowChange /\ ActionChange(r) /\ action'[r] = action[r]
  BY <1>1, SameRows, SameActions
<1>. QED
  BY <1>1, <1>2 DEF Works, Tells, Told, TaskOp, around

LEMMA RunWorks == ASSUME IInv, NEW r \in Request, Run(r) PROVE Works(r)
<1>1. /\ pc[r] = "run" /\ OpOf(r) # "changePassword" /\ OpOf(r) \notin TaskOp
      /\ Authorized(ctx[r], OpOf(r)) /\ ~NeedsApproval(ctx[r], OpOf(r))
      /\ UNCHANGED <<store, started, locked, locks, ctx>>
  BY DEF Run, MayRunNow, OpOf, around
<1>2. \E s \in held[r] \ {None} : MayRun(s, OpOf(r))
  BY <1>1, AllowedNow
<1>3. CASE UNCHANGED <<people, action>>
  <2>1. RowChange /\ ActionChange(r) /\ action'[r] = action[r]
    BY <1>3, SameRows, SameActions DEF people
  <2>2. \/ pc' = [pc EXCEPT ![r] = "answered"] /\ answer' = [answer EXCEPT ![r] = "error"]
        \/ pc' = [pc EXCEPT ![r] = "answered"] /\ answer' = [answer EXCEPT ![r] = "ok"]
        \/ /\ pc' = [pc EXCEPT ![r] = "updating"] /\ answer' = [answer EXCEPT ![r] = "none"]
           /\ OpOf(r) = "mcpClient.update"
    BY <1>1, AtHandler DEF Run, Tells, Goes, OpOf
  <2>. QED
    BY <1>1, <1>2, <1>3, <2>1, <2>2 DEF Works, Told, around, TaskOp
<1>4. CASE /\ ~Fails(ctx[r], callOf[r])
           /\ Effect(ctx[r], callOf[r])
           /\ action' = Requesters(action)
           /\ Tells(r, "ok")
           /\ UNCHANGED forced
  <2>1. pc' = [pc EXCEPT ![r] = "answered"] /\ answer' = [answer EXCEPT ![r] = "ok"]
    BY <1>4 DEF Tells
  <2>2. ActionChange(r) /\ action'[r] = None
    BY <1>1, <1>4, RequestersKeep, AtHandler DEF ActionChange, IInv, TypeOK
  <2>3. OpOf(r) = "mcpClient.create" => ToCreate(r) /\ ~ToCreate(r)'
    BY <1>1, <2>1, <2>2 DEF ToCreate, OpOf, IInv, TypeOK
  <2>4. RowChange
    BY <1>1, <1>4, <2>3, AtHandler, EffectChanges DEF Fails
  <2>. QED
    BY <1>1, <1>2, <2>1, <2>2, <2>4 DEF Works, Told, around
<1>. QED
  BY <1>3, <1>4 DEF Run

LEMMA UpdateWorks == ASSUME IInv, NEW r \in Request, Update(r) PROVE Works(r)
<1>1. /\ pc[r] = "updating" /\ OpOf(r) = "mcpClient.update"
      /\ \E s \in held[r] \ {None} : MayRun(s, OpOf(r))
      /\ UNCHANGED <<user, session, forced, ended, action, store, started, locked, locks, ctx>>
  BY DEF Update, IInv, UpdaterMayRun, around, SetKey
<1>2. ActionChange(r) /\ action'[r] = action[r]
  BY <1>1, SameActions
<1>3. CASE UNCHANGED key /\ Tells(r, "error")
  <2>1. RowChange
    BY <1>1, <1>3, SameRows
  <2>. QED
    BY <1>1, <1>2, <1>3, <2>1 DEF Works, Tells, Told, around
<1>4. CASE /\ key[callOf[r].key] # None
           /\ key' = [key EXCEPT ![callOf[r].key] = [key[callOf[r].key] EXCEPT !.scopes = callOf[r].scopes]]
           /\ Tells(r, "ok")
  <2>1. callOf[r].key \in Key /\ callOf[r].scopes \subseteq Scope /\ key[callOf[r].key] \in KeyRow
    BY <1>1, <1>4, CallFields, Parameters DEF OpOf, IInv, TypeOK
  <2>2. RowChange
    BY <1>1, <1>4, <2>1 DEF RowChange, IInv, TypeOK, EndedKeysStayEnded, KeyRow
  <2>. QED
    BY <1>1, <1>2, <1>4, <2>2 DEF Works, Tells, Told, around, TaskOp
<1>. QED
  BY <1>3, <1>4 DEF Update, SetKey

LEMMA ApproveWorks == ASSUME IInv, NEW r \in Request, Approve(r) PROVE Works(r)
<1>. DEFINE of == callOf[r].of
<1>1. /\ pc[r] = "run" /\ OpOf(r) = "pendingAction.approve" /\ OpOf(r) \notin TaskOp
      /\ Authorized(ctx[r], OpOf(r)) /\ ~NeedsApproval(ctx[r], OpOf(r))
      /\ UNCHANGED <<store, started, locked, locks, ctx>>
  BY DEF Approve, MayRunNow, OpOf, around, TaskOp
<1>2. /\ \E s \in held[r] \ {None} : MayRun(s, OpOf(r))
      /\ of \in Request /\ action[r] = None
  BY <1>1, AllowedNow, AtHandler, CallFields DEF OpOf
<1>3. CASE UNCHANGED <<people, action>> /\ Tells(r, "error")
  <2>1. RowChange /\ ActionChange(r) /\ action'[r] = action[r]
    BY <1>3, SameRows, SameActions DEF people
  <2>. QED
    BY <1>1, <1>2, <1>3, <2>1 DEF Works, Tells, Told, around
<1>4. CASE /\ action[of] # None
           /\ action' = Decided(r, "failed") /\ Tells(r, "error") /\ UNCHANGED people
  <2>1. RowChange
    BY <1>4, SameRows DEF people
  <2>2. ActionChange(r) /\ action'[r] = None
    BY <1>2, <1>4, DecidedKeeps DEF ActionChange
  <2>. QED
    BY <1>1, <1>2, <1>4, <2>1, <2>2 DEF Works, Tells, Told, around
<1>5. CASE /\ action[of] # None /\ action[of].status = "pending"
           /\ ~Fails(ctx[r], callOf[of])
           /\ Effect(ctx[r], callOf[of])
           /\ action' = Requesters(Decided(r, "approved"))
           /\ Tells(r, "ok")
           /\ UNCHANGED forced
  <2>1. pc' = [pc EXCEPT ![r] = "answered"] /\ answer' = [answer EXCEPT ![r] = "ok"]
    BY <1>5 DEF Tells
  <2>2. /\ ActionChange(r) /\ action'[r] = None
        /\ action'[of] # None /\ action'[of].status = "approved"
    BY <1>2, <1>5, DecidedKeeps, RequestersKeep DEF ActionChange
  <2>3. OpOf(of) = "mcpClient.create" => ToCreate(of) /\ ~ToCreate(of)'
    <3>1. of # r /\ pc[of] \in {"asked", "answered"}
      BY <1>2, <1>5 DEF IInv, NothingYet
    <3>. QED
      BY <1>2, <1>5, <2>1, <2>2, <3>1 DEF ToCreate, OpOf, IInv, TypeOK
  <2>4. RowChange
    BY <1>1, <1>2, <1>5, <2>3, AtHandler, EffectChanges DEF Fails
  <2>. QED
    BY <1>1, <1>2, <2>1, <2>2, <2>4 DEF Works, Told, around
<1>. QED
  BY <1>3, <1>4, <1>5 DEF Approve

-----------------------------------------------------------------------------
(* The steps that are no call's.                                           *)

\* A lock turns, a stdio process starts, or nothing happens.
Aside ==
  /\ UNCHANGED <<store, people, action, pc, ctx, answer>>
  /\ started' \subseteq Key
  /\ locked' \in BOOLEAN
  /\ locks' \in 0..MaxLocks

LEMMA AsideKeeps ==
  ASSUME IInv, Aside, Remember \/ UNCHANGED <<held, opened>> PROVE IInv'
<1>1. UNCHANGED <<store, user, session, forced, key, ended, action, pc, ctx, answer>>
  BY DEF Aside, people
<1>2. /\ held' \in [Request -> SUBSET (Context \cup {None})]
      /\ opened' \subseteq Request
      /\ \A s \in Request : held[s] \subseteq held'[s]
      /\ \A s \in Request : s \in opened /\ ctx[s] # None => s \in opened'
  <2>1. CASE Remember
    <3>1. \A s \in Request : s \in opened /\ ctx[s] # None => s \in opened'
      BY <1>1, <2>1 DEF Remember
    <3>. QED
      BY <1>1, <2>1, <3>1, Remembered DEF IInv, TypeOK
  <2>2. CASE UNCHANGED <<held, opened>>
    BY <2>2 DEF IInv, TypeOK
  <2>. QED
    BY <2>1, <2>2
<1>3. TypeOK'
  BY <1>1, <1>2 DEF Aside, IInv, TypeOK
<1>4. EndedKeysStayEnded' /\ ContextKnown' /\ ActsForCreator'
  BY <1>1 DEF IInv, EndedKeysStayEnded, ContextKnown, UnderWay, ActsForCreator
<1>5. ContextHeld' /\ UpdaterMayRun' /\ RanAllowed'
  BY <1>1, <1>2 DEF IInv, ContextHeld, UpdaterMayRun, RanAllowed, OpOf
<1>6. TaskIsOwn' /\ NothingYet'
  BY <1>1 DEF IInv, TaskIsOwn, NothingYet, OpOf
<1>7. Opened'
  BY <1>1, <1>2 DEF IInv, Opened, ContextKnown, UnderWay
<1>8. PasswordKept'
  BY <1>1 DEF IInv, PasswordKept, Free, OpOf
<1>9. CreatedOnce'
  <2>1. \A s \in Request : ToCreate(s)' = ToCreate(s)
    BY <1>1 DEF ToCreate, OpOf
  <2>. QED
    BY <1>1, <2>1 DEF IInv, CreatedOnce
<1>. QED
  BY <1>3, <1>4, <1>5, <1>6, <1>7, <1>8, <1>9 DEF IInv

LEMMA NextKeeps == ASSUME IInv, [Next]_vars PROVE IInv'
<1>1. CASE UNCHANGED vars
  BY <1>1, AsideKeeps DEF vars, base, Aside, people, IInv, TypeOK
<1>2. ASSUME NEW k \in Key, StartStdio(k), Remember PROVE IInv'
  BY <1>2, AsideKeeps DEF StartStdio, Aside, IInv, TypeOK
<1>3. CASE TurnLock /\ Remember
  <2>1. locks \in 0..MaxLocks /\ MaxLocks \in Nat /\ locked \in BOOLEAN
    BY AccessAssumption DEF IInv, TypeOK
  <2>2. locks' \in 0..MaxLocks
    BY <1>3, <2>1 DEF TurnLock
  <2>. QED
    BY <1>3, <2>1, <2>2, AsideKeeps DEF TurnLock, Aside, IInv, TypeOK
<1>4. ASSUME NEW r \in Request, Remember,
             \/ Arrive(r) \/ Touch(r) \/ GateRequest(r) \/ GateTool(r) \/ GatePassword(r) \/ Forbid(r)
             \/ ReadTask(r) \/ AnswerTask(r)
      PROVE  IInv'
  BY <1>4, OnwardPasses, TaskReadsPass, PassesKeep
<1>5. ASSUME NEW r \in Request, Remember, Resolve(r) PROVE IInv'
  BY <1>5, ResolveKeeps
<1>6. ASSUME NEW r \in Request, Remember,
             Ask(r) \/ Run(r) \/ Update(r) \/ Approve(r) \/ CancelTask(r) \/ ChangePassword(r)
      PROVE  IInv'
  BY <1>6, AskWorks, RunWorks, UpdateWorks, ApproveWorks, CancelWorks, ChangePasswordWorks, WorksKeep
<1>. QED
  BY <1>1, <1>2, <1>3, <1>4, <1>5, <1>6 DEF Next, Step

LEMMA IInvHolds == Spec => []IInv
<1>1. IInv /\ [Next]_vars => IInv'
  BY NextKeeps
<1>. QED
  BY InitIInv, <1>1, PTL DEF Spec

-----------------------------------------------------------------------------
(* What the audit log's foreign keys keep out.                             *)

\* The handler's own effect removes neither its caller nor its caller's key.
LEMMA EffectSpares ==
  ASSUME IInv, store = "postgres",
         NEW c \in Context, user[c.user] # None,
         c.key # None => key[c.key] # None /\ key[c.key].creator = c.user,
         NEW t \in Request, Effect(c, callOf[t]), ~Fails(c, callOf[t])
  PROVE  user'[c.user] # None /\ (c.key # None => key'[c.key] # None)
<1>. DEFINE call == callOf[t]
<1>0. /\ user \in [User -> UserRow \cup {None}]
      /\ key \in [Key -> KeyRow \cup {None}]
      /\ c.user \in User /\ c.key \in Key \cup {None}
      /\ call \in Call
      /\ c \in Context
  BY Parameters DEF IInv, TypeOK, Context
<1>1. CASE call.op \in {"mcpClient.create", "mcpClient.update", "mcpClient.revoke"}
  <2>1. /\ call.key \in Key
        /\ call.op # "mcpClient.create" => key[call.key] # None
    BY <1>0, <1>1, CallFields DEF Fails, Refuses
  <2>2. UNCHANGED user
    BY <1>1 DEF Effect, SetKey
  <2>3. \E row : key' = [key EXCEPT ![call.key] = row] /\ row # None
    <3>1. CASE call.op = "mcpClient.create"
      <4>1. call.scopes \subseteq Scope /\ call.trust \in Trust
        BY <1>0, <3>1, CallFields
      <4>2. [creator |-> c.user, scopes |-> call.scopes, trust |-> call.trust, revoked |-> FALSE] \in KeyRow
        BY <1>0, <4>1 DEF KeyRow
      <4>. QED
        BY <3>1, <4>2, AccessAssumption DEF Effect, SetKey
    <3>2. CASE call.op = "mcpClient.update"
      <4>1. [key[call.key] EXCEPT !.scopes = call.scopes] \in KeyRow
        BY <1>0, <2>1, <3>2, CallFields DEF KeyRow
      <4>. QED
        BY <3>2, <4>1, AccessAssumption DEF Effect, SetKey
    <3>3. CASE call.op = "mcpClient.revoke"
      <4>1. [key[call.key] EXCEPT !.revoked = TRUE] \in KeyRow
        BY <1>0, <2>1, <3>3 DEF KeyRow
      <4>. QED
        BY <3>3, <4>1, AccessAssumption DEF Effect, SetKey
    <3>. QED
      BY <1>1, <3>1, <3>2, <3>3
  <2>. QED
    BY <1>0, <2>1, <2>2, <2>3
<1>2. CASE call.op = "user.update"
  <2>1. call.user \in User /\ user[call.user] \in UserRow /\ call.to \in Role \cup {"disabled", "enabled"}
    BY <1>0, <1>2, CallFields DEF Fails, Refuses
  <2>2. CASE call.to = "disabled"
    <3>1. /\ user' = [user EXCEPT ![call.user].status = "disabled"]
          /\ key' = [k \in Key |-> IF k \in KeysOf(call.user) THEN [key[k] EXCEPT !.revoked = TRUE] ELSE key[k]]
      BY <1>2, <2>2 DEF Effect, Disable
    <3>2. [user[call.user] EXCEPT !.status = "disabled"] \in UserRow
      BY <2>1 DEF UserRow
    <3>3. \A k \in Key : key[k] # None => [key[k] EXCEPT !.revoked = TRUE] \in KeyRow
      BY <1>0 DEF KeyRow
    <3>. QED
      BY <1>0, <2>1, <3>1, <3>2, <3>3, AccessAssumption
  <2>3. CASE call.to # "disabled"
    <3>1. /\ user' = [user EXCEPT ![call.user] =
                        IF call.to = "enabled" THEN [user[call.user] EXCEPT !.status = "active"]
                        ELSE [user[call.user] EXCEPT !.role = call.to]]
          /\ UNCHANGED key
      BY <1>2, <2>3 DEF Effect, SetRow
    <3>2. /\ [user[call.user] EXCEPT !.status = "active"] \in UserRow
          /\ call.to # "enabled" => [user[call.user] EXCEPT !.role = call.to] \in UserRow
      BY <2>1, <2>3 DEF UserRow
    <3>. QED
      BY <1>0, <2>1, <3>1, <3>2, AccessAssumption
  <2>. QED
    BY <2>2, <2>3
<1>3. CASE call.op = "user.delete"
  <2>1. call.user \in User /\ call.user # c.user
    BY <1>0, <1>3, CallFields DEF Fails, AuditStored
  <2>2. /\ user' = [user EXCEPT ![call.user] = None]
        /\ key' = [k \in Key |-> IF k \in KeysOf(call.user) THEN None ELSE key[k]]
    BY <1>3 DEF Effect, Delete
  <2>. QED
    BY <1>0, <2>1, <2>2 DEF KeysOf
<1>4. CASE call.op \notin {"mcpClient.create", "mcpClient.update", "mcpClient.revoke", "user.update",
                           "user.delete"}
  <2>1. UNCHANGED <<user, key>>
    BY <1>4 DEF Effect
  <2>. QED
    BY <2>1
<1>. QED
  BY <1>1, <1>2, <1>3, <1>4

\* The caller of a call that ends, having stored what it did, is there.
LEMMA WritersArePresent ==
  ASSUME IInv, store = "postgres", Next, NEW r \in Request,
         pc'[r] = "answered", pc[r] = "run" \/ pc[r] = "updating",
         answer'[r] = "pending" \/ (answer'[r] = "ok" /\ OpOf(r) # "company.list")
  PROVE  user'[ctx[r].user] # None /\ (ctx[r].key # None => key'[ctx[r].key] # None)
<1>0. /\ ctx[r] \in Context /\ callOf[r] \in Call
      /\ ctx[r].key # None /\ key[ctx[r].key] # None => key[ctx[r].key].creator = ctx[r].user
      /\ answer[r] = "none"
  BY AtHandler, AccessAssumption DEF IInv, ActsForCreator
<1>1. Ask(r) \/ Run(r) \/ Update(r) \/ Approve(r) \/ ChangePassword(r)
  <2>1. pc'[r] # pc[r] /\ answer'[r] \in {"ok", "pending"}
    OBVIOUS
  <2>2. pc \in [Request -> Where] /\ answer \in [Request -> Told]
    BY DEF IInv, TypeOK, Where, Told
  <2>3. ASSUME NEW s \in Request,
               \/ Arrive(s) \/ Resolve(s) \/ Touch(s) \/ GateRequest(s) \/ GateTool(s)
               \/ GatePassword(s) \/ Forbid(s) \/ ReadTask(s) \/ CancelTask(s) \/ AnswerTask(s)
        PROVE  FALSE
    <3>1. \E what \in Told \ {"ok", "pending"} : answer' = [answer EXCEPT ![s] = what]
      BY <2>2, <2>3, <1>0 DEF Arrive, Resolve, Touch, GateRequest, GateTool, GatePassword, Forbid,
                          ReadTask, CancelTask, AnswerTask, Tells, Goes, Told
    <3>. QED
      BY <1>0, <2>1, <2>2, <3>1
  <2>4. ASSUME NEW s \in Request \ {r},
               Ask(s) \/ Run(s) \/ Update(s) \/ Approve(s) \/ ChangePassword(s)
        PROVE  FALSE
    <3>1. \E where \in Where : pc' = [pc EXCEPT ![s] = where]
      BY <2>2, <2>4 DEF Ask, Run, Update, Approve, ChangePassword, Tells, Goes, Where
    <3>. QED
      BY <2>1, <2>2, <3>1
  <2>5. ~(\E k \in Key : StartStdio(k)) /\ ~TurnLock
    BY <2>1 DEF StartStdio, TurnLock
  <2>. QED
    BY <2>3, <2>4, <2>5 DEF Next, Step
<1>2. CASE Ask(r)
  <2>1. AuditStored(ctx[r], [op |-> "pendingAction.create"])
    BY <1>2, AtHandler DEF Ask, Tells, IInv, TypeOK
  <2>. QED
    BY <1>2, <2>1 DEF Ask, AuditStored, people
<1>3. CASE Run(r)
  <2>1. ~Fails(ctx[r], callOf[r]) /\ OpOf(r) # "company.list" /\ Effect(ctx[r], callOf[r])
    BY <1>0, <1>3 DEF Run, Tells, Goes, OpOf, IInv, TypeOK
  <2>2. user[ctx[r].user] # None /\ (ctx[r].key # None => key[ctx[r].key] # None)
    BY <2>1 DEF Fails, AuditStored, OpOf
  <2>. QED
    BY <1>0, <2>1, <2>2, EffectSpares
<1>4. CASE Update(r)
  <2>1. /\ key[callOf[r].key] # None /\ AuditStored(ctx[r], callOf[r])
        /\ key' = [key EXCEPT ![callOf[r].key] = [key[callOf[r].key] EXCEPT !.scopes = callOf[r].scopes]]
        /\ UNCHANGED user
    BY <1>0, <1>4 DEF Update, Tells, SetKey, IInv, TypeOK
  <2>2. user[ctx[r].user] # None /\ (ctx[r].key # None => key[ctx[r].key] # None)
    BY <2>1 DEF AuditStored
  <2>3. /\ callOf[r].key \in Key /\ callOf[r].scopes \subseteq Scope
        /\ ctx[r].key \in Key \cup {None} /\ key \in [Key -> KeyRow \cup {None}]
    BY <1>0, <1>4, CallFields DEF Update, IInv, TypeOK, UpdaterMayRun, OpOf, Context
  <2>4. [key[callOf[r].key] EXCEPT !.scopes = callOf[r].scopes] \in KeyRow
    BY <2>1, <2>3 DEF KeyRow
  <2>. QED
    BY <2>1, <2>2, <2>3, <2>4, AccessAssumption
<1>5. CASE Approve(r)
  <2>1. /\ AuditStored(ctx[r], callOf[r])
        /\ ~Fails(ctx[r], callOf[callOf[r].of]) /\ Effect(ctx[r], callOf[callOf[r].of])
        /\ callOf[r].of \in Request
    BY <1>0, <1>5, CallFields DEF Approve, Tells, MayRunNow, IInv, TypeOK
  <2>2. user[ctx[r].user] # None /\ (ctx[r].key # None => key[ctx[r].key] # None)
    BY <2>1 DEF AuditStored
  <2>. QED
    BY <1>0, <2>1, <2>2, EffectSpares
<1>6. CASE ChangePassword(r)
  <2>1. user[ctx[r].user] # None /\ UNCHANGED <<user, key>>
    BY <1>0, <1>6 DEF ChangePassword, Tells, IInv, TypeOK
  <2>2. ctx[r].key = None
    BY <1>0, <1>6, Parameters, AccessAssumption DEF ChangePassword, IInv, ContextKnown, UnderWay
  <2>. QED
    BY <2>1, <2>2
<1>. QED
  BY <1>1, <1>2, <1>3, <1>4, <1>5, <1>6

-----------------------------------------------------------------------------
(* The theorems.                                                           *)

\* A key that was revoked or deleted, by itself or with its user, never works again
\* (admin-ops.ts:200-202, :248), and the state is well-formed.
THEOREM EndedForGood == Spec => []Inv
<1>1. IInv => Inv
  BY DEF IInv, Inv
<1>. QED
  BY <1>1, IInvHolds, PTL

\* Whatever ran, or was stored for review, was allowed to its caller by the rows of
\* some moment of the call, and only the key that asked hears of a task
\* (policy.ts:52-56), however calls, demotions, revocations and reviews interleave.
THEOREM NobodyOutranks == Spec => []NeverOutranks
<1>1. IInv => NeverOutranks
  BY DEF IInv, NeverOutranks, RanAllowed, TaskIsOwn, OpOf
<1>. QED
  BY <1>1, IInvHolds, PTL

\* Nothing runs for a call that found the workspace locked all along, or whose user
\* still has to change the password (mcp/src/handler.ts:200-202, db/src/gated-run.ts:8-11).
THEOREM NothingPassesTheGates == Spec => []GatesHold
<1>1. IInv => GatesHold
  BY DEF IInv, GatesHold, Opened, PasswordKept, Free
<1>. QED
  BY <1>1, IInvHolds, PTL

\* On PostgreSQL a call resolved before its user or its key was deleted stores nothing
\* after it: the foreign keys of the audit log refuse its transaction
\* (schema.sql:704-707).
THEOREM TheDeletedWriteNothing == Spec => DeletedWritesNothingOnPostgres
<1>1. IInv /\ [Next]_vars =>
        [\A r \in Request :
           /\ store = "postgres"
           /\ pc'[r] = "answered" /\ pc[r] \in {"run", "updating"}
           /\ \/ answer'[r] = "pending"
              \/ answer'[r] = "ok" /\ callOf[r].op # "company.list"
           => /\ user'[ctx[r].user] # None
              /\ ctx[r].key # None => key'[ctx[r].key] # None]_vars
  BY WritersArePresent DEF OpOf
<1>. QED
  BY <1>1, IInvHolds, PTL DEF Spec, DeletedWritesNothingOnPostgres
=============================================================================
