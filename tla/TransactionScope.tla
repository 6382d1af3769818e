---------------------------- MODULE TransactionScope ----------------------------
(***************************************************************************)
(* How requests get their transactions: packages/db/src/sqlite-tx.ts and   *)
(* packages/db/src/pg/tx.ts.                                               *)
(*                                                                         *)
(* A chain is one request's async call chain, which AsyncLocalStorage      *)
(* follows.  On SQLite the chains of a process share one connection and    *)
(* queue for it; on PostgreSQL each takes one of its own, whose            *)
(* transaction-local app.workspace_id every row policy reads.  A nested    *)
(* ports.tx is a savepoint on both.  Calls nest and return in order: no    *)
(* handler starts two at once.                                             *)
(*                                                                         *)
(* unit is not part of the code: it is what AtomicUnits says the calls of  *)
(* a chain have written, kept to compare with what the connection holds.   *)
(* A failed statement and an error of the caller both throw.  Statements   *)
(* outside any scope, other processes on one SQLite file, and the loss of  *)
(* a connection are left out.                                              *)
(***************************************************************************)
EXTENDS Integers, Sequences

CONSTANTS
  Chain,       \* requests
  Workspace,   \* workspaces their ports belong to
  Shared,      \* the SQLite connection
  None,
  MaxEvents    \* bound: calls and statements of a chain

ASSUME ScopeAssumption ==
  /\ Shared \notin Chain
  /\ None \notin Workspace
  /\ MaxEvents \in Nat

Write == [chain : Chain, n : 0..MaxEvents, workspace : Workspace \cup {None}]
Connection == Chain \cup {Shared}

VARIABLES
  store,     \* "sqlite" or "postgres"
  queue,     \* txLock: the chains that hold or wait for the connection, in order
  pc,        \* whether chain c is idle, waiting, running or throwing
  plain,     \* c holds the connection by withConnection, without a transaction
  ambient,   \* on PostgreSQL, the workspace of each Ambient of c, outermost first
  levels,    \* of a connection: what its transaction and savepoints have written
  guc,       \* of a connection: app.workspace_id at each of those
  db,        \* the writes that are committed
  unit,      \* what the open calls of c have written
  count      \* calls and statements of c so far

vars == <<store, queue, pc, plain, ambient, levels, guc, db, unit, count>>

-----------------------------------------------------------------------------
TypeOK ==
  /\ store \in {"sqlite", "postgres"}
  /\ queue \in Seq(Chain)
  /\ pc \in [Chain -> {"idle", "waiting", "running", "throwing"}]
  /\ plain \in [Chain -> BOOLEAN]
  /\ ambient \in [Chain -> Seq(Workspace \cup {None})]
  /\ levels \in [Connection -> Seq(SUBSET Write)]
  /\ guc \in [Connection -> Seq(Workspace \cup {None})]
  /\ db \in SUBSET Write
  /\ unit \in [Chain -> Seq(SUBSET Write)]
  /\ count \in [Chain -> 0..MaxEvents]
  /\ store = "postgres" => \A c \in Chain : Len(ambient[c]) = Len(unit[c])

\* The connection a chain's statements go to.
ConnOf(c) == IF store = "sqlite" THEN Shared ELSE c

Top(s) == s[Len(s)]

Front(s) == SubSeq(s, 1, Len(s) - 1)

WithTop(s, x) == [s EXCEPT ![Len(s)] = x]

\* A write goes to the innermost level.
Written(s, w) == WithTop(s, Top(s) \cup {w})

\* RELEASE: the innermost level joins the one around it.
Released(s) == WithTop(Front(s), Top(Front(s)) \cup Top(s))

Counts(c) == count[c] < MaxEvents /\ count' = [count EXCEPT ![c] = @ + 1]

\* c holds the connection: its AsyncLocalStorage has a scope.
Holds(c) == pc[c] \in {"running", "throwing"}

InTransaction(c) == unit[c] # << >>

-----------------------------------------------------------------------------
(* Getting the connection.                                                 *)

\* withTransaction or withConnection on SQLite: queue behind the others.
Ask(c) ==
  /\ store = "sqlite"
  /\ pc[c] = "idle"
  /\ Counts(c)
  /\ queue' = Append(queue, c)
  /\ pc' = [pc EXCEPT ![c] = "waiting"]
  /\ \E alone \in BOOLEAN : plain' = [plain EXCEPT ![c] = alone]
  /\ UNCHANGED <<store, ambient, levels, guc, db, unit>>

\* The promise of whoever came before is resolved.
Turn(c) == queue # << >> /\ Head(queue) = c

\* acquire: the scope begins, and BEGIN unless the call is withConnection.
Acquire(c) ==
  /\ store = "sqlite"
  /\ pc[c] = "waiting"
  /\ Turn(c)
  /\ pc' = [pc EXCEPT ![c] = "running"]
  /\ IF plain[c]
       THEN UNCHANGED <<levels, unit>>
       ELSE /\ levels' = [levels EXCEPT ![Shared] = Append(@, {})]
            /\ unit' = [unit EXCEPT ![c] = Append(@, {})]
  /\ UNCHANGED <<store, queue, plain, ambient, guc, db, count>>

\* inPgTransaction outside a transaction: BEGIN on a connection of its own,
\* for a workspace or, in identity flows, for none yet.
Open(c) ==
  /\ store = "postgres"
  /\ pc[c] = "idle"
  /\ Counts(c)
  /\ pc' = [pc EXCEPT ![c] = "running"]
  /\ \E ws \in Workspace \cup {None} :
       /\ ambient' = [ambient EXCEPT ![c] = <<ws>>]
       /\ guc' = [guc EXCEPT ![c] = <<ws>>]
  /\ levels' = [levels EXCEPT ![c] = Append(@, {})]
  /\ unit' = [unit EXCEPT ![c] = Append(@, {})]
  /\ UNCHANGED <<store, queue, plain, db>>

-----------------------------------------------------------------------------
(* Inside a scope.                                                         *)

Throws(c) ==
  /\ pc' = [pc EXCEPT ![c] = "throwing"]
  /\ UNCHANGED <<store, queue, plain, ambient, levels, guc, db, unit>>

\* bindWorkspace: the same workspace, or the first one.
MayBind(c, ws) == ws = None \/ Top(ambient[c]) \in {None, ws}

\* The innermost Ambient remembers the workspace ..
Bound(s, ws) == IF ws = None THEN s ELSE WithTop(s, ws)

\* Mutant: only the Ambient learns of it.
NotInstalled(s, ws) == s

\* .. and app.workspace_id is set, until the end of the level it is set in.
Installed(s, ws) == IF ws = None THEN s ELSE WithTop(s, ws)

\* A statement of some workspace's ports, or of the identity store.
Statement(c) ==
  /\ pc[c] = "running"
  /\ Counts(c)
  /\ \E ws \in Workspace \cup {None} :
       LET w == [chain |-> c, n |-> count[c], workspace |-> ws]
       IN \/ store = "postgres" /\ ~MayBind(c, ws) /\ Throws(c)
          \/ /\ store = "postgres"
             /\ MayBind(c, ws)
             /\ ambient' = [ambient EXCEPT ![c] = Bound(@, ws)]
             /\ guc' = [guc EXCEPT ![c] = Installed(@, ws)]
             /\ levels' = [levels EXCEPT ![c] = Written(@, w)]
             /\ unit' = [unit EXCEPT ![c] = Written(@, w)]
             /\ UNCHANGED <<store, queue, pc, plain, db>>
          \/ /\ store = "sqlite"
             /\ InTransaction(c)
             /\ levels' = [levels EXCEPT ![Shared] = Written(@, w)]
             /\ unit' = [unit EXCEPT ![c] = Written(@, w)]
             /\ UNCHANGED <<store, queue, pc, plain, ambient, guc, db>>
          \/ /\ store = "sqlite"
             /\ ~InTransaction(c)
             /\ db' = db \cup {w}
             /\ UNCHANGED <<store, queue, pc, plain, ambient, levels, guc, unit>>

\* A nested ports.tx.  PostgreSQL binds the enclosing Ambient before the
\* savepoint, and gives the savepoint a copy of it.  SQLite opens the
\* transaction if the scope has none.
Nest(c) ==
  /\ pc[c] = "running"
  /\ Counts(c)
  /\ \/ /\ store = "sqlite"
        /\ levels' = [levels EXCEPT ![Shared] = Append(@, {})]
        /\ unit' = [unit EXCEPT ![c] = Append(@, {})]
        /\ UNCHANGED <<store, queue, pc, plain, ambient, guc, db>>
     \/ /\ store = "postgres"
        /\ \E ws \in Workspace :
             \/ ~MayBind(c, ws) /\ Throws(c)
             \/ /\ MayBind(c, ws)
                /\ ambient' = [ambient EXCEPT ![c] = Append(Bound(@, ws), ws)]
                /\ guc' = [guc EXCEPT ![c] = Append(Installed(@, ws), Top(Installed(@, ws)))]
                /\ levels' = [levels EXCEPT ![c] = Append(@, {})]
                /\ unit' = [unit EXCEPT ![c] = Append(@, {})]
                /\ UNCHANGED <<store, queue, pc, plain, db>>

\* The caller's code, or a statement, throws.
Raise(c) ==
  /\ pc[c] = "running"
  /\ Throws(c)
  /\ UNCHANGED count

-----------------------------------------------------------------------------
(* Leaving it.                                                             *)

\* Mutant: release is not called when the unit throws.
ReleasedOnReturn(c) == IF store = "sqlite" /\ pc[c] = "running" THEN Tail(queue) ELSE queue

\* release: the promise the next in line waits for is resolved.
Freed(c) == IF store = "sqlite" THEN Tail(queue) ELSE queue

\* The scope ends with the outermost call.
ScopeEnds(c) == pc' = [pc EXCEPT ![c] = "idle"] /\ queue' = Freed(c)

\* The innermost call is over; c goes on if a call is left around it.
Popped(c, goOn) ==
  /\ ambient' = [ambient EXCEPT ![c] = IF store = "postgres" THEN Front(@) ELSE @]
  /\ IF Len(unit[c]) > 1 \/ plain[c]
       THEN (\E where \in goOn : pc' = [pc EXCEPT ![c] = where]) /\ UNCHANGED queue
       ELSE ScopeEnds(c)
  /\ UNCHANGED <<store, plain, count>>

\* RELEASE SAVEPOINT.
Release(c) ==
  /\ pc[c] = "running"
  /\ Len(unit[c]) > 1
  /\ LET k == ConnOf(c)
     IN /\ levels' = [levels EXCEPT ![k] = Released(@)]
        /\ guc' = [guc EXCEPT ![k] = IF store = "postgres"
                                       THEN WithTop(Front(@), Top(@)) ELSE @]
  /\ unit' = [unit EXCEPT ![c] = Released(@)]
  /\ UNCHANGED db
  /\ Popped(c, {"running"})

\* Mutant: COMMIT is not sent.
Uncommitted(s) == {}

\* What COMMIT makes durable.
Committed(s) == s[1]

\* COMMIT.
Commit(c) ==
  /\ pc[c] = "running"
  /\ Len(unit[c]) = 1
  /\ LET k == ConnOf(c)
     IN /\ db' = db \cup Committed(levels[k])
        /\ levels' = [levels EXCEPT ![k] = << >>]
        /\ guc' = [guc EXCEPT ![k] = << >>]
  /\ unit' = [unit EXCEPT ![c] = << >>]
  /\ Popped(c, {"running"})

\* ROLLBACK TO a savepoint and its RELEASE, or ROLLBACK.
RolledBack(s) == Front(s)

\* The call rejects; whoever made it catches the error, or rejects too.
Rollback(c) ==
  /\ pc[c] = "throwing"
  /\ InTransaction(c)
  /\ LET k == ConnOf(c)
     IN /\ levels' = [levels EXCEPT ![k] = RolledBack(@)]
        /\ guc' = [guc EXCEPT ![k] = IF store = "postgres" THEN Front(@) ELSE @]
  /\ unit' = [unit EXCEPT ![c] = Front(@)]
  /\ UNCHANGED db
  /\ Popped(c, {"running", "throwing"})

\* A withConnection call returns or throws.
LeaveConnection(c) ==
  /\ Holds(c)
  /\ ~InTransaction(c)
  /\ ScopeEnds(c)
  /\ UNCHANGED <<store, plain, ambient, levels, guc, db, unit, count>>

-----------------------------------------------------------------------------
Init ==
  /\ store \in {"sqlite", "postgres"}
  /\ queue = << >>
  /\ pc = [c \in Chain |-> "idle"]
  /\ plain = [c \in Chain |-> FALSE]
  /\ ambient = [c \in Chain |-> << >>]
  /\ levels = [k \in Connection |-> << >>]
  /\ guc = [k \in Connection |-> << >>]
  /\ db = {}
  /\ unit = [c \in Chain |-> << >>]
  /\ count = [c \in Chain |-> 0]

Begin(c) == Ask(c) \/ Acquire(c) \/ Open(c)

Leave(c) == Release(c) \/ Commit(c) \/ Rollback(c) \/ LeaveConnection(c)

Next == \E c \in Chain : Begin(c) \/ Statement(c) \/ Nest(c) \/ Raise(c) \/ Leave(c)

Spec == Init /\ [][Next]_vars

\* A chain inside a scope awaits microtasks only, and comes to an end; a
\* chain whose turn it is runs.
FairSpec == Spec /\ \A c \in Chain : WF_vars(Acquire(c)) /\ WF_vars(Leave(c))

-----------------------------------------------------------------------------
(* Properties.                                                             *)

\* Chains that share a connection are in a scope one at a time ("While
\* request A holds it, request B waits instead of executing inside A's
\* BEGIN", sqlite-tx.ts:11).
OneHolderOnSqlite ==
  store = "sqlite" => \A c, d \in Chain : Holds(c) /\ Holds(d) => c = d

\* Level by level, the connection holds what the chain in the transaction has
\* written and nothing of another chain's, nor of a nested call that failed
\* ("its failure rolls back only its own writes", sqlite-tx.ts:84).
OwnWritesOnly ==
  \A c \in Chain : InTransaction(c) => levels[ConnOf(c)] = unit[c]

\* On PostgreSQL the workspace the call chain remembers is the one the
\* connection's row policies use, at every depth, across savepoints that are
\* released or rolled back (pg/tx.ts:41).
WorkspaceInstalled == store = "postgres" => \A c \in Chain : guc[c] = ambient[c]

\* "a request cannot act on two workspaces in one transaction" (pg/tx.ts:17).
OneWorkspaceOnPostgres ==
  store = "postgres" =>
    \A c \in Chain : \A i \in 1..Len(levels[c]) : \A w \in levels[c][i] :
      w.workspace \in {None, Top(guc[c])}

\* The types; one chain at a time on the shared connection, no writes on a
\* connection but its holder's, and what a row policy lets a statement see is one
\* workspace's, from the first statement that names it to the end.
Inv ==
  TypeOK /\ OneHolderOnSqlite /\ OwnWritesOnly /\ WorkspaceInstalled /\ OneWorkspaceOnPostgres

\* The calls of every chain are atomic units.
Units == INSTANCE AtomicUnits WITH failing <- [c \in Chain |-> pc[c] = "throwing"]
UnitsAreAtomic == Units!Spec

\* Every chain that asks for the connection gets it ("other requests wait",
\* identity.ts:15): the queue is served, even when holders throw.
EveryoneIsServed == \A c \in Chain : pc[c] = "waiting" ~> pc[c] = "running"
=============================================================================
