-------------------------- MODULE Transactions_proofs --------------------------
(***************************************************************************)
(* Theorems about TransactionScope, how requests get their transactions,   *)
(* and about RecordGraph, what the operations do in them to the rows that  *)
(* join records.                                                           *)
(*                                                                         *)
(* Of TransactionScope, for every set of chains and of workspaces and any  *)
(* number of calls: ScopesAreKept, its invariant Inv, and ScopesAreAtomic, *)
(* that it implements AtomicUnits.                                         *)
(*                                                                         *)
(* Inv is not inductive.  That two chains are never in a scope on the      *)
(* shared connection rests on the queue having each chain once and whoever *)
(* is in a scope at its head; that a level has its chain's writes only, on *)
(* what the connection holds when nobody is in a scope; that a PostgreSQL  *)
(* transaction is of one workspace, on all its levels having the same one  *)
(* as soon as it has a savepoint.  IInv says these.  All actions inside a  *)
(* scope change the chain's levels and the connection's alike, which is    *)
(* ScopeChange; ScopeStep shows once that such a step keeps IInv.          *)
(*                                                                         *)
(* Of RecordGraph, for every set of records and of operations, on any      *)
(* tables in order: RecordsInOrder, its invariant GraphInv.  That nothing  *)
(* dangles after a deletion rests on what the rows of each table join      *)
(* (RowsFit), for then the tables a hardDelete names are all that can name *)
(* the record (TablesCovered); what an operation has checked still holds   *)
(* when it writes on SQLite because nobody else is at work (ReadStands).   *)
(* GraphIInv says these.  RowsKeep shows once that a commit which keeps    *)
(* some rows, demotes others and adds rows that may come keeps GraphIInv.  *)
(***************************************************************************)
EXTENDS TransactionScope, RecordGraph, SequenceTheorems, TLAPS

-----------------------------------------------------------------------------
(* Sequences used as stacks: the levels of a transaction.                  *)

LEMMA FrontFacts ==
  ASSUME NEW S, NEW s \in Seq(S), s # << >>
  PROVE  /\ Len(s) \in Nat \ {0}
         /\ Top(s) \in S
         /\ Front(s) \in Seq(S)
         /\ Len(Front(s)) = Len(s) - 1
         /\ \A i \in 1..Len(s) - 1 : Front(s)[i] = s[i]
<1>1. Len(s) \in Nat \ {0}
  BY EmptySeq
<1>2. \A i \in 1..Len(s) : s[i] \in S
  BY ElementOfSeq
<1>3. Top(s) \in S
  BY <1>1, <1>2 DEF Top
<1>. DEFINE n == Len(s) - 1
<1>4. n \in Nat /\ \A i \in 1..n : s[i] \in S
  BY <1>1, <1>2
<1>. HIDE DEF n
<1>5. /\ SubSeq(s, 1, n) \in Seq(S)
      /\ Len(SubSeq(s, 1, n)) = IF 1 <= n THEN n - 1 + 1 ELSE 0
      /\ \A i \in 1 .. n - 1 + 1 : SubSeq(s, 1, n)[i] = s[1 + i - 1]
  BY <1>4, SubSeqProperties
<1>6. /\ SubSeq(s, 1, n) \in Seq(S)
      /\ Len(SubSeq(s, 1, n)) = n
      /\ \A i \in 1..n : SubSeq(s, 1, n)[i] = s[i]
  BY <1>4, <1>5
<1>. QED
  BY <1>1, <1>3, <1>6 DEF Front, n

LEMMA LevelTop ==
  ASSUME NEW s \in Seq(SUBSET Write), s # << >>, NEW x \in SUBSET Write
  PROVE  /\ WithTop(s, x) \in Seq(SUBSET Write)
         /\ WithTop(s, x) # << >>
         /\ Len(WithTop(s, x)) = Len(s)
         /\ WithTop(s, x)[Len(s)] = x
         /\ Top(WithTop(s, x)) = x
         /\ \A i \in 1..Len(s) - 1 : WithTop(s, x)[i] = s[i]
<1>1. Len(s) \in Nat \ {0}
  BY EmptySeq
<1>2. /\ WithTop(s, x) \in Seq(SUBSET Write)
      /\ Len(WithTop(s, x)) = Len(s)
      /\ \A j \in 1..Len(s) : WithTop(s, x)[j] = IF j = Len(s) THEN x ELSE s[j]
  BY <1>1, ExceptSeq DEF WithTop
<1>3. WithTop(s, x) # << >>
  BY <1>1, <1>2, EmptySeq
<1>. QED
  BY <1>1, <1>2, <1>3 DEF Top

LEMMA WorkspaceTop ==
  ASSUME NEW s \in Seq(Workspace \cup {None}), s # << >>, NEW x \in Workspace \cup {None}
  PROVE  /\ WithTop(s, x) \in Seq(Workspace \cup {None})
         /\ WithTop(s, x) # << >>
         /\ Len(WithTop(s, x)) = Len(s)
         /\ WithTop(s, x)[Len(s)] = x
         /\ Top(WithTop(s, x)) = x
         /\ \A i \in 1..Len(s) - 1 : WithTop(s, x)[i] = s[i]
<1>1. Len(s) \in Nat \ {0}
  BY EmptySeq
<1>2. /\ WithTop(s, x) \in Seq(Workspace \cup {None})
      /\ Len(WithTop(s, x)) = Len(s)
      /\ \A j \in 1..Len(s) : WithTop(s, x)[j] = IF j = Len(s) THEN x ELSE s[j]
  BY <1>1, ExceptSeq DEF WithTop
<1>3. WithTop(s, x) # << >>
  BY <1>1, <1>2, EmptySeq
<1>. QED
  BY <1>1, <1>2, <1>3 DEF Top

LEMMA PushFacts ==
  ASSUME NEW S, NEW s \in Seq(S), NEW x \in S
  PROVE  /\ Append(s, x) \in Seq(S)
         /\ Append(s, x) # << >>
         /\ Len(Append(s, x)) = Len(s) + 1
         /\ Append(s, x)[Len(s) + 1] = x
         /\ Top(Append(s, x)) = x
         /\ \A i \in 1..Len(s) : Append(s, x)[i] = s[i]
  BY AppendProperties DEF Top

LEMMA LevelPush ==
  ASSUME NEW s \in Seq(SUBSET Write)
  PROVE  /\ Append(s, {}) \in Seq(SUBSET Write)
         /\ Append(s, {}) # << >>
         /\ Len(Append(s, {})) = Len(s) + 1
<1>1. {} \in SUBSET Write
  OBVIOUS
<1>. QED
  BY <1>1, AppendProperties

LEMMA LengthFacts ==
  ASSUME NEW S, NEW s \in Seq(S)
  PROVE  /\ Len(s) \in Nat
         /\ DOMAIN s = 1..Len(s)
         /\ s = << >> <=> Len(s) = 0
  BY EmptySeq, LenProperties
-----------------------------------------------------------------------------
(* The inductive invariant.                                                *)

\* A chain is in the queue from asking for the connection to leaving its
\* scope, once, and in a scope at its head only.
Queued ==
  store = "sqlite" =>
    /\ \A c \in Chain : pc[c] # "idle" => \E i \in 1..Len(queue) : queue[i] = c
    /\ \A i, j \in 1..Len(queue) : queue[i] = queue[j] => i = j
    /\ \A i \in 1..Len(queue) : pc[queue[i]] # "idle"
    /\ \A c \in Chain : Holds(c) => queue # << >> /\ queue[1] = c

\* The shared connection has what the calls of the chain in the scope have
\* written, and nothing when no chain is in one.
SharedLevels ==
  store = "sqlite" =>
    /\ \A c \in Chain : InTransaction(c) => Holds(c)
    /\ \A c \in Chain : Holds(c) => levels[Shared] = unit[c]
    /\ (\A c \in Chain : ~Holds(c)) => levels[Shared] = << >>

\* A PostgreSQL connection belongs to a chain; it has a level, a workspace and
\* an Ambient for each call of it.
OwnLevels ==
  store = "postgres" =>
    \A c \in Chain :
      /\ levels[c] = unit[c]
      /\ guc[c] = ambient[c]
      /\ Len(ambient[c]) = Len(unit[c])
      /\ ~plain[c]
      /\ pc[c] # "waiting"
      /\ pc[c] = "idle" <=> unit[c] = << >>

\* A transaction without savepoints may be bound to no workspace yet; once it
\* has one, every level is of the same workspace, and so is what it has written.
Stacked(workspaces, writes) ==
  /\ \A i, j \in 1..Len(workspaces) :
       i < j => workspaces[i] = workspaces[j] /\ workspaces[i] # None
  /\ \A i \in 1..Len(writes) : \A w \in writes[i] : w.workspace \in {None, workspaces[i]}

WorkspaceByLevel ==
  store = "postgres" => \A c \in Chain : Stacked(ambient[c], unit[c])

IInv == TypeOK /\ Queued /\ SharedLevels /\ OwnLevels /\ WorkspaceByLevel

LEMMA InvFromIInv == IInv => Inv
<1>. SUFFICES ASSUME IInv PROVE Inv
  OBVIOUS
<1>0. /\ Queued /\ SharedLevels /\ OwnLevels /\ WorkspaceByLevel
      /\ store \in {"sqlite", "postgres"}
      /\ ambient \in [Chain -> Seq(Workspace \cup {None})]
  BY DEF IInv, TypeOK
<1>1. OneHolderOnSqlite
  <2>. SUFFICES ASSUME store = "sqlite", NEW c \in Chain, NEW d \in Chain, Holds(c), Holds(d)
                PROVE  c = d
    BY DEF OneHolderOnSqlite
  <2>. QED
    BY <1>0 DEF Queued
<1>2. OwnWritesOnly
  BY <1>0 DEF SharedLevels, OwnLevels, OwnWritesOnly, ConnOf, InTransaction
<1>3. WorkspaceInstalled
  BY <1>0 DEF OwnLevels, WorkspaceInstalled
<1>4. OneWorkspaceOnPostgres
  <2>. SUFFICES ASSUME store = "postgres", NEW c \in Chain, NEW i \in 1..Len(levels[c]),
                       NEW w \in levels[c][i]
                PROVE  w.workspace \in {None, Top(guc[c])}
    BY DEF OneWorkspaceOnPostgres
  <2>1. /\ levels[c] = unit[c] /\ guc[c] = ambient[c] /\ Len(ambient[c]) = Len(unit[c])
    BY <1>0 DEF OwnLevels
  <2>2. w.workspace \in {None, ambient[c][i]}
    BY <1>0, <2>1 DEF WorkspaceByLevel, Stacked
  <2>3. ambient[c] \in Seq(Workspace \cup {None})
    BY <1>0
  <2>4. Len(ambient[c]) \in Nat
    BY <2>3, LengthFacts
  <2>5. i = Len(ambient[c]) \/ ambient[c][i] \in {None, ambient[c][Len(ambient[c])]}
    BY <1>0, <2>1, <2>4 DEF WorkspaceByLevel, Stacked
  <2>. QED
    BY <2>1, <2>2, <2>5 DEF Top
<1>. QED
  BY <1>1, <1>2, <1>3, <1>4 DEF Inv, IInv

LEMMA InitIInv == Init => IInv
<1>. SUFFICES ASSUME Init PROVE IInv
  OBVIOUS
<1>. USE DEF Init
<1>1. /\ << >> \in Seq(Chain) /\ << >> \in Seq(SUBSET Write)
      /\ << >> \in Seq(Workspace \cup {None}) /\ Len(<< >>) = 0
  BY EmptySeq
<1>2. TypeOK
  BY <1>1, ScopeAssumption DEF TypeOK
<1>3. Queued /\ SharedLevels
  BY <1>1, ScopeAssumption DEF Queued, SharedLevels, Holds, InTransaction, Connection
<1>4. OwnLevels /\ WorkspaceByLevel
  BY <1>1 DEF OwnLevels, WorkspaceByLevel, Stacked, Connection
<1>. QED
  BY <1>2, <1>3, <1>4 DEF IInv
-----------------------------------------------------------------------------
(* The steps of a chain that is in a scope, or opens one of its own.       *)

Where == {"idle", "waiting", "running", "throwing"}

LEMMA QueueKept ==
  ASSUME queue \in Seq(Chain), pc \in [Chain -> Where], Queued, store' = store,
         NEW c \in Chain, store = "sqlite" => Holds(c),
         NEW w \in Where \ {"waiting"}, pc' = [pc EXCEPT ![c] = w],
         queue' = IF w = "idle" THEN Freed(c) ELSE queue
  PROVE  Queued' /\ queue' \in Seq(Chain)
<1>1. CASE store # "sqlite"
  BY <1>1 DEF Queued, Freed
<1>2. CASE store = "sqlite" /\ w # "idle"
  <2>1. queue' = queue /\ pc[c] # "idle"
    BY <1>2 DEF Holds
  <2>2. \A d \in Chain : (pc'[d] = "idle" <=> pc[d] = "idle") /\ (Holds(d)' <=> Holds(d))
    BY <1>2, <2>1 DEF Holds, Where
  <2>3. \A i \in 1..Len(queue) : queue[i] \in Chain
    BY ElementOfSeq
  <2>. QED
    BY <1>2, <2>1, <2>2, <2>3 DEF Queued
<1>3. CASE store = "sqlite" /\ w = "idle"
  <2>1. queue # << >> /\ queue[1] = c /\ queue' = Tail(queue)
    BY <1>3 DEF Queued, Freed
  <2>2. Len(queue) \in Nat \ {0}
    BY <2>1, EmptySeq
  <2>3. /\ queue' \in Seq(Chain) /\ Len(queue') = Len(queue) - 1
        /\ \A i \in 1..Len(queue) - 1 : queue'[i] = queue[i + 1]
    BY <2>1, HeadTailProperties
  <2>4. \A i \in 1..Len(queue) : queue[i] \in Chain
    BY ElementOfSeq
  <2>5. \A i, j \in 1..Len(queue) : queue[i] = queue[j] => i = j
    BY <1>3 DEF Queued
  <2>6. \A d \in Chain : pc'[d] # "idle" => \E i \in 1..Len(queue') : queue'[i] = d
    <3>. SUFFICES ASSUME NEW d \in Chain, pc'[d] # "idle"
                  PROVE  \E i \in 1..Len(queue') : queue'[i] = d
      OBVIOUS
    <3>1. d # c /\ pc[d] # "idle"
      BY <1>3
    <3>2. PICK i \in 1..Len(queue) : queue[i] = d
      BY <1>3, <3>1 DEF Queued
    <3>3. i # 1
      BY <2>1, <3>1, <3>2
    <3>4. i - 1 \in 1..Len(queue') /\ queue'[i - 1] = d
      BY <2>2, <2>3, <3>2, <3>3
    <3>. QED
      BY <3>4
  <2>7. \A i, j \in 1..Len(queue') : queue'[i] = queue'[j] => i = j
    BY <2>2, <2>3, <2>5
  <2>8. \A i \in 1..Len(queue') : pc'[queue'[i]] # "idle"
    <3>. SUFFICES ASSUME NEW i \in 1..Len(queue') PROVE pc'[queue'[i]] # "idle"
      OBVIOUS
    <3>1. i + 1 \in 1..Len(queue) /\ queue'[i] = queue[i + 1] /\ i + 1 # 1
      BY <2>2, <2>3
    <3>2. queue[i + 1] # c
      BY <2>1, <2>2, <2>5, <3>1
    <3>3. pc[queue[i + 1]] # "idle"
      BY <1>3, <3>1 DEF Queued
    <3>. QED
      BY <2>4, <3>1, <3>2, <3>3
  <2>9. \A d \in Chain : ~Holds(d)'
    BY <1>3, <2>1 DEF Queued, Holds
  <2>. QED
    BY <2>3, <2>6, <2>7, <2>8, <2>9 DEF Queued
<1>. QED
  BY <1>1, <1>2, <1>3

\* What they have in common: the chain's levels and the connection's change
\* alike, and the chain goes from the queue with its outermost call.
ScopeChange(c) ==
  /\ IF store = "sqlite" THEN Holds(c) ELSE ~plain[c]
  /\ store' = store /\ plain' = plain
  /\ count' \in [Chain -> 0..MaxEvents] /\ db' \in SUBSET Write
  /\ unit'[c] \in Seq(SUBSET Write)
  /\ unit' = [unit EXCEPT ![c] = unit'[c]]
  /\ levels' = [levels EXCEPT ![ConnOf(c)] = unit'[c]]
  /\ ambient'[c] \in Seq(Workspace \cup {None})
  /\ ambient' = [ambient EXCEPT ![c] = ambient'[c]]
  /\ guc' \in [Connection -> Seq(Workspace \cup {None})]
  /\ pc'[c] \in {"idle", "running", "throwing"}
  /\ pc' = [pc EXCEPT ![c] = pc'[c]]
  /\ queue' = IF pc'[c] = "idle" THEN Freed(c) ELSE queue
  /\ pc'[c] = "idle" => unit'[c] = << >>
  /\ store = "postgres" =>
       /\ guc' = [guc EXCEPT ![c] = ambient'[c]]
       /\ Len(ambient'[c]) = Len(unit'[c])
       /\ Stacked(ambient'[c], unit'[c])
       /\ pc'[c] = "idle" <=> unit'[c] = << >>

LEMMA ScopeStep == ASSUME IInv, NEW c \in Chain, ScopeChange(c) PROVE IInv'
<1>. DEFINE L == unit'[c]
            G == ambient'[c]
            w == pc'[c]
<1>0. /\ store' = store /\ plain' = plain
      /\ IF store = "sqlite" THEN Holds(c) ELSE ~plain[c]
      /\ count' \in [Chain -> 0..MaxEvents] /\ db' \in SUBSET Write
      /\ L \in Seq(SUBSET Write) /\ G \in Seq(Workspace \cup {None})
      /\ w \in Where \ {"waiting"}
      /\ levels' = [levels EXCEPT ![ConnOf(c)] = L]
      /\ unit' = [unit EXCEPT ![c] = L]
      /\ ambient' = [ambient EXCEPT ![c] = G]
      /\ guc' \in [Connection -> Seq(Workspace \cup {None})]
      /\ store = "postgres" => guc' = [guc EXCEPT ![c] = G]
      /\ pc' = [pc EXCEPT ![c] = w]
      /\ queue' = IF w = "idle" THEN Freed(c) ELSE queue
      /\ w = "idle" => L = << >>
      /\ store = "postgres" => Len(G) = Len(L) /\ Stacked(G, L) /\ (w = "idle" <=> L = << >>)
  BY DEF ScopeChange, Where
<1>. HIDE DEF L, G, w
<1>1. /\ Queued /\ SharedLevels /\ OwnLevels /\ WorkspaceByLevel
      /\ store \in {"sqlite", "postgres"}
      /\ queue \in Seq(Chain)
      /\ pc \in [Chain -> Where]
      /\ plain \in [Chain -> BOOLEAN]
      /\ ambient \in [Chain -> Seq(Workspace \cup {None})]
      /\ levels \in [Connection -> Seq(SUBSET Write)]
      /\ guc \in [Connection -> Seq(Workspace \cup {None})]
      /\ unit \in [Chain -> Seq(SUBSET Write)]
  BY DEF IInv, TypeOK, Where
<1>2. ConnOf(c) \in Connection /\ c \in Connection /\ Shared \in Connection /\ Shared # c
  BY ScopeAssumption DEF ConnOf, Connection
<1>3. Queued' /\ queue' \in Seq(Chain)
  <2>1. store = "sqlite" => Holds(c)
    BY <1>0
  <2>. QED
    BY <1>0, <1>1, <2>1, QueueKept
<1>4. /\ levels' \in [Connection -> Seq(SUBSET Write)]
      /\ unit' \in [Chain -> Seq(SUBSET Write)]
      /\ ambient' \in [Chain -> Seq(Workspace \cup {None})]
      /\ pc' \in [Chain -> Where]
  BY <1>0, <1>1, <1>2
<1>5. SharedLevels'
  <2>. SUFFICES ASSUME store = "sqlite" PROVE SharedLevels'
    BY <1>0, <1>1 DEF SharedLevels
  <2>0. Holds(c)
    BY <1>0
  <2>1. Holds(c) /\ \A d \in Chain : Holds(d) => d = c
    <3>. SUFFICES ASSUME NEW d \in Chain, Holds(d) PROVE d = c
      BY <2>0
    <3>1. queue[1] = c /\ queue[1] = d
      BY <1>1, <2>0 DEF Queued
    <3>. QED
      BY <3>1
  <2>2. \A d \in Chain : Holds(d)' => d = c
    BY <1>0, <1>1, <2>1 DEF Holds
  <2>3. \A d \in Chain \ {c} : unit'[d] = << >>
    BY <1>0, <1>1, <2>1 DEF SharedLevels, InTransaction
  <2>4. unit'[c] = L /\ levels'[Shared] = L
    BY <1>0, <1>1, <1>2 DEF ConnOf
  <2>5. Holds(c)' \/ L = << >>
    BY <1>0, <1>1 DEF Holds, Where
  <2>. QED
    BY <2>2, <2>3, <2>4, <2>5 DEF SharedLevels, InTransaction
<1>6. OwnLevels' /\ WorkspaceByLevel'
  <2>. SUFFICES ASSUME store = "postgres" PROVE OwnLevels' /\ WorkspaceByLevel'
    BY <1>0, <1>1 DEF OwnLevels, WorkspaceByLevel
  <2>1. /\ levels' = [levels EXCEPT ![c] = L]
        /\ ambient' = [ambient EXCEPT ![c] = G]
        /\ guc' = [guc EXCEPT ![c] = G]
    BY <1>0 DEF ConnOf
  <2>2. \A d \in Chain : d \in Connection
    BY DEF Connection
  <2>3. OwnLevels'
    <3>. SUFFICES ASSUME NEW d \in Chain
                  PROVE  /\ levels'[d] = unit'[d]
                         /\ guc'[d] = ambient'[d]
                         /\ Len(ambient'[d]) = Len(unit'[d])
                         /\ ~plain'[d]
                         /\ pc'[d] # "waiting"
                         /\ pc'[d] = "idle" <=> unit'[d] = << >>
      BY DEF OwnLevels
    <3>1. CASE d = c
      BY <1>0, <1>1, <2>1, <2>2, <3>1
    <3>2. CASE d # c
      BY <1>0, <1>1, <2>1, <2>2, <3>2 DEF OwnLevels
    <3>. QED
      BY <3>1, <3>2
  <2>4. \A d \in Chain : Stacked(ambient'[d], unit'[d])
    <3>. SUFFICES ASSUME NEW d \in Chain PROVE Stacked(ambient'[d], unit'[d])
      OBVIOUS
    <3>1. CASE d = c
      BY <1>0, <1>1, <2>1, <3>1
    <3>2. CASE d # c
      BY <1>0, <1>1, <2>1, <3>2 DEF WorkspaceByLevel
    <3>. QED
      BY <3>1, <3>2
  <2>. QED
    BY <2>3, <2>4 DEF WorkspaceByLevel
<1>7. TypeOK'
  <2>1. store' = "postgres" => \A d \in Chain : Len(ambient'[d]) = Len(unit'[d])
    BY <1>6 DEF OwnLevels
  <2>. QED
    BY <1>0, <1>1, <1>3, <1>4, <2>1 DEF TypeOK, Where
<1>. QED
  BY <1>3, <1>5, <1>6, <1>7 DEF IInv

LEMMA StackedBind ==
  ASSUME NEW G \in Seq(Workspace \cup {None}), NEW L \in Seq(SUBSET Write),
         G # << >>, Len(G) = Len(L), Stacked(G, L),
         NEW ws \in Workspace \cup {None}, ws = None \/ Top(G) \in {None, ws}
  PROVE  /\ Bound(G, ws) \in Seq(Workspace \cup {None})
         /\ Bound(G, ws) # << >>
         /\ Len(Bound(G, ws)) = Len(L)
         /\ Stacked(Bound(G, ws), L)
         /\ ws # None => Top(Bound(G, ws)) = ws
         /\ Installed(G, ws) = Bound(G, ws)
<1>1. CASE ws = None
  BY <1>1 DEF Bound, Installed
<1>2. CASE ws # None
  <2>. DEFINE H == WithTop(G, ws)
  <2>1. Bound(G, ws) = H /\ Installed(G, ws) = H
    BY <1>2 DEF Bound, Installed
  <2>2. /\ H \in Seq(Workspace \cup {None}) /\ H # << >> /\ Len(H) = Len(G)
        /\ H[Len(G)] = ws /\ Top(H) = ws
        /\ \A i \in 1..Len(G) - 1 : H[i] = G[i]
    BY WorkspaceTop
  <2>. HIDE DEF H
  <2>3. Len(G) \in Nat \ {0} /\ G[Len(G)] \in {None, ws}
    BY <1>2, FrontFacts DEF Top
  <2>4. \A i, j \in 1..Len(H) : i < j => H[i] = H[j] /\ H[i] # None
    <3>. SUFFICES ASSUME NEW i \in 1..Len(H), NEW j \in 1..Len(H), i < j
                  PROVE  H[i] = H[j] /\ H[i] # None
      OBVIOUS
    <3>1. i \in 1..Len(G) - 1 /\ H[i] = G[i]
      BY <2>2, <2>3
    <3>2. G[i] = G[Len(G)] /\ G[i] # None
      BY <2>3, <3>1 DEF Stacked
    <3>3. H[i] = ws
      BY <2>3, <3>1, <3>2
    <3>4. H[j] = ws
      <4>1. CASE j = Len(G)
        BY <2>2, <4>1
      <4>2. CASE j # Len(G)
        <5>1. j \in 1..Len(G) - 1 /\ H[j] = G[j]
          BY <2>2, <2>3, <4>2
        <5>2. G[j] = G[Len(G)] /\ G[j] # None
          BY <2>3, <5>1 DEF Stacked
        <5>. QED
          BY <2>3, <5>1, <5>2
      <4>. QED
        BY <4>1, <4>2
    <3>. QED
      BY <1>2, <3>3, <3>4
  <2>5. \A i \in 1..Len(L) : \A w \in L[i] : w.workspace \in {None, H[i]}
    <3>. SUFFICES ASSUME NEW i \in 1..Len(L), NEW w \in L[i]
                  PROVE  w.workspace \in {None, H[i]}
      OBVIOUS
    <3>1. w.workspace \in {None, G[i]}
      BY DEF Stacked
    <3>2. i = Len(G) \/ i \in 1..Len(G) - 1
      BY <2>3
    <3>. QED
      BY <2>2, <2>3, <3>1, <3>2
  <2>. QED
    BY <1>2, <2>1, <2>2, <2>4, <2>5 DEF Stacked
<1>. QED
  BY <1>1, <1>2

LEMMA StackedWrite ==
  ASSUME NEW G \in Seq(Workspace \cup {None}), NEW L \in Seq(SUBSET Write),
         L # << >>, Len(G) = Len(L), Stacked(G, L),
         NEW w \in Write, w.workspace \in {None, Top(G)}
  PROVE  Stacked(G, Written(L, w))
<1>. DEFINE M == WithTop(L, Top(L) \cup {w})
<1>1. Len(L) \in Nat \ {0} /\ Top(L) \in SUBSET Write
  BY FrontFacts
<1>2. Top(L) \cup {w} \in SUBSET Write
  BY <1>1
<1>3. /\ Len(M) = Len(L) /\ M[Len(L)] = Top(L) \cup {w}
      /\ \A i \in 1..Len(L) - 1 : M[i] = L[i]
  BY <1>2, LevelTop
<1>. HIDE DEF M
<1>4. \A i \in 1..Len(M) : \A v \in M[i] : v.workspace \in {None, G[i]}
  <2>. SUFFICES ASSUME NEW i \in 1..Len(M), NEW v \in M[i]
                PROVE  v.workspace \in {None, G[i]}
    OBVIOUS
  <2>1. CASE i \in 1..Len(L) - 1
    BY <1>1, <1>3, <2>1 DEF Stacked
  <2>2. CASE i = Len(L)
    BY <1>1, <1>3, <2>2 DEF Stacked, Top
  <2>. QED
    BY <1>1, <1>3, <2>1, <2>2
<1>. QED
  BY <1>4 DEF Stacked, Written, M

LEMMA StackedPush ==
  ASSUME NEW G \in Seq(Workspace \cup {None}), NEW L \in Seq(SUBSET Write),
         G # << >>, Len(G) = Len(L), Stacked(G, L), NEW ws \in Workspace, Top(G) = ws
  PROVE  Stacked(Append(G, ws), Append(L, {}))
<1>. DEFINE H == Append(G, ws)
            M == Append(L, {})
<1>1. Len(G) \in Nat \ {0} /\ G[Len(G)] = ws /\ ws # None
  BY FrontFacts, ScopeAssumption DEF Top
<1>2. /\ Len(H) = Len(G) + 1 /\ H[Len(G) + 1] = ws
      /\ \A i \in 1..Len(G) : H[i] = G[i]
  BY PushFacts
<1>3. /\ Len(M) = Len(L) + 1 /\ M[Len(L) + 1] = {}
      /\ \A i \in 1..Len(L) : M[i] = L[i]
  BY PushFacts
<1>. HIDE DEF H, M
<1>4. \A i \in 1..Len(H) : H[i] = ws
  <2>1. \A i \in 1..Len(G) : G[i] = ws
    BY <1>1 DEF Stacked
  <2>. QED
    BY <1>1, <1>2, <2>1
<1>5. \A i \in 1..Len(M) : \A w \in M[i] : w.workspace \in {None, H[i]}
  BY <1>1, <1>2, <1>3 DEF Stacked
<1>. QED
  BY <1>1, <1>4, <1>5 DEF Stacked, H, M

LEMMA StackedPop ==
  ASSUME NEW G \in Seq(Workspace \cup {None}), NEW L \in Seq(SUBSET Write),
         L # << >>, Len(G) = Len(L), Stacked(G, L)
  PROVE  /\ G # << >>
         /\ Stacked(Front(G), Front(L))
         /\ Len(Front(G)) = Len(Front(L))
<1>1. Len(L) \in Nat \ {0} /\ G # << >>
  BY LengthFacts
<1>2. /\ Len(Front(G)) = Len(G) - 1 /\ \A i \in 1..Len(G) - 1 : Front(G)[i] = G[i]
      /\ Len(Front(L)) = Len(L) - 1 /\ \A i \in 1..Len(L) - 1 : Front(L)[i] = L[i]
  BY <1>1, FrontFacts
<1>. QED
  BY <1>1, <1>2 DEF Stacked

LEMMA StackedRelease ==
  ASSUME NEW G \in Seq(Workspace \cup {None}), NEW L \in Seq(SUBSET Write),
         Len(L) > 1, Len(G) = Len(L), Stacked(G, L)
  PROVE  /\ Released(L) \in Seq(SUBSET Write)
         /\ Released(L) # << >>
         /\ Len(Released(L)) = Len(L) - 1
         /\ Stacked(Front(G), Released(L))
         /\ WithTop(Front(G), Top(G)) = Front(G)
<1>1. Len(L) \in Nat /\ L # << >> /\ G # << >>
  BY LengthFacts
<1>. DEFINE n == Len(L) - 1
            F == Front(L)
            H == Front(G)
            M == WithTop(F, Top(F) \cup Top(L))
<1>2. n \in Nat \ {0} /\ Len(G) = n + 1 /\ Len(L) = n + 1
  BY <1>1
<1>3. /\ H \in Seq(Workspace \cup {None}) /\ Len(H) = n /\ \A i \in 1..n : H[i] = G[i]
      /\ F \in Seq(SUBSET Write) /\ Len(F) = n /\ \A i \in 1..n : F[i] = L[i]
      /\ Top(L) \in SUBSET Write
  BY <1>1, FrontFacts
<1>. HIDE DEF n, F, H
<1>4. F # << >> /\ H # << >> /\ Top(F) = L[n] /\ Top(H) = G[n] /\ Top(L) = L[n + 1] /\ Top(G) = G[n + 1]
  BY <1>2, <1>3, LengthFacts DEF Top
<1>5. Top(F) \cup Top(L) \in SUBSET Write
  BY <1>3, <1>4, FrontFacts
<1>6. /\ M \in Seq(SUBSET Write) /\ M # << >> /\ Len(M) = n /\ M[n] = Top(F) \cup Top(L)
      /\ \A i \in 1..n - 1 : M[i] = F[i]
  <2>1. F \in Seq(SUBSET Write) /\ F # << >> /\ Len(F) = n
    BY <1>3, <1>4
  <2>. DEFINE x == Top(F) \cup Top(L)
  <2>2. x \in SUBSET Write
    BY <1>5
  <2>. HIDE DEF x
  <2>3. /\ WithTop(F, x) \in Seq(SUBSET Write) /\ WithTop(F, x) # << >>
        /\ Len(WithTop(F, x)) = Len(F) /\ WithTop(F, x)[Len(F)] = x
        /\ \A i \in 1..Len(F) - 1 : WithTop(F, x)[i] = F[i]
    BY <2>1, <2>2, LevelTop
  <2>. QED
    BY <2>1, <2>3 DEF x
<1>. HIDE DEF M
<1>7. G[n] = G[n + 1] /\ \A i, j \in 1..n : i < j => G[i] = G[j] /\ G[i] # None
  BY <1>2 DEF Stacked
<1>8. \A i \in 1..Len(H), j \in 1..Len(H) : i < j => H[i] = H[j] /\ H[i] # None
  BY <1>3, <1>7
<1>9. \A i \in 1..Len(M) : \A w \in M[i] : w.workspace \in {None, H[i]}
  <2>. SUFFICES ASSUME NEW i \in 1..n, NEW w \in M[i] PROVE w.workspace \in {None, H[i]}
    BY <1>6
  <2>0. \A k \in 1..n + 1 : \A v \in L[k] : v.workspace \in {None, G[k]}
    BY <1>2 DEF Stacked
  <2>1. CASE i = n
    BY <1>2, <1>3, <1>4, <1>6, <1>7, <2>0, <2>1
  <2>2. CASE i # n
    <3>1. i \in 1..n - 1 /\ w \in L[i] /\ H[i] = G[i]
      BY <1>2, <1>3, <1>6, <2>2
    <3>. QED
      BY <1>2, <2>0, <3>1
  <2>. QED
    BY <2>1, <2>2
<1>10. WithTop(H, Top(G)) = H
  BY <1>2, <1>3, <1>4, <1>7 DEF WithTop
<1>. QED
  BY <1>2, <1>6, <1>8, <1>9, <1>10 DEF Stacked, Released, M, F, H, n
-----------------------------------------------------------------------------
(* One lemma for each action.                                              *)

\* What the invariant says of a chain that is in a scope.
LEMMA InScope ==
  ASSUME IInv, NEW c \in Chain, Holds(c)
  PROVE  /\ store \in {"sqlite", "postgres"}
         /\ pc \in [Chain -> Where] /\ queue \in Seq(Chain)
         /\ plain \in [Chain -> BOOLEAN]
         /\ count \in [Chain -> 0..MaxEvents] /\ db \in SUBSET Write
         /\ unit \in [Chain -> Seq(SUBSET Write)]
         /\ levels \in [Connection -> Seq(SUBSET Write)]
         /\ ambient \in [Chain -> Seq(Workspace \cup {None})]
         /\ guc \in [Connection -> Seq(Workspace \cup {None})]
         /\ ConnOf(c) \in Connection /\ c \in Connection
         /\ levels[ConnOf(c)] = unit[c]
         /\ IF store = "sqlite" THEN Holds(c) ELSE ~plain[c]
         /\ store = "postgres" =>
              /\ unit[c] # << >> /\ ambient[c] # << >> /\ ConnOf(c) = c
              /\ guc[c] = ambient[c]
              /\ Len(ambient[c]) = Len(unit[c])
              /\ Stacked(ambient[c], unit[c])
<1>1. /\ store \in {"sqlite", "postgres"}
      /\ pc \in [Chain -> Where] /\ queue \in Seq(Chain)
      /\ plain \in [Chain -> BOOLEAN]
      /\ count \in [Chain -> 0..MaxEvents] /\ db \in SUBSET Write
      /\ unit \in [Chain -> Seq(SUBSET Write)]
      /\ levels \in [Connection -> Seq(SUBSET Write)]
      /\ ambient \in [Chain -> Seq(Workspace \cup {None})]
      /\ guc \in [Connection -> Seq(Workspace \cup {None})]
  BY DEF IInv, TypeOK, Where
<1>2. SharedLevels /\ OwnLevels /\ WorkspaceByLevel
  BY DEF IInv
<1>3. c \in Connection /\ ConnOf(c) \in Connection
  BY DEF Connection, ConnOf
<1>4. CASE store = "sqlite"
  BY <1>1, <1>2, <1>3, <1>4 DEF SharedLevels, ConnOf
<1>5. CASE store = "postgres"
  <2>1. /\ levels[c] = unit[c] /\ guc[c] = ambient[c] /\ Len(ambient[c]) = Len(unit[c])
        /\ ~plain[c] /\ unit[c] # << >>
    BY <1>2, <1>5 DEF OwnLevels, Holds
  <2>2. ambient[c] # << >>
    BY <1>1, <2>1, LengthFacts
  <2>3. Stacked(ambient[c], unit[c])
    BY <1>2, <1>5 DEF WorkspaceByLevel
  <2>. QED
    BY <1>1, <1>3, <1>5, <2>1, <2>2, <2>3 DEF ConnOf
<1>. QED
  BY <1>1, <1>4, <1>5

LEMMA CountsType ==
  ASSUME count \in [Chain -> 0..MaxEvents], NEW c \in Chain, Counts(c)
  PROVE  count' \in [Chain -> 0..MaxEvents] /\ count[c] \in 0..MaxEvents
  BY ScopeAssumption DEF Counts

LEMMA AskKeeps == ASSUME IInv, NEW c \in Chain, Ask(c) PROVE IInv'
<1>1. /\ store = "sqlite" /\ store' = store /\ pc[c] = "idle"
      /\ queue' = Append(queue, c) /\ pc' = [pc EXCEPT ![c] = "waiting"]
      /\ plain' \in [Chain -> BOOLEAN]
      /\ UNCHANGED <<ambient, levels, guc, db, unit>>
  BY DEF Ask, IInv, TypeOK
<1>2. count' \in [Chain -> 0..MaxEvents]
  BY CountsType DEF Ask, IInv, TypeOK
<1>3. /\ queue \in Seq(Chain) /\ pc \in [Chain -> Where]
      /\ Queued /\ SharedLevels
  BY DEF IInv, TypeOK, Where
<1>4. /\ queue' \in Seq(Chain) /\ queue' # << >> /\ Len(queue') = Len(queue) + 1
      /\ queue'[Len(queue) + 1] = c
      /\ \A i \in 1..Len(queue) : queue'[i] = queue[i]
  BY <1>1, <1>3, PushFacts
<1>5. Len(queue) \in Nat /\ \A i \in 1..Len(queue) : queue[i] \in Chain /\ queue[i] # c
  BY <1>1, <1>3, LengthFacts, ElementOfSeq DEF Queued
<1>6. \A d \in Chain : Holds(d)' <=> Holds(d)
  BY <1>1, <1>3 DEF Holds, Where
<1>7. Queued'
  <2>1. \A d \in Chain : pc'[d] # "idle" => \E i \in 1..Len(queue') : queue'[i] = d
    <3>. SUFFICES ASSUME NEW d \in Chain, pc'[d] # "idle"
                  PROVE  \E i \in 1..Len(queue') : queue'[i] = d
      OBVIOUS
    <3>1. CASE d = c
      <4>1. Len(queue) + 1 \in 1..Len(queue')
        BY <1>4, <1>5
      <4>. QED
        BY <1>4, <3>1, <4>1
    <3>2. CASE d # c
      <4>1. PICK i \in 1..Len(queue) : queue[i] = d
        BY <1>1, <1>3, <3>2 DEF Queued
      <4>2. i \in 1..Len(queue') /\ queue'[i] = d
        BY <1>4, <1>5, <4>1
      <4>. QED
        BY <4>2
    <3>. QED
      BY <3>1, <3>2
  <2>2. \A i, j \in 1..Len(queue') : queue'[i] = queue'[j] => i = j
    <3>. SUFFICES ASSUME NEW i \in 1..Len(queue'), NEW j \in 1..Len(queue'),
                         queue'[i] = queue'[j], i # j
                  PROVE  FALSE
      OBVIOUS
    <3>1. \A k \in 1..Len(queue') : k \in 1..Len(queue) \/ k = Len(queue) + 1
      BY <1>4, <1>5
    <3>2. CASE i \in 1..Len(queue) /\ j \in 1..Len(queue)
      BY <1>1, <1>3, <1>4, <3>2 DEF Queued
    <3>3. CASE i = Len(queue) + 1 \/ j = Len(queue) + 1
      BY <1>4, <1>5, <3>1, <3>3
    <3>. QED
      BY <3>1, <3>2, <3>3
  <2>3. \A i \in 1..Len(queue') : pc'[queue'[i]] # "idle"
    <3>. SUFFICES ASSUME NEW i \in 1..Len(queue') PROVE pc'[queue'[i]] # "idle"
      OBVIOUS
    <3>1. CASE i = Len(queue) + 1
      BY <1>1, <1>3, <1>4, <3>1
    <3>2. CASE i \in 1..Len(queue)
      <4>1. queue'[i] = queue[i] /\ queue[i] \in Chain /\ queue[i] # c
        BY <1>4, <1>5, <3>2
      <4>2. pc[queue[i]] # "idle"
        BY <1>1, <1>3, <3>2 DEF Queued
      <4>. QED
        BY <1>1, <1>3, <4>1, <4>2
    <3>. QED
      BY <1>4, <1>5, <3>1, <3>2
  <2>4. \A d \in Chain : Holds(d)' => queue' # << >> /\ queue'[1] = d
    <3>. SUFFICES ASSUME NEW d \in Chain, Holds(d) PROVE queue'[1] = d
      BY <1>4, <1>6
    <3>1. queue # << >> /\ queue[1] = d
      BY <1>1, <1>3 DEF Queued
    <3>2. 1 \in 1..Len(queue)
      BY <1>3, <1>5, <3>1, LengthFacts
    <3>. QED
      BY <1>4, <3>1, <3>2
  <2>. QED
    BY <2>1, <2>2, <2>3, <2>4 DEF Queued
<1>8. SharedLevels'
  BY <1>1, <1>3, <1>6 DEF SharedLevels, InTransaction
<1>9. OwnLevels' /\ WorkspaceByLevel'
  BY <1>1 DEF OwnLevels, WorkspaceByLevel
<1>10. TypeOK'
  BY <1>1, <1>2, <1>4 DEF IInv, TypeOK
<1>. QED
  BY <1>7, <1>8, <1>9, <1>10 DEF IInv

LEMMA AcquireKeeps == ASSUME IInv, NEW c \in Chain, Acquire(c) PROVE IInv'
<1>1. /\ store = "sqlite" /\ store' = store /\ pc[c] = "waiting" /\ Head(queue) = c
      /\ queue # << >> /\ pc' = [pc EXCEPT ![c] = "running"]
      /\ IF plain[c]
           THEN UNCHANGED <<levels, unit>>
           ELSE /\ levels' = [levels EXCEPT ![Shared] = Append(@, {})]
                /\ unit' = [unit EXCEPT ![c] = Append(@, {})]
      /\ UNCHANGED <<queue, plain, ambient, guc, db, count>>
  BY DEF Acquire, Turn
<1>2. /\ queue \in Seq(Chain) /\ pc \in [Chain -> Where]
      /\ levels \in [Connection -> Seq(SUBSET Write)]
      /\ unit \in [Chain -> Seq(SUBSET Write)]
      /\ Queued /\ SharedLevels
  BY DEF IInv, TypeOK, Where
<1>3. queue[1] = c
  BY <1>1, <1>2
<1>4. \A d \in Chain : ~Holds(d)
  BY <1>1, <1>2, <1>3 DEF Queued, Holds
<1>5. levels[Shared] = << >> /\ \A d \in Chain : unit[d] = << >>
  BY <1>1, <1>2, <1>4 DEF SharedLevels, InTransaction
<1>6. Shared \in Connection /\ {} \in SUBSET Write
  BY DEF Connection
<1>7. /\ levels' \in [Connection -> Seq(SUBSET Write)]
      /\ unit' \in [Chain -> Seq(SUBSET Write)]
  <2>1. Append(<< >>, {}) \in Seq(SUBSET Write)
    BY <1>6, EmptySeq, PushFacts
  <2>. QED
    BY <1>1, <1>2, <1>5, <1>6, <2>1
<1>8. levels'[Shared] = unit'[c] /\ \A d \in Chain \ {c} : unit'[d] = << >>
  <2>1. CASE plain[c]
    BY <1>1, <1>5, <2>1
  <2>2. CASE ~plain[c]
    <3>1. levels'[Shared] = Append(levels[Shared], {})
      BY <1>1, <1>2, <1>6, <2>2
    <3>2. unit'[c] = Append(unit[c], {}) /\ \A d \in Chain \ {c} : unit'[d] = unit[d]
      BY <1>1, <1>2, <2>2
    <3>. QED
      BY <1>5, <3>1, <3>2
  <2>. QED
    BY <2>1, <2>2
<1>9. Holds(c)' /\ \A d \in Chain : Holds(d)' => d = c
  BY <1>1, <1>2, <1>4 DEF Holds
<1>10. Queued'
  <2>1. \A d \in Chain : pc'[d] = "idle" <=> pc[d] = "idle"
    BY <1>1, <1>2
  <2>2. \A i \in 1..Len(queue) : queue[i] \in Chain
    BY <1>2, ElementOfSeq
  <2>. QED
    BY <1>1, <1>2, <1>3, <1>9, <2>1, <2>2 DEF Queued
<1>11. SharedLevels'
  BY <1>8, <1>9 DEF SharedLevels, InTransaction
<1>12. OwnLevels' /\ WorkspaceByLevel'
  BY <1>1 DEF OwnLevels, WorkspaceByLevel
<1>13. TypeOK'
  <2>1. pc' \in [Chain -> Where]
    BY <1>1, <1>2 DEF Where
  <2>. QED
    BY <1>1, <1>7, <2>1 DEF IInv, TypeOK, Where
<1>. QED
  BY <1>10, <1>11, <1>12, <1>13 DEF IInv

LEMMA OpenKeeps == ASSUME IInv, NEW c \in Chain, Open(c) PROVE IInv'
<1>1. /\ store = "postgres" /\ pc[c] = "idle"
      /\ pc' = [pc EXCEPT ![c] = "running"]
      /\ levels' = [levels EXCEPT ![c] = Append(@, {})]
      /\ unit' = [unit EXCEPT ![c] = Append(@, {})]
      /\ UNCHANGED <<store, queue, plain, db>>
  BY DEF Open
<1>2. PICK ws \in Workspace \cup {None} :
        /\ ambient' = [ambient EXCEPT ![c] = <<ws>>]
        /\ guc' = [guc EXCEPT ![c] = <<ws>>]
  BY DEF Open
<1>3. /\ pc \in [Chain -> Where] /\ db \in SUBSET Write
      /\ unit \in [Chain -> Seq(SUBSET Write)]
      /\ levels \in [Connection -> Seq(SUBSET Write)]
      /\ ambient \in [Chain -> Seq(Workspace \cup {None})]
      /\ guc \in [Connection -> Seq(Workspace \cup {None})]
      /\ c \in Connection
  BY DEF IInv, TypeOK, Where, Connection
<1>4. unit[c] = << >> /\ levels[c] = << >> /\ ~plain[c]
  BY <1>1 DEF IInv, OwnLevels
<1>5. count' \in [Chain -> 0..MaxEvents]
  BY CountsType DEF Open, IInv, TypeOK
<1>. DEFINE L == Append(<< >>, {})
            G == <<ws>>
<1>6. L \in Seq(SUBSET Write) /\ Len(L) = 1 /\ L[1] = {} /\ L # << >>
  BY EmptySeq, PushFacts
<1>7. G \in Seq(Workspace \cup {None}) /\ Len(G) = 1
  OBVIOUS
<1>8. unit'[c] = L /\ levels' = [levels EXCEPT ![c] = L] /\ unit' = [unit EXCEPT ![c] = L]
  BY <1>1, <1>3, <1>4
<1>9. ambient'[c] = G /\ ambient' = [ambient EXCEPT ![c] = G] /\ guc' = [guc EXCEPT ![c] = G]
  BY <1>2, <1>3
<1>. HIDE DEF L, G
<1>10. Stacked(G, L)
  BY <1>6, <1>7 DEF Stacked
<1>11. guc' \in [Connection -> Seq(Workspace \cup {None})]
  BY <1>3, <1>7, <1>9
<1>12. pc'[c] = "running" /\ pc' = [pc EXCEPT ![c] = pc'[c]]
  BY <1>1, <1>3
<1>13. ScopeChange(c)
  BY <1>1, <1>3, <1>4, <1>5, <1>6, <1>7, <1>8, <1>9, <1>10, <1>11, <1>12
     DEF ScopeChange, ConnOf
<1>. QED
  BY <1>13, ScopeStep

\* A chain that throws, or writes outside a transaction.
LEMMA StayKeeps ==
  ASSUME IInv, NEW c \in Chain, Holds(c),
         UNCHANGED <<store, queue, plain, ambient, levels, guc, unit>>,
         pc'[c] \in {"running", "throwing"}, pc' = [pc EXCEPT ![c] = pc'[c]],
         count' \in [Chain -> 0..MaxEvents], db' \in SUBSET Write
  PROVE  IInv'
<1>1. ScopeChange(c)
  <2>1. /\ unit'[c] = unit[c] /\ levels' = [levels EXCEPT ![ConnOf(c)] = unit'[c]]
        /\ unit' = [unit EXCEPT ![c] = unit'[c]]
        /\ ambient'[c] = ambient[c] /\ ambient' = [ambient EXCEPT ![c] = ambient'[c]]
        /\ unit[c] \in Seq(SUBSET Write) /\ ambient[c] \in Seq(Workspace \cup {None})
    BY InScope
  <2>2. store = "postgres" => guc' = [guc EXCEPT ![c] = ambient'[c]]
    BY <2>1, InScope
  <2>3. guc' \in [Connection -> Seq(Workspace \cup {None})]
    BY InScope
  <2>. QED
    BY <2>1, <2>2, <2>3, InScope DEF ScopeChange
<1>. QED
  BY <1>1, ScopeStep

LEMMA RaiseKeeps == ASSUME IInv, NEW c \in Chain, Raise(c) PROVE IInv'
<1>1. /\ Holds(c) /\ UNCHANGED <<store, queue, plain, ambient, levels, guc, unit, db, count>>
      /\ pc' = [pc EXCEPT ![c] = "throwing"]
  BY DEF Raise, Throws, Holds
<1>2. pc'[c] = "throwing" /\ pc' = [pc EXCEPT ![c] = pc'[c]]
  BY <1>1, InScope
<1>3. count' \in [Chain -> 0..MaxEvents] /\ db' \in SUBSET Write
  BY <1>1, InScope
<1>. QED
  BY <1>1, <1>2, <1>3, StayKeeps

LEMMA StatementKeeps == ASSUME IInv, NEW c \in Chain, Statement(c) PROVE IInv'
<1>1. Holds(c) /\ pc[c] = "running"
  BY DEF Statement, Holds
<1>2. count' \in [Chain -> 0..MaxEvents] /\ count[c] \in 0..MaxEvents
  BY <1>1, InScope, CountsType DEF Statement
<1>3. PICK ws \in Workspace \cup {None} :
        LET w == [chain |-> c, n |-> count[c], workspace |-> ws]
        IN \/ store = "postgres" /\ ~MayBind(c, ws) /\ Throws(c)
           \/ /\ store = "postgres"
              /\ MayBind(c, ws)
              /\ ambient' = [ambient EXCEPT ![c] = Bound(@, ws)]
              /\ guc' = [guc EXCEPT ![c] = Installed(@, ws)]
              /\ levels' = [levels EXCEPT ![c] = Written(@, w)]
              /\ unit' = [unit EXCEPT ![c] = Written(@, w)]
              /\ UNCHANGED <<store, queue, pc, plain, db>>
           \/ /\ store = "sqlite"
              /\ InTransaction(c)
              /\ levels' = [levels EXCEPT ![Shared] = Written(@, w)]
              /\ unit' = [unit EXCEPT ![c] = Written(@, w)]
              /\ UNCHANGED <<store, queue, pc, plain, ambient, guc, db>>
           \/ /\ store = "sqlite"
              /\ ~InTransaction(c)
              /\ db' = db \cup {w}
              /\ UNCHANGED <<store, queue, pc, plain, ambient, levels, guc, unit>>
  BY DEF Statement
<1>. DEFINE w == [chain |-> c, n |-> count[c], workspace |-> ws]
            L == Written(unit[c], w)
            G == Bound(ambient[c], ws)
<1>4. w \in Write /\ w.workspace = ws
  BY <1>2 DEF Write
<1>. HIDE DEF w
<1>5. unit[c] # << >> =>
        L \in Seq(SUBSET Write) /\ L # << >> /\ Len(L) = Len(unit[c])
  <2>. SUFFICES ASSUME unit[c] # << >>
                PROVE  L \in Seq(SUBSET Write) /\ L # << >> /\ Len(L) = Len(unit[c])
    OBVIOUS
  <2>1. unit[c] \in Seq(SUBSET Write)
    BY <1>1, InScope
  <2>2. Top(unit[c]) \in SUBSET Write
    BY <2>1, FrontFacts
  <2>3. Top(unit[c]) \cup {w} \in SUBSET Write
    BY <1>4, <2>2
  <2>. QED
    BY <2>1, <2>3, LevelTop DEF Written
<1>6. CASE store = "postgres" /\ ~MayBind(c, ws) /\ Throws(c)
  <2>1. pc'[c] = "throwing" /\ pc' = [pc EXCEPT ![c] = pc'[c]]
    BY <1>1, <1>6, InScope DEF Throws
  <2>2. /\ UNCHANGED <<store, queue, plain, ambient, levels, guc, unit>>
        /\ db' \in SUBSET Write
    BY <1>1, <1>6, InScope DEF Throws
  <2>. QED
    BY <1>1, <1>2, <2>1, <2>2, StayKeeps
<1>7. CASE /\ store = "postgres"
           /\ MayBind(c, ws)
           /\ ambient' = [ambient EXCEPT ![c] = Bound(@, ws)]
           /\ guc' = [guc EXCEPT ![c] = Installed(@, ws)]
           /\ levels' = [levels EXCEPT ![c] = Written(@, w)]
           /\ unit' = [unit EXCEPT ![c] = Written(@, w)]
           /\ UNCHANGED <<store, queue, pc, plain, db>>
  <2>1. /\ unit[c] # << >> /\ ambient[c] # << >> /\ ConnOf(c) = c
        /\ guc[c] = ambient[c] /\ levels[c] = unit[c] /\ ~plain[c]
        /\ Len(ambient[c]) = Len(unit[c]) /\ Stacked(ambient[c], unit[c])
        /\ unit[c] \in Seq(SUBSET Write) /\ ambient[c] \in Seq(Workspace \cup {None})
    BY <1>1, <1>7, InScope
  <2>2. ws = None \/ Top(ambient[c]) \in {None, ws}
    BY <1>7 DEF MayBind
  <2>3. /\ G \in Seq(Workspace \cup {None}) /\ G # << >> /\ Len(G) = Len(unit[c])
        /\ Stacked(G, unit[c]) /\ Installed(ambient[c], ws) = G
        /\ ws # None => Top(G) = ws
    BY <2>1, <2>2, StackedBind
  <2>. HIDE DEF G
  <2>4. Stacked(G, L)
    BY <1>4, <2>1, <2>3, StackedWrite
  <2>. HIDE DEF L
  <2>5. /\ unit'[c] = L /\ unit' = [unit EXCEPT ![c] = L]
        /\ levels' = [levels EXCEPT ![c] = L]
    BY <1>1, <1>7, <2>1, InScope DEF L
  <2>6. /\ ambient'[c] = G /\ ambient' = [ambient EXCEPT ![c] = G]
        /\ guc' = [guc EXCEPT ![c] = G]
    BY <1>1, <1>7, <2>1, <2>3, InScope DEF G
  <2>7. guc' \in [Connection -> Seq(Workspace \cup {None})]
    BY <1>1, <2>3, <2>6, InScope
  <2>8. pc'[c] = "running" /\ pc' = [pc EXCEPT ![c] = pc'[c]]
    BY <1>1, <1>7, InScope
  <2>9. db' \in SUBSET Write
    BY <1>1, <1>7, InScope
  <2>10. ScopeChange(c)
    BY <1>2, <1>5, <1>7, <2>1, <2>3, <2>4, <2>5, <2>6, <2>7, <2>8, <2>9 DEF ScopeChange
  <2>. QED
    BY <2>10, ScopeStep
<1>8. CASE /\ store = "sqlite"
           /\ InTransaction(c)
           /\ levels' = [levels EXCEPT ![Shared] = Written(@, w)]
           /\ unit' = [unit EXCEPT ![c] = Written(@, w)]
           /\ UNCHANGED <<store, queue, pc, plain, ambient, guc, db>>
  <2>1. ConnOf(c) = Shared /\ levels[Shared] = unit[c] /\ unit[c] # << >>
    BY <1>1, <1>8, InScope DEF ConnOf, InTransaction
  <2>. HIDE DEF L
  <2>2. /\ unit'[c] = L /\ unit' = [unit EXCEPT ![c] = L]
        /\ levels' = [levels EXCEPT ![Shared] = L]
    BY <1>1, <1>8, <2>1, InScope DEF L
  <2>3. /\ ambient'[c] = ambient[c] /\ ambient' = [ambient EXCEPT ![c] = ambient'[c]]
        /\ ambient[c] \in Seq(Workspace \cup {None})
        /\ guc' \in [Connection -> Seq(Workspace \cup {None})] /\ db' \in SUBSET Write
    BY <1>1, <1>8, InScope
  <2>4. pc'[c] = "running" /\ pc' = [pc EXCEPT ![c] = pc'[c]]
    BY <1>1, <1>8, InScope
  <2>5. ScopeChange(c)
    BY <1>1, <1>2, <1>5, <1>8, <2>1, <2>2, <2>3, <2>4 DEF ScopeChange
  <2>. QED
    BY <2>5, ScopeStep
<1>9. CASE /\ store = "sqlite"
           /\ ~InTransaction(c)
           /\ db' = db \cup {w}
           /\ UNCHANGED <<store, queue, pc, plain, ambient, levels, guc, unit>>
  <2>1. pc'[c] = "running" /\ pc' = [pc EXCEPT ![c] = pc'[c]]
    BY <1>1, <1>9, InScope
  <2>2. db' \in SUBSET Write
    BY <1>1, <1>4, <1>9, InScope
  <2>. QED
    BY <1>1, <1>2, <1>9, <2>1, <2>2, StayKeeps
<1>. QED
  BY <1>3, <1>6, <1>7, <1>8, <1>9 DEF w

LEMMA NestKeeps == ASSUME IInv, NEW c \in Chain, Nest(c) PROVE IInv'
<1>1. Holds(c) /\ pc[c] = "running"
  BY DEF Nest, Holds
<1>2. count' \in [Chain -> 0..MaxEvents]
  BY <1>1, InScope, CountsType DEF Nest
<1>. DEFINE L == Append(unit[c], {})
<1>3. L \in Seq(SUBSET Write) /\ L # << >> /\ Len(L) = Len(unit[c]) + 1
  <2>1. unit[c] \in Seq(SUBSET Write)
    BY <1>1, InScope
  <2>. QED
    BY <2>1, LevelPush
<1>4. CASE /\ store = "sqlite"
           /\ levels' = [levels EXCEPT ![Shared] = Append(@, {})]
           /\ unit' = [unit EXCEPT ![c] = Append(@, {})]
           /\ UNCHANGED <<store, queue, pc, plain, ambient, guc, db>>
  <2>1. ConnOf(c) = Shared /\ levels[Shared] = unit[c]
    BY <1>1, <1>4, InScope DEF ConnOf
  <2>. HIDE DEF L
  <2>2. /\ unit'[c] = L /\ unit' = [unit EXCEPT ![c] = L]
        /\ levels' = [levels EXCEPT ![Shared] = L]
    BY <1>1, <1>4, <2>1, InScope DEF L
  <2>3. /\ ambient'[c] = ambient[c] /\ ambient' = [ambient EXCEPT ![c] = ambient'[c]]
        /\ ambient[c] \in Seq(Workspace \cup {None})
        /\ guc' \in [Connection -> Seq(Workspace \cup {None})] /\ db' \in SUBSET Write
    BY <1>1, <1>4, InScope
  <2>4. pc'[c] = "running" /\ pc' = [pc EXCEPT ![c] = pc'[c]]
    BY <1>1, <1>4, InScope
  <2>5. ScopeChange(c)
    BY <1>1, <1>2, <1>3, <1>4, <2>1, <2>2, <2>3, <2>4 DEF ScopeChange
  <2>. QED
    BY <2>5, ScopeStep
<1>5. ASSUME store = "postgres", NEW ws \in Workspace, Throws(c) PROVE IInv'
  <2>1. pc'[c] = "throwing" /\ pc' = [pc EXCEPT ![c] = pc'[c]]
    BY <1>1, <1>5, InScope DEF Throws
  <2>2. /\ UNCHANGED <<store, queue, plain, ambient, levels, guc, unit>>
        /\ db' \in SUBSET Write
    BY <1>1, <1>5, InScope DEF Throws
  <2>. QED
    BY <1>1, <1>2, <2>1, <2>2, StayKeeps
<1>6. ASSUME store = "postgres", NEW ws \in Workspace, MayBind(c, ws),
             ambient' = [ambient EXCEPT ![c] = Append(Bound(@, ws), ws)],
             guc' = [guc EXCEPT ![c] = Append(Installed(@, ws), Top(Installed(@, ws)))],
             levels' = [levels EXCEPT ![c] = Append(@, {})],
             unit' = [unit EXCEPT ![c] = Append(@, {})],
             UNCHANGED <<store, queue, pc, plain, db>>
      PROVE  IInv'
  <2>. DEFINE H == Bound(ambient[c], ws)
              G == Append(H, ws)
  <2>1. /\ unit[c] # << >> /\ ambient[c] # << >> /\ ConnOf(c) = c
        /\ guc[c] = ambient[c] /\ levels[c] = unit[c] /\ ~plain[c]
        /\ Len(ambient[c]) = Len(unit[c]) /\ Stacked(ambient[c], unit[c])
        /\ unit[c] \in Seq(SUBSET Write) /\ ambient[c] \in Seq(Workspace \cup {None})
    BY <1>1, <1>6, InScope
  <2>2. ws # None /\ Top(ambient[c]) \in {None, ws} /\ ws \in Workspace \cup {None}
    BY <1>6, ScopeAssumption DEF MayBind
  <2>3. /\ H \in Seq(Workspace \cup {None}) /\ H # << >> /\ Len(H) = Len(unit[c])
        /\ Stacked(H, unit[c]) /\ Installed(ambient[c], ws) = H
        /\ Top(H) = ws
    BY <2>1, <2>2, StackedBind
  <2>. HIDE DEF H
  <2>4. Stacked(G, L)
    BY <2>1, <2>3, StackedPush
  <2>5. G \in Seq(Workspace \cup {None}) /\ Len(G) = Len(H) + 1
    BY <2>2, <2>3, PushFacts
  <2>6. Append(Installed(ambient[c], ws), Top(Installed(ambient[c], ws))) = G
    BY <2>3
  <2>. HIDE DEF G, L
  <2>7. /\ unit'[c] = L /\ unit' = [unit EXCEPT ![c] = L]
        /\ levels' = [levels EXCEPT ![c] = L]
    BY <1>1, <1>6, <2>1, InScope DEF L
  <2>8. /\ ambient'[c] = G /\ ambient' = [ambient EXCEPT ![c] = G]
    BY <1>1, <1>6, <2>1, InScope DEF G, H
  <2>9. guc' = [guc EXCEPT ![c] = G]
    BY <1>6, <2>1, <2>6
  <2>10. guc' \in [Connection -> Seq(Workspace \cup {None})]
    BY <1>1, <2>5, <2>9, InScope
  <2>11. pc'[c] = "running" /\ pc' = [pc EXCEPT ![c] = pc'[c]]
    BY <1>1, <1>6, InScope
  <2>12. db' \in SUBSET Write
    BY <1>1, <1>6, InScope
  <2>13. ScopeChange(c)
    BY <1>2, <1>3, <1>6, <2>1, <2>3, <2>4, <2>5, <2>7, <2>8, <2>9, <2>10, <2>11, <2>12
       DEF ScopeChange
  <2>. QED
    BY <2>13, ScopeStep
<1>. QED
  BY <1>4, <1>5, <1>6 DEF Nest

\* The innermost call is over: its level is gone on every side.
LEMMA PopKeeps ==
  ASSUME IInv, NEW c \in Chain, Holds(c), InTransaction(c),
         NEW goOn \in SUBSET {"running", "throwing"}, Popped(c, goOn),
         NEW L \in Seq(SUBSET Write), Len(L) = Len(unit[c]) - 1,
         unit' = [unit EXCEPT ![c] = L],
         levels' = [levels EXCEPT ![ConnOf(c)] = L],
         store = "postgres" => Stacked(Front(ambient[c]), L),
         guc' = [guc EXCEPT ![ConnOf(c)] = IF store = "postgres" THEN Front(ambient[c]) ELSE guc'[ConnOf(c)]],
         guc' \in [Connection -> Seq(Workspace \cup {None})],
         db' \in SUBSET Write
  PROVE  IInv'
<1>1. unit[c] \in Seq(SUBSET Write) /\ unit[c] # << >>
  BY InScope DEF InTransaction
<1>2. Len(unit[c]) \in Nat \ {0} /\ (L = << >> <=> Len(L) = 0)
  <2>1. Len(unit[c]) \in Nat \ {0}
    BY <1>1, FrontFacts
  <2>2. L = << >> <=> Len(L) = 0
    BY LengthFacts
  <2>. QED
    BY <2>1, <2>2
<1>3. /\ unit'[c] = L /\ store' = store /\ plain' = plain /\ count' \in [Chain -> 0..MaxEvents]
  BY InScope DEF Popped
<1>4. /\ ambient'[c] \in Seq(Workspace \cup {None})
      /\ ambient' = [ambient EXCEPT ![c] = ambient'[c]]
      /\ store = "postgres" => ambient'[c] = Front(ambient[c])
  <2>1. ambient' = [ambient EXCEPT ![c] = IF store = "postgres" THEN Front(@) ELSE @]
    BY DEF Popped
  <2>2. store = "postgres" => Front(ambient[c]) \in Seq(Workspace \cup {None})
    BY InScope, FrontFacts
  <2>. QED
    BY <2>1, <2>2, InScope
<1>5. store = "postgres" => Len(ambient'[c]) = Len(L)
  <2>. SUFFICES ASSUME store = "postgres" PROVE Len(ambient'[c]) = Len(L)
    OBVIOUS
  <2>1. /\ ambient[c] \in Seq(Workspace \cup {None}) /\ ambient[c] # << >>
        /\ Len(ambient[c]) = Len(unit[c])
    BY InScope
  <2>2. Len(Front(ambient[c])) = Len(ambient[c]) - 1
    BY <2>1, FrontFacts
  <2>. QED
    BY <1>4, <2>1, <2>2
<1>6. /\ pc'[c] \in {"idle", "running", "throwing"}
      /\ pc' = [pc EXCEPT ![c] = pc'[c]]
      /\ queue' = IF pc'[c] = "idle" THEN Freed(c) ELSE queue
      /\ pc'[c] = "idle" => L = << >>
      /\ store = "postgres" => (pc'[c] = "idle" <=> L = << >>)
  <2>1. CASE Len(unit[c]) > 1 \/ plain[c]
    <3>1. /\ queue' = queue
          /\ \E where \in goOn : pc' = [pc EXCEPT ![c] = where]
      BY <2>1 DEF Popped
    <3>2. PICK where \in {"running", "throwing"} : pc' = [pc EXCEPT ![c] = where]
      BY <3>1
    <3>3. pc'[c] = where
      BY <3>2, InScope
    <3>4. store = "postgres" => L # << >>
      BY <1>2, <2>1, InScope
    <3>. QED
      BY <3>1, <3>2, <3>3, <3>4
  <2>2. CASE ~(Len(unit[c]) > 1 \/ plain[c])
    <3>1. pc' = [pc EXCEPT ![c] = "idle"] /\ queue' = Freed(c)
      BY <2>2 DEF Popped, ScopeEnds
    <3>2. pc'[c] = "idle"
      BY <3>1, InScope
    <3>3. L = << >>
      BY <1>2, <2>2
    <3>. QED
      BY <3>1, <3>2, <3>3
  <2>. QED
    BY <2>1, <2>2
<1>7. store = "postgres" => guc' = [guc EXCEPT ![c] = ambient'[c]] /\ Stacked(ambient'[c], unit'[c])
  BY <1>3, <1>4, InScope
<1>8. ScopeChange(c)
  BY <1>3, <1>4, <1>5, <1>6, <1>7, InScope DEF ScopeChange
<1>. QED
  BY <1>8, ScopeStep

LEMMA ReleaseKeeps == ASSUME IInv, NEW c \in Chain, Release(c) PROVE IInv'
<1>. DEFINE k == ConnOf(c)
            L == Released(unit[c])
<1>1. Holds(c) /\ Len(unit[c]) > 1 /\ db' = db
  BY DEF Release, Holds
<1>2. unit[c] \in Seq(SUBSET Write) /\ unit[c] # << >>
  BY <1>1, InScope, LengthFacts
<1>3. unit' = [unit EXCEPT ![c] = L] /\ levels' = [levels EXCEPT ![k] = L]
  <2>1. levels[k] = unit[c]
    BY <1>1, InScope
  <2>. QED
    BY <2>1 DEF Release
<1>4. L \in Seq(SUBSET Write) /\ Len(L) = Len(unit[c]) - 1
  <2>. DEFINE F == Front(unit[c])
              x == Top(F) \cup Top(unit[c])
  <2>2. F \in Seq(SUBSET Write) /\ Len(F) = Len(unit[c]) - 1 /\ Top(unit[c]) \in SUBSET Write
    BY <1>2, FrontFacts
  <2>. HIDE DEF F
  <2>3. F # << >> /\ Top(F) \in SUBSET Write
    <3>1. Len(F) # 0
      BY <1>1, <1>2, <2>2, LengthFacts
    <3>2. F # << >>
      BY <2>2, <3>1, LengthFacts
    <3>. QED
      BY <2>2, <3>2, FrontFacts
  <2>4. x \in SUBSET Write
    BY <2>2, <2>3
  <2>. HIDE DEF x
  <2>5. WithTop(F, x) \in Seq(SUBSET Write) /\ Len(WithTop(F, x)) = Len(F)
    BY <2>2, <2>3, <2>4, LevelTop
  <2>. QED
    BY <2>2, <2>5 DEF Released, F, x
<1>5. store = "postgres" =>
        /\ Stacked(Front(ambient[c]), L)
        /\ WithTop(Front(guc[c]), Top(guc[c])) = Front(ambient[c])
        /\ k = c
  BY <1>1, <1>2, InScope, StackedRelease
<1>6. guc' = [guc EXCEPT ![k] = IF store = "postgres" THEN WithTop(Front(@), Top(@)) ELSE @]
  BY DEF Release
<1>7. guc' \in [Connection -> Seq(Workspace \cup {None})]
  <2>1. store = "postgres" => Front(ambient[c]) \in Seq(Workspace \cup {None})
    BY <1>1, InScope, FrontFacts
  <2>. QED
    BY <1>1, <1>5, <1>6, <2>1, InScope
<1>8. guc' = [guc EXCEPT ![k] = IF store = "postgres" THEN Front(ambient[c]) ELSE guc'[k]]
  BY <1>1, <1>5, <1>6, InScope
<1>9. Popped(c, {"running"}) /\ db' \in SUBSET Write /\ InTransaction(c)
  BY <1>1, <1>2, InScope DEF Release, InTransaction
<1>. HIDE DEF L, k
<1>10. {"running"} \in SUBSET {"running", "throwing"}
  OBVIOUS
<1>. QED
  BY <1>1, <1>3, <1>4, <1>5, <1>7, <1>8, <1>9, <1>10, PopKeeps DEF k

LEMMA CommitKeeps == ASSUME IInv, NEW c \in Chain, Commit(c) PROVE IInv'
<1>. DEFINE k == ConnOf(c)
            L == << >>
<1>1. Holds(c) /\ Len(unit[c]) = 1
  BY DEF Commit, Holds
<1>2. unit[c] \in Seq(SUBSET Write) /\ unit[c] # << >> /\ levels[k] = unit[c]
  <2>1. unit[c] \in Seq(SUBSET Write) /\ levels[k] = unit[c]
    BY <1>1, InScope
  <2>2. Len(<< >>) = 0
    OBVIOUS
  <2>3. unit[c] # << >>
    BY <1>1, <2>2
  <2>. QED
    BY <2>1, <2>3
<1>3. /\ unit' = [unit EXCEPT ![c] = L] /\ levels' = [levels EXCEPT ![k] = L]
      /\ guc' = [guc EXCEPT ![k] = << >>]
      /\ db' = db \cup Committed(levels[k])
      /\ Popped(c, {"running"})
  BY DEF Commit
<1>4. L \in Seq(SUBSET Write) /\ Len(L) = Len(unit[c]) - 1
  BY <1>1, EmptySeq
<1>5. store = "postgres" => Front(ambient[c]) = << >> /\ Stacked(Front(ambient[c]), L)
  <2>. SUFFICES ASSUME store = "postgres" PROVE Front(ambient[c]) = << >> /\ Stacked(<< >>, << >>)
    OBVIOUS
  <2>1. /\ ambient[c] \in Seq(Workspace \cup {None}) /\ ambient[c] # << >>
        /\ Len(ambient[c]) = 1
    BY <1>1, InScope
  <2>. DEFINE F == Front(ambient[c])
  <2>2. F \in Seq(Workspace \cup {None}) /\ Len(F) = 0
    BY <2>1, FrontFacts
  <2>. HIDE DEF F
  <2>3. F = << >>
    BY <2>2, LengthFacts
  <2>4. Stacked(<< >>, << >>)
    BY DEF Stacked
  <2>. QED
    BY <2>3, <2>4 DEF F
<1>6. guc' \in [Connection -> Seq(Workspace \cup {None})]
  <2>1. << >> \in Seq(Workspace \cup {None})
    BY EmptySeq
  <2>. QED
    BY <1>1, <1>3, <2>1, InScope
<1>7. guc' = [guc EXCEPT ![k] = IF store = "postgres" THEN Front(ambient[c]) ELSE guc'[k]]
  BY <1>1, <1>3, <1>5, InScope
<1>8. db' \in SUBSET Write
  <2>1. unit[c][1] \in SUBSET Write
    BY <1>1, <1>2, ElementOfSeq
  <2>. QED
    BY <1>1, <1>2, <1>3, <2>1, InScope DEF Committed
<1>9. InTransaction(c) /\ {"running"} \in SUBSET {"running", "throwing"}
  BY <1>2 DEF InTransaction
<1>. HIDE DEF L, k
<1>. QED
  BY <1>1, <1>3, <1>4, <1>5, <1>6, <1>7, <1>8, <1>9, PopKeeps DEF k

LEMMA RollbackKeeps == ASSUME IInv, NEW c \in Chain, Rollback(c) PROVE IInv'
<1>. DEFINE k == ConnOf(c)
            L == Front(unit[c])
<1>1. /\ Holds(c) /\ unit[c] # << >> /\ InTransaction(c)
      /\ Popped(c, {"running", "throwing"})
  BY DEF Rollback, Holds, InTransaction
<1>2. unit[c] \in Seq(SUBSET Write) /\ levels[k] = unit[c]
  BY <1>1, InScope
<1>3. /\ unit' = [unit EXCEPT ![c] = L] /\ levels' = [levels EXCEPT ![k] = L]
      /\ guc' = [guc EXCEPT ![k] = IF store = "postgres" THEN Front(@) ELSE @]
  BY <1>2 DEF Rollback, RolledBack
<1>4. L \in Seq(SUBSET Write) /\ Len(L) = Len(unit[c]) - 1
  BY <1>1, <1>2, FrontFacts
<1>5. store = "postgres" => Stacked(Front(ambient[c]), L) /\ k = c /\ guc[c] = ambient[c]
  BY <1>1, <1>2, InScope, StackedPop
<1>6. guc' \in [Connection -> Seq(Workspace \cup {None})]
  <2>1. store = "postgres" => Front(ambient[c]) \in Seq(Workspace \cup {None})
    BY <1>1, InScope, FrontFacts
  <2>. QED
    BY <1>1, <1>3, <1>5, <2>1, InScope
<1>7. guc' = [guc EXCEPT ![k] = IF store = "postgres" THEN Front(ambient[c]) ELSE guc'[k]]
  BY <1>1, <1>3, <1>5, InScope
<1>8. db' \in SUBSET Write
  BY <1>1, InScope DEF Rollback
<1>9. {"running", "throwing"} \in SUBSET {"running", "throwing"}
  OBVIOUS
<1>. HIDE DEF L, k
<1>. QED
  BY <1>1, <1>3, <1>4, <1>5, <1>6, <1>7, <1>8, <1>9, PopKeeps DEF k

LEMMA LeaveConnectionKeeps == ASSUME IInv, NEW c \in Chain, LeaveConnection(c) PROVE IInv'
<1>1. /\ Holds(c) /\ unit[c] = << >>
      /\ pc' = [pc EXCEPT ![c] = "idle"] /\ queue' = Freed(c)
      /\ UNCHANGED <<store, plain, ambient, levels, guc, db, unit, count>>
  BY DEF LeaveConnection, InTransaction, ScopeEnds
<1>2. store = "sqlite"
  BY <1>1, InScope
<1>3. /\ unit'[c] = unit[c] /\ levels' = [levels EXCEPT ![ConnOf(c)] = unit'[c]]
      /\ unit' = [unit EXCEPT ![c] = unit'[c]]
      /\ ambient'[c] = ambient[c] /\ ambient' = [ambient EXCEPT ![c] = ambient'[c]]
      /\ unit[c] \in Seq(SUBSET Write) /\ ambient[c] \in Seq(Workspace \cup {None})
      /\ guc' \in [Connection -> Seq(Workspace \cup {None})]
      /\ count' \in [Chain -> 0..MaxEvents] /\ db' \in SUBSET Write
  BY <1>1, InScope
<1>4. pc'[c] = "idle" /\ pc' = [pc EXCEPT ![c] = pc'[c]]
  BY <1>1, InScope
<1>5. ScopeChange(c)
  BY <1>1, <1>2, <1>3, <1>4 DEF ScopeChange
<1>. QED
  BY <1>5, ScopeStep

LEMMA NextKeeps == IInv /\ [Next]_vars => IInv'
<1>. SUFFICES ASSUME IInv, [Next]_vars PROVE IInv'
  OBVIOUS
<1>1. ASSUME NEW c \in Chain, Begin(c) PROVE IInv'
  BY <1>1, AskKeeps, AcquireKeeps, OpenKeeps DEF Begin
<1>2. ASSUME NEW c \in Chain, Statement(c) \/ Nest(c) \/ Raise(c) PROVE IInv'
  BY <1>2, StatementKeeps, NestKeeps, RaiseKeeps
<1>3. ASSUME NEW c \in Chain, Leave(c) PROVE IInv'
  BY <1>3, ReleaseKeeps, CommitKeeps, RollbackKeeps, LeaveConnectionKeeps DEF Leave
<1>4. CASE UNCHANGED vars
  <2>. USE <1>4 DEF IInv, vars
  <2>1. TypeOK'
    BY DEF TypeOK
  <2>2. Queued'
    BY DEF Queued, Holds
  <2>3. SharedLevels'
    BY DEF SharedLevels, Holds, InTransaction
  <2>4. OwnLevels' /\ WorkspaceByLevel'
    BY DEF OwnLevels, WorkspaceByLevel
  <2>. QED
    BY <2>1, <2>2, <2>3, <2>4
<1>. QED
  BY <1>1, <1>2, <1>3, <1>4 DEF Next

\* On SQLite the connection has one holder and the holder's writes only
\* (sqlite-tx.ts:11), and a PostgreSQL transaction acts on one workspace, the
\* one the row policies use (pg/tx.ts:17).
THEOREM ScopesAreKept == Spec => []Inv
<1>1. Init => IInv
  BY InitIInv
<1>2. IInv /\ [Next]_vars => IInv'
  BY NextKeeps
<1>3. IInv => Inv
  BY InvFromIInv
<1>. QED
  BY <1>1, <1>2, <1>3, PTL DEF Spec
-----------------------------------------------------------------------------
(* The refinement of AtomicUnits.                                          *)

failing == [c \in Chain |-> pc[c] = "throwing"]

AtomicStep(c) == Units!Step(c) \/ UNCHANGED <<db, unit, failing>>

LEMMA FailingChange ==
  ASSUME pc \in [Chain -> Where], NEW c \in Chain, NEW w, pc' = [pc EXCEPT ![c] = w]
  PROVE  failing' = [failing EXCEPT ![c] = (w = "throwing")]
<1>1. \A d \in Chain : pc'[d] = IF d = c THEN w ELSE pc[d]
  OBVIOUS
<1>2. failing' = [d \in Chain |-> IF d = c THEN w = "throwing" ELSE pc[d] = "throwing"]
  BY <1>1 DEF failing
<1>. QED
  BY <1>2 DEF failing

LEMMA FailingKept ==
  ASSUME pc \in [Chain -> Where], NEW c \in Chain, NEW w, pc' = [pc EXCEPT ![c] = w],
         (w = "throwing") <=> (pc[c] = "throwing")
  PROVE  failing' = failing
<1>1. \A d \in Chain : (pc'[d] = "throwing") <=> (pc[d] = "throwing")
  OBVIOUS
<1>2. \A d \in Chain : (pc'[d] = "throwing") = (pc[d] = "throwing")
  BY <1>1
<1>. QED
  BY <1>2 DEF failing

LEMMA Entering ==
  ASSUME NEW c \in Chain, pc[c] # "throwing", failing' = failing, db' = db,
         unit' = [unit EXCEPT ![c] = Append(@, {})]
  PROVE  AtomicStep(c)
<1>1. Units!Enter(c)
  BY DEF Units!Enter, failing
<1>. QED
  BY <1>1 DEF Units!Step, AtomicStep

LEMMA Failing ==
  ASSUME pc \in [Chain -> Where], NEW c \in Chain, pc[c] = "running", Throws(c)
  PROVE  AtomicStep(c)
<1>1. failing' = [failing EXCEPT ![c] = TRUE] /\ db' = db /\ unit' = unit
  BY FailingChange DEF Throws
<1>2. Units!Fail(c)
  BY <1>1 DEF Units!Fail, failing
<1>. QED
  BY <1>2 DEF Units!Step, AtomicStep

LEMMA BeginsAtomically ==
  ASSUME IInv, NEW c \in Chain, Begin(c)
  PROVE  AtomicStep(c)
<1>0. pc \in [Chain -> Where] /\ unit \in [Chain -> Seq(SUBSET Write)]
  BY DEF IInv, TypeOK, Where
<1>1. CASE Ask(c)
  <2>1. failing' = failing
    BY <1>0, <1>1, FailingKept DEF Ask
  <2>. QED
    BY <1>1, <2>1 DEF Ask, AtomicStep
<1>2. CASE Acquire(c)
  <2>1. failing' = failing /\ pc[c] # "throwing" /\ db' = db
    BY <1>0, <1>2, FailingKept DEF Acquire
  <2>2. CASE plain[c]
    BY <1>2, <2>1, <2>2 DEF Acquire, AtomicStep
  <2>3. CASE ~plain[c]
    BY <1>2, <2>1, <2>3, Entering DEF Acquire
  <2>. QED
    BY <2>2, <2>3
<1>3. CASE Open(c)
  <2>1. failing' = failing /\ pc[c] # "throwing" /\ db' = db
    BY <1>0, <1>3, FailingKept DEF Open
  <2>. QED
    BY <1>3, <2>1, Entering DEF Open
<1>. QED
  BY <1>1, <1>2, <1>3 DEF Begin

LEMMA RunsAtomically ==
  ASSUME IInv, NEW c \in Chain, Statement(c) \/ Nest(c) \/ Raise(c)
  PROVE  AtomicStep(c)
<1>0. /\ pc \in [Chain -> Where] /\ unit \in [Chain -> Seq(SUBSET Write)]
      /\ count \in [Chain -> 0..MaxEvents]
  BY DEF IInv, TypeOK, Where
<1>1. CASE Raise(c)
  BY <1>0, <1>1, Failing DEF Raise
<1>2. CASE Nest(c)
  <2>1. pc[c] = "running"
    BY <1>2 DEF Nest
  <2>2. CASE Throws(c)
    BY <1>0, <2>1, <2>2, Failing
  <2>3. CASE unit' = [unit EXCEPT ![c] = Append(@, {})] /\ db' = db /\ pc' = pc
    <3>1. failing' = failing
      BY <2>3 DEF failing
    <3>. QED
      BY <2>1, <2>3, <3>1, Entering
  <2>. QED
    BY <1>2, <2>2, <2>3 DEF Nest
<1>3. CASE Statement(c)
  <2>1. pc[c] = "running" /\ Holds(c)
    BY <1>3 DEF Statement, Holds
  <2>2. PICK ws \in Workspace \cup {None} :
          LET w == [chain |-> c, n |-> count[c], workspace |-> ws]
          IN \/ Throws(c)
             \/ unit[c] # << >> /\ unit' = [unit EXCEPT ![c] = Written(@, w)] /\ db' = db /\ pc' = pc
             \/ unit[c] = << >> /\ db' = db \cup {w} /\ unit' = unit /\ pc' = pc
    <3>1. store = "postgres" => unit[c] # << >>
      BY <2>1, InScope
    <3>. QED
      BY <1>3, <3>1 DEF Statement, InTransaction
  <2>. DEFINE w == [chain |-> c, n |-> count[c], workspace |-> ws]
  <2>3. w \in Write
    BY <1>0 DEF Write
  <2>. HIDE DEF w
  <2>4. CASE Throws(c)
    BY <1>0, <2>1, <2>4, Failing
  <2>5. CASE /\ unit[c] # << >> /\ unit' = [unit EXCEPT ![c] = Written(@, w)]
             /\ db' = db /\ pc' = pc
    <3>1. unit' = [unit EXCEPT ![c][Len(unit[c])] = @ \cup {w}]
      BY <2>5 DEF Written, WithTop, Top
    <3>2. failing' = failing /\ ~failing[c]
      BY <2>1, <2>5 DEF failing
    <3>3. Units!Perform(c)
      BY <2>3, <2>5, <3>1, <3>2 DEF Units!Perform, Units!Innermost, failing
    <3>. QED
      BY <3>3 DEF Units!Step, AtomicStep
  <2>6. CASE unit[c] = << >> /\ db' = db \cup {w} /\ unit' = unit /\ pc' = pc
    <3>1. failing' = failing /\ ~failing[c]
      BY <2>1, <2>6 DEF failing
    <3>2. Units!Perform(c)
      BY <2>3, <2>6, <3>1 DEF Units!Perform, failing
    <3>. QED
      BY <3>2 DEF Units!Step, AtomicStep
  <2>. QED
    BY <2>2, <2>4, <2>5, <2>6 DEF w
<1>. QED
  BY <1>1, <1>2, <1>3

LEMMA LeavesAtomically ==
  ASSUME IInv, NEW c \in Chain, Leave(c)
  PROVE  AtomicStep(c)
<1>0. pc \in [Chain -> Where] /\ unit \in [Chain -> Seq(SUBSET Write)]
  BY DEF IInv, TypeOK, Where
<1>1. CASE Release(c)
  <2>1. /\ pc[c] = "running" /\ Len(unit[c]) > 1 /\ db' = db
        /\ unit' = [unit EXCEPT ![c] = Released(@)]
        /\ pc' = [pc EXCEPT ![c] = "running"]
    BY <1>1 DEF Release, Popped
  <2>2. failing' = failing /\ ~failing[c]
    BY <1>0, <2>1, FailingKept DEF failing
  <2>3. unit[c] \in Seq(SUBSET Write) /\ unit[c] # << >>
    BY <1>0, <2>1, LengthFacts
  <2>4. Len(Front(unit[c])) = Len(unit[c]) - 1 /\ Front(unit[c]) = Units!Around(c)
    BY <2>3, FrontFacts DEF Front, Units!Around, Units!Innermost
  <2>5. Released(unit[c]) =
          [Units!Around(c) EXCEPT ![Units!Innermost(c) - 1] = @ \cup unit[c][Units!Innermost(c)]]
    BY <2>4 DEF Released, WithTop, Top, Units!Innermost
  <2>6. unit' = [unit EXCEPT ![c] =
          [Units!Around(c) EXCEPT ![Units!Innermost(c) - 1] = @ \cup unit[c][Units!Innermost(c)]]]
    BY <2>1, <2>5
  <2>7. Units!Leave(c)
    BY <2>1, <2>2, <2>6 DEF Units!Leave, Units!Innermost, failing
  <2>. QED
    BY <2>7 DEF Units!Step, AtomicStep
<1>2. CASE Commit(c)
  <2>1. /\ pc[c] = "running" /\ Len(unit[c]) = 1 /\ Holds(c)
        /\ db' = db \cup Committed(levels[ConnOf(c)])
        /\ unit' = [unit EXCEPT ![c] = << >>]
        /\ Popped(c, {"running"})
    BY <1>2 DEF Commit, Holds
  <2>2. PICK w \in {"running", "idle"} : pc' = [pc EXCEPT ![c] = w]
    BY <2>1 DEF Popped, ScopeEnds
  <2>3. failing' = failing /\ ~failing[c]
    BY <1>0, <2>1, <2>2, FailingKept DEF failing
  <2>4. levels[ConnOf(c)] = unit[c]
    BY <2>1, InScope
  <2>5. Units!Finish(c)
    BY <2>1, <2>3, <2>4 DEF Units!Finish, Units!Innermost, Committed, failing
  <2>. QED
    BY <2>5 DEF Units!Step, AtomicStep
<1>3. CASE Rollback(c)
  <2>1. /\ pc[c] = "throwing" /\ unit[c] # << >> /\ db' = db
        /\ unit' = [unit EXCEPT ![c] = Front(@)]
        /\ Popped(c, {"running", "throwing"})
    BY <1>3 DEF Rollback, InTransaction
  <2>2. PICK w \in {"running", "throwing", "idle"} : pc' = [pc EXCEPT ![c] = w]
    <3>1. CASE Len(unit[c]) > 1 \/ plain[c]
      BY <2>1, <3>1 DEF Popped
    <3>2. CASE ~(Len(unit[c]) > 1 \/ plain[c])
      BY <2>1, <3>2 DEF Popped, ScopeEnds
    <3>. QED
      BY <3>1, <3>2
  <2>3. \E caught \in BOOLEAN : failing' = [failing EXCEPT ![c] = ~caught]
    <3>1. CASE w = "throwing"
      <4>1. failing' = [failing EXCEPT ![c] = TRUE]
        BY <1>0, <2>2, <3>1, FailingChange
      <4>2. failing' = [failing EXCEPT ![c] = ~FALSE]
        BY <4>1
      <4>. QED
        BY <4>2
    <3>2. CASE w # "throwing"
      <4>1. failing' = [failing EXCEPT ![c] = FALSE]
        BY <1>0, <2>2, <3>2, FailingChange
      <4>2. failing' = [failing EXCEPT ![c] = ~TRUE]
        BY <4>1
      <4>. QED
        BY <4>2
    <3>. QED
      BY <3>1, <3>2
  <2>4. failing[c]
    BY <2>1 DEF failing
  <2>5. unit' = [unit EXCEPT ![c] = IF @ = << >> THEN @ ELSE Units!Around(c)]
    BY <2>1 DEF Front, Units!Around, Units!Innermost
  <2>6. Units!Throw(c)
    BY <2>1, <2>3, <2>4, <2>5 DEF Units!Throw, failing
  <2>. QED
    BY <2>6 DEF Units!Step, AtomicStep
<1>4. CASE LeaveConnection(c)
  <2>1. /\ Holds(c) /\ unit[c] = << >> /\ db' = db /\ unit' = unit
        /\ pc' = [pc EXCEPT ![c] = "idle"]
    BY <1>4 DEF LeaveConnection, InTransaction, ScopeEnds
  <2>2. CASE pc[c] = "running"
    <3>1. failing' = failing
      BY <1>0, <2>1, <2>2, FailingKept
    <3>. QED
      BY <2>1, <3>1 DEF AtomicStep
  <2>3. CASE pc[c] = "throwing"
    <3>1. failing' = [failing EXCEPT ![c] = ~TRUE] /\ failing[c]
      <4>1. PICK w \in {"idle"} : pc' = [pc EXCEPT ![c] = w]
        BY <2>1
      <4>2. w # "throwing"
        OBVIOUS
      <4>3. failing' = [failing EXCEPT ![c] = FALSE]
        BY <1>0, <4>1, <4>2, FailingChange
      <4>4. failing' = [failing EXCEPT ![c] = ~TRUE]
        BY <4>3
      <4>. QED
        BY <2>3, <4>4 DEF failing
    <3>2. unit' = [unit EXCEPT ![c] = IF @ = << >> THEN @ ELSE Units!Around(c)]
      BY <1>0, <2>1
    <3>3. Units!Throw(c)
      BY <2>1, <3>1, <3>2 DEF Units!Throw, failing
    <3>. QED
      BY <3>3 DEF Units!Step, AtomicStep
  <2>. QED
    BY <2>1, <2>2, <2>3 DEF Holds
<1>. QED
  BY <1>1, <1>2, <1>3, <1>4 DEF Leave

\* What a request writes inside ports.tx is an atomic unit, whatever it nests
\* and wherever it throws: every step is one of AtomicUnits, or changes nothing
\* AtomicUnits sees (the withTransaction and inPgTransaction of sqlite-tx.ts
\* and pg/tx.ts implement it).
THEOREM ScopesAreAtomic == Spec => UnitsAreAtomic
<1>1. Init => Units!Init
  BY DEF Init, Units!Init
<1>2. IInv /\ [Next]_vars => [Units!Next]_<<db, unit, failing>>
  <2>. SUFFICES ASSUME IInv, [Next]_vars PROVE [Units!Next]_<<db, unit, failing>>
    OBVIOUS
  <2>1. ASSUME NEW c \in Chain, AtomicStep(c) PROVE [Units!Next]_<<db, unit, failing>>
    BY <2>1 DEF AtomicStep, Units!Next
  <2>2. ASSUME Next PROVE [Units!Next]_<<db, unit, failing>>
    BY <2>1, <2>2, BeginsAtomically, RunsAtomically, LeavesAtomically DEF Next
  <2>3. ASSUME UNCHANGED vars PROVE UNCHANGED <<db, unit, failing>>
    BY <2>3 DEF vars, failing
  <2>. QED
    BY <2>2, <2>3
<1>3. Init => IInv
  BY InitIInv
<1>4. IInv /\ [Next]_vars => IInv'
  BY NextKeeps
<1>. QED
  BY <1>1, <1>2, <1>3, <1>4, PTL DEF Spec, UnitsAreAtomic, Units!Spec, failing

-----------------------------------------------------------------------------
(* The rows that join records, under any operations.                       *)

\* The rows join records of the types they are for, and a membership of a list is
\* not primary.
RowsFit ==
  \A l \in links :
    /\ Joins(l.table, TypeOf(l.of), TypeOf(l.to))
    /\ l.table = "list_members" => ~l.primary

\* No row names a record that is still to be created.
Fresh ==
  \A j \in Job : at[j] # "done" => \A l \in links : l.of # j /\ l.to # j

UnderWay(j) == at[j] \in {"checked", "writing"}

\* On SQLite one operation at a time.
Alone == backend = "sqlite" => \A j, k \in Job : UnderWay(j) /\ UnderWay(k) => j = k

\* What operation o has read is still so.
Stands(o, what, where) ==
  /\ Named(o) \subseteq alive
  /\ what.existing = RowAsked(o)
  /\ o.op = "set_primary" => RowAsked(o) # {}
  /\ o.op = "retype" => MayRetype(o)
  /\ o.op = "add_members" => MayAdd(o)
  /\ where = "writing" => what.cleared = ClearedRows(o)

ReadStands ==
  backend = "sqlite" => \A j \in Job : UnderWay(j) => Stands(req[j], seen[j], at[j])

\* list.addMembers has compared the types, which never change.
MembersTyped ==
  \A j \in Job :
    UnderWay(j) /\ req[j].op = "add_members" => \A i \in req[j].ids : TypeOf(i) = req[j].type

GraphIInv ==
  /\ GraphTypeOK
  /\ NoDanglingRow
  /\ TypedListOnSqlite
  /\ OnePrimaryOnSqlite
  /\ RowsFit
  /\ Fresh
  /\ Alone
  /\ ReadStands
  /\ MembersTyped

-----------------------------------------------------------------------------
(* Rows.                                                                   *)

Keyed(rows) == \A l, m \in rows : SameRow(l, m) => l = m

LEMMA KeysDiffer ==
  ASSUME NEW rows \in SUBSET LinkRow
  PROVE  (\A l, m \in rows : [l EXCEPT !.primary = TRUE] = [m EXCEPT !.primary = TRUE] => l = m)
           <=> Keyed(rows)
<1>1. \A l, m \in LinkRow :
        [l EXCEPT !.primary = TRUE] = [m EXCEPT !.primary = TRUE] <=> SameRow(l, m)
  BY DEF LinkRow, SameRow
<1>. QED
  BY <1>1 DEF Keyed

LEMMA RowOf ==
  ASSUME NEW l \in LinkRow
  PROVE  /\ l.table \in Table /\ l.of \in Id /\ l.to \in Id /\ l.primary \in BOOLEAN
         /\ [l EXCEPT !.primary = FALSE] \in LinkRow
         /\ SameRow([l EXCEPT !.primary = FALSE], l)
         /\ ~[l EXCEPT !.primary = FALSE].primary
BY DEF LinkRow, SameRow

LEMMA SameRowMeans ==
  ASSUME NEW l, NEW m
  PROVE  SameRow(l, m) <=> l.table = m.table /\ l.of = m.of /\ l.to = m.to
BY DEF SameRow

\* What an operation names.
LEMMA OpFields ==
  ASSUME NEW o \in Op
  PROVE  /\ o.op \in {"link", "unlink"} =>
              o.table \in JoinTable /\ o.of \in OldId /\ o.to \in OldId
         /\ o.op \in {"link", "set_primary"} => o.primary \in BOOLEAN
         /\ o.op = "set_primary" => o.of \in OldId /\ o.to \in OldId
         /\ o.op \in {"add_members", "remove_members"} =>
              o.list \in OldId /\ o.type \in Listable /\ o.ids \subseteq OldId
         /\ o.op = "retype" => o.list \in OldId /\ o.type \in Listable \cup {Untyped}
         /\ o.op = "create" => o.type \in Kind /\ o.refs \subseteq OldId /\ o.extra \subseteq Extra
         /\ o.op = "refer" => o.of \in OldId /\ o.to \in OldId
         /\ o.op = "delete" => o.id \in OldId
         /\ o.op \in {"link", "unlink", "set_primary", "add_members", "remove_members", "retype",
                      "create", "refer", "delete"}
BY RecordOpAssumption DEF Operation

LEMMA OldAndNew ==
  ASSUME GraphTypeOK, NEW i \in OldId
  PROVE  i \in Id /\ i \notin Job /\ TypeOf(i) = OldType[i] /\ TypeOf(i) \in Kind
BY RecordOpAssumption, GraphAssumption DEF Id, TypeOf

LEMMA NewRecord ==
  ASSUME GraphTypeOK, NEW j \in Job
  PROVE  /\ j \in Id /\ j \notin OldId
         /\ TypeOf(j) = IF req[j].op = "create" THEN req[j].type ELSE "activity"
         /\ TypeOf(j) \in Kind
<1>1. req[j] \in Op
  BY DEF GraphTypeOK
<1>. QED
  BY <1>1, OpFields, GraphAssumption DEF Id, TypeOf, Kind

LEMMA TypesStay == UNCHANGED req => \A i : TypeOf(i)' = TypeOf(i)
BY DEF TypeOf

\* What a hardDelete names covers what can join the record.
LEMMA TablesCovered ==
  ASSUME NEW table, NEW s, NEW t, Joins(table, s, t)
  PROVE  /\ table \in OwnTables(s)
         /\ t # "field" => table \in InTables(t)
BY DEF Joins, OwnTables, InTables, Listable

-----------------------------------------------------------------------------
(* Steps.                                                                  *)

LEMMA GraphInitIInv == GraphInit => GraphIInv
<1>. SUFFICES ASSUME GraphInit PROVE GraphIInv
  OBVIOUS
<1>1. alive = InitAlive /\ links = InitLinks /\ listType = InitListType
  BY DEF GraphInit
<1>2. InitLinks \in SUBSET LinkRow /\ Keyed(InitLinks)
  BY GraphAssumption DEF Keyed, SameRow
<1>3. GraphTypeOK
  <2>1. alive \subseteq Id
    BY <1>1, GraphAssumption DEF Id
  <2>2. seen \in [Job -> [existing : SUBSET LinkRow, cleared : SUBSET LinkRow]]
    BY DEF GraphInit, Nothing
  <2>. QED
    BY <1>1, <1>2, <2>1, <2>2, KeysDiffer, GraphAssumption DEF GraphInit, GraphTypeOK
<1>4. \A l \in links : {l.of, l.to} \subseteq OldId
  BY <1>1, GraphAssumption
<1>5. \A l \in links : TypeOf(l.of) = OldType[l.of] /\ TypeOf(l.to) = OldType[l.to]
  BY <1>4 DEF TypeOf
<1>6. NoDanglingRow /\ TypedListOnSqlite /\ OnePrimaryOnSqlite
  BY <1>1, <1>5, GraphAssumption DEF NoDanglingRow, TypedListOnSqlite, OnePrimaryOnSqlite
<1>7. RowsFit
  BY <1>1, <1>5, GraphAssumption DEF RowsFit
<1>8. Fresh
  BY <1>4, GraphAssumption DEF Fresh
<1>9. Alone /\ ReadStands /\ MembersTyped
  BY DEF GraphInit, Alone, ReadStands, MembersTyped, UnderWay
<1>. QED
  BY <1>3, <1>6, <1>7, <1>8, <1>9 DEF GraphIInv

\* The tables stay.
LEMMA TablesKept ==
  ASSUME GraphIInv, UNCHANGED <<tables, req, backend>>, NEW j \in Job, NEW to,
         at' = [at EXCEPT ![j] = to], at[j] # "done"
  PROVE  /\ NoDanglingRow' /\ TypedListOnSqlite' /\ OnePrimaryOnSqlite' /\ RowsFit' /\ Fresh'
         /\ \A o : /\ Named(o)' = Named(o) /\ RowAsked(o)' = RowAsked(o)
                   /\ MayRetype(o)' = MayRetype(o) /\ MayAdd(o)' = MayAdd(o)
                   /\ ClearedRows(o)' = ClearedRows(o)
<1>. USE DEF tables
<1>1. NoDanglingRow' /\ OnePrimaryOnSqlite'
  BY DEF GraphIInv, NoDanglingRow, OnePrimaryOnSqlite
<1>2. TypedListOnSqlite' /\ RowsFit'
  BY TypesStay DEF GraphIInv, TypedListOnSqlite, RowsFit
<1>3. Fresh'
  BY DEF GraphIInv, Fresh, GraphTypeOK
<1>4. \A o : Named(o)' = Named(o)
  BY DEF Named
<1>5. \A o : RowAsked(o)' = RowAsked(o) /\ ClearedRows(o)' = ClearedRows(o)
  BY DEF RowAsked, ClearedRows, TheRow, RowsOf
<1>6. \A o : MayRetype(o)' = MayRetype(o) /\ MayAdd(o)' = MayAdd(o)
  BY TypesStay DEF MayRetype, MayAdd
<1>. QED
  BY <1>1, <1>2, <1>3, <1>4, <1>5, <1>6

LEMMA FailKeeps ==
  ASSUME GraphIInv, NEW j \in Job, NEW why \in {"refused", "not_found"}, at[j] # "done",
         Fail(j, why)
  PROVE  GraphIInv'
<1>1. /\ UNCHANGED <<tables, req, backend, seen>>
      /\ at' = [at EXCEPT ![j] = why]
  BY DEF Fail, Goto
<1>2. GraphTypeOK'
  BY <1>1 DEF GraphIInv, GraphTypeOK, tables
<1>3. Alone'
  BY <1>1 DEF GraphIInv, GraphTypeOK, Alone, UnderWay
<1>4. ReadStands'
  <2>. SUFFICES ASSUME backend = "sqlite", NEW k \in Job, UnderWay(k)'
                PROVE  Stands(req[k], seen[k], at[k])'
    BY <1>1 DEF ReadStands
  <2>1. at'[k] = at[k] /\ req'[k] = req[k] /\ seen'[k] = seen[k] /\ UnderWay(k)
    BY <1>1 DEF GraphIInv, GraphTypeOK, UnderWay
  <2>2. Stands(req[k], seen[k], at[k])
    BY <2>1 DEF GraphIInv, ReadStands
  <2>3. \A o : /\ Named(o)' = Named(o) /\ RowAsked(o)' = RowAsked(o)
               /\ MayRetype(o)' = MayRetype(o) /\ MayAdd(o)' = MayAdd(o)
               /\ ClearedRows(o)' = ClearedRows(o)
    BY <1>1, TablesKept
  <2>. QED
    BY <1>1, <2>1, <2>2, <2>3 DEF Stands, tables
<1>5. MembersTyped'
  BY <1>1, TypesStay DEF GraphIInv, GraphTypeOK, MembersTyped, UnderWay
<1>. QED
  BY <1>1, <1>2, <1>3, <1>4, <1>5, TablesKept DEF GraphIInv

\* A step that reads.
LEMMA ReadKeeps ==
  ASSUME GraphIInv, NEW j \in Job,
         NEW what \in [existing : SUBSET LinkRow, cleared : SUBSET LinkRow],
         NEW to \in {"checked", "writing"}, Reads(j, what, to), at[j] # "done",
         UnderWay(j) \/ MayBegin(j),
         backend = "sqlite" => Stands(req[j], what, to),
         req[j].op = "add_members" => \A i \in req[j].ids : TypeOf(i) = req[j].type
  PROVE  GraphIInv'
<1>1. /\ UNCHANGED <<tables, req, backend>>
      /\ seen' = [seen EXCEPT ![j] = what]
      /\ at' = [at EXCEPT ![j] = to]
  BY DEF Reads, Goto
<1>2. GraphTypeOK'
  BY <1>1 DEF GraphIInv, GraphTypeOK, tables
<1>3. Alone'
  BY <1>1 DEF GraphIInv, GraphTypeOK, Alone, UnderWay, MayBegin
<1>4. ReadStands'
  <2>. SUFFICES ASSUME backend = "sqlite", NEW k \in Job, UnderWay(k)'
                PROVE  Stands(req[k], seen[k], at[k])'
    BY <1>1 DEF ReadStands
  <2>1. k = j
    BY <1>1, <1>3 DEF Alone, UnderWay, GraphIInv, GraphTypeOK
  <2>2. Stands(req[j], what, to)
    OBVIOUS
  <2>3. seen'[j] = what /\ at'[j] = to /\ req'[j] = req[j]
    BY <1>1 DEF GraphIInv, GraphTypeOK
  <2>4. \A o : /\ Named(o)' = Named(o) /\ RowAsked(o)' = RowAsked(o)
               /\ MayRetype(o)' = MayRetype(o) /\ MayAdd(o)' = MayAdd(o)
               /\ ClearedRows(o)' = ClearedRows(o)
    BY <1>1, TablesKept
  <2>. QED
    BY <1>1, <2>1, <2>2, <2>3, <2>4 DEF Stands, tables
<1>5. MembersTyped'
  BY <1>1, TypesStay DEF GraphIInv, GraphTypeOK, MembersTyped, UnderWay
<1>. QED
  BY <1>1, <1>2, <1>3, <1>4, <1>5, TablesKept DEF GraphIInv

\* A step that writes and commits.
LEMMA CommitsKeep ==
  ASSUME GraphIInv, NEW j \in Job, UnderWay(j), Commits(j),
         alive' \subseteq Id, links' \in SUBSET LinkRow, Keyed(links'),
         listType' \in [Id -> Listable \cup {Untyped}],
         NoDanglingRow', TypedListOnSqlite', OnePrimaryOnSqlite', RowsFit',
         \A k \in Job \ {j} : (\A l \in links : l.of # k /\ l.to # k)
                                => \A l \in links' : l.of # k /\ l.to # k
  PROVE  GraphIInv'
<1>1. UNCHANGED <<req, backend, seen>> /\ at' = [at EXCEPT ![j] = "done"]
  BY DEF Commits, Goto
<1>2. GraphTypeOK'
  BY <1>1, KeysDiffer DEF GraphIInv, GraphTypeOK
<1>3. Alone'
  BY <1>1 DEF GraphIInv, GraphTypeOK, Alone, UnderWay
<1>4. Fresh'
  BY <1>1 DEF GraphIInv, GraphTypeOK, Fresh
<1>5. ReadStands'
  BY <1>1 DEF GraphIInv, GraphTypeOK, Alone, ReadStands, UnderWay
<1>6. MembersTyped'
  BY <1>1, TypesStay DEF GraphIInv, GraphTypeOK, MembersTyped, UnderWay
<1>. QED
  BY <1>2, <1>3, <1>4, <1>5, <1>6 DEF GraphIInv

\* The rows are some there are, perhaps demoted.
Kept(rows) == \A l \in rows : \E m \in links : SameRow(l, m) /\ (l.primary => m.primary)

\* Job j may add the row l, once the records in there exist.
MayCome(j, l, there) ==
  /\ l.to \in there
  /\ l.of \in there \/ (backend = "sqlite" /\ l.table = "taggings")
  /\ Joins(l.table, TypeOf(l.of), TypeOf(l.to))
  /\ l.table = "list_members" =>
       ~l.primary /\ (backend = "sqlite" => listType[l.to] \in {Untyped, TypeOf(l.of)})
  /\ \A k \in Job \ {j} : l.of = k \/ l.to = k => \E m \in links : m.of = k \/ m.to = k

\* A commit that keeps rows, or some of them, demotes others, and adds new ones.
LEMMA RowsKeep ==
  ASSUME GraphIInv, NEW j \in Job, UnderWay(j), Commits(j),
         NEW kept \in SUBSET LinkRow, NEW added \in SUBSET LinkRow,
         links' = kept \cup added, Keyed(kept \cup added),
         UNCHANGED listType, alive \subseteq alive', alive' \subseteq Id,
         Kept(kept), \A l \in added : MayCome(j, l, alive'),
         OnePrimaryOnSqlite'
  PROVE  GraphIInv'
<1>1. UNCHANGED <<req, backend, seen>>
  BY DEF Commits, Goto
<1>2. \A l \in kept : \E m \in links : /\ l.table = m.table /\ l.of = m.of /\ l.to = m.to
                                       /\ l.primary => m.primary
  BY SameRowMeans DEF Kept
<1>3. NoDanglingRow'
  BY <1>1, <1>2 DEF GraphIInv, NoDanglingRow, MayCome
<1>4. TypedListOnSqlite'
  BY <1>1, <1>2, TypesStay DEF GraphIInv, TypedListOnSqlite, MayCome
<1>5. RowsFit'
  BY <1>1, <1>2, TypesStay DEF GraphIInv, RowsFit, MayCome
<1>6. \A k \in Job \ {j} : (\A l \in links : l.of # k /\ l.to # k)
                             => \A l \in links' : l.of # k /\ l.to # k
  BY <1>2 DEF MayCome
<1>. QED
  BY <1>3, <1>4, <1>5, <1>6, CommitsKeep DEF GraphIInv, GraphTypeOK

LEMMA FewerKeep ==
  ASSUME GraphIInv, NEW j \in Job, UnderWay(j), Commits(j), links' \subseteq links,
         UNCHANGED <<alive, listType>>
  PROVE  GraphIInv'
<1>1. links \in SUBSET LinkRow /\ Keyed(links)
  BY KeysDiffer DEF GraphIInv, GraphTypeOK
<1>2. OnePrimaryOnSqlite'
  BY DEF GraphIInv, OnePrimaryOnSqlite, Commits, Goto
<1>3. \A l \in links' : SameRow(l, l)
  BY SameRowMeans
<1>. QED
  <2>. DEFINE kept == links'
  <2>1. kept \in SUBSET LinkRow /\ kept = kept \cup {} /\ Keyed(kept \cup {})
    BY <1>1 DEF Keyed
  <2>2. Kept(kept)
    BY <1>3 DEF Kept
  <2>3. /\ links' = kept \cup {} /\ {} \in SUBSET LinkRow
        /\ alive \subseteq alive' /\ alive' \subseteq Id
    BY DEF GraphIInv, GraphTypeOK
  <2>. HIDE DEF kept
  <2>. QED
    BY <1>2, <2>1, <2>2, <2>3, RowsKeep

LEMMA UnlinkKeeps == ASSUME GraphIInv, NEW j \in Job, Unlink(j) PROVE GraphIInv'
BY FewerKeep DEF Unlink, At, UnderWay

LEMMA RemoveMembersKeeps == ASSUME GraphIInv, NEW j \in Job, RemoveMembers(j) PROVE GraphIInv'
BY FewerKeep DEF RemoveMembers, At, UnderWay

LEMMA CheckKeeps == ASSUME GraphIInv, NEW j \in Job, Check(j) PROVE GraphIInv'
<1>1. req[j] \in Op /\ at[j] = "idle" /\ MayBegin(j)
  BY DEF Check, GraphIInv, GraphTypeOK
<1>2. CASE Fail(j, "not_found") \/ Fail(j, "refused")
  BY <1>1, <1>2, FailKeeps
<1>3. CASE /\ Named(req[j]) \subseteq alive
           /\ req[j].op = "set_primary" => RowAsked(req[j]) # {}
           /\ req[j].op = "retype" => MayRetype(req[j])
           /\ req[j].op = "add_members" => MayAdd(req[j])
           /\ Reads(j, [seen[j] EXCEPT !.existing = RowAsked(req[j])], "checked")
  <2>. DEFINE what == [seen[j] EXCEPT !.existing = RowAsked(req[j])]
  <2>1. RowAsked(req[j]) \subseteq links
    BY DEF RowAsked, TheRow, RowsOf
  <2>2. /\ what \in [existing : SUBSET LinkRow, cleared : SUBSET LinkRow]
        /\ what.existing = RowAsked(req[j])
    BY <2>1 DEF GraphIInv, GraphTypeOK
  <2>3. Stands(req[j], what, "checked")
    BY <1>3, <2>2 DEF Stands
  <2>. HIDE DEF what
  <2>4. Reads(j, what, "checked")
    BY <1>3 DEF what
  <2>5. req[j].op = "add_members" => \A i \in req[j].ids : TypeOf(i) = req[j].type
    BY <1>3 DEF MayAdd
  <2>. QED
    BY <1>1, <2>2, <2>3, <2>4, <2>5, ReadKeeps
<1>. QED
  BY <1>2, <1>3 DEF Check

LEMMA ClearPrimaryKeeps == ASSUME GraphIInv, NEW j \in Job, ClearPrimary(j) PROVE GraphIInv'
<1>. DEFINE what == [seen[j] EXCEPT !.cleared = ClearedRows(req[j])]
<1>1. at[j] = "checked" /\ Reads(j, what, "writing") /\ req[j].op \in {"link", "set_primary"}
  BY DEF ClearPrimary, At
<1>2. ClearedRows(req[j]) \subseteq links
  BY DEF ClearedRows, RowsOf
<1>3. /\ what \in [existing : SUBSET LinkRow, cleared : SUBSET LinkRow]
      /\ what.existing = seen[j].existing
      /\ what.cleared = ClearedRows(req[j])
  BY <1>2 DEF GraphIInv, GraphTypeOK
<1>4. backend = "sqlite" => Stands(req[j], what, "writing")
  BY <1>1, <1>3 DEF GraphIInv, ReadStands, Stands, UnderWay
<1>. HIDE DEF what
<1>. QED
  BY <1>1, <1>3, <1>4, ReadKeeps DEF UnderWay

LEMMA AddMembersKeeps == ASSUME GraphIInv, NEW j \in Job, AddMembers(j) PROVE GraphIInv'
<1>. DEFINE o == req[j]
            rows == {Row("list_members", i, o.list, FALSE) : i \in o.ids}
<1>1. at[j] = "checked" /\ o.op = "add_members" /\ o \in Op
  BY DEF AddMembers, At, GraphIInv, GraphTypeOK
<1>2. o.list \in OldId /\ o.ids \subseteq OldId /\ o.type \in Listable /\ OldType[o.list] = "list"
  BY <1>1, OpFields, RecordOpAssumption DEF WellTyped
<1>3. CASE Fail(j, "not_found")
  BY <1>1, <1>3, FailKeeps
<1>4. CASE KeysHold(rows) /\ links' = links \cup rows /\ UNCHANGED <<alive, listType>> /\ Commits(j)
  <2>1. \A l \in rows : \E i \in o.ids :
          /\ l = Row("list_members", i, o.list, FALSE)
          /\ l \in LinkRow /\ l.table = "list_members" /\ l.of = i /\ l.to = o.list
          /\ l.primary = FALSE
    <3>1. \A i \in o.ids : i \in Id /\ o.list \in Id /\ "list_members" \in Table
      BY <1>2 DEF Table, Id
    <3>. DEFINE r(i) == Row("list_members", i, o.list, FALSE)
    <3>2. \A i \in o.ids : /\ r(i) \in LinkRow /\ r(i).table = "list_members" /\ r(i).of = i
                           /\ r(i).to = o.list /\ r(i).primary = FALSE
      BY <3>1 DEF Row, LinkRow
    <3>3. \A l \in rows : \E i \in o.ids : l = r(i)
      OBVIOUS
    <3>. HIDE DEF r, rows
    <3>4. \A l \in rows : \E i \in o.ids :
            l = r(i) /\ l \in LinkRow /\ l.table = "list_members" /\ l.of = i /\ l.to = o.list
              /\ l.primary = FALSE
      BY <3>2, <3>3
    <3>. QED
      BY <3>4 DEF r
  <2>2. links \in SUBSET LinkRow /\ Keyed(links) /\ \A l \in links : SameRow(l, l)
    BY KeysDiffer, SameRowMeans DEF GraphIInv, GraphTypeOK
  <2>3. Keyed(links \cup rows)
    <3>1. \A l \in links : l.table = "list_members" => l.primary = FALSE
      BY DEF GraphIInv, RowsFit, GraphTypeOK, LinkRow
    <3>2. \A l, m \in LinkRow : SameRow(l, m) /\ l.primary = m.primary => l = m
      BY DEF LinkRow, SameRow
    <3>3. ASSUME NEW l \in links \cup rows, NEW m \in links \cup rows, SameRow(l, m) PROVE l = m
      <4>1. CASE l.table = "list_members"
        <5>1. m.table = "list_members"
          BY <3>3, <4>1, SameRowMeans
        <5>. QED
          BY <2>1, <2>2, <3>1, <3>2, <3>3, <4>1, <5>1
      <4>2. CASE l.table # "list_members"
        BY <2>1, <2>2, <3>3, <4>2, SameRowMeans DEF Keyed
      <4>. QED
        BY <4>1, <4>2
    <3>. QED
      BY <3>3 DEF Keyed
  <2>4. backend = "sqlite" => o.list \in alive /\ MayAdd(o)
    BY <1>1 DEF GraphIInv, ReadStands, Stands, UnderWay, Named
  <2>5. \A l \in rows : l.of \in alive /\ l.to \in alive
    BY <1>4, <2>1, <2>4 DEF KeysHold, MayAdd, GraphIInv, GraphTypeOK
  <2>6. \A l \in rows :
          OldType[l.of] \in Kind /\ TypeOf(l.of) = OldType[l.of] /\ TypeOf(l.to) = "list"
    BY <1>2, <2>1, OldAndNew, RecordOpAssumption DEF GraphIInv
  <2>7. \A l \in rows : TypeOf(l.of) = o.type
    BY <1>1, <2>1 DEF GraphIInv, MembersTyped, UnderWay
  <2>8. \A l \in rows : Joins(l.table, TypeOf(l.of), TypeOf(l.to))
    BY <1>2, <2>1, <2>6, <2>7 DEF Joins
  <2>9. backend = "sqlite" => \A l \in rows : listType[l.to] \in {Untyped, TypeOf(l.of)}
    BY <2>1, <2>4, <2>7 DEF MayAdd
  <2>10. OnePrimaryOnSqlite'
    BY <1>4, <2>1 DEF GraphIInv, OnePrimaryOnSqlite, Commits, Goto
  <2>11. \A l \in rows, k \in Job \ {j} : l.of # k /\ l.to # k
    BY <1>2, <2>1, GraphAssumption
  <2>12. rows \in SUBSET LinkRow
    BY <2>1
  <2>13. \A l \in rows : MayCome(j, l, alive')
    BY <1>4, <2>1, <2>5, <2>8, <2>9, <2>11 DEF MayCome
  <2>14. alive \subseteq alive' /\ alive' \subseteq Id /\ UnderWay(j)
    BY <1>1, <1>4 DEF GraphIInv, GraphTypeOK, UnderWay
  <2>15. /\ links' = links \cup rows /\ UNCHANGED listType /\ Commits(j)
         /\ Kept(links)
    BY <1>4, <2>2 DEF Kept
  <2>. HIDE DEF rows
  <2>. QED
    BY <2>2, <2>3, <2>10, <2>12, <2>13, <2>14, <2>15, RowsKeep
<1>. QED
  BY <1>3, <1>4 DEF AddMembers

LEMMA RetypeKeeps == ASSUME GraphIInv, NEW j \in Job, Retype(j) PROVE GraphIInv'
<1>. DEFINE o == req[j]
<1>1. at[j] = "checked" /\ o.op = "retype" /\ o \in Op /\ UnderWay(j)
  BY DEF Retype, At, GraphIInv, GraphTypeOK, UnderWay
<1>2. o.list \in OldId /\ o.type \in Listable \cup {Untyped}
  BY <1>1, OpFields
<1>3. CASE Fail(j, "not_found")
  BY <1>1, <1>3, FailKeeps
<1>4. CASE /\ listType' = [listType EXCEPT ![o.list] = o.type]
           /\ UNCHANGED <<alive, links>>
           /\ Commits(j)
  <2>1. UNCHANGED <<req, backend>>
    BY <1>4 DEF Commits, Goto
  <2>2. listType' \in [Id -> Listable \cup {Untyped}]
        /\ \A i \in Id : listType'[i] = IF i = o.list THEN o.type ELSE listType[i]
    BY <1>2, <1>4 DEF GraphIInv, GraphTypeOK
  <2>3. NoDanglingRow' /\ OnePrimaryOnSqlite'
    BY <1>4, <2>1 DEF GraphIInv, NoDanglingRow, OnePrimaryOnSqlite
  <2>4. RowsFit'
    BY <1>4, <2>1, TypesStay DEF GraphIInv, RowsFit
  <2>5. backend = "sqlite" => MayRetype(o)
    BY <1>1 DEF GraphIInv, ReadStands, Stands
  <2>6. \A l \in links : l.to \in Id
    BY RowOf DEF GraphIInv, GraphTypeOK
  <2>7. TypedListOnSqlite'
    BY <1>4, <2>1, <2>2, <2>5, <2>6, TypesStay DEF GraphIInv, TypedListOnSqlite, MayRetype
  <2>8. links' \in SUBSET LinkRow /\ Keyed(links') /\ alive' \subseteq Id
    BY <1>4, KeysDiffer DEF GraphIInv, GraphTypeOK
  <2>. QED
    BY <1>1, <1>4, <2>2, <2>3, <2>4, <2>7, <2>8, CommitsKeep
<1>. QED
  BY <1>3, <1>4 DEF Retype

LEMMA HardDeleteKeeps == ASSUME GraphIInv, NEW j \in Job, HardDelete(j) PROVE GraphIInv'
<1>. DEFINE id == req[j].id
<1>1. /\ UnderWay(j) /\ req[j].op = "delete" /\ req[j] \in Op
      /\ alive' = alive \ {id} /\ links' = links \ (Cleaned(id) \cup Cascades(id))
      /\ UNCHANGED listType /\ Commits(j)
  BY DEF HardDelete, At, UnderWay, GraphIInv, GraphTypeOK
<1>2. UNCHANGED <<req, backend>> /\ links' \subseteq links
  BY <1>1 DEF Commits, Goto
<1>3. id \in OldId /\ TypeOf(id) # "field"
  BY <1>1, OpFields, RecordOpAssumption, OldAndNew DEF WellTyped, GraphIInv
<1>4. ASSUME NEW l \in links' PROVE l.to # id /\ (l.of # id)
  <2>1. l \in links /\ l \notin Cleaned(id) /\ l \notin Cascades(id)
    BY <1>1, <1>4
  <2>2. Joins(l.table, TypeOf(l.of), TypeOf(l.to))
    BY <2>1 DEF GraphIInv, RowsFit
  <2>3. CASE l.of = id
    BY <2>1, <2>2, <2>3, TablesCovered DEF Cleaned
  <2>4. CASE l.to = id
    BY <1>3, <2>1, <2>2, <2>4, TablesCovered DEF Cleaned
  <2>. QED
    BY <2>3, <2>4
<1>5. NoDanglingRow'
  BY <1>1, <1>2, <1>4 DEF GraphIInv, NoDanglingRow
<1>6. TypedListOnSqlite' /\ RowsFit'
  BY <1>1, <1>2, TypesStay DEF GraphIInv, TypedListOnSqlite, RowsFit
<1>7. OnePrimaryOnSqlite'
  BY <1>2 DEF GraphIInv, OnePrimaryOnSqlite
<1>8. links' \in SUBSET LinkRow /\ Keyed(links') /\ alive' \subseteq Id
  BY <1>1, <1>2, KeysDiffer DEF GraphIInv, GraphTypeOK, Keyed
<1>9. listType' \in [Id -> Listable \cup {Untyped}]
  BY <1>1 DEF GraphIInv, GraphTypeOK
<1>. QED
  BY <1>1, <1>2, <1>5, <1>6, <1>7, <1>8, <1>9, CommitsKeep

-----------------------------------------------------------------------------
(* Links.                                                                  *)

\* Clearing keeps every row by its key, and makes none primary.
LEMMA AfterClearing ==
  ASSUME GraphIInv, NEW j \in Job
  PROVE  /\ AfterClear(j) \in SUBSET LinkRow
         /\ Keyed(AfterClear(j))
         /\ \A l \in AfterClear(j) : \E m \in links :
              /\ SameRow(l, m)
              /\ l.primary => l = m /\ ~\E c \in seen[j].cleared : SameRow(m, c)
<1>. DEFINE cleared == {l \in links : \E c \in seen[j].cleared : SameRow(l, c)}
            down(l) == [l EXCEPT !.primary = FALSE]
<1>1. AfterClear(j) = (links \ cleared) \cup {down(l) : l \in cleared}
  BY DEF AfterClear
<1>2. links \in SUBSET LinkRow /\ Keyed(links)
  BY KeysDiffer DEF GraphIInv, GraphTypeOK
<1>3. \A l \in LinkRow : down(l) \in LinkRow /\ SameRow(down(l), l) /\ ~down(l).primary
  BY RowOf
<1>4. /\ cleared \subseteq links
      /\ \A l \in links : l \notin cleared => ~\E c \in seen[j].cleared : SameRow(l, c)
  OBVIOUS
<1>. HIDE DEF cleared, down
<1>5. \A l \in AfterClear(j) :
        \/ l \in links /\ l \notin cleared
        \/ \E m \in cleared : l = down(m)
  BY <1>1
<1>6. AfterClear(j) \in SUBSET LinkRow
  BY <1>2, <1>3, <1>4, <1>5
<1>7. ASSUME NEW l \in AfterClear(j), NEW m \in AfterClear(j), SameRow(l, m) PROVE l = m
  <2>1. PICK a \in links : SameRow(l, a) /\ (IF a \in cleared THEN l = down(a) ELSE l = a)
    BY <1>2, <1>3, <1>4, <1>5, SameRowMeans
  <2>2. PICK b \in links : SameRow(m, b) /\ (IF b \in cleared THEN m = down(b) ELSE m = b)
    BY <1>2, <1>3, <1>4, <1>5, SameRowMeans
  <2>3. a = b
    BY <1>2, <1>7, <2>1, <2>2, SameRowMeans DEF Keyed
  <2>. QED
    BY <2>1, <2>2, <2>3
<1>8. ASSUME NEW l \in AfterClear(j)
      PROVE  \E m \in links : /\ SameRow(l, m)
                              /\ l.primary => l = m /\ ~\E c \in seen[j].cleared : SameRow(m, c)
  <2>1. CASE l \in links /\ l \notin cleared
    BY <1>4, <2>1, SameRowMeans
  <2>2. ASSUME NEW m \in cleared, l = down(m)
        PROVE  m \in links /\ SameRow(l, m) /\ ~l.primary
    BY <1>2, <1>3, <1>4, <2>2
  <2>. QED
    BY <1>5, <2>1, <2>2
<1>. QED
  BY <1>6, <1>7, <1>8 DEF Keyed

\* The rows once j has cleared them have what RowsKeep asks of the rows kept.
LEMMA ClearedRowsKept ==
  ASSUME GraphIInv, NEW j \in Job, NEW kept \in SUBSET AfterClear(j)
  PROVE  /\ kept \in SUBSET LinkRow /\ Keyed(kept)
         /\ Kept(kept)
         /\ backend = "sqlite" =>
              \A l, m \in kept :
                l.table \in {"company_people", "deal_stakeholders"} /\ m.table = l.table
                  /\ l.of = m.of /\ l.primary /\ m.primary => l = m
BY AfterClearing DEF Keyed, Kept, GraphIInv, OnePrimaryOnSqlite

\* What the row that j writes is of.
LEMMA LinkTyped ==
  ASSUME GraphIInv, NEW j \in Job, req[j].op \in {"link", "set_primary"}
  PROVE  LET o == req[j]
             t == TableOf(o)
         IN /\ t \in JoinTable /\ o.of \in OldId /\ o.to \in OldId /\ o.primary \in BOOLEAN
            /\ Joins(t, TypeOf(o.of), TypeOf(o.to))
<1>. DEFINE o == req[j]
<1>1. o \in Op
  BY DEF GraphIInv, GraphTypeOK
<1>2. /\ TableOf(o) \in JoinTable /\ o.of \in OldId /\ o.to \in OldId /\ o.primary \in BOOLEAN
      /\ Joins(TableOf(o), OldType[o.of], OldType[o.to])
  BY <1>1, OpFields, RecordOpAssumption DEF WellTyped, TableOf, JoinTable
<1>. QED
  BY <1>2, OldAndNew DEF GraphIInv

\* On SQLite its place is where it was when the operation began.
LEMMA LinkRead ==
  ASSUME GraphIInv, NEW j \in Job, UnderWay(j), backend = "sqlite",
         req[j].op \in {"link", "set_primary"}
  PROVE  LET o == req[j]
             t == TableOf(o)
         IN /\ seen[j].existing = TheRow(t, o.of, o.to)
            /\ at[j] = "writing" => seen[j].cleared = RowsOf(t, o.of)
            /\ o.to \in alive
            /\ o.of \in alive \/ t = "taggings"
<1>. DEFINE o == req[j]
<1>1. Stands(o, seen[j], at[j]) /\ o \in Op
  BY DEF GraphIInv, ReadStands, GraphTypeOK
<1>2. RowAsked(o) = TheRow(TableOf(o), o.of, o.to)
  BY DEF RowAsked, TableOf
<1>3. CASE o.op = "set_primary"
  <2>1. PICK l \in links : l.of = o.of /\ l.to = o.to /\ l.table = "deal_stakeholders"
    BY <1>1, <1>2, <1>3 DEF Stands, TheRow, RowsOf, TableOf
  <2>2. o.to \in alive /\ o.of \in alive
    BY <2>1 DEF GraphIInv, NoDanglingRow
  <2>. QED
    BY <1>1, <1>2, <2>2 DEF Stands, ClearedRows
<1>4. CASE o.op = "link"
  <2>1. o.table \in JoinTable /\ Named(o) \subseteq alive
    BY <1>1, <1>4, OpFields DEF Stands
  <2>2. o.to \in alive /\ (o.of \in alive \/ TableOf(o) = "taggings")
    BY <1>4, <2>1 DEF Named, TableOf
  <2>. QED
    BY <1>1, <1>2, <2>2 DEF Stands, ClearedRows
<1>. QED
  BY <1>3, <1>4

LEMMA PutLinkKeeps == ASSUME GraphIInv, NEW j \in Job, PutLink(j) PROVE GraphIInv'
<1>. DEFINE o == req[j]
            t == TableOf(o)
            was == seen[j].existing
            now == TheRow(t, o.of, o.to)
            row == Row(t, o.of, o.to, Primary(t, o.primary, was))
            kept == {l \in AfterClear(j) : ~SameRow(l, row)}
<1>1. /\ o.op \in {"link", "set_primary"}
      /\ at[j] = (IF Clears(o) THEN "writing" ELSE "checked")
      /\ UnderWay(j)
  BY DEF PutLink, UnderWay
<1>2. /\ t \in JoinTable /\ t \in Table /\ o.of \in OldId /\ o.to \in OldId /\ o.primary \in BOOLEAN
      /\ Joins(t, TypeOf(o.of), TypeOf(o.to))
  BY <1>1, LinkTyped DEF Table
<1>3. Primary(t, o.primary, was) \in BOOLEAN
  BY <1>2 DEF Primary
<1>4. /\ row \in LinkRow /\ row.table = t /\ row.of = o.of /\ row.to = o.to
      /\ row.primary = Primary(t, o.primary, was)
  BY <1>2, <1>3 DEF Row, LinkRow, Id
<1>5. \/ Fail(j, "refused") \/ Fail(j, "not_found")
      \/ links' = AfterClear(j) /\ UNCHANGED <<alive, listType>> /\ Commits(j)
      \/ /\ links' = kept \cup {row} /\ UNCHANGED <<alive, listType>> /\ Commits(j)
         /\ now = {} => KeysHold({row})
  BY DEF PutLink, WithRow
<1>. HIDE DEF row
<1>6. CASE Fail(j, "refused") \/ Fail(j, "not_found")
  BY <1>1, <1>6, FailKeeps DEF UnderWay
<1>7. CASE links' = AfterClear(j) /\ UNCHANGED <<alive, listType>> /\ Commits(j)
  <2>. DEFINE all == AfterClear(j)
  <2>1. /\ all \in SUBSET AfterClear(j) /\ links' = all \cup {} /\ {} \in SUBSET LinkRow
        /\ all \cup {} = all
    BY <1>7
  <2>2. /\ all \in SUBSET LinkRow /\ Keyed(all \cup {})
        /\ Kept(all)
    BY <2>1, ClearedRowsKept
  <2>3. OnePrimaryOnSqlite'
    BY <1>7, <2>1, ClearedRowsKept DEF OnePrimaryOnSqlite, Commits, Goto
  <2>4. alive \subseteq alive' /\ alive' \subseteq Id
    BY <1>7 DEF GraphIInv, GraphTypeOK
  <2>. HIDE DEF all
  <2>. QED
    BY <1>1, <1>7, <2>1, <2>2, <2>3, <2>4, RowsKeep
<1>8. CASE /\ links' = kept \cup {row} /\ UNCHANGED <<alive, listType>> /\ Commits(j)
           /\ now = {} => KeysHold({row})
  <2>1. /\ kept \in SUBSET AfterClear(j) /\ kept \in SUBSET LinkRow /\ Keyed(kept)
        /\ Kept(kept)
        /\ \A l \in kept : ~SameRow(l, row)
    BY ClearedRowsKept
  <2>2. Keyed(kept \cup {row})
    BY <2>1, SameRowMeans DEF Keyed
  <2>3. row.to \in alive /\ (row.of \in alive \/ (backend = "sqlite" /\ row.table = "taggings"))
    <3>1. CASE backend = "sqlite"
      BY <1>1, <1>4, <3>1, LinkRead
    <3>2. CASE backend = "postgres" /\ now = {}
      BY <1>8, <3>2 DEF KeysHold
    <3>3. CASE backend = "postgres" /\ now # {}
      BY <1>4, <3>3 DEF TheRow, RowsOf, GraphIInv, NoDanglingRow
    <3>. QED
      BY <3>1, <3>2, <3>3 DEF GraphIInv, GraphTypeOK
  <2>4. ASSUME backend = "sqlite", NEW l \in kept, l.table = row.table, l.of = row.of,
               row.table \in {"company_people", "deal_stakeholders"}, l.primary, row.primary
        PROVE  FALSE
    <3>1. PICK m \in links : /\ SameRow(l, m) /\ l = m
                             /\ ~\E c \in seen[j].cleared : SameRow(m, c)
      BY <2>1, <2>4, AfterClearing
    <3>2. m \in RowsOf(t, o.of)
      BY <1>4, <2>4, <3>1 DEF RowsOf
    <3>3. CASE Clears(o)
      <4>1. seen[j].cleared = RowsOf(t, o.of)
        BY <1>1, <2>4, <3>3, LinkRead
      <4>. QED
        BY <3>1, <3>2, <4>1, SameRowMeans
    <3>4. CASE ~Clears(o)
      <4>1. ~o.primary
        BY <1>2, <1>4, <2>4, <3>4 DEF Clears
      <4>2. PICK e \in TheRow(t, o.of, o.to) : e.primary
        BY <1>1, <1>4, <2>4, <4>1, LinkRead DEF Primary
      <4>3. e \in links /\ e.table = t /\ e.of = o.of /\ e.to = o.to
        BY DEF TheRow, RowsOf
      <4>4. e = m
        BY <1>4, <2>4, <3>1, <4>2, <4>3 DEF GraphIInv, OnePrimaryOnSqlite
      <4>. QED
        BY <1>4, <2>1, <3>1, <4>3, <4>4, SameRowMeans
    <3>. QED
      BY <3>3, <3>4
  <2>5. OnePrimaryOnSqlite'
    <3>1. backend' = backend
      BY <1>8 DEF Commits, Goto
    <3>2. backend = "sqlite" =>
            \A l, m \in kept :
              l.table \in {"company_people", "deal_stakeholders"} /\ m.table = l.table
                /\ l.of = m.of /\ l.primary /\ m.primary => l = m
      BY <2>1, ClearedRowsKept
    <3>. HIDE DEF kept
    <3>. QED
      BY <1>8, <2>4, <3>1, <3>2 DEF OnePrimaryOnSqlite
  <2>6. /\ alive \subseteq alive' /\ alive' \subseteq Id /\ {row} \in SUBSET LinkRow
        /\ UNCHANGED listType /\ Commits(j) /\ links' = kept \cup {row}
    BY <1>4, <1>8 DEF GraphIInv, GraphTypeOK
  <2>7. /\ row.to \in alive'
        /\ row.of \in alive' \/ (backend = "sqlite" /\ row.table = "taggings")
        /\ Joins(row.table, TypeOf(row.of), TypeOf(row.to))
        /\ row.table # "list_members"
        /\ \A k \in Job : row.of # k /\ row.to # k
    BY <1>2, <1>4, <1>8, <2>3, GraphAssumption DEF JoinTable
  <2>. DEFINE new == {row}
  <2>8. \A l \in new : MayCome(j, l, alive')
    BY <2>7 DEF MayCome
  <2>9. new \in SUBSET LinkRow /\ links' = kept \cup new /\ Keyed(kept \cup new)
    BY <2>2, <2>6
  <2>10. /\ UnderWay(j) /\ kept \in SUBSET LinkRow
         /\ Kept(kept)
    BY <1>1, <2>1
  <2>11. /\ UNCHANGED listType /\ Commits(j) /\ alive \subseteq alive' /\ alive' \subseteq Id
    BY <2>6
  <2>. HIDE DEF kept, new
  <2>. QED
    BY <2>5, <2>8, <2>9, <2>10, <2>11, RowsKeep
<1>. QED
  BY <1>5, <1>6, <1>7, <1>8

-----------------------------------------------------------------------------
(* References, and records with the rows they bring.                       *)

LEMMA ReferKeeps == ASSUME GraphIInv, NEW j \in Job, Refer(j) PROVE GraphIInv'
<1>. DEFINE o == req[j]
            row == Row("reference", o.of, o.to, FALSE)
            new == {row}
            kept == {l \in links : ~\E r \in new : l.table = "reference" /\ l.of = r.of
                                                   /\ TypeOf(l.to) = TypeOf(r.to)}
<1>1. at[j] = "checked" /\ o.op = "refer" /\ o \in Op /\ UnderWay(j)
  BY DEF Refer, At, GraphIInv, GraphTypeOK, UnderWay
<1>2. /\ o.of \in OldId /\ o.to \in OldId
      /\ Joins("reference", TypeOf(o.of), TypeOf(o.to))
  BY <1>1, OpFields, RecordOpAssumption, OldAndNew DEF WellTyped, GraphIInv
<1>3. /\ row \in LinkRow /\ row.table = "reference" /\ row.of = o.of /\ row.to = o.to
      /\ row.primary = FALSE
  BY <1>2 DEF Row, LinkRow, Id, Table
<1>4. \/ Fail(j, "not_found")
      \/ /\ KeysHold(new) /\ o.of \in alive
         /\ links' = kept \cup new
         /\ UNCHANGED <<alive, listType>> /\ Commits(j)
  BY DEF Refer, WithReferences
<1>5. CASE Fail(j, "not_found")
  BY <1>1, <1>5, FailKeeps
<1>6. CASE /\ KeysHold(new) /\ o.of \in alive
           /\ links' = kept \cup new
           /\ UNCHANGED <<alive, listType>> /\ Commits(j)
  <2>. HIDE DEF row
  <2>1. kept \in SUBSET LinkRow /\ new \in SUBSET LinkRow /\ kept \subseteq links /\ Keyed(links)
    BY <1>3, KeysDiffer DEF GraphIInv, GraphTypeOK
  <2>2. Keyed(kept \cup new)
    BY <1>3, <2>1, SameRowMeans DEF Keyed
  <2>3. Kept(kept)
    BY <2>1, SameRowMeans DEF Kept
  <2>4. backend = "sqlite" => o.to \in alive
    BY <1>1 DEF GraphIInv, ReadStands, Stands, Named
  <2>5. row.of \in alive /\ row.to \in alive
    BY <1>3, <1>6, <2>4 DEF KeysHold, GraphIInv, GraphTypeOK
  <2>6. \A l \in new : MayCome(j, l, alive')
    BY <1>2, <1>3, <1>6, <2>5, GraphAssumption DEF MayCome
  <2>7. OnePrimaryOnSqlite'
    BY <1>3, <1>6, <2>1 DEF GraphIInv, OnePrimaryOnSqlite, Commits, Goto
  <2>8. /\ UNCHANGED listType /\ Commits(j) /\ alive \subseteq alive' /\ alive' \subseteq Id
        /\ links' = kept \cup new
    BY <1>6 DEF GraphIInv, GraphTypeOK
  <2>. HIDE DEF kept, new
  <2>. QED
    BY <1>1, <2>1, <2>2, <2>3, <2>6, <2>7, <2>8, RowsKeep
<1>. QED
  BY <1>4, <1>5, <1>6

\* What the operation that creates a record names.
LEMMA CreateTyped ==
  ASSUME GraphIInv, NEW j \in Job, req[j].op = "create"
  PROVE  LET o == req[j]
         IN /\ o.refs \subseteq OldId
            /\ TypeOf(j) = o.type
            /\ \A r \in o.refs : Joins("reference", o.type, TypeOf(r))
            /\ \A r, s \in o.refs : TypeOf(r) = TypeOf(s) => r = s
            /\ \A x \in o.extra : /\ x.table \in {"company_people", "offering_links"}
                                  /\ x.to \in OldId
                                  /\ x.primary \in BOOLEAN
                                  /\ Joins(x.table, o.type, TypeOf(x.to))
            /\ \A x, y \in o.extra : x = y
<1>. DEFINE o == req[j]
<1>1. o \in Op /\ WellTyped(o)
  BY RecordOpAssumption DEF GraphIInv, GraphTypeOK
<1>2. o.refs \subseteq OldId /\ o.extra \subseteq Extra /\ TypeOf(j) = o.type
  BY <1>1, OpFields, NewRecord DEF GraphIInv
<1>3. \A x \in o.extra : x.to \in OldId /\ x.primary \in BOOLEAN
  BY <1>2 DEF Extra
<1>4. \A i \in OldId : TypeOf(i) = OldType[i]
  BY OldAndNew DEF GraphIInv
<1>. QED
  BY <1>1, <1>2, <1>3, <1>4 DEF WellTyped

\* The rows of a new record: its references, the offerings of the lead it is made
\* from, and one of its own.
LEMMA NewRowIs ==
  ASSUME GraphIInv, NEW j \in Job, req[j].op = "create", NEW l \in NewRows(j)
  PROVE  /\ l \in LinkRow /\ l.of = j
         /\ \/ l.table = "reference" /\ l.to \in req[j].refs /\ l.primary = FALSE
            \/ /\ l.table = "offering_links"
               /\ \E c \in Carried(req[j]) : l.to = c.to /\ l.primary = c.primary
            \/ /\ \E x \in req[j].extra : /\ l.table = x.table /\ l.to = x.to
                                          /\ l.primary = (x.primary /\ Carried(req[j]) = {})
               /\ ~\E c \in Carried(req[j]) : l.table = "offering_links" /\ l.to = c.to
<1>. DEFINE o == req[j]
            carry(c) == Row("offering_links", j, c.to, c.primary)
            own(x) == Row(x.table, j, x.to, x.primary)
            carried == {carry(c) : c \in Carried(o)}
            asked == {own(x) : x \in o.extra}
            put(a) == [a EXCEPT !.primary = a.primary /\ carried = {}]
<1>1. j \in Id
  BY DEF Id
<1>2. \A c \in Carried(o) :
        /\ carry(c) \in LinkRow /\ carry(c).table = "offering_links" /\ carry(c).of = j
        /\ carry(c).to = c.to /\ carry(c).primary = c.primary
  <2>1. \A c \in Carried(o) : c.to \in Id /\ c.primary \in BOOLEAN
    BY DEF Carried, GraphIInv, GraphTypeOK, LinkRow
  <2>. QED
    BY <1>1, <2>1 DEF Row, LinkRow, Table, JoinTable
<1>3. \A x \in o.extra :
        /\ own(x) \in LinkRow /\ own(x).table = x.table /\ own(x).of = j
        /\ own(x).to = x.to /\ own(x).primary = x.primary
  BY <1>1, CreateTyped DEF Row, LinkRow, Table, JoinTable, Id
<1>4. \A r \in o.refs : LET a == Row("reference", j, r, FALSE)
                        IN /\ a \in LinkRow /\ a.table = "reference" /\ a.of = j /\ a.to = r
                           /\ a.primary = FALSE
  BY <1>1, CreateTyped DEF Row, LinkRow, Table, Id
<1>5. carried = {} <=> Carried(o) = {}
  OBVIOUS
<1>6. \A a \in LinkRow : /\ put(a) \in LinkRow /\ put(a).table = a.table /\ put(a).of = a.of
                         /\ put(a).to = a.to /\ put(a).primary = (a.primary /\ carried = {})
  BY DEF LinkRow
<1>7. \/ \E r \in o.refs : l = Row("reference", j, r, FALSE)
      \/ \E c \in Carried(o) : l = carry(c)
      \/ \E x \in o.extra : l = put(own(x)) /\ ~\E c \in Carried(o) : SameRow(own(x), carry(c))
  <2>. DEFINE first == {Row("reference", j, r, FALSE) : r \in o.refs}
              free == {a \in asked : ~\E c \in carried : SameRow(a, c)}
              last == {put(a) : a \in free}
  <2>1. NewRows(j) = first \cup carried \cup last
    BY DEF NewRows
  <2>2. CASE l \in first \/ l \in carried
    BY <2>2
  <2>3. CASE l \in last
    <3>1. PICK a \in free : l = put(a)
      BY <2>3
    <3>2. PICK x \in o.extra : a = own(x)
      BY <3>1
    <3>3. ~\E c \in Carried(o) : SameRow(a, carry(c))
      BY <3>1
    <3>. QED
      BY <3>1, <3>2, <3>3
  <2>. QED
    BY <2>1, <2>2, <2>3
<1>. HIDE DEF carry, own, put, carried
<1>8. ASSUME NEW r \in o.refs, l = Row("reference", j, r, FALSE)
      PROVE  l \in LinkRow /\ l.of = j /\ l.table = "reference" /\ l.to = r /\ l.primary = FALSE
  BY <1>4, <1>8
<1>9. ASSUME NEW c \in Carried(o), l = carry(c)
      PROVE  /\ l \in LinkRow /\ l.of = j /\ l.table = "offering_links"
             /\ l.to = c.to /\ l.primary = c.primary
  BY <1>2, <1>9
<1>10. ASSUME NEW x \in o.extra, l = put(own(x)), ~\E c \in Carried(o) : SameRow(own(x), carry(c))
       PROVE  /\ l \in LinkRow /\ l.of = j /\ l.table = x.table /\ l.to = x.to
              /\ l.primary = (x.primary /\ Carried(o) = {})
              /\ ~\E c \in Carried(o) : l.table = "offering_links" /\ l.to = c.to
  <2>1. l \in LinkRow /\ l.of = j /\ l.table = x.table /\ l.to = x.to
        /\ l.primary = (x.primary /\ Carried(o) = {})
    BY <1>3, <1>5, <1>6, <1>10
  <2>2. \A c \in Carried(o) : ~(x.table = "offering_links" /\ x.to = c.to)
    BY <1>2, <1>3, <1>10, SameRowMeans
  <2>. QED
    BY <2>1, <2>2
<1>. QED
  BY <1>7, <1>8, <1>9, <1>10

LEMMA RowsEqual ==
  ASSUME NEW l \in LinkRow, NEW m \in LinkRow, SameRow(l, m), l.primary = m.primary
  PROVE  l = m
BY DEF LinkRow, SameRow

\* The offerings carried over are those of one lead.
LEMMA CarriedFromOne ==
  ASSUME GraphIInv, NEW j \in Job, req[j].op = "create", NEW c \in Carried(req[j])
  PROVE  /\ req[j].type = "deal" /\ c \in links /\ c.table = "offering_links"
         /\ c.to \in alive /\ TypeOf(c.to) = "offering"
         /\ \A d \in Carried(req[j]) : c.to = d.to => c = d
<1>. DEFINE o == req[j]
<1>1. \A d \in Carried(o) : d \in links /\ d.table = "offering_links" /\ d.of \in o.refs
  BY DEF Carried
<1>2. o.type = "deal"
  BY DEF Carried
<1>3. \A d \in Carried(o) : TypeOf(d.of) = "engagement" /\ TypeOf(d.to) = "offering"
  <2>. SUFFICES ASSUME NEW d \in Carried(o)
                PROVE  TypeOf(d.of) = "engagement" /\ TypeOf(d.to) = "offering"
    OBVIOUS
  <2>1. Joins("reference", "deal", TypeOf(d.of))
    BY <1>1, <1>2, CreateTyped
  <2>2. Joins("offering_links", TypeOf(d.of), TypeOf(d.to))
    BY <1>1 DEF GraphIInv, RowsFit
  <2>. QED
    BY <2>1, <2>2 DEF Joins
<1>4. \A d \in Carried(o) : c.of = d.of
  BY <1>1, <1>3, CreateTyped
<1>5. \A d \in Carried(o) : c.to = d.to => c = d
  BY <1>1, <1>4, SameRowMeans, KeysDiffer DEF GraphIInv, GraphTypeOK, Keyed
<1>6. c.to \in alive
  BY <1>1 DEF GraphIInv, NoDanglingRow
<1>. QED
  BY <1>1, <1>2, <1>3, <1>5, <1>6

\* The lead's reference to the deal made from it.
LEMMA BackRowIs ==
  ASSUME GraphIInv, NEW j \in Job, req[j].op = "create", NEW l \in BackReference(j)
  PROVE  /\ l \in LinkRow /\ l.table = "reference" /\ l.to = j /\ l.primary = FALSE
         /\ l.of \in req[j].refs /\ TypeOf(l.of) = "engagement" /\ TypeOf(j) = "deal"
<1>1. /\ req[j].type = "deal"
      /\ \E r \in req[j].refs : TypeOf(r) = "engagement" /\ l = Row("reference", r, j, FALSE)
  BY DEF BackReference
<1>2. PICK r \in req[j].refs : TypeOf(r) = "engagement" /\ l = Row("reference", r, j, FALSE)
  BY <1>1
<1>3. r \in Id /\ j \in Id /\ TypeOf(j) = "deal"
  BY <1>1, CreateTyped DEF Id
<1>. QED
  BY <1>2, <1>3 DEF Row, LinkRow, Table

\* The rows a new record brings have keys of their own, and one primary row.
LEMMA NewRowsKeyed ==
  ASSUME GraphIInv, NEW j \in Job, req[j].op = "create"
  PROVE  /\ Keyed(NewRows(j))
         /\ \A l, m \in NewRows(j) :
              l.table = m.table /\ l.table \in {"company_people", "deal_stakeholders"} => l = m
<1>. DEFINE o == req[j]
            ref(l) == l.table = "reference" /\ l.to \in o.refs /\ l.primary = FALSE
            car(l) == /\ l.table = "offering_links"
                      /\ \E c \in Carried(o) : l.to = c.to /\ l.primary = c.primary
            own(l) == /\ \E x \in o.extra : /\ l.table = x.table /\ l.to = x.to
                                            /\ l.primary = (x.primary /\ Carried(o) = {})
                      /\ ~\E c \in Carried(o) : l.table = "offering_links" /\ l.to = c.to
<1>1. \A l \in NewRows(j) : l \in LinkRow /\ l.of = j /\ (ref(l) \/ car(l) \/ own(l))
  BY NewRowIs
<1>2. \A l, m : own(l) /\ own(m) => /\ l.table = m.table /\ l.to = m.to /\ l.primary = m.primary
                                    /\ l.table \in {"company_people", "offering_links"}
  BY CreateTyped
<1>3. \A l, m : car(l) /\ car(m) /\ l.to = m.to => l.primary = m.primary
  BY CarriedFromOne
<1>4. \A l, m : ~(car(l) /\ own(m) /\ l.table = m.table /\ l.to = m.to)
  OBVIOUS
<1>5. \A l, m : ref(l) /\ ref(m) => l.primary = m.primary
  OBVIOUS
<1>6. \A l : /\ ref(l) => l.table = "reference"
             /\ car(l) => l.table = "offering_links"
             /\ own(l) => l.table \in {"company_people", "offering_links"}
  BY <1>2
<1>. HIDE DEF ref, car, own
<1>7. ASSUME NEW l \in NewRows(j), NEW m \in NewRows(j), SameRow(l, m)
      PROVE  l = m
  <2>1. l.table = m.table /\ l.to = m.to
    BY <1>7, SameRowMeans
  <2>2. l.primary = m.primary
    BY <1>1, <1>2, <1>3, <1>4, <1>5, <1>6, <2>1
  <2>. QED
    BY <1>1, <1>7, <2>2, RowsEqual
<1>8. ASSUME NEW l \in NewRows(j), NEW m \in NewRows(j),
             l.table = m.table, l.table \in {"company_people", "deal_stakeholders"}
      PROVE  l = m
  <2>1. own(l) /\ own(m)
    BY <1>1, <1>6, <1>8
  <2>. QED
    BY <1>1, <1>2, <1>7, <1>8, <2>1, SameRowMeans
<1>. QED
  BY <1>7, <1>8 DEF Keyed

\* Every row that comes with the new record may come.
LEMMA NewRowsMayCome ==
  ASSUME GraphIInv, NEW j \in Job, req[j].op = "create", UnderWay(j),
         backend = "postgres" =>
           \A l \in NewRows(j) \cup BackReference(j) : {l.of, l.to} \ {j} \subseteq alive
  PROVE  \A l \in NewRows(j) \cup BackReference(j) : MayCome(j, l, alive \cup {j})
<1>. DEFINE o == req[j]
<1>1. j \notin OldId /\ \A k \in Job : k \notin OldId
  BY GraphAssumption
<1>2. backend = "sqlite" => \A i \in o.refs \cup {x.to : x \in o.extra} : i \in alive
  BY DEF GraphIInv, ReadStands, Stands, Named
<1>3. ASSUME NEW l \in BackReference(j)
      PROVE  MayCome(j, l, alive \cup {j})
  <2>1. /\ l.table = "reference" /\ l.to = j /\ l.of \in o.refs /\ l.of \in OldId
        /\ TypeOf(l.of) = "engagement" /\ TypeOf(l.to) = "deal"
    <3>1. o.refs \subseteq OldId
      BY CreateTyped
    <3>. QED
      BY <3>1, BackRowIs
  <2>2. Joins(l.table, TypeOf(l.of), TypeOf(l.to))
    BY <2>1 DEF Joins
  <2>3. l.of \in alive
    BY <1>1, <1>2, <2>1 DEF GraphIInv, GraphTypeOK
  <2>. QED
    BY <1>1, <2>1, <2>2, <2>3 DEF MayCome
<1>4. ASSUME NEW l \in NewRows(j)
      PROVE  MayCome(j, l, alive \cup {j})
  <2>1. l.of = j /\ TypeOf(j) = o.type
    BY NewRowIs, CreateTyped
  <2>2. CASE l.table = "reference" /\ l.to \in o.refs
    <3>1. l.to \in OldId /\ Joins(l.table, TypeOf(l.of), TypeOf(l.to))
      BY <2>1, <2>2, CreateTyped
    <3>2. l.to \in alive
      BY <1>1, <1>2, <2>2, <3>1 DEF GraphIInv, GraphTypeOK
    <3>. QED
      BY <1>1, <2>1, <2>2, <3>1, <3>2 DEF MayCome
  <2>3. ASSUME l.table = "offering_links", NEW c \in Carried(o), l.to = c.to
        PROVE  MayCome(j, l, alive \cup {j})
    <3>1. o.type = "deal" /\ c \in links /\ c.to \in alive /\ TypeOf(c.to) = "offering"
      BY CarriedFromOne
    <3>2. Joins(l.table, TypeOf(l.of), TypeOf(l.to))
      BY <2>1, <2>3, <3>1 DEF Joins
    <3>. QED
      BY <1>1, <2>1, <2>3, <3>1, <3>2 DEF MayCome
  <2>4. ASSUME NEW x \in o.extra, l.table = x.table, l.to = x.to
        PROVE  MayCome(j, l, alive \cup {j})
    <3>1. /\ x.to \in OldId /\ x.table \in {"company_people", "offering_links"}
          /\ Joins(x.table, o.type, TypeOf(x.to))
      BY CreateTyped
    <3>2. l.to \in alive
      BY <1>1, <1>2, <2>4, <3>1 DEF GraphIInv, GraphTypeOK
    <3>. QED
      BY <1>1, <2>1, <2>4, <3>1, <3>2 DEF MayCome
  <2>. QED
    BY <2>2, <2>3, <2>4, NewRowIs
<1>. QED
  BY <1>3, <1>4

LEMMA CreateKeeps == ASSUME GraphIInv, NEW j \in Job, Create(j) PROVE GraphIInv'
<1>. DEFINE o == req[j]
            rows == NewRows(j)
            back == BackReference(j)
            new == rows \cup back
            kept == {l \in links : ~\E r \in back : l.table = "reference" /\ l.of = r.of
                                                    /\ TypeOf(l.to) = TypeOf(r.to)}
            there == alive \cup {j}
<1>1. at[j] = "checked" /\ o.op = "create" /\ UnderWay(j)
  BY DEF Create, At, UnderWay
<1>2. \/ Fail(j, "not_found")
      \/ /\ backend = "postgres" => \A l \in new : {l.of, l.to} \ {j} \subseteq alive
         /\ alive' = there
         /\ links' = (kept \cup back) \cup rows
         /\ UNCHANGED listType /\ Commits(j)
  BY DEF Create, WithReferences
<1>3. CASE Fail(j, "not_found")
  BY <1>1, <1>3, FailKeeps
<1>4. CASE /\ backend = "postgres" => \A l \in new : {l.of, l.to} \ {j} \subseteq alive
           /\ alive' = there
           /\ links' = (kept \cup back) \cup rows
           /\ UNCHANGED listType /\ Commits(j)
  <2>1. /\ kept \subseteq links /\ kept \in SUBSET LinkRow /\ Keyed(links)
        /\ \A l \in kept : l.of # j /\ l.to # j
    BY <1>1, KeysDiffer DEF GraphIInv, GraphTypeOK, Fresh
  <2>2. /\ \A l \in rows : l \in LinkRow /\ l.of = j
        /\ \A l \in back : l \in LinkRow /\ l.of # j /\ l.to = j /\ l.table = "reference"
                           /\ l.primary = FALSE
    <3>1. \A l \in rows : l \in LinkRow /\ l.of = j
      BY <1>1, NewRowIs
    <3>2. \A l \in back : /\ l \in LinkRow /\ l.table = "reference" /\ l.to = j
                          /\ l.primary = FALSE /\ l.of \in o.refs
      BY <1>1, BackRowIs
    <3>3. o.refs \subseteq OldId /\ j \notin OldId
      BY <1>1, CreateTyped, GraphAssumption
    <3>. QED
      BY <3>1, <3>2, <3>3
  <2>3. Keyed(rows) /\ \A l, m \in rows : l.table = m.table
                          /\ l.table \in {"company_people", "deal_stakeholders"} => l = m
    BY <1>1, NewRowsKeyed
  <2>4. \A l \in new : MayCome(j, l, there)
    BY <1>1, <1>4, NewRowsMayCome
  <2>5. Kept(kept)
    BY <2>1, SameRowMeans DEF Kept
  <2>6. alive \subseteq alive' /\ alive' \subseteq Id
    BY <1>4 DEF GraphIInv, GraphTypeOK, Id
  <2>. HIDE DEF kept, rows, back
  <2>7. new \in SUBSET LinkRow /\ links' = kept \cup new
    BY <1>4, <2>2
  <2>8. Keyed(kept \cup new)
    <3>. SUFFICES ASSUME NEW l \in kept \cup new, NEW m \in kept \cup new, SameRow(l, m)
                  PROVE  l = m
      BY DEF Keyed
    <3>1. l.table = m.table /\ l.of = m.of /\ l.to = m.to
      BY SameRowMeans
    <3>2. CASE l \in kept
      BY <2>1, <2>2, <3>1, <3>2 DEF Keyed
    <3>3. CASE l \in rows
      BY <2>1, <2>2, <2>3, <3>1, <3>3 DEF Keyed
    <3>4. CASE l \in back
      <4>1. m \in back
        BY <2>1, <2>2, <3>1, <3>4
      <4>. QED
        BY <2>2, <3>4, <4>1, RowsEqual
    <3>. QED
      BY <3>2, <3>3, <3>4
  <2>9. OnePrimaryOnSqlite'
    <3>1. backend' = backend
      BY <1>4 DEF Commits, Goto
    <3>. SUFFICES ASSUME backend = "sqlite", NEW l \in kept \cup new, NEW m \in kept \cup new,
                         l.table \in {"company_people", "deal_stakeholders"}, m.table = l.table,
                         l.of = m.of, l.primary, m.primary
                  PROVE  l = m
      BY <2>7, <3>1 DEF OnePrimaryOnSqlite
    <3>2. CASE l \in kept
      BY <2>1, <2>2, <3>2 DEF GraphIInv, OnePrimaryOnSqlite
    <3>3. CASE l \in rows
      BY <2>1, <2>2, <2>3, <3>3
    <3>4. CASE l \in back
      BY <2>2, <3>4
    <3>. QED
      BY <3>2, <3>3, <3>4
  <2>10. UNCHANGED listType /\ Commits(j) /\ \A l \in new : MayCome(j, l, alive')
    BY <1>4, <2>4
  <2>. HIDE DEF new
  <2>. QED
    BY <1>1, <2>1, <2>5, <2>6, <2>7, <2>8, <2>9, <2>10, RowsKeep
<1>. QED
  BY <1>2, <1>3, <1>4

LEMMA GraphNextKeeps == GraphIInv /\ [GraphNext]_graphVars => GraphIInv'
<1>. SUFFICES ASSUME GraphIInv, [GraphNext]_graphVars
              PROVE  GraphIInv'
  OBVIOUS
<1>1. ASSUME NEW j \in Job, Step(j)
      PROVE  GraphIInv'
  BY <1>1, CheckKeeps, ClearPrimaryKeeps, PutLinkKeeps, UnlinkKeeps, AddMembersKeeps,
     RemoveMembersKeeps, RetypeKeeps, CreateKeeps, ReferKeeps, HardDeleteKeeps DEF Step
<1>2. CASE UNCHANGED graphVars
  <2>. USE <1>2 DEF graphVars, tables
  <2>1. GraphTypeOK'
    BY DEF GraphIInv, GraphTypeOK
  <2>2. NoDanglingRow' /\ OnePrimaryOnSqlite' /\ Fresh' /\ Alone'
    BY DEF GraphIInv, NoDanglingRow, OnePrimaryOnSqlite, Fresh, Alone, UnderWay
  <2>3. TypedListOnSqlite' /\ RowsFit' /\ MembersTyped'
    BY TypesStay DEF GraphIInv, TypedListOnSqlite, RowsFit, MembersTyped, UnderWay
  <2>4. ReadStands'
    <3>1. \A q : Named(q)' = Named(q)
      BY DEF Named
    <3>2. \A q : RowAsked(q)' = RowAsked(q) /\ ClearedRows(q)' = ClearedRows(q)
      BY DEF RowAsked, ClearedRows, TheRow, RowsOf
    <3>3. \A q : MayRetype(q)' = MayRetype(q) /\ MayAdd(q)' = MayAdd(q)
      BY TypesStay DEF MayRetype, MayAdd
    <3>. QED
      BY <3>1, <3>2, <3>3 DEF GraphIInv, ReadStands, Stands, UnderWay
  <2>. QED
    BY <2>1, <2>2, <2>3, <2>4 DEF GraphIInv
<1>. QED
  BY <1>1, <1>2 DEF GraphNext

\* No row or column outlives a record it names, whatever operations run at once:
\* each store's deletions reach every table that can join the record
\* (repositories.ts:717, :881, :1257, :1406, :1576; the keys of schema.sql).  On
\* SQLite a typed list has members of its type only, and a person or a deal one
\* primary row ("Only one primary company per person", pg/repositories.ts:1306).
THEOREM RecordsInOrder == GraphSpec => []GraphInv
<1>1. GraphIInv => GraphInv
  BY DEF GraphIInv, GraphInv
<1>. QED
  BY <1>1, GraphInitIInv, GraphNextKeeps, PTL DEF GraphSpec
=============================================================================
