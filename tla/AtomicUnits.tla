------------------------------ MODULE AtomicUnits ------------------------------
(***************************************************************************)
(* What ports.tx and the identity store's withTransaction promise a caller *)
(* (packages/core/src/ports.ts, packages/db/src/identity.ts): the writes   *)
(* of a unit reach the database together, when its outermost call returns; *)
(* a call that throws takes back its own writes and those of the calls it  *)
(* made, and nothing else.                                                 *)
(***************************************************************************)
EXTENDS Integers, Sequences

CONSTANTS Chain,   \* the requests
          Write    \* what they write

VARIABLES
  db,       \* the writes the database has
  unit,     \* unit[c]: for each call c has open, outermost first, its writes
  failing   \* failing[c]: an error is on its way out of c's innermost call

Init ==
  /\ db = {}
  /\ unit = [c \in Chain |-> << >>]
  /\ failing = [c \in Chain |-> FALSE]

Innermost(c) == Len(unit[c])

Around(c) == SubSeq(unit[c], 1, Innermost(c) - 1)

Enter(c) ==
  /\ ~failing[c]
  /\ unit' = [unit EXCEPT ![c] = Append(@, {})]
  /\ UNCHANGED <<db, failing>>

\* Outside a unit a write reaches the database by itself.
Perform(c) ==
  /\ ~failing[c]
  /\ \E w \in Write :
       IF unit[c] = << >>
         THEN db' = db \cup {w} /\ UNCHANGED unit
         ELSE unit' = [unit EXCEPT ![c][Innermost(c)] = @ \cup {w}] /\ UNCHANGED db
  /\ UNCHANGED failing

Fail(c) ==
  /\ ~failing[c]
  /\ failing' = [failing EXCEPT ![c] = TRUE]
  /\ UNCHANGED <<db, unit>>

\* The outermost call returns: its writes are the database's.
Finish(c) ==
  /\ ~failing[c]
  /\ Innermost(c) = 1
  /\ db' = db \cup unit[c][1]
  /\ unit' = [unit EXCEPT ![c] = << >>]
  /\ UNCHANGED failing

\* A nested call returns: its writes are its caller's.
Leave(c) ==
  /\ ~failing[c]
  /\ Innermost(c) > 1
  /\ unit' = [unit EXCEPT ![c] =
                [Around(c) EXCEPT ![Innermost(c) - 1] = @ \cup unit[c][Innermost(c)]]]
  /\ UNCHANGED <<db, failing>>

\* A call throws, if one is open; its caller may catch the error.
Throw(c) ==
  /\ failing[c]
  /\ unit' = [unit EXCEPT ![c] = IF @ = << >> THEN @ ELSE Around(c)]
  /\ \E caught \in BOOLEAN : failing' = [failing EXCEPT ![c] = ~caught]
  /\ UNCHANGED db

Step(c) == Enter(c) \/ Perform(c) \/ Fail(c) \/ Finish(c) \/ Leave(c) \/ Throw(c)

Next == \E c \in Chain : Step(c)

Spec == Init /\ [][Next]_<<db, unit, failing>>
=============================================================================
