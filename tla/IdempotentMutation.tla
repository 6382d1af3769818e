------------------------- MODULE IdempotentMutation -------------------------
(***************************************************************************)
(* What an Idempotency-Key promises the callers of hosting control: the    *)
(* mutation behind a key takes effect at most once, and every caller who   *)
(* is told of success is told of that one effect.  HostingReceipts shows   *)
(* how the receipts implement this.                                        *)
(***************************************************************************)
CONSTANTS Client,   \* callers; each repeats one request
          Key,      \* Idempotency-Key values
          keyOf,    \* the key each caller sends
          None

VARIABLES effect,   \* effect[k]: the caller whose execution took effect
          told      \* told[c]: the execution c was told of, if any

avars == <<effect, told>>

Init ==
  /\ effect = [k \in Key |-> None]
  /\ told = [c \in Client |-> None]

\* The mutation behind c's key takes effect.
Apply(c) ==
  /\ effect[keyOf[c]] = None
  /\ effect' = [effect EXCEPT ![keyOf[c]] = c]
  /\ UNCHANGED told

\* c is told of the effect behind its key, executed by c or by another caller.
Tell(c) ==
  /\ effect[keyOf[c]] # None
  /\ told' = [told EXCEPT ![c] = effect[keyOf[c]]]
  /\ UNCHANGED effect

\* c asks again, or is refused: it holds no success answer.
Forget(c) ==
  /\ told' = [told EXCEPT ![c] = None]
  /\ UNCHANGED effect

Next == \E c \in Client : Apply(c) \/ Tell(c) \/ Forget(c)

Spec == Init /\ [][Next]_avars

=============================================================================
