----------------------------- MODULE Hosting_proofs -----------------------------
(***************************************************************************)
(* Theorems about the two stateful parts of hosting control.               *)
(*                                                                         *)
(* HostingReceipts, for every set of callers and keys.  What holds on both *)
(* stores, however slow the callers are: types, and no success answer      *)
(* ahead of the database.  At-most-once and the refinement of              *)
(* IdempotentMutation need two things of the environment, Sound below: no  *)
(* live request outlasts the takeover window, and the statements of        *)
(* beginReceipt do not interleave with a release of the key.               *)
(*                                                                         *)
(* WorkspaceControl, for every set of users and of jobs and whatever the   *)
(* jobs are: its invariant Inv, and that expectedVersion is a              *)
(* compare-and-set.  Two facts carry them.  The job that holds the         *)
(* workspaces row is alone in changing the access row and in deleting the  *)
(* workspace (Held), so that the version it has read is still the version  *)
(* (JobInv); and on SQLite a unit of work that is open is alone (Alone),   *)
(* so that all it has read still stands (ReadStands), the owner included.  *)
(* On PostgreSQL the memberships are guarded by their index only.          *)
(***************************************************************************)
EXTENDS HostingReceipts, WorkspaceControl, FiniteSetTheorems, TLAPS

-----------------------------------------------------------------------------
(* The receipts.                                                           *)

Sound == Prompt /\ (Serial \/ MaxFailures = 0)

Completed(k) == receipts[k] # Null /\ receipts[k].state = "completed"
Pending(k) == receipts[k] # Null /\ receipts[k].state = "pending"

-----------------------------------------------------------------------------
(* Part 1: both stores, any timing.                                        *)

\* A takeover compares with a stale claim it read; a completeReceipt that
\* found a row keeps it locked; a completed receipt stores the response of a
\* committed execution under its own key.
TakingSound == \A c \in Client : stage[c] = "taking" =>
                 selected[c] # Null /\ selected[c].state = "pending" /\ selected[c].stale
HitSound == \A c \in Client : stage[c] = "closing" /\ hit[c] => ReceiptRow(c) # Null
StoredSound == \A k \in Key : Completed(k) =>
                 /\ receipts[k].response \in Client
                 /\ keyOf[receipts[k].response] = k
                 /\ runs[receipts[k].response] > 0
CommittedSound == \A c \in Client : stage[c] = "committed" => runs[c] > 0

Basic == ReceiptsTypeOK /\ TakingSound /\ HitSound /\ StoredSound /\ CommittedSound
           /\ AnswersAreRuns

LEMMA NewClaimType == ASSUME NEW c \in Client PROVE NewClaim(c) \in Receipt
  BY ClientAssumption DEF NewClaim, Receipt

\* A reply changes only the caller's own answer and control state.
LEMMA ReplyEffect ==
  ASSUME NEW c \in Client, NEW kind, NEW from, Reply(c, kind, from),
         stage \in [Client -> Control], answer \in [Client -> Answer]
  PROVE  /\ answer' = [answer EXCEPT ![c] = [kind |-> kind, from |-> from]]
         /\ answer'[c] = [kind |-> kind, from |-> from]
         /\ stage'[c] = "answered"
         /\ \A d \in Client \ {c} : answer'[d] = answer[d] /\ stage'[d] = stage[d]
         /\ stage' \in [Client -> Control]
  BY DEF Reply, Control

\* An answer from a receipt is well formed, and a replay comes from a
\* completed receipt with the caller's fingerprint.
LEMMA ReplyFromEffect ==
  ASSUME NEW c \in Client, NEW r \in Receipt, ReplyFrom(c, r),
         stage \in [Client -> Control], answer \in [Client -> Answer]
  PROVE  /\ answer' \in [Client -> Answer]
         /\ stage' \in [Client -> Control]
         /\ stage'[c] = "answered"
         /\ \A d \in Client \ {c} : answer'[d] = answer[d] /\ stage'[d] = stage[d]
         /\ \/ answer'[c].kind \in {"conflict", "in_progress"}
            \/ /\ answer'[c].kind = "replayed"
               /\ answer'[c].from = r.response
               /\ r.state = "completed"
<1>1. ASSUME Reply(c, "conflict", Null) PROVE
        answer' \in [Client -> Answer] /\ answer'[c].kind = "conflict"
  BY <1>1 DEF Reply, Answer
<1>2. ASSUME Reply(c, "in_progress", Null) PROVE
        answer' \in [Client -> Answer] /\ answer'[c].kind = "in_progress"
  BY <1>2 DEF Reply, Answer
<1>3. ASSUME Reply(c, "replayed", r.response) PROVE
        /\ answer' \in [Client -> Answer]
        /\ answer'[c].kind = "replayed" /\ answer'[c].from = r.response
  BY <1>3 DEF Reply, Answer, Receipt
<1>4. \E kind, from : Reply(c, kind, from)
  BY DEF ReplyFrom
<1> QED
  BY <1>1, <1>2, <1>3, <1>4, ReplyEffect DEF ReplyFrom

LEMMA BasicInit == ReceiptsInit => Basic
  BY ClientAssumption, ModeAssumption, NoneAssumption
  DEF ReceiptsInit, Basic, ReceiptsTypeOK, TakingSound, HitSound, StoredSound, CommittedSound,
      AnswersAreRuns, Completed, Control, Answer, ReceiptRow

\* The control state of the callers other than c is untouched.
OtherCallersKeep(c) ==
  \A d \in Client \ {c} : /\ stage'[d] = stage[d] /\ selected'[d] = selected[d]
                          /\ hit'[d] = hit[d] /\ answer'[d] = answer[d]

\* A step of c that leaves the receipts and the committed runs alone keeps
\* Basic when c's own part of it holds afterwards.
LEMMA LocalStep ==
  ASSUME Basic, ReceiptsTypeOK', NEW c \in Client, OtherCallersKeep(c),
         UNCHANGED <<receipts, runs>>,
         stage'[c] = "taking" =>
           selected'[c] # Null /\ selected'[c].state = "pending" /\ selected'[c].stale,
         stage'[c] = "closing" /\ hit'[c] => ReceiptRow(c) # Null,
         stage'[c] = "committed" => runs[c] > 0,
         answer'[c].kind \in {"executed", "replayed"} =>
           /\ answer'[c].from # Null
           /\ runs[answer'[c].from] > 0
           /\ SameKey(c, answer'[c].from)
  PROVE  Basic'
<1>1. TakingSound'
  BY DEF Basic, OtherCallersKeep, TakingSound
<1>2. HitSound'
  BY DEF Basic, OtherCallersKeep, HitSound, ReceiptRow
<1>3. StoredSound'
  BY DEF Basic, StoredSound, Completed
<1>4. CommittedSound'
  BY DEF Basic, OtherCallersKeep, CommittedSound
<1>5. AnswersAreRuns'
  BY DEF Basic, OtherCallersKeep, AnswersAreRuns, SameKey
<1> QED
  BY <1>1, <1>2, <1>3, <1>4, <1>5 DEF Basic

LEMMA SendKeeps == ASSUME Basic, NEW c \in Client, Send(c) PROVE Basic'
<1>1. [kind |-> "none", from |-> Null] \in Answer
  BY DEF Answer
<1>2. ReceiptsTypeOK'
  BY <1>1 DEF Basic, ReceiptsTypeOK, Send, Control
<1>3. OtherCallersKeep(c) /\ stage'[c] = "received" /\ answer'[c].kind = "none"
  BY DEF Basic, ReceiptsTypeOK, Send, OtherCallersKeep
<1> QED
  BY <1>2, <1>3, LocalStep DEF Send

LEMMA InsertClaimKeeps == ASSUME Basic, NEW c \in Client, InsertClaim(c) PROVE Basic'
<1>1. ReceiptsTypeOK'
  BY NewClaimType, ClientAssumption DEF Basic, ReceiptsTypeOK, InsertClaim, Control
<1>2. /\ OtherCallersKeep(c) /\ stage'[c] = "claimed"
      /\ UNCHANGED <<answer, runs>>
  BY DEF Basic, ReceiptsTypeOK, InsertClaim, OtherCallersKeep
<1>3. \A k \in Key : \/ receipts'[k] = receipts[k]
                     \/ /\ receipts'[k] # Null
                        /\ receipts'[k].state = "pending"
  BY NewClaimType, NoneAssumption, ClientAssumption
  DEF Basic, ReceiptsTypeOK, InsertClaim, NewClaim
<1>4. TakingSound' /\ CommittedSound'
  BY <1>2 DEF Basic, OtherCallersKeep, TakingSound, CommittedSound
<1>5. HitSound'
  BY <1>2, <1>3, ClientAssumption DEF Basic, OtherCallersKeep, HitSound, ReceiptRow
<1>6. StoredSound'
  BY <1>2, <1>3 DEF Basic, StoredSound, Completed
<1>7. AnswersAreRuns'
  BY <1>2 DEF Basic, AnswersAreRuns, SameKey
<1> QED
  BY <1>1, <1>4, <1>5, <1>6, <1>7 DEF Basic

LEMMA InsertConflictKeeps ==
  ASSUME Basic, NEW c \in Client, InsertConflict(c) PROVE Basic'
<1>1. ReceiptsTypeOK' /\ OtherCallersKeep(c) /\ stage'[c] = "inserted" /\ answer'[c] = answer[c]
  BY DEF Basic, ReceiptsTypeOK, InsertConflict, Control, OtherCallersKeep
<1> QED
  BY <1>1, LocalStep DEF InsertConflict, Basic, AnswersAreRuns

LEMMA ReadNothingKeeps ==
  ASSUME Basic, NEW c \in Client, ReadNothing(c) PROVE Basic'
<1>1. ReceiptsTypeOK' /\ OtherCallersKeep(c) /\ stage'[c] = "claimed" /\ answer'[c] = answer[c]
  BY DEF Basic, ReceiptsTypeOK, ReadNothing, Control, OtherCallersKeep
<1> QED
  BY <1>1, LocalStep DEF ReadNothing, Basic, AnswersAreRuns

\* A replay from a completed receipt of the caller's own key.
LEMMA StoredAnswer ==
  ASSUME Basic, NEW c \in Client, Completed(keyOf[c])
  PROVE  /\ ReceiptRow(c).response # Null
         /\ runs[ReceiptRow(c).response] > 0
         /\ SameKey(c, ReceiptRow(c).response)
  BY ClientAssumption DEF Basic, StoredSound, SameKey, ReceiptRow

LEMMA ReadReceiptKeeps ==
  ASSUME Basic, NEW c \in Client, ReadReceipt(c) PROVE Basic'
<1>1. ReceiptRow(c) \in Receipt /\ ReceiptRow(c) # Null
  BY ClientAssumption DEF ReadReceipt, StaleClaim, Basic, ReceiptsTypeOK, ReceiptRow
<1>2. ReplyFrom(c, ReceiptRow(c))
  BY DEF ReadReceipt, StaleClaim
<1>3. /\ answer' \in [Client -> Answer] /\ stage' \in [Client -> Control]
      /\ stage'[c] = "answered"
      /\ \A d \in Client \ {c} : answer'[d] = answer[d] /\ stage'[d] = stage[d]
      /\ \/ answer'[c].kind \in {"conflict", "in_progress"}
         \/ /\ answer'[c].kind = "replayed"
            /\ answer'[c].from = ReceiptRow(c).response
            /\ ReceiptRow(c).state = "completed"
  BY <1>1, <1>2, ReplyFromEffect DEF Basic, ReceiptsTypeOK
<1>4. ReceiptsTypeOK' /\ OtherCallersKeep(c)
  BY <1>3 DEF ReadReceipt, StaleClaim, Basic, ReceiptsTypeOK, OtherCallersKeep
<1>5. answer'[c].kind \in {"executed", "replayed"} =>
        /\ answer'[c].from # Null
        /\ runs[answer'[c].from] > 0
        /\ SameKey(c, answer'[c].from)
  BY <1>1, <1>3, StoredAnswer DEF Completed, ReceiptRow
<1> QED
  BY <1>3, <1>4, <1>5, LocalStep DEF ReadReceipt, StaleClaim

LEMMA ReadStaleKeeps ==
  ASSUME Basic, NEW c \in Client, ReadStale(c) PROVE Basic'
<1>1. ReceiptRow(c) \in Receipt
  BY ClientAssumption DEF ReadStale, StaleClaim, Basic, ReceiptsTypeOK, ReceiptRow
<1>2. ReceiptsTypeOK' /\ OtherCallersKeep(c)
  BY <1>1 DEF Basic, ReceiptsTypeOK, ReadStale, StaleClaim, Control, OtherCallersKeep
<1>3. stage'[c] = "taking" /\ selected'[c] = ReceiptRow(c) /\ answer'[c] = answer[c]
  BY DEF Basic, ReceiptsTypeOK, ReadStale, StaleClaim
<1> QED
  BY <1>2, <1>3, LocalStep DEF ReadStale, StaleClaim, Basic, AnswersAreRuns

LEMMA TakeoverKeeps == ASSUME Basic, NEW c \in Client, Takeover(c) PROVE Basic'
<1>1. selected[c] \in Receipt /\ selected[c].state = "pending" /\ stage[c] = "taking"
  BY DEF Takeover, Basic, ReceiptsTypeOK, TakingSound
<1>2. CASE ReceiptRow(c) = selected[c]
  <2>1. /\ receipts' = [receipts EXCEPT ![keyOf[c]].holder = c,
                                        ![keyOf[c]].stale = FALSE]
        /\ stage' = [stage EXCEPT ![c] = "claimed"]
        /\ selected' = [selected EXCEPT ![c] = Null]
        /\ UNCHANGED <<answer, hit, runs, failures, crashes>>
    BY <1>2 DEF Takeover
  <2>2. \A k \in Key : \/ receipts'[k] = receipts[k]
                       \/ /\ receipts'[k] \in Receipt
                          /\ receipts'[k].state = "pending"
    BY <1>1, <1>2, <2>1, ClientAssumption DEF ReceiptRow, Basic, ReceiptsTypeOK, Receipt
  <2>3. ReceiptsTypeOK'
    <3>1. receipts' \in [Key -> Receipt \cup {Null}]
      BY <2>1, <2>2 DEF Basic, ReceiptsTypeOK
    <3> QED
      BY <2>1, <3>1 DEF Basic, ReceiptsTypeOK, Control
  <2>4. OtherCallersKeep(c) /\ stage'[c] = "claimed"
    BY <2>1 DEF Basic, ReceiptsTypeOK, OtherCallersKeep
  <2>5. TakingSound' /\ CommittedSound'
    BY <2>1, <2>4 DEF Basic, OtherCallersKeep, TakingSound, CommittedSound
  <2>6. HitSound'
    BY <2>2, <2>4, ClientAssumption, NoneAssumption
    DEF Basic, OtherCallersKeep, HitSound, ReceiptRow
  <2>7. StoredSound'
    BY <2>1, <2>2 DEF Basic, StoredSound, Completed
  <2>8. AnswersAreRuns'
    BY <2>1 DEF Basic, AnswersAreRuns, SameKey
  <2> QED
    BY <2>3, <2>5, <2>6, <2>7, <2>8 DEF Basic
<1>3. CASE ReceiptRow(c) # selected[c]
  <2>1. ReplyFrom(c, selected[c]) /\ UNCHANGED <<receipts, hit, runs, failures, crashes>>
    BY <1>3 DEF Takeover
  <2>2. /\ answer' \in [Client -> Answer] /\ stage' \in [Client -> Control]
        /\ stage'[c] = "answered" /\ answer'[c].kind \in {"conflict", "in_progress"}
        /\ \A d \in Client \ {c} : answer'[d] = answer[d] /\ stage'[d] = stage[d]
    BY <1>1, <2>1, ReplyFromEffect DEF Basic, ReceiptsTypeOK
  <2>3. ReceiptsTypeOK' /\ OtherCallersKeep(c)
    BY <2>1, <2>2 DEF Takeover, Basic, ReceiptsTypeOK, OtherCallersKeep
  <2> QED
    BY <2>1, <2>2, <2>3, LocalStep
<1> QED
  BY <1>2, <1>3

LEMMA ExecuteKeeps == ASSUME Basic, NEW c \in Client, Execute(c) PROVE Basic'
<1>1. (ReceiptRow(c) # Null) \in BOOLEAN
  OBVIOUS
<1>2. ReceiptsTypeOK' /\ OtherCallersKeep(c)
  BY <1>1 DEF Basic, ReceiptsTypeOK, Execute, Control, OtherCallersKeep
<1>3. stage'[c] = "closing" /\ (hit'[c] <=> ReceiptRow(c) # Null) /\ answer'[c] = answer[c]
  BY DEF Basic, ReceiptsTypeOK, Execute
<1> QED
  BY <1>2, <1>3, LocalStep DEF Execute, Basic, AnswersAreRuns

LEMMA CommitKeepsReceipts == ASSUME Basic, NEW c \in Client, Commit(c) PROVE Basic'
<1>1. /\ runs' \in [Client -> Nat] /\ runs'[c] > 0
      /\ \A d \in Client : runs[d] > 0 => runs'[d] > 0
  BY DEF Commit, Closed, Basic, ReceiptsTypeOK
<1>2. /\ OtherCallersKeep(c) /\ stage'[c] = "committed"
      /\ UNCHANGED <<selected, answer>>
      /\ stage' \in [Client -> Control] /\ hit' \in [Client -> BOOLEAN]
  BY DEF Commit, Closed, Basic, ReceiptsTypeOK, OtherCallersKeep, Control
<1>3. \A k \in Key : \/ receipts'[k] = receipts[k]
                     \/ /\ k = keyOf[c]
                        /\ receipts'[k] \in Receipt
                        /\ receipts'[k].response = c
  <2>1. CASE hit[c]
    <3>1. ReceiptRow(c) \in Receipt
      BY <2>1, ClientAssumption DEF Basic, ReceiptsTypeOK, HitSound, Commit, Closed, ReceiptRow
    <3>2. receipts' = [receipts EXCEPT ![keyOf[c]].state = "completed",
                                       ![keyOf[c]].response = c]
      BY <2>1 DEF Commit, Closed
    <3> QED
      BY <3>1, <3>2, ClientAssumption DEF Basic, ReceiptsTypeOK, Receipt, ReceiptRow
  <2>2. CASE ~hit[c]
    BY <2>2 DEF Commit, Closed
  <2> QED
    BY <2>1, <2>2
<1>4. ReceiptsTypeOK'
  <2>1. receipts' \in [Key -> Receipt \cup {Null}]
    <3>1. \E f : receipts' = [receipts EXCEPT ![keyOf[c]] = f] \/ receipts' = receipts
      BY DEF Commit, Closed
    <3> QED
      BY <1>3, <3>1 DEF Basic, ReceiptsTypeOK
  <2> QED
    BY <1>1, <1>2, <2>1 DEF Commit, Closed, Basic, ReceiptsTypeOK
<1>5. StoredSound'
  BY <1>1, <1>3, ClientAssumption DEF Basic, StoredSound, Completed
<1>6. HitSound'
  BY <1>2, <1>3, NoneAssumption, ClientAssumption DEF Basic, HitSound, OtherCallersKeep, ReceiptRow
<1>7. TakingSound' /\ CommittedSound'
  BY <1>1, <1>2 DEF Basic, TakingSound, CommittedSound, OtherCallersKeep
<1>8. AnswersAreRuns'
  <2>1. SUFFICES ASSUME NEW d \in Client, answer[d].kind \in {"executed", "replayed"}
                 PROVE  /\ answer[d].from # Null
                        /\ runs'[answer[d].from] > 0
                        /\ SameKey(d, answer[d].from)
    BY <1>2 DEF AnswersAreRuns, SameKey
  <2>2. answer[d].from \in Client \cup {Null}
    BY DEF Basic, ReceiptsTypeOK, Answer
  <2> QED
    BY <1>1, <2>1, <2>2 DEF Basic, AnswersAreRuns
<1> QED
  BY <1>4, <1>5, <1>6, <1>7, <1>8 DEF Basic

LEMMA ThrowKeeps == ASSUME Basic, NEW c \in Client, Throw(c) PROVE Basic'
<1>1. ReceiptsTypeOK' /\ OtherCallersKeep(c) /\ stage'[c] = "failed" /\ answer'[c] = answer[c]
  BY ModeAssumption DEF Basic, ReceiptsTypeOK, Throw, Control, OtherCallersKeep
<1> QED
  BY <1>1, LocalStep DEF Throw, Basic, AnswersAreRuns

LEMMA AbandonKeeps == ASSUME Basic, NEW c \in Client, Abandon(c) PROVE Basic'
<1>1. [kind |-> "error", from |-> Null] \in Answer
  BY DEF Answer
<1>2. /\ answer' \in [Client -> Answer] /\ stage' \in [Client -> Control]
      /\ answer'[c].kind = "error" /\ stage'[c] = "answered"
      /\ OtherCallersKeep(c)
  BY <1>1, ReplyEffect DEF Abandon, Basic, ReceiptsTypeOK, OtherCallersKeep
<1>3. \A k \in Key : \/ receipts'[k] = receipts[k]
                     \/ k = keyOf[c] /\ receipts'[k] = Null
  BY ClientAssumption DEF Abandon, Basic, ReceiptsTypeOK
<1>4. ReceiptsTypeOK'
  BY <1>2 DEF Abandon, Basic, ReceiptsTypeOK
<1>5. HitSound'
  <2>1. \A d \in Client \ {c} : keyOf[d] = keyOf[c] /\ stage[d] = "closing" => ~hit[d]
    BY DEF Abandon, RowLocked
  <2> QED
    BY <1>2, <1>3, <2>1, ClientAssumption DEF Basic, HitSound, OtherCallersKeep, ReceiptRow
<1>6. StoredSound'
  BY <1>3 DEF Abandon, Basic, StoredSound, Completed
<1>7. TakingSound' /\ CommittedSound'
  BY <1>2 DEF Abandon, Basic, TakingSound, CommittedSound, OtherCallersKeep
<1>8. AnswersAreRuns'
  BY <1>2 DEF Abandon, Basic, AnswersAreRuns, SameKey, OtherCallersKeep
<1> QED
  BY <1>4, <1>5, <1>6, <1>7, <1>8 DEF Basic

LEMMA RespondKeeps == ASSUME Basic, NEW c \in Client, Respond(c) PROVE Basic'
<1>1. [kind |-> "executed", from |-> c] \in Answer
  BY DEF Answer
<1>2. /\ answer' \in [Client -> Answer] /\ stage' \in [Client -> Control]
      /\ answer'[c].from = c /\ stage'[c] = "answered" /\ OtherCallersKeep(c)
  BY <1>1, ReplyEffect DEF Respond, Basic, ReceiptsTypeOK, OtherCallersKeep
<1>3. ReceiptsTypeOK'
  BY <1>2 DEF Respond, Basic, ReceiptsTypeOK
<1>4. runs[c] > 0 /\ c # Null
  BY ClientAssumption DEF Respond, Basic, CommittedSound
<1> QED
  BY <1>2, <1>3, <1>4, LocalStep DEF Respond, SameKey

LEMMA CrashKeeps == ASSUME Basic, NEW c \in Client, Crash(c) PROVE Basic'
<1>1. [kind |-> "lost", from |-> Null] \in Answer
  BY DEF Answer
<1>2. /\ answer' \in [Client -> Answer] /\ stage' \in [Client -> Control]
      /\ answer'[c].kind = "lost" /\ stage'[c] = "answered" /\ OtherCallersKeep(c)
  BY <1>1, ReplyEffect DEF Crash, Basic, ReceiptsTypeOK, OtherCallersKeep
<1>3. /\ crashes' \in 0 .. MaxCrashes
      /\ selected' \in [Client -> Receipt \cup {Null}] /\ hit' \in [Client -> BOOLEAN]
  BY ModeAssumption DEF Crash, Basic, ReceiptsTypeOK
<1>4. ReceiptsTypeOK'
  BY <1>2, <1>3 DEF Crash, Basic, ReceiptsTypeOK
<1> QED
  BY <1>2, <1>4, LocalStep DEF Crash

LEMMA ElapseKeeps == ASSUME Basic, NEW k \in Key, Elapse(k) PROVE Basic'
<1>1. /\ receipts[k] \in Receipt /\ receipts[k].state = "pending"
      /\ receipts' = [receipts EXCEPT ![k].stale = TRUE]
      /\ UNCHANGED <<stage, selected, hit, answer, runs, failures, crashes>>
  BY DEF Elapse, Basic, ReceiptsTypeOK
<1>2. \A j \in Key : \/ receipts'[j] = receipts[j]
                     \/ /\ receipts'[j] \in Receipt
                        /\ receipts'[j].state = "pending"
  BY <1>1 DEF Basic, ReceiptsTypeOK, Receipt
<1>3. receipts' \in [Key -> Receipt \cup {Null}]
  BY <1>1, <1>2 DEF Basic, ReceiptsTypeOK
<1>4. ReceiptsTypeOK'
  BY <1>1, <1>3 DEF Basic, ReceiptsTypeOK
<1>5. HitSound'
  BY <1>1, <1>2, NoneAssumption, ClientAssumption DEF Basic, HitSound, ReceiptRow
<1>6. StoredSound'
  BY <1>1, <1>2 DEF Basic, StoredSound, Completed
<1>7. TakingSound' /\ CommittedSound' /\ AnswersAreRuns'
  BY <1>1 DEF Basic, TakingSound, CommittedSound, AnswersAreRuns, SameKey
<1> QED
  BY <1>4, <1>5, <1>6, <1>7 DEF Basic

LEMMA BasicStep == Basic /\ [ReceiptsNext]_receiptsVars => Basic'
<1> SUFFICES ASSUME Basic, [ReceiptsNext]_receiptsVars PROVE Basic'
  OBVIOUS
<1>1. ASSUME NEW c \in Client, ServeReceipt(c) PROVE Basic'
  BY <1>1, InsertClaimKeeps, InsertConflictKeeps, ReadNothingKeeps,
     ReadReceiptKeeps, ReadStaleKeeps, TakeoverKeeps, ExecuteKeeps,
     CommitKeepsReceipts, AbandonKeeps, RespondKeeps DEF ServeReceipt
<1>2. CASE UNCHANGED receiptsVars
  BY <1>2 DEF receiptsVars, Basic, ReceiptsTypeOK, TakingSound, HitSound, StoredSound,
              CommittedSound, AnswersAreRuns, Completed, ReceiptRow, SameKey
<1> QED
  BY <1>1, <1>2, SendKeeps, ThrowKeeps, CrashKeeps, ElapseKeeps DEF ReceiptsNext

LEMMA BasicHolds == ReceiptsSpec => []Basic
  BY BasicInit, BasicStep, PTL DEF ReceiptsSpec

\* Type correctness, on both stores and for every bound.
THEOREM TypeCorrect == ReceiptsSpec => []ReceiptsTypeOK
<1>1. Basic => ReceiptsTypeOK
  BY DEF Basic
<1> QED
  BY <1>1, BasicHolds, PTL

\* Whoever is told of an execution is told of one that committed under its
\* own key: on PostgreSQL as on SQLite, and however slow the callers are.
THEOREM NoAnswerAheadOfCommit == ReceiptsSpec => []AnswersAreRuns
<1>1. Basic => AnswersAreRuns
  BY DEF Basic
<1> QED
  BY <1>1, BasicHolds, PTL

-----------------------------------------------------------------------------
(* Part 2: when no live request outlasts the takeover window and a release *)
(* cannot fall between the statements of a beginReceipt.                   *)

\* Whoever believes it owns its key holds the key's fresh pending claim.
HoldInv == \A c \in Client : Holds(c) =>
             /\ ReceiptRow(c) # Null
             /\ ReceiptRow(c).state = "pending" /\ ReceiptRow(c).holder = c /\ ~ReceiptRow(c).stale
HitInv == \A c \in Client : stage[c] = "closing" => hit[c]
ConflictInv == \A c \in Client : stage[c] \in {"inserted", "taking"} => ReceiptRow(c) # Null
FailInv == MaxFailures = 0 => \A c \in Client : stage[c] # "failed"
OnceInv == \A c \in Client : runs[c] \in 0 .. 1

ReceiptsIInv == Basic /\ HoldInv /\ HitInv /\ ConflictInv /\ FailInv /\ OnceInv
          /\ ReceiptTellsRun

LEMMA IInvOneHolder == ReceiptsIInv => OneHolder
  BY DEF ReceiptsIInv, HoldInv, OneHolder, SameKey, ReceiptRow

\* A key that is pending or free has had no committed run.
LEMMA NoRunBefore ==
  ASSUME ReceiptsIInv, NEW c \in Client, ~Completed(keyOf[c])
  PROVE  runs[c] = 0
  BY DEF ReceiptsIInv, ReceiptTellsRun, Completed, ReceiptRow, OnceInv

LEMMA IInvInit == ReceiptsInit => ReceiptsIInv
  BY BasicInit, ClientAssumption, ModeAssumption
  DEF ReceiptsInit, ReceiptsIInv, HoldInv, HitInv, ConflictInv, FailInv, OnceInv,
      ReceiptTellsRun, Holds, ReceiptRow

\* A step of c that leaves receipts and runs alone keeps ReceiptsIInv when c's own
\* part of it holds afterwards.
LEMMA LocalInv ==
  ASSUME ReceiptsIInv, Basic', NEW c \in Client, OtherCallersKeep(c),
         UNCHANGED <<receipts, runs>>,
         stage'[c] \in {"claimed", "closing", "failed"} => Holds(c),
         stage'[c] = "closing" => hit'[c],
         stage'[c] \in {"inserted", "taking"} => ReceiptRow(c) # Null,
         stage'[c] = "failed" => MaxFailures # 0
  PROVE  ReceiptsIInv'
<1>1. HoldInv'
  BY DEF ReceiptsIInv, HoldInv, Holds, ReceiptRow, OtherCallersKeep
<1>2. HitInv' /\ ConflictInv' /\ FailInv'
  BY DEF ReceiptsIInv, HitInv, ConflictInv, FailInv, ReceiptRow, OtherCallersKeep
<1>3. OnceInv' /\ ReceiptTellsRun'
  BY DEF ReceiptsIInv, OnceInv, ReceiptTellsRun, ReceiptRow
<1> QED
  BY <1>1, <1>2, <1>3 DEF ReceiptsIInv

\* A caller's answer alone changes with a reply.
LEMMA AnsweredInv ==
  ASSUME ReceiptsIInv, Basic', NEW c \in Client, OtherCallersKeep(c),
         UNCHANGED <<receipts, runs>>, stage'[c] = "answered"
  PROVE  ReceiptsIInv'
  BY LocalInv

\* A row found by an INSERT stays while no row of any key goes away.
LEMMA ConflictKept ==
  ASSUME ReceiptsIInv, NEW c \in Client, OtherCallersKeep(c),
         stage'[c] \notin {"inserted", "taking"},
         \A k \in Key : receipts[k] # Null => receipts'[k] # Null
  PROVE  ConflictInv'
<1>1. \A d \in Client : stage'[d] \in {"inserted", "taking"} => ReceiptRow(d) # Null
  BY DEF ReceiptsIInv, ConflictInv, OtherCallersKeep
<1> QED
  BY <1>1, ClientAssumption DEF ConflictInv, ReceiptRow

\* While nothing commits, a receipt that is not completed may change in any
\* way that does not complete it.
LEMMA ReceiptTellsKept ==
  ASSUME ReceiptsIInv, NEW k \in Key, ~Completed(k), ~Completed(k)', UNCHANGED runs,
         \A j \in Key \ {k} : receipts'[j] = receipts[j]
  PROVE  ReceiptTellsRun'
<1> SUFFICES ASSUME NEW d \in Client
             PROVE  (runs[d] > 0 <=> /\ ReceiptRow(d) # Null
                                     /\ ReceiptRow(d).state = "completed"
                                     /\ ReceiptRow(d).response = d)'
  BY DEF ReceiptTellsRun
<1>1. CASE keyOf[d] = k
  BY <1>1 DEF ReceiptsIInv, ReceiptTellsRun, Completed, ReceiptRow
<1>2. CASE keyOf[d] # k
  BY <1>2, ClientAssumption DEF ReceiptsIInv, ReceiptTellsRun, ReceiptRow
<1> QED
  BY <1>1, <1>2

LEMMA ReplyFromOthers ==
  ASSUME ReceiptsIInv, NEW c \in Client, NEW r \in Receipt, ReplyFrom(c, r),
         \A d \in Client \ {c} : selected'[d] = selected[d] /\ hit'[d] = hit[d]
  PROVE  OtherCallersKeep(c) /\ stage'[c] = "answered"
  BY ReplyFromEffect DEF ReceiptsIInv, Basic, ReceiptsTypeOK, OtherCallersKeep

LEMMA IInvStep == ASSUME Sound, ReceiptsIInv, [ReceiptsNext]_receiptsVars PROVE ReceiptsIInv'
<1> USE ClientAssumption, ModeAssumption
<1>b. Basic'
  BY BasicStep DEF ReceiptsIInv
<1>t. ReceiptsTypeOK
  BY DEF ReceiptsIInv, Basic
<1>1. ASSUME NEW c \in Client, Send(c) PROVE ReceiptsIInv'
  <2>1. OtherCallersKeep(c) /\ stage'[c] = "received" /\ UNCHANGED <<receipts, runs>>
    BY <1>1, <1>t DEF Send, ReceiptsTypeOK, OtherCallersKeep
  <2> QED
    BY <1>b, <2>1, LocalInv
<1>2. ASSUME NEW c \in Client, InsertClaim(c) PROVE ReceiptsIInv'
  <2>1. /\ OtherCallersKeep(c) /\ stage'[c] = "claimed" /\ UNCHANGED runs
        /\ ReceiptRow(c) = Null
    BY <1>2, <1>t DEF InsertClaim, ReceiptsTypeOK, OtherCallersKeep
  <2>2. /\ receipts'[keyOf[c]] = NewClaim(c)
        /\ \A k \in Key \ {keyOf[c]} : receipts'[k] = receipts[k]
    BY <1>2, <1>t DEF InsertClaim, ReceiptsTypeOK
  <2>3. NewClaim(c) # Null
    BY NewClaimType, NoneAssumption
  <2>4. HoldInv'
    BY <2>1, <2>2, <2>3 DEF ReceiptsIInv, HoldInv, Holds, ReceiptRow, OtherCallersKeep, NewClaim
  <2>5. HitInv' /\ FailInv'
    BY <2>1 DEF ReceiptsIInv, HitInv, FailInv, OtherCallersKeep
  <2>6. ConflictInv'
    BY <2>1, <2>2, <2>3, ConflictKept
  <2>7. OnceInv'
    BY <2>1 DEF ReceiptsIInv, OnceInv
  <2>8. ReceiptTellsRun'
    BY <2>1, <2>2, <2>3, ReceiptTellsKept DEF Completed, ReceiptRow, NewClaim
  <2> QED
    BY <1>b, <2>4, <2>5, <2>6, <2>7, <2>8 DEF ReceiptsIInv
<1>3. ASSUME NEW c \in Client, InsertConflict(c) PROVE ReceiptsIInv'
  <2>1. /\ OtherCallersKeep(c) /\ stage'[c] = "inserted" /\ ReceiptRow(c) # Null
        /\ UNCHANGED <<receipts, runs>>
    BY <1>3, <1>t DEF InsertConflict, ReceiptsTypeOK, OtherCallersKeep
  <2> QED
    BY <1>b, <2>1, LocalInv
<1>4. ASSUME NEW c \in Client, ReadNothing(c) PROVE ReceiptsIInv'
  BY <1>4 DEF ReadNothing, ReceiptsIInv, ConflictInv
<1>5. ASSUME NEW c \in Client, ReadReceipt(c) PROVE ReceiptsIInv'
  <2>1. ReceiptRow(c) \in Receipt
    BY <1>5, <1>t DEF ReadReceipt, StaleClaim, ReceiptsTypeOK, ReceiptRow
  <2>2. OtherCallersKeep(c) /\ stage'[c] = "answered" /\ UNCHANGED <<receipts, runs>>
    BY <1>5, <2>1, ReplyFromOthers DEF ReadReceipt, StaleClaim
  <2> QED
    BY <1>b, <2>2, AnsweredInv
<1>6. ASSUME NEW c \in Client, ReadStale(c) PROVE ReceiptsIInv'
  <2>1. /\ OtherCallersKeep(c) /\ stage'[c] = "taking" /\ ReceiptRow(c) # Null
        /\ UNCHANGED <<receipts, runs>>
    BY <1>6, <1>t DEF ReadStale, StaleClaim, ReceiptsTypeOK, OtherCallersKeep
  <2> QED
    BY <1>b, <2>1, LocalInv
<1>7. ASSUME NEW c \in Client, Takeover(c) PROVE ReceiptsIInv'
  <2>1. selected[c] \in Receipt /\ selected[c].state = "pending" /\ selected[c].stale
    BY <1>7, <1>t DEF Takeover, ReceiptsTypeOK, ReceiptsIInv, Basic, TakingSound
  <2>2. CASE ReceiptRow(c) = selected[c]
    <3>1. /\ OtherCallersKeep(c) /\ stage'[c] = "claimed" /\ UNCHANGED runs
          /\ receipts' = [receipts EXCEPT ![keyOf[c]].holder = c,
                                          ![keyOf[c]].stale = FALSE]
      BY <1>7, <1>t, <2>2 DEF Takeover, ReceiptsTypeOK, OtherCallersKeep
    <3>2. /\ receipts'[keyOf[c]] \in Receipt
          /\ receipts'[keyOf[c]].state = "pending"
          /\ receipts'[keyOf[c]].holder = c /\ ~receipts'[keyOf[c]].stale
          /\ \A k \in Key \ {keyOf[c]} : receipts'[k] = receipts[k]
      BY <1>t, <2>1, <2>2, <3>1 DEF ReceiptRow, ReceiptsTypeOK, Receipt
    <3>3. \A d \in Client : Holds(d) => keyOf[d] # keyOf[c]
      BY <2>1, <2>2 DEF ReceiptsIInv, HoldInv, ReceiptRow
    <3>4. HoldInv'
      <4>1. \A d \in Client \ {c} : Holds(d)' => Holds(d) /\ keyOf[d] # keyOf[c]
        BY <3>1, <3>3 DEF Holds, OtherCallersKeep
      <4> QED
        BY <3>2, <4>1, NoneAssumption DEF ReceiptsIInv, HoldInv, ReceiptRow
    <3>5. HitInv' /\ FailInv'
      BY <3>1 DEF ReceiptsIInv, HitInv, FailInv, OtherCallersKeep
    <3>6. ConflictInv'
      BY <3>1, <3>2, NoneAssumption, ConflictKept
    <3>7. OnceInv'
      BY <3>1 DEF ReceiptsIInv, OnceInv
    <3>8. ~Completed(keyOf[c]) /\ ~Completed(keyOf[c])'
      BY <2>1, <2>2, <3>2 DEF Completed, ReceiptRow
    <3>9. ReceiptTellsRun'
      BY <3>1, <3>2, <3>8, ReceiptTellsKept
    <3> QED
      BY <1>b, <3>4, <3>5, <3>6, <3>7, <3>9 DEF ReceiptsIInv
  <2>3. CASE ReceiptRow(c) # selected[c]
    <3>1. ReplyFrom(c, selected[c]) /\ UNCHANGED <<receipts, runs, hit>>
      BY <1>7, <2>3 DEF Takeover
    <3>2. OtherCallersKeep(c) /\ stage'[c] = "answered"
      BY <1>7, <1>t, <2>1, <3>1, ReplyFromOthers DEF Takeover, ReceiptsTypeOK
    <3> QED
      BY <1>b, <3>1, <3>2, AnsweredInv
  <2> QED
    BY <2>2, <2>3
<1>8. ASSUME NEW c \in Client, Execute(c) PROVE ReceiptsIInv'
  <2>1. Holds(c) /\ ReceiptRow(c) # Null
    BY <1>8 DEF Execute, ReceiptsIInv, HoldInv, Holds
  <2>2. /\ OtherCallersKeep(c) /\ stage'[c] = "closing" /\ hit'[c]
        /\ UNCHANGED <<receipts, runs>>
    BY <1>8, <1>t, <2>1 DEF Execute, ReceiptsTypeOK, OtherCallersKeep
  <2> QED
    BY <1>b, <2>1, <2>2, LocalInv
<1>9. ASSUME NEW c \in Client, Commit(c) PROVE ReceiptsIInv'
  <2>1. /\ ReceiptRow(c) \in Receipt /\ ReceiptRow(c).state = "pending" /\ hit[c]
        /\ ReceiptRow(c).holder = c
    BY <1>9, <1>t DEF Commit, Closed, ReceiptsIInv, HoldInv, HitInv, Holds, ReceiptsTypeOK, ReceiptRow
  <2>2. /\ OtherCallersKeep(c) /\ stage'[c] = "committed"
        /\ receipts' = [receipts EXCEPT ![keyOf[c]].state = "completed",
                                        ![keyOf[c]].response = c]
        /\ runs' = [runs EXCEPT ![c] = @ + 1]
    BY <1>9, <1>t, <2>1 DEF Commit, Closed, ReceiptsTypeOK, OtherCallersKeep
  <2>3. /\ receipts'[keyOf[c]] \in Receipt
        /\ receipts'[keyOf[c]].state = "completed"
        /\ receipts'[keyOf[c]].response = c
        /\ \A k \in Key \ {keyOf[c]} : receipts'[k] = receipts[k]
    BY <1>t, <2>1, <2>2 DEF ReceiptRow, ReceiptsTypeOK, Receipt
  <2>4. \A d \in Client \ {c} : Holds(d) => keyOf[d] # keyOf[c]
    BY <2>1 DEF ReceiptsIInv, HoldInv, ReceiptRow
  <2>5. HoldInv'
    <3>1. \A d \in Client : Holds(d)' => Holds(d) /\ keyOf[d] # keyOf[c]
      BY <2>2, <2>4 DEF Holds, OtherCallersKeep
    <3> QED
      BY <2>3, <3>1 DEF ReceiptsIInv, HoldInv, ReceiptRow
  <2>6. HitInv' /\ FailInv'
    BY <2>2 DEF ReceiptsIInv, HitInv, FailInv, OtherCallersKeep
  <2>7. ConflictInv'
    BY <2>2, <2>3, NoneAssumption, ConflictKept
  <2>8. \A d \in Client : keyOf[d] = keyOf[c] => runs[d] = 0
    BY <2>1, NoRunBefore DEF Completed, ReceiptRow
  <2>9. runs'[c] = 1 /\ \A d \in Client \ {c} : runs'[d] = runs[d]
    BY <1>t, <2>2, <2>8 DEF ReceiptsTypeOK
  <2>10. OnceInv'
    BY <2>9 DEF ReceiptsIInv, OnceInv
  <2>11. ReceiptTellsRun'
    BY <2>3, <2>8, <2>9, NoneAssumption DEF ReceiptsIInv, ReceiptTellsRun, ReceiptRow
  <2> QED
    BY <1>b, <2>5, <2>6, <2>7, <2>10, <2>11 DEF ReceiptsIInv
<1>10. ASSUME NEW c \in Client, Throw(c) PROVE ReceiptsIInv'
  <2>1. Holds(c) /\ MaxFailures # 0
    BY <1>10, <1>t DEF Throw, Holds, ReceiptsTypeOK
  <2>2. OtherCallersKeep(c) /\ stage'[c] = "failed" /\ UNCHANGED <<receipts, runs>>
    BY <1>10, <1>t DEF Throw, ReceiptsTypeOK, OtherCallersKeep
  <2> QED
    BY <1>b, <2>1, <2>2, LocalInv
<1>11. ASSUME NEW c \in Client, Abandon(c) PROVE ReceiptsIInv'
  <2>1. ReceiptRow(c) # Null /\ ReceiptRow(c).state = "pending" /\ ReceiptRow(c).holder = c
    BY <1>11 DEF Abandon, ReceiptsIInv, HoldInv, Holds
  <2>2. Serial
    BY <1>11 DEF Abandon, ReceiptsIInv, FailInv, Sound
  <2>3. \A d \in Client : stage[d] \notin {"inserted", "taking", "closing"}
    BY <1>11, <2>2 DEF Abandon, UnitMayBegin, InUnit
  <2>4. /\ OtherCallersKeep(c) /\ stage'[c] = "answered" /\ UNCHANGED runs
        /\ receipts' = [receipts EXCEPT ![keyOf[c]] = Null]
    BY <1>11, <1>t, <2>1, ReplyEffect DEF Abandon, ReceiptsTypeOK, OtherCallersKeep
  <2>5. /\ receipts'[keyOf[c]] = Null
        /\ \A k \in Key \ {keyOf[c]} : receipts'[k] = receipts[k]
    BY <1>t, <2>4 DEF ReceiptsTypeOK
  <2>6. \A d \in Client \ {c} : Holds(d) => keyOf[d] # keyOf[c]
    BY <2>1 DEF ReceiptsIInv, HoldInv, ReceiptRow
  <2>7. HoldInv'
    BY <2>4, <2>5, <2>6 DEF ReceiptsIInv, HoldInv, Holds, ReceiptRow, OtherCallersKeep
  <2>8. HitInv' /\ ConflictInv' /\ FailInv'
    BY <2>3, <2>4 DEF ReceiptsIInv, HitInv, ConflictInv, FailInv, OtherCallersKeep
  <2>9. OnceInv'
    BY <2>4 DEF ReceiptsIInv, OnceInv
  <2>10. ReceiptTellsRun'
    BY <2>1, <2>4, <2>5, ReceiptTellsKept DEF Completed, ReceiptRow
  <2> QED
    BY <1>b, <2>7, <2>8, <2>9, <2>10 DEF ReceiptsIInv
<1>12. ASSUME NEW c \in Client, Respond(c) PROVE ReceiptsIInv'
  <2>1. OtherCallersKeep(c) /\ stage'[c] = "answered" /\ UNCHANGED <<receipts, runs>>
    BY <1>12, <1>t, ReplyEffect DEF Respond, ReceiptsTypeOK, OtherCallersKeep
  <2> QED
    BY <1>b, <2>1, AnsweredInv
<1>13. ASSUME NEW c \in Client, Crash(c) PROVE ReceiptsIInv'
  <2>1. OtherCallersKeep(c) /\ stage'[c] = "answered" /\ UNCHANGED <<receipts, runs>>
    BY <1>13, <1>t, ReplyEffect DEF Crash, ReceiptsTypeOK, OtherCallersKeep
  <2> QED
    BY <1>b, <2>1, AnsweredInv
<1>14. ASSUME NEW k \in Key, Elapse(k) PROVE ReceiptsIInv'
  <2>1. /\ receipts[k] \in Receipt /\ receipts[k].state = "pending"
        /\ receipts' = [receipts EXCEPT ![k].stale = TRUE]
        /\ UNCHANGED <<stage, hit, runs>>
        /\ \A c \in Client : keyOf[c] = k => ~Holds(c)
    BY <1>14, <1>t DEF Elapse, ReceiptsTypeOK, Sound
  <2>2. /\ receipts'[k] \in Receipt /\ receipts'[k].state = "pending"
        /\ \A j \in Key \ {k} : receipts'[j] = receipts[j]
    BY <1>t, <2>1 DEF ReceiptsTypeOK, Receipt
  <2>3. HoldInv'
    BY <2>1, <2>2 DEF ReceiptsIInv, HoldInv, Holds, ReceiptRow
  <2>4. HitInv' /\ FailInv' /\ OnceInv'
    BY <2>1 DEF ReceiptsIInv, HitInv, FailInv, OnceInv
  <2>5. ConflictInv'
    BY <2>1, <2>2, NoneAssumption DEF ReceiptsIInv, ConflictInv, ReceiptRow
  <2>6. ReceiptTellsRun'
    BY <2>1, <2>2, ReceiptTellsKept DEF Completed
  <2> QED
    BY <1>b, <2>3, <2>4, <2>5, <2>6 DEF ReceiptsIInv
<1>15. CASE UNCHANGED receiptsVars
  BY <1>b, <1>15 DEF receiptsVars, ReceiptsIInv, HoldInv, HitInv, ConflictInv, FailInv, OnceInv,
                     ReceiptTellsRun, Holds, ReceiptRow
<1> QED
  BY <1>1, <1>2, <1>3, <1>4, <1>5, <1>6, <1>7, <1>8, <1>9, <1>10, <1>11,
     <1>12, <1>13, <1>14, <1>15 DEF ReceiptsNext, ServeReceipt

LEMMA ReceiptsIInvHolds == ASSUME Sound PROVE ReceiptsSpec => []ReceiptsIInv
<1>1. ReceiptsIInv /\ [ReceiptsNext]_receiptsVars => ReceiptsIInv'
  BY IInvStep
<1> QED
  BY <1>1, IInvInit, PTL DEF ReceiptsSpec

\* Two callers never both run the mutation of one key.
THEOREM MutualExclusion == ASSUME Sound PROVE ReceiptsSpec => []OneHolder
  BY ReceiptsIInvHolds, IInvOneHolder, PTL

\* The mutation behind a key commits at most once, over every retry,
\* takeover, release and crash.
THEOREM AtMostOnce == ASSUME Sound PROVE ReceiptsSpec => []AtMostOncePerKey
<1>1. ReceiptsIInv => AtMostOncePerKey
  BY DEF ReceiptsIInv, AtMostOncePerKey, ReceiptTellsRun, OnceInv, SameKey, ReceiptRow
<1> QED
  BY <1>1, ReceiptsIInvHolds, PTL

\* A key's receipt is completed exactly when its mutation committed, with
\* that execution's response.
THEOREM ReceiptsAgree == ASSUME Sound PROVE ReceiptsSpec => []ReceiptTellsRun
<1>1. ReceiptsIInv => ReceiptTellsRun
  BY DEF ReceiptsIInv
<1> QED
  BY <1>1, ReceiptsIInvHolds, PTL

\* A completed receipt stays as it is.
LEMMA FinalStep ==
  ASSUME ReceiptsIInv, [ReceiptsNext]_receiptsVars, NEW k \in Key, Completed(k)
  PROVE  receipts'[k] = receipts[k]
<1> USE ClientAssumption
<1>t. receipts \in [Key -> Receipt \cup {Null}] /\ selected \in [Client -> Receipt \cup {Null}]
  BY DEF ReceiptsIInv, Basic, ReceiptsTypeOK
<1>1. ASSUME NEW c \in Client, InsertClaim(c) PROVE receipts'[k] = receipts[k]
  BY <1>1, <1>t DEF InsertClaim, Completed, ReceiptRow
<1>2. ASSUME NEW c \in Client, Takeover(c) PROVE receipts'[k] = receipts[k]
  <2>1. selected[c].state = "pending"
    BY <1>2 DEF Takeover, ReceiptsIInv, Basic, TakingSound
  <2> QED
    BY <1>2, <1>t, <2>1 DEF Takeover, Completed, ReceiptRow
<1>3. ASSUME NEW c \in Client, Commit(c) PROVE receipts'[k] = receipts[k]
  <2>1. keyOf[c] # k
    BY <1>3 DEF Commit, Closed, ReceiptsIInv, HoldInv, Holds, Completed, ReceiptRow
  <2>2. CASE hit[c]
    BY <1>3, <1>t, <2>1, <2>2 DEF Commit, Closed
  <2>3. CASE ~hit[c]
    BY <1>3, <2>3 DEF Commit, Closed
  <2> QED
    BY <2>2, <2>3
<1>4. ASSUME NEW c \in Client, Abandon(c) PROVE receipts'[k] = receipts[k]
  BY <1>4, <1>t DEF Abandon, Completed, ReceiptRow
<1>5. ASSUME NEW j \in Key, Elapse(j) PROVE receipts'[k] = receipts[k]
  BY <1>5, <1>t DEF Elapse, Completed
<1>6. ASSUME NEW c \in Client,
             Send(c) \/ InsertConflict(c) \/ ReadNothing(c) \/ ReadReceipt(c)
               \/ ReadStale(c) \/ Execute(c) \/ Respond(c) \/ Throw(c) \/ Crash(c)
      PROVE  receipts'[k] = receipts[k]
  BY <1>6 DEF Send, InsertConflict, ReadNothing, ReadReceipt, StaleClaim, ReadStale,
              Execute, Respond, Throw, Crash
<1> QED
  BY <1>1, <1>2, <1>3, <1>4, <1>5, <1>6 DEF ReceiptsNext, ServeReceipt, receiptsVars

\* A completed receipt is never deleted, taken over or overwritten.
THEOREM CompletedStays == ASSUME Sound PROVE ReceiptsSpec => CompletedIsFinal
<1>1. ReceiptsIInv /\ [ReceiptsNext]_receiptsVars =>
        [\A k \in Key : receipts[k] # Null /\ receipts[k].state = "completed"
                          => receipts'[k] = receipts[k]]_receiptsVars
  BY FinalStep DEF Completed
<1> QED
  BY <1>1, ReceiptsIInvHolds, PTL DEF ReceiptsSpec, CompletedIsFinal

-----------------------------------------------------------------------------
(* Part 3: the receipts implement IdempotentMutation.                      *)

\* Under the invariant the effect behind a key is the response its completed
\* receipt stores.
LEMMA EffectBar ==
  ASSUME ReceiptsIInv
  PROVE  effectBar = [k \in Key |-> IF Completed(k) THEN receipts[k].response
                                                    ELSE Null]
<1> SUFFICES ASSUME NEW k \in Key
             PROVE  effectBar[k] = IF Completed(k) THEN receipts[k].response
                                                   ELSE Null
  BY DEF effectBar
<1>1. CASE Completed(k)
  <2>1. /\ receipts[k].response \in Client /\ keyOf[receipts[k].response] = k
        /\ runs[receipts[k].response] > 0
    BY <1>1 DEF ReceiptsIInv, Basic, StoredSound
  <2>2. \A c \in Client : keyOf[c] = k /\ runs[c] > 0 => c = receipts[k].response
    BY DEF ReceiptsIInv, ReceiptTellsRun, ReceiptRow
  <2> QED
    BY <1>1, <2>1, <2>2 DEF effectBar
<1>2. CASE ~Completed(k)
  <2>1. ~\E c \in Client : keyOf[c] = k /\ runs[c] > 0
    BY <1>2 DEF ReceiptsIInv, ReceiptTellsRun, Completed, ReceiptRow
  <2> QED
    BY <1>2, <2>1 DEF effectBar
<1> QED
  BY <1>1, <1>2

LEMMA EffectOfRun ==
  ASSUME ReceiptsIInv, NEW c \in Client, runs[c] > 0
  PROVE  effectBar[keyOf[c]] = c
  BY EffectBar, ClientAssumption DEF ReceiptsIInv, ReceiptTellsRun, Completed, ReceiptRow

LEMMA BarInit == ReceiptsInit => Abstract!Init
  BY DEF ReceiptsInit, Abstract!Init, effectBar, toldBar

\* A step that commits nothing leaves the effects alone.
LEMMA SameEffect == ASSUME UNCHANGED runs PROVE effectBar' = effectBar
  BY DEF effectBar

LEMMA SameTold == ASSUME UNCHANGED answer PROVE toldBar' = toldBar
  BY DEF toldBar

\* A new answer of c is the only one that changes.
LEMMA NewTold ==
  ASSUME NEW c \in Client, \A d \in Client \ {c} : answer'[d] = answer[d]
  PROVE  toldBar' = [toldBar EXCEPT ![c] =
                       IF answer'[c].kind \in {"executed", "replayed"}
                         THEN answer'[c].from ELSE Null]
  BY DEF toldBar

LEMMA Forgets ==
  ASSUME NEW c \in Client, UNCHANGED runs,
         \A d \in Client \ {c} : answer'[d] = answer[d],
         answer'[c].kind \notin {"executed", "replayed"}
  PROVE  Abstract!Forget(c)
  BY SameEffect, NewTold DEF Abstract!Forget

LEMMA Tells ==
  ASSUME ReceiptsIInv, NEW c \in Client, UNCHANGED runs,
         \A d \in Client \ {c} : answer'[d] = answer[d],
         answer'[c].kind \in {"executed", "replayed"},
         effectBar[keyOf[c]] # Null,
         answer'[c].from = effectBar[keyOf[c]]
  PROVE  Abstract!Tell(c)
  BY SameEffect, NewTold DEF Abstract!Tell

LEMMA AnswerFromReceipt ==
  ASSUME ReceiptsIInv, NEW c \in Client, ReceiptRow(c) \in Receipt, ReceiptRow(c) # Null,
         NEW r \in Receipt, r = ReceiptRow(c) \/ r.state = "pending",
         ReplyFrom(c, r), UNCHANGED runs
  PROVE  Abstract!Tell(c) \/ Abstract!Forget(c)
<1>1. /\ \A d \in Client \ {c} : answer'[d] = answer[d]
      /\ \/ answer'[c].kind \in {"conflict", "in_progress"}
         \/ /\ answer'[c].kind = "replayed"
            /\ answer'[c].from = r.response /\ r.state = "completed"
  BY ReplyFromEffect DEF ReceiptsIInv, Basic, ReceiptsTypeOK
<1>2. CASE answer'[c].kind \in {"conflict", "in_progress"}
  BY <1>1, <1>2, Forgets
<1>3. CASE answer'[c].kind = "replayed" /\ answer'[c].from = r.response
             /\ r.state = "completed"
  <2>1. Completed(keyOf[c]) /\ answer'[c].from = ReceiptRow(c).response
    BY <1>3 DEF Completed, ReceiptRow
  <2>2. effectBar[keyOf[c]] = ReceiptRow(c).response /\ ReceiptRow(c).response # Null
    BY <2>1, EffectBar, StoredAnswer, ClientAssumption DEF ReceiptsIInv, ReceiptRow
  <2> QED
    BY <1>1, <1>3, <2>1, <2>2, Tells
<1> QED
  BY <1>1, <1>2, <1>3

LEMMA BarStep ==
  ASSUME Sound, ReceiptsIInv, [ReceiptsNext]_receiptsVars PROVE [Abstract!Next]_(Abstract!avars)
<1> USE ClientAssumption
<1>i. ReceiptsIInv'
  BY IInvStep
<1>t. ReceiptsTypeOK
  BY DEF ReceiptsIInv, Basic
<1>1. ASSUME NEW c \in Client, Send(c) PROVE Abstract!Forget(c)
  BY <1>1, <1>t, Forgets DEF Send, ReceiptsTypeOK
<1>2. ASSUME NEW c \in Client, ReadReceipt(c)
      PROVE  Abstract!Tell(c) \/ Abstract!Forget(c)
  <2>1. ReceiptRow(c) \in Receipt
    BY <1>2, <1>t DEF ReadReceipt, StaleClaim, ReceiptsTypeOK, ReceiptRow
  <2> QED
    BY <1>2, <2>1, AnswerFromReceipt DEF ReadReceipt, StaleClaim
<1>3. ASSUME NEW c \in Client, Takeover(c)
      PROVE  Abstract!Tell(c) \/ Abstract!Forget(c) \/ UNCHANGED Abstract!avars
  <2>1. selected[c] \in Receipt /\ selected[c].state = "pending"
    BY <1>3, <1>t DEF Takeover, ReceiptsTypeOK, ReceiptsIInv, Basic, TakingSound
  <2>2. CASE ReceiptRow(c) = selected[c]
    <3>1. UNCHANGED <<answer, runs>>
      BY <1>3, <2>2 DEF Takeover
    <3> QED
      BY <3>1, SameEffect, SameTold DEF Abstract!avars
  <2>3. CASE ReceiptRow(c) # selected[c]
    <3>1. ReplyFrom(c, selected[c]) /\ UNCHANGED runs
      BY <1>3, <2>3 DEF Takeover
    <3>2. ReceiptRow(c) \in Receipt /\ ReceiptRow(c) # Null
      BY <1>3, <1>t DEF Takeover, ReceiptsIInv, ConflictInv, ReceiptsTypeOK, ReceiptRow
    <3> QED
      BY <2>1, <3>1, <3>2, AnswerFromReceipt
  <2> QED
    BY <2>2, <2>3
<1>4. ASSUME NEW c \in Client, Commit(c) PROVE Abstract!Apply(c)
  <2>1. /\ ~Completed(keyOf[c]) /\ UNCHANGED answer
        /\ runs' = [runs EXCEPT ![c] = @ + 1]
    BY <1>4 DEF Commit, Closed, ReceiptsIInv, HoldInv, Holds, Completed, ReceiptRow
  <2>2. effectBar[keyOf[c]] = Null
    BY <2>1, EffectBar
  <2>3. runs'[c] > 0
    BY <1>t, <2>1 DEF ReceiptsTypeOK
  <2>4. effectBar'[keyOf[c]] = c
    <3>1. \A d \in Client : keyOf[d] = keyOf[c] /\ runs'[d] > 0 => d = c
      <4>1. \A d \in Client : keyOf[d] = keyOf[c] => ~(runs[d] > 0)
        BY <2>1 DEF ReceiptsIInv, ReceiptTellsRun, Completed, ReceiptRow
      <4> QED
        BY <1>t, <2>1, <4>1 DEF ReceiptsTypeOK
    <3> QED
      BY <2>3, <3>1 DEF effectBar
  <2>5. \A k \in Key \ {keyOf[c]} : effectBar'[k] = effectBar[k]
    <3>1. \A d \in Client : keyOf[d] # keyOf[c] => runs'[d] = runs[d]
      BY <1>t, <2>1 DEF ReceiptsTypeOK
    <3> QED
      BY <3>1 DEF effectBar
  <2>6. effectBar' = [effectBar EXCEPT ![keyOf[c]] = c]
    BY <2>4, <2>5 DEF effectBar
  <2> QED
    BY <2>1, <2>2, <2>6, SameTold DEF Abstract!Apply
<1>5. ASSUME NEW c \in Client, Abandon(c) PROVE Abstract!Forget(c)
  <2>1. /\ answer'[c].kind = "error" /\ UNCHANGED runs
        /\ \A d \in Client \ {c} : answer'[d] = answer[d]
    <3>1. Reply(c, "error", Null) /\ UNCHANGED runs
      BY <1>5 DEF Abandon
    <3> QED
      BY <1>t, <3>1 DEF ReceiptsTypeOK, Reply
  <2> QED
    BY <2>1, Forgets
<1>6. ASSUME NEW c \in Client, Respond(c) PROVE Abstract!Tell(c)
  <2>1. runs[c] > 0
    BY <1>6 DEF Respond, ReceiptsIInv, Basic, CommittedSound
  <2>2. effectBar[keyOf[c]] = c /\ c # Null
    BY <2>1, EffectOfRun
  <2>3. /\ answer'[c] = [kind |-> "executed", from |-> c] /\ UNCHANGED runs
        /\ \A d \in Client \ {c} : answer'[d] = answer[d]
    BY <1>6, <1>t, ReplyEffect DEF Respond, ReceiptsTypeOK
  <2> QED
    BY <2>2, <2>3, Tells
<1>7. ASSUME NEW c \in Client, Crash(c) PROVE Abstract!Forget(c)
  <2>1. /\ answer'[c].kind = "lost" /\ UNCHANGED runs
        /\ \A d \in Client \ {c} : answer'[d] = answer[d]
    <3>1. Reply(c, "lost", Null) /\ UNCHANGED runs
      BY <1>7 DEF Crash
    <3> QED
      BY <1>t, <3>1 DEF ReceiptsTypeOK, Reply
  <2> QED
    BY <2>1, Forgets
<1>8. ASSUME NEW c \in Client,
             InsertClaim(c) \/ InsertConflict(c) \/ ReadNothing(c)
               \/ ReadStale(c) \/ Execute(c) \/ Throw(c)
      PROVE  UNCHANGED Abstract!avars
  <2>1. UNCHANGED <<answer, runs>>
    BY <1>8 DEF InsertClaim, InsertConflict, ReadNothing, ReadStale, StaleClaim, Execute, Throw
  <2> QED
    BY <2>1, SameEffect, SameTold DEF Abstract!avars
<1>9. ASSUME NEW k \in Key, Elapse(k) PROVE UNCHANGED Abstract!avars
  BY <1>9, SameEffect, SameTold DEF Elapse, Abstract!avars
<1>10. CASE UNCHANGED receiptsVars
  BY <1>10, SameEffect, SameTold DEF receiptsVars, Abstract!avars
<1> QED
  BY <1>1, <1>2, <1>3, <1>4, <1>5, <1>6, <1>7, <1>8, <1>9, <1>10
  DEF ReceiptsNext, ServeReceipt, Abstract!Next

\* The receipt protocol implements the idempotent mutation: at most one
\* effect per key, and every success answer tells of that one effect.
THEOREM Refinement == ASSUME Sound PROVE ReceiptsSpec => ImplementsIdempotentMutation
<1>1. ReceiptsIInv /\ [ReceiptsNext]_receiptsVars => [Abstract!Next]_(Abstract!avars)
  BY BarStep
<1> QED
  BY <1>1, BarInit, ReceiptsIInvHolds, PTL
  DEF ReceiptsSpec, ImplementsIdempotentMutation, Abstract!Spec

-----------------------------------------------------------------------------
(* The lifecycle of the workspace.                                         *)

\* The job's transaction has the workspaces row.
Held == {"locked", "versioned", "eligible", "compared", "demoted", "viewed"}

\* It has a unit of work open.
Acting(j) == pc[j] \notin {"idle", "unaudited", "done"}

Target(j) == req[j].user

\* What an open unit of work read is still so.
ReadStands(j) ==
  /\ pc[j] \in {"eligible", "compared", "demoted"} =>
       role[Target(j)] # None /\ status[Target(j)] = "active"
  /\ pc[j] = "demoted" => seen[j].owners = Owners \ {Target(j)}
  /\ pc[j] = "decided" => ~Refused(j) /\ seen[j].owners = Owners

JobInv(j) ==
  /\ pc[j] \in Held <=> lock = j
  /\ pc[j] \in {"eligible", "compared", "demoted"} => IsOp(j, {"transfer"})
  /\ pc[j] \notin {"unaudited", "done"} => res[j] = NoResult
  /\ pc[j] # "done" => audit[j] = {}
  /\ pc[j] = "unaudited" => res[j].kind \notin {"changed", "unchanged"}
  /\ pc[j] \in {"versioned", "eligible", "compared", "demoted"} =>
       seen[j].version = Version /\ req[j].expected \in {None, Version}
  /\ pc[j] = "viewed" => seen[j].version = Version
  /\ res[j].kind = "inspected" => res[j].version = seen[j].version
  /\ alive /\ res[j].kind = "changed" => res[j].version <= Version
  /\ res[j].kind = "changed" /\ IsOp(j, {"access", "transfer"}) /\ res[j].version > 0 =>
       req[j].expected \in {None, res[j].version - 1}
  /\ ~alive /\ res[j].kind \in {"changed", "unchanged"} => "workspace_id" \notin audit[j]
  /\ store = "sqlite" => ReadStands(j)

LockAlive == lock # None => alive

Alone == store = "sqlite" => \A j, k \in Job : Acting(j) /\ Acting(k) => j = k

OneOwner == \A u, v \in Owners : u = v

\* No two changes report one version.
DistinctVersions ==
  \A j, k \in Job : /\ j # k /\ res[j].kind = "changed" /\ res[k].kind = "changed"
                    /\ res[j].version > 0
                    => res[j].version # res[k].version

\* Whoever is bound has signed in; setUp is kept apart from auth_subject, which a
\* user provisioned active may not have.
SetUpStands ==
  /\ ActiveHasSetUpOnSqlite
  /\ \A u \in User : linked[u] => u \in setUp

IInv ==
  /\ TypeOK
  /\ \A j \in Job : JobInv(j)
  /\ LockAlive
  /\ Alone
  /\ OneOwner
  /\ DistinctVersions
  /\ ExactlyOneOwnerOnSqlite
  /\ SetUpStands

-----------------------------------------------------------------------------
LEMMA VersionIsNat == ASSUME TypeOK PROVE Version \in Nat
  BY DEF TypeOK, Version

\* Owners are one when two of them are the same, and their number says so.
LEMMA OwnersAreFinite == ASSUME OneOwner PROVE IsFiniteSet(Owners) /\ Cardinality(Owners) <= 1
<1>1. CASE Owners = {}
  BY <1>1, FS_EmptySet
<1>2. CASE Owners # {}
  <2>1. PICK o \in Owners : TRUE
    BY <1>2
  <2>2. Owners = {o}
    BY <2>1 DEF OneOwner
  <2>3. IsFiniteSet({o}) /\ Cardinality({o}) = 1
    BY FS_Singleton
  <2>. QED
    BY <2>2, <2>3
<1>. QED
  BY <1>1, <1>2

LEMMA AtMostOne ==
  ASSUME NEW A, IsFiniteSet(A), Cardinality(A) <= 1, NEW x \in A, NEW y \in A
  PROVE  x = y
<1>1. Cardinality(A) \in Nat
  BY FS_CardinalityType
<1>2. CASE Cardinality(A) = 0
  BY <1>2, FS_EmptySet
<1>3. CASE Cardinality(A) = 1
  <2>1. PICK z : A = {z}
    BY <1>3, FS_Singleton
  <2>. QED
    BY <2>1
<1>. QED
  BY <1>1, <1>2, <1>3

LEMMA InvFromIInv == IInv => Inv /\ GuardedChange
<1>. SUFFICES ASSUME IInv PROVE Inv /\ GuardedChange
  OBVIOUS
<1>1. NeverTwoOwners
  BY OwnersAreFinite DEF IInv, NeverTwoOwners
<1>2. InspectIsSnapshot
  BY DEF IInv, JobInv, InspectIsSnapshot
<1>3. SuccessesAreRedacted
  BY DEF IInv, JobInv, SuccessesAreRedacted
<1>4. GuardedChange
  BY DEF IInv, JobInv, DistinctVersions, GuardedChange
<1>. QED
  BY <1>1, <1>2, <1>3, <1>4 DEF IInv, Inv, SetUpStands

LEMMA InitIInv == Init => IInv
<1>. SUFFICES ASSUME Init PROVE IInv
  OBVIOUS
<1>. USE DEF Init
<1>1. PICK o \in User : role = [u \in User |-> IF u = o THEN "owner" ELSE "member"]
  OBVIOUS
<1>2. Owners = {o}
  BY <1>1 DEF Owners
<1>3. TypeOK
  <2>1. role \in [User -> Role \cup {None}]
    BY <1>1 DEF Role
  <2>2. access \in [mode : Mode, version : Nat] \cup {None}
    BY DEF Mode
  <2>. QED
    BY <2>1, <2>2 DEF TypeOK, NothingSeen, NoResult
<1>4. ASSUME NEW j \in Job PROVE JobInv(j)
  BY OperationAssumption DEF JobInv, ReadStands, NoResult, Held
<1>5. LockAlive /\ Alone /\ OneOwner /\ DistinctVersions
  BY <1>2 DEF LockAlive, Alone, Acting, OneOwner, DistinctVersions, NoResult
<1>6. ExactlyOneOwnerOnSqlite
  BY <1>2 DEF ExactlyOneOwnerOnSqlite, ExactlyOneOwner
<1>7. SetUpStands
  BY DEF SetUpStands, ActiveHasSetUpOnSqlite, ActiveHasSetUp
<1>. QED
  BY <1>3, <1>4, <1>5, <1>6, <1>7 DEF IInv

-----------------------------------------------------------------------------
(* A step of one job, as the others see it.                                *)

Acts(j) ==
  /\ UNCHANGED <<store, req>>
  /\ \A k \in Job \ {j} :
       /\ pc'[k] = pc[k] /\ seen'[k] = seen[k] /\ res'[k] = res[k]
       /\ audit'[k] = audit[k] \/ audit'[k] = audit[k] \ {"workspace_id"}
  /\ alive' => alive /\ Version <= Version'
  /\ alive /\ ~alive' => \A k \in Job : "workspace_id" \notin audit'[k]
  /\ lock' = lock \/ (lock = None /\ lock' = j) \/ (lock = j /\ lock' = None)
  /\ lock \notin {j, None} => UNCHANGED <<alive, access>>
  /\ pc[j] # "done" /\ (~Acting(j) => MayBegin(j))
  /\ res'[j].kind = "changed" =>
       res'[j] = res[j] \/ res'[j].version = 0 \/ (alive /\ res'[j].version = Version + 1)

\* On SQLite nobody else is in the middle of anything.
LEMMA OthersAreOut ==
  ASSUME IInv, NEW j \in Job, Acts(j), store = "sqlite", NEW k \in Job \ {j}
  PROVE  ~Acting(k)
  BY DEF IInv, Acts, Alone, Acting, MayBegin

LEMMA OthersKeep ==
  ASSUME IInv, NEW j \in Job, Acts(j), NEW k \in Job \ {j}, TypeOK'
  PROVE  JobInv(k)'
<1>. USE DEF Acts
<1>1. JobInv(k) /\ k # None
  BY OperationAssumption DEF IInv
<1>2. lock = k <=> lock' = k
  BY <1>1
<1>3. lock = k => Version' = Version
  BY <1>1 DEF Version
<1>4. Version \in Nat /\ Version' \in Nat /\ (res[k].kind = "changed" => res[k].version \in Nat)
  BY VersionIsNat DEF IInv, TypeOK, Version
<1>5. store = "sqlite" => ReadStands(k)'
  BY OthersAreOut DEF ReadStands, Acting
<1>6. alive' /\ res[k].kind = "changed" => res[k].version <= Version'
  BY <1>1, <1>4 DEF JobInv
<1>7. ~alive' /\ res[k].kind \in {"changed", "unchanged"} => "workspace_id" \notin audit'[k]
  BY <1>1 DEF JobInv
<1>8. pc[k] # "done" => audit'[k] = {}
  BY <1>1 DEF JobInv
<1>. QED
  BY <1>1, <1>2, <1>3, <1>5, <1>6, <1>7, <1>8 DEF JobInv, Held, IsOp

LEMMA ActsKeep ==
  ASSUME IInv, NEW j \in Job, Acts(j), TypeOK', JobInv(j)', LockAlive', OneOwner',
         ExactlyOneOwnerOnSqlite', SetUpStands'
  PROVE  IInv'
<1>. USE DEF Acts
<1>1. \A k \in Job : JobInv(k)'
  BY OthersKeep
<1>2. Alone'
  BY OthersAreOut DEF Alone, Acting
<1>3. DistinctVersions'
  <2>1. \A k \in Job : res[k].version \in Nat /\ res'[k].version \in Nat
    BY DEF IInv, TypeOK
  <2>2. \A k \in Job : alive /\ res[k].kind = "changed" => res[k].version <= Version
    BY DEF IInv, JobInv
  <2>3. ASSUME NEW k \in Job \ {j}, res'[j].kind = "changed", res[k].kind = "changed",
               res'[j].version > 0 \/ res[k].version > 0
        PROVE  res'[j].version # res[k].version
    BY <2>1, <2>2, <2>3, VersionIsNat DEF IInv, DistinctVersions
  <2>. QED
    BY <2>1, <2>3 DEF IInv, DistinctVersions
<1>. QED
  BY <1>1, <1>2, <1>3 DEF IInv

-----------------------------------------------------------------------------
(* Types of a step.                                                        *)

Where == {"idle", "locked", "versioned", "eligible", "compared", "demoted", "viewed",
          "decided", "unaudited", "done"}
Kind == {"none", "changed", "unchanged", "inspected", "deleted", "absent", "not_found",
         "version_conflict", "target_not_eligible", "refused", "conflict"}
Seen == [version : Nat, owners : SUBSET User]
Result == [kind : Kind, version : Nat, owners : SUBSET User]
Row == SUBSET Column

LEMMA TypesNow ==
  ASSUME TypeOK
  PROVE  /\ pc \in [Job -> Where] /\ seen \in [Job -> Seen] /\ res \in [Job -> Result]
         /\ audit \in [Job -> Row]
         /\ \A j \in Job : req[j] \in Operation
  BY OperationAssumption DEF TypeOK, Where, Kind, Seen, Result, Row

LEMMA TypesOfStep ==
  ASSUME TypeOK, UNCHANGED <<store, req>>,
         pc' \in [Job -> Where], seen' \in [Job -> Seen], res' \in [Job -> Result],
         audit' \in [Job -> Row], lock' \in Job \cup {None},
         alive' \in BOOLEAN, access' \in [mode : Mode, version : Nat] \cup {None},
         role' \in [User -> Role \cup {None}],
         status' \in [User -> {"pending", "active", "disabled"}],
         linked' \in [User -> BOOLEAN], setUp' \subseteq User
  PROVE  TypeOK'
  BY DEF TypeOK, Where, Kind, Seen, Result, Row

LEMMA GotoFacts ==
  ASSUME TypeOK, NEW j \in Job, NEW where \in Where, Goto(j, where)
  PROVE  /\ pc' \in [Job -> Where] /\ pc'[j] = where
         /\ \A k \in Job \ {j} : pc'[k] = pc[k]
         /\ UNCHANGED <<store, req>>
  BY TypesNow DEF Goto

LEMMA KindFacts ==
  ASSUME TypeOK, NEW j \in Job, NEW kind \in Kind, res' = [res EXCEPT ![j].kind = kind]
  PROVE  /\ res' \in [Job -> Result] /\ res'[j].kind = kind
         /\ res'[j].version = res[j].version
         /\ \A k \in Job \ {j} : res'[k] = res[k]
<1>1. res \in [Job -> Result]
  BY TypesNow
<1>2. res' \in [Job -> Result] /\ res'[j] = [res[j] EXCEPT !.kind = kind]
  BY <1>1 DEF Result
<1>3. res'[j].kind = kind /\ res'[j].version = res[j].version
  BY <1>1, <1>2 DEF Result
<1>. QED
  BY <1>1, <1>2, <1>3

-----------------------------------------------------------------------------
(* Steps that change nothing the workspace holds.                          *)

LEMMA QuietKeeps ==
  ASSUME IInv, NEW j \in Job, Acts(j), TypeOK', JobInv(j)', UNCHANGED data,
         lock' = None \/ lock' = lock \/ alive
  PROVE  IInv'
<1>1. LockAlive'
  BY DEF IInv, LockAlive, data
<1>2. OneOwner' /\ ExactlyOneOwnerOnSqlite' /\ SetUpStands'
  BY DEF IInv, OneOwner, ExactlyOneOwnerOnSqlite, ExactlyOneOwner, SetUpStands,
         ActiveHasSetUpOnSqlite, ActiveHasSetUp, Owners, data, Acts
<1>. QED
  BY <1>1, <1>2, ActsKeep

\* A statement that only reads: the job goes on in its unit of work.
LEMMA AdvanceKeeps ==
  ASSUME IInv, NEW j \in Job, NEW where \in Where \ {"idle", "unaudited", "done"},
         Goto(j, where), UNCHANGED <<data, res, audit>>,
         pc[j] \notin {"unaudited", "done"}, ~Acting(j) => MayBegin(j),
         seen' \in [Job -> Seen], \A k \in Job \ {j} : seen'[k] = seen[k],
         \/ UNCHANGED lock /\ (where \in Held <=> pc[j] \in Held)
         \/ lock = None /\ alive /\ lock' = j /\ where = "locked",
         where \in {"eligible", "compared", "demoted"} => IsOp(j, {"transfer"}),
         where \in {"versioned", "eligible", "compared", "demoted"} =>
           seen'[j].version = Version /\ req[j].expected \in {None, Version},
         where = "viewed" => seen'[j].version = Version,
         store = "sqlite" => ReadStands(j)'
  PROVE  IInv'
<1>1. TypeOK /\ JobInv(j) /\ j # None
  BY OperationAssumption DEF IInv
<1>2. /\ pc' \in [Job -> Where] /\ pc'[j] = where /\ UNCHANGED <<store, req>>
      /\ \A k \in Job \ {j} : pc'[k] = pc[k]
  BY <1>1, GotoFacts
<1>3. TypeOK'
  BY <1>1, <1>2, TypesNow, TypesOfStep DEF TypeOK, data
<1>4. Version' = Version
  BY DEF Version, data
<1>5. res[j] = NoResult /\ audit[j] = {}
  BY <1>1 DEF JobInv
<1>6. pc'[j] \in Held <=> lock' = j
  BY <1>1, <1>2 DEF JobInv, Held
<1>7. JobInv(j)'
  BY <1>2, <1>4, <1>5, <1>6 DEF JobInv, NoResult, IsOp
<1>8. Acts(j)
  BY <1>1, <1>2, <1>4, <1>5, VersionIsNat DEF Acts, data, NoResult
<1>. QED
  BY <1>3, <1>7, <1>8, QuietKeeps

\* A request that fails: the row is let go and the audit is still to come.
LEMMA RejectKeeps ==
  ASSUME IInv, NEW j \in Job, NEW kind \in Kind \ {"changed", "unchanged", "inspected"},
         Reject(j, kind), pc[j] \notin {"unaudited", "done"}, ~Acting(j) => MayBegin(j)
  PROVE  IInv'
<1>. USE DEF Reject
<1>1. TypeOK /\ JobInv(j) /\ j # None /\ "unaudited" \in Where
  BY OperationAssumption DEF IInv, Where
<1>2. /\ pc' \in [Job -> Where] /\ pc'[j] = "unaudited" /\ UNCHANGED <<store, req>>
      /\ \A k \in Job \ {j} : pc'[k] = pc[k]
  BY <1>1, GotoFacts
<1>3. /\ res' \in [Job -> Result] /\ res'[j].kind = kind
      /\ \A k \in Job \ {j} : res'[k] = res[k]
  BY <1>1, KindFacts
<1>4. lock' = IF lock = j THEN None ELSE lock
  BY DEF Unlock
<1>5. TypeOK'
  BY <1>1, <1>2, <1>3, <1>4, TypesNow, TypesOfStep DEF TypeOK, data
<1>6. JobInv(j)'
  BY <1>1, <1>2, <1>3, <1>4 DEF JobInv, ReadStands, Held
<1>7. Acts(j)
  BY <1>1, <1>2, <1>3, <1>4, VersionIsNat DEF Acts, data, Version
<1>. QED
  BY <1>4, <1>5, <1>6, <1>7, QuietKeeps

\* A CRM operation that ends without an effect.
LEMMA RefusedKeeps ==
  ASSUME IInv, NEW j \in Job, NEW kind \in {"refused", "conflict"}, EndOperation(j, kind),
         UNCHANGED <<data, seen>>, pc[j] \in {"idle", "decided"}, ~Acting(j) => MayBegin(j)
  PROVE  IInv'
<1>. USE DEF EndOperation
<1>1. TypeOK /\ JobInv(j) /\ j # None /\ "done" \in Where /\ kind \in Kind
  BY OperationAssumption DEF IInv, Where, Kind
<1>2. /\ pc' \in [Job -> Where] /\ pc'[j] = "done" /\ UNCHANGED <<store, req>>
      /\ \A k \in Job \ {j} : pc'[k] = pc[k]
  BY <1>1, GotoFacts
<1>3. /\ res' \in [Job -> Result] /\ res'[j].kind = kind
      /\ \A k \in Job \ {j} : res'[k] = res[k]
  BY <1>1, KindFacts
<1>4. TypeOK'
  BY <1>1, <1>2, <1>3, TypesNow, TypesOfStep DEF TypeOK, data
<1>5. JobInv(j)'
  BY <1>1, <1>2, <1>3 DEF JobInv, ReadStands, Held
<1>6. Acts(j)
  BY <1>1, <1>2, <1>3, VersionIsNat DEF Acts, data, Version
<1>. QED
  BY <1>4, <1>5, <1>6, QuietKeeps

-----------------------------------------------------------------------------
(* The statements that read.                                               *)

LEMMA LockWorkspaceKeeps == ASSUME IInv, NEW j \in Job, LockWorkspace(j) PROVE IInv'
<1>. USE DEF LockWorkspace
<1>1. TypeOK /\ "locked" \in Where \ {"idle", "unaudited", "done"} /\ pc[j] = "idle"
      /\ MayBegin(j) /\ lock = None
  BY DEF IInv, Where, RowFree
<1>2. CASE alive /\ lock' = j /\ Goto(j, "locked") /\ UNCHANGED <<data, seen, res, audit>>
  <2>1. pc'[j] = "locked"
    BY <1>1, <1>2, GotoFacts
  <2>2. seen' \in [Job -> Seen]
    BY <1>1, <1>2, TypesNow
  <2>3. ReadStands(j)'
    BY <2>1 DEF ReadStands
  <2>. QED
    BY <1>1, <1>2, <2>2, <2>3, AdvanceKeeps
<1>3. CASE Reject(j, "not_found")
  BY <1>1, <1>3, RejectKeeps DEF Kind
<1>. QED
  BY <1>2, <1>3

LEMMA CheckVersionKeeps == ASSUME IInv, NEW j \in Job, CheckVersion(j) PROVE IInv'
<1>. USE DEF CheckVersion
<1>1. TypeOK /\ "versioned" \in Where \ {"idle", "unaudited", "done"} /\ pc[j] = "locked"
      /\ Acting(j)
  BY DEF IInv, Where, Acting
<1>2. CASE /\ req[j].expected \in {None, Version}
           /\ seen' = [seen EXCEPT ![j].version = Version]
           /\ Goto(j, "versioned") /\ UNCHANGED <<data, lock, res, audit>>
  <2>1. pc'[j] = "versioned"
    BY <1>1, <1>2, GotoFacts
  <2>2. /\ seen' \in [Job -> Seen] /\ seen'[j].version = Version
        /\ \A k \in Job \ {j} : seen'[k] = seen[k]
    BY <1>1, <1>2, TypesNow, VersionIsNat DEF Seen
  <2>3. ReadStands(j)'
    BY <2>1 DEF ReadStands
  <2>. QED
    BY <1>1, <1>2, <2>2, <2>3, AdvanceKeeps DEF Held
<1>3. CASE Reject(j, "version_conflict")
  BY <1>1, <1>3, RejectKeeps DEF Kind
<1>. QED
  BY <1>2, <1>3

LEMMA FindTargetKeeps == ASSUME IInv, NEW j \in Job, FindTarget(j) PROVE IInv'
<1>. USE DEF FindTarget
<1>1. TypeOK /\ JobInv(j) /\ "eligible" \in Where \ {"idle", "unaudited", "done"}
      /\ pc[j] = "versioned" /\ Acting(j)
  BY DEF IInv, Where, Acting
<1>2. CASE /\ role[req[j].user] # None /\ status[req[j].user] = "active"
           /\ Goto(j, "eligible") /\ UNCHANGED <<data, lock, seen, res, audit>>
  <2>1. pc'[j] = "eligible" /\ UNCHANGED req
    BY <1>1, <1>2, GotoFacts
  <2>2. seen' \in [Job -> Seen]
    BY <1>1, <1>2, TypesNow
  <2>3. ReadStands(j)'
    BY <1>2, <2>1 DEF ReadStands, Target, data
  <2>4. seen'[j].version = Version /\ req[j].expected \in {None, Version}
    BY <1>1, <1>2 DEF JobInv
  <2>. QED
    BY <1>1, <1>2, <2>2, <2>3, <2>4, AdvanceKeeps DEF Held
<1>3. CASE Reject(j, "target_not_eligible")
  BY <1>1, <1>3, RejectKeeps DEF Kind
<1>. QED
  BY <1>2, <1>3

LEMMA DemoteKeeps == ASSUME IInv, NEW j \in Job, Demote(j) PROVE IInv'
<1>. USE DEF Demote
<1>1. TypeOK /\ JobInv(j) /\ "demoted" \in Where \ {"idle", "unaudited", "done"}
      /\ pc[j] = "compared" /\ Acting(j)
  BY DEF IInv, Where, Acting
<1>2. pc'[j] = "demoted" /\ UNCHANGED req
  BY <1>1, GotoFacts
<1>3. /\ seen' \in [Job -> Seen] /\ seen'[j].version = seen[j].version
      /\ seen'[j].owners = Owners \ {req[j].user}
      /\ \A k \in Job \ {j} : seen'[k] = seen[k]
  BY <1>1, TypesNow DEF Seen, Owners
<1>4. store = "sqlite" => ReadStands(j)'
  BY <1>1, <1>2, <1>3 DEF JobInv, ReadStands, Target, data, Owners
<1>5. seen'[j].version = Version /\ req[j].expected \in {None, Version} /\ IsOp(j, {"transfer"})
  BY <1>1, <1>3 DEF JobInv
<1>. QED
  BY <1>1, <1>3, <1>4, <1>5, AdvanceKeeps DEF Held

LEMMA ViewOwnerKeeps == ASSUME IInv, NEW j \in Job, ViewOwner(j) PROVE IInv'
<1>. USE DEF ViewOwner
<1>1. TypeOK /\ "viewed" \in Where \ {"idle", "unaudited", "done"} /\ pc[j] = "locked"
      /\ Acting(j)
  BY DEF IInv, Where, Acting
<1>2. pc'[j] = "viewed"
  BY <1>1, GotoFacts
<1>3. /\ seen' \in [Job -> Seen] /\ seen'[j].version = Version
      /\ \A k \in Job \ {j} : seen'[k] = seen[k]
  BY <1>1, TypesNow, VersionIsNat DEF Seen, Owners
<1>4. ReadStands(j)'
  BY <1>2 DEF ReadStands
<1>. QED
  BY <1>1, <1>3, <1>4, AdvanceKeeps DEF Held

LEMMA DecideKeeps == ASSUME IInv, NEW j \in Job, Decide(j) PROVE IInv'
<1>. USE DEF Decide
<1>1. TypeOK /\ "decided" \in Where \ {"idle", "unaudited", "done"} /\ pc[j] = "idle"
      /\ MayBegin(j)
  BY DEF IInv, Where
<1>2. CASE EndOperation(j, "refused") /\ UNCHANGED <<data, seen>>
  BY <1>1, <1>2, RefusedKeeps
<1>3. CASE /\ ~Refused(j) /\ seen' = [seen EXCEPT ![j].owners = Owners]
           /\ Goto(j, "decided") /\ UNCHANGED <<data, lock, res, audit>>
  <2>1. pc'[j] = "decided" /\ UNCHANGED req
    BY <1>1, <1>3, GotoFacts
  <2>2. /\ seen' \in [Job -> Seen] /\ seen'[j].owners = Owners
        /\ \A k \in Job \ {j} : seen'[k] = seen[k]
    BY <1>1, <1>3, TypesNow DEF Seen, Owners
  <2>3. Refused(j)' = Refused(j) /\ Owners' = Owners
    BY <1>3, <2>1 DEF Refused, IsOp, Owners, data
  <2>4. ReadStands(j)'
    BY <1>3, <2>1, <2>2, <2>3 DEF ReadStands
  <2>. QED
    BY <1>1, <1>3, <2>2, <2>4, AdvanceKeeps DEF Held
<1>. QED
  BY <1>2, <1>3

-----------------------------------------------------------------------------
(* The requests of hosting control that commit.                            *)

LEMMA CommitFacts ==
  ASSUME IInv, NEW j \in Job, NEW kind \in Kind, NEW version \in Nat,
         NEW owners \in SUBSET User, CommitRequest(j, kind, version, owners)
  PROVE  /\ pc' \in [Job -> Where] /\ pc'[j] = "done" /\ UNCHANGED <<store, req>>
         /\ res' \in [Job -> Result]
         /\ res'[j] = [kind |-> kind, version |-> version, owners |-> owners]
         /\ audit' \in [Job -> Row]
         /\ lock' = (IF lock = j THEN None ELSE lock) /\ lock' \in Job \cup {None}
         /\ \A k \in Job \ {j} : pc'[k] = pc[k] /\ res'[k] = res[k] /\ audit'[k] = audit[k]
<1>1. TypeOK /\ "done" \in Where
  BY DEF IInv, Where
<1>2. [kind |-> kind, version |-> version, owners |-> owners] \in Result
  BY DEF Result
<1>3. /\ pc' \in [Job -> Where] /\ pc'[j] = "done" /\ UNCHANGED <<store, req>>
      /\ \A k \in Job \ {j} : pc'[k] = pc[k]
  BY <1>1, GotoFacts DEF CommitRequest
<1>4. /\ res' \in [Job -> Result]
      /\ res'[j] = [kind |-> kind, version |-> version, owners |-> owners]
      /\ \A k \in Job \ {j} : res'[k] = res[k]
  BY <1>1, <1>2, TypesNow DEF CommitRequest
<1>5. audit' \in [Job -> Row] /\ \A k \in Job \ {j} : audit'[k] = audit[k]
  BY <1>1, TypesNow DEF CommitRequest, Row, Column
<1>6. lock' = (IF lock = j THEN None ELSE lock) /\ lock' \in Job \cup {None}
  BY <1>1 DEF CommitRequest, Unlock, TypeOK
<1>. QED
  BY <1>3, <1>4, <1>5, <1>6

\* A request that has the row commits: a change moves the version it has checked.
LEMMA CommitKeeps ==
  ASSUME IInv, NEW j \in Job, lock = j, NEW kind \in {"changed", "unchanged"},
         NEW version \in Nat, NEW owners \in SUBSET User,
         CommitRequest(j, kind, version, owners),
         UNCHANGED <<alive, status, linked, setUp, seen>>,
         access' \in [mode : Mode, version : Nat] \cup {None}, Version <= Version',
         role' \in [User -> Role \cup {None}],
         kind = "changed" =>
           /\ version <= Version'
           /\ version > 0 => version = Version + 1 /\ req[j].expected \in {None, Version},
         OneOwner', ExactlyOneOwnerOnSqlite', SetUpStands'
  PROVE  IInv'
<1>1. TypeOK /\ JobInv(j) /\ j # None /\ kind \in Kind /\ Version \in Nat /\ alive
  BY OperationAssumption, VersionIsNat DEF IInv, Kind, LockAlive
<1>2. /\ pc' \in [Job -> Where] /\ pc'[j] = "done" /\ UNCHANGED <<store, req>>
      /\ res' \in [Job -> Result]
      /\ res'[j] = [kind |-> kind, version |-> version, owners |-> owners]
      /\ audit' \in [Job -> Row]
      /\ lock' = None
      /\ \A k \in Job \ {j} : pc'[k] = pc[k] /\ res'[k] = res[k] /\ audit'[k] = audit[k]
  BY <1>1, CommitFacts
<1>3. TypeOK'
  BY <1>1, <1>2, TypesNow, TypesOfStep DEF TypeOK
<1>4. req[j].expected \in {None, Version} =>
        (version > 0 /\ version = Version + 1 => req[j].expected \in {None, version - 1})
  BY <1>1
<1>5. JobInv(j)'
  BY <1>1, <1>2, <1>4 DEF JobInv, ReadStands, Held, IsOp
<1>6. Acting(j)
  BY <1>1 DEF JobInv, Acting, Held
<1>7. version = 0 \/ version > 0
  OBVIOUS
<1>8. Acts(j)
  BY <1>1, <1>2, <1>6, <1>7 DEF Acts, Acting
<1>. QED
  BY <1>2, <1>3, <1>5, <1>8, ActsKeep DEF LockAlive

LEMMA BumpFacts ==
  ASSUME TypeOK, NEW mode \in Mode, BumpAccess(mode)
  PROVE  access' \in [mode : Mode, version : Nat] /\ Version' = Version + 1
<1>1. access' = [mode |-> mode, version |-> Version + 1] /\ Version \in Nat
  BY VersionIsNat DEF BumpAccess
<1>2. access' \in [mode : Mode, version : Nat] /\ access' # None
  BY <1>1, OperationAssumption
<1>. QED
  BY <1>1, <1>2 DEF Version

LEMMA MembersUnmoved ==
  ASSUME IInv, UNCHANGED <<store, role, status, linked, setUp>>, alive' => alive
  PROVE  OneOwner' /\ ExactlyOneOwnerOnSqlite' /\ SetUpStands'
  BY DEF IInv, OneOwner, ExactlyOneOwnerOnSqlite, ExactlyOneOwner, SetUpStands,
         ActiveHasSetUpOnSqlite, ActiveHasSetUp, Owners

LEMMA SetAccessKeeps == ASSUME IInv, NEW j \in Job, SetAccess(j) PROVE IInv'
<1>. USE DEF SetAccess
<1>1. /\ TypeOK /\ JobInv(j) /\ pc[j] = "versioned" /\ Version \in Nat /\ lock = j
      /\ req[j].expected \in {None, Version}
  BY VersionIsNat DEF IInv, JobInv, Held
<1>2. CASE /\ SameAccess(req[j].want) /\ UNCHANGED access
           /\ CommitRequest(j, "unchanged", Version, {})
  <2>1. UNCHANGED store
    BY <1>2 DEF CommitRequest, Goto
  <2>2. OneOwner' /\ ExactlyOneOwnerOnSqlite' /\ SetUpStands'
    BY <2>1, MembersUnmoved
  <2>3. Version' = Version
    BY <1>2 DEF Version
  <2>4. /\ role' \in [User -> Role \cup {None}]
        /\ access' \in [mode : Mode, version : Nat] \cup {None}
    BY <1>1, <1>2 DEF TypeOK
  <2>. QED
    BY <1>1, <1>2, <2>2, <2>3, <2>4, CommitKeeps
<1>3. CASE /\ BumpAccess(req[j].want)
           /\ CommitRequest(j, "changed", Version + 1, {})
  <2>1. UNCHANGED store
    BY <1>3 DEF CommitRequest, Goto
  <2>2. OneOwner' /\ ExactlyOneOwnerOnSqlite' /\ SetUpStands'
    BY <2>1, MembersUnmoved
  <2>3. req[j].want \in Mode
    BY <1>1, TypesNow DEF Operation, IsOp
  <2>4. access' \in [mode : Mode, version : Nat] \cup {None} /\ Version' = Version + 1
    BY <1>1, <1>3, <2>3, BumpFacts
  <2>5. role' \in [User -> Role \cup {None}]
    BY <1>1 DEF TypeOK
  <2>. QED
    BY <1>1, <1>3, <2>2, <2>4, <2>5, CommitKeeps
<1>. QED
  BY <1>2, <1>3

LEMMA CompareOwnerKeeps == ASSUME IInv, NEW j \in Job, CompareOwner(j) PROVE IInv'
<1>. USE DEF CompareOwner
<1>1. /\ TypeOK /\ JobInv(j) /\ pc[j] = "eligible" /\ Version \in Nat /\ lock = j
      /\ Acting(j) /\ IsOp(j, {"transfer"}) /\ seen[j].version = Version
      /\ req[j].expected \in {None, Version}
  BY VersionIsNat DEF IInv, JobInv, Held, Acting
<1>2. CASE CommitRequest(j, "unchanged", seen[j].version, Owners)
  <2>1. UNCHANGED store
    BY <1>2 DEF CommitRequest, Goto
  <2>2. OneOwner' /\ ExactlyOneOwnerOnSqlite' /\ SetUpStands'
    BY <2>1, MembersUnmoved DEF data
  <2>3. Version' = Version
    BY DEF Version, data
  <2>4. /\ role' \in [User -> Role \cup {None}]
        /\ access' \in [mode : Mode, version : Nat] \cup {None}
        /\ Owners \in SUBSET User
    BY <1>1 DEF TypeOK, data, Owners
  <2>. QED
    BY <1>1, <1>2, <2>2, <2>3, <2>4, CommitKeeps DEF data
<1>3. CASE Goto(j, "compared") /\ UNCHANGED <<lock, res, audit>>
  <2>1. "compared" \in Where \ {"idle", "unaudited", "done"}
    BY DEF Where
  <2>2. pc'[j] = "compared" /\ UNCHANGED req
    BY <1>1, <1>3, <2>1, GotoFacts
  <2>3. store = "sqlite" => ReadStands(j)'
    BY <1>1, <2>2 DEF JobInv, ReadStands, Target, data
  <2>4. seen' \in [Job -> Seen]
    BY <1>1, TypesNow
  <2>. QED
    BY <1>1, <1>3, <2>1, <2>3, <2>4, AdvanceKeeps DEF Held
<1>. QED
  BY <1>2, <1>3

\* A membership change that the index admits leaves at most one owner.
LEMMA IndexGivesOneOwner ==
  ASSUME IInv, NEW u \in User, OneOwnerIndex(role'), Owners' \subseteq Owners \cup {u}
  PROVE  OneOwner'
<1>1. IsFiniteSet(Owners \cup {u})
  BY OwnersAreFinite, FS_AddElement DEF IInv
<1>2. IsFiniteSet(Owners')
  BY <1>1, FS_Subset
<1>3. Cardinality(Owners') <= 1
  BY DEF OneOwnerIndex, Owners
<1>. QED
  BY <1>2, <1>3, AtMostOne DEF OneOwner

\* On SQLite the owners found are the owners, so the target replaces them.
LEMMA SwapFacts ==
  ASSUME IInv, NEW found, NEW u \in User, role' = Swapped(found, u)
  PROVE  /\ role' \in [User -> Role \cup {None}]
         /\ Owners' \subseteq Owners \cup {u}
         /\ \A v \in User : role'[v] # None => role[v] # None
         /\ role[u] # None /\ Owners \ {u} \subseteq found => Owners' = {u}
  BY OperationAssumption DEF IInv, TypeOK, Swapped, Owners, Role

LEMMA PromoteKeeps == ASSUME IInv, NEW j \in Job, Promote(j) PROVE IInv'
<1>. USE DEF Promote
<1>1. /\ TypeOK /\ JobInv(j) /\ pc[j] = "demoted" /\ Version \in Nat /\ lock = j
      /\ Acting(j) /\ IsOp(j, {"transfer"}) /\ seen[j].version = Version
      /\ req[j].expected \in {None, Version} /\ alive
  BY VersionIsNat, OperationAssumption DEF IInv, JobInv, Held, Acting, LockAlive
<1>2. req[j].user \in User /\ {req[j].user} \in SUBSET User
  BY <1>1, TypesNow DEF Operation, IsOp
<1>3. CASE ~OneOwnerIndex(Swapped(seen[j].owners, req[j].user)) /\ Reject(j, "conflict")
  BY <1>1, <1>3, RejectKeeps DEF Kind
<1>4. CASE /\ OneOwnerIndex(role') /\ role' = Swapped(seen[j].owners, req[j].user)
           /\ UNCHANGED <<alive, status, linked, setUp, seen>>
           /\ \/ /\ access = None /\ UNCHANGED access
                 /\ CommitRequest(j, "changed", 0, {req[j].user})
              \/ /\ access # None /\ BumpAccess(access.mode)
                 /\ CommitRequest(j, "changed", seen[j].version + 1, {req[j].user})
  <2>1. UNCHANGED store
    BY <1>4 DEF CommitRequest, Goto
  <2>2. /\ role' \in [User -> Role \cup {None}]
        /\ Owners' \subseteq Owners \cup {req[j].user}
        /\ \A v \in User : role'[v] # None => role[v] # None
        /\ role[req[j].user] # None /\ Owners \ {req[j].user} \subseteq seen[j].owners
             => Owners' = {req[j].user}
    BY <1>2, <1>4, SwapFacts
  <2>3. OneOwner'
    BY <1>2, <1>4, <2>2, IndexGivesOneOwner
  <2>4. ExactlyOneOwnerOnSqlite'
    <3>1. store = "sqlite" => /\ role[req[j].user] # None /\ status[req[j].user] = "active"
                              /\ seen[j].owners = Owners \ {req[j].user}
      BY <1>1 DEF JobInv, ReadStands, Target
    <3>2. store = "sqlite" => Owners' = {req[j].user} /\ status'[req[j].user] # "disabled"
      BY <1>4, <2>2, <3>1
    <3>. QED
      BY <1>2, <2>1, <3>2 DEF ExactlyOneOwnerOnSqlite, ExactlyOneOwner
  <2>5. SetUpStands'
    BY <1>4, <2>1, <2>2 DEF IInv, SetUpStands, ActiveHasSetUpOnSqlite, ActiveHasSetUp
  <2>6. CASE /\ access = None /\ UNCHANGED access
             /\ CommitRequest(j, "changed", 0, {req[j].user})
    <3>1. Version' = Version
      BY <2>6 DEF Version
    <3>2. access' \in [mode : Mode, version : Nat] \cup {None}
      BY <2>6
    <3>. QED
      BY <1>1, <1>2, <1>4, <2>2, <2>3, <2>4, <2>5, <2>6, <3>1, <3>2, CommitKeeps
  <2>7. CASE /\ access # None /\ BumpAccess(access.mode)
             /\ CommitRequest(j, "changed", seen[j].version + 1, {req[j].user})
    <3>1. access.mode \in Mode
      BY <1>1, <2>7 DEF TypeOK
    <3>2. access' \in [mode : Mode, version : Nat] \cup {None} /\ Version' = Version + 1
      BY <1>1, <2>7, <3>1, BumpFacts
    <3>3. seen[j].version + 1 = Version + 1 /\ Version + 1 \in Nat
      BY <1>1
    <3>4. CommitRequest(j, "changed", Version + 1, {req[j].user})
      BY <2>7, <3>3
    <3>. QED
      BY <1>1, <1>2, <1>4, <2>2, <2>3, <2>4, <2>5, <3>2, <3>3, <3>4, CommitKeeps
  <2>. QED
    BY <1>4, <2>6, <2>7
<1>. QED
  BY <1>3, <1>4

LEMMA ViewVersionKeeps == ASSUME IInv, NEW j \in Job, ViewVersion(j) PROVE IInv'
<1>. USE DEF ViewVersion
<1>1. /\ TypeOK /\ JobInv(j) /\ pc[j] = "viewed" /\ Version \in Nat /\ j # None
      /\ Acting(j) /\ seen[j].version = Version /\ lock = j /\ alive
      /\ "unaudited" \in Where
  BY VersionIsNat, OperationAssumption DEF IInv, JobInv, Held, Acting, LockAlive, Where
<1>2. /\ pc' \in [Job -> Where] /\ pc'[j] = "unaudited" /\ UNCHANGED <<store, req>>
      /\ \A k \in Job \ {j} : pc'[k] = pc[k]
  BY <1>1, GotoFacts
<1>3. [kind |-> "inspected", version |-> Version, owners |-> seen[j].owners] \in Result
  BY <1>1, TypesNow DEF Result, Kind, Seen
<1>4. /\ res' \in [Job -> Result] /\ res'[j].kind = "inspected" /\ res'[j].version = Version
      /\ \A k \in Job \ {j} : res'[k] = res[k]
  BY <1>1, <1>3, TypesNow
<1>5. lock' = None
  BY <1>1 DEF Unlock
<1>6. TypeOK'
  BY <1>1, <1>2, <1>4, <1>5, TypesNow, TypesOfStep DEF TypeOK, data
<1>7. JobInv(j)'
  BY <1>1, <1>2, <1>4, <1>5 DEF JobInv, ReadStands, Held
<1>8. Acts(j)
  BY <1>1, <1>2, <1>4, <1>5 DEF Acts, data, Version
<1>. QED
  BY <1>5, <1>6, <1>7, <1>8, QuietKeeps

LEMMA FinishAuditKeeps == ASSUME IInv, NEW j \in Job, FinishAudit(j) PROVE IInv'
<1>. USE DEF FinishAudit
<1>1. /\ TypeOK /\ JobInv(j) /\ pc[j] = "unaudited" /\ Version \in Nat /\ j # None
      /\ MayBegin(j) /\ lock # j /\ "done" \in Where
  BY VersionIsNat, OperationAssumption DEF IInv, JobInv, Held, Where
<1>2. /\ pc' \in [Job -> Where] /\ pc'[j] = "done" /\ UNCHANGED <<store, req>>
      /\ \A k \in Job \ {j} : pc'[k] = pc[k]
  BY <1>1, GotoFacts
<1>3. audit' \in [Job -> Row] /\ \A k \in Job \ {j} : audit'[k] = audit[k]
  BY <1>1, TypesNow DEF Row, Column
<1>4. TypeOK'
  BY <1>1, <1>2, <1>3, TypesNow, TypesOfStep DEF TypeOK, data
<1>5. JobInv(j)'
  BY <1>1, <1>2 DEF JobInv, ReadStands, Held, IsOp, Version, data
<1>6. Acts(j)
  BY <1>1, <1>2, <1>3 DEF Acts, data, Version
<1>. QED
  BY <1>4, <1>5, <1>6, QuietKeeps

LEMMA DeleteWorkspaceKeeps == ASSUME IInv, NEW j \in Job, DeleteWorkspace(j) PROVE IInv'
<1>. USE DEF DeleteWorkspace
<1>1. /\ TypeOK /\ JobInv(j) /\ pc[j] = "idle" /\ Version \in Nat /\ j # None
      /\ MayBegin(j) /\ lock = None /\ "done" \in Where /\ lock' = None
  BY VersionIsNat, OperationAssumption DEF IInv, Where, RowFree
<1>2. /\ pc' \in [Job -> Where] /\ pc'[j] = "done" /\ UNCHANGED <<store, req>>
      /\ \A k \in Job \ {j} : pc'[k] = pc[k]
  BY <1>1, GotoFacts
<1>3. PICK kind \in {"deleted", "absent"} : res' = [res EXCEPT ![j].kind = kind]
  OBVIOUS
<1>4. /\ res' \in [Job -> Result] /\ res'[j].kind = kind
      /\ \A k \in Job \ {j} : res'[k] = res[k]
  BY <1>1, <1>3, KindFacts DEF Kind
<1>5. CASE alive /\ ~alive' /\ access' = None /\ role' = [u \in User |-> None]
           /\ audit' = [Redacted EXCEPT ![j] = {"path"}]
  <2>1. /\ audit' \in [Job -> Row]
        /\ \A k \in Job : "workspace_id" \notin audit'[k]
        /\ \A k \in Job \ {j} : audit'[k] = audit[k] \/ audit'[k] = audit[k] \ {"workspace_id"}
    BY <1>1, <1>5, TypesNow, OperationAssumption DEF Redacted, Row, Column
  <2>2. TypeOK'
    BY <1>1, <1>2, <1>4, <1>5, <2>1, TypesNow, TypesOfStep DEF TypeOK
  <2>3. JobInv(j)'
    BY <1>1, <1>2, <1>4, <1>5 DEF JobInv, ReadStands, Held, IsOp
  <2>4. Acts(j)
    BY <1>1, <1>2, <1>4, <1>5, <2>1 DEF Acts
  <2>5. LockAlive' /\ ExactlyOneOwnerOnSqlite'
    BY <1>1, <1>5 DEF LockAlive, ExactlyOneOwnerOnSqlite, ExactlyOneOwner
  <2>6. OneOwner'
    BY <1>5, OperationAssumption DEF OneOwner, Owners, Role
  <2>7. SetUpStands'
    BY <1>5 DEF IInv, SetUpStands, ActiveHasSetUpOnSqlite, ActiveHasSetUp
  <2>. QED
    BY <2>2, <2>3, <2>4, <2>5, <2>6, <2>7, ActsKeep
<1>6. CASE ~alive /\ UNCHANGED <<alive, access, role>> /\ audit' = [audit EXCEPT ![j] = {"path"}]
  <2>1. /\ audit' \in [Job -> Row]
        /\ \A k \in Job \ {j} : audit'[k] = audit[k]
    BY <1>1, <1>6, TypesNow DEF Row, Column
  <2>2. TypeOK'
    BY <1>1, <1>2, <1>4, <1>6, <2>1, TypesNow, TypesOfStep DEF TypeOK
  <2>3. JobInv(j)'
    BY <1>1, <1>2, <1>4, <1>6 DEF JobInv, ReadStands, Held, IsOp
  <2>4. Acts(j)
    BY <1>1, <1>2, <1>4, <1>6, <2>1 DEF Acts, Version
  <2>. QED
    BY <1>1, <1>6, <2>2, <2>3, <2>4, QuietKeeps DEF data
<1>. QED
  BY <1>5, <1>6

-----------------------------------------------------------------------------
(* The operations of the CRM that commit.                                  *)

LEMMA OperationKeeps ==
  ASSUME IInv, NEW j \in Job, EndOperation(j, "changed"), UNCHANGED <<alive, access, seen>>,
         pc[j] \in {"idle", "decided"}, ~Acting(j) => MayBegin(j),
         role' \in [User -> Role \cup {None}],
         status' \in [User -> {"pending", "active", "disabled"}],
         linked' \in [User -> BOOLEAN], setUp' \subseteq User,
         OneOwner', ExactlyOneOwnerOnSqlite', SetUpStands'
  PROVE  IInv'
<1>. USE DEF EndOperation
<1>1. /\ TypeOK /\ JobInv(j) /\ j # None /\ lock # j /\ Version \in Nat /\ Version' = Version
      /\ "done" \in Where /\ "changed" \in Kind /\ res[j].version = 0 /\ audit[j] = {}
  BY OperationAssumption, VersionIsNat DEF IInv, Where, Kind, JobInv, Held, NoResult, Version
<1>2. /\ pc' \in [Job -> Where] /\ pc'[j] = "done" /\ UNCHANGED <<store, req>>
      /\ \A k \in Job \ {j} : pc'[k] = pc[k]
  BY <1>1, GotoFacts
<1>3. /\ res' \in [Job -> Result] /\ res'[j].kind = "changed" /\ res'[j].version = 0
      /\ \A k \in Job \ {j} : res'[k] = res[k]
  BY <1>1, KindFacts
<1>4. TypeOK'
  BY <1>1, <1>2, <1>3, TypesNow, TypesOfStep DEF TypeOK
<1>5. "workspace_id" \notin audit'[j]
  BY <1>1, OperationAssumption
<1>6. JobInv(j)'
  BY <1>1, <1>2, <1>3, <1>5 DEF JobInv, ReadStands, Held, IsOp
<1>7. Acts(j)
  BY <1>1, <1>2, <1>3 DEF Acts
<1>. QED
  BY <1>4, <1>6, <1>7, ActsKeep DEF IInv, LockAlive

LEMMA UpdateUserKeeps == ASSUME IInv, NEW j \in Job, UpdateUser(j) PROVE IInv'
<1>. USE DEF UpdateUser
<1>. DEFINE u == req[j].user
            want == req[j].want
<1>1. /\ TypeOK /\ JobInv(j) /\ pc[j] = "decided" /\ Acting(j) /\ IsOp(j, {"update"})
      /\ OneOwner /\ ExactlyOneOwnerOnSqlite /\ SetUpStands
  BY DEF IInv, Acting
<1>2. u \in User /\ want \in Change
  BY <1>1, TypesNow, OperationAssumption DEF Operation, IsOp
<1>3. store = "sqlite" => role[u] # None /\ (role[u] = "owner" => want = "enable")
  BY <1>1 DEF JobInv, ReadStands, Refused
<1>4. CASE EndOperation(j, "refused") /\ UNCHANGED data
  BY <1>1, <1>4, RefusedKeeps
<1>5. CASE /\ role' = IF want \in Role THEN [role EXCEPT ![u] = want] ELSE role
           /\ status' = CASE want = "disable" -> [status EXCEPT ![u] = "disabled"]
                          [] want = "enable" -> [status EXCEPT ![u] = Enabled(u)]
                          [] OTHER -> status
           /\ UNCHANGED <<alive, access, linked, setUp>>
           /\ EndOperation(j, "changed")
           /\ role[u] # None
  <2>1. UNCHANGED store
    BY <1>5 DEF EndOperation, Goto
  <2>2. Enabled(u) \in {"pending", "active", "disabled"}
        /\ (store = "sqlite" => Enabled(u) # "disabled" /\ (Enabled(u) = "active" => linked[u]))
    BY <1>1, <1>2 DEF Enabled, TypeOK
  <2>3. /\ status' \in [User -> {"pending", "active", "disabled"}]
        /\ \A v \in User : v = u \/ status'[v] = status[v]
        /\ status'[u] = "disabled" /\ store = "sqlite" =>
             want = "disable" \/ status[u] = "disabled"
        /\ status'[u] = "active" /\ store = "sqlite" => linked[u] \/ status[u] = "active"
    <3>1. CASE want = "disable"
      BY <1>1, <1>2, <1>5, <3>1 DEF TypeOK
    <3>2. CASE want = "enable"
      <4>1. status' = [status EXCEPT ![u] = Enabled(u)]
        BY <1>5, <3>2
      <4>. QED
        BY <1>1, <1>2, <2>2, <4>1 DEF TypeOK
    <3>3. CASE want \notin {"disable", "enable"}
      <4>1. status' = status
        BY <1>5, <3>3
      <4>. QED
        BY <1>1, <4>1 DEF TypeOK
    <3>. QED
      BY <3>1, <3>2, <3>3
  <2>4. /\ role' \in [User -> Role \cup {None}]
        /\ \A v \in User : role'[v] = "owner" => role[v] = "owner"
        /\ \A v \in User : role'[v] # None => role[v] # None
        /\ \A v \in User : role[v] = "owner" /\ role'[v] # "owner" => v = u /\ want \in Role
    BY <1>1, <1>2, <1>5 DEF TypeOK, Role, Change
  <2>5. OneOwner'
    BY <1>1, <2>4 DEF OneOwner, Owners
  <2>6. SetUpStands'
    BY <1>1, <1>5, <2>1, <2>3, <2>4 DEF SetUpStands, ActiveHasSetUpOnSqlite, ActiveHasSetUp
  <2>7. ExactlyOneOwnerOnSqlite'
    <3>1. SUFFICES ASSUME store = "sqlite", alive PROVE ExactlyOneOwner'
      BY <1>5, <2>1 DEF ExactlyOneOwnerOnSqlite, ExactlyOneOwner
    <3>2. PICK o \in User : Owners = {o} /\ status[o] # "disabled"
      BY <1>1, <3>1 DEF ExactlyOneOwnerOnSqlite, ExactlyOneOwner
    <3>3. "enable" \notin Role /\ "enable" # "disable"
      BY DEF Role
    <3>4. role[o] = "owner" /\ \A v \in User : role[v] = "owner" => v = o
      BY <3>2 DEF Owners
    <3>5. role'[o] = "owner"
      BY <1>3, <2>4, <3>1, <3>3, <3>4
    <3>6. Owners' = {o}
      BY <2>4, <3>4, <3>5 DEF Owners
    <3>7. status'[o] # "disabled"
      BY <1>3, <2>3, <3>1, <3>2, <3>3, <3>4
    <3>. QED
      BY <3>6, <3>7 DEF ExactlyOneOwner
  <2>8. linked' \in [User -> BOOLEAN] /\ setUp' \subseteq User
    BY <1>1, <1>5 DEF TypeOK
  <2>. QED
    BY <1>1, <1>5, <2>3, <2>4, <2>5, <2>6, <2>7, <2>8, OperationKeeps
<1>. QED
  BY <1>4, <1>5

LEMMA RemoveUserKeeps == ASSUME IInv, NEW j \in Job, RemoveUser(j) PROVE IInv'
<1>. USE DEF RemoveUser
<1>. DEFINE u == req[j].user
<1>1. /\ TypeOK /\ JobInv(j) /\ pc[j] = "decided" /\ Acting(j) /\ IsOp(j, {"remove"})
      /\ OneOwner /\ ExactlyOneOwnerOnSqlite /\ SetUpStands
  BY DEF IInv, Acting
<1>2. u \in User /\ req[j].want = None /\ None # "enable"
  BY <1>1, TypesNow, OperationAssumption DEF Operation, IsOp, Change
<1>3. store = "sqlite" => role[u] # "owner"
  BY <1>1, <1>2 DEF JobInv, ReadStands, Refused
<1>4. CASE UNCHANGED role /\ EndOperation(j, "refused")
  BY <1>1, <1>4, RefusedKeeps DEF data
<1>5. CASE role' = [role EXCEPT ![u] = None] /\ EndOperation(j, "changed")
  <2>1. UNCHANGED store
    BY <1>5 DEF EndOperation, Goto
  <2>2. /\ role' \in [User -> Role \cup {None}]
        /\ \A v \in User : role'[v] = "owner" => role[v] = "owner"
        /\ \A v \in User : role'[v] # None => role[v] # None
        /\ store = "sqlite" => Owners' = Owners
    BY <1>1, <1>2, <1>3, <1>5, OperationAssumption DEF TypeOK, Role, Owners
  <2>3. OneOwner'
    BY <1>1, <2>2 DEF OneOwner, Owners
  <2>4. SetUpStands'
    BY <1>1, <2>1, <2>2 DEF SetUpStands, ActiveHasSetUpOnSqlite, ActiveHasSetUp
  <2>5. ExactlyOneOwnerOnSqlite'
    BY <1>1, <2>1, <2>2 DEF ExactlyOneOwnerOnSqlite, ExactlyOneOwner
  <2>6. /\ status' \in [User -> {"pending", "active", "disabled"}]
        /\ linked' \in [User -> BOOLEAN] /\ setUp' \subseteq User
    BY <1>1 DEF TypeOK
  <2>. QED
    BY <1>1, <1>5, <2>2, <2>3, <2>4, <2>5, <2>6, OperationKeeps
<1>. QED
  BY <1>4, <1>5

LEMMA HandOverKeeps == ASSUME IInv, NEW j \in Job, HandOver(j) PROVE IInv'
<1>. USE DEF HandOver
<1>. DEFINE u == req[j].user
<1>1. /\ TypeOK /\ JobInv(j) /\ pc[j] = "decided" /\ Acting(j) /\ IsOp(j, {"hand_over"})
      /\ SetUpStands
  BY DEF IInv, Acting
<1>2. u \in User
  BY <1>1, TypesNow DEF Operation, IsOp
<1>3. store = "sqlite" => role[u] # None /\ status[u] = "active" /\ seen[j].owners = Owners
  BY <1>1 DEF JobInv, ReadStands, Refused
<1>4. CASE UNCHANGED role /\ EndOperation(j, "conflict")
  BY <1>1, <1>4, RefusedKeeps DEF data
<1>5. CASE /\ role' = Swapped(seen[j].owners, u) /\ OneOwnerIndex(role')
           /\ EndOperation(j, "changed")
  <2>1. UNCHANGED store
    BY <1>5 DEF EndOperation, Goto
  <2>2. /\ role' \in [User -> Role \cup {None}]
        /\ Owners' \subseteq Owners \cup {u}
        /\ \A v \in User : role'[v] # None => role[v] # None
        /\ role[u] # None /\ Owners \ {u} \subseteq seen[j].owners => Owners' = {u}
    BY <1>2, <1>5, SwapFacts
  <2>3. OneOwner'
    BY <1>2, <1>5, <2>2, IndexGivesOneOwner
  <2>4. SetUpStands'
    BY <1>1, <2>1, <2>2 DEF SetUpStands, ActiveHasSetUpOnSqlite, ActiveHasSetUp
  <2>5. ExactlyOneOwnerOnSqlite'
    <3>1. store = "sqlite" => Owners' = {u} /\ status'[u] # "disabled"
      BY <1>3, <2>2
    <3>. QED
      BY <1>2, <2>1, <3>1 DEF ExactlyOneOwnerOnSqlite, ExactlyOneOwner
  <2>6. /\ status' \in [User -> {"pending", "active", "disabled"}]
        /\ linked' \in [User -> BOOLEAN] /\ setUp' \subseteq User
    BY <1>1 DEF TypeOK
  <2>. QED
    BY <1>1, <1>5, <2>2, <2>3, <2>4, <2>5, <2>6, OperationKeeps
<1>. QED
  BY <1>4, <1>5

LEMMA ActivateKeeps == ASSUME IInv, NEW j \in Job, Activate(j) PROVE IInv'
<1>. USE DEF Activate
<1>. DEFINE u == req[j].user
<1>1. /\ TypeOK /\ JobInv(j) /\ pc[j] = "idle" /\ MayBegin(j) /\ IsOp(j, {"activate"})
      /\ OneOwner /\ ExactlyOneOwnerOnSqlite /\ SetUpStands
  BY DEF IInv
<1>2. u \in User
  BY <1>1, TypesNow DEF Operation, IsOp
<1>3. CASE UNCHANGED <<linked, status, setUp>> /\ EndOperation(j, "refused")
  BY <1>1, <1>3, RefusedKeeps DEF data
<1>4. CASE /\ linked' = [linked EXCEPT ![u] = TRUE] /\ status' = [status EXCEPT ![u] = "active"]
           /\ setUp' = setUp \cup {u}
           /\ EndOperation(j, "changed")
  <2>1. UNCHANGED store /\ Owners' = Owners
    BY <1>4 DEF EndOperation, Goto, Owners
  <2>2. /\ status' \in [User -> {"pending", "active", "disabled"}]
        /\ linked' \in [User -> BOOLEAN] /\ setUp' \subseteq User
        /\ role' \in [User -> Role \cup {None}]
        /\ status'[u] = "active" /\ linked'[u] /\ setUp' = setUp \cup {u}
        /\ \A v \in User \ {u} : status'[v] = status[v] /\ linked'[v] = linked[v]
    BY <1>1, <1>2, <1>4 DEF TypeOK
  <2>3. OneOwner'
    BY <1>1, <2>1 DEF OneOwner
  <2>4. SetUpStands'
    BY <1>1, <2>1, <2>2 DEF SetUpStands, ActiveHasSetUpOnSqlite, ActiveHasSetUp
  <2>5. ExactlyOneOwnerOnSqlite'
    BY <1>1, <1>2, <2>1, <2>2 DEF ExactlyOneOwnerOnSqlite, ExactlyOneOwner
  <2>. QED
    BY <1>1, <1>4, <2>2, <2>3, <2>4, <2>5, OperationKeeps
<1>. QED
  BY <1>3, <1>4

-----------------------------------------------------------------------------
LEMMA NextKeeps == IInv /\ [Next]_vars => IInv'
<1>. SUFFICES ASSUME IInv, [Next]_vars PROVE IInv'
  OBVIOUS
<1>1. ASSUME NEW j \in Job, Serve(j) PROVE IInv'
  BY <1>1, LockWorkspaceKeeps, CheckVersionKeeps, SetAccessKeeps, FindTargetKeeps,
     CompareOwnerKeeps, DemoteKeeps, PromoteKeeps, ViewOwnerKeeps, ViewVersionKeeps,
     DeleteWorkspaceKeeps, FinishAuditKeeps, DecideKeeps, UpdateUserKeeps, RemoveUserKeeps,
     HandOverKeeps, ActivateKeeps DEF Serve
<1>2. CASE UNCHANGED vars
  BY <1>2 DEF vars, data, IInv, TypeOK, JobInv, ReadStands, Refused, Target, IsOp, Version,
     LockAlive, Alone, Acting, OneOwner, Owners, DistinctVersions, ExactlyOneOwnerOnSqlite,
     ExactlyOneOwner, SetUpStands, ActiveHasSetUpOnSqlite, ActiveHasSetUp
<1>. QED
  BY <1>1, <1>2 DEF Next

LEMMA IInvHolds == Spec => []IInv
  BY InitIInv, NextKeeps, PTL DEF Spec

\* Whatever the requests of hosting control and the operations of the CRM,
\* however many, a workspace never has two owners; where units of work are
\* serial it has exactly one, who can sign in, and no login is active that was
\* never set up, by registering or by signing in; an inspection is a snapshot;
\* and no success has the workspace_id of a deleted workspace on its audit row,
\* whose path keeps the id (lifecycle.ts, admin-ops.ts, server.ts:163).
THEOREM OwnershipAndRecordsHold == Spec => []Inv
<1>1. IInv => Inv
  BY InvFromIInv
<1>. QED
  BY <1>1, IInvHolds, PTL

\* expectedVersion is a compare-and-set on both stores, with no bound on the
\* requests in flight: a guarded change moved the version it named, and no
\* other change reports the version it reached (lifecycle.ts:191, :284).
THEOREM VersionsAreComparedAndSet == Spec => []GuardedChange
<1>1. IInv => GuardedChange
  BY InvFromIInv
<1>. QED
  BY <1>1, IInvHolds, PTL
=============================================================================
