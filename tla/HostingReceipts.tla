--------------------------- MODULE HostingReceipts ---------------------------
(***************************************************************************)
(* The idempotent mutation protocol of hosting control: runMutation        *)
(* (packages/hosting-control/src/server.ts) over the receipt statements of *)
(* the two stores (packages/db/src/sqlite-hosting.ts and pg/hosting.ts).   *)
(*                                                                         *)
(* A caller sends a mutation under an Idempotency-Key.  The server claims  *)
(* the key (INSERT .. ON CONFLICT DO NOTHING, then SELECT, then a          *)
(* conditional UPDATE that takes a stale claim over), runs the mutation in *)
(* one transaction that also completes the receipt, and answers.  A failed *)
(* transaction releases the claim.  Each action is one statement as the    *)
(* other callers can observe it.                                           *)
(*                                                                         *)
(* Serial chooses the store.  On SQLite every unit of work holds the one   *)
(* connection (sqlite-tx.ts), so the statements of one unit never          *)
(* interleave with another's.  On PostgreSQL (READ COMMITTED) they do, and *)
(* only row locks order them.                                              *)
(***************************************************************************)
EXTENDS Naturals

CONSTANTS
  Client,        \* callers; each sends one request, as often as it likes
  Key,           \* Idempotency-Key values
  Body,          \* request fingerprints: sha256 of action, path and body
  keyOf,         \* keyOf[c]: the key c sends
  bodyOf,        \* bodyOf[c]: the fingerprint of c's request
  Null,
  Serial,        \* TRUE: SQLite, one connection; FALSE: PostgreSQL
  Prompt,        \* TRUE: no live request outlasts PENDING_TAKEOVER_MS
  MaxFailures,   \* bound on mutations that throw
  MaxCrashes     \* bound on requests whose server process dies

ASSUME ClientAssumption ==
  /\ keyOf \in [Client -> Key]
  /\ bodyOf \in [Client -> Body]
  /\ Null \notin Client

ASSUME ModeAssumption ==
  /\ Serial \in BOOLEAN
  /\ Prompt \in BOOLEAN
  /\ MaxFailures \in Nat
  /\ MaxCrashes \in Nat

VARIABLES
  receipts,      \* idempotency_receipts, by key
  stage,         \* where c's current request is
  selected,      \* the receipt c's SELECT returned
  hit,           \* whether c's completeReceipt UPDATE found a row
  answer,        \* what c was last answered
  runs,          \* history: committed executions of c's mutation
  failures, crashes

receiptsVars == <<receipts, stage, selected, hit, answer, runs, failures, crashes>>

-----------------------------------------------------------------------------
(* A receipt row.  stale says its created_at is more than                  *)
(* PENDING_TAKEOVER_MS ago; it only matters while the row is pending.      *)
(* holder is the request_id column, response the stored response.          *)

Receipt == [state : {"pending", "completed"}, hash : Body, holder : Client,
            stale : BOOLEAN, response : Client \cup {Null}]

ASSUME NoneAssumption == Null \notin Receipt

Answer == [kind : {"none", "executed", "replayed", "conflict", "in_progress",
                   "error", "lost"},
           from : Client \cup {Null}]

Control == {"idle", "received", "inserted", "taking", "claimed", "closing",
            "failed", "committed", "answered"}

ReceiptsTypeOK ==
  /\ receipts \in [Key -> Receipt \cup {Null}]
  /\ stage \in [Client -> Control]
  /\ selected \in [Client -> Receipt \cup {Null}]
  /\ hit \in [Client -> BOOLEAN]
  /\ answer \in [Client -> Answer]
  /\ runs \in [Client -> Nat]
  /\ failures \in 0 .. MaxFailures
  /\ crashes \in 0 .. MaxCrashes

ReceiptRow(c) == receipts[keyOf[c]]

\* Mutant: created_at is written in seconds and read in milliseconds.
NewClaimStale(c) == [state |-> "pending", hash |-> bodyOf[c], holder |-> c,
                     stale |-> TRUE, response |-> Null]

NewClaim(c) == [state |-> "pending", hash |-> bodyOf[c], holder |-> c,
                stale |-> FALSE, response |-> Null]

\* c believes it owns its key: runMutation was told started: true and has
\* neither committed nor released the key.
Holds(c) == stage[c] \in {"claimed", "closing", "failed"}

\* c is between two statements of one unit of work.
InUnit(c) == stage[c] \in {"inserted", "taking", "closing"}

\* Mutant: statements do not wait for the connection.
MayBeginAnytime == TRUE

\* A unit of work may begin: on SQLite it waits for the connection.
UnitMayBegin == Serial => \A c \in Client : ~InUnit(c)

\* The row of key k is locked by another transaction's completeReceipt.
RowLocked(k, c) ==
  \E d \in Client \ {c} : keyOf[d] = k /\ stage[d] = "closing" /\ hit[d]

\* Mutant: claims are never taken over.
StaleClaimNever(r) == FALSE

\* A pending claim older than the takeover window.
StaleClaim(r) == r.state = "pending" /\ r.stale

Reply(c, kind, from) ==
  /\ answer' = [answer EXCEPT ![c] = [kind |-> kind, from |-> from]]
  /\ stage' = [stage EXCEPT ![c] = "answered"]

\* Mutant: the stored hash is replayed as the response.
ReplyFromHash(c, r) ==
  \/ r.hash # bodyOf[c] /\ Reply(c, "conflict", Null)
  \/ r.hash = bodyOf[c] /\ r.state = "pending" /\ Reply(c, "in_progress", Null)
  \/ r.hash = bodyOf[c] /\ r.state = "completed" /\ Reply(c, "replayed", r.hash)

\* Mutant: every receipt with the caller's fingerprint is replayed.
ReplyFromAny(c, r) ==
  \/ r.hash # bodyOf[c] /\ Reply(c, "conflict", Null)
  \/ r.hash = bodyOf[c] /\ Reply(c, "replayed", r.response)

\* What runMutation answers a caller who did not get the key, from the
\* receipt beginReceipt returned.
ReplyFrom(c, r) ==
  \/ /\ r.hash # bodyOf[c]
     /\ Reply(c, "conflict", Null)
  \/ /\ r.hash = bodyOf[c]
     /\ r.state = "pending"
     /\ Reply(c, "in_progress", Null)
  \/ /\ r.hash = bodyOf[c]
     /\ r.state = "completed"
     /\ Reply(c, "replayed", r.response)

-----------------------------------------------------------------------------
ReceiptsInit ==
  /\ receipts = [k \in Key |-> Null]
  /\ stage = [c \in Client |-> "idle"]
  /\ selected = [c \in Client |-> Null]
  /\ hit = [c \in Client |-> FALSE]
  /\ answer = [c \in Client |-> [kind |-> "none", from |-> Null]]
  /\ runs = [c \in Client |-> 0]
  /\ failures = 0
  /\ crashes = 0

\* The caller sends its request, for the first time or again.
Send(c) ==
  /\ stage[c] \in {"idle", "answered"}
  /\ stage' = [stage EXCEPT ![c] = "received"]
  /\ answer' = [answer EXCEPT ![c] = [kind |-> "none", from |-> Null]]
  /\ UNCHANGED <<receipts, selected, hit, runs, failures, crashes>>

\* Mutant: the INSERT replaces an existing row.
InsertClaimReplacing(c) ==
  /\ stage[c] = "received"
  /\ UnitMayBegin
  /\ receipts' = [receipts EXCEPT ![keyOf[c]] = NewClaim(c)]
  /\ stage' = [stage EXCEPT ![c] = "claimed"]
  /\ UNCHANGED <<selected, hit, answer, runs, failures, crashes>>

\* beginReceipt's INSERT finds no row: the caller owns the key.
InsertClaim(c) ==
  /\ stage[c] = "received"
  /\ UnitMayBegin
  /\ ReceiptRow(c) = Null
  /\ receipts' = [receipts EXCEPT ![keyOf[c]] = NewClaim(c)]
  /\ stage' = [stage EXCEPT ![c] = "claimed"]
  /\ UNCHANGED <<selected, hit, answer, runs, failures, crashes>>

\* The INSERT conflicts with an existing row.
InsertConflict(c) ==
  /\ stage[c] = "received"
  /\ UnitMayBegin
  /\ ReceiptRow(c) # Null
  /\ stage' = [stage EXCEPT ![c] = "inserted"]
  /\ UNCHANGED <<receipts, selected, hit, answer, runs, failures, crashes>>

\* beginReceipt's SELECT finds no row although the INSERT conflicted with
\* one: "deleted between statements; treat as claimed".
ReadNothing(c) ==
  /\ stage[c] = "inserted"
  /\ ReceiptRow(c) = Null
  /\ stage' = [stage EXCEPT ![c] = "claimed"]
  /\ UNCHANGED <<receipts, selected, hit, answer, runs, failures, crashes>>

\* The SELECT returns a row that is not a stale claim: answer from it.
ReadReceipt(c) ==
  /\ stage[c] = "inserted"
  /\ ReceiptRow(c) # Null
  /\ ~StaleClaim(ReceiptRow(c))
  /\ ReplyFrom(c, ReceiptRow(c))
  /\ UNCHANGED <<receipts, selected, hit, runs, failures, crashes>>

\* The SELECT returns a pending claim older than the takeover window.
ReadStale(c) ==
  /\ stage[c] = "inserted"
  /\ ReceiptRow(c) # Null
  /\ StaleClaim(ReceiptRow(c))
  /\ selected' = [selected EXCEPT ![c] = ReceiptRow(c)]
  /\ stage' = [stage EXCEPT ![c] = "taking"]
  /\ UNCHANGED <<receipts, hit, answer, runs, failures, crashes>>

\* The takeover UPDATE: it wins when the row is still the pending claim that
\* was read (state and created_at), and changes request_id and created_at
\* only.  Otherwise the caller is answered from the receipt it read.
Takeover(c) ==
  /\ stage[c] = "taking"
  /\ ~RowLocked(keyOf[c], c)
  /\ selected' = [selected EXCEPT ![c] = Null]
  /\ \/ /\ ReceiptRow(c) = selected[c]
        /\ receipts' = [receipts EXCEPT ![keyOf[c]].holder = c,
                                        ![keyOf[c]].stale = FALSE]
        /\ stage' = [stage EXCEPT ![c] = "claimed"]
        /\ UNCHANGED answer
     \/ /\ ReceiptRow(c) # selected[c]
        /\ ReplyFrom(c, selected[c])
        /\ UNCHANGED receipts
  /\ UNCHANGED <<hit, runs, failures, crashes>>

\* The mutation's transaction runs the lifecycle change and then
\* completeReceipt, an UPDATE by key alone; it writes whatever row is there.
Execute(c) ==
  /\ stage[c] = "claimed"
  /\ UnitMayBegin
  /\ ~RowLocked(keyOf[c], c)
  /\ hit' = [hit EXCEPT ![c] = ReceiptRow(c) # Null]
  /\ stage' = [stage EXCEPT ![c] = "closing"]
  /\ UNCHANGED <<receipts, selected, answer, runs, failures, crashes>>

\* Mutant: the mutation commits without its receipt.
ClosedNever(c) == receipts

\* Mutant: the response is not stored.
ClosedWithoutResponse(c) ==
  IF hit[c] THEN [receipts EXCEPT ![keyOf[c]].state = "completed"] ELSE receipts

\* The receipts as completeReceipt leaves it for c's execution.
Closed(c) ==
  IF hit[c] THEN [receipts EXCEPT ![keyOf[c]].state = "completed",
                                  ![keyOf[c]].response = c]
  ELSE receipts

\* The transaction commits: the change and the completed receipt appear.
Commit(c) ==
  /\ stage[c] = "closing"
  /\ receipts' = Closed(c)
  /\ runs' = [runs EXCEPT ![c] = @ + 1]
  /\ hit' = [hit EXCEPT ![c] = FALSE]
  /\ stage' = [stage EXCEPT ![c] = "committed"]
  /\ UNCHANGED <<selected, answer, failures, crashes>>

\* The mutation throws (an HcError, a code rate limit, a lost connection):
\* its transaction rolls back.
Throw(c) ==
  /\ stage[c] \in {"claimed", "closing"}
  /\ failures < MaxFailures
  /\ failures' = failures + 1
  /\ hit' = [hit EXCEPT ![c] = FALSE]
  /\ stage' = [stage EXCEPT ![c] = "failed"]
  /\ UNCHANGED <<receipts, selected, answer, runs, crashes>>

\* abandonReceipt deletes the key's pending row, whoever holds it, and the
\* error reaches the caller.
Abandon(c) ==
  /\ stage[c] = "failed"
  /\ UnitMayBegin
  /\ ~RowLocked(keyOf[c], c)
  /\ receipts' = IF ReceiptRow(c) # Null /\ ReceiptRow(c).state = "pending"
                   THEN [receipts EXCEPT ![keyOf[c]] = Null]
                   ELSE receipts
  /\ Reply(c, "error", Null)
  /\ UNCHANGED <<selected, hit, runs, failures, crashes>>

\* The live response of an executed mutation.
Respond(c) ==
  /\ stage[c] = "committed"
  /\ Reply(c, "executed", c)
  /\ UNCHANGED <<receipts, selected, hit, runs, failures, crashes>>

\* The server process handling c's request dies: an open transaction rolls
\* back, a committed claim stays, the caller sees a dropped connection.
Crash(c) ==
  /\ stage[c] \notin {"idle", "answered"}
  /\ crashes < MaxCrashes
  /\ crashes' = crashes + 1
  /\ selected' = [selected EXCEPT ![c] = Null]
  /\ hit' = [hit EXCEPT ![c] = FALSE]
  /\ Reply(c, "lost", Null)
  /\ UNCHANGED <<receipts, runs, failures>>

\* PENDING_TAKEOVER_MS passes over a pending claim.  It never passes between
\* the SELECT and the takeover UPDATE of one beginReceipt, and under Prompt
\* it never passes while a live request holds the key.
Elapse(k) ==
  /\ receipts[k] # Null
  /\ receipts[k].state = "pending" /\ ~receipts[k].stale
  /\ \A c \in Client : keyOf[c] = k =>
        /\ stage[c] # "taking"
        /\ Prompt => ~Holds(c)
  /\ receipts' = [receipts EXCEPT ![k].stale = TRUE]
  /\ UNCHANGED <<stage, selected, hit, answer, runs, failures, crashes>>

\* The server's own steps for c's request.
ServeReceipt(c) ==
  \/ InsertClaim(c) \/ InsertConflict(c)
  \/ ReadNothing(c) \/ ReadReceipt(c) \/ ReadStale(c) \/ Takeover(c)
  \/ Execute(c) \/ Commit(c) \/ Abandon(c) \/ Respond(c)

ReceiptsNext ==
  \/ \E c \in Client : Send(c) \/ ServeReceipt(c) \/ Throw(c) \/ Crash(c)
  \/ \E k \in Key : Elapse(k)

ReceiptsSpec == ReceiptsInit /\ [][ReceiptsNext]_receiptsVars

\* A caller retries after a lost connection and after every retryable error.
Retry(c) ==
  /\ stage[c] = "answered"
  /\ answer[c].kind \in {"in_progress", "error", "lost"}
  /\ Send(c)

\* Waiting units get their turn (the connection lock is a FIFO chain of
\* promises, PostgreSQL queues lock waiters), callers do retry, time passes.
FairReceipts ==
  /\ ReceiptsSpec
  /\ \A c \in Client : SF_receiptsVars(ServeReceipt(c)) /\ WF_receiptsVars(Retry(c))
  /\ \A k \in Key : SF_receiptsVars(Elapse(k))

-----------------------------------------------------------------------------
(* Properties.                                                             *)

SameKey(c, d) == keyOf[c] = keyOf[d]

\* "Exactly one concurrent caller wins" (packages/db/src/hosting.ts:96): two
\* callers never both run the mutation of one key.
OneHolder ==
  \A c, d \in Client : SameKey(c, d) /\ Holds(c) /\ Holds(d) => c = d

\* The mutation behind a key commits at most once, over every retry,
\* takeover, release and crash of its callers.
AtMostOncePerKey ==
  \A c, d \in Client :
    SameKey(c, d) /\ runs[c] > 0 /\ runs[d] > 0 => c = d /\ runs[c] = 1

\* "Mutations and their receipt completion commit in the same transaction"
\* (packages/hosting-control/README.md:99): a key has a completed receipt
\* exactly when its mutation committed, and it stores that execution's
\* response.
ReceiptTellsRun ==
  \A c \in Client :
    runs[c] > 0 <=> /\ ReceiptRow(c) # Null
                    /\ ReceiptRow(c).state = "completed"
                    /\ ReceiptRow(c).response = c

\* A completed receipt is never deleted, taken over or overwritten, whatever
\* the other callers of its key are still doing.
CompletedIsFinal ==
  [][\A k \in Key :
       receipts[k] # Null /\ receipts[k].state = "completed"
         => receipts'[k] = receipts[k]]_receiptsVars

\* A success answer is never ahead of the database: whoever is told of an
\* execution, live or by replay, is told of one that committed under its own
\* key, on either store and however slow, failing or crashing the callers are.
AnswersAreRuns ==
  \A c \in Client :
    answer[c].kind \in {"executed", "replayed"} =>
      /\ answer[c].from # Null
      /\ runs[answer[c].from] > 0
      /\ SameKey(c, answer[c].from)

\* A caller that keeps retrying is answered for good: executed, replayed or
\* refused as a conflict.  No crash leaves a key "in progress" forever.
EventuallyAnswered ==
  \A c \in Client :
    stage[c] = "received" ~> answer[c].kind \in {"executed", "replayed", "conflict"}

-----------------------------------------------------------------------------
(* The receipts implement IdempotentMutation.                              *)

effectBar ==
  [k \in Key |->
     IF \E c \in Client : keyOf[c] = k /\ runs[c] > 0
       THEN CHOOSE c \in Client : keyOf[c] = k /\ runs[c] > 0
       ELSE Null]

toldBar ==
  [c \in Client |-> IF answer[c].kind \in {"executed", "replayed"}
                      THEN answer[c].from ELSE Null]

Abstract == INSTANCE IdempotentMutation WITH effect <- effectBar, told <- toldBar, None <- Null

ImplementsIdempotentMutation == Abstract!Spec

=============================================================================
