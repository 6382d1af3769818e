----------------------------- MODULE CodeDelivery -----------------------------
(***************************************************************************)
(* The setup and reset codes of one user: issuing them, delivering them    *)
(* through the outbox of hosting control, and redeeming them               *)
(* (packages/db/src/pg/identity.ts and openauth.ts,                        *)
(* packages/hosting-control/src/auth-delivery.ts, lifecycle.ts, server.ts).*)
(*                                                                         *)
(* Three kinds of callers issue codes: recovery calls of hosting control,  *)
(* clerks (CRM administrators, who are shown the code), and the sweep of   *)
(* the outbox when hosting control starts.  A recovery call commits a row  *)
(* of the outbox with its code and delivers the code afterwards; the sweep *)
(* issues a FRESH code for every row it finds pending.  Guessers redeem.   *)
(***************************************************************************)
EXTENDS Integers, Sequences, FiniteSets

CONSTANTS
  Call, Clerk, sweep, Guesser,
  IssueMax,      \* AUTH_CODE_ISSUE_MAX
  MaxAttempts,   \* AUTH_CODE_MAX_ATTEMPTS
  MaxCodes, MaxFaults, MaxWindows   \* bounds of the model

ASSUME BoundAssumption ==
  /\ sweep \notin Call \cup Clerk
  /\ Call \cap Clerk = {}
  /\ IssueMax \in Nat \ {0} /\ MaxAttempts \in Nat \ {0}
  /\ MaxCodes \in Nat /\ MaxFaults \in Nat /\ MaxWindows \in Nat

Issuer == Call \cup Clerk \cup {sweep}

VARIABLES
  store,     \* "sqlite" or "postgres"
  status,    \* the user's: "pending", "active" or "disabled"
  codes,     \* the committed rows of auth_codes, in the order of their commits
  mail,      \* the codes the delivery channel accepted
  outbox,    \* outbox[c]: the delivery row of call c
  pc, work,  \* where an issuer is, and what it works on
  todo,      \* the rows the sweep has still to deliver
  look,      \* look[g]: the redemption g has in its transaction
  spent      \* how often each bound was used

vars == <<store, status, codes, mail, outbox, pc, work, todo, look, spent>>

-----------------------------------------------------------------------------
Purpose == {"setup", "reset"}

\* An unused code is fresh or expired; of a used one, state says why used_at
\* was set.  recent: created within the issue window.  wrong, redeemed:
\* history, what was answered about the code.
CodeRow == [purpose : Purpose, attempts : Nat, recent : BOOLEAN,
            state : {"fresh", "expired", "used", "superseded", "burned"},
            for : Call \cup Clerk, wrong : Nat, redeemed : Nat]

Nothing == [purpose |-> "setup", for |-> sweep, code |-> 0, result |-> "pending"]

TypeOK ==
  /\ store \in {"sqlite", "postgres"}
  /\ status \in {"pending", "active", "disabled"}
  /\ codes \in Seq(CodeRow)
  /\ mail \subseteq DOMAIN codes
  /\ outbox \in [Call -> [state : {"none", "pending", "sent", "abandoned"},
                          purpose : Purpose]]
  /\ pc \in [Issuer -> {"off", "list", "idle", "begun", "found", "deliver", "mark",
                        "done"}]
  /\ work \in [Issuer -> [purpose : Purpose, for : Issuer, code : 0 .. Len(codes),
                          result : {"sent", "pending", "abandoned"}]]
  /\ todo \subseteq Call
  /\ look \in [Guesser -> [candidate : 0 .. Len(codes), given : 0 .. Len(codes)]]
  /\ spent \in [faults : 0 .. MaxFaults, windows : 0 .. MaxWindows]

IsUnused(i) == codes[i].state \in {"fresh", "expired"}

Unused(purpose) == {i \in DOMAIN codes : IsUnused(i) /\ codes[i].purpose = purpose}

Latest(S) == CHOOSE i \in S : \A j \in S : j <= i

\* Codes of the window, of either purpose: the limit is per email.
Recent == {i \in DOMAIN codes : codes[i].recent}

\* The codes somebody was shown or mailed.
Known == mail \cup {i \in DOMAIN codes : codes[i].for \in Clerk}

InTransaction(i) == pc[i] \in {"begun", "found"}

\* On SQLite a transaction begins only when no other is open.
MayBegin ==
  store = "sqlite" =>
    /\ \A i \in Issuer : ~InTransaction(i)
    /\ \A g \in Guesser : look[g].candidate = 0

\* A hosting-control process is running.
Up == pc[sweep] # "off"

\* It answers calls as soon as it listens, without waiting for its sweep.  On
\* SQLite the sweep's listing has the connection first; on PostgreSQL a pool of
\* connections decides.
Serving == Up /\ (store = "sqlite" => pc[sweep] # "list")

Spend(what) == spent' = [spent EXCEPT ![what] = @ + 1]

-----------------------------------------------------------------------------
\* Hosting control starts at once: its sweep is about to list the outbox.
Init ==
  /\ store \in {"sqlite", "postgres"}
  /\ status = "pending"
  /\ codes = <<>> /\ mail = {}
  /\ outbox = [c \in Call |-> [state |-> "none", purpose |-> "setup"]]
  /\ pc = [i \in Issuer |-> IF i = sweep THEN "list" ELSE "idle"]
  /\ work = [i \in Issuer |-> Nothing]
  /\ todo = {}
  /\ look = [g \in Guesser |-> [candidate |-> 0, given |-> 0]]
  /\ spent = [faults |-> 0, windows |-> 0]

-----------------------------------------------------------------------------
\* An issuer is through with what it works on.
Ends(i) ==
  /\ pc' = [pc EXCEPT ![i] = IF i = sweep THEN "idle" ELSE "done"]
  /\ work' = [work EXCEPT ![i] = Nothing]

\* Issuing.

PurposeFor(state) == IF state = "pending" THEN "setup" ELSE "reset"

\* A recovery call or a clerk's operation reads the user, in its transaction,
\* and fixes the purpose.  Recovery calls hold the workspace lock.
Begin(i) ==
  /\ i \in Call \cup Clerk
  /\ pc[i] = "idle"
  /\ status # "disabled"
  /\ MayBegin
  /\ i \in Call => Serving /\ \A c \in Call : ~InTransaction(c)
  /\ pc' = [pc EXCEPT ![i] = "begun"]
  /\ work' = [work EXCEPT ![i] = [Nothing EXCEPT !.purpose = PurposeFor(status), !.for = i]]
  /\ UNCHANGED <<store, status, codes, mail, outbox, todo, look, spent>>

\* pg_advisory_xact_lock on the email, held until the transaction ends.
EmailLockFree == \A i \in Issuer : pc[i] # "found"

\* No code: the transaction rolls back.  The sweep marks its row again, every
\* other caller is told.
GiveUp(i) ==
  IF i = sweep
    THEN pc' = [pc EXCEPT ![i] = "mark"] /\ UNCHANGED work
    ELSE Ends(i)

\* Under the lock of the email: count the window, then lock the codes that the
\* supersede finds unused.
CountRecent(i) ==
  /\ pc[i] = "begun"
  /\ EmailLockFree
  /\ \/ /\ Cardinality(Recent) < IssueMax
        /\ pc' = [pc EXCEPT ![i] = "found"]
        /\ UNCHANGED work
     \/ /\ Cardinality(Recent) >= IssueMax
        /\ GiveUp(i)
  /\ UNCHANGED <<store, status, codes, mail, outbox, todo, look, spent>>

\* Mutant: issuing leaves the earlier codes as they are.
SupersededNone(purpose) == codes

\* Every earlier unused code of the purpose is marked used.
Superseded(purpose) ==
  [i \in DOMAIN codes |->
     IF i \in Unused(purpose) THEN [codes[i] EXCEPT !.state = "superseded"] ELSE codes[i]]

NewCode(i) ==
  [purpose |-> work[i].purpose, state |-> "fresh", attempts |-> 0, recent |-> TRUE,
   for |-> work[i].for, wrong |-> 0, redeemed |-> 0]

\* The transaction commits the new code, with the outbox row of a recovery
\* call; a clerk is shown the code at once.
CommitIssue(i) ==
  /\ pc[i] = "found"
  /\ Len(codes) < MaxCodes
  /\ codes' = Append(Superseded(work[i].purpose), NewCode(i))
  /\ work' = [work EXCEPT ![i] = IF i \in Clerk THEN Nothing
                                  ELSE [@ EXCEPT !.code = Len(codes) + 1]]
  /\ pc' = [pc EXCEPT ![i] = IF i \in Clerk THEN "done" ELSE "deliver"]
  /\ outbox' = IF i \in Call
                 THEN [outbox EXCEPT ![i] = [state |-> "pending", purpose |-> work[i].purpose]]
                 ELSE outbox
  /\ UNCHANGED <<store, status, mail, todo, look, spent>>

\* A statement or the commit fails.
FailIssue(i) ==
  /\ InTransaction(i)
  /\ spent.faults < MaxFaults
  /\ Spend("faults")
  /\ GiveUp(i)
  /\ UNCHANGED <<store, status, codes, mail, outbox, todo, look>>

-----------------------------------------------------------------------------
\* Delivering.

\* The POST to the channel: accepted; refused; or accepted and the answer lost.
Deliver(i) ==
  /\ pc[i] = "deliver"
  /\ pc' = [pc EXCEPT ![i] = "mark"]
  /\ \/ /\ mail' = mail \cup {work[i].code}
        /\ work' = [work EXCEPT ![i].result = "sent"]
        /\ UNCHANGED spent
     \/ /\ spent.faults < MaxFaults
        /\ Spend("faults")
        /\ mail' \in {mail, mail \cup {work[i].code}}
        /\ UNCHANGED work
  /\ UNCHANGED <<store, status, codes, outbox, todo, look>>

\* Mutant: the row is marked as if the delivery had succeeded.
MarkedSent(i) == IF work[i].result = "pending" THEN "sent" ELSE work[i].result

\* What markOutbox writes: an UPDATE by id, whatever the row says by now.
Marked(i) == work[i].result

Mark(i) ==
  /\ pc[i] = "mark"
  /\ outbox' = [outbox EXCEPT ![work[i].for].state = Marked(i)]
  /\ Ends(i)
  /\ UNCHANGED <<store, status, codes, mail, todo, look, spent>>

\* Marking fails: after a delivery the row is marked pending instead.
FailMark(i) ==
  /\ pc[i] = "mark"
  /\ spent.faults < MaxFaults
  /\ Spend("faults")
  /\ IF work[i].result = "pending"
       THEN Ends(i)
       ELSE /\ work' = [work EXCEPT ![i].result = "pending"]
            /\ UNCHANGED pc
  /\ UNCHANGED <<store, status, codes, mail, outbox, todo, look>>

\* listPendingOutbox: the rows pending when the sweep starts.
SweepLists ==
  /\ pc[sweep] = "list"
  /\ todo' = {c \in Call : outbox[c].state = "pending"}
  /\ pc' = [pc EXCEPT ![sweep] = "idle"]
  /\ UNCHANGED <<store, status, codes, mail, outbox, work, look, spent>>

FirstCode(c) == CHOOSE i \in DOMAIN codes :
  codes[i].for = c /\ \A j \in DOMAIN codes : codes[j].for = c => i <= j

\* The row's user vanished or was disabled.
Unavailable == status = "disabled"

\* The sweep takes the oldest row, as it was listed, and begins its
\* transaction; a row whose user is disabled is abandoned.
SweepBegins ==
  /\ pc[sweep] = "idle"
  /\ MayBegin
  /\ \E c \in todo :
       /\ \A d \in todo : FirstCode(c) <= FirstCode(d)
       /\ todo' = todo \ {c}
       /\ work' = [work EXCEPT ![sweep] =
            [Nothing EXCEPT !.purpose = outbox[c].purpose, !.for = c,
                            !.result = IF Unavailable THEN "abandoned" ELSE "pending"]]
  /\ pc' = [pc EXCEPT ![sweep] = IF Unavailable THEN "mark" ELSE "begun"]
  /\ UNCHANGED <<store, status, codes, mail, outbox, look, spent>>

\* Hosting control dies: open transactions roll back, deliveries are forgotten.
Crash ==
  /\ Up
  /\ spent.faults < MaxFaults
  /\ Spend("faults")
  /\ pc' = [i \in Issuer |-> IF i = sweep THEN "off"
                             ELSE IF i \in Call /\ pc[i] # "idle" THEN "done" ELSE pc[i]]
  /\ work' = [i \in Issuer |-> IF i \in Clerk THEN work[i] ELSE Nothing]
  /\ todo' = {}
  /\ UNCHANGED <<store, status, codes, mail, outbox, look>>

Boot ==
  /\ ~Up
  /\ pc' = [pc EXCEPT ![sweep] = "list"]
  /\ UNCHANGED <<store, status, codes, mail, outbox, work, todo, look, spent>>

-----------------------------------------------------------------------------
\* Redeeming.

\* The code's row is locked by an issuer that is about to supersede it.
Locked(k) ==
  \E i \in Issuer : pc[i] = "found" /\ work[i].purpose = codes[k].purpose /\ IsUnused(k)

\* SELECT ... FOR UPDATE picks the latest unused code.  A guesser gives a code
\* somebody was shown, under its purpose, or a wrong one (0), under any.
Look(g) ==
  /\ look[g].candidate = 0
  /\ MayBegin
  /\ \E given \in Known \cup {0}, purpose \in Purpose :
       /\ given # 0 => codes[given].purpose = purpose
       /\ Unused(purpose) # {}
       /\ look' = [look EXCEPT ![g] = [candidate |-> Latest(Unused(purpose)), given |-> given]]
  /\ UNCHANGED <<store, status, codes, mail, outbox, pc, work, todo, spent>>

\* Mutant: the row is not checked again once its lock is granted.
StillUnusedUnchecked(k) == {k}

\* The unused codes a redemption can still take when it gets the lock it waited
\* for: the row it picked, or else an older one.
StillUnused(k) == {i \in Unused(codes[k].purpose) : i <= k}

\* A wrong guess counts an attempt and burns the code at the cap.
GuessCounted(k) ==
  [codes[k] EXCEPT !.attempts = @ + 1,
                   !.state = IF codes[k].attempts + 1 >= MaxAttempts THEN "burned" ELSE @]

\* An expired code, one at the cap, and on PostgreSQL the right code of a disabled
\* user are refused and stay as they are.
Refuses(k, given) ==
  \/ codes[k].state = "expired" \/ codes[k].attempts >= MaxAttempts
  \/ given = k /\ store = "postgres" /\ status = "disabled"

\* What a redemption that is not refused writes to the row it has.
Answered(k, given) ==
  IF given = k THEN [codes[k] EXCEPT !.state = "used", !.redeemed = @ + 1]
               ELSE [GuessCounted(k) EXCEPT !.wrong = @ + 1]

\* The redemption goes on under the lock and commits its answer.
Settle(g) ==
  LET picked == look[g].candidate
      k == Latest(StillUnused(picked))
  IN /\ picked # 0
     /\ ~Locked(picked)
     /\ look' = [look EXCEPT ![g] = [candidate |-> 0, given |-> 0]]
     /\ codes' = IF StillUnused(picked) = {} \/ Refuses(k, look[g].given) THEN codes
                 ELSE [codes EXCEPT ![k] = Answered(k, look[g].given)]
     /\ UNCHANGED <<store, status, mail, outbox, pc, work, todo, spent>>

-----------------------------------------------------------------------------
\* Meanwhile.

\* The user completes setup and signs in, or is disabled.
Activate ==
  /\ status = "pending"
  /\ \E i \in DOMAIN codes : codes[i].purpose = "setup" /\ codes[i].redeemed > 0
  /\ status' = "active"
  /\ UNCHANGED <<store, codes, mail, outbox, pc, work, todo, look, spent>>

Disable ==
  /\ status # "disabled"
  /\ MayBegin
  /\ status' = "disabled"
  /\ UNCHANGED <<store, codes, mail, outbox, pc, work, todo, look, spent>>

\* A code's lifetime ends.
ExpireCode(i) ==
  /\ codes[i].state = "fresh"
  /\ codes' = [codes EXCEPT ![i].state = "expired"]
  /\ UNCHANGED <<store, status, mail, outbox, pc, work, todo, look, spent>>

\* Fifteen minutes pass.
PassWindow ==
  /\ Recent # {}
  /\ spent.windows < MaxWindows
  /\ Spend("windows")
  /\ codes' = [i \in DOMAIN codes |-> [codes[i] EXCEPT !.recent = FALSE]]
  /\ UNCHANGED <<store, status, mail, outbox, pc, work, todo, look>>

Issue(i) == CountRecent(i) \/ CommitIssue(i) \/ Deliver(i) \/ Mark(i)

Next ==
  \/ \E i \in Issuer : Begin(i) \/ Issue(i) \/ FailIssue(i) \/ FailMark(i)
  \/ SweepLists \/ SweepBegins \/ Crash \/ Boot
  \/ \E g \in Guesser : Look(g) \/ Settle(g)
  \/ Activate \/ Disable \/ PassWindow
  \/ \E i \in DOMAIN codes : ExpireCode(i)

Spec == Init /\ [][Next]_vars

-----------------------------------------------------------------------------
(* Properties.                                                             *)

\* At most one code of each purpose is unused: what a redemption that waited
\* for a lock relies on ("Keep that invariant", pg/identity.ts:221).
OneUnusedCode == \A purpose \in Purpose : Cardinality(Unused(purpose)) <= 1

\* No window sees more issues than the limit, whoever issues and however the
\* issues interleave.
IssueWindow == Cardinality(Recent) <= IssueMax

\* A code is redeemed at most once under any concurrency.
RedeemedOnce == \A i \in DOMAIN codes : codes[i].redeemed <= 1

\* Nobody gets more wrong guesses at a code than the cap.
GuessesCapped == \A i \in DOMAIN codes : codes[i].wrong <= MaxAttempts

\* "completing an old code and regenerating cannot both succeed": once a later
\* code of the purpose is committed, an earlier one is never redeemed.
OldCodeDead ==
  [][\A i \in DOMAIN codes :
       codes'[i].redeemed > codes[i].redeemed =>
         ~\E j \in DOMAIN codes : j > i /\ codes[j].purpose = codes[i].purpose]_vars

\* A row is marked sent only after the channel accepted a code issued for it.
SentWasDelivered ==
  \A c \in Call : outbox[c].state = "sent" => \E i \in mail : codes[i].for = c

\* The types, one unused code of each purpose, none redeemed twice, and the two
\* limits.
Inv == TypeOK /\ OneUnusedCode /\ RedeemedOnce /\ IssueWindow /\ GuessesCapped
=============================================================================
