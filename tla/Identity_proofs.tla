---------------------------- MODULE Identity_proofs ----------------------------
(***************************************************************************)
(* Theorems about the two components that keep who somebody is.            *)
(*                                                                         *)
(* CodeDelivery, for every set of recovery calls, clerks and guessers and  *)
(* for every limit: its invariant Inv, that a row of the outbox marked     *)
(* sent was delivered, and that an old code is dead.  At most one code of  *)
(* a purpose is unused because an unused code is the newest of its purpose *)
(* (NewestUnused): committing a code supersedes the earlier ones and       *)
(* nothing makes a used code unused again.  The window holds because       *)
(* whoever has counted it has the lock of the email (OneFound), so that    *)
(* the count still stands when its code commits (Working).  A redemption   *)
(* that waited takes the newest code or nothing.                           *)
(*                                                                         *)
(* SignIn, for every set of sign-ins and requests and every number of      *)
(* users and changes: its invariant SignInInv, and that what has ended     *)
(* stays ended.  SignInInv is not inductive: a sign-in and a request act   *)
(* on a user they have read before.  They agree with the user on its       *)
(* subject because a user whose row anybody holds is the one of now or     *)
(* gone for good (IdsKnown), a bound subject never changes (BoundForGood), *)
(* and a sign-in and an adoption know the subject they bind to from their  *)
(* first write to their last (Linking, Adopting).                          *)
(***************************************************************************)
EXTENDS CodeDelivery, SignIn, SequenceTheorems, FiniteSetTheorems, TLAPS

-----------------------------------------------------------------------------
(* The codes.                                                              *)

NewestUnused ==
  \A i, j \in DOMAIN codes : IsUnused(i) /\ codes[j].purpose = codes[i].purpose => j <= i

Counts ==
  \A k \in DOMAIN codes :
    /\ codes[k].redeemed <= 1
    /\ codes[k].redeemed > 0 => ~IsUnused(k)
    /\ codes[k].wrong <= codes[k].attempts
    /\ codes[k].attempts <= MaxAttempts

OneFound == \A i, j \in Issuer : pc[i] = "found" /\ pc[j] = "found" => i = j

\* Something was mailed for a call or clerk.
Mailed(caller) == \E k \in mail : codes[k].for = caller

Working(i) ==
  /\ pc[i] \in {"begun", "found", "deliver"} =>
       work[i].for \in Call \cup Clerk /\ work[i].result # "sent"
  /\ pc[i] = "found" => Cardinality(Recent) < IssueMax
  /\ pc[i] = "deliver" => work[i].code \in DOMAIN codes /\ codes[work[i].code].for = work[i].for
  /\ pc[i] = "mark" /\ work[i].result = "sent" => Mailed(work[i].for)

IInv ==
  /\ TypeOK
  /\ NewestUnused
  /\ Counts
  /\ OneFound
  /\ \A i \in Issuer : Working(i)
  /\ IssueWindow
  /\ SentWasDelivered

-----------------------------------------------------------------------------
\* Sequences and counts.

LEMMA RowsOf ==
  ASSUME TypeOK
  PROVE  /\ Len(codes) \in Nat /\ DOMAIN codes = 1..Len(codes)
         /\ \A k \in DOMAIN codes : codes[k] \in CodeRow
<1>. codes \in Seq(CodeRow)
  BY DEF TypeOK
<1>. QED
  BY LenProperties, ElementOfSeq

LEMMA Rewritten ==
  ASSUME NEW T, NEW s \in Seq(T), NEW f \in [DOMAIN s -> T]
  PROVE  f \in Seq(T) /\ Len(f) = Len(s) /\ DOMAIN f = DOMAIN s
<1>1. Len(s) \in Nat /\ DOMAIN s = 1..Len(s)
  BY LenProperties
<1>2. f \in Seq(T)
  BY <1>1, SeqDef
<1>3. Len(f) \in Nat /\ DOMAIN f = 1..Len(f)
  BY <1>2, LenProperties
<1>4. DOMAIN f = DOMAIN s
  OBVIOUS
<1>5. Len(f) = Len(s)
  <2>1. CASE Len(f) < Len(s)
    BY <1>1, <1>3, <1>4, <2>1
  <2>2. CASE Len(s) < Len(f)
    BY <1>1, <1>3, <1>4, <2>2
  <2>. QED
    BY <1>1, <1>3, <2>1, <2>2
<1>. QED
  BY <1>2, <1>4, <1>5

LEMMA RecentIsFinite == ASSUME TypeOK PROVE IsFiniteSet(Recent) /\ Cardinality(Recent) \in Nat
<1>1. IsFiniteSet(DOMAIN codes)
  BY RowsOf, FS_Interval
<1>2. Recent \in SUBSET DOMAIN codes
  BY DEF Recent
<1>3. IsFiniteSet(Recent)
  BY <1>1, <1>2, FS_Subset
<1>. QED
  BY <1>3, FS_CardinalityType

\* Unused codes of one purpose are one code.
LEMMA OneUnused ==
  ASSUME TypeOK, NewestUnused, NEW purpose, NEW x \in Unused(purpose), NEW y \in Unused(purpose)
  PROVE  x = y
<1>1. x \in DOMAIN codes /\ y \in DOMAIN codes /\ x <= y /\ y <= x
  BY DEF Unused, NewestUnused
<1>. QED
  BY <1>1, RowsOf

LEMMA LatestIsThere ==
  ASSUME TypeOK, NewestUnused, NEW purpose, NEW A \in SUBSET Unused(purpose), A # {}
  PROVE  Latest(A) \in A
<1>1. PICK x \in A : TRUE
  OBVIOUS
<1>2. \A y \in A : y <= x
  BY <1>1, OneUnused, RowsOf DEF Unused
<1>. QED
  BY <1>1, <1>2 DEF Latest

-----------------------------------------------------------------------------
LEMMA InvFromIInv == IInv => Inv
<1>. SUFFICES ASSUME IInv PROVE Inv
  OBVIOUS
<1>. USE DEF IInv
<1>1. OneUnusedCode
  <2>. SUFFICES ASSUME NEW purpose \in Purpose PROVE Cardinality(Unused(purpose)) <= 1
    BY DEF OneUnusedCode
  <2>1. CASE Unused(purpose) = {}
    BY <2>1, FS_EmptySet
  <2>2. CASE Unused(purpose) # {}
    <3>1. PICK x \in Unused(purpose) : TRUE
      BY <2>2
    <3>2. Unused(purpose) = {x}
      BY <3>1, OneUnused
    <3>3. Cardinality({x}) = 1
      BY FS_Singleton
    <3>. QED
      BY <3>2, <3>3
  <2>. QED
    BY <2>1, <2>2
<1>2. RedeemedOnce
  BY DEF RedeemedOnce, Counts
<1>3. GuessesCapped
  <2>. SUFFICES ASSUME NEW k \in DOMAIN codes PROVE codes[k].wrong <= MaxAttempts
    BY DEF GuessesCapped
  <2>1. codes[k] \in CodeRow
    BY RowsOf
  <2>2. codes[k].wrong \in Nat /\ codes[k].attempts \in Nat
    BY <2>1 DEF CodeRow
  <2>. QED
    BY <2>2, BoundAssumption DEF Counts
<1>. QED
  BY <1>1, <1>2, <1>3 DEF Inv

LEMMA InitIInv == Init => IInv
<1>. SUFFICES ASSUME Init PROVE IInv
  OBVIOUS
<1>. USE DEF Init
<1>1. codes \in Seq(CodeRow) /\ Len(codes) = 0 /\ DOMAIN codes = {}
  BY EmptySeq
<1>2. TypeOK
  <2>1. outbox \in [Call -> [state : {"none", "pending", "sent", "abandoned"}, purpose : Purpose]]
    BY DEF Purpose
  <2>2. work \in [Issuer -> [purpose : Purpose, for : Issuer, code : 0..Len(codes),
                             result : {"sent", "pending", "abandoned"}]]
    BY <1>1 DEF Nothing, Purpose, Issuer
  <2>3. look \in [Guesser -> [candidate : 0..Len(codes), given : 0..Len(codes)]]
    BY <1>1
  <2>4. spent \in [faults : 0..MaxFaults, windows : 0..MaxWindows]
    BY BoundAssumption
  <2>. QED
    BY <1>1, <2>1, <2>2, <2>3, <2>4 DEF TypeOK
<1>3. NewestUnused /\ Counts
  BY <1>1 DEF NewestUnused, Counts
<1>4. OneFound /\ \A i \in Issuer : Working(i)
  BY DEF OneFound, Working
<1>5. IssueWindow
  <2>1. Recent = {}
    BY <1>1 DEF Recent
  <2>. QED
    BY <2>1, FS_EmptySet, BoundAssumption DEF IssueWindow
<1>. QED
  BY <1>2, <1>3, <1>4, <1>5 DEF IInv, SentWasDelivered

-----------------------------------------------------------------------------
(* Steps of an issuer that leave the codes alone.                          *)

\* i moves, the other issuers and the codes stay.
Moves(i) ==
  /\ UNCHANGED codes
  /\ mail \subseteq mail'
  /\ \A j \in Issuer \ {i} : pc'[j] = pc[j] /\ work'[j] = work[j]
  /\ pc'[i] = "found" => EmailLockFree
  /\ \A c \in Call : outbox'[c].state = "sent" => outbox[c].state = "sent" \/ Mailed(c)

LEMMA MoveKeeps ==
  ASSUME IInv, NEW i \in Issuer, Moves(i), TypeOK', Working(i)'
  PROVE  IInv'
<1>. USE DEF Moves
<1>1. NewestUnused'
  BY DEF IInv, NewestUnused, IsUnused
<1>2. Counts'
  BY DEF IInv, Counts, IsUnused
<1>3. OneFound'
  BY DEF IInv, OneFound, EmailLockFree
<1>4. Recent' = Recent
  BY DEF Recent
<1>5. \A c : Mailed(c) => Mailed(c)'
  BY DEF Mailed
<1>6. ASSUME NEW j \in Issuer \ {i} PROVE Working(j)'
  <2>1. Working(j)
    BY DEF IInv
  <2>. QED
    BY <1>4, <1>5, <2>1 DEF Working
<1>7. IssueWindow'
  BY <1>4 DEF IInv, IssueWindow
<1>8. SentWasDelivered'
  <2>. SUFFICES ASSUME NEW c \in Call, outbox'[c].state = "sent" PROVE Mailed(c)'
    BY DEF SentWasDelivered, Mailed
  <2>1. outbox[c].state = "sent" \/ Mailed(c)
    OBVIOUS
  <2>. QED
    BY <1>5, <2>1 DEF IInv, SentWasDelivered, Mailed
<1>. QED
  BY <1>1, <1>2, <1>3, <1>6, <1>7, <1>8 DEF IInv

Place == {"off", "list", "idle", "begun", "found", "deliver", "mark", "done"}
Load == [purpose : Purpose, for : Issuer, code : 0..Len(codes),
         result : {"sent", "pending", "abandoned"}]

LEMMA NothingIsLoad == TypeOK => Nothing \in Load
  BY RowsOf DEF Nothing, Load, Purpose, Issuer

\* The rest of the types, for a step of the issuers.
LEMMA TypesOfMove ==
  ASSUME TypeOK, UNCHANGED <<store, codes, look>>,
         pc' \in [Issuer -> Place], work' \in [Issuer -> Load],
         status' \in {"pending", "active", "disabled"}, mail' \subseteq DOMAIN codes,
         outbox' \in [Call -> [state : {"none", "pending", "sent", "abandoned"},
                               purpose : Purpose]],
         todo' \subseteq Call, spent' \in [faults : 0..MaxFaults, windows : 0..MaxWindows]
  PROVE  TypeOK'
  BY DEF TypeOK, Place, Load

LEMMA SpendFaults ==
  ASSUME TypeOK, spent.faults < MaxFaults, Spend("faults")
  PROVE  spent' \in [faults : 0..MaxFaults, windows : 0..MaxWindows]
  BY BoundAssumption DEF TypeOK, Spend

LEMMA BeginKeeps == ASSUME IInv, NEW i \in Issuer, Begin(i) PROVE IInv'
<1>. USE DEF Begin
<1>1. TypeOK /\ pc \in [Issuer -> Place] /\ work \in [Issuer -> Load]
  BY DEF IInv, TypeOK, Place, Load
<1>2. /\ pc' \in [Issuer -> Place] /\ pc'[i] = "begun"
      /\ \A j \in Issuer \ {i} : pc'[j] = pc[j]
  BY <1>1 DEF Place
<1>3. [Nothing EXCEPT !.purpose = PurposeFor(status), !.for = i] \in Load
  BY <1>1, NothingIsLoad DEF Load, PurposeFor, Purpose
<1>4. /\ work' \in [Issuer -> Load]
      /\ work'[i].for = i /\ work'[i].result = "pending"
      /\ \A j \in Issuer \ {i} : work'[j] = work[j]
  BY <1>1, <1>3 DEF Nothing
<1>5. TypeOK'
  BY <1>1, <1>2, <1>4, TypesOfMove DEF TypeOK
<1>6. Working(i)'
  BY <1>2, <1>4 DEF Working
<1>7. Moves(i)
  BY <1>2, <1>4 DEF Moves
<1>. QED
  BY <1>5, <1>6, <1>7, MoveKeeps

\* Whoever gives up or ends has nothing sent in hand.
LEMMA EndsLeaves ==
  ASSUME TypeOK, NEW i \in Issuer, Ends(i)
  PROVE  /\ pc' \in [Issuer -> Place] /\ pc'[i] \in {"idle", "done"}
         /\ work' \in [Issuer -> Load]
         /\ \A j \in Issuer \ {i} : pc'[j] = pc[j] /\ work'[j] = work[j]
<1>1. pc \in [Issuer -> Place] /\ work \in [Issuer -> Load]
  BY DEF TypeOK, Place, Load
<1>. QED
  BY <1>1, NothingIsLoad DEF Ends, Place

LEMMA GiveUpKeeps ==
  ASSUME IInv, NEW i \in Issuer, InTransaction(i), GiveUp(i), UNCHANGED <<codes, mail, outbox>>,
         UNCHANGED <<store, status, todo, look>>,
         spent' \in [faults : 0..MaxFaults, windows : 0..MaxWindows]
  PROVE  IInv'
<1>1. TypeOK /\ pc \in [Issuer -> Place] /\ work \in [Issuer -> Load]
  BY DEF IInv, TypeOK, Place, Load
<1>2. work[i].result # "sent"
  BY DEF IInv, Working, InTransaction
<1>3. /\ pc' \in [Issuer -> Place] /\ work' \in [Issuer -> Load]
      /\ \A j \in Issuer \ {i} : pc'[j] = pc[j] /\ work'[j] = work[j]
      /\ pc'[i] \in {"idle", "done"} \/ (pc'[i] = "mark" /\ work'[i] = work[i])
  <2>1. CASE i = sweep
    BY <1>1, <2>1 DEF GiveUp, Place
  <2>2. CASE i # sweep
    BY <1>1, <2>2, EndsLeaves DEF GiveUp
  <2>. QED
    BY <2>1, <2>2
<1>4. TypeOK'
  BY <1>1, <1>3, TypesOfMove DEF TypeOK
<1>5. Working(i)'
  BY <1>2, <1>3 DEF Working
<1>6. Moves(i)
  BY <1>3 DEF Moves
<1>. QED
  BY <1>4, <1>5, <1>6, MoveKeeps

LEMMA CountRecentKeeps == ASSUME IInv, NEW i \in Issuer, CountRecent(i) PROVE IInv'
<1>. USE DEF CountRecent
<1>1. TypeOK /\ pc \in [Issuer -> Place] /\ work \in [Issuer -> Load]
  BY DEF IInv, TypeOK, Place, Load
<1>2. CASE Cardinality(Recent) < IssueMax /\ pc' = [pc EXCEPT ![i] = "found"] /\ UNCHANGED work
  <2>1. /\ pc' \in [Issuer -> Place] /\ pc'[i] = "found"
        /\ \A j \in Issuer \ {i} : pc'[j] = pc[j]
    BY <1>1, <1>2 DEF Place
  <2>2. TypeOK'
    BY <1>1, <1>2, <2>1, TypesOfMove DEF TypeOK
  <2>3. work[i].for \in Call \cup Clerk /\ work[i].result # "sent"
    BY DEF IInv, Working
  <2>4. Recent' = Recent
    BY DEF Recent
  <2>5. Working(i)'
    BY <1>2, <2>1, <2>3, <2>4 DEF Working
  <2>6. Moves(i)
    BY <1>2, <2>1 DEF Moves
  <2>. QED
    BY <2>2, <2>5, <2>6, MoveKeeps
<1>3. CASE GiveUp(i)
  <2>1. spent' \in [faults : 0..MaxFaults, windows : 0..MaxWindows]
    BY <1>1 DEF TypeOK
  <2>. QED
    BY <1>3, <2>1, GiveUpKeeps DEF InTransaction
<1>. QED
  BY <1>2, <1>3

LEMMA FailIssueKeeps == ASSUME IInv, NEW i \in Issuer, FailIssue(i) PROVE IInv'
<1>1. spent' \in [faults : 0..MaxFaults, windows : 0..MaxWindows]
  BY SpendFaults DEF FailIssue, IInv
<1>. QED
  BY <1>1, GiveUpKeeps DEF FailIssue

LEMMA DeliverKeeps == ASSUME IInv, NEW i \in Issuer, Deliver(i) PROVE IInv'
<1>. USE DEF Deliver
<1>1. TypeOK /\ pc \in [Issuer -> Place] /\ work \in [Issuer -> Load]
  BY DEF IInv, TypeOK, Place, Load
<1>2. /\ work[i].code \in DOMAIN codes /\ codes[work[i].code].for = work[i].for
      /\ work[i].result # "sent"
  BY DEF IInv, Working
<1>3. /\ pc' \in [Issuer -> Place] /\ pc'[i] = "mark"
      /\ \A j \in Issuer \ {i} : pc'[j] = pc[j]
  BY <1>1 DEF Place
<1>4. /\ work' \in [Issuer -> Load] /\ \A j \in Issuer \ {i} : work'[j] = work[j]
      /\ mail \subseteq mail' /\ mail' \subseteq DOMAIN codes
      /\ spent' \in [faults : 0..MaxFaults, windows : 0..MaxWindows]
      /\ \/ work'[i].result = "sent" /\ work'[i].for = work[i].for /\ work[i].code \in mail'
         \/ work'[i].result # "sent"
  <2>1. CASE /\ mail' = mail \cup {work[i].code}
             /\ work' = [work EXCEPT ![i].result = "sent"]
             /\ UNCHANGED spent
    <3>1. work' \in [Issuer -> Load] /\ work'[i] = [work[i] EXCEPT !.result = "sent"]
      BY <1>1, <2>1 DEF Load
    <3>2. work'[i].result = "sent" /\ work'[i].for = work[i].for
      BY <1>1, <3>1 DEF Load
    <3>. QED
      BY <1>1, <1>2, <2>1, <3>1, <3>2 DEF TypeOK
  <2>2. CASE /\ spent.faults < MaxFaults /\ Spend("faults")
             /\ mail' \in {mail, mail \cup {work[i].code}} /\ UNCHANGED work
    BY <1>1, <1>2, <2>2, SpendFaults DEF TypeOK
  <2>. QED
    BY <2>1, <2>2
<1>5. TypeOK'
  BY <1>1, <1>3, <1>4, TypesOfMove DEF TypeOK
<1>6. Working(i)'
  BY <1>2, <1>3, <1>4 DEF Working, Mailed
<1>7. Moves(i)
  BY <1>3, <1>4 DEF Moves
<1>. QED
  BY <1>5, <1>6, <1>7, MoveKeeps

LEMMA MarkKeeps == ASSUME IInv, NEW i \in Issuer, Mark(i) PROVE IInv'
<1>. USE DEF Mark
<1>1. TypeOK /\ work \in [Issuer -> Load]
  BY DEF IInv, TypeOK, Load
<1>2. /\ pc' \in [Issuer -> Place] /\ pc'[i] \in {"idle", "done"} /\ work' \in [Issuer -> Load]
      /\ \A j \in Issuer \ {i} : pc'[j] = pc[j] /\ work'[j] = work[j]
  BY <1>1, EndsLeaves
<1>3. work[i].result \in {"sent", "pending", "abandoned"}
  BY <1>1 DEF Load
<1>4. /\ outbox' \in [Call -> [state : {"none", "pending", "sent", "abandoned"},
                               purpose : Purpose]]
      /\ \A c \in Call : outbox'[c].state =
           IF c = work[i].for THEN work[i].result ELSE outbox[c].state
  <2>1. \A c \in Call : outbox[c] \in [state : {"none", "pending", "sent", "abandoned"},
                                     purpose : Purpose]
    BY <1>1 DEF TypeOK
  <2>2. outbox' = [c \in Call |-> IF c = work[i].for
                                  THEN [outbox[c] EXCEPT !.state = work[i].result]
                                  ELSE outbox[c]]
    BY <1>1 DEF Marked, TypeOK
  <2>3. \A c \in Call : [outbox[c] EXCEPT !.state = work[i].result] \in
          [state : {"none", "pending", "sent", "abandoned"}, purpose : Purpose]
    BY <1>3, <2>1
  <2>. QED
    BY <2>1, <2>2, <2>3
<1>5. TypeOK'
  BY <1>1, <1>2, <1>4, TypesOfMove DEF TypeOK
<1>6. Working(i)'
  BY <1>2 DEF Working
<1>7. Moves(i)
  BY <1>2, <1>4 DEF Moves, IInv, Working
<1>. QED
  BY <1>5, <1>6, <1>7, MoveKeeps

LEMMA FailMarkKeeps == ASSUME IInv, NEW i \in Issuer, FailMark(i) PROVE IInv'
<1>. USE DEF FailMark
<1>1. TypeOK /\ pc \in [Issuer -> Place] /\ work \in [Issuer -> Load]
  BY DEF IInv, TypeOK, Place, Load
<1>2. /\ pc' \in [Issuer -> Place] /\ work' \in [Issuer -> Load]
      /\ \A j \in Issuer \ {i} : pc'[j] = pc[j] /\ work'[j] = work[j]
      /\ pc'[i] \in {"idle", "done"} \/ (pc'[i] = "mark" /\ work'[i].result = "pending")
  <2>1. CASE Ends(i)
    BY <1>1, <2>1, EndsLeaves
  <2>2. CASE work' = [work EXCEPT ![i].result = "pending"] /\ UNCHANGED pc
    BY <1>1, <2>2 DEF Load
  <2>. QED
    BY <2>1, <2>2
<1>3. spent' \in [faults : 0..MaxFaults, windows : 0..MaxWindows]
  BY <1>1, SpendFaults
<1>4. TypeOK'
  BY <1>1, <1>2, <1>3, TypesOfMove DEF TypeOK
<1>5. Working(i)'
  BY <1>2 DEF Working
<1>6. Moves(i)
  BY <1>2 DEF Moves
<1>. QED
  BY <1>4, <1>5, <1>6, MoveKeeps

LEMMA SweepKeeps == ASSUME IInv, SweepLists \/ SweepBegins \/ Boot PROVE IInv'
<1>. USE DEF SweepLists, SweepBegins, Boot
<1>1. TypeOK /\ pc \in [Issuer -> Place] /\ work \in [Issuer -> Load] /\ sweep \in Issuer
  BY DEF IInv, TypeOK, Place, Load, Issuer
<1>2. /\ todo' \subseteq Call /\ UNCHANGED <<store, status, codes, mail, outbox, look, spent>>
      /\ \E where \in {"list", "idle", "mark", "begun"} : pc' = [pc EXCEPT ![sweep] = where]
  BY <1>1 DEF TypeOK
<1>3. /\ pc' \in [Issuer -> Place] /\ pc'[sweep] \in {"list", "idle", "mark", "begun"}
      /\ \A j \in Issuer \ {sweep} : pc'[j] = pc[j]
  BY <1>1, <1>2 DEF Place
<1>4. /\ work' \in [Issuer -> Load] /\ \A j \in Issuer \ {sweep} : work'[j] = work[j]
      /\ pc'[sweep] \in {"begun", "mark"} =>
           work'[sweep].for \in Call /\ work'[sweep].result # "sent"
  <2>1. CASE SweepLists \/ Boot
    BY <1>1, <2>1
  <2>2. CASE SweepBegins
    <3>1. PICK c \in Call : work' = [work EXCEPT ![sweep] =
            [Nothing EXCEPT !.purpose = outbox[c].purpose, !.for = c,
                            !.result = IF Unavailable THEN "abandoned" ELSE "pending"]]
      BY <1>1, <2>2 DEF TypeOK
    <3>2. outbox[c].purpose \in Purpose /\ c \in Issuer
      BY <1>1 DEF TypeOK, Issuer
    <3>3. [Nothing EXCEPT !.purpose = outbox[c].purpose, !.for = c,
                          !.result = IF Unavailable THEN "abandoned" ELSE "pending"] \in Load
      BY <1>1, <3>2, NothingIsLoad DEF Load
    <3>. QED
      BY <1>1, <3>1, <3>3 DEF Nothing
  <2>. QED
    BY <2>1, <2>2
<1>5. TypeOK'
  BY <1>1, <1>2, <1>3, <1>4, TypesOfMove DEF TypeOK
<1>6. Working(sweep)'
  BY <1>3, <1>4 DEF Working
<1>7. Moves(sweep)
  BY <1>2, <1>3, <1>4 DEF Moves
<1>. QED
  BY <1>1, <1>5, <1>6, <1>7, MoveKeeps

\* Steps beside the issuers, and the end of their process.
Aside ==
  /\ UNCHANGED <<codes, mail, outbox>>
  /\ \A j \in Issuer : \/ pc'[j] = pc[j] /\ work'[j] = work[j]
                       \/ pc'[j] \in {"off", "idle", "done"}

LEMMA AsideKeeps == ASSUME IInv, Aside, TypeOK' PROVE IInv'
<1>. USE DEF Aside
<1>1. NewestUnused' /\ Counts'
  BY DEF IInv, NewestUnused, Counts, IsUnused
<1>2. OneFound'
  BY DEF IInv, OneFound
<1>3. Recent' = Recent /\ \A c : Mailed(c)' = Mailed(c)
  BY DEF Recent, Mailed
<1>4. ASSUME NEW j \in Issuer PROVE Working(j)'
  BY <1>3 DEF IInv, Working
<1>5. IssueWindow' /\ SentWasDelivered'
  BY <1>3 DEF IInv, IssueWindow, SentWasDelivered
<1>. QED
  BY <1>1, <1>2, <1>4, <1>5 DEF IInv

LEMMA CrashKeeps == ASSUME IInv, Crash PROVE IInv'
<1>. USE DEF Crash
<1>1. TypeOK /\ pc \in [Issuer -> Place] /\ work \in [Issuer -> Load]
  BY DEF IInv, TypeOK, Place, Load
<1>2. pc' \in [Issuer -> Place]
  BY <1>1 DEF Place
<1>3. work' \in [Issuer -> Load]
  BY <1>1, NothingIsLoad
<1>4. spent' \in [faults : 0..MaxFaults, windows : 0..MaxWindows]
  BY <1>1, SpendFaults
<1>5. TypeOK'
  BY <1>1, <1>2, <1>3, <1>4, TypesOfMove DEF TypeOK
<1>6. ASSUME NEW j \in Issuer
      PROVE  (pc'[j] = pc[j] /\ work'[j] = work[j]) \/ pc'[j] \in {"off", "idle", "done"}
  BY <1>1 DEF Issuer
<1>7. Aside
  BY <1>6 DEF Aside
<1>. QED
  BY <1>5, <1>7, AsideKeeps

LEMMA LookTyped ==
  ASSUME IInv, NEW g \in Guesser, Look(g)
  PROVE  look' \in [Guesser -> [candidate : 0..Len(codes), given : 0..Len(codes)]]
<1>1. PICK given \in Known \cup {0}, purpose \in Purpose :
        /\ Unused(purpose) # {}
        /\ look' = [look EXCEPT ![g] = [candidate |-> Latest(Unused(purpose)), given |-> given]]
  BY DEF Look
<1>2. Latest(Unused(purpose)) \in DOMAIN codes
  BY <1>1, LatestIsThere DEF IInv, Unused
<1>3. given \in DOMAIN codes \cup {0}
  BY <1>1 DEF IInv, TypeOK, Known
<1>. QED
  BY <1>1, <1>2, <1>3, RowsOf DEF IInv, TypeOK

LEMMA BesidesKeeps ==
  ASSUME IInv, (\E g \in Guesser : Look(g)) \/ Activate \/ Disable \/ UNCHANGED vars
  PROVE  IInv'
<1>1. UNCHANGED <<store, codes, mail, outbox, pc, work, todo, spent>>
  BY DEF Look, Activate, Disable, vars
<1>2. look' \in [Guesser -> [candidate : 0..Len(codes), given : 0..Len(codes)]]
  BY LookTyped DEF Activate, Disable, vars, IInv, TypeOK
<1>3. status' \in {"pending", "active", "disabled"}
  BY DEF Look, Activate, Disable, vars, IInv, TypeOK
<1>4. TypeOK'
  BY <1>1, <1>2, <1>3 DEF IInv, TypeOK
<1>5. Aside
  BY <1>1 DEF Aside
<1>. QED
  BY <1>4, <1>5, AsideKeeps

-----------------------------------------------------------------------------
(* Steps that rewrite codes in place.                                      *)

Rewrites ==
  /\ codes' \in Seq(CodeRow) /\ Len(codes') = Len(codes)
  /\ \A k \in DOMAIN codes :
       /\ codes'[k].purpose = codes[k].purpose /\ codes'[k].for = codes[k].for
       /\ codes'[k].recent => codes[k].recent
       /\ codes'[k].state \in {"fresh", "expired"} => IsUnused(k)
  /\ UNCHANGED <<store, status, mail, outbox, pc, work, todo>>

LEMMA RewriteKeeps ==
  ASSUME IInv, Rewrites, Counts',
         look' \in [Guesser -> [candidate : 0..Len(codes), given : 0..Len(codes)]],
         spent' \in [faults : 0..MaxFaults, windows : 0..MaxWindows]
  PROVE  IInv'
<1>. USE DEF Rewrites
<1>1. DOMAIN codes' = DOMAIN codes
  BY LenProperties DEF IInv, TypeOK
<1>2. TypeOK'
  BY <1>1 DEF IInv, TypeOK
<1>3. \A k \in DOMAIN codes : IsUnused(k)' => IsUnused(k)
  BY DEF IsUnused
<1>4. NewestUnused'
  BY <1>1, <1>3 DEF IInv, NewestUnused
<1>5. OneFound'
  BY DEF IInv, OneFound
<1>6. Recent' \subseteq Recent
  BY <1>1 DEF Recent
<1>7. Cardinality(Recent') \in Nat /\ Cardinality(Recent') <= Cardinality(Recent)
  BY <1>2, <1>6, RecentIsFinite, FS_Subset, FS_CardinalityType DEF IInv
<1>8. \A c : Mailed(c) => Mailed(c)'
  BY DEF IInv, TypeOK, Mailed
<1>9. ASSUME NEW j \in Issuer PROVE Working(j)'
  <2>1. Working(j)
    BY DEF IInv
  <2>2. pc'[j] = "found" => Cardinality(Recent') < IssueMax
    BY <1>7, <2>1, RecentIsFinite, BoundAssumption DEF IInv, Working
  <2>. QED
    BY <1>1, <1>8, <2>1, <2>2 DEF Working
<1>10. IssueWindow'
  BY <1>7, RecentIsFinite, BoundAssumption DEF IInv, IssueWindow
<1>11. SentWasDelivered'
  BY <1>8 DEF IInv, SentWasDelivered, Mailed
<1>. QED
  BY <1>2, <1>4, <1>5, <1>9, <1>10, <1>11 DEF IInv

\* One code is rewritten.
Rewritable(k, row) ==
  /\ row \in CodeRow
  /\ row.purpose = codes[k].purpose /\ row.for = codes[k].for /\ row.recent = codes[k].recent
  /\ row.state \in {"fresh", "expired"} => IsUnused(k) /\ row.redeemed = 0
  /\ row.redeemed <= 1 /\ row.wrong <= row.attempts /\ row.attempts <= MaxAttempts

LEMMA RowKeeps ==
  ASSUME IInv, NEW k \in DOMAIN codes, NEW row, Rewritable(k, row),
         codes' = [codes EXCEPT ![k] = row],
         UNCHANGED <<store, status, mail, outbox, pc, work, todo>>,
         look' \in [Guesser -> [candidate : 0..Len(codes), given : 0..Len(codes)]],
         spent' \in [faults : 0..MaxFaults, windows : 0..MaxWindows]
  PROVE  IInv'
<1>. USE DEF Rewritable
<1>1. TypeOK /\ codes \in Seq(CodeRow) /\ DOMAIN codes = 1..Len(codes)
  BY RowsOf DEF IInv, TypeOK
<1>2. /\ codes' \in Seq(CodeRow) /\ Len(codes') = Len(codes)
      /\ \A j \in DOMAIN codes : codes'[j] = IF j = k THEN row ELSE codes[j]
  BY <1>1, ExceptSeq
<1>3. DOMAIN codes' = DOMAIN codes
  BY <1>1, <1>2, LenProperties
<1>4. Rewrites
  BY <1>2 DEF Rewrites, IsUnused
<1>5. Counts'
  <2>. SUFFICES ASSUME NEW j \in DOMAIN codes
                PROVE  /\ codes'[j].redeemed <= 1
                       /\ codes'[j].redeemed > 0 => codes'[j].state \notin {"fresh", "expired"}
                       /\ codes'[j].wrong <= codes'[j].attempts
                       /\ codes'[j].attempts <= MaxAttempts
    BY <1>3 DEF Counts, IsUnused
  <2>1. CASE j = k
    BY <1>2, <2>1
  <2>2. CASE j # k
    BY <1>2, <2>2 DEF IInv, Counts, IsUnused
  <2>. QED
    BY <2>1, <2>2
<1>. QED
  BY <1>4, <1>5, RewriteKeeps

LEMMA SameLookAndSpent ==
  ASSUME IInv
  PROVE  /\ look \in [Guesser -> [candidate : 0..Len(codes), given : 0..Len(codes)]]
         /\ spent \in [faults : 0..MaxFaults, windows : 0..MaxWindows]
  BY DEF IInv, TypeOK

LEMMA ExpireKeeps == ASSUME IInv, NEW k \in DOMAIN codes, ExpireCode(k) PROVE IInv'
<1>. USE DEF ExpireCode
<1>1. codes[k] \in CodeRow
  BY RowsOf DEF IInv
<1>2. Rewritable(k, [codes[k] EXCEPT !.state = "expired"])
  BY <1>1 DEF Rewritable, CodeRow, IInv, Counts, IsUnused
<1>. QED
  BY <1>2, RowKeeps, SameLookAndSpent

LEMMA SpendWindows ==
  ASSUME TypeOK, spent.windows < MaxWindows, Spend("windows")
  PROVE  spent' \in [faults : 0..MaxFaults, windows : 0..MaxWindows]
  BY BoundAssumption DEF TypeOK, Spend

LEMMA PassWindowKeeps == ASSUME IInv, PassWindow PROVE IInv'
<1>. USE DEF PassWindow
<1>. DEFINE row(k) == [codes[k] EXCEPT !.recent = FALSE]
<1>1. TypeOK /\ codes \in Seq(CodeRow)
  BY DEF IInv, TypeOK
<1>2. \A k \in DOMAIN codes : codes[k] \in CodeRow
  BY <1>1, RowsOf
<1>3. \A k \in DOMAIN codes : row(k) \in CodeRow
  BY <1>2 DEF CodeRow
<1>4. codes' \in [DOMAIN codes -> CodeRow]
  BY <1>3
<1>5. codes' \in Seq(CodeRow) /\ Len(codes') = Len(codes) /\ DOMAIN codes' = DOMAIN codes
  BY <1>1, <1>4, Rewritten
<1>6. \A k \in DOMAIN codes :
        /\ codes'[k].purpose = codes[k].purpose /\ codes'[k].for = codes[k].for
        /\ codes'[k].state = codes[k].state /\ codes'[k].recent = FALSE
        /\ codes'[k].attempts = codes[k].attempts /\ codes'[k].wrong = codes[k].wrong
        /\ codes'[k].redeemed = codes[k].redeemed
  BY <1>2 DEF CodeRow
<1>7. Rewrites
  BY <1>5, <1>6 DEF Rewrites, IsUnused
<1>8. Counts'
  BY <1>5, <1>6 DEF IInv, Counts, IsUnused
<1>9. spent' \in [faults : 0..MaxFaults, windows : 0..MaxWindows]
  BY <1>1, SpendWindows
<1>. QED
  BY <1>7, <1>8, <1>9, RewriteKeeps, SameLookAndSpent

\* The code a redemption goes on with is unused, and the only one of its purpose.
LEMMA SettledIsUnused ==
  ASSUME IInv, NEW picked, StillUnused(picked) # {}
  PROVE  /\ Latest(StillUnused(picked)) \in DOMAIN codes
         /\ IsUnused(Latest(StillUnused(picked)))
<1>1. StillUnused(picked) \in SUBSET Unused(codes[picked].purpose)
  BY DEF StillUnused
<1>2. Latest(StillUnused(picked)) \in Unused(codes[picked].purpose)
  BY <1>1, LatestIsThere DEF IInv
<1>. QED
  BY <1>2 DEF Unused

LEMMA RowUpdates ==
  ASSUME NEW r \in CodeRow, NEW n \in Nat
  PROVE  /\ [r EXCEPT !.state = "used", !.redeemed = n] \in CodeRow
         /\ [r EXCEPT !.attempts = n, !.state = "burned"] \in CodeRow
         /\ [r EXCEPT !.attempts = n] \in CodeRow
  BY DEF CodeRow

\* What a redemption writes to the unused code it has: a wrong guess counted, or
\* the code used.
LEMMA AnsweredIsRewritable ==
  ASSUME IInv, NEW k \in DOMAIN codes, IsUnused(k), ~(codes[k].attempts >= MaxAttempts), NEW given
  PROVE  Rewritable(k, Answered(k, given))
<1>1. codes[k] \in CodeRow
  BY RowsOf DEF IInv
<1>2. /\ codes[k].attempts \in Nat /\ codes[k].wrong \in Nat /\ codes[k].redeemed = 0
      /\ codes[k].wrong <= codes[k].attempts
      /\ codes[k].attempts < MaxAttempts /\ MaxAttempts \in Nat
  BY <1>1, BoundAssumption DEF CodeRow, IInv, Counts
<1>3. codes[k].attempts + 1 \in Nat /\ codes[k].redeemed + 1 \in Nat
  BY <1>2
<1>4. GuessCounted(k) \in CodeRow
  <2>1. CASE codes[k].attempts + 1 >= MaxAttempts
    <3>1. GuessCounted(k) = [codes[k] EXCEPT !.attempts = codes[k].attempts + 1, !.state = "burned"]
      BY <2>1 DEF GuessCounted
    <3>. QED
      BY <1>1, <1>3, <3>1, RowUpdates
  <2>2. CASE ~(codes[k].attempts + 1 >= MaxAttempts)
    <3>1. GuessCounted(k) = [codes[k] EXCEPT !.attempts = codes[k].attempts + 1]
      BY <1>1, <2>2 DEF GuessCounted, CodeRow
    <3>. QED
      BY <1>1, <1>3, <3>1, RowUpdates
  <2>. QED
    BY <2>1, <2>2
<1>5. /\ GuessCounted(k).purpose = codes[k].purpose /\ GuessCounted(k).for = codes[k].for
      /\ GuessCounted(k).recent = codes[k].recent /\ GuessCounted(k).redeemed = 0
      /\ GuessCounted(k).attempts = codes[k].attempts + 1
      /\ GuessCounted(k).wrong = codes[k].wrong
  BY <1>1, <1>2 DEF GuessCounted, CodeRow
<1>6. Rewritable(k, [GuessCounted(k) EXCEPT !.wrong = @ + 1])
  BY <1>2, <1>4, <1>5 DEF Rewritable, CodeRow
<1>7. [codes[k] EXCEPT !.state = "used", !.redeemed = @ + 1] \in CodeRow
  BY <1>1, <1>3, RowUpdates
<1>8. Rewritable(k, [codes[k] EXCEPT !.state = "used", !.redeemed = @ + 1])
  BY <1>1, <1>2, <1>7 DEF Rewritable, CodeRow
<1>. QED
  BY <1>6, <1>8 DEF Answered

LEMMA SettleKeeps == ASSUME IInv, NEW g \in Guesser, Settle(g) PROVE IInv'
<1>. DEFINE k == Latest(StillUnused(look[g].candidate))
<1>1. look' \in [Guesser -> [candidate : 0..Len(codes), given : 0..Len(codes)]]
  BY RowsOf DEF Settle, IInv, TypeOK
<1>2. UNCHANGED <<store, status, mail, outbox, pc, work, todo, spent>>
  BY DEF Settle
<1>3. CASE UNCHANGED codes
  <2>1. Rewrites
    BY <1>2, <1>3 DEF Rewrites, IInv, TypeOK, IsUnused
  <2>2. Counts'
    BY <1>3 DEF IInv, Counts, IsUnused
  <2>. QED
    BY <1>1, <1>2, <2>1, <2>2, RewriteKeeps, SameLookAndSpent
<1>4. CASE ~UNCHANGED codes
  <2>1. /\ StillUnused(look[g].candidate) # {} /\ ~Refuses(k, look[g].given)
        /\ codes' = [codes EXCEPT ![k] = Answered(k, look[g].given)]
    BY <1>4 DEF Settle
  <2>2. k \in DOMAIN codes /\ IsUnused(k)
    BY <2>1, SettledIsUnused
  <2>3. Rewritable(k, Answered(k, look[g].given))
    BY <2>1, <2>2, AnsweredIsRewritable DEF Refuses
  <2>. HIDE DEF k
  <2>. QED
    BY <1>1, <1>2, <2>1, <2>2, <2>3, RowKeeps, SameLookAndSpent
<1>. QED
  BY <1>3, <1>4

-----------------------------------------------------------------------------
(* The commit of a code.                                                   *)

\* The code is the last row and every earlier one of its purpose is used.
LEMMA CodesOfCommit ==
  ASSUME IInv, NEW i \in Issuer, CommitIssue(i)
  PROVE  /\ codes' \in Seq(CodeRow) /\ Len(codes') = Len(codes) + 1
         /\ DOMAIN codes' = 1..(Len(codes) + 1)
         /\ codes'[Len(codes) + 1] = NewCode(i)
         /\ \A k \in DOMAIN codes :
              /\ codes'[k].purpose = codes[k].purpose /\ codes'[k].for = codes[k].for
              /\ codes'[k].recent = codes[k].recent
              /\ codes'[k].redeemed = codes[k].redeemed
              /\ codes'[k].wrong = codes[k].wrong /\ codes'[k].attempts = codes[k].attempts
              /\ codes'[k].state \in {"fresh", "expired"} =>
                   IsUnused(k) /\ codes[k].purpose # work[i].purpose
<1>. DEFINE sup == Superseded(work[i].purpose)
            row(k) == IF k \in Unused(work[i].purpose)
                      THEN [codes[k] EXCEPT !.state = "superseded"] ELSE codes[k]
<1>1. codes \in Seq(CodeRow) /\ DOMAIN codes = 1..Len(codes) /\ Len(codes) \in Nat
      /\ \A k \in DOMAIN codes : codes[k] \in CodeRow
  BY RowsOf DEF IInv, TypeOK
<1>2. sup = [k \in DOMAIN codes |-> row(k)]
  BY DEF Superseded
<1>3. \A k \in DOMAIN codes :
        /\ row(k) \in CodeRow
        /\ row(k).purpose = codes[k].purpose /\ row(k).for = codes[k].for
        /\ row(k).recent = codes[k].recent /\ row(k).redeemed = codes[k].redeemed
        /\ row(k).wrong = codes[k].wrong /\ row(k).attempts = codes[k].attempts
        /\ row(k).state \in {"fresh", "expired"} =>
             IsUnused(k) /\ codes[k].purpose # work[i].purpose
  BY <1>1 DEF CodeRow, Unused, IsUnused
<1>. HIDE DEF row
<1>4. sup \in [DOMAIN codes -> CodeRow] /\ \A k \in DOMAIN codes : sup[k] = row(k)
  BY <1>2, <1>3
<1>. HIDE DEF sup
<1>5. sup \in Seq(CodeRow) /\ Len(sup) = Len(codes)
  BY <1>1, <1>4, Rewritten
<1>6. NewCode(i) \in CodeRow
  <2>1. work[i].for \in Call \cup Clerk /\ work[i].purpose \in Purpose
    BY DEF CommitIssue, IInv, Working, TypeOK
  <2>. QED
    BY <2>1 DEF NewCode, CodeRow
<1>7. codes' = Append(sup, NewCode(i))
  BY DEF CommitIssue, sup
<1>8. /\ codes' \in Seq(CodeRow) /\ Len(codes') = Len(codes) + 1
      /\ \A k \in 1..Len(codes) : codes'[k] = sup[k]
      /\ codes'[Len(codes) + 1] = NewCode(i)
  BY <1>5, <1>6, <1>7, AppendProperties
<1>9. DOMAIN codes' = 1..(Len(codes) + 1)
  BY <1>8, LenProperties
<1>. QED
  BY <1>1, <1>3, <1>4, <1>8, <1>9

LEMMA WorkOfCommit ==
  ASSUME IInv, NEW i \in Issuer, CommitIssue(i)
  PROVE  /\ pc' \in [Issuer -> Place] /\ pc'[i] \in {"done", "deliver"}
         /\ work' \in [Issuer -> [purpose : Purpose, for : Issuer, code : 0..(Len(codes) + 1),
                                  result : {"sent", "pending", "abandoned"}]]
         /\ \A j \in Issuer \ {i} : pc'[j] = pc[j] /\ work'[j] = work[j]
         /\ pc'[i] = "deliver" => /\ work'[i].for = work[i].for
                                 /\ work'[i].result = work[i].result
                                 /\ work'[i].code = Len(codes) + 1
<1>. DEFINE L == [purpose : Purpose, for : Issuer, code : 0..(Len(codes) + 1),
                  result : {"sent", "pending", "abandoned"}]
<1>1. pc \in [Issuer -> Place] /\ work \in [Issuer -> Load] /\ Len(codes) \in Nat
  BY RowsOf DEF IInv, TypeOK, Place, Load
<1>2. pc' \in [Issuer -> Place] /\ pc'[i] = IF i \in Clerk THEN "done" ELSE "deliver"
  BY <1>1 DEF CommitIssue, Place
<1>3. work \in [Issuer -> L]
  BY <1>1 DEF Load
<1>4. Nothing \in L
  BY <1>1 DEF Nothing, Purpose, Issuer
<1>5. [work[i] EXCEPT !.code = Len(codes) + 1] \in L
  <2>1. Len(codes) + 1 \in 0..(Len(codes) + 1)
    BY <1>1
  <2>2. \A x : x \in L => [x EXCEPT !.code = Len(codes) + 1] \in L
    BY <2>1
  <2>. QED
    BY <1>3, <2>2
<1>6. work' = [work EXCEPT ![i] = IF i \in Clerk THEN Nothing
                                  ELSE [work[i] EXCEPT !.code = Len(codes) + 1]]
  BY DEF CommitIssue
<1>7. work' \in [Issuer -> L] /\ \A j \in Issuer \ {i} : work'[j] = work[j]
  BY <1>3, <1>4, <1>5, <1>6
<1>8. i \notin Clerk => /\ work'[i].for = work[i].for /\ work'[i].result = work[i].result
                       /\ work'[i].code = Len(codes) + 1
  BY <1>3, <1>6
<1>9. \A j \in Issuer \ {i} : pc'[j] = pc[j]
  BY <1>1 DEF CommitIssue
<1>. QED
  BY <1>2, <1>7, <1>8, <1>9

LEMMA CommitKeeps == ASSUME IInv, NEW i \in Issuer, CommitIssue(i) PROVE IInv'
<1>. DEFINE n == Len(codes) + 1
<1>1. TypeOK /\ Len(codes) \in Nat /\ DOMAIN codes = 1..Len(codes) /\ n \in Nat
  BY RowsOf DEF IInv
<1>2. /\ codes' \in Seq(CodeRow) /\ Len(codes') = n /\ DOMAIN codes' = 1..n
      /\ codes'[n] = NewCode(i) /\ DOMAIN codes' = DOMAIN codes \cup {n} /\ n \notin DOMAIN codes
  <2>1. 1..n = (1..Len(codes)) \cup {n} /\ n \notin 1..Len(codes)
    BY <1>1
  <2>. QED
    BY <1>1, <2>1, CodesOfCommit
<1>3. /\ pc[i] = "found" /\ Working(i) /\ UNCHANGED <<store, status, mail, todo, look, spent>>
      /\ \/ outbox' = outbox
         \/ outbox' = [outbox EXCEPT ![i] = [state |-> "pending", purpose |-> work[i].purpose]]
  BY DEF CommitIssue, IInv
<1>4. TypeOK'
  <2>1. work[i].purpose \in Purpose
    BY <1>1 DEF TypeOK
  <2>2. outbox' \in [Call -> [state : {"none", "pending", "sent", "abandoned"},
                              purpose : Purpose]]
    BY <1>1, <1>3, <2>1 DEF TypeOK
  <2>3. look' \in [Guesser -> [candidate : 0..n, given : 0..n]]
    BY <1>1, <1>3 DEF TypeOK
  <2>4. mail' \subseteq DOMAIN codes'
    BY <1>1, <1>2, <1>3 DEF TypeOK
  <2>. QED
    BY <1>1, <1>2, <1>3, <2>2, <2>3, <2>4, WorkOfCommit DEF TypeOK, Place
<1>5. NewestUnused'
  <2>. SUFFICES ASSUME NEW x \in DOMAIN codes', NEW y \in DOMAIN codes',
                       codes'[x].state \in {"fresh", "expired"},
                       codes'[y].purpose = codes'[x].purpose
                PROVE  y <= x
    BY DEF NewestUnused, IsUnused
  <2>1. CASE x = n
    BY <1>1, <1>2, <2>1
  <2>2. CASE x # n
    <3>1. x \in DOMAIN codes /\ IsUnused(x) /\ codes[x].purpose # work[i].purpose
          /\ codes'[x].purpose = codes[x].purpose
      BY <1>2, <2>2, CodesOfCommit
    <3>2. y # n
      BY <1>2, <3>1 DEF NewCode
    <3>3. y \in DOMAIN codes /\ codes[y].purpose = codes[x].purpose
      BY <1>2, <3>1, <3>2, CodesOfCommit
    <3>. QED
      BY <3>1, <3>3 DEF IInv, NewestUnused
  <2>. QED
    BY <2>1, <2>2
<1>6. Counts'
  <2>. SUFFICES ASSUME NEW k \in DOMAIN codes'
                PROVE  /\ codes'[k].redeemed <= 1
                       /\ codes'[k].redeemed > 0 => codes'[k].state \notin {"fresh", "expired"}
                       /\ codes'[k].wrong <= codes'[k].attempts
                       /\ codes'[k].attempts <= MaxAttempts
    BY DEF Counts, IsUnused
  <2>1. CASE k = n
    BY <1>2, <2>1, BoundAssumption DEF NewCode
  <2>2. CASE k # n
    BY <1>2, <2>2, CodesOfCommit DEF IInv, Counts
  <2>. QED
    BY <2>1, <2>2
<1>7. OneFound'
  BY WorkOfCommit DEF IInv, OneFound
<1>8. Cardinality(Recent') = Cardinality(Recent) + 1 /\ Cardinality(Recent) < IssueMax
  <2>1. Recent' = Recent \cup {n} /\ n \notin Recent
    <3>1. codes'[n].recent
      BY <1>2 DEF NewCode
    <3>2. \A k \in DOMAIN codes : codes'[k].recent = codes[k].recent
      BY CodesOfCommit
    <3>. QED
      BY <1>2, <3>1, <3>2 DEF Recent
  <2>2. Cardinality(Recent \cup {n}) = Cardinality(Recent) + 1
    BY <1>1, <2>1, RecentIsFinite, FS_AddElement
  <2>. QED
    BY <1>3, <2>1, <2>2 DEF Working
<1>9. IssueWindow'
  BY <1>1, <1>8, RecentIsFinite, BoundAssumption DEF IssueWindow
<1>10. \A c : Mailed(c) => Mailed(c)'
  BY <1>1, <1>3, CodesOfCommit DEF Mailed, TypeOK
<1>11. ASSUME NEW j \in Issuer PROVE Working(j)'
  <2>1. CASE j = i
    <3>1. CASE pc'[i] = "deliver"
      BY <1>2, <1>3, <2>1, <3>1, WorkOfCommit DEF Working, NewCode
    <3>2. CASE pc'[i] = "done"
      BY <2>1, <3>2 DEF Working
    <3>. QED
      BY <3>1, <3>2, WorkOfCommit
  <2>2. CASE j # i
    <3>1. pc'[j] = pc[j] /\ work'[j] = work[j] /\ pc[j] # "found" /\ Working(j)
      BY <1>3, <2>2, WorkOfCommit DEF IInv, OneFound
    <3>2. pc[j] = "deliver" => /\ work[j].code \in DOMAIN codes'
                               /\ codes'[work[j].code].for = work[j].for
      BY <1>2, <3>1, CodesOfCommit DEF Working
    <3>. QED
      BY <1>10, <3>1, <3>2 DEF Working
  <2>. QED
    BY <2>1, <2>2
<1>12. SentWasDelivered'
  <2>. SUFFICES ASSUME NEW c \in Call, outbox'[c].state = "sent" PROVE Mailed(c)'
    BY DEF SentWasDelivered, Mailed
  <2>1. outbox \in [Call -> [state : {"none", "pending", "sent", "abandoned"}, purpose : Purpose]]
    BY <1>1 DEF TypeOK
  <2>2. outbox'[c] = outbox[c] \/ outbox'[c] = [state |-> "pending", purpose |-> work[i].purpose]
    BY <1>3, <2>1
  <2>3. outbox[c].state = "sent"
    BY <2>2
  <2>. QED
    BY <1>10, <2>3 DEF IInv, SentWasDelivered, Mailed
<1>. QED
  BY <1>4, <1>5, <1>6, <1>7, <1>9, <1>11, <1>12 DEF IInv

-----------------------------------------------------------------------------
LEMMA NextKeeps == ASSUME IInv, [Next]_vars PROVE IInv'
<1>1. ASSUME NEW i \in Issuer, Begin(i) \/ Issue(i) \/ FailIssue(i) \/ FailMark(i) PROVE IInv'
  BY <1>1, BeginKeeps, CountRecentKeeps, CommitKeeps, DeliverKeeps, MarkKeeps, FailIssueKeeps,
     FailMarkKeeps DEF Issue
<1>2. CASE SweepLists \/ SweepBegins \/ Boot
  BY <1>2, SweepKeeps
<1>3. CASE Crash
  BY <1>3, CrashKeeps
<1>4. CASE \E g \in Guesser : Look(g) \/ Settle(g)
  BY <1>4, BesidesKeeps, SettleKeeps
<1>5. CASE Activate \/ Disable \/ UNCHANGED vars
  BY <1>5, BesidesKeeps
<1>6. CASE PassWindow
  BY <1>6, PassWindowKeeps
<1>7. CASE \E k \in DOMAIN codes : ExpireCode(k)
  BY <1>7, ExpireKeeps
<1>. QED
  BY <1>1, <1>2, <1>3, <1>4, <1>5, <1>6, <1>7 DEF Next

LEMMA IInvHolds == Spec => []IInv
<1>1. Init => IInv
  BY InitIInv
<1>2. IInv /\ [Next]_vars => IInv'
  BY NextKeeps
<1>. QED
  BY <1>1, <1>2, PTL DEF Spec

\* However recovery calls, clerks and the sweep interleave with each other, with
\* crashes and with redemptions that wait for a lock: one unused code of each
\* purpose, none redeemed twice, no window and no code beyond its limit
\* (issueCode and redeem of pg/identity.ts).
THEOREM CodesAreBounded == Spec => []Inv
<1>1. IInv => Inv
  BY InvFromIInv
<1>. QED
  BY <1>1, IInvHolds, PTL

\* No row of the outbox says sent of a call for which nothing was delivered,
\* though rows are marked by id after their code may have been replaced
\* (markOutbox, auth-delivery.ts).
THEOREM SentIsDelivered == Spec => []SentWasDelivered
<1>1. IInv => SentWasDelivered
  BY DEF IInv
<1>. QED
  BY <1>1, IInvHolds, PTL

\* A code of which a later one of its purpose has been committed is never redeemed,
\* also by a redemption that picked it before ("completing an old code and
\* regenerating cannot both succeed", openauth.ts).
THEOREM OldCodesDie == Spec => OldCodeDead
<1>1. ASSUME IInv, [Next]_vars, NEW i \in DOMAIN codes, codes'[i].redeemed > codes[i].redeemed,
             NEW j \in DOMAIN codes, j > i, codes[j].purpose = codes[i].purpose
      PROVE  FALSE
  <2>1. codes[i] \in CodeRow /\ codes[i].redeemed \in Nat /\ i \in Nat /\ j \in Nat
    BY <1>1, RowsOf DEF IInv, CodeRow
  <2>2. ~IsUnused(i)
    BY <1>1, <2>1 DEF IInv, NewestUnused
  <2>3. ASSUME UNCHANGED codes PROVE FALSE
    BY <1>1, <2>1, <2>3
  <2>4. ASSUME NEW k \in Issuer, CommitIssue(k) PROVE FALSE
    BY <1>1, <2>1, <2>4, CodesOfCommit
  <2>5. ASSUME PassWindow PROVE FALSE
    BY <1>1, <2>1, <2>5 DEF PassWindow, CodeRow
  <2>6. ASSUME NEW k \in DOMAIN codes, ExpireCode(k) PROVE FALSE
    BY <1>1, <2>1, <2>6 DEF ExpireCode, CodeRow
  <2>7. ASSUME NEW g \in Guesser, Settle(g) PROVE FALSE
    <3>. DEFINE k == Latest(StillUnused(look[g].candidate))
    <3>1. /\ StillUnused(look[g].candidate) # {}
          /\ codes' = [codes EXCEPT ![k] = Answered(k, look[g].given)]
      BY <2>3, <2>7 DEF Settle
    <3>2. IsUnused(k)
      BY <1>1, <3>1, SettledIsUnused
    <3>. HIDE DEF k
    <3>3. k # i
      BY <2>2, <3>2
    <3>. QED
      BY <1>1, <2>1, <3>1, <3>3
  <2>. QED
    BY <1>1, <2>3, <2>4, <2>5, <2>6, <2>7
       DEF Next, Issue, Begin, CountRecent, Deliver, Mark, FailIssue, FailMark, SweepLists,
           SweepBegins, Crash, Boot, Look, Activate, Disable, vars
<1>2. IInv /\ [Next]_vars =>
        [\A i \in DOMAIN codes : codes'[i].redeemed > codes[i].redeemed =>
           ~\E j \in DOMAIN codes : j > i /\ codes[j].purpose = codes[i].purpose]_vars
  BY <1>1
<1>. QED
  BY <1>2, IInvHolds, PTL DEF Spec, OldCodeDead

-----------------------------------------------------------------------------
(* Signing in.                                                             *)

\* Users are numbered as they come, so a new one has an id nobody has seen.
IdsKnown ==
  /\ user # None => user.id <= users
  /\ \A a \in Login \cup Request : seen[a] # None => seen[a].id <= users
  /\ \A l \in Login : sessions[l] # None => sessions[l].user <= users

\* A subject that a user is bound to is never changed: who has read it bound
\* has read what it is bound to.
BoundForGood ==
  \A a \in Login \cup Request :
    user # None /\ seen[a] # None /\ seen[a].id = user.id /\ seen[a].subject # None
      => user.subject = seen[a].subject

\* A sign-in has its subject once it is linked and keeps it; its session, which
\* is there from its end to its logout, has that subject.
Linking ==
  \A l \in Login :
    /\ at[l] \in {"start", "verified", "binding"} => subjectOf[l] = None
    /\ at[l] \in {"linked", "noted", "exchanged", "found", "in"} => subjectOf[l] # None
    /\ at[l] = "binding" => seen[l] # None
    /\ sessions[l] # None => at[l] = "in" /\ sessions[l].subject = subjectOf[l]

\* A request that is adopting a session has read a user that the session's
\* subject may be bound to.
Adopting ==
  \A r \in Request :
    /\ at[r] \in {"candidate", "adopting"} =>
         /\ cookie[r] \in Login
         /\ at[cookie[r]] \in {"in", "done"}
         /\ subjectOf[cookie[r]] # None
    /\ at[r] = "adopting" => seen[r] # None /\ seen[r].subject \in {None, subjectOf[cookie[r]]}

SignInIInv == SignInInv /\ IdsKnown /\ BoundForGood /\ Linking /\ Adopting

-----------------------------------------------------------------------------
LEMMA SignInInitIInv == SignInInit => SignInIInv
<1>. SUFFICES ASSUME SignInInit PROVE SignInIInv
  OBVIOUS
<1>1. SignInTypeOK
  <2>1. users \in 0..MaxUsers /\ changes \in 0..MaxChanges
    BY SignInAssumption DEF SignInInit
  <2>2. /\ sessions \in [Login -> Session \cup {None}]
        /\ subjectOf \in [Login -> Subject \cup {None}]
        /\ cookie \in [Request -> Login \cup {None}]
        /\ seen \in [Login \cup Request -> User \cup {None}]
    BY DEF SignInInit
  <2>3. backend \in {"sqlite", "postgres"} /\ open \in BOOLEAN /\ credential \in BOOLEAN
    BY DEF SignInInit
  <2>. QED
    BY <2>1, <2>2, <2>3 DEF SignInInit, SignInTypeOK
<1>2. SignInsAgree /\ SessionsMatch /\ SessionHasUserOnPostgres
  BY DEF SignInInit, SignInsAgree, SessionsMatch, SessionHasUserOnPostgres
<1>3. IdsKnown /\ BoundForGood /\ Linking /\ Adopting
  BY DEF SignInInit, IdsKnown, BoundForGood, Linking, Adopting
<1>. QED
  BY <1>1, <1>2, <1>3 DEF SignInIInv, SignInInv

LEMMA VerifyKeeps == ASSUME SignInIInv, NEW l \in Login, Verify(l) PROVE SignInIInv'
<1>. USE DEF Verify, Goes, traces
<1>1. SignInTypeOK'
  BY DEF SignInIInv, SignInInv, SignInTypeOK
<1>2. SignInsAgree' /\ SessionsMatch' /\ SessionHasUserOnPostgres'
  BY DEF SignInIInv, SignInInv, SignInsAgree, SessionsMatch, SessionHasUserOnPostgres, Is
<1>3. IdsKnown' /\ BoundForGood'
  BY DEF SignInIInv, IdsKnown, BoundForGood
<1>4. Linking'
  BY DEF SignInIInv, SignInInv, SignInTypeOK, Linking
<1>5. Adopting'
  BY SignInAssumption DEF SignInIInv, SignInInv, SignInTypeOK, Adopting
<1>. QED
  BY <1>1, <1>2, <1>3, <1>4, <1>5 DEF SignInIInv, SignInInv

LEMMA NoteKeeps == ASSUME SignInIInv, NEW l \in Login, Note(l) PROVE SignInIInv'
<1>. USE DEF Note, Goes, traces
<1>1. SignInTypeOK'
  BY DEF SignInIInv, SignInInv, SignInTypeOK
<1>2. SignInsAgree' /\ SessionsMatch' /\ SessionHasUserOnPostgres'
  BY DEF SignInIInv, SignInInv, SignInsAgree, SessionsMatch, SessionHasUserOnPostgres, Is
<1>3. IdsKnown' /\ BoundForGood'
  BY DEF SignInIInv, IdsKnown, BoundForGood
<1>4. Linking'
  BY DEF SignInIInv, SignInInv, SignInTypeOK, Linking
<1>5. Adopting'
  BY SignInAssumption DEF SignInIInv, SignInInv, SignInTypeOK, Adopting
<1>. QED
  BY <1>1, <1>2, <1>3, <1>4, <1>5 DEF SignInIInv, SignInInv

LEMMA LookupKeeps == ASSUME SignInIInv, NEW l \in Login, Lookup(l) PROVE SignInIInv'
<1>. USE DEF Lookup, Goes, Sees, Linked, Refused, Unprovisioned, traces
<1>1. SignInTypeOK'
  BY SignInAssumption DEF SignInIInv, SignInInv, SignInTypeOK, User, Subject
<1>2. SignInsAgree'
  BY SignInAssumption DEF SignInIInv, SignInInv, SignInTypeOK, SignInsAgree, Linking, User
<1>3. SessionsMatch' /\ SessionHasUserOnPostgres'
  BY SignInAssumption
     DEF SignInIInv, SignInInv, SignInTypeOK, SessionsMatch, SessionHasUserOnPostgres, Is,
     User
<1>4. IdsKnown' /\ BoundForGood'
  BY SignInAssumption DEF SignInIInv, SignInInv, SignInTypeOK, IdsKnown, BoundForGood, User
<1>5. Linking'
  BY SignInAssumption DEF SignInIInv, SignInInv, SignInTypeOK, Linking, User, Subject
<1>6. Adopting'
  BY SignInAssumption DEF SignInIInv, SignInInv, SignInTypeOK, Adopting
<1>. QED
  BY <1>1, <1>2, <1>3, <1>4, <1>5, <1>6 DEF SignInIInv, SignInInv

LEMMA BindKeeps == ASSUME SignInIInv, NEW l \in Login, Bind(l) PROVE SignInIInv'
<1>. USE SignInAssumption
<1>1. /\ at[l] = "binding" /\ seen[l] \in User /\ seen[l].id \in 1..MaxUsers
      /\ subjectOf[l] = None
      /\ user # None => user \in User
      /\ UNCHANGED <<backend, open, users, credential, unused, sessions, tokens, seen, cookie, changes>>
  BY DEF Bind, traces, SignInIInv, SignInInv, SignInTypeOK, Linking, User
<1>2. CASE MayBind(seen[l].id)
  <2>1. /\ user # None /\ user.id = seen[l].id /\ user.subject = None
        /\ user' = [user EXCEPT !.subject = l, !.status = "active"]
        /\ Linked(l, l)
    BY <1>2 DEF Bind, MayBind, Is
  <2>8. user' \in User /\ user'.id = user.id /\ user'.subject = l /\ user' # None
    BY <1>1, <2>1 DEF User, Subject
  <2>2. SignInTypeOK'
    BY <1>1, <2>1, <2>8 DEF SignInIInv, SignInInv, SignInTypeOK, Subject, Linked, Goes
  <2>3. SignInsAgree'
    BY <1>1, <2>1, <2>8
       DEF SignInIInv, SignInInv, SignInTypeOK, SignInsAgree, Linking, Subject, Linked, Goes
  <2>4. SessionsMatch' /\ SessionHasUserOnPostgres'
    BY <1>1, <2>1, <2>8
       DEF SignInIInv, SignInInv, SignInTypeOK, SessionsMatch, SessionHasUserOnPostgres,
       Is, Session, Subject, Linking, Linked, Goes
  <2>5. IdsKnown' /\ BoundForGood'
    BY <1>1, <2>1, <2>8
       DEF SignInIInv, SignInInv, SignInTypeOK, IdsKnown, BoundForGood, Linked, Goes
  <2>6. Linking'
    BY <1>1, <2>1, <2>8
       DEF SignInIInv, SignInInv, SignInTypeOK, Linking, Subject, Linked, Goes
  <2>7. Adopting'
    BY <1>1, <2>1, <2>8
       DEF SignInIInv, SignInInv, SignInTypeOK, Adopting, Linking, Linked, Goes
  <2>. QED
    BY <2>2, <2>3, <2>4, <2>5, <2>6, <2>7 DEF SignInIInv, SignInInv
<1>3. CASE ~MayBind(seen[l].id) /\ Is(seen[l].id) /\ user.status # "disabled"
  <2>1. /\ user # None /\ user.id = seen[l].id /\ user.subject \in Subject
        /\ user' = user
        /\ Linked(l, user.subject)
    BY <1>1, <1>3 DEF Bind, MayBind, Is, Adopted, User
  <2>2. SignInTypeOK'
    BY <1>1, <2>1 DEF SignInIInv, SignInInv, SignInTypeOK, Subject, Linked, Goes
  <2>3. SignInsAgree'
    BY <1>1, <2>1
       DEF SignInIInv, SignInInv, SignInTypeOK, SignInsAgree, Linking, Subject, Linked, Goes
  <2>4. SessionsMatch' /\ SessionHasUserOnPostgres'
    BY <1>1, <2>1
       DEF SignInIInv, SignInInv, SignInTypeOK, SessionsMatch, SessionHasUserOnPostgres,
       Is, Session, Subject, Linking, Linked, Goes
  <2>5. IdsKnown' /\ BoundForGood'
    BY <1>1, <2>1
       DEF SignInIInv, SignInInv, SignInTypeOK, IdsKnown, BoundForGood, Linked, Goes
  <2>6. Linking'
    BY <1>1, <2>1 DEF SignInIInv, SignInInv, SignInTypeOK, Linking, Subject, Linked, Goes
  <2>7. Adopting'
    BY <1>1, <2>1 DEF SignInIInv, SignInInv, SignInTypeOK, Adopting, Linking, Linked, Goes
  <2>. QED
    BY <2>2, <2>3, <2>4, <2>5, <2>6, <2>7 DEF SignInIInv, SignInInv
<1>4. CASE ~MayBind(seen[l].id) /\ (Is(seen[l].id) => user.status = "disabled")
  <2>1. user' = user /\ at' = [at EXCEPT ![l] = "done"] /\ UNCHANGED <<subjectOf, noted>>
    BY <1>4 DEF Bind, Refused, Goes
  <2>2. SignInTypeOK'
    BY <1>1, <2>1 DEF SignInIInv, SignInInv, SignInTypeOK, Subject
  <2>3. SignInsAgree'
    BY <1>1, <2>1 DEF SignInIInv, SignInInv, SignInTypeOK, SignInsAgree, Linking, Subject
  <2>4. SessionsMatch' /\ SessionHasUserOnPostgres'
    BY <1>1, <2>1
       DEF SignInIInv, SignInInv, SignInTypeOK, SessionsMatch, SessionHasUserOnPostgres,
       Is, Session, Subject, Linking
  <2>5. IdsKnown' /\ BoundForGood'
    BY <1>1, <2>1 DEF SignInIInv, SignInInv, SignInTypeOK, IdsKnown, BoundForGood
  <2>6. Linking'
    BY <1>1, <2>1 DEF SignInIInv, SignInInv, SignInTypeOK, Linking, Subject
  <2>7. Adopting'
    BY <1>1, <2>1 DEF SignInIInv, SignInInv, SignInTypeOK, Adopting, Linking
  <2>. QED
    BY <2>2, <2>3, <2>4, <2>5, <2>6, <2>7 DEF SignInIInv, SignInInv
<1>. QED
  BY <1>2, <1>3, <1>4

LEMMA ExchangeKeeps == ASSUME SignInIInv, NEW l \in Login, Exchange(l) PROVE SignInIInv'
<1>. USE SignInAssumption DEF Exchange, Goes, SignInIInv, SignInInv, SignInTypeOK
<1>1. SignInTypeOK'
  BY DEF User, Session, Subject
<1>2. SignInsAgree'
  BY DEF SignInsAgree, Linking, IdsKnown, User, Subject
<1>3. SessionsMatch' /\ SessionHasUserOnPostgres'
  BY DEF SessionsMatch, SessionHasUserOnPostgres, SignInsAgree, Linking, IdsKnown, Is,
     User, Session, Subject
<1>4. IdsKnown' /\ BoundForGood'
  BY DEF IdsKnown, BoundForGood, User, Session
<1>5. Linking'
  BY DEF Linking, User, Session, Subject
<1>6. Adopting'
  BY DEF Adopting, Linking, User, Session, Subject
<1>. QED
  BY <1>1, <1>2, <1>3, <1>4, <1>5, <1>6

LEMMA FindKeeps == ASSUME SignInIInv, NEW l \in Login, Find(l) PROVE SignInIInv'
<1>. USE SignInAssumption DEF Find, HasUser, Active, Goes, Sees, traces, SignInIInv, SignInInv, SignInTypeOK
<1>1. SignInTypeOK'
  BY DEF User, Session, Subject
<1>2. SignInsAgree'
  BY DEF SignInsAgree, Linking, IdsKnown, User, Subject
<1>3. SessionsMatch' /\ SessionHasUserOnPostgres'
  BY DEF SessionsMatch, SessionHasUserOnPostgres, SignInsAgree, Linking, IdsKnown, Is,
     User, Session, Subject
<1>4. IdsKnown' /\ BoundForGood'
  BY DEF IdsKnown, BoundForGood, User, Session
<1>5. Linking'
  BY DEF Linking, User, Session, Subject
<1>6. Adopting'
  BY DEF Adopting, Linking, User, Session, Subject
<1>. QED
  BY <1>1, <1>2, <1>3, <1>4, <1>5, <1>6

LEMMA OpenSessionKeeps == ASSUME SignInIInv, NEW l \in Login, OpenSession(l) PROVE SignInIInv'
<1>. USE SignInAssumption DEF OpenSession, Is, Goes, SignInIInv, SignInInv, SignInTypeOK
<1>1. SignInTypeOK'
  <2>1. CASE UNCHANGED sessions
    BY <2>1
  <2>2. CASE sessions' # sessions
    <3>. DEFINE id == IF seen[l] = None THEN 0 ELSE seen[l].id
    <3>1. sessions' = [sessions EXCEPT ![l] = [user |-> id, subject |-> subjectOf[l]]]
      BY <2>2
    <3>2. id \in 0..MaxUsers
      BY DEF User
    <3>3. subjectOf[l] \in Subject
      BY DEF Linking, Subject
    <3>4. [user |-> id, subject |-> subjectOf[l]] \in Session
      BY <3>2, <3>3 DEF Session
    <3>. QED
      BY <3>1, <3>4
  <2>. QED
    BY <2>1, <2>2
<1>2. SignInsAgree'
  BY DEF SignInsAgree, Linking, IdsKnown, User, Subject
<1>3. SessionsMatch' /\ SessionHasUserOnPostgres'
  BY DEF SessionsMatch, SessionHasUserOnPostgres, SignInsAgree, Linking, IdsKnown, Is,
     User, Session, Subject
<1>4. IdsKnown' /\ BoundForGood'
  BY DEF IdsKnown, BoundForGood, User, Session
<1>5. Linking'
  BY DEF Linking, User, Session, Subject
<1>6. Adopting'
  BY DEF Adopting, Linking, User, Session, Subject
<1>. QED
  BY <1>1, <1>2, <1>3, <1>4, <1>5, <1>6

LEMMA LogoutKeeps == ASSUME SignInIInv, NEW l \in Login, Logout(l) PROVE SignInIInv'
<1>. USE SignInAssumption DEF Logout, Goes, SignInIInv, SignInInv, SignInTypeOK
<1>1. SignInTypeOK'
  BY DEF User, Session, Subject
<1>2. SignInsAgree'
  BY DEF SignInsAgree, Linking, IdsKnown, User, Subject
<1>3. SessionsMatch' /\ SessionHasUserOnPostgres'
  BY DEF SessionsMatch, SessionHasUserOnPostgres, SignInsAgree, Linking, IdsKnown, Is,
     User, Session, Subject
<1>4. IdsKnown' /\ BoundForGood'
  BY DEF IdsKnown, BoundForGood, User, Session
<1>5. Linking'
  BY DEF Linking, User, Session, Subject
<1>6. Adopting'
  BY DEF Adopting, Linking, User, Session, Subject
<1>. QED
  BY <1>1, <1>2, <1>3, <1>4, <1>5, <1>6

LEMMA ReadSessionKeeps == ASSUME SignInIInv, NEW r \in Request, ReadSession(r) PROVE SignInIInv'
<1>. USE SignInAssumption DEF ReadSession, AnswersAs, Answers, Is, Active, Goes, Sees, traces, SignInIInv, SignInInv, SignInTypeOK
<1>1. SignInTypeOK'
  BY DEF User, Session, Subject
<1>2. SignInsAgree'
  BY DEF SignInsAgree, Linking, IdsKnown, User, Subject
<1>3. SessionsMatch' /\ SessionHasUserOnPostgres'
  BY DEF SessionsMatch, SessionHasUserOnPostgres, SignInsAgree, Linking, IdsKnown, Is,
     User, Session, Subject
<1>4. IdsKnown' /\ BoundForGood'
  BY DEF IdsKnown, BoundForGood, User, Session
<1>5. Linking'
  BY DEF Linking, User, Session, Subject
<1>6. Adopting'
  BY DEF Adopting, Linking, User, Session, Subject
<1>. QED
  BY <1>1, <1>2, <1>3, <1>4, <1>5, <1>6

LEMMA ReadCandidateKeeps == ASSUME SignInIInv, NEW r \in Request, ReadCandidate(r) PROVE SignInIInv'
<1>. USE SignInAssumption DEF ReadCandidate, Answers, Active, Another, Goes, Sees, SignInIInv, SignInInv, SignInTypeOK
<1>1. SignInTypeOK'
  BY DEF User, Session, Subject
<1>2. SignInsAgree'
  BY DEF SignInsAgree, Linking, IdsKnown, User, Subject
<1>3. SessionsMatch' /\ SessionHasUserOnPostgres'
  BY DEF SessionsMatch, SessionHasUserOnPostgres, SignInsAgree, Linking, IdsKnown, Is,
     User, Session, Subject
<1>4. IdsKnown' /\ BoundForGood'
  BY DEF IdsKnown, BoundForGood, User, Session
<1>5. Linking'
  BY DEF Linking, User, Session, Subject
<1>6. Adopting'
  BY DEF Adopting, Linking, User, Session, Subject
<1>. QED
  BY <1>1, <1>2, <1>3, <1>4, <1>5, <1>6

LEMMA AdoptKeeps == ASSUME SignInIInv, NEW r \in Request, Adopt(r) PROVE SignInIInv'
<1>. USE SignInAssumption DEF Adopt, Unbound, Upgrade, AnswersAs, Answers, Is, Active, Goes, Sees, SignInIInv, SignInInv, SignInTypeOK
<1>0. /\ at[r] = "adopting" /\ cookie[r] \in Login /\ subjectOf[cookie[r]] \in Subject
      /\ seen[r] \in User /\ seen[r].id \in 1..MaxUsers
      /\ user # None => user \in User
      /\ at' = [at EXCEPT ![r] = "done"]
      /\ UNCHANGED <<backend, open, users, credential, noted, unused, tokens, subjectOf, cookie,
                     changes>>
  BY DEF Adopting, User, Subject
<1>1. SignInTypeOK'
  <2>1. user' \in User \cup {None}
    BY <1>0 DEF User, Subject
  <2>2. sessions' \in [Login -> Session \cup {None}]
    BY <1>0 DEF Session
  <2>3. seen' \in [Login \cup Request -> User \cup {None}]
    BY <1>0
  <2>. QED
    BY <1>0, <2>1, <2>2, <2>3
<1>2. SignInsAgree'
  BY DEF SignInsAgree, Linking, IdsKnown, User, Subject
<1>3. SessionsMatch' /\ SessionHasUserOnPostgres'
  BY DEF SessionsMatch, SessionHasUserOnPostgres, SignInsAgree, Linking, IdsKnown, Is,
     User, Session, Subject, Adopting, BoundForGood
<1>4. IdsKnown' /\ BoundForGood'
  <2>1. \/ user' = user
        \/ /\ user # None /\ user.subject = None
           /\ user' # None /\ user'.id = user.id
    BY <1>0 DEF User
  <2>2. \/ seen' = [seen EXCEPT ![r] = None]
        \/ seen' = [seen EXCEPT ![r] = user] /\ user # None
    BY <1>0
  <2>3. \/ sessions' = [sessions EXCEPT ![cookie[r]] = None]
        \/ sessions' = sessions
        \/ /\ Is(seen[r].id) \/ backend = "sqlite"
           /\ sessions' = [sessions EXCEPT ![cookie[r]] =
                             IF @ = None THEN None ELSE [@ EXCEPT !.user = seen[r].id]]
    BY <1>0
  <2>4. IdsKnown'
    BY <1>0, <2>1, <2>2, <2>3 DEF IdsKnown, Session, User
  <2>5. BoundForGood'
    BY <1>0, <2>1, <2>2 DEF BoundForGood, User
  <2>. QED
    BY <2>4, <2>5
<1>5. Linking'
  BY DEF Linking, User, Session, Subject
<1>6. Adopting'
  BY DEF Adopting, Linking, User, Session, Subject
<1>. QED
  BY <1>1, <1>2, <1>3, <1>4, <1>5, <1>6

LEMMA InviteKeeps == ASSUME SignInIInv, Invite PROVE SignInIInv'
<1>. USE SignInAssumption DEF Invite, Changes, NewUser, traces, SignInIInv, SignInInv, SignInTypeOK
<1>1. SignInTypeOK'
  BY DEF User, Session, Subject
<1>2. SignInsAgree'
  BY DEF SignInsAgree, Linking, IdsKnown, User, Subject
<1>3. SessionsMatch' /\ SessionHasUserOnPostgres'
  BY DEF SessionsMatch, SessionHasUserOnPostgres, SignInsAgree, Linking, IdsKnown, Is,
     User, Session, Subject
<1>4. IdsKnown' /\ BoundForGood'
  BY DEF IdsKnown, BoundForGood, User, Session
<1>5. Linking'
  BY DEF Linking, User, Session, Subject
<1>6. Adopting'
  BY DEF Adopting, Linking, User, Session, Subject
<1>. QED
  BY <1>1, <1>2, <1>3, <1>4, <1>5, <1>6

LEMMA ProvisionKeeps == ASSUME SignInIInv, Provision PROVE SignInIInv'
<1>. USE SignInAssumption DEF Provision, Changes, NewUser, traces, SignInIInv, SignInInv, SignInTypeOK
<1>1. SignInTypeOK'
  BY DEF User, Session, Subject
<1>2. SignInsAgree'
  BY DEF SignInsAgree, Linking, IdsKnown, User, Subject
<1>3. SessionsMatch' /\ SessionHasUserOnPostgres'
  BY DEF SessionsMatch, SessionHasUserOnPostgres, SignInsAgree, Linking, IdsKnown, Is,
     User, Session, Subject
<1>4. IdsKnown' /\ BoundForGood'
  BY DEF IdsKnown, BoundForGood, User, Session
<1>5. Linking'
  BY DEF Linking, User, Session, Subject
<1>6. Adopting'
  BY DEF Adopting, Linking, User, Session, Subject
<1>. QED
  BY <1>1, <1>2, <1>3, <1>4, <1>5, <1>6

LEMMA DisableKeeps == ASSUME SignInIInv, DisableUser PROVE SignInIInv'
<1>. USE SignInAssumption DEF DisableUser, Changes, EndSessions, SessionsEnded, SignInIInv, SignInInv, SignInTypeOK
<1>1. SignInTypeOK'
  BY DEF User, Session, Subject
<1>2. SignInsAgree'
  BY DEF SignInsAgree, Linking, IdsKnown, User, Subject
<1>3. SessionsMatch' /\ SessionHasUserOnPostgres'
  BY DEF SessionsMatch, SessionHasUserOnPostgres, SignInsAgree, Linking, IdsKnown, Is,
     User, Session, Subject
<1>4. IdsKnown' /\ BoundForGood'
  BY DEF IdsKnown, BoundForGood, User, Session
<1>5. Linking'
  BY DEF Linking, User, Session, Subject
<1>6. Adopting'
  BY DEF Adopting, Linking, User, Session, Subject
<1>. QED
  BY <1>1, <1>2, <1>3, <1>4, <1>5, <1>6

LEMMA EnableKeeps == ASSUME SignInIInv, EnableUser PROVE SignInIInv'
<1>. USE SignInAssumption DEF EnableUser, Changes, Restored, traces, SignInIInv, SignInInv, SignInTypeOK
<1>1. SignInTypeOK'
  BY DEF User, Session, Subject
<1>2. SignInsAgree'
  BY DEF SignInsAgree, Linking, IdsKnown, User, Subject
<1>3. SessionsMatch' /\ SessionHasUserOnPostgres'
  BY DEF SessionsMatch, SessionHasUserOnPostgres, SignInsAgree, Linking, IdsKnown, Is,
     User, Session, Subject
<1>4. IdsKnown' /\ BoundForGood'
  BY DEF IdsKnown, BoundForGood, User, Session
<1>5. Linking'
  BY DEF Linking, User, Session, Subject
<1>6. Adopting'
  BY DEF Adopting, Linking, User, Session, Subject
<1>. QED
  BY <1>1, <1>2, <1>3, <1>4, <1>5, <1>6

LEMMA ResetKeeps == ASSUME SignInIInv, Reset PROVE SignInIInv'
<1>. USE SignInAssumption DEF Reset, Changes, EndSignIns, SessionsEnded, SignInIInv, SignInInv, SignInTypeOK
<1>1. SignInTypeOK'
  BY DEF User, Session, Subject
<1>2. SignInsAgree'
  BY DEF SignInsAgree, Linking, IdsKnown, User, Subject
<1>3. SessionsMatch' /\ SessionHasUserOnPostgres'
  BY DEF SessionsMatch, SessionHasUserOnPostgres, SignInsAgree, Linking, IdsKnown, Is,
     User, Session, Subject
<1>4. IdsKnown' /\ BoundForGood'
  BY DEF IdsKnown, BoundForGood, User, Session
<1>5. Linking'
  BY DEF Linking, User, Session, Subject
<1>6. Adopting'
  BY DEF Adopting, Linking, User, Session, Subject
<1>. QED
  BY <1>1, <1>2, <1>3, <1>4, <1>5, <1>6

LEMMA RedeemKeeps == ASSUME SignInIInv, Redeem PROVE SignInIInv'
<1>. USE SignInAssumption DEF Redeem, Changes, EndSignIns, SessionsEnded, traces, SignInIInv, SignInInv, SignInTypeOK
<1>1. SignInTypeOK'
  BY DEF User, Session, Subject
<1>2. SignInsAgree'
  BY DEF SignInsAgree, Linking, IdsKnown, User, Subject
<1>3. SessionsMatch' /\ SessionHasUserOnPostgres'
  BY DEF SessionsMatch, SessionHasUserOnPostgres, SignInsAgree, Linking, IdsKnown, Is,
     User, Session, Subject
<1>4. IdsKnown' /\ BoundForGood'
  BY DEF IdsKnown, BoundForGood, User, Session
<1>5. Linking'
  BY DEF Linking, User, Session, Subject
<1>6. Adopting'
  BY DEF Adopting, Linking, User, Session, Subject
<1>. QED
  BY <1>1, <1>2, <1>3, <1>4, <1>5, <1>6

LEMMA DeleteKeeps == ASSUME SignInIInv, DeleteUser PROVE SignInIInv'
<1>. USE SignInAssumption DEF DeleteUser, Changes, ForgetIdentity, EndSignIns, SessionsEnded, SignInIInv, SignInInv, SignInTypeOK
<1>1. SignInTypeOK'
  <2>1. sessions' \in [Login -> Session \cup {None}]
    OBVIOUS
  <2>2. tokens' \subseteq Login /\ changes' \in 0..MaxChanges
    OBVIOUS
  <2>3. credential' = FALSE /\ noted' = None /\ unused' = {} /\ user' = None
    OBVIOUS
  <2>. QED
    BY <2>1, <2>2, <2>3
<1>2. SignInsAgree'
  BY DEF SignInsAgree, Linking, IdsKnown, User, Subject
<1>3. SessionsMatch' /\ SessionHasUserOnPostgres'
  BY DEF SessionsMatch, SessionHasUserOnPostgres, SignInsAgree, Linking, IdsKnown, Is,
     User, Session, Subject
<1>4. IdsKnown' /\ BoundForGood'
  BY DEF IdsKnown, BoundForGood, User, Session
<1>5. Linking'
  BY DEF Linking, User, Session, Subject
<1>6. Adopting'
  BY DEF Adopting, Linking, User, Session, Subject
<1>. QED
  BY <1>1, <1>2, <1>3, <1>4, <1>5, <1>6

LEMMA SignInNextKeeps == SignInIInv /\ [SignInNext]_signInVars => SignInIInv'
<1>. SUFFICES ASSUME SignInIInv, [SignInNext]_signInVars PROVE SignInIInv'
  OBVIOUS
<1>1. ASSUME NEW l \in Login, SignsIn(l) PROVE SignInIInv'
  BY <1>1, VerifyKeeps, LookupKeeps, BindKeeps, NoteKeeps, ExchangeKeeps, FindKeeps,
     OpenSessionKeeps, LogoutKeeps DEF SignsIn
<1>2. ASSUME NEW r \in Request, Resolves(r) PROVE SignInIInv'
  BY <1>2, ReadSessionKeeps, ReadCandidateKeeps, AdoptKeeps DEF Resolves
<1>3. CASE Administers
  BY <1>3, InviteKeeps, ProvisionKeeps, DisableKeeps, EnableKeeps, ResetKeeps, RedeemKeeps,
     DeleteKeeps DEF Administers
<1>4. CASE UNCHANGED signInVars
  BY <1>4
     DEF signInVars, SignInIInv, SignInInv, SignInTypeOK, SignInsAgree, SessionsMatch,
     SessionHasUserOnPostgres,
              IdsKnown, BoundForGood, Linking, Adopting, Is
<1>. QED
  BY <1>1, <1>2, <1>3, <1>4 DEF SignInNext

LEMMA SignInIInvHolds == SignInSpec => []SignInIInv
<1>1. SignInInit => SignInIInv
  BY SignInInitIInv
<1>2. SignInIInv /\ [SignInNext]_signInVars => SignInIInv'
  BY SignInNextKeeps
<1>. QED
  BY <1>1, <1>2, PTL DEF SignInSpec

\* Whoever signs in, is adopted or administered meanwhile, in whatever order: the
\* sign-ins linked to the user with the email and the sessions that are its have
\* the one subject it is bound to (resolveAuthSuccess, resolveSessionAny), and on
\* PostgreSQL no session is left of a user that is gone.
THEOREM SubjectsAgree == SignInSpec => []SignInInv
<1>1. SignInIInv => SignInInv
  BY DEF SignInIInv
<1>. QED
  BY <1>1, SignInIInvHolds, PTL

-----------------------------------------------------------------------------
(* What has been ended stays ended.                                        *)

LEMMA OnlyAdministratorsEnable == ASSUME SignInIInv, [SignInNext]_signInVars PROVE DisabledStaysOut
<1>. SUFFICES ASSUME user # None, user.status = "disabled", user' # None, user'.id = user.id
              PROVE  user'.status = "disabled" \/ changes' = changes + 1
  BY DEF DisabledStaysOut
<1>1. ASSUME NEW l \in Login, SignsIn(l) PROVE user' = user
  <2>1. ASSUME Lookup(l) PROVE user' = user
    BY <2>1 DEF Lookup
  <2>2. ASSUME Bind(l) PROVE user' = user
    BY <2>2 DEF Bind, MayBind
  <2>. QED
    BY <1>1, <2>1, <2>2 DEF SignsIn, Verify, Note, Exchange, Find, OpenSession, Logout
<1>2. ASSUME NEW r \in Request, Resolves(r) PROVE user'.status = user.status
  BY <1>2
     DEF Resolves, ReadSession, ReadCandidate, Adopt, SignInIInv, SignInInv, SignInTypeOK,
     User
<1>3. ASSUME Administers PROVE changes' = changes + 1
  BY <1>3
     DEF Administers, Invite, Provision, DisableUser, EnableUser, Reset, Redeem,
     DeleteUser, Changes
<1>. QED
  BY <1>1, <1>2, <1>3 DEF SignInNext, signInVars

\* A reset and a deletion find the token of every session they end: the session has
\* the subject its user is bound to, and so has the token.
LEMMA EndedWithTheirTokens ==
  ASSUME SignInIInv, EndSignIns, NEW l \in Login, user # None,
         sessions[l] # None, sessions[l].user > 0, sessions'[l] = None
  PROVE  l \notin tokens'
<1>1. sessions[l].user = user.id
  BY DEF EndSignIns, SessionsEnded
<1>2. user.subject = subjectOf[l] /\ subjectOf[l] # None
  BY <1>1 DEF SignInIInv, SignInInv, SessionsMatch, Linking
<1>3. l \in tokens => l \in OfItsSubject
  BY <1>2 DEF OfItsSubject
<1>. QED
  BY <1>3 DEF EndSignIns

LEMMA TokensEndWithTheirSessions == ASSUME SignInIInv, [SignInNext]_signInVars PROVE TokensGoWithSessions
<1>. SUFFICES ASSUME NEW l \in Login, sessions[l] # None, sessions[l].user > 0, sessions'[l] = None,
                     changes' = changes + 1 \/ at'[l] # at[l]
              PROVE  l \notin tokens' \/ KeepsTokens
  BY DEF TokensGoWithSessions
<1>1. ASSUME NEW k \in Login, SignsIn(k) PROVE l \notin tokens'
  <2>1. changes' = changes /\ at' = [at EXCEPT ![k] = at'[k]]
    BY <1>1
       DEF SignsIn, Verify, Lookup, Bind, Note, Exchange, Find, OpenSession, Logout, Linked,
       Refused, Unprovisioned, Goes, SignInIInv, SignInInv, SignInTypeOK
  <2>2. k = l
    BY <2>1 DEF SignInIInv, SignInInv, SignInTypeOK
  <2>3. at[l] = "in"
    BY DEF SignInIInv, Linking
  <2>4. Logout(l)
    BY <1>1, <2>2, <2>3 DEF SignsIn, Verify, Lookup, Bind, Note, Exchange, Find, OpenSession
  <2>. QED
    BY <2>4 DEF Logout
<1>2. ASSUME NEW r \in Request, Resolves(r) PROVE FALSE
  BY <1>2, SignInAssumption
     DEF Resolves, ReadSession, ReadCandidate, Adopt, Upgrade, AnswersAs,
     Answers, Goes, traces, SignInIInv, SignInInv, SignInTypeOK
<1>3. CASE DisableUser
  <2>1. CASE backend = "sqlite"
    BY <1>3, <2>1 DEF DisableUser, EndSessions, SessionsEnded, OfItsSessions
  <2>2. CASE backend = "postgres"
    <3>1. user \in User /\ user' = [user EXCEPT !.status = "disabled"]
      BY <1>3 DEF DisableUser, SignInIInv, SignInInv, SignInTypeOK
    <3>2. user' \in User /\ user'.status = "disabled"
      BY <3>1 DEF User
    <3>. QED
      BY <2>2, <3>2, SignInAssumption DEF KeepsTokens
  <2>. QED
    BY <2>1, <2>2 DEF SignInIInv, SignInInv, SignInTypeOK
<1>4. CASE EndSignIns /\ user # None
  BY <1>4, EndedWithTheirTokens
<1>5. CASE UNCHANGED traces
  BY <1>5 DEF traces
<1>6. ASSUME Administers PROVE DisableUser \/ (EndSignIns /\ user # None) \/ UNCHANGED traces
  BY <1>6 DEF Administers, Invite, Provision, NewUser, EnableUser, Reset, Redeem, DeleteUser
<1>. QED
  BY <1>1, <1>2, <1>3, <1>4, <1>5, <1>6 DEF SignInNext, signInVars, traces

\* No sign-in or adoption that read the user before it was disabled makes it active,
\* and a session that a logout, a disabling, a reset or a deletion ends takes its
\* refresh token along (destroySession, deleteSessions, endSessions), disabling on
\* PostgreSQL apart.
THEOREM WhatEndsStaysEnded == SignInSpec => EndedStaysEnded
<1>1. SignInIInv /\ [SignInNext]_signInVars => [DisabledStaysOut /\ TokensGoWithSessions]_signInVars
  BY OnlyAdministratorsEnable, TokensEndWithTheirSessions
<1>. QED
  BY <1>1, SignInIInvHolds, PTL DEF SignInSpec, EndedStaysEnded
=============================================================================
