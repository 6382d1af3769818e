------------------------ MODULE RepeatedImport_proofs ------------------------
(***************************************************************************)
(* The theorem about DataTransfer that two imports of one CSV make its     *)
(* records once: NothingTwice, for every set of CSVs, jobs, workspaces and *)
(* texts, on both stores.  It rests on the invariants of                   *)
(* DataTransfer_proofs.                                                    *)
(*                                                                         *)
(* It is about the end of the later of the two.  Row by row that one       *)
(* plans, and lands on, the records that the earlier landed on (Echo):     *)
(* what the earlier wrote is as it wrote it (Firm), somebody it made works *)
(* for one company at most (OneEmployer), and nobody from before works for *)
(* a company it made (LinkOrder).  A later one that began before the       *)
(* earlier ended can only have its tag, when it has that (TagKnown,        *)
(* TagMade); with a tag deleted meanwhile it has made no lead, and who     *)
(* made no lead made nothing (Yielding), since no lead refers to what      *)
(* another has not committed (Reach).                                      *)
(***************************************************************************)
EXTENDS DataTransfer_proofs

-----------------------------------------------------------------------------
(* What a step leaves of the rows of other jobs.                           *)

\* Rows stay whose they are, and those that join are job k's.
GoesOn(t, u, k) ==
  /\ DOMAIN t \subseteq DOMAIN u
  /\ \A n \in DOMAIN t : u[n] # None => t[n] # None /\ u[n].by = t[n].by
  /\ \A n \in DOMAIN u \ DOMAIN t : u[n].by = k

LEMMA AddedOrStays ==
  ASSUME NEW k, NEW R, NEW t \in TableOf(R), NEW u,
         Stays(t, u) \/ \E row : u = Append(t, row) /\ row.by = k
  PROVE  GoesOn(t, u, k)
<1>1. CASE Stays(t, u)
  BY <1>1 DEF Stays, GoesOn
<1>2. ASSUME NEW row, u = Append(t, row), row.by = k
      PROVE  GoesOn(t, u, k)
  BY <1>2, AppendAny DEF GoesOn
<1>. QED
  BY <1>1, <1>2

LEMMA TablesGoOn ==
  ASSUME Core, NEW k \in mix, Step(k)
  PROVE  /\ GoesOn(company, company', k) /\ GoesOn(person, person', k)
         /\ GoesOn(lead, lead', k) /\ GoesOn(tag, tag', k)
<1>1. /\ company \in TableOf(CompanyRow) /\ person \in TableOf(PersonRow)
      /\ lead \in TableOf(LeadRow) /\ tag \in TableOf(TagRow)
  BY DEF Core, Types, TypeOK
<1>2. Stays(company, company') \/ \E row : company' = Append(company, row) /\ row.by = k
  <2>1. Stays(company, company') \/ company' = Append(company, NewCompany(k, RowNow(k)))
    BY StepAdds
  <2>2. NewCompany(k, RowNow(k)).by = k
    BY DEF NewCompany
  <2>. QED
    BY <2>1, <2>2
<1>3. Stays(person, person') \/ \E row : person' = Append(person, row) /\ row.by = k
  <2>1. Stays(person, person') \/ person' = Append(person, NewPerson(k, Len(landed[k])))
    BY StepAdds
  <2>2. NewPerson(k, Len(landed[k])).by = k
    BY DEF NewPerson
  <2>. QED
    BY <2>1, <2>2
<1>4. Stays(lead, lead') \/ \E row : lead' = Append(lead, row) /\ row.by = k
  <2>1. Stays(lead, lead') \/ lead' = Append(lead, NewLead(k, Len(landed[k])))
    BY StepAdds
  <2>2. NewLead(k, Len(landed[k])).by = k
    BY DEF NewLead
  <2>. QED
    BY <2>1, <2>2
<1>5. Stays(tag, tag') \/ \E row : tag' = Append(tag, row) /\ row.by = k
  <2>. DEFINE row == [name |-> reqOf[k].label, by |-> k]
  <2>1. Stays(tag, tag') \/ tag' = Append(tag, row)
    BY StepAdds DEF Holds
  <2>2. row.by = k
    OBVIOUS
  <2>. HIDE DEF row
  <2>. QED
    BY <2>1, <2>2
<1>. QED
  BY <1>1, <1>2, <1>3, <1>4, <1>5, AddedOrStays

\* Only the job that takes the step opens or closes its transaction; one that
\* opens has no rows yet.
LEMMA OpenAfter ==
  ASSUME Core, Authors, NEW k \in mix, Step(k)
  PROVE  /\ Open' \ {k} = Open \ {k} /\ k \in Job /\ mix' = mix
         /\ k \in Open' \ Open =>
              ~MadeIn(company, k) /\ ~MadeIn(person, k) /\ ~MadeIn(lead, k) /\ ~MadeIn(tag, k)
<1>1. Frame(k) /\ k \in Job /\ mix \subseteq Job /\ pc \in [Job -> Where]
  BY StepFrame DEF Core, Types
<1>2. Open' \ {k} = Open \ {k}
  BY <1>1 DEF Frame, Open
<1>3. ASSUME k \in Open' \ Open
      PROVE  ~MadeIn(company, k) /\ ~MadeIn(person, k) /\ ~MadeIn(lead, k) /\ ~MadeIn(tag, k)
  <2>1. pc[k] \notin Working \cup {"ok"}
    BY <1>1, <1>3 DEF Frame, Open
  <2>2. k # None
    BY <1>1, TransferAssumption
  <2>. QED
    BY <1>1, <2>1, <2>2 DEF Core, Tables, OwnedIn, OwnerIn, MadeIn
<1>. QED
  BY <1>1, <1>2, <1>3 DEF Frame

\* Nobody touches the leads of an open transaction.
LEMMA OpenLeadsStay ==
  ASSUME Core, NEW k \in mix, Step(k), NEW b \in Open \ {k}, MadeBy(b, lead)
  PROVE  MadeBy(b, lead')
<1>. PICK n \in DOMAIN lead : lead[n] # None /\ lead[n].by = b
  BY DEF MadeBy
<1>1. k \in Job /\ lead \in TableOf(LeadRow)
  BY DEF Core, Types, TypeOK
<1>2. CASE lead' = Undo(k, lead)
  BY <1>1, <1>2, UndoFacts DEF MadeBy, Stays
<1>3. CASE \E row : lead' = Append(lead, row)
  BY <1>1, <1>3, AppendAny DEF MadeBy
<1>4. CASE EditRecord(k) /\ ~Fail(k)
  <2>. DEFINE req == reqOf[k]
  <2>1. req.id \in Ids(k, Target(req))
    BY <1>4 DEF EditRecord
  <2>2. /\ lead' = CASE req.op = "company.delete" -> Cleared(req)
                     [] req.op = "engagement.update" -> [lead EXCEPT ![req.id].source = req.to]
                     [] req.op = "engagement.archive" -> [lead EXCEPT ![req.id].archived = TRUE]
                     [] req.op = "engagement.restore" -> [lead EXCEPT ![req.id].archived = FALSE]
                     [] req.op = "engagement.delete" -> [lead EXCEPT ![req.id] = None]
                     [] OTHER -> lead
    BY <1>4 DEF EditRecord
  <2>3. lead[n] \in LeadRow
    BY <1>1, TableFacts
  <2>4. CASE req.op = "company.delete"
    <3>1. DOMAIN lead' = DOMAIN lead /\ lead'[n] \in {lead[n], [lead[n] EXCEPT !.company = None]}
      BY <2>2, <2>4 DEF Cleared
    <3>2. [lead[n] EXCEPT !.company = None].by = b /\ [lead[n] EXCEPT !.company = None] \in LeadRow
      BY <2>3 DEF LeadRow
    <3>. QED
      BY <3>1, <3>2, NoneAssumption DEF MadeBy
  <2>5. CASE req.op \in {"engagement.update", "engagement.archive", "engagement.restore"}
    <3>1. /\ DOMAIN lead' = DOMAIN lead
          /\ lead'[n] \in {lead[n], [lead[n] EXCEPT !.source = req.to],
                           [lead[n] EXCEPT !.archived = TRUE], [lead[n] EXCEPT !.archived = FALSE]}
      BY <2>2, <2>5
    <3>2. req.op = "engagement.update" => req.to \in Text \cup {None}
      BY <1>1, CallFacts
    <3>3. lead'[n] \in LeadRow /\ lead'[n].by = b
      <4>1. CASE req.op = "engagement.update"
        <5>1. lead'[n] \in {lead[n], [lead[n] EXCEPT !.source = req.to]}
          BY <2>2, <4>1
        <5>. QED
          BY <2>3, <3>2, <4>1, <5>1 DEF LeadRow
      <4>2. CASE req.op \in {"engagement.archive", "engagement.restore"}
        <5>1. lead'[n] \in {lead[n], [lead[n] EXCEPT !.archived = TRUE],
                            [lead[n] EXCEPT !.archived = FALSE]}
          BY <2>2, <4>2
        <5>. QED
          BY <2>3, <5>1 DEF LeadRow
      <4>. QED
        BY <2>5, <4>1, <4>2
    <3>. QED
      BY <3>1, <3>3, NoneAssumption DEF MadeBy
  <2>6. CASE req.op = "engagement.delete"
    <3>1. req.id \in Ids(k, lead) /\ lead' = [lead EXCEPT ![req.id] = None]
      BY <2>1, <2>2, <2>6 DEF Target
    <3>2. n # req.id
      BY <3>1 DEF Ids, Sees
    <3>. QED
      BY <3>1, <3>2 DEF MadeBy
  <2>7. CASE req.op \notin {"company.delete", "engagement.update", "engagement.archive",
                            "engagement.restore", "engagement.delete"}
    BY <2>2, <2>7 DEF MadeBy
  <2>. QED
    BY <2>4, <2>5, <2>6, <2>7
<1>5. CASE lead' = lead
  BY <1>5 DEF MadeBy
<1>6. CASE reqOf[k].op \in Edit
  <2>1. Fail(k) => lead' = Undo(k, lead)
    BY DEF Fail
  <2>2. Unlink(k) => lead' = lead
    BY DEF Unlink
  <2>3. UNCHANGED tables => lead' = lead
    BY DEF tables
  <2>. QED
    BY <1>2, <1>4, <1>5, <1>6, <2>1, <2>2, <2>3, EditSteps
<1>7. CASE reqOf[k].op \notin Edit
  <2>1. Moves(lead, lead', k)
    BY <1>7, StepMoves
  <2>. QED
    BY <1>2, <1>3, <1>5, <2>1 DEF Moves
<1>. QED
  BY <1>6, <1>7

\* A link is made with its person.
LEMMA LinksGoOn ==
  ASSUME Core, NEW k \in mix, Step(k)
  PROVE  \/ link' \subseteq link
         \/ pc[k] = "landing" /\ link' = link \cup LinkMade(k, Len(person) + 1)
<1>1. CASE reqOf[k].op \in Edit
  <2>1. Fail(k) \/ Unlink(k) \/ UNCHANGED tables => link' \subseteq link
    BY DEF Fail, Unlink, tables
  <2>2. EditRecord(k) /\ ~Fail(k) => link' \subseteq link
    BY EditTables
  <2>. QED
    BY <1>1, <2>1, <2>2, EditSteps
<1>2. CASE reqOf[k].op \notin Edit
  <2>1. \/ link' = link
        \/ link' = {l \in link : l.by # k}
        \/ pc[k] = "landing" /\ link' = link \cup LinkMade(k, Len(person) + 1)
    BY <1>2, StepMoves
  <2>. QED
    BY <2>1
<1>. QED
  BY <1>1, <1>2

\* Somebody an import made works for one company at most.
OneEmployer ==
  \A l, m \in link : l.person = m.person /\ l.by # None => l.company = m.company

LEMMA OneEmployerInit == Init => OneEmployer
<1>. SUFFICES ASSUME Init PROVE OneEmployer
  OBVIOUS
<1>1. PICK w \in Workspaces : link = w.link
  BY DEF Init
<1>2. \A l \in link : l.by = None
  BY <1>1, WorkspaceAssumption
<1>. QED
  BY <1>2 DEF OneEmployer

LEMMA OneEmployerStep ==
  ASSUME Core, OneEmployer, NEW k \in mix, Step(k)
  PROVE  OneEmployer'
<1>1. CASE link' \subseteq link
  BY <1>1 DEF OneEmployer
<1>2. CASE link' = link \cup LinkMade(k, Len(person) + 1)
  <2>1. \A l \in link : l.person # Len(person) + 1
    <3>1. person \in TableOf(PersonRow)
      BY DEF Core, Types, TypeOK
    <3>2. Len(person) + 1 \notin DOMAIN person
      BY <3>1, AppendAny
    <3>. QED
      BY <3>2 DEF Core, Tables, LinksKnown
  <2>2. \A l, m \in LinkMade(k, Len(person) + 1) : l = m /\ l.person = Len(person) + 1
    BY DEF LinkMade
  <2>. QED
    BY <1>2, <2>1, <2>2 DEF OneEmployer
<1>. QED
  BY <1>1, <1>2, LinksGoOn

-----------------------------------------------------------------------------
(* What is written of a row.                                               *)

\* The record ids of a row are set one by one.
LEMMA LandedSteps ==
  ASSUME Core, NEW k \in mix, Step(k)
  PROVE  \/ WriteCompany(k) \/ WritePerson(k)
         \/ FindLead(k) \/ (WriteLead(k) /\ ~Fail(k))
         \/ landed' = landed
<1>1. Fail(k) \/ Commit(k) \/ EditRecord(k) \/ Unlink(k) => landed' = landed
  BY DEF Fail, Commit, EditRecord, Unlink, locals
<1>2. Preview(k) \/ Begin(k) \/ FindTag(k) \/ CreateTag(k) => landed' = landed
  BY <1>1 DEF Preview, Begin, FindTag, CreateTag, locals
<1>3. PlanCompany(k) \/ PlanPerson(k) \/ PlanNothing(k) => landed' = landed
  BY <1>1 DEF PlanCompany, PlanPerson, PlanNothing
<1>4. CountPage(k) \/ ReadPage(k) => landed' = landed
  BY DEF CountPage, ReadPage
<1>. QED
  BY <1>1, <1>2, <1>3, <1>4 DEF Step, Refuse, LinkRefused, DeadlockAbort

LEMMA CompanyWritten ==
  ASSUME Core, NEW j \in mix, WriteCompany(j), NEW n, n = RowNow(j),
         NEW ref, ref = plan[j][n].company
  PROVE  /\ n \in Nat /\ n \in 1..n /\ Len(landed[j]) = n - 1 /\ n \in 1..Len(plan[j])
         /\ n \in 1..Len(Rows(j)) /\ Len(plan[j]) = Len(Rows(j)) /\ reqOf[j].op = "import.run"
         /\ j \in Job /\ pc[j] = "writing" /\ pc'[j] = "landing" /\ plan' = plan /\ ref \in Ref
         /\ person' = person /\ lead' = lead /\ link' = link /\ log' = log /\ tag' = tag
         /\ Len(landed'[j]) = n /\ \A m \in 1..n - 1 : landed'[j][m] = landed[j][m]
         /\ landed'[j][n].person = None
         /\ LET id == landed'[j][n].company
            IN \/ ref.kind = "none" /\ id = None /\ company' = company
               \/ ref.kind = "existing" /\ id = ref.of /\ company' = company
               \/ /\ ref.kind = "new" /\ ref.of \in 1..n - 1 /\ id # None
                  /\ id = landed[j][ref.of].company /\ company' = company
               \/ /\ ref.kind = "new" /\ (ref.of \in 1..n - 1 => landed[j][ref.of].company = None)
                  /\ id = Len(company) + 1 /\ company' = Append(company, NewCompany(j, n))
<1>1. /\ j \in Job /\ pc[j] = "writing" /\ pc \in [Job -> Where] /\ plan' = plan
      /\ pc'[j] = "landing"
      /\ landed[j] \in Seq(LandedRow) /\ landed \in [Job -> Seq(LandedRow)]
      /\ plan[j] \in Seq(PlanRow) /\ company \in TableOf(CompanyRow)
      /\ person' = person /\ lead' = lead /\ link' = link /\ log' = log /\ tag' = tag
  BY DEF Core, Types, TypeOK, WriteCompany, Goto, history
<1>2. /\ n \in 1..Len(Rows(j)) /\ Len(Rows(j)) \in Nat /\ Len(plan[j]) = Len(Rows(j))
      /\ Len(landed[j]) = n - 1 /\ n \in Nat /\ n \in 1..n /\ n \in 1..Len(plan[j])
      /\ DOMAIN landed[j] = 1..n - 1 /\ reqOf[j].op = "import.run"
  <2>1. pc[j] \in Writing
    BY <1>1 DEF Writing
  <2>2. /\ n = Len(landed[j]) + 1 /\ n \in 1..Len(Rows(j)) /\ Len(plan[j]) = Len(Rows(j))
        /\ Len(Rows(j)) \in Nat /\ Len(landed[j]) \in Nat /\ reqOf[j].op = "import.run"
    BY <1>1, <2>1, RowAt
  <2>3. DOMAIN landed[j] = 1..Len(landed[j])
    BY <1>1, LenProperties
  <2>. QED
    BY <2>2, <2>3
<1>3. ref \in Ref /\ ref.kind \in {"none", "existing", "new"} /\ ref.of \in Nat
  <2>1. plan[j][n] \in PlanRow
    BY <1>1, <1>2, ElementOfSeq
  <2>. QED
    BY <2>1 DEF PlanRow, Ref
<1>4. PICK id :
        /\ landed'[j] = Append(landed[j], [company |-> id, person |-> None, lead |-> None])
        /\ \/ ref.kind = "none" /\ id = None /\ company' = company
           \/ ref.kind = "existing" /\ id = ref.of /\ company' = company
           \/ /\ ref.kind = "new" /\ ref.of \in 1..n - 1 /\ id # None
              /\ id = landed[j][ref.of].company /\ company' = company
           \/ /\ ref.kind = "new" /\ (ref.of \in 1..n - 1 => landed[j][ref.of].company = None)
              /\ id = Len(company) + 1 /\ company' = Append(company, NewCompany(j, n))
  BY <1>1, <1>2, <1>3, Zenon DEF WriteCompany, Land, Made
<1>5. id \in Nat \cup {None}
  <2>1. ASSUME NEW i \in 1..n - 1
        PROVE  landed[j][i].company \in Nat \cup {None}
    <3>1. landed[j][i] \in LandedRow
      BY <1>1, <1>2, ElementOfSeq
    <3>. QED
      BY <3>1 DEF LandedRow
  <2>2. Len(company) + 1 \in Nat
    BY <1>1, TableFacts
  <2>. QED
    BY <1>3, <1>4, <2>1, <2>2
<1>6. /\ Len(landed'[j]) = n
      /\ \A m \in 1..n - 1 : landed'[j][m] = landed[j][m]
      /\ landed'[j][n] = [company |-> id, person |-> None, lead |-> None]
  <2>1. [company |-> id, person |-> None, lead |-> None] \in LandedRow
    BY <1>5 DEF LandedRow
  <2>. QED
    BY <1>1, <1>2, <1>4, <2>1, AppendProperties
<1>7. landed'[j][n].company = id /\ landed'[j][n].person = None
  BY <1>6
<1>. QED
  BY <1>1, <1>2, <1>3, <1>4, <1>6, <1>7

LEMMA PersonWritten ==
  ASSUME Core, NEW j \in mix, WritePerson(j), NEW n, n = Len(landed[j]),
         NEW ref, ref = plan[j][n].person
  PROVE  /\ n \in Nat /\ n \in 1..n /\ Len(landed[j]) = n /\ n \in 1..Len(plan[j])
         /\ n \in 1..Len(Rows(j)) /\ Len(plan[j]) = Len(Rows(j)) /\ reqOf[j].op = "import.run"
         /\ j \in Job /\ pc[j] = "landing" /\ pc'[j] = "finding" /\ plan' = plan /\ ref \in Ref
         /\ company' = company /\ lead' = lead /\ log' = log /\ tag' = tag
         /\ Len(landed'[j]) = n /\ \A m \in 1..n - 1 : landed'[j][m] = landed[j][m]
         /\ landed'[j][n].company = landed[j][n].company
         /\ LET id == landed'[j][n].person
            IN \/ ref.kind = "none" /\ id = landed[j][n].person /\ person' = person
               \/ ref.kind = "existing" /\ id = ref.of /\ person' = person
               \/ /\ ref.kind = "new" /\ ref.of \in 1..n /\ id # None
                  /\ id = landed[j][ref.of].person /\ person' = person
               \/ /\ ref.kind = "new" /\ (ref.of \in 1..n => landed[j][ref.of].person = None)
                  /\ id = Len(person) + 1 /\ person' = Append(person, NewPerson(j, n))
                  /\ link' = link \cup LinkMade(j, id)
<1>1. /\ j \in Job /\ pc[j] = "landing" /\ pc \in [Job -> Where] /\ plan' = plan
      /\ pc[j] \in {"landing", "finding", "leading"} /\ pc[j] \in Writing
      /\ pc'[j] = "finding"
      /\ landed[j] \in Seq(LandedRow) /\ landed \in [Job -> Seq(LandedRow)]
      /\ plan[j] \in Seq(PlanRow) /\ person \in TableOf(PersonRow)
      /\ company' = company /\ lead' = lead /\ log' = log /\ tag' = tag
  BY DEF Core, Types, TypeOK, WritePerson, Writing, Goto, tables, history
<1>2. /\ n \in 1..Len(Rows(j)) /\ Len(Rows(j)) \in Nat /\ Len(plan[j]) = Len(Rows(j))
      /\ n \in Nat /\ n \in 1..n /\ n \in 1..Len(plan[j]) /\ n \in 1..Len(landed[j])
      /\ DOMAIN landed[j] = 1..n /\ reqOf[j].op = "import.run"
  <2>1. DOMAIN landed[j] = 1..Len(landed[j])
    BY <1>1, LenProperties
  <2>. QED
    BY <1>1, <2>1, RowAt
<1>3. PICK now : now = landed[j][n]
  OBVIOUS
<1>4. ref \in Ref /\ ref.kind \in {"none", "existing", "new"} /\ ref.of \in Nat /\ now \in LandedRow
  <2>1. plan[j][n] \in PlanRow /\ landed[j][n] \in LandedRow
    BY <1>1, <1>2, ElementOfSeq
  <2>. QED
    BY <1>3, <2>1 DEF PlanRow, Ref
<1>5. PICK id :
        /\ landed' = [landed EXCEPT ![j][n].person = id]
        /\ \/ ref.kind = "none" /\ id = now.person /\ person' = person
           \/ ref.kind = "existing" /\ id = ref.of /\ person' = person
           \/ /\ ref.kind = "new" /\ ref.of \in 1..n /\ id # None
              /\ id = landed[j][ref.of].person /\ person' = person
           \/ /\ ref.kind = "new" /\ (ref.of \in 1..n => landed[j][ref.of].person = None)
              /\ id = Len(person) + 1 /\ person' = Append(person, NewPerson(j, n))
              /\ link' = link \cup LinkMade(j, id)
  <2>1. CASE ref.kind = "none"
    <3>1. landed' = landed /\ person' = person
      BY <2>1 DEF WritePerson, tables
    <3>2. landed = [landed EXCEPT ![j][n].person = now.person]
      BY <1>1, <1>2, <1>3, <1>4 DEF LandedRow
    <3>. QED
      BY <2>1, <3>1, <3>2
  <2>2. CASE ref.kind = "existing"
    BY <2>2 DEF WritePerson, tables
  <2>3. CASE ref.kind = "new"
    BY <1>2, <2>3 DEF WritePerson, Made, tables
  <2>. QED
    BY <1>4, <2>1, <2>2, <2>3
<1>6. id \in Nat \cup {None}
  <2>1. ASSUME NEW i \in 1..n
        PROVE  landed[j][i].person \in Nat \cup {None}
    <3>1. landed[j][i] \in LandedRow
      BY <1>1, <1>2, ElementOfSeq
    <3>. QED
      BY <3>1 DEF LandedRow
  <2>2. Len(person) + 1 \in Nat
    BY <1>1, TableFacts
  <2>. QED
    BY <1>2, <1>3, <1>4, <1>5, <2>1, <2>2
<1>7. PICK row : /\ row \in LandedRow /\ row.company = now.company /\ row.person = id
                 /\ landed'[j] = [landed[j] EXCEPT ![n] = row]
  <2>. DEFINE row == [now EXCEPT !.person = id]
  <2>1. /\ row \in LandedRow /\ row.company = now.company /\ row.person = id
        /\ landed'[j] = [landed[j] EXCEPT ![n] = row]
    BY <1>1, <1>2, <1>3, <1>4, <1>5, <1>6 DEF LandedRow
  <2>. QED
    BY <2>1
<1>8. /\ Len(landed'[j]) = n /\ landed'[j][n] = row
      /\ \A m \in 1..n - 1 : landed'[j][m] = landed[j][m]
  BY <1>1, <1>2, <1>7, LastChanged
<1>9. landed'[j][n].company = landed[j][n].company /\ landed'[j][n].person = id
  BY <1>3, <1>7, <1>8
<1>10. \/ ref.kind = "none" /\ id = landed[j][n].person /\ person' = person
       \/ ref.kind = "existing" /\ id = ref.of /\ person' = person
       \/ /\ ref.kind = "new" /\ ref.of \in 1..n /\ id # None
          /\ id = landed[j][ref.of].person /\ person' = person
       \/ /\ ref.kind = "new" /\ (ref.of \in 1..n => landed[j][ref.of].person = None)
          /\ id = Len(person) + 1 /\ person' = Append(person, NewPerson(j, n))
          /\ link' = link \cup LinkMade(j, id)
  BY <1>3, <1>5
<1>. QED
  BY <1>1, <1>2, <1>4, <1>6, <1>8, <1>9, <1>10

LEMMA LeadWritten ==
  ASSUME Core, NEW j \in mix, FindLead(j) \/ (WriteLead(j) /\ ~Fail(j)),
         NEW n, n = Len(landed[j])
  PROVE  /\ n \in Nat /\ n \in 1..n /\ n \in 1..Len(plan[j]) /\ n \in 1..Len(Rows(j))
         /\ Len(plan[j]) = Len(Rows(j)) /\ reqOf[j].op = "import.run" /\ j \in Job /\ plan' = plan
         /\ pc[j] \in {"finding", "leading"} /\ pc'[j] # "landing"
         /\ company' = company /\ person' = person /\ link' = link /\ log' = log /\ tag' = tag
         /\ Len(landed'[j]) = n /\ \A m \in 1..n - 1 : landed'[j][m] = landed[j][m]
         /\ landed'[j][n].company = landed[j][n].company
         /\ landed'[j][n].person = landed[j][n].person
         /\ \/ /\ FindLead(j) /\ lead' = lead
               /\ \/ /\ FindLeads(j, reqOf[j].csv, Row(j, n), landed[j][n]) = {}
                     /\ landed' = landed /\ pc'[j] = "leading"
                  \/ /\ pc'[j] = AfterRow(j)
                     /\ landed'[j][n].lead \in FindLeads(j, reqOf[j].csv, Row(j, n), landed[j][n])
            \/ /\ WriteLead(j) /\ pc[j] = "leading" /\ pc'[j] = AfterRow(j)
               /\ landed'[j][n].lead = Len(lead) + 1 /\ lead' = Append(lead, NewLead(j, n))
               /\ KeysHold(j, tag, tagOf[j])
<1>1. /\ j \in Job /\ pc[j] \in {"finding", "leading"} /\ pc \in [Job -> Where] /\ plan' = plan
      /\ pc[j] \in {"landing", "finding", "leading"} /\ pc[j] \in Writing
      /\ landed[j] \in Seq(LandedRow) /\ landed \in [Job -> Seq(LandedRow)]
      /\ lead \in TableOf(LeadRow)
      /\ company' = company /\ person' = person /\ link' = link /\ log' = log /\ tag' = tag
      /\ pc'[j] \in {"leading", AfterRow(j)}
  BY DEF Core, Types, TypeOK, FindLead, WriteLead, Writing, Goes, Goto, tables, history
<1>2. /\ n \in Nat /\ n \in 1..n /\ n \in 1..Len(landed[j]) /\ n \in 1..Len(Rows(j))
      /\ n \in 1..Len(plan[j]) /\ Len(plan[j]) = Len(Rows(j)) /\ reqOf[j].op = "import.run"
  BY <1>1, RowAt
<1>3. PICK now : now = landed[j][n]
  OBVIOUS
<1>4. now \in LandedRow
  BY <1>1, <1>2, <1>3, ElementOfSeq
<1>5. PICK id : /\ landed' = [landed EXCEPT ![j][n].lead = id]
                /\ \/ /\ FindLead(j) /\ lead' = lead
                      /\ \/ /\ FindLeads(j, reqOf[j].csv, Row(j, n), now) = {}
                            /\ landed' = landed /\ pc'[j] = "leading" /\ id = now.lead
                         \/ /\ pc'[j] = AfterRow(j)
                            /\ id \in FindLeads(j, reqOf[j].csv, Row(j, n), now)
                   \/ /\ WriteLead(j) /\ pc[j] = "leading" /\ pc'[j] = AfterRow(j)
                      /\ id = Len(lead) + 1 /\ lead' = Append(lead, NewLead(j, n))
                      /\ KeysHold(j, tag, tagOf[j])
  <2>. DEFINE found == FindLeads(j, reqOf[j].csv, Row(j, n), now)
  <2>1. CASE FindLead(j) /\ found = {}
    <3>1. landed' = landed /\ pc'[j] = "leading" /\ lead' = lead
      BY <1>1, <1>3, <2>1 DEF FindLead, Goes, Goto, tables
    <3>2. landed = [landed EXCEPT ![j][n].lead = now.lead]
      BY <1>1, <1>2, <1>3, <1>4 DEF LandedRow
    <3>. QED
      BY <2>1, <3>1, <3>2
  <2>2. CASE FindLead(j) /\ found # {}
    <3>1. PICK id \in Oldest(lead, found) :
            landed' = [landed EXCEPT ![j][n].lead = id] /\ pc'[j] = AfterRow(j) /\ lead' = lead
      BY <1>1, <1>3, <2>2 DEF FindLead, Goes, Goto, tables
    <3>2. id \in found
      BY <3>1, OldestIn
    <3>. QED
      BY <2>2, <3>1, <3>2
  <2>3. CASE WriteLead(j) /\ ~Fail(j)
    BY <1>1, <2>3 DEF WriteLead, Goto
  <2>. QED
    BY <2>1, <2>2, <2>3
<1>6. id \in Nat \cup {None}
  <2>1. Len(lead) + 1 \in Nat /\ DOMAIN lead \subseteq Nat
    BY <1>1, TableFacts
  <2>2. \A i \in FindLeads(j, reqOf[j].csv, Row(j, n), now) : i \in DOMAIN lead
    BY DEF FindLeads, Ids
  <2>. QED
    BY <1>4, <1>5, <2>1, <2>2 DEF LandedRow
<1>7. PICK row : /\ row \in LandedRow /\ row.company = now.company /\ row.person = now.person
                 /\ row.lead = id /\ landed'[j] = [landed[j] EXCEPT ![n] = row]
  <2>. DEFINE row == [now EXCEPT !.lead = id]
  <2>1. /\ row \in LandedRow /\ row.company = now.company /\ row.person = now.person
        /\ row.lead = id /\ landed'[j] = [landed[j] EXCEPT ![n] = row]
    BY <1>1, <1>2, <1>3, <1>4, <1>5, <1>6 DEF LandedRow
  <2>. QED
    BY <2>1
<1>8. /\ Len(landed'[j]) = n /\ landed'[j][n] = row
      /\ \A m \in 1..n - 1 : landed'[j][m] = landed[j][m]
  BY <1>1, <1>2, <1>7, LastChanged
<1>9. /\ landed'[j][n].company = landed[j][n].company
      /\ landed'[j][n].person = landed[j][n].person /\ landed'[j][n].lead = id
  BY <1>3, <1>7, <1>8
<1>10. pc'[j] # "landing"
  BY <1>1 DEF AfterRow
<1>11. \/ /\ FindLead(j) /\ lead' = lead
          /\ \/ /\ FindLeads(j, reqOf[j].csv, Row(j, n), landed[j][n]) = {}
                /\ landed' = landed /\ pc'[j] = "leading"
             \/ /\ pc'[j] = AfterRow(j)
                /\ landed'[j][n].lead \in FindLeads(j, reqOf[j].csv, Row(j, n), landed[j][n])
       \/ /\ WriteLead(j) /\ pc[j] = "leading" /\ pc'[j] = AfterRow(j)
          /\ landed'[j][n].lead = Len(lead) + 1 /\ lead' = Append(lead, NewLead(j, n))
          /\ KeysHold(j, tag, tagOf[j])
  BY <1>3, <1>5, <1>9
<1>. QED
  BY <1>1, <1>2, <1>8, <1>9, <1>10, <1>11

\* The row that is planned.
LEMMA CompanyPlanned ==
  ASSUME Core, NEW j \in mix, PlanCompany(j), NEW n, n = Len(plan[j]) + 1
  PROVE  /\ j \in Job /\ Importing(j) /\ n \in Nat /\ n \in 1..n /\ n <= Len(Rows(j)) /\ n - 1 = Len(plan[j])
         /\ n \in 1..Len(Rows(j))
         /\ UNCHANGED tables /\ landed' = landed /\ log' = log /\ UNCHANGED <<began, ended>>
         /\ \/ pc[j] = "company" /\ pc'[j] = "person"
            \/ pc[j] = "preview_company" /\ pc'[j] = "preview_person"
         /\ Len(plan'[j]) = n /\ \A m \in 1..n - 1 : plan'[j][m] = plan[j][m]
         /\ plan'[j][n].company \in CompanyRefs(j, n) /\ plan'[j][n].person = NoRef
<1>1. /\ j \in Job /\ pc \in [Job -> Where] /\ plan \in [Job -> Seq(PlanRow)]
      /\ plan[j] \in Seq(PlanRow) /\ Len(plan[j]) \in Nat
      /\ pc[j] \in {"company", "preview_company"} /\ Rows(j) # <<>> /\ Fits(j)
      /\ UNCHANGED tables /\ landed' = landed /\ log' = log /\ UNCHANGED <<began, ended>>
      /\ pc'[j] = IF pc[j] = "company" THEN "person" ELSE "preview_person"
  BY RowNumbers DEF Core, Types, PlanCompany, Goes, Goto, history
<1>2. Importing(j) /\ Len(plan[j]) < Len(Rows(j)) /\ Len(Rows(j)) \in Nat
  BY <1>1, RowsType DEF Fits, Planning
<1>3. PICK ref \in CompanyRefs(j, n) :
        plan' = [plan EXCEPT ![j] = Append(@, [company |-> ref, person |-> NoRef])]
  BY DEF PlanCompany
<1>. DEFINE row == [company |-> ref, person |-> NoRef]
<1>4. plan'[j] = Append(plan[j], row)
  BY <1>1, <1>3
<1>5. plan[j] \in Seq(PlanRow \cup {row}) /\ row \in PlanRow \cup {row}
  BY <1>1
<1>. HIDE DEF row
<1>6. /\ Len(Append(plan[j], row)) = Len(plan[j]) + 1
      /\ \A i \in 1..Len(plan[j]) : Append(plan[j], row)[i] = plan[j][i]
      /\ Append(plan[j], row)[Len(plan[j]) + 1] = row
  BY <1>5, AppendProperties
<1>7. /\ Len(plan'[j]) = n /\ \A m \in 1..n - 1 : plan'[j][m] = plan[j][m]
      /\ plan'[j][n] = row
  BY <1>1, <1>4, <1>6
<1>8. /\ n \in Nat /\ n \in 1..n /\ n <= Len(Rows(j)) /\ n - 1 = Len(plan[j])
      /\ n \in 1..Len(Rows(j))
  BY <1>1, <1>2
<1>9. plan'[j][n].company \in CompanyRefs(j, n) /\ plan'[j][n].person = NoRef
  BY <1>7 DEF row
<1>. QED
  BY <1>1, <1>2, <1>7, <1>8, <1>9

LEMMA PersonPlanned ==
  ASSUME Core, NEW j \in mix, PlanPerson(j), NEW n, n = Len(plan[j])
  PROVE  /\ j \in Job /\ Importing(j) /\ n \in Nat /\ n \in 1..n /\ n <= Len(Rows(j)) /\ n \in 1..Len(plan[j])
         /\ n \in 1..Len(Rows(j))
         /\ UNCHANGED tables /\ landed' = landed /\ log' = log /\ UNCHANGED <<began, ended>>
         /\ pc[j] \in {"person", "preview_person"} /\ pc'[j] \notin {"person", "preview_person"}
         /\ Len(plan'[j]) = n /\ \A m \in 1..n - 1 : plan'[j][m] = plan[j][m]
         /\ plan'[j][n].company = plan[j][n].company
         /\ plan'[j][n].person \in PersonRefs(j, n, plan[j][n].company)
<1>1. /\ j \in Job /\ pc \in [Job -> Where] /\ plan \in [Job -> Seq(PlanRow)]
      /\ plan[j] \in Seq(PlanRow) /\ Len(plan[j]) \in Nat
      /\ pc[j] \in {"person", "preview_person"} /\ Fits(j)
      /\ UNCHANGED tables /\ landed' = landed /\ log' = log /\ UNCHANGED <<began, ended>>
      /\ pc'[j] \notin {"person", "preview_person"}
  BY RowNumbers DEF Core, Types, PlanPerson, Planned, Goes, Goto, history
<1>2. Importing(j) /\ n \in 1..Len(Rows(j)) /\ Len(Rows(j)) \in Nat
  BY <1>1, RowsType DEF Fits, Planning
<1>3. n \in Nat /\ n \in 1..n /\ n <= Len(Rows(j)) /\ n \in 1..Len(plan[j])
  BY <1>1, <1>2
<1>4. plan[j][n] \in PlanRow
  BY <1>1, <1>3, ElementOfSeq
<1>5. PICK ref \in PersonRefs(j, n, plan[j][n].company) :
        plan' = [plan EXCEPT ![j][n].person = ref]
  BY DEF PlanPerson
<1>. DEFINE row == [company |-> plan[j][n].company, person |-> ref]
<1>6. plan'[j] = [plan[j] EXCEPT ![n] = row]
  <2>1. plan'[j] = [plan[j] EXCEPT ![n].person = ref]
    BY <1>1, <1>5
  <2>2. [plan[j][n] EXCEPT !.person = ref] = row
    BY <1>4 DEF PlanRow
  <2>. HIDE DEF row
  <2>. QED
    BY <1>1, <1>3, <2>1, <2>2
<1>. HIDE DEF row
<1>7. Len(plan'[j]) = n
  BY <1>1, <1>6
<1>8. plan'[j][n] = row /\ \A m \in 1..n - 1 : plan'[j][m] = plan[j][m]
  <2>1. DOMAIN plan[j] = 1..n
    BY <1>1, LenProperties
  <2>2. \A m \in 1..n - 1 : m \in 1..n /\ m # n
    BY <1>3
  <2>. QED
    BY <1>3, <1>6, <2>1, <2>2
<1>9. /\ plan'[j][n].company = plan[j][n].company
      /\ plan'[j][n].person \in PersonRefs(j, n, plan[j][n].company)
  BY <1>8 DEF row
<1>. QED
  BY <1>1, <1>2, <1>3, <1>7, <1>8, <1>9

-----------------------------------------------------------------------------
(* Nobody refers to what another has not committed.                        *)

\* The record that transaction b refers to is none that another one made and
\* has not committed.
Reaches(b, table, id) ==
  id # None => id \in DOMAIN table /\ (table[id] # None => table[id].by \notin Open \ {b})

Reach ==
  /\ \A n \in DOMAIN lead : lead[n] # None =>
       /\ Reaches(lead[n].by, company, lead[n].company)
       /\ Reaches(lead[n].by, person, lead[n].person)
  /\ \A j \in Imports :
       /\ \A n \in 1..Len(plan[j]) :
            /\ plan[j][n].company.kind = "existing" => Reaches(j, company, plan[j][n].company.of)
            /\ plan[j][n].person.kind = "existing" => Reaches(j, person, plan[j][n].person.of)
       /\ \A n \in 1..Len(landed[j]) :
            /\ Reaches(j, company, landed[j][n].company)
            /\ Reaches(j, person, landed[j][n].person)

LEMMA ReachesAgain ==
  ASSUME Core, Authors, NEW k \in mix, Step(k), NEW b, NEW id
  PROVE  /\ Reaches(b, company, id) => Reaches(b, company, id)'
         /\ Reaches(b, person, id) => Reaches(b, person, id)'
<1>1. /\ Open' \ {k} = Open \ {k}
      /\ k \in Open' \ Open => ~MadeIn(company, k) /\ ~MadeIn(person, k)
  BY OpenAfter
<1>2. ASSUME NEW t, NEW u, GoesOn(t, u, k), k \in Open' \ Open => ~MadeIn(t, k),
             id # None => id \in DOMAIN t /\ (t[id] # None => t[id].by \notin Open \ {b}),
             id # None
      PROVE  id \in DOMAIN u /\ (u[id] # None => u[id].by \notin Open' \ {b})
  <2>1. id \in DOMAIN u /\ (u[id] # None => t[id] # None /\ u[id].by = t[id].by)
    BY <1>2 DEF GoesOn
  <2>2. ASSUME u[id] # None, u[id].by \in Open' \ {b}
        PROVE  FALSE
    <3>1. t[id] # None /\ t[id].by \in Open' /\ t[id].by \notin Open /\ t[id].by # b
      BY <1>2, <2>1, <2>2
    <3>2. t[id].by = k
      BY <1>1, <3>1
    <3>. QED
      BY <1>2, <3>1, <3>2 DEF MadeIn
  <2>. QED
    BY <2>1, <2>2
<1>3. GoesOn(company, company', k) /\ GoesOn(person, person', k)
  BY TablesGoOn
<1>4. Reaches(b, company, id) => Reaches(b, company, id)'
  BY <1>1, <1>2, <1>3 DEF Reaches
<1>5. Reaches(b, person, id) => Reaches(b, person, id)'
  BY <1>1, <1>2, <1>3 DEF Reaches
<1>. QED
  BY <1>4, <1>5

\* A row that job j adds is reached by it.
LEMMA NewReached ==
  ASSUME NEW j, NEW R, NEW t \in TableOf(R), NEW row, row.by = j
  PROVE  /\ Len(t) + 1 \in DOMAIN Append(t, row)
         /\ Append(t, row)[Len(t) + 1] # None => Append(t, row)[Len(t) + 1].by \notin Open' \ {j}
BY AppendAny

LEMMA CompanyRefsReach ==
  ASSUME Reach, NEW j \in Imports, NEW n, n - 1 = Len(plan[j]), NEW ref \in CompanyRefs(j, n),
         ref.kind = "existing"
  PROVE  Reaches(j, company, ref.of)
<1>1. CASE ref = NoRef
  BY <1>1 DEF NoRef
<1>2. ASSUME NEW m \in 1..n - 1, ref = plan[j][m].company
      PROVE  Reaches(j, company, ref.of)
  BY <1>2 DEF Reach
<1>3. CASE ref \in Refs(FindCompanies(j, reqOf[j].csv, Row(j, n)), n)
  <2>1. ref.of \in FindCompanies(j, reqOf[j].csv, Row(j, n))
    BY <1>3 DEF Refs, New, Existing
  <2>2. ref.of \in Ids(j, company)
    BY <2>1, OldestIn DEF FindCompanies
  <2>. QED
    BY <2>2 DEF Ids, Sees, Reaches
<1>. QED
  BY <1>1, <1>2, <1>3 DEF CompanyRefs

LEMMA PersonRefsReach ==
  ASSUME Reach, NEW j \in Imports, NEW n, n = Len(plan[j]), n \in Nat, NEW at,
         NEW ref \in PersonRefs(j, n, at), ref.kind = "existing"
  PROVE  Reaches(j, person, ref.of)
<1>1. CASE ref = NoRef \/ ref = New(n)
  BY <1>1 DEF NoRef, New
<1>2. ASSUME NEW m \in 1..n - 1, ref = plan[j][m].person
      PROVE  Reaches(j, person, ref.of)
  <2>1. m \in 1..Len(plan[j])
    OBVIOUS
  <2>. QED
    BY <1>2, <2>1 DEF Reach
<1>3. ASSUME NEW who, ref \in Refs(FindPeople(j, reqOf[j].csv, Row(j, n), who), n)
      PROVE  Reaches(j, person, ref.of)
  <2>1. ref.of \in FindPeople(j, reqOf[j].csv, Row(j, n), who)
    BY <1>3 DEF Refs, New, Existing
  <2>2. ref.of \in Ids(j, person)
    BY <2>1, OldestIn DEF FindPeople
  <2>. QED
    BY <2>2 DEF Ids, Sees, Reaches
<1>. QED
  BY <1>1, <1>2, <1>3 DEF PersonRefs

\* A lead keeps its company and its person, or loses the company.
LEMMA LeadFields ==
  ASSUME Core, NEW k \in mix, Step(k), NEW n \in DOMAIN lead', lead'[n] # None
  PROVE  \/ /\ n \in DOMAIN lead /\ lead[n] # None /\ lead'[n].by = lead[n].by
            /\ lead'[n].company \in {lead[n].company, None} /\ lead'[n].person = lead[n].person
         \/ pc[k] = "leading" /\ lead'[n] = NewLead(k, Len(landed[k]))
<1>. DEFINE Kept == /\ n \in DOMAIN lead /\ lead[n] # None /\ lead'[n].by = lead[n].by
                    /\ lead'[n].company \in {lead[n].company, None}
                    /\ lead'[n].person = lead[n].person
<1>1. k \in Job /\ lead \in TableOf(LeadRow)
  BY DEF Core, Types, TypeOK
<1>2. CASE lead' = lead \/ lead' = Undo(k, lead)
  <2>1. n \in DOMAIN lead /\ lead'[n] = lead[n]
    BY <1>1, <1>2, UndoFacts DEF Stays
  <2>. QED
    BY <2>1
<1>3. CASE EditRecord(k) /\ ~Fail(k)
  <2>. DEFINE req == reqOf[k]
  <2>1. req.id \in Ids(k, Target(req))
    BY <1>3 DEF EditRecord
  <2>2. lead' = CASE req.op = "company.delete" -> Cleared(req)
                  [] req.op = "engagement.update" -> [lead EXCEPT ![req.id].source = req.to]
                  [] req.op = "engagement.archive" -> [lead EXCEPT ![req.id].archived = TRUE]
                  [] req.op = "engagement.restore" -> [lead EXCEPT ![req.id].archived = FALSE]
                  [] req.op = "engagement.delete" -> [lead EXCEPT ![req.id] = None]
                  [] OTHER -> lead
    BY <1>3 DEF EditRecord
  <2>3. n \in DOMAIN lead => (lead[n] # None => lead[n] \in LeadRow)
    BY <1>1, TableFacts
  <2>4. CASE req.op = "company.delete"
    <3>1. n \in DOMAIN lead /\ lead'[n] = IF lead[n] # None /\ lead[n].company = req.id
                                          THEN [lead[n] EXCEPT !.company = None] ELSE lead[n]
      BY <2>2, <2>4 DEF Cleared
    <3>. QED
      BY <2>3, <3>1 DEF LeadRow
  <2>5. CASE req.op \in {"engagement.update", "engagement.archive", "engagement.restore"}
    <3>1. req.id \in Ids(k, lead) /\ n \in DOMAIN lead
      BY <2>1, <2>2, <2>5 DEF Target
    <3>2. /\ lead[req.id] # None
          /\ lead'[n] = lead[n] \/ n = req.id
      BY <2>2, <2>5, <3>1 DEF Ids, Sees
    <3>3. CASE lead'[n] = lead[n]
      BY <3>1, <3>3
    <3>4. CASE n = req.id
      <4>1. lead[n] \in LeadRow /\ lead[n] # None
        BY <2>3, <3>1, <3>2, <3>4
      <4>2. lead'[n] = [lead[n] EXCEPT !.source = req.to] \/ \E a : lead'[n] = [lead[n] EXCEPT !.archived = a]
        BY <2>2, <2>5, <3>1, <3>4
      <4>. QED
        BY <3>1, <4>1, <4>2 DEF LeadRow
    <3>. QED
      BY <3>2, <3>3, <3>4
  <2>6. CASE req.op = "engagement.delete"
    <3>1. n \in DOMAIN lead /\ lead'[n] = lead[n]
      BY <2>2, <2>6
    <3>. QED
      BY <3>1
  <2>7. CASE req.op \notin {"company.delete", "engagement.update", "engagement.archive",
                            "engagement.restore", "engagement.delete"}
    <3>1. lead' = lead
      BY <2>2, <2>7
    <3>. QED
      BY <1>2, <3>1
  <2>. QED
    BY <2>4, <2>5, <2>6, <2>7
<1>4. CASE reqOf[k].op \in Edit
  <2>1. Fail(k) => lead' = Undo(k, lead)
    BY DEF Fail
  <2>2. Unlink(k) => lead' = lead
    BY DEF Unlink
  <2>3. UNCHANGED tables => lead' = lead
    BY DEF tables
  <2>. QED
    BY <1>2, <1>3, <1>4, <2>1, <2>2, <2>3, EditSteps
<1>5. CASE reqOf[k].op \notin Edit
  <2>1. Moves(lead, lead', k)
    BY <1>5, StepMoves
  <2>2. CASE \E row : lead' = Append(lead, row)
    <3>1. DOMAIN lead' # DOMAIN lead
      BY <1>1, <2>2, AppendAny
    <3>2. pc[k] = "leading" /\ lead' = Append(lead, NewLead(k, Len(landed[k])))
      BY <3>1, StepAdds DEF Stays
    <3>3. (n \in DOMAIN lead /\ lead'[n] = lead[n]) \/ lead'[n] = NewLead(k, Len(landed[k]))
      BY <1>1, <3>2, AppendAny
    <3>. QED
      BY <3>2, <3>3
  <2>. QED
    BY <1>2, <2>1, <2>2 DEF Moves
<1>. QED
  BY <1>4, <1>5

LEMMA ReachInit == Init => Reach
<1>. SUFFICES ASSUME Init PROVE Reach
  OBVIOUS
<1>1. PICK w \in Workspaces : company = w.company /\ person = w.person /\ lead = w.lead
  BY DEF Init
<1>2. mix \in SUBSET Job /\ Open = {}
  BY TransferAssumption DEF Init, Open, Working
<1>3. \A n \in DOMAIN lead : lead[n] # None =>
        /\ lead[n].company # None => lead[n].company \in DOMAIN company
        /\ lead[n].person # None => lead[n].person \in DOMAIN person
  BY <1>1, WorkspaceAssumption DEF There
<1>4. \A j \in Imports : Len(plan[j]) = 0 /\ Len(landed[j]) = 0
  BY <1>2, EmptySeq DEF Init, Imports
<1>. QED
  BY <1>2, <1>3, <1>4 DEF Reach, Reaches

LEMMA ReachStep ==
  ASSUME Core, Authors, Reach, NEW k \in mix, Step(k)
  PROVE  Reach'
<1>1. /\ Frame(k) /\ k \in Job /\ mix \subseteq Job /\ mix' = mix /\ pc \in [Job -> Where]
      /\ company \in TableOf(CompanyRow) /\ person \in TableOf(PersonRow)
  BY StepFrame DEF Core, Types, TypeOK, Frame
<1>2. \A b, id : /\ Reaches(b, company, id) => Reaches(b, company, id)'
                 /\ Reaches(b, person, id) => Reaches(b, person, id)'
  BY ReachesAgain
<1>3. ASSUME NEW n \in DOMAIN lead', lead'[n] # None
      PROVE  (Reaches(lead[n].by, company, lead[n].company))' /\ (Reaches(lead[n].by, person, lead[n].person))'
  <2>1. PICK b, c, p : b = lead'[n].by /\ c = lead'[n].company /\ p = lead'[n].person
    OBVIOUS
  <2>2. Reaches(b, company, c) /\ Reaches(b, person, p)
    <3>1. CASE /\ n \in DOMAIN lead /\ lead[n] # None /\ b = lead[n].by
               /\ c \in {lead[n].company, None} /\ p = lead[n].person
      BY <3>1 DEF Reach, Reaches
    <3>2. CASE pc[k] = "leading" /\ lead'[n] = NewLead(k, Len(landed[k]))
      <4>1. k \in Imports /\ Len(landed[k]) \in 1..Len(landed[k])
        BY <3>2, RowAt DEF Imports, Writing
      <4>2. b = k /\ c = landed[k][Len(landed[k])].company /\ p = landed[k][Len(landed[k])].person
        BY <2>1, <3>2 DEF NewLead
      <4>. QED
        BY <4>1, <4>2 DEF Reach
    <3>. QED
      BY <1>3, <2>1, <3>1, <3>2, LeadFields
  <2>3. Reaches(b, company, c)' /\ Reaches(b, person, p)'
    BY <1>2, <2>2
  <2>. QED
    BY <2>1, <2>3 DEF Reaches
<1>4. ASSUME NEW j \in Imports, NEW n \in 1..Len(plan'[j])
      PROVE  /\ plan'[j][n].company.kind = "existing" => (Reaches(j, company, plan[j][n].company.of))'
             /\ plan'[j][n].person.kind = "existing" => (Reaches(j, person, plan[j][n].person.of))'
  <2>1. PICK c, p : c = plan'[j][n].company /\ p = plan'[j][n].person
    OBVIOUS
  <2>2. /\ c.kind = "existing" => Reaches(j, company, c.of)
        /\ p.kind = "existing" => Reaches(j, person, p.of)
    <3>1. CASE plan'[j] = plan[j]
      BY <1>4, <2>1, <3>1 DEF Reach
    <3>2. CASE j = k /\ PlanCompany(k)
      <4>1. PICK m : m = Len(plan[k]) + 1
        OBVIOUS
      <4>2. /\ m \in Nat /\ m - 1 = Len(plan[k]) /\ Len(plan'[k]) = m
            /\ \A i \in 1..m - 1 : plan'[k][i] = plan[k][i]
        BY <3>2, <4>1, CompanyPlanned
      <4>5. plan'[k][m].company \in CompanyRefs(k, m) /\ plan'[k][m].person = NoRef
        BY <3>2, <4>1, CompanyPlanned
      <4>3. CASE n = m
        <5>1. c \in CompanyRefs(k, m) /\ p = NoRef
          BY <2>1, <3>2, <4>3, <4>5
        <5>. QED
          BY <1>4, <3>2, <4>2, <5>1, CompanyRefsReach DEF NoRef
      <4>4. CASE n \in 1..m - 1
        <5>1. plan'[j][n] = plan[j][n] /\ n \in 1..Len(plan[j])
          BY <3>2, <4>2, <4>4
        <5>. QED
          BY <1>4, <2>1, <5>1 DEF Reach
      <4>. QED
        BY <1>4, <3>2, <4>2, <4>3, <4>4
    <3>3. CASE j = k /\ PlanPerson(k)
      <4>1. PICK m : m = Len(plan[k])
        OBVIOUS
      <4>2. /\ m \in Nat /\ m \in 1..Len(plan[k]) /\ Len(plan'[k]) = m
            /\ \A i \in 1..m - 1 : plan'[k][i] = plan[k][i]
        BY <3>3, <4>1, PersonPlanned
      <4>5. /\ plan'[k][m].company = plan[k][m].company
            /\ plan'[k][m].person \in PersonRefs(k, m, plan[k][m].company)
        BY <3>3, <4>1, PersonPlanned
      <4>3. CASE n = m
        <5>1. c = plan[k][m].company /\ p \in PersonRefs(k, m, plan[k][m].company)
          BY <2>1, <3>3, <4>3, <4>5
        <5>2. c.kind = "existing" => Reaches(j, company, c.of)
          BY <1>4, <3>3, <4>2, <5>1 DEF Reach
        <5>. QED
          BY <1>4, <3>3, <4>1, <4>2, <5>1, <5>2, PersonRefsReach
      <4>4. CASE n \in 1..m - 1
        <5>1. plan'[j][n] = plan[j][n] /\ n \in 1..Len(plan[j])
          BY <3>3, <4>1, <4>2, <4>4
        <5>. QED
          BY <1>4, <2>1, <5>1 DEF Reach
      <4>. QED
        BY <1>4, <3>3, <4>2, <4>3, <4>4
    <3>4. CASE plan'[j] = <<>>
      BY <1>4, <3>4
    <3>. QED
      <4>1. j # k => plan'[j] = plan[j]
        BY <1>1, <1>4 DEF Frame, Imports
      <4>. QED
        BY <1>4, <3>1, <3>2, <3>3, <3>4, <4>1, PlanSteps DEF Imports
  <2>3. /\ c.kind = "existing" => Reaches(j, company, c.of)'
        /\ p.kind = "existing" => Reaches(j, person, p.of)'
    BY <1>2, <2>2
  <2>. QED
    BY <2>1, <2>3 DEF Reaches
<1>5. ASSUME NEW j \in Imports, NEW n \in 1..Len(landed'[j])
      PROVE  /\ (Reaches(j, company, landed[j][n].company))'
             /\ (Reaches(j, person, landed[j][n].person))'
  <2>1. PICK c, p : c = landed'[j][n].company /\ p = landed'[j][n].person
    OBVIOUS
  <2>2. CASE Reaches(j, company, c) /\ Reaches(j, person, p)
    <3>1. Reaches(j, company, c)' /\ Reaches(j, person, p)'
      BY <1>2, <2>2
    <3>. QED
      BY <2>1, <3>1 DEF Reaches
  <2>3. CASE n \in 1..Len(landed[j]) /\ landed'[j][n] = landed[j][n]
    BY <1>5, <2>1, <2>2, <2>3 DEF Reach
  <2>4. CASE j = k /\ WriteCompany(k)
    <3>1. PICK m, ref : m = RowNow(k) /\ ref = plan[k][m].company
      OBVIOUS
    <3>2. /\ m \in Nat /\ Len(landed[k]) = m - 1 /\ m \in 1..Len(plan[k]) /\ Len(landed'[k]) = m
          /\ \A i \in 1..m - 1 : landed'[k][i] = landed[k][i]
      BY <2>4, <3>1, CompanyWritten
    <3>5. landed'[k][m].person = None
      BY <2>4, <3>1, CompanyWritten
    <3>6. LET id == landed'[k][m].company
          IN \/ ref.kind = "none" /\ id = None /\ company' = company
             \/ ref.kind = "existing" /\ id = ref.of /\ company' = company
             \/ /\ ref.kind = "new" /\ ref.of \in 1..m - 1 /\ id # None
                /\ id = landed[k][ref.of].company /\ company' = company
             \/ /\ ref.kind = "new" /\ (ref.of \in 1..m - 1 => landed[k][ref.of].company = None)
                /\ id = Len(company) + 1 /\ company' = Append(company, NewCompany(k, m))
      BY <2>4, <3>1, CompanyWritten, SMTT(60)
    <3>3. CASE n = m
      <4>1. p = None
        BY <2>1, <2>4, <3>3, <3>5
      <4>2. \/ c = None
            \/ ref.kind = "existing" /\ c = ref.of
            \/ ref.of \in 1..m - 1 /\ c = landed[k][ref.of].company
            \/ c = Len(company) + 1 /\ company' = Append(company, NewCompany(k, m))
        BY <2>1, <2>4, <3>3, <3>6
      <4>3. Reaches(j, person, p)
        BY <4>1 DEF Reaches
      <4>4. CASE c = None
        BY <2>2, <4>3, <4>4 DEF Reaches
      <4>5. CASE ref.kind = "existing" /\ c = ref.of
        <5>1. Reaches(j, company, c)
          BY <1>5, <2>4, <3>1, <3>2, <4>5 DEF Reach
        <5>. QED
          BY <2>2, <4>3, <5>1
      <4>6. CASE ref.of \in 1..m - 1 /\ c = landed[k][ref.of].company
        <5>1. Reaches(j, company, c)
          BY <1>5, <2>4, <3>2, <4>6 DEF Reach
        <5>. QED
          BY <2>2, <4>3, <5>1
      <4>7. CASE c = Len(company) + 1 /\ company' = Append(company, NewCompany(k, m))
        <5>1. NewCompany(k, m).by = k
          BY DEF NewCompany
        <5>2. Reaches(j, company, c)'
          BY <1>1, <2>4, <4>7, <5>1, NewReached DEF Reaches
        <5>3. Reaches(j, person, p)'
          BY <1>2, <4>3
        <5>. QED
          BY <2>1, <5>2, <5>3 DEF Reaches
      <4>. QED
        BY <4>2, <4>4, <4>5, <4>6, <4>7
    <3>4. CASE n \in 1..m - 1
      BY <2>3, <2>4, <3>2, <3>4
    <3>. QED
      BY <1>5, <2>4, <3>2, <3>3, <3>4
  <2>5. CASE j = k /\ WritePerson(k)
    <3>1. PICK m, ref : m = Len(landed[k]) /\ ref = plan[k][m].person
      OBVIOUS
    <3>2. /\ m \in Nat /\ m \in 1..Len(landed[k]) /\ m \in 1..Len(plan[k]) /\ Len(landed'[k]) = m
          /\ \A i \in 1..m - 1 : landed'[k][i] = landed[k][i]
          /\ landed'[k][m].company = landed[k][m].company
      BY <2>5, <3>1, PersonWritten, SMTT(60)
    <3>5. LET id == landed'[k][m].person
          IN \/ id = landed[k][m].person
             \/ ref.kind = "existing" /\ id = ref.of
             \/ ref.of \in 1..m /\ id = landed[k][ref.of].person
             \/ id = Len(person) + 1 /\ person' = Append(person, NewPerson(k, m))
      BY <2>5, <3>1, PersonWritten, SMTT(60)
    <3>3. CASE n = m
      <4>1. c = landed[k][m].company
        BY <2>1, <2>5, <3>2, <3>3
      <4>2. \/ p = landed[k][m].person
            \/ ref.kind = "existing" /\ p = ref.of
            \/ ref.of \in 1..m /\ p = landed[k][ref.of].person
            \/ p = Len(person) + 1 /\ person' = Append(person, NewPerson(k, m))
        BY <2>1, <2>5, <3>3, <3>5
      <4>3. Reaches(j, company, c)
        BY <1>5, <2>5, <3>2, <4>1 DEF Reach
      <4>4. CASE p = landed[k][m].person
        <5>1. Reaches(j, person, p)
          BY <1>5, <2>5, <3>2, <4>4 DEF Reach
        <5>. QED
          BY <2>2, <4>3, <5>1
      <4>5. CASE ref.kind = "existing" /\ p = ref.of
        <5>1. Reaches(j, person, p)
          BY <1>5, <2>5, <3>1, <3>2, <4>5 DEF Reach
        <5>. QED
          BY <2>2, <4>3, <5>1
      <4>6. CASE ref.of \in 1..m /\ p = landed[k][ref.of].person
        <5>1. Reaches(j, person, p)
          BY <1>5, <2>5, <3>1, <4>6 DEF Reach
        <5>. QED
          BY <2>2, <4>3, <5>1
      <4>7. CASE p = Len(person) + 1 /\ person' = Append(person, NewPerson(k, m))
        <5>1. NewPerson(k, m).by = k
          BY DEF NewPerson
        <5>2. Reaches(j, person, p)'
          BY <1>1, <2>5, <4>7, <5>1, NewReached DEF Reaches
        <5>3. Reaches(j, company, c)'
          BY <1>2, <4>3
        <5>. QED
          BY <2>1, <5>2, <5>3 DEF Reaches
      <4>. QED
        BY <4>2, <4>4, <4>5, <4>6, <4>7
    <3>4. CASE n \in 1..m - 1
      BY <2>3, <2>5, <3>1, <3>2, <3>4
    <3>. QED
      BY <1>5, <2>5, <3>2, <3>3, <3>4
  <2>6. CASE j = k /\ (FindLead(k) \/ (WriteLead(k) /\ ~Fail(k)))
    <3>1. PICK m : m = Len(landed[k])
      OBVIOUS
    <3>2. /\ m \in Nat /\ m \in 1..m /\ Len(landed'[k]) = m
          /\ \A i \in 1..m - 1 : landed'[k][i] = landed[k][i]
          /\ landed'[k][m].company = landed[k][m].company
          /\ landed'[k][m].person = landed[k][m].person
      BY <2>6, <3>1, LeadWritten
    <3>3. CASE n = m
      <4>1. Reaches(j, company, c) /\ Reaches(j, person, p)
        BY <1>5, <2>1, <2>6, <3>1, <3>2, <3>3 DEF Reach
      <4>. QED
        BY <2>2, <4>1
    <3>4. CASE n \in 1..m - 1
      BY <2>3, <2>6, <3>1, <3>2, <3>4
    <3>. QED
      BY <1>5, <2>6, <3>2, <3>3, <3>4
  <2>7. landed'[j] = landed[j] \/ j = k
    BY <1>1, <1>5 DEF Frame, Imports
  <2>. QED
    BY <1>5, <2>3, <2>4, <2>5, <2>6, <2>7, LandedSteps
<1>. QED
  BY <1>1, <1>3, <1>4, <1>5 DEF Reach, Imports

-----------------------------------------------------------------------------
(* The tag of a label.                                                     *)

\* How an open import comes by its tag, and that it keeps it.
LEMMA ImportTags ==
  ASSUME Core, NEW j \in mix, Step(j), reqOf[j].op = "import.run", pc'[j] \in Working
  PROVE  \/ pc[j] \notin Working /\ pc'[j] = "tag" /\ tag' = tag
         \/ /\ pc[j] = "tag" /\ pc'[j] = "tagging" /\ tag' = tag
            /\ TagsNamed(j, reqOf[j].label) = {}
         \/ /\ pc[j] = "tag" /\ pc'[j] = "company" /\ UNCHANGED tables
            /\ tagOf'[j] \in TagsNamed(j, reqOf[j].label)
         \/ /\ pc[j] = "tagging" /\ pc'[j] = "company" /\ tagOf'[j] = Len(tag) + 1
            /\ tag' = Append(tag, [name |-> reqOf[j].label, by |-> j])
            /\ UNCHANGED <<company, person, lead, link>>
         \/ /\ pc[j] \in PastTag /\ pc'[j] \in PastTag /\ tagOf' = tagOf /\ tag' = tag
            /\ lead' = lead \/ KeysHold(j, tag, tagOf[j])
<1>1. /\ j \in Job /\ pc \in [Job -> Where] /\ tagOf \in [Job -> Nat \cup {None}] /\ Fits(j)
      /\ tag \in TableOf(TagRow)
  BY DEF Core, Types, TypeOK
<1>2. ~Fail(j)
  BY <1>1 DEF Fail, Goto, Working
<1>3. CASE Begin(j)
  BY <1>1, <1>3 DEF Begin, MayRun, Goto, Working, tables
<1>4. CASE FindTag(j)
  <2>. DEFINE named == TagsNamed(j, reqOf[j].label)
  <2>1. pc[j] = "tag" /\ UNCHANGED tables /\ tag' = tag
    BY <1>4 DEF FindTag, Goes, tables
  <2>2. CASE named = {}
    BY <1>1, <1>4, <2>1, <2>2 DEF FindTag, Goes, Goto
  <2>3. CASE named # {}
    <3>1. PICK n \in named : tagOf' = [tagOf EXCEPT ![j] = n] /\ Goes(j, AfterTag(j))
      BY <1>4, <2>3 DEF FindTag
    <3>2. tagOf'[j] \in named /\ pc'[j] = "company"
      BY <1>1, <3>1 DEF Goes, Goto, AfterTag
    <3>. QED
      BY <2>1, <3>2
  <2>. QED
    BY <2>2, <2>3
<1>5. CASE CreateTag(j)
  BY <1>1, <1>2, <1>5 DEF CreateTag, Goto, AfterTag
<1>6. CASE PlanCompany(j) \/ PlanPerson(j) \/ PlanNothing(j)
  <2>1. pc[j] \in {"company", "person"}
    BY <1>1, <1>6, <1>2 DEF PlanCompany, PlanPerson, PlanNothing, Planned, Goes, Goto, Working
  <2>2. tag' = tag /\ lead' = lead /\ tagOf' = tagOf
    BY <1>2, <1>6 DEF PlanCompany, PlanPerson, PlanNothing, Planned, Goes, tables
  <2>3. pc[j] \in PastTag
    BY <2>1 DEF PastTag
  <2>4. pc'[j] \in PastTag
    BY <1>1, <1>2, <1>6, <2>1 DEF PlanCompany, PlanPerson, PlanNothing, Planned, Goes, Goto, PastTag,
       Writing
  <2>. QED
    BY <2>2, <2>3, <2>4
<1>7. CASE WriteCompany(j)
  BY <1>1, <1>7 DEF WriteCompany, Goto, PastTag, Writing
<1>8. CASE WritePerson(j)
  BY <1>1, <1>8 DEF WritePerson, Goto, PastTag, Writing, tables
<1>9. CASE FindLead(j)
  BY <1>1, <1>9 DEF FindLead, Goes, Goto, AfterRow, PastTag, Writing, tables
<1>10. CASE WriteLead(j)
  BY <1>1, <1>2, <1>10 DEF WriteLead, Goto, AfterRow, PastTag, Writing
<1>11. ~Commit(j) /\ ~Preview(j) /\ ~CountPage(j) /\ ~ReadPage(j)
  BY <1>1 DEF Commit, Preview, CountPage, ReadPage, Goto, Working, Fits
<1>12. ~EditRecord(j) /\ ~Unlink(j)
  BY DEF EditRecord, Unlink, Edit
<1>. QED
  BY <1>2, <1>3, <1>4, <1>5, <1>6, <1>7, <1>8, <1>9, <1>10, <1>11, <1>12
     DEF Step, Refuse, LinkRefused, DeadlockAbort

\* The tag an import found or made: its own, or a committed one of its label.  On
\* PostgreSQL nobody deletes it once a lead carries it.
TagKnown ==
  \A j \in Imports : pc[j] \in PastTag =>
    /\ tagOf[j] \in DOMAIN tag
    /\ tag[tagOf[j]] # None =>
         LET row == tag[tagOf[j]]
         IN \/ row.by = j
            \/ row.by \notin Open /\ StoreLower[row.name] = Lower[reqOf[j].label]
    /\ store = "postgres" /\ MadeBy(j, lead) => tag[tagOf[j]] # None

\* Nobody deletes the tag of leads that are not committed.
LEMMA TagStays ==
  ASSUME Core, Authors, NEW k \in mix, Step(k), NEW j \in Open \ {k}, MadeBy(j, lead),
         NEW t \in DOMAIN tag, t = tagOf[j], tag[t] # None, tag[t].by = j \/ tag[t].by \notin Open
  PROVE  tag'[t] # None
<1>1. /\ Frame(k) /\ k \in Job /\ mix \subseteq Job /\ pc \in [Job -> Where]
      /\ tag \in TableOf(TagRow) /\ OwnedIn(tag, pc, mix)
  BY StepFrame DEF Core, Types, TypeOK, Tables
<1>2. k # None
  BY <1>1, TransferAssumption
<1>3. tag[t].by # k \/ ~Fail(k)
  <2>1. Fail(k) => pc'[k] = "failed"
    BY <1>1 DEF Fail, Goto
  <2>2. tag[t].by = k => pc[k] \in Working \cup {"ok"}
    BY <1>1, <1>2 DEF OwnedIn, OwnerIn
  <2>3. tag[t].by = k => k \notin Open
    OBVIOUS
  <2>. QED
    BY <1>1, <2>1, <2>2, <2>3 DEF Frame, Open
<1>4. CASE Fail(k)
  BY <1>1, <1>3, <1>4, UndoFacts DEF Fail
<1>5. CASE EditRecord(k) /\ ~Fail(k)
  <2>1. tag' = IF reqOf[k].op = "tag.delete" THEN [tag EXCEPT ![reqOf[k].id] = None] ELSE tag
    BY <1>5 DEF EditRecord
  <2>2. reqOf[k].op = "tag.delete" => tagOf[j] # reqOf[k].id
    BY <1>5 DEF EditRecord, Free
  <2>. QED
    BY <2>1, <2>2
<1>6. CASE Unlink(k)
  BY <1>6 DEF Unlink
<1>7. CASE UNCHANGED tables
  BY <1>7 DEF tables
<1>8. CASE reqOf[k].op \notin Edit
  <2>1. \/ tag' = tag
        \/ tag' = Undo(k, tag) /\ pc'[k] = "failed"
        \/ tag' = Append(tag, [name |-> reqOf[k].label, by |-> k])
    BY <1>8, StepMoves
  <2>2. pc'[k] = "failed" => tag[t].by # k
    <3>1. tag[t].by = k => pc[k] \in Working \cup {"ok"}
      BY <1>1, <1>2 DEF OwnedIn, OwnerIn
    <3>. QED
      BY <1>1, <3>1 DEF Frame, Open
  <2>. QED
    BY <1>1, <2>1, <2>2, UndoFacts, AppendAny
<1>. QED
  BY <1>4, <1>5, <1>6, <1>7, <1>8, EditSteps

LEMMA TagKnownStep ==
  ASSUME Core, Authors, TagKnown, NEW k \in mix, Step(k)
  PROVE  TagKnown'
<1>1. /\ Frame(k) /\ k \in Job /\ mix \subseteq Job /\ mix' = mix /\ store' = store
      /\ pc \in [Job -> Where] /\ tag \in TableOf(TagRow) /\ DOMAIN tag \subseteq Nat
      /\ GoesOn(tag, tag', k) /\ GoesOn(lead, lead', k)
  BY StepFrame, TablesGoOn, TableFacts DEF Core, Types, TypeOK, Frame
<1>2. /\ Open' \ {k} = Open \ {k}
      /\ k \in Open' \ Open => ~MadeIn(tag, k) /\ ~MadeIn(lead, k)
  BY OpenAfter
<1>3. SUFFICES ASSUME NEW j \in Imports, pc'[j] \in PastTag, NEW t, t = tagOf'[j]
               PROVE  /\ t \in DOMAIN tag'
                      /\ tag'[t] # None =>
                           \/ tag'[t].by = j
                           \/ tag'[t].by \notin Open' /\ StoreLower[tag'[t].name] = Lower[reqOf[j].label]
                      /\ store = "postgres" /\ MadeIn(lead', j) => tag'[t] # None
  BY <1>1 DEF TagKnown, Imports, StoreLower, MadeBy, MadeIn
<1>4. j \in Job /\ j \in mix /\ reqOf[j].op = "import.run" /\ PastTag \subseteq Working
  BY <1>1, <1>3 DEF Imports, PastTag, Writing, Working
\* Where the tag was known, and nobody removes it if leads carry it.
<1>5. ASSUME pc[j] \in PastTag, t = tagOf[j], tag[t] # None /\ MadeIn(lead, j) => tag'[t] # None,
             tag'[t] # None => tag'[t] = tag[t],
             store = "postgres" /\ MadeIn(lead', j) =>
               MadeIn(lead, j) \/ (KeysHold(j, tag, tagOf[j]) /\ tag' = tag)
      PROVE  /\ t \in DOMAIN tag'
             /\ tag'[t] # None =>
                  \/ tag'[t].by = j
                  \/ tag'[t].by \notin Open' /\ StoreLower[tag'[t].name] = Lower[reqOf[j].label]
             /\ store = "postgres" /\ MadeIn(lead', j) => tag'[t] # None
  <2>1. /\ t \in DOMAIN tag
        /\ tag[t] # None =>
             \/ tag[t].by = j
             \/ tag[t].by \notin Open /\ StoreLower[tag[t].name] = Lower[reqOf[j].label]
        /\ store = "postgres" /\ MadeIn(lead, j) => tag[t] # None
    BY <1>3, <1>5 DEF TagKnown, MadeBy, MadeIn
  <2>2. t \in DOMAIN tag'
    BY <1>1, <2>1 DEF GoesOn
  <2>3. ASSUME tag'[t] # None, tag[t].by \notin Open
        PROVE  tag[t].by \notin Open'
    <3>1. tag[t] # None
      BY <1>5, <2>3
    <3>2. tag[t].by = k => ~(k \in Open' \ Open)
      BY <1>2, <2>1, <3>1 DEF MadeIn
    <3>. QED
      BY <1>2, <2>3, <3>2
  <2>4. ASSUME store = "postgres", KeysHold(j, tag, tagOf[j])
        PROVE  tag[t] # None
    <3>1. t # None
      BY <1>1, <2>1, TransferAssumption
    <3>. QED
      BY <1>5, <2>4, <3>1 DEF KeysHold, Ids, Sees
  <2>. QED
    BY <1>5, <2>1, <2>2, <2>3, <2>4
<1>6. CASE j # k
  <2>1. pc[j] \in PastTag /\ t = tagOf[j] /\ j \in Open
    BY <1>1, <1>3, <1>4, <1>6 DEF Frame, Open
  <2>2. t \in DOMAIN tag /\ (tag[t] # None => tag[t].by = j \/ tag[t].by \notin Open)
    BY <1>3, <2>1 DEF TagKnown
  <2>3. tag[t] # None /\ MadeIn(lead, j) => tag'[t] # None
    BY <1>6, <2>1, <2>2, TagStays DEF MadeBy, MadeIn
  <2>4. tag'[t] # None => tag'[t] = tag[t]
    <3>. DEFINE row == [name |-> reqOf[k].label, by |-> k]
    <3>1. Holds(tag, tag') \/ tag' = Append(tag, row)
      BY StepAdds
    <3>. HIDE DEF row
    <3>. QED
      BY <1>1, <2>2, <3>1, AppendAny DEF Holds
  <2>5. MadeIn(lead', j) => MadeIn(lead, j)
    BY <1>1, <1>6 DEF MadeIn, GoesOn
  <2>. QED
    BY <1>5, <2>1, <2>3, <2>4, <2>5
<1>7. CASE j = k
  <2>1. pc'[k] \in Working /\ Open' = Open \cup {k}
    BY <1>1, <1>2, <1>3, <1>4, <1>7 DEF Open
  <2>2. ASSUME pc[k] = "tag", UNCHANGED tables, t \in TagsNamed(k, reqOf[k].label)
        PROVE  /\ t \in DOMAIN tag'
               /\ tag'[t] # None =>
                    \/ tag'[t].by = j
                    \/ tag'[t].by \notin Open' /\ StoreLower[tag'[t].name] = Lower[reqOf[j].label]
               /\ ~MadeIn(lead', j)
    <3>1. t \in DOMAIN tag /\ tag' = tag /\ lead' = lead /\ tag[t].by \notin Open \ {k}
          /\ StoreLower[tag[t].name] = Lower[reqOf[k].label]
      BY <2>2 DEF TagsNamed, Ids, Sees, tables
    <3>2. ~MadeIn(lead, k)
      BY <1>1, <2>2, TransferAssumption DEF Authors, WrittenIn, MadeIn, Writing
    <3>. QED
      BY <1>7, <2>1, <3>1, <3>2
  <2>3. ASSUME pc[k] = "tagging", t = Len(tag) + 1, lead' = lead,
               tag' = Append(tag, [name |-> reqOf[k].label, by |-> k])
        PROVE  /\ t \in DOMAIN tag' /\ tag'[t].by = j
               /\ ~MadeIn(lead', j)
    <3>. DEFINE row == [name |-> reqOf[k].label, by |-> k]
    <3>1. row.by = k
      OBVIOUS
    <3>. HIDE DEF row
    <3>2. t \in DOMAIN tag' /\ tag'[t].by = k
      BY <1>1, <2>3, <3>1, AppendAny DEF row
    <3>3. ~MadeIn(lead, k)
      BY <1>1, <2>3, TransferAssumption DEF Authors, WrittenIn, MadeIn, Writing
    <3>. QED
      BY <1>7, <2>3, <3>2, <3>3
  <2>4. ASSUME pc[k] \in PastTag, tagOf' = tagOf, tag' = tag,
               lead' = lead \/ KeysHold(k, tag, tagOf[k])
        PROVE  /\ t \in DOMAIN tag'
               /\ tag'[t] # None =>
                    \/ tag'[t].by = j
                    \/ tag'[t].by \notin Open' /\ StoreLower[tag'[t].name] = Lower[reqOf[j].label]
               /\ store = "postgres" /\ MadeIn(lead', j) => tag'[t] # None
    BY <1>3, <1>5, <1>7, <2>4
  <2>5. ~(pc'[k] = "tag") /\ ~(pc'[k] = "tagging")
    BY <1>3, <1>7 DEF PastTag, Writing
  <2>6. pc[k] = "tag" \/ pc[k] = "tagging" \/ pc[k] \in PastTag
    BY <1>4, <1>7, <2>1, <2>5, ImportTags
  <2>. QED
    BY <1>3, <1>4, <1>7, <2>1, <2>2, <2>3, <2>4, <2>5, ImportTags
<1>. QED
  BY <1>6, <1>7

\* Of an import that saw no tag of its label and that nothing was committed beside,
\* the tags of that label it sees are its own.
TagMade ==
  \A j \in Imports :
    Undisturbed(j) /\ (pc[j] = "tagging" \/ (MadeBy(j, tag) /\ pc[j] \in Working)) =>
      \A t \in TagsNamed(j, reqOf[j].label) : tag[t].by = j

LEMMA TagMadeStep ==
  ASSUME Core, Logbook, History, Authors, TagMade, NEW k \in mix, Step(k)
  PROVE  TagMade'
<1>1. /\ Frame(k) /\ k \in Job /\ mix \subseteq Job /\ mix' = mix /\ store' = store
      /\ pc \in [Job -> Where] /\ tag \in TableOf(TagRow)
      /\ GoesOn(tag, tag', k) /\ OwnedIn(tag, pc, mix)
  BY StepFrame, TablesGoOn DEF Core, Types, TypeOK, Frame, Tables
<1>2. /\ Open' \ {k} = Open \ {k}
      /\ k \in Open' \ Open => ~MadeIn(tag, k)
  BY OpenAfter
<1>3. SUFFICES ASSUME NEW j \in Imports, Undisturbed(j)',
                      pc'[j] = "tagging" \/ (MadeIn(tag', j) /\ pc'[j] \in Working),
                      NEW t \in DOMAIN tag', tag'[t] # None, tag'[t].by \notin Open' \ {j},
                      StoreLower[tag'[t].name] = Lower[reqOf[j].label]
               PROVE  tag'[t].by = j
  BY <1>1 DEF TagMade, Imports, StoreLower, MadeBy, MadeIn, TagsNamed, Ids, Sees
<1>4. j \in Job /\ j \in mix /\ reqOf[j].op = "import.run" /\ pc'[j] \in Working /\ j \in Open'
  BY <1>1, <1>3 DEF Imports, Working, Open
<1>5. tag[t] # None /\ t \in DOMAIN tag /\ tag[t].by \notin Open \ {j} /\ tag[t] = tag'[t]
        => t \in TagsNamed(j, reqOf[j].label)
  BY <1>3 DEF TagsNamed, Ids, Sees
<1>6. \/ t \in DOMAIN tag /\ tag[t] # None /\ tag'[t] = tag[t]
      \/ tag'[t].by = k /\ pc[k] = "tagging" /\ pc'[k] = AfterTag(k)
  <2>1. CASE Holds(tag, tag')
    BY <1>3, <2>1 DEF Holds, Stays
  <2>2. CASE tag' = Append(tag, [name |-> reqOf[k].label, by |-> k])
    <3>. DEFINE row == [name |-> reqOf[k].label, by |-> k]
    <3>1. row.by = k
      OBVIOUS
    <3>. HIDE DEF row
    <3>2. (t \in DOMAIN tag /\ tag'[t] = tag[t]) \/ tag'[t].by = k
      BY <1>1, <1>3, <2>2, <3>1, AppendAny DEF row
    <3>3. Len(tag) + 1 \in DOMAIN tag' /\ Len(tag) + 1 \notin DOMAIN tag
      BY <1>1, <2>2, AppendAny DEF row
    <3>4. pc[k] = "tagging" /\ pc'[k] = AfterTag(k)
      BY <3>3, StepAdds DEF Holds, Stays
    <3>. QED
      BY <1>3, <3>2, <3>4
  <2>. QED
    BY <2>1, <2>2, StepAdds
<1>7. CASE j # k
  <2>1. began'[j] = began[j] /\ pc'[j] = pc[j] /\ (MadeIn(tag', j) => MadeIn(tag, j))
    BY <1>1, <1>4, <1>7 DEF Frame, MadeIn, GoesOn
  <2>2. Undisturbed(j) /\ log' = log
    BY <1>3, <1>4, <1>7, <2>1, StillUndisturbed
  <2>3. \A i \in TagsNamed(j, reqOf[j].label) : tag[i].by = j
    BY <1>3, <2>1, <2>2 DEF TagMade, MadeBy, MadeIn
  <2>4. CASE t \in DOMAIN tag /\ tag[t] # None /\ tag'[t] = tag[t]
    <3>1. tag[t].by \in Open \ {j} => tag[t].by = k /\ k \in Open /\ k \notin Open'
      BY <1>2, <1>3, <2>4
    <3>2. ~(tag[t].by = k /\ k \in Open /\ k \notin Open')
      <4>1. SUFFICES ASSUME tag[t].by = k, k \in Open, k \notin Open'
                     PROVE  FALSE
        OBVIOUS
      <4>2. pc[k] \in Working /\ pc'[k] \notin Working
        BY <1>1, <4>1 DEF Open
      <4>3. pc'[k] # "failed"
        BY <1>3, <2>4, <4>1, FailedLeaves DEF MadeIn
      <4>4. reqOf[k].op \in {"import.run", "tag.create"}
        BY <1>1, <2>4, <4>1, TransferAssumption DEF Authors, Labelled
      <4>5. log' # log
        <5>1. log' = Append(log, k)
          BY <4>2, <4>3, <4>4, StepPace DEF Previews, Begins, Works, Logs, Closes, Working, Previewing
        <5>2. log \in Seq(Job)
          BY DEF Core, Types, TypeOK
        <5>3. Len(log') = Len(log) + 1 /\ Len(log) \in Nat
          BY <1>1, <5>1, <5>2, AppendProperties, LenProperties
        <5>. QED
          BY <5>3
      <4>. QED
        BY <2>2, <4>5
    <3>. QED
      BY <1>5, <2>3, <2>4, <3>1, <3>2
  <2>5. CASE tag'[t].by = k /\ pc[k] = "tagging" /\ pc'[k] = AfterTag(k)
    <3>1. k \in Open'
      BY <1>1, <2>5 DEF Open, AfterTag, Working
    <3>. QED
      BY <1>3, <1>7, <2>5, <3>1
  <2>. QED
    BY <1>6, <2>4, <2>5
<1>8. CASE j = k
  <2>1. Open' = Open \cup {k}
    BY <1>2, <1>4, <1>8
  <2>2. CASE tag'[t].by = k
    BY <1>8, <2>2
  <2>3. CASE t \in DOMAIN tag /\ tag[t] # None /\ tag'[t] = tag[t] /\ tag'[t].by # k
    <3>1. t \in TagsNamed(k, reqOf[k].label)
      BY <1>3, <1>5, <1>8, <2>1, <2>3
    <3>2. ~(pc[k] = "tag" /\ pc'[k] = "tagging" /\ TagsNamed(k, reqOf[k].label) = {})
      BY <3>1
    <3>3. pc[k] \in Working
      <4>1. SUFFICES ASSUME pc[k] \notin Working, pc'[k] = "tag", tag' = tag
                     PROVE  FALSE
        BY <1>4, <1>8, ImportTags DEF Working, PastTag, Writing
      <4>2. k \in Open' \ Open
        BY <1>4, <1>8, <4>1 DEF Open
      <4>. QED
        BY <1>2, <1>3, <1>8, <4>1, <4>2 DEF Working
    <3>4. began'[k] = began[k]
      BY <3>3, StepPace DEF Previews, Begins, Works, Logs, Closes, Working
    <3>5. Undisturbed(k)
      BY <1>1, <1>3, <1>8, <3>4, StillUndisturbed
    <3>6. pc[k] = "tagging" \/ MadeIn(tag, k)
      <4>1. pc'[k] # "tagging"
        BY <1>4, <1>8, <3>2, <3>3, ImportTags DEF PastTag, Writing
      <4>2. tag' = tag \/ pc[k] = "tagging"
        BY <1>4, <1>8, <3>3, ImportTags DEF tables
      <4>. QED
        BY <1>3, <1>8, <4>1, <4>2
    <3>. QED
      BY <1>3, <1>8, <2>3, <3>1, <3>3, <3>5, <3>6 DEF TagMade, MadeBy, MadeIn
  <2>. QED
    BY <1>6, <2>2, <2>3
<1>. QED
  BY <1>7, <1>8

-----------------------------------------------------------------------------
(* An import that makes a company or a person makes a lead.                *)

\* How an import comes to write its rows, and writes them.
LEMMA WritingSteps ==
  ASSUME Core, NEW k \in mix, Step(k), reqOf[k].op = "import.run",
         pc'[k] \in Writing \cup {"committing"}
  PROVE  \/ WriteCompany(k) \/ WritePerson(k) \/ FindLead(k) \/ (WriteLead(k) /\ ~Fail(k))
         \/ PlanPerson(k) /\ pc[k] = "person" /\ pc'[k] = "writing" /\ UNCHANGED tables
<1>1. k \in Job /\ pc \in [Job -> Where] /\ Fits(k)
  BY DEF Core, Types
<1>2. ~Fail(k)
  BY <1>1 DEF Fail, Goto, Writing
<1>3. ~Begin(k) /\ ~FindTag(k) /\ ~CreateTag(k)
  <2>1. ~Begin(k)
    BY <1>1 DEF Begin, Goto, Writing
  <2>2. ~FindTag(k)
    BY <1>1 DEF FindTag, Goes, Goto, AfterTag, Writing
  <2>3. ~CreateTag(k)
    BY <1>1, <1>2 DEF CreateTag, Goto, AfterTag, Writing
  <2>. QED
    BY <2>1, <2>2, <2>3
<1>4. ~PlanCompany(k)
  BY <1>1 DEF PlanCompany, Goes, Goto, Writing
<1>5. CASE PlanPerson(k)
  <2>1. pc[k] = "person" /\ pc'[k] = "writing"
    BY <1>1, <1>5 DEF PlanPerson, Planned, Goes, Goto, Writing
  <2>2. UNCHANGED tables
    BY <1>5 DEF PlanPerson, Planned, Goes
  <2>. QED
    BY <1>5, <2>1, <2>2
<1>6. ~PlanNothing(k)
  BY <1>1, <1>2 DEF PlanNothing, Goes, Goto, Writing, Fits, Working
<1>7. ~Commit(k) /\ ~Preview(k) /\ ~CountPage(k) /\ ~ReadPage(k)
  BY <1>1 DEF Commit, Preview, CountPage, ReadPage, Goto, Writing, Fits
<1>8. ~EditRecord(k) /\ ~Unlink(k)
  BY DEF EditRecord, Unlink, Edit
<1>. QED
  BY <1>2, <1>3, <1>4, <1>5, <1>6, <1>7, <1>8 DEF Step, Refuse, LinkRefused, DeadlockAbort

\* An import that has made no lead has made no company and no person, but those of
\* the row it is at: a lead that is there already refers to neither.
Yielding ==
  \A j \in Imports : pc[j] \in Writing \cup {"committing"} =>
    \/ MadeBy(j, lead)
    \/ /\ \A id \in DOMAIN company : company[id] # None /\ company[id].by = j =>
            /\ pc[j] \in {"landing", "finding", "leading"}
            /\ id = landed[j][Len(landed[j])].company
       /\ \A id \in DOMAIN person : person[id] # None /\ person[id].by = j =>
            /\ pc[j] \in {"finding", "leading"}
            /\ id = landed[j][Len(landed[j])].person

\* What of it is about companies, and people, of an import in place at, at the row r.
FewMade(j, at, row, tc, tp) ==
  /\ \A id \in DOMAIN tc : tc[id] # None /\ tc[id].by = j =>
       at \in {"landing", "finding", "leading"} /\ id = row.company
  /\ \A id \in DOMAIN tp : tp[id] # None /\ tp[id].by = j =>
       at \in {"finding", "leading"} /\ id = row.person

LEMMA YieldingStep ==
  ASSUME Core, Authors, Reach, Yielding, NEW k \in mix, Step(k)
  PROVE  Yielding'
<1>1. /\ Frame(k) /\ k \in Job /\ mix \subseteq Job /\ mix' = mix /\ pc \in [Job -> Where]
      /\ company \in TableOf(CompanyRow) /\ person \in TableOf(PersonRow)
      /\ lead \in TableOf(LeadRow) /\ DOMAIN company \subseteq Nat /\ DOMAIN person \subseteq Nat
      /\ GoesOn(company, company', k) /\ GoesOn(person, person', k)
  BY StepFrame, TablesGoOn, TableFacts DEF Core, Types, TypeOK, Frame
<1>2. SUFFICES ASSUME NEW j \in Imports, pc'[j] \in Writing \cup {"committing"}, ~MadeIn(lead', j)
               PROVE  FewMade(j, pc'[j], landed'[j][Len(landed'[j])], company', person')
  BY <1>1 DEF Yielding, Imports, MadeBy, MadeIn, FewMade
<1>3. j \in Job /\ j \in mix /\ reqOf[j].op = "import.run"
  BY <1>1, <1>2 DEF Imports
<1>4. CASE j # k
  <2>1. pc'[j] = pc[j] /\ landed'[j] = landed[j] /\ j \in Open \ {k}
    BY <1>1, <1>2, <1>3, <1>4 DEF Frame, Open, Writing, Working
  <2>2. ~MadeBy(j, lead)
    BY <1>2, <2>1, OpenLeadsStay DEF MadeBy, MadeIn
  <2>3. FewMade(j, pc[j], landed[j][Len(landed[j])], company, person)
    BY <1>2, <2>1, <2>2 DEF Yielding, FewMade
  <2>4. /\ \A id \in DOMAIN company' : company'[id] # None /\ company'[id].by = j =>
             id \in DOMAIN company /\ company[id] # None /\ company[id].by = j
        /\ \A id \in DOMAIN person' : person'[id] # None /\ person'[id].by = j =>
             id \in DOMAIN person /\ person[id] # None /\ person[id].by = j
    BY <1>1, <1>4 DEF GoesOn
  <2>. QED
    BY <2>1, <2>3, <2>4 DEF FewMade
<1>5. CASE j = k /\ pc[k] = "person" /\ UNCHANGED tables
  <2>1. ~MadeIn(company, k) /\ ~MadeIn(person, k)
    BY <1>1, <1>5, TransferAssumption DEF Authors, WrittenIn, MadeIn, Writing
  <2>2. company' = company /\ person' = person
    BY <1>5 DEF tables
  <2>. QED
    BY <1>5, <2>1, <2>2 DEF FewMade, MadeIn
<1>6. CASE j = k /\ pc[k] \in Writing
  <2>1. ~MadeIn(lead, k)
    <3>1. lead' = lead \/ \E row : lead' = Append(lead, row)
      <4>1. pc'[k] # "failed" /\ reqOf[k].op \notin Edit
        BY <1>2, <1>3, <1>6 DEF Writing, Edit
      <4>. QED
        BY <4>1, StepMoves DEF Moves
    <3>. QED
      BY <1>1, <1>2, <1>6, <3>1, AppendAny DEF MadeIn
  <2>2. FewMade(k, pc[k], landed[k][Len(landed[k])], company, person)
    BY <1>2, <1>6, <2>1 DEF Yielding, FewMade, MadeBy, MadeIn
  <2>3. CASE WriteCompany(k)
    <3>1. PICK n, ref : n = RowNow(k) /\ ref = plan[k][n].company
      OBVIOUS
    <3>2. /\ pc[k] = "writing" /\ pc'[k] = "landing" /\ Len(landed'[k]) = n /\ person' = person
      BY <2>3, <3>1, CompanyWritten
    <3>3. ~MadeIn(company, k) /\ ~MadeIn(person, k)
      BY <2>2, <3>2 DEF FewMade, MadeIn
    <3>4. LET id == landed'[k][n].company
          IN company' = company \/ (id = Len(company) + 1 /\ company' = Append(company, NewCompany(k, n)))
      BY <2>3, <3>1, CompanyWritten, SMTT(60)
    <3>5. \A id \in DOMAIN company' : company'[id] # None /\ company'[id].by = k =>
            id = landed'[k][n].company
      BY <1>1, <3>3, <3>4, AppendAny DEF MadeIn
    <3>. QED
      BY <1>6, <3>2, <3>3, <3>5 DEF FewMade, MadeIn
  <2>4. CASE WritePerson(k)
    <3>1. PICK n, ref : n = Len(landed[k]) /\ ref = plan[k][n].person
      OBVIOUS
    <3>2. /\ pc[k] = "landing" /\ pc'[k] = "finding" /\ Len(landed'[k]) = n /\ company' = company
          /\ landed'[k][n].company = landed[k][n].company
      BY <2>4, <3>1, PersonWritten
    <3>3. ~MadeIn(person, k)
      BY <2>2, <3>2 DEF FewMade, MadeIn
    <3>4. LET id == landed'[k][n].person
          IN person' = person \/ (id = Len(person) + 1 /\ person' = Append(person, NewPerson(k, n)))
      BY <2>4, <3>1, PersonWritten, SMTT(60)
    <3>5. \A id \in DOMAIN person' : person'[id] # None /\ person'[id].by = k =>
            id = landed'[k][n].person
      BY <1>1, <3>3, <3>4, AppendAny DEF MadeIn
    <3>. QED
      BY <1>6, <2>2, <3>1, <3>2, <3>5 DEF FewMade
  <2>5. CASE FindLead(k)
    <3>1. PICK n, at : n = Len(landed[k]) /\ at = landed[k][n]
      OBVIOUS
    <3>2. /\ pc[k] = "finding" /\ company' = company /\ person' = person /\ lead' = lead
      BY <2>5 DEF FindLead, Goes, tables
    <3>3. CASE landed' = landed /\ pc'[k] = "leading"
      BY <1>6, <2>2, <3>2, <3>3 DEF FewMade
    <3>4. ASSUME NEW id \in FindLeads(k, reqOf[k].csv, Row(k, n), at)
          PROVE  ~MadeIn(company, k) /\ ~MadeIn(person, k)
      <4>1. /\ id \in DOMAIN lead /\ lead[id] # None /\ lead[id].by # k
            /\ lead[id].company = at.company /\ lead[id].person = at.person
        BY <2>1, <3>4 DEF FindLeads, Ids, Sees, MadeIn
      <4>2. /\ Reaches(lead[id].by, company, at.company) /\ Reaches(lead[id].by, person, at.person)
        BY <4>1 DEF Reach
      <4>3. k \in Open \ {lead[id].by}
        BY <1>6, <4>1 DEF Open, Writing, Working
      <4>4. ASSUME NEW c \in DOMAIN company, company[c] # None, company[c].by = k
            PROVE  FALSE
        <5>1. c = at.company /\ c # None
          BY <1>1, <2>2, <3>1, <4>4, TransferAssumption DEF FewMade
        <5>. QED
          BY <4>2, <4>3, <4>4, <5>1 DEF Reaches
      <4>5. ASSUME NEW p \in DOMAIN person, person[p] # None, person[p].by = k
            PROVE  FALSE
        <5>1. p = at.person /\ p # None
          BY <1>1, <2>2, <3>1, <4>5, TransferAssumption DEF FewMade
        <5>. QED
          BY <4>2, <4>3, <4>5, <5>1 DEF Reaches
      <4>. QED
        BY <4>4, <4>5 DEF MadeIn
    <3>5. \/ landed' = landed /\ pc'[k] = "leading"
          \/ \E id : id \in FindLeads(k, reqOf[k].csv, Row(k, n), at)
      <4>. DEFINE found == FindLeads(k, reqOf[k].csv, Row(k, n), at)
      <4>1. CASE found = {}
        BY <1>1, <2>5, <3>1, <4>1 DEF FindLead, Goes, Goto
      <4>2. CASE found # {}
        BY <4>2
      <4>. QED
        BY <4>1, <4>2
    <3>. QED
      BY <1>6, <3>2, <3>3, <3>4, <3>5 DEF FewMade, MadeIn
  <2>6. CASE WriteLead(k) /\ ~Fail(k)
    <3>1. PICK n : n = Len(landed[k])
      OBVIOUS
    <3>2. lead' = Append(lead, NewLead(k, n)) /\ n \in 1..Len(Rows(k)) /\ n \in 1..Len(landed[k])
      <4>1. lead' = Append(lead, NewLead(k, n))
        BY <2>6, <3>1 DEF WriteLead
      <4>2. pc[k] \in Writing \ {"writing"}
        BY <2>6 DEF WriteLead, Writing
      <4>. QED
        BY <3>1, <4>1, <4>2, RowAt
    <3>3. NewLead(k, n) # None /\ NewLead(k, n).by = k
      BY <1>1, <1>3, <1>6, <3>2, NewRows DEF NewLead
    <3>. QED
      BY <1>1, <1>2, <1>6, <3>2, <3>3, AppendAny DEF MadeIn
  <2>7. ~(pc[k] = "person")
    BY <1>6 DEF Writing
  <2>. QED
    BY <1>2, <1>3, <1>6, <2>3, <2>4, <2>5, <2>6, <2>7, WritingSteps
<1>7. j = k => pc[k] \in Writing \/ (pc[k] = "person" /\ UNCHANGED tables)
  <2>1. WriteCompany(k) \/ WritePerson(k) \/ FindLead(k) \/ WriteLead(k) => pc[k] \in Writing
    BY DEF WriteCompany, WritePerson, FindLead, WriteLead, Writing
  <2>. QED
    BY <1>2, <1>3, <2>1, WritingSteps
<1>. QED
  BY <1>4, <1>5, <1>6, <1>7

-----------------------------------------------------------------------------
(* What an import wrote is as it wrote it.                                 *)

\* The records that rows made have their data, and the leads their channel.
FirmCompany(j, n) ==
  plan[j][n].company.kind = "new" =>
    company[landed[j][n].company] = NewCompany(j, plan[j][n].company.of)
FirmPerson(j, n) ==
  /\ plan[j][n].person.kind = "existing" => landed[j][n].person = plan[j][n].person.of
  /\ plan[j][n].person.kind = "new" =>
       /\ person[landed[j][n].person] = NewPerson(j, plan[j][n].person.of)
       /\ landed[j][n].person = landed[j][plan[j][n].person.of].person
FirmLead(j, n) ==
  "engagement.channel" \in Supplied(j) =>
    lead[landed[j][n].lead].channel = Row(j, n)["engagement.channel"]

\* Each record an import made is that of a row.
FirmRows(j, table, what) ==
  \A id \in DOMAIN table : table[id] # None /\ table[id].by = j =>
    \E n \in 1..Len(landed[j]) : plan[j][n][what].kind = "new" /\ landed[j][n][what] = id

AsWritten(j) ==
  /\ \A n \in 1..Len(landed[j]) :
       /\ FirmCompany(j, n)
       /\ n < Len(landed[j]) \/ pc[j] # "landing" => FirmPerson(j, n)
       /\ n < Len(landed[j]) \/ pc[j] \notin {"landing", "finding", "leading"} => FirmLead(j, n)
  /\ FirmRows(j, company, "company") /\ FirmRows(j, person, "person")

Firm ==
  \A j \in Imports :
    pc[j] \in Writing \cup {"committing", "ok"} /\ Since(j, Edit) => AsWritten(j)

LEMMA FirmAgain ==
  ASSUME NEW j \in Job, Remain(j), NEW n \in Nat, n \in 1..n, plan'[j] = plan[j]
  PROVE  /\ FirmCompany(j, n) /\ CompanyLanded(j, n)
            /\ landed'[j][n].company = landed[j][n].company
              => FirmCompany(j, n)'
         /\ FirmPerson(j, n) /\ PersonLanded(j, n) /\ PersonFits(j, n)
            /\ (\A m \in 1..n : landed'[j][m].person = landed[j][m].person)
              => FirmPerson(j, n)'
         /\ FirmLead(j, n) /\ LeadLanded(j, n) /\ landed'[j][n].lead = landed[j][n].lead
              => FirmLead(j, n)'
<1>1. \A m : NewCompany(j, m)' = NewCompany(j, m) /\ NewPerson(j, m)' = NewPerson(j, m)
  BY RowFixed DEF NewCompany, NewPerson
<1>2. Row(j, n)' = Row(j, n) /\ Supplied(j)' = Supplied(j)
  BY RowFixed
<1>3. ASSUME FirmCompany(j, n), CompanyLanded(j, n), landed'[j][n].company = landed[j][n].company
      PROVE  FirmCompany(j, n)'
  BY <1>1, <1>3 DEF FirmCompany, CompanyLanded, Remain
<1>4. ASSUME FirmPerson(j, n), PersonLanded(j, n), PersonFits(j, n),
             \A m \in 1..n : landed'[j][m].person = landed[j][m].person
      PROVE  FirmPerson(j, n)'
  <2>1. plan[j][n].person.kind = "new" => plan[j][n].person.of \in 1..n
    BY <1>4 DEF PersonFits
  <2>2. plan[j][n].person.kind = "new" =>
          person'[landed[j][n].person] = person[landed[j][n].person]
    BY <1>4 DEF PersonLanded, Remain
  <2>. QED
    BY <1>1, <1>4, <2>1, <2>2 DEF FirmPerson
<1>5. ASSUME FirmLead(j, n), LeadLanded(j, n), landed'[j][n].lead = landed[j][n].lead
      PROVE  FirmLead(j, n)'
  BY <1>2, <1>5 DEF FirmLead, LeadLanded, Remain
<1>. QED
  BY <1>3, <1>4, <1>5

\* All that is known of the rows of an import that is writing, or through.
LEMMA FirmFacts ==
  ASSUME Core, Landings, Firm, NEW j \in Imports,
         pc[j] \in Writing \cup {"committing", "ok"}, Since(j, Edit)
  PROVE  /\ j \in Job /\ Len(landed[j]) \in Nat /\ Len(landed[j]) <= Len(plan[j])
         /\ \A n \in 1..Len(landed[j]) :
              /\ n \in Nat /\ n \in 1..n /\ 1..n \subseteq 1..Len(landed[j])
              /\ CompanyFits(j, n) /\ PersonFits(j, n)
              /\ CompanyLanded(j, n) /\ FirmCompany(j, n)
              /\ n < Len(landed[j]) \/ pc[j] # "landing" => PersonLanded(j, n) /\ FirmPerson(j, n)
              /\ ~(n < Len(landed[j]) \/ pc[j] # "landing") => landed[j][n].person = None
              /\ n < Len(landed[j]) \/ pc[j] \notin {"landing", "finding", "leading"}
                   => LeadLanded(j, n) /\ FirmLead(j, n)
         /\ FirmRows(j, company, "company") /\ FirmRows(j, person, "person")
<1>1. /\ j \in Job /\ Fits(j) /\ reqOf[j].op = "import.run"
      /\ pc[j] \in {"company", "person", "committing", "ok"} \cup Writing /\ pc[j] # "person"
  BY DEF Core, Types, Imports, Writing
<1>2. Aimed(j) /\ Arrived(j)
  BY <1>1 DEF Landings
<1>3. /\ Len(plan[j]) \in Nat /\ Len(landed[j]) \in Nat
      /\ \A N \in Nat : \A n \in 1..N : n \in Nat /\ n \in 1..n /\ 1..n \subseteq 1..N
  BY <1>1, RowNumbers
<1>4. Len(Rows(j)) \in Nat
  BY <1>1, RowsType DEF Importing
<1>5. Len(landed[j]) <= Len(plan[j])
  BY <1>1, <1>3, <1>4 DEF Fits, Writing
<1>6. ASSUME NEW n \in 1..Len(landed[j])
      PROVE  /\ CompanyFits(j, n) /\ PersonFits(j, n)
             /\ CompanyLanded(j, n)
             /\ n < Len(landed[j]) \/ pc[j] # "landing" => PersonLanded(j, n)
             /\ ~(n < Len(landed[j]) \/ pc[j] # "landing") => landed[j][n].person = None
             /\ n < Len(landed[j]) \/ pc[j] \notin {"landing", "finding", "leading"} => LeadLanded(j, n)
  <2>1. n \in 1..Len(plan[j])
    BY <1>3, <1>5
  <2>. QED
    BY <1>1, <1>2, <1>6, <2>1 DEF Aimed, Arrived
<1>7. AsWritten(j)
  BY DEF Firm
<1>. QED
  BY <1>1, <1>3, <1>5, <1>6, <1>7 DEF AsWritten

LEMMA FirmBeside ==
  ASSUME Core, History, Landings, Firm, NEW k \in mix, Step(k), NEW j \in Imports, j # k,
         pc'[j] \in Writing \cup {"committing", "ok"}, Since(j, Edit)'
  PROVE  AsWritten(j)'
<1>1. /\ j \in Job /\ j \in mix /\ pc'[j] = pc[j] /\ plan'[j] = plan[j]
      /\ landed'[j] = landed[j] /\ began'[j] = began[j]
      /\ GoesOn(company, company', k) /\ GoesOn(person, person', k)
  <2>1. j \in Job /\ j \in mix
    BY DEF Core, Types, Imports
  <2>2. Frame(k)
    BY StepFrame
  <2>. QED
    BY <2>1, <2>2, TablesGoOn DEF Frame
<1>2. Since(j, Edit) /\ (reqOf[k].op \notin Edit \/ log' = log)
  BY <1>1, SinceStep
<1>3. Remain(j)
  BY <1>1, <1>2, SeenRemains
<1>4. ASSUME NEW n \in 1..Len(landed[j])
      PROVE  /\ FirmCompany(j, n)'
             /\ n < Len(landed[j]) \/ pc[j] # "landing" => FirmPerson(j, n)'
             /\ n < Len(landed[j]) \/ pc[j] \notin {"landing", "finding", "leading"}
                  => FirmLead(j, n)'
  <2>1. /\ n \in Nat /\ n \in 1..n
        /\ CompanyFits(j, n) /\ PersonFits(j, n)
        /\ CompanyLanded(j, n) /\ FirmCompany(j, n)
        /\ n < Len(landed[j]) \/ pc[j] # "landing" => PersonLanded(j, n) /\ FirmPerson(j, n)
        /\ n < Len(landed[j]) \/ pc[j] \notin {"landing", "finding", "leading"}
             => LeadLanded(j, n) /\ FirmLead(j, n)
    BY <1>1, <1>2, FirmFacts
  <2>. QED
    BY <1>1, <1>3, <2>1, FirmAgain
<1>5. FirmRows(j, company, "company") /\ FirmRows(j, person, "person")
  BY <1>1, <1>2, FirmFacts
<1>6. FirmRows(j, company, "company")' /\ FirmRows(j, person, "person")'
  BY <1>1, <1>5 DEF FirmRows, GoesOn
<1>. QED
  BY <1>1, <1>4, <1>6 DEF AsWritten

LEMMA FirmWriteCompany ==
  ASSUME Core, Landings, Firm, NEW j \in Imports, WriteCompany(j), Remain(j), Since(j, Edit)
  PROVE  AsWritten(j)'
<1>. PICK n, ref : n = RowNow(j) /\ ref = plan[j][n].company
  OBVIOUS
<1>1. j \in mix /\ n = RowNow(j) /\ ref = plan[j][n].company
  BY DEF Imports
<1>2. /\ n \in Nat /\ n \in 1..n /\ Len(landed[j]) = n - 1 /\ n \in 1..Len(plan[j])
      /\ j \in Job /\ j \in mix /\ pc[j] = "writing" /\ pc'[j] = "landing" /\ plan' = plan
      /\ ref \in Ref /\ person' = person
      /\ Len(landed'[j]) = n /\ \A m \in 1..n - 1 : landed'[j][m] = landed[j][m]
  BY <1>1, CompanyWritten
<1>3. LET id == landed'[j][n].company
      IN \/ ref.kind = "none" /\ id = None /\ company' = company
         \/ ref.kind = "existing" /\ id = ref.of /\ company' = company
         \/ /\ ref.kind = "new" /\ ref.of \in 1..n - 1 /\ id # None
            /\ id = landed[j][ref.of].company /\ company' = company
         \/ /\ ref.kind = "new" /\ (ref.of \in 1..n - 1 => landed[j][ref.of].company = None)
            /\ id = Len(company) + 1 /\ company' = Append(company, NewCompany(j, n))
  BY <1>1, CompanyWritten, SMTT(60)
<1>4. \A m \in 1..n - 1 :
        /\ m \in Nat /\ m \in 1..m /\ m \in 1..Len(landed[j]) /\ m < n /\ m \in 1..n
        /\ \A i \in 1..m : i \in 1..n - 1
  BY <1>2
<1>5. /\ \A m \in 1..n - 1 : /\ PersonFits(j, m) /\ CompanyLanded(j, m) /\ FirmCompany(j, m)
                             /\ PersonLanded(j, m) /\ FirmPerson(j, m)
                             /\ LeadLanded(j, m) /\ FirmLead(j, m)
      /\ FirmRows(j, company, "company") /\ FirmRows(j, person, "person")
  BY <1>2, <1>4, FirmFacts DEF Writing
<1>6. \A m \in 1..n - 1 : FirmCompany(j, m)' /\ FirmPerson(j, m)' /\ FirmLead(j, m)'
  <2>. SUFFICES ASSUME NEW m \in 1..n - 1
                PROVE  FirmCompany(j, m)' /\ FirmPerson(j, m)' /\ FirmLead(j, m)'
    OBVIOUS
  <2>1. landed'[j][m] = landed[j][m] /\ \A i \in 1..m : landed'[j][i].person = landed[j][i].person
    BY <1>2, <1>4
  <2>. QED
    BY <1>2, <1>4, <1>5, <2>1, FirmAgain
<1>7. ref.kind = "new" =>
        /\ ref.of \in 1..n
        /\ ref.of \in 1..n - 1 => /\ landed[j][ref.of].company # None
                                  /\ company[landed[j][ref.of].company] = NewCompany(j, ref.of)
  <2>1. CompanyFits(j, n)
    <3>1. Aimed(j) /\ pc[j] # "person"
      BY <1>2 DEF Landings, Writing
    <3>. QED
      BY <1>2, <3>1 DEF Aimed
  <2>2. ref.kind = "new" => ref.of \in 1..n /\ plan[j][ref.of].company = ref
    BY <1>1, <2>1 DEF CompanyFits
  <2>. QED
    BY <1>5, <2>2 DEF CompanyLanded, FirmCompany
<1>8. NewCompany(j, ref.of)' = NewCompany(j, ref.of)
  BY <1>2, RowFixed DEF NewCompany
<1>9. company \in TableOf(CompanyRow)
  BY DEF Core, Types, TypeOK
<1>10. FirmCompany(j, n)'
  <2>1. SUFFICES ASSUME ref.kind = "new"
                 PROVE  company'[landed'[j][n].company] = NewCompany(j, ref.of)
    BY <1>1, <1>2, <1>8 DEF FirmCompany
  <2>2. CASE ref.of \in 1..n - 1
    BY <1>3, <1>7, <2>1, <2>2
  <2>3. CASE ref.of \notin 1..n - 1
    <3>1. ref.of = n
      BY <1>2, <1>7, <2>1, <2>3
    <3>2. landed'[j][n].company = Len(company) + 1 /\ company' = Append(company, NewCompany(j, n))
      BY <1>3, <2>1, <2>3
    <3>. QED
      BY <1>9, <3>1, <3>2, AppendAny
  <2>. QED
    BY <2>2, <2>3
<1>11. FirmRows(j, company, "company")'
  <2>. SUFFICES ASSUME NEW id \in DOMAIN company', company'[id] # None, company'[id].by = j
                PROVE  \E m \in 1..Len(landed'[j]) :
                         plan'[j][m].company.kind = "new" /\ landed'[j][m].company = id
    BY DEF FirmRows
  <2>1. CASE id \in DOMAIN company /\ company'[id] = company[id]
    <3>1. PICK m \in 1..Len(landed[j]) : plan[j][m].company.kind = "new" /\ landed[j][m].company = id
      BY <1>5, <2>1 DEF FirmRows
    <3>. QED
      BY <1>2, <1>4, <3>1
  <2>2. CASE ref.kind = "new" /\ id = landed'[j][n].company
    BY <1>1, <1>2, <2>2
  <2>. QED
    BY <1>3, <1>9, <2>1, <2>2, AppendAny
<1>12. FirmRows(j, person, "person")'
  <2>. SUFFICES ASSUME NEW id \in DOMAIN person, person[id] # None, person[id].by = j
                PROVE  \E m \in 1..Len(landed'[j]) :
                         plan'[j][m].person.kind = "new" /\ landed'[j][m].person = id
    BY <1>2 DEF FirmRows
  <2>1. PICK m \in 1..Len(landed[j]) : plan[j][m].person.kind = "new" /\ landed[j][m].person = id
    BY <1>5 DEF FirmRows
  <2>. QED
    BY <1>2, <1>4, <2>1
<1>13. \A m \in 1..Len(landed'[j]) : m \in 1..n - 1 \/ (m = n /\ ~(m < Len(landed'[j])))
  BY <1>2
<1>. QED
  BY <1>2, <1>6, <1>10, <1>11, <1>12, <1>13 DEF AsWritten

LEMMA FirmWritePerson ==
  ASSUME Core, Landings, Firm, NEW j \in Imports, WritePerson(j), Remain(j), Since(j, Edit)
  PROVE  AsWritten(j)'
<1>. PICK n, ref : n = Len(landed[j]) /\ ref = plan[j][n].person
  OBVIOUS
<1>1. j \in mix /\ n = Len(landed[j]) /\ ref = plan[j][n].person
  BY DEF Imports
<1>2. /\ n \in Nat /\ n \in 1..n /\ n \in 1..Len(plan[j])
      /\ j \in Job /\ pc[j] = "landing" /\ pc'[j] = "finding" /\ plan' = plan
      /\ ref \in Ref /\ company' = company
      /\ Len(landed'[j]) = n /\ \A m \in 1..n - 1 : landed'[j][m] = landed[j][m]
      /\ landed'[j][n].company = landed[j][n].company
  BY <1>1, PersonWritten
<1>3. LET id == landed'[j][n].person
      IN \/ ref.kind = "none" /\ id = landed[j][n].person /\ person' = person
         \/ ref.kind = "existing" /\ id = ref.of /\ person' = person
         \/ /\ ref.kind = "new" /\ ref.of \in 1..n /\ id # None
            /\ id = landed[j][ref.of].person /\ person' = person
         \/ /\ ref.kind = "new" /\ (ref.of \in 1..n => landed[j][ref.of].person = None)
            /\ id = Len(person) + 1 /\ person' = Append(person, NewPerson(j, n))
            /\ link' = link \cup LinkMade(j, id)
  BY <1>1, PersonWritten, SMTT(60)
<1>4. \A m \in 1..n - 1 :
        /\ m \in Nat /\ m \in 1..m /\ m \in 1..Len(landed[j]) /\ m < n /\ m \in 1..n
        /\ \A i \in 1..m : i \in 1..n - 1
  BY <1>1, <1>2
<1>5. /\ \A m \in 1..n - 1 : /\ PersonFits(j, m) /\ CompanyLanded(j, m) /\ FirmCompany(j, m)
                             /\ PersonLanded(j, m) /\ FirmPerson(j, m)
                             /\ LeadLanded(j, m) /\ FirmLead(j, m)
      /\ CompanyLanded(j, n) /\ FirmCompany(j, n) /\ PersonFits(j, n)
      /\ landed[j][n].person = None
      /\ FirmRows(j, company, "company") /\ FirmRows(j, person, "person")
  BY <1>1, <1>2, <1>4, FirmFacts DEF Writing
<1>6. \A m \in 1..n - 1 : FirmCompany(j, m)' /\ FirmPerson(j, m)' /\ FirmLead(j, m)'
  <2>. SUFFICES ASSUME NEW m \in 1..n - 1
                PROVE  FirmCompany(j, m)' /\ FirmPerson(j, m)' /\ FirmLead(j, m)'
    OBVIOUS
  <2>1. landed'[j][m] = landed[j][m] /\ \A i \in 1..m : landed'[j][i].person = landed[j][i].person
    BY <1>2, <1>4
  <2>. QED
    BY <1>2, <1>4, <1>5, <2>1, FirmAgain
<1>7. FirmCompany(j, n)'
  BY <1>2, <1>5, FirmAgain
<1>8. ref.kind = "new" =>
        /\ ref.of \in 1..n
        /\ ref.of \in 1..n - 1 => /\ landed[j][ref.of].person # None
                                  /\ person[landed[j][ref.of].person] = NewPerson(j, ref.of)
  <2>1. ref.kind = "new" => ref.of \in 1..n /\ plan[j][ref.of].person = ref
    BY <1>1, <1>5 DEF PersonFits
  <2>. QED
    BY <1>5, <2>1 DEF PersonLanded, FirmPerson
<1>9. NewPerson(j, ref.of)' = NewPerson(j, ref.of)
  BY <1>2, RowFixed DEF NewPerson
<1>10. person \in TableOf(PersonRow) /\ DOMAIN person \subseteq Nat
  BY TableFacts DEF Core, Types, TypeOK
<1>11. FirmPerson(j, n)'
  <2>1. SUFFICES ASSUME ref.kind = "new"
                 PROVE  /\ person'[landed'[j][n].person] = NewPerson(j, ref.of)
                        /\ landed'[j][n].person = landed'[j][ref.of].person
    <3>1. ref.kind = "existing" => landed'[j][n].person = ref.of
      BY <1>3
    <3>. QED
      BY <1>1, <1>2, <1>9, <3>1 DEF FirmPerson
  <2>2. CASE ref.of \in 1..n - 1
    BY <1>2, <1>3, <1>8, <2>1, <2>2
  <2>3. CASE ref.of \notin 1..n - 1
    <3>1. ref.of = n
      BY <1>2, <1>8, <2>1, <2>3
    <3>2. landed'[j][n].person = Len(person) + 1 /\ person' = Append(person, NewPerson(j, n))
      BY <1>3, <1>5, <2>1, <3>1
    <3>. QED
      BY <1>10, <3>1, <3>2, AppendAny
  <2>. QED
    BY <2>2, <2>3
<1>12. FirmRows(j, person, "person")'
  <2>. SUFFICES ASSUME NEW id \in DOMAIN person', person'[id] # None, person'[id].by = j
                PROVE  \E m \in 1..Len(landed'[j]) :
                         plan'[j][m].person.kind = "new" /\ landed'[j][m].person = id
    BY DEF FirmRows
  <2>1. CASE id \in DOMAIN person /\ person'[id] = person[id]
    <3>1. PICK m \in 1..Len(landed[j]) : plan[j][m].person.kind = "new" /\ landed[j][m].person = id
      BY <1>5, <2>1 DEF FirmRows
    <3>2. m # n
      BY <1>5, <1>10, <2>1, <3>1, TransferAssumption
    <3>3. m \in 1..n - 1
      BY <1>1, <1>2, <3>2
    <3>4. landed'[j][m] = landed[j][m] /\ m \in 1..Len(landed'[j]) /\ plan'[j][m] = plan[j][m]
      BY <1>2, <1>4, <3>3
    <3>. QED
      BY <3>1, <3>4
  <2>2. CASE ref.kind = "new" /\ id = landed'[j][n].person
    BY <1>1, <1>2, <2>2
  <2>3. \/ person' = person
        \/ /\ ref.kind = "new" /\ landed'[j][n].person = Len(person) + 1
           /\ person' = Append(person, NewPerson(j, n))
    BY <1>3
  <2>4. ASSUME person' = Append(person, NewPerson(j, n))
        PROVE  (id \in DOMAIN person /\ person'[id] = person[id]) \/ id = Len(person) + 1
    BY <1>10, <2>4, AppendAny
  <2>. QED
    BY <2>1, <2>2, <2>3, <2>4
<1>13. FirmRows(j, company, "company")'
  <2>. SUFFICES ASSUME NEW id \in DOMAIN company, company[id] # None, company[id].by = j
                PROVE  \E m \in 1..Len(landed'[j]) :
                         plan'[j][m].company.kind = "new" /\ landed'[j][m].company = id
    BY <1>2 DEF FirmRows
  <2>1. PICK m \in 1..Len(landed[j]) : plan[j][m].company.kind = "new" /\ landed[j][m].company = id
    BY <1>5 DEF FirmRows
  <2>2. m \in 1..n - 1 \/ m = n
    BY <1>1, <1>2
  <2>. QED
    BY <1>1, <1>2, <2>1, <2>2
<1>14. \A m \in 1..Len(landed'[j]) : m \in 1..n - 1 \/ (m = n /\ ~(m < Len(landed'[j])))
  BY <1>2
<1>. QED
  BY <1>2, <1>6, <1>7, <1>11, <1>12, <1>13, <1>14 DEF AsWritten

LEMMA FirmFindLead ==
  ASSUME Core, Landings, Firm, NEW j \in Imports, FindLead(j) \/ (WriteLead(j) /\ ~Fail(j)),
         Remain(j), Since(j, Edit)
  PROVE  AsWritten(j)'
<1>. PICK n : n = Len(landed[j])
  OBVIOUS
<1>1. j \in mix /\ n = Len(landed[j])
  BY DEF Imports
<1>2. /\ n \in Nat /\ n \in 1..n /\ n \in 1..Len(plan[j]) /\ n \in 1..Len(Rows(j))
      /\ j \in Job /\ reqOf[j].op = "import.run" /\ plan' = plan
      /\ pc[j] \in {"finding", "leading"} /\ pc'[j] # "landing"
      /\ company' = company /\ person' = person
      /\ Len(landed'[j]) = n /\ \A m \in 1..n - 1 : landed'[j][m] = landed[j][m]
      /\ landed'[j][n].company = landed[j][n].company
      /\ landed'[j][n].person = landed[j][n].person
  BY <1>1, LeadWritten
<1>3. \/ pc'[j] = "leading"
      \/ /\ landed'[j][n].lead \in FindLeads(j, reqOf[j].csv, Row(j, n), landed[j][n])
         /\ lead' = lead
      \/ landed'[j][n].lead = Len(lead) + 1 /\ lead' = Append(lead, NewLead(j, n))
  BY <1>1, LeadWritten, SMTT(60)
<1>4. \A m \in 1..n - 1 :
        /\ m \in Nat /\ m \in 1..m /\ m \in 1..Len(landed[j]) /\ m < n /\ m \in 1..n
        /\ \A i \in 1..m : i \in 1..n - 1
  BY <1>1, <1>2
<1>5. /\ \A m \in 1..n - 1 : /\ PersonFits(j, m) /\ CompanyLanded(j, m) /\ FirmCompany(j, m)
                             /\ PersonLanded(j, m) /\ FirmPerson(j, m)
                             /\ LeadLanded(j, m) /\ FirmLead(j, m)
      /\ CompanyLanded(j, n) /\ FirmCompany(j, n)
      /\ PersonFits(j, n) /\ PersonLanded(j, n) /\ FirmPerson(j, n)
      /\ FirmRows(j, company, "company") /\ FirmRows(j, person, "person")
  BY <1>1, <1>2, <1>4, FirmFacts DEF Writing
<1>6. \A m \in 1..n - 1 : FirmCompany(j, m)' /\ FirmPerson(j, m)' /\ FirmLead(j, m)'
  <2>. SUFFICES ASSUME NEW m \in 1..n - 1
                PROVE  FirmCompany(j, m)' /\ FirmPerson(j, m)' /\ FirmLead(j, m)'
    OBVIOUS
  <2>1. landed'[j][m] = landed[j][m] /\ \A i \in 1..m : landed'[j][i].person = landed[j][i].person
    BY <1>2, <1>4
  <2>. QED
    BY <1>2, <1>4, <1>5, <2>1, FirmAgain
<1>7. \A i \in 1..n : i \in 1..n - 1 \/ i = n
  BY <1>2
<1>8. FirmCompany(j, n)' /\ FirmPerson(j, n)'
  <2>1. \A i \in 1..n : landed'[j][i].person = landed[j][i].person
    BY <1>2, <1>7
  <2>. QED
    BY <1>2, <1>5, <2>1, FirmAgain
<1>9. pc'[j] # "leading" => FirmLead(j, n)'
  <2>1. Row(j, n)' = Row(j, n) /\ Supplied(j)' = Supplied(j)
    BY <1>2, RowFixed
  <2>2. CASE landed'[j][n].lead \in FindLeads(j, reqOf[j].csv, Row(j, n), landed[j][n]) /\ lead' = lead
    BY <2>1, <2>2 DEF FindLeads, FirmLead, Supplied
  <2>3. CASE landed'[j][n].lead = Len(lead) + 1 /\ lead' = Append(lead, NewLead(j, n))
    <3>1. lead'[landed'[j][n].lead] = NewLead(j, n)
      BY <2>3, AppendAny DEF Core, Types, TypeOK
    <3>2. NewLead(j, n).channel = Row(j, n)["engagement.channel"]
      BY DEF NewLead
    <3>. QED
      BY <2>1, <3>1, <3>2 DEF FirmLead
  <2>. QED
    BY <1>3, <2>2, <2>3
<1>10. FirmRows(j, company, "company")' /\ FirmRows(j, person, "person")'
  <2>1. \A m \in 1..n : /\ landed'[j][m].company = landed[j][m].company
                        /\ landed'[j][m].person = landed[j][m].person
                        /\ plan'[j][m] = plan[j][m]
    BY <1>2, <1>7
  <2>2. Len(landed'[j]) = n /\ Len(landed[j]) = n
    BY <1>1, <1>2
  <2>3. FirmRows(j, company, "company")'
    BY <1>2, <1>5, <2>1, <2>2 DEF FirmRows
  <2>4. FirmRows(j, person, "person")'
    BY <1>2, <1>5, <2>1, <2>2 DEF FirmRows
  <2>. QED
    BY <2>3, <2>4
<1>11. \A m \in 1..Len(landed'[j]) : m \in 1..n - 1 \/ (m = n /\ ~(m < Len(landed'[j])))
  BY <1>2
<1>. QED
  BY <1>2, <1>6, <1>8, <1>9, <1>10, <1>11 DEF AsWritten

\* An import ends with its commit.
LEMMA CommitEnds ==
  ASSUME Core, NEW k \in mix, Step(k), reqOf[k].op = "import.run", pc'[k] = "ok"
  PROVE  /\ Commit(k) /\ pc[k] = "committing" /\ UNCHANGED tables /\ UNCHANGED locals
         /\ log' = Append(log, k) /\ ended' = [ended EXCEPT ![k] = Len(log) + 1] /\ began' = began
<1>1. k \in Job /\ pc \in [Job -> Where]
  BY DEF Core, Types
<1>2. pc[k] = "committing"
  BY <1>1, StepPace DEF Previews, Begins, Works, Logs, Closes, Working, Previewing, Edit
<1>3. ~Fail(k)
  BY <1>1 DEF Fail, Goto
<1>4. Commit(k)
  BY <1>2, <1>3 DEF Step, Preview, Refuse, Begin, MayRun, FindTag, CreateTag, PlanCompany,
     PlanPerson, PlanNothing, WriteCompany, WritePerson, LinkRefused, FindLead, WriteLead, CountPage,
     ReadPage, DeadlockAbort, EditRecord, Unlink
<1>. QED
  BY <1>2, <1>4 DEF Commit, Ends

LEMMA FirmStep ==
  ASSUME Core, History, Authors, Landings, Firm, NEW k \in mix, Step(k)
  PROVE  Firm'
<1>1. Frame(k) /\ k \in Job /\ mix \subseteq Job /\ mix' = mix
  BY StepFrame DEF Core, Types, Frame
<1>2. SUFFICES ASSUME NEW j \in Imports, pc'[j] \in Writing \cup {"committing", "ok"},
                      Since(j, Edit)'
               PROVE  AsWritten(j)'
  BY <1>1 DEF Firm, Imports
<1>3. j \in Job /\ j \in mix /\ reqOf[j].op = "import.run"
  BY <1>1 DEF Imports
<1>4. CASE j # k
  BY <1>2, <1>4, FirmBeside
<1>5. CASE j = k /\ PlanPerson(k) /\ pc[k] = "person" /\ pc'[k] = "writing" /\ UNCHANGED tables
  <2>1. Len(landed'[k]) = 0
    <3>1. landed' = landed /\ Fits(k)
      BY <1>1, <1>5 DEF PlanPerson, Core
    <3>. QED
      BY <1>5, <3>1, EmptySeq DEF Fits, Planning
  <2>2. ~MadeIn(company, k) /\ ~MadeIn(person, k)
    BY <1>1, <1>5, TransferAssumption DEF Authors, WrittenIn, MadeIn, Writing
  <2>3. company' = company /\ person' = person
    BY <1>5 DEF tables
  <2>. QED
    BY <1>5, <2>1, <2>2, <2>3 DEF AsWritten, FirmRows, MadeIn
<1>6. ASSUME j = k, pc[k] \in Writing \cup {"committing"}
      PROVE  Remain(k) /\ Since(k, Edit)
  <2>1. began'[k] = began[k] /\ pc'[k] # "failed" /\ reqOf[k].op \notin Edit
    <3>1. began'[k] = began[k]
      BY <1>6, StepPace DEF Previews, Begins, Works, Logs, Closes, Writing
    <3>. QED
      BY <1>2, <1>3, <1>6, <3>1 DEF Writing, Edit
  <2>. QED
    BY <1>1, <1>2, <1>6, <2>1, SinceStep, SeenRemains
<1>7. CASE j = k /\ pc'[k] = "ok"
  <2>1. /\ pc[k] = "committing" /\ UNCHANGED tables /\ UNCHANGED locals
    BY <1>3, <1>7, CommitEnds
  <2>2. /\ plan' = plan /\ landed' = landed /\ company' = company /\ person' = person
    BY <2>1 DEF tables, locals
  <2>3. Remain(k) /\ Since(k, Edit)
    BY <1>6, <1>7, <2>1
  <2>4. AsWritten(k)
    BY <1>2, <1>7, <2>1, <2>3 DEF Firm
  <2>5. ASSUME NEW n \in 1..Len(landed[k])
        PROVE  FirmCompany(k, n)' /\ FirmPerson(k, n)' /\ FirmLead(k, n)'
    <3>1. /\ n \in Nat /\ n \in 1..n
          /\ PersonFits(k, n)
          /\ CompanyLanded(k, n) /\ FirmCompany(k, n)
          /\ PersonLanded(k, n) /\ FirmPerson(k, n)
          /\ LeadLanded(k, n) /\ FirmLead(k, n)
      BY <1>2, <1>7, <2>1, <2>3, FirmFacts
    <3>. QED
      BY <1>1, <2>2, <2>3, <3>1, FirmAgain
  <2>. QED
    BY <1>7, <2>2, <2>4, <2>5 DEF AsWritten, FirmRows
<1>8. CASE j = k /\ (WriteCompany(k) \/ WritePerson(k) \/ FindLead(k) \/ (WriteLead(k) /\ ~Fail(k)))
  <2>1. pc[k] \in Writing \cup {"committing"}
    BY <1>8 DEF WriteCompany, WritePerson, FindLead, WriteLead, Writing
  <2>2. Remain(k) /\ Since(k, Edit)
    BY <1>6, <1>8, <2>1
  <2>. QED
    BY <1>2, <1>8, <2>2, FirmWriteCompany, FirmWritePerson, FirmFindLead
<1>. QED
  BY <1>2, <1>3, <1>4, <1>5, <1>7, <1>8, WritingSteps

-----------------------------------------------------------------------------
(* Running a CSV again.                                                    *)

\* Who works for a company that another import made was put there after that
\* import had committed.
WorksSince(l) ==
  LET c == company[l.company]
  IN c # None /\ c.by \notin {None, l.by} =>
       /\ l.by # None /\ pc[c.by] = "ok"
       /\ l.by \in Open \/ ended[c.by] < ended[l.by]
LinkOrder == \A l \in link : l.company \in DOMAIN company /\ WorksSince(l)

LEMMA LinkOrderInit == Init => LinkOrder
<1>. SUFFICES ASSUME Init, NEW l \in link
              PROVE  l.company \in DOMAIN company /\ WorksSince(l)
  BY DEF LinkOrder
<1>1. PICK w \in Workspaces : company = w.company /\ link = w.link
  BY DEF Init
<1>2. There(company, l.company) /\ Settled(company)
  BY <1>1, WorkspaceAssumption
<1>. QED
  BY <1>2 DEF There, Settled, WorksSince

LEMMA LinkOrderStep ==
  ASSUME Core, History, Authors, Reach, LinkOrder, NEW k \in mix, Step(k)
  PROVE  LinkOrder'
<1>1. /\ Frame(k) /\ k \in Job /\ mix' = mix /\ mix \subseteq Job /\ pc \in [Job -> Where]
      /\ ended \in [Job -> Nat] /\ Len(log) \in Nat /\ GoesOn(company, company', k)
      /\ k # None /\ pc[k] # "ok"
  <2>1. Frame(k)
    BY StepFrame
  <2>2. /\ mix \subseteq Job /\ pc \in [Job -> Where] /\ ended \in [Job -> Nat] /\ log \in Seq(Job)
    BY DEF Core, Types, TypeOK
  <2>3. k \in Job /\ k # None /\ Len(log) \in Nat
    BY <2>2, LenProperties, TransferAssumption
  <2>4. GoesOn(company, company', k)
    BY TablesGoOn
  <2>. QED
    BY <2>1, <2>2, <2>3, <2>4 DEF Frame
<1>2. ASSUME NEW l \in link', l \in link
      PROVE  (l.company \in DOMAIN company /\ WorksSince(l))'
  <2>1. l.company \in DOMAIN company /\ WorksSince(l)
    BY <1>2 DEF LinkOrder
  <2>2. l.company \in DOMAIN company'
    BY <1>1, <2>1 DEF GoesOn
  <2>3. SUFFICES ASSUME company'[l.company] # None, company'[l.company].by \notin {None, l.by}
                 PROVE  /\ l.by # None /\ pc'[company'[l.company].by] = "ok"
                        /\ l.by \in Open' \/ ended'[company'[l.company].by] < ended'[l.by]
    BY <2>2 DEF WorksSince
  <2>. DEFINE b == company[l.company].by
  <2>4. company[l.company] # None /\ company'[l.company].by = b
    BY <1>1, <2>1, <2>3 DEF GoesOn
  <2>5. /\ b \notin {None, l.by} /\ l.by # None /\ pc[b] = "ok"
        /\ l.by \in Open \/ ended[b] < ended[l.by]
    BY <2>1, <2>3, <2>4 DEF WorksSince
  <2>6. b \in Job /\ b # k /\ pc'[b] = "ok" /\ ended'[b] = ended[b]
    <3>1. b \in Job
      BY <2>1, <2>4, <2>5, <1>1 DEF Core, Tables, OwnedIn, OwnerIn
    <3>2. b # k
      BY <1>1, <2>5
    <3>. HIDE DEF b
    <3>. QED
      BY <1>1, <2>5, <3>1, <3>2 DEF Frame
  <2>. HIDE DEF b
  <2>7. /\ l.by \in Job /\ l.person \in DOMAIN person /\ person[l.person] # None
        /\ person[l.person].by = l.by /\ pc[l.by] \in Working \cup {"ok"}
    BY <1>1, <1>2, <2>5 DEF Core, Tables, LinksKnown, OwnedIn, OwnerIn
  <2>8. CASE l.by # k
    <3>1. ended'[l.by] = ended[l.by] /\ (l.by \in Open => l.by \in Open')
      BY <1>1, <2>7, <2>8 DEF Frame, Open
    <3>. QED
      BY <2>4, <2>5, <2>6, <3>1
  <2>9. CASE l.by = k
    <3>1. reqOf[k].op = "import.run" /\ pc[k] \in Writing \cup {"committing"}
      BY <1>1, <2>5, <2>7, <2>9 DEF Authors, WrittenIn
    <3>2. pc'[k] # "failed"
      BY <1>2, <2>9, FailedLeaves
    <3>3. Works(k) \/ Logs(k)
      BY <3>1, StepPace DEF Previews, Begins, Closes, Writing
    <3>4. CASE Works(k)
      <4>1. pc'[k] \in Working
        BY <3>1, <3>2, <3>4 DEF Works, Writing, Working
      <4>. QED
        BY <1>1, <2>4, <2>5, <2>6, <2>9, <4>1 DEF Open
    <3>5. CASE Logs(k)
      <4>1. ended'[k] = Len(log) + 1
        BY <1>1, <3>5 DEF Logs
      <4>2. ended[b] <= Len(log) /\ ended[b] \in Nat
        BY <1>1, <2>6 DEF History
      <4>. QED
        BY <1>1, <2>4, <2>5, <2>6, <2>9, <4>1, <4>2
    <3>. QED
      BY <3>3, <3>4, <3>5
  <2>. QED
    BY <2>8, <2>9
<1>3. ASSUME NEW l \in link', l \notin link
      PROVE  (l.company \in DOMAIN company /\ WorksSince(l))'
  <2>1. pc[k] = "landing" /\ l \in LinkMade(k, Len(person) + 1)
    BY <1>3, LinksGoOn
  <2>2. /\ reqOf[k].op = "import.run" /\ k \in Imports /\ Len(landed[k]) \in Nat
        /\ Len(landed[k]) \in 1..Len(landed[k])
    BY <1>1, <2>1, RowAt DEF Writing, Imports
  <2>3. /\ l.company = landed[k][Len(landed[k])].company /\ l.company # None /\ l.by = k
    BY <2>1 DEF LinkMade
  <2>4. Reaches(k, company, l.company)
    BY <2>2, <2>3 DEF Reach
  <2>5. /\ l.company \in DOMAIN company /\ l.company \in DOMAIN company'
        /\ company[l.company] # None => company[l.company].by \notin Open \ {k}
    BY <1>1, <2>3, <2>4 DEF Reaches, GoesOn
  <2>6. k \in Open'
    <3>1. pc'[k] # "failed"
      BY <1>3, <2>3, FailedLeaves
    <3>2. Works(k)
      BY <2>1, StepPace DEF Previews, Begins, Logs, Closes, Edit
    <3>3. pc'[k] \in Working
      BY <2>1, <3>1, <3>2 DEF Works, Writing, Working
    <3>. QED
      BY <1>1, <3>3 DEF Open
  <2>7. SUFFICES ASSUME company'[l.company] # None, company'[l.company].by \notin {None, k}
                 PROVE  pc'[company'[l.company].by] = "ok"
    BY <1>1, <2>3, <2>5, <2>6 DEF WorksSince
  <2>8. company[l.company] # None /\ company'[l.company].by = company[l.company].by
    BY <1>1, <2>5, <2>7 DEF GoesOn
  <2>9. company[l.company].by \in mix /\ pc[company[l.company].by] \in Working \cup {"ok"}
    BY <2>5, <2>7, <2>8 DEF Core, Tables, OwnedIn, OwnerIn
  <2>10. pc[company[l.company].by] = "ok"
    BY <2>5, <2>7, <2>8, <2>9 DEF Open
  <2>. QED
    BY <1>1, <2>7, <2>8, <2>9, <2>10 DEF Frame
<1>. QED
  BY <1>2, <1>3 DEF LinkOrder

\* Import l repeats import e: the same CSV under the same label, nothing else since e
\* began, and l begins after e ended, or has the tag that e made.
Repeats(e, l) ==
  /\ e # l /\ reqOf[e].csv = reqOf[l].csv /\ reqOf[e].label = reqOf[l].label
  /\ pc[e] = "ok" /\ Undisturbed(e) /\ Foldable(e)
  /\ pc[l] \in PastTag
  /\ ended[e] <= began[l] \/ (MadeBy(e, tag) /\ tag[tagOf[l]] # None)

\* Then l has made nothing, and its rows have the records of e's.
RefTo(id) == IF id = None THEN NoRef ELSE Existing(id)
Echoes(e, l) ==
  /\ pc[l] # "leading"
  /\ ~MadeBy(l, company) /\ ~MadeBy(l, person) /\ ~MadeBy(l, lead)
  /\ \A n \in 1..Len(plan[l]) :
       /\ plan[l][n].company = RefTo(landed[e][n].company)
       /\ n < Len(plan[l]) \/ pc[l] # "person" => plan[l][n].person = RefTo(landed[e][n].person)
  /\ \A n \in 1..Len(landed[l]) :
       /\ landed[l][n].company = landed[e][n].company
       /\ landed[l][n].person = IF n < Len(landed[l]) \/ pc[l] # "landing"
                                THEN landed[e][n].person ELSE None
Echo == \A e, l \in Imports : Repeats(e, l) => Echoes(e, l)

\* What is said of the rows of two calls with one CSV.
LEMMA SameCsv ==
  ASSUME NEW e, NEW l, reqOf[e].csv = reqOf[l].csv
  PROVE  /\ Rows(l) = Rows(e) /\ Supplied(l) = Supplied(e) /\ CompanyColumn(l) = CompanyColumn(e)
         /\ \A n : Row(l, n) = Row(e, n)
         /\ reqOf[e].label = reqOf[l].label => \A row : LeadSource(l, row) = LeadSource(e, row)
<1>1. Rows(l) = Rows(e) /\ Supplied(l) = Supplied(e)
  BY DEF Rows, Supplied
<1>2. \A n : Row(l, n) = Row(e, n)
  BY <1>1 DEF Row
<1>3. CompanyColumn(l) = CompanyColumn(e)
  BY <1>1 DEF CompanyColumn
<1>. QED
  BY <1>1, <1>2, <1>3 DEF LeadSource

LEMMA SameCsvKeys ==
  ASSUME NEW e, NEW l, reqOf[e].csv = reqOf[l].csv
  PROVE  /\ \A n, f : SameDataKey(l, f, n) = SameDataKey(e, f, n)
         /\ \A n, ref : PersonKey(l, n, ref) = PersonKey(e, n, ref)
<1>1. /\ Supplied(l) = Supplied(e) /\ CompanyColumn(l) = CompanyColumn(e)
      /\ \A n : Row(l, n) = Row(e, n)
  BY SameCsv
<1>2. \A n, f : SameDataKey(l, f, n) = SameDataKey(e, f, n)
  BY <1>1 DEF SameDataKey
<1>3. \A n, ref : PersonKey(l, n, ref) = PersonKey(e, n, ref)
  BY <1>1, <1>2 DEF PersonKey
<1>. QED
  BY <1>2, <1>3

\* All that is known of an import beside which nothing was committed.
LEMMA Through ==
  ASSUME Core, Logbook, Landings, Foreseen, Firm, NEW e \in Imports, pc[e] = "ok", Undisturbed(e)
  PROVE  /\ e \in Job /\ Importing(e) /\ reqOf[e].op = "import.run" /\ e # None
         /\ ended[e] = began[e] + 1 /\ began[e] \in Nat /\ Len(log) = ended[e]
         /\ Len(Rows(e)) \in Nat /\ Len(plan[e]) = Len(Rows(e)) /\ Len(landed[e]) = Len(Rows(e))
         /\ \A n \in 1..Len(Rows(e)) :
              /\ n \in Nat /\ n \in 1..n /\ 1..n \subseteq 1..Len(Rows(e))
              /\ Row(e, n) \in NamedRow
              /\ CompanyFits(e, n) /\ CompanyLanded(e, n) /\ FirmCompany(e, n)
              /\ PersonFits(e, n) /\ PersonLanded(e, n) /\ FirmPerson(e, n)
              /\ LeadLanded(e, n) /\ FirmLead(e, n)
              /\ plan[e][n].company \in Ref /\ plan[e][n].person \in Ref
              /\ plan[e][n].company = CompanyOf(e, n) /\ plan[e][n].person = PersonOf(e, n)
              /\ landed[e][n].company \in Nat \cup {None}
              /\ landed[e][n].person \in Nat \cup {None}
         /\ FirmRows(e, company, "company") /\ FirmRows(e, person, "person")
<1>1. /\ e \in Job /\ Importing(e) /\ reqOf[e].op = "import.run" /\ e # None
      /\ began \in [Job -> Nat] /\ landed[e] \in Seq(LandedRow)
  BY TransferAssumption DEF Imports, Importing, Core, Types
<1>2. /\ Len(log) = ended[e] /\ ended[e] = began[e] + 1 /\ began[e] \in Nat
      /\ log[ended[e]] = e
  BY <1>1 DEF Undisturbed, Logbook, Writes
<1>3. Since(e, Edit)
  <2>1. \A n \in began[e] + 1..Len(log) : n = ended[e]
    BY <1>2
  <2>. QED
    BY <1>1, <1>2, <2>1 DEF Since, Between, Edit
<1>4. Len(plan[e]) = Len(Rows(e)) /\ Len(landed[e]) = Len(Rows(e))
  BY <1>1 DEF Core, Fits
<1>5. Len(Rows(e)) \in Nat /\ \A n \in 1..Len(Rows(e)) : Row(e, n) \in NamedRow
  BY <1>1, RowsType
<1>6. AsForeseen(e)
  BY DEF Foreseen
<1>7. \A n \in 1..Len(Rows(e)) : /\ plan[e][n].company = CompanyOf(e, n)
                                 /\ plan[e][n].person = PersonOf(e, n)
  BY <1>4, <1>6 DEF AsForeseen
<1>8. \A n \in 1..Len(Rows(e)) : plan[e][n].company \in Ref /\ plan[e][n].person \in Ref
  BY <1>1, <1>4, RefFacts
<1>9. \A n \in 1..Len(Rows(e)) : landed[e][n] \in LandedRow
  BY <1>1, <1>4, ElementOfSeq
<1>10. \A n \in 1..Len(Rows(e)) :
         /\ n \in Nat /\ n \in 1..n /\ 1..n \subseteq 1..Len(Rows(e))
         /\ CompanyFits(e, n) /\ CompanyLanded(e, n) /\ FirmCompany(e, n)
         /\ PersonFits(e, n) /\ PersonLanded(e, n) /\ FirmPerson(e, n)
         /\ LeadLanded(e, n) /\ FirmLead(e, n)
  BY <1>3, <1>4, FirmFacts DEF Writing
<1>11. FirmRows(e, company, "company") /\ FirmRows(e, person, "person")
  BY <1>3, FirmFacts DEF Writing
<1>. QED
  BY <1>1, <1>2, <1>4, <1>5, <1>7, <1>8, <1>9, <1>10, <1>11 DEF LandedRow

\* A job that has made nothing sees what was there when e began, and what e made.
LEMMA SeenByBoth ==
  ASSUME Core, Logbook, NEW e \in Imports, pc[e] = "ok", Undisturbed(e), NEW l \in Open,
         NEW t, OwnedIn(t, pc, mix), WrittenIn(t, pc), ~MadeBy(l, t)
  PROVE  /\ Ids(l, t) = OldIds(e, t) \cup {n \in DOMAIN t : t[n] # None /\ t[n].by = e}
         /\ Ids(e, t) \subseteq Ids(l, t)
         /\ \A n \in OldIds(e, t) :
              t[n].by # e /\ (t[n].by = None \/ (t[n].by \notin Open /\ ended[t[n].by] <= began[e]))
<1>1. /\ mix \subseteq Job /\ e \in Job /\ pc[l] \in Working /\ e # None /\ None \notin Open
      /\ l \in Job /\ reqOf[e].op = "import.run"
      /\ \A j \in Job : began[j] \in Nat /\ ended[j] \in Nat
  BY TransferAssumption DEF Imports, Open, Core, Types
<1>2. /\ ended[e] = began[e] + 1 /\ Len(log) = ended[e] /\ e \notin Open
      /\ log[ended[e]] = e
  BY <1>1 DEF Undisturbed, Open, Working, Logbook, Writes
<1>3. ASSUME NEW n \in DOMAIN t, t[n] # None, t[n].by # None
      PROVE  /\ t[n].by \in mix /\ reqOf[t[n].by].op = "import.run"
             /\ pc[t[n].by] \in Working \cup {"ok"}
  BY <1>3 DEF OwnedIn, OwnerIn, WrittenIn
<1>4. ASSUME NEW n \in OldIds(e, t)
      PROVE  /\ n \in DOMAIN t /\ t[n] # None /\ t[n].by # e
             /\ t[n].by = None \/ (t[n].by \notin Open /\ ended[t[n].by] <= began[e])
  <2>1. n \in DOMAIN t /\ t[n] # None /\ (t[n].by = None \/ ended[t[n].by] \in 1..began[e])
    BY DEF OldIds, OldIn
  <2>2. CASE t[n].by = None
    BY <1>1, <2>1, <2>2
  <2>3. CASE t[n].by # None
    <3>1. t[n].by \in Job /\ ended[t[n].by] \in 1..began[e]
      BY <1>1, <1>3, <2>1, <2>3
    <3>2. t[n].by # e
      BY <1>1, <1>2, <3>1
    <3>3. pc[t[n].by] = "ok"
      BY <1>1, <3>1 DEF Logbook
    <3>. QED
      BY <1>1, <2>1, <3>1, <3>2, <3>3 DEF Open, Working
  <2>. QED
    BY <2>2, <2>3
<1>5. ASSUME NEW n \in Ids(l, t)
      PROVE  n \in OldIds(e, t) \cup {m \in DOMAIN t : t[m] # None /\ t[m].by = e}
  <2>1. n \in DOMAIN t /\ t[n] # None /\ t[n].by \notin Open
    BY <1>5 DEF Ids, Sees, MadeBy
  <2>2. CASE t[n].by \in {None, e}
    BY <2>1, <2>2 DEF OldIds, OldIn
  <2>3. CASE t[n].by \notin {None, e}
    <3>. DEFINE b == t[n].by
    <3>1. b \in Job /\ reqOf[b].op = "import.run" /\ pc[b] = "ok" /\ b # e
      BY <1>1, <1>3, <2>1, <2>3 DEF Open
    <3>. HIDE DEF b
    <3>2. ended[b] \in DOMAIN log /\ log[ended[b]] = b
      BY <3>1 DEF Logbook, Writes
    <3>3. ended[b] \in 1..Len(log) /\ ended[b] # ended[e]
      BY <1>2, <3>1, <3>2, LenProperties DEF Core, Types, TypeOK
    <3>4. ended[b] \in 1..began[e]
      BY <1>1, <1>2, <3>1, <3>3
    <3>. QED
      BY <2>1, <3>4 DEF OldIds, OldIn, b
  <2>. QED
    BY <2>2, <2>3
<1>6. OldIds(e, t) \cup {n \in DOMAIN t : t[n] # None /\ t[n].by = e} \subseteq Ids(l, t)
  BY <1>1, <1>2, <1>4 DEF Ids, Sees
<1>7. Ids(e, t) \subseteq Ids(l, t)
  BY <1>2 DEF Ids, Sees
<1>. QED
  BY <1>4, <1>5, <1>6, <1>7

\* The records e made, and the rows that made them.
LEMMA MadeCompany ==
  ASSUME Core, Logbook, Landings, Foreseen, Firm, NEW e \in Imports, pc[e] = "ok", Undisturbed(e),
         NEW id \in DOMAIN company, company[id] # None, company[id].by = e
  PROVE  \E m \in 1..Len(Rows(e)) : /\ landed[e][m].company = id
                                    /\ company[id].data = [f \in CompanyField |-> Row(e, m)[f]]
                                    /\ Row(e, m)["company.name"] # None
<1>1. PICK n \in 1..Len(Rows(e)) : plan[e][n].company.kind = "new" /\ landed[e][n].company = id
  BY Through DEF FirmRows
<1>2. CompanyFits(e, n) /\ CompanyLanded(e, n) /\ FirmCompany(e, n) /\ 1..n \subseteq 1..Len(Rows(e))
  BY Through
<1>. PICK m : m = plan[e][n].company.of
  OBVIOUS
<1>3. m \in 1..n /\ plan[e][m].company = plan[e][n].company
  BY <1>1, <1>2 DEF CompanyFits
<1>4. landed[e][m].company = id
  BY <1>1, <1>2 DEF CompanyLanded
<1>5. company[id] = NewCompany(e, m)
  BY <1>1, <1>2 DEF FirmCompany
<1>6. m \in 1..Len(Rows(e))
  BY <1>2, <1>3
<1>7. CompanyFits(e, m)
  BY <1>6, Through
<1>8. Row(e, m)["company.name"] # None
  BY <1>1, <1>3, <1>7 DEF CompanyFits
<1>. QED
  BY <1>4, <1>5, <1>6, <1>8 DEF NewCompany

LEMMA MadePerson ==
  ASSUME Core, Logbook, Landings, Foreseen, Firm, NEW e \in Imports, pc[e] = "ok", Undisturbed(e),
         NEW id \in DOMAIN person, person[id] # None, person[id].by = e
  PROVE  \E m \in 1..Len(Rows(e)) : /\ landed[e][m].person = id
                                    /\ person[id].data = [f \in PersonField |-> Row(e, m)[f]]
                                    /\ Row(e, m)["person.name"] # None
<1>1. PICK n \in 1..Len(Rows(e)) : plan[e][n].person.kind = "new" /\ landed[e][n].person = id
  BY Through DEF FirmRows
<1>2. PersonFits(e, n) /\ FirmPerson(e, n) /\ 1..n \subseteq 1..Len(Rows(e))
  BY Through
<1>. PICK m : m = plan[e][n].person.of
  OBVIOUS
<1>3. m \in 1..n /\ plan[e][m].person = plan[e][n].person
  BY <1>1, <1>2 DEF PersonFits
<1>4. landed[e][m].person = id /\ person[id] = NewPerson(e, m)
  BY <1>1, <1>2 DEF FirmPerson
<1>6. m \in 1..Len(Rows(e))
  BY <1>2, <1>3
<1>7. PersonFits(e, m)
  BY <1>6, Through
<1>8. Row(e, m)["person.name"] # None
  BY <1>1, <1>3, <1>7 DEF PersonFits
<1>. QED
  BY <1>4, <1>6, <1>8 DEF NewPerson

\* Rows of one company in the plan are of one company in the end.
LEMMA CompanyOnce ==
  ASSUME Core, Logbook, Landings, Foreseen, Firm, NEW e \in Imports, pc[e] = "ok", Undisturbed(e),
         NEW m \in 1..Len(Rows(e)), NEW n \in 1..Len(Rows(e))
  PROVE  /\ CompanyOf(e, m) = CompanyOf(e, n) => landed[e][m].company = landed[e][n].company
         /\ PersonOf(e, m) = PersonOf(e, n) => landed[e][m].person = landed[e][n].person
<1>1. /\ CompanyLanded(e, m) /\ CompanyLanded(e, n) /\ PersonLanded(e, m) /\ PersonLanded(e, n)
      /\ FirmPerson(e, m) /\ FirmPerson(e, n)
      /\ plan[e][m].company \in Ref /\ plan[e][m].person \in Ref
      /\ plan[e][m].company = CompanyOf(e, m) /\ plan[e][m].person = PersonOf(e, m)
      /\ plan[e][n].company = CompanyOf(e, n) /\ plan[e][n].person = PersonOf(e, n)
  BY Through
<1>2. ASSUME CompanyOf(e, m) = CompanyOf(e, n)
      PROVE  landed[e][m].company = landed[e][n].company
  BY <1>1, <1>2 DEF CompanyLanded, Ref
<1>3. ASSUME PersonOf(e, m) = PersonOf(e, n)
      PROVE  landed[e][m].person = landed[e][n].person
  BY <1>1, <1>3 DEF PersonLanded, FirmPerson, Ref
<1>. QED
  BY <1>2, <1>3

\* Rows with one key have one company.
LEMMA CompanyChosen ==
  ASSUME Core, Logbook, Landings, Foreseen, Firm, NEW e \in Imports, pc[e] = "ok", Undisturbed(e),
         NEW m \in 1..Len(Rows(e)), NEW n \in 1..Len(Rows(e)),
         SameDataKey(e, CompanyField, m) = SameDataKey(e, CompanyField, n),
         Row(e, m)["company.name"] # None, Row(e, n)["company.name"] # None
  PROVE  CompanyOf(e, m) = CompanyOf(e, n) /\ landed[e][m].company = landed[e][n].company
<1>1. e \in Job /\ Len(Rows(e)) \in Nat /\ m \in Nat /\ n \in Nat
  BY Through
<1>2. m \in 1..n \/ n \in 1..m
  BY <1>1
<1>3. CompanyOf(e, m) = CompanyOf(e, n)
  BY <1>1, <1>2, CompanyAlike
<1>. QED
  BY <1>3, CompanyOnce

\* Rows of one company in the end are of one company in the plan.
LEMMA CompanyBack ==
  ASSUME Core, Logbook, Landings, Foreseen, Firm, Authors,
         NEW e \in Imports, pc[e] = "ok", Undisturbed(e), NEW l \in Open, ~MadeBy(l, company),
         NEW m \in 1..Len(Rows(e)), NEW n \in 1..Len(Rows(e)),
         landed[e][m].company = landed[e][n].company
  PROVE  CompanyOf(e, m) = CompanyOf(e, n)
<1>. DEFINE Facts(i) ==
       LET ref == CompanyOf(e, i)
           at == landed[e][i].company
       IN /\ ref.kind \in {"existing", "new", "none"} /\ (ref.kind = "none" => ref = NoRef)
          /\ (ref.kind = "none") <=> (at = None)
          /\ ref.kind = "existing" =>
               /\ ref = Existing(at) /\ at \in OldIds(e, company)
          /\ ref.kind = "new" => /\ company[at] = NewCompany(e, ref.of)
                                 /\ SameDataKey(e, CompanyField, ref.of)
                                      = SameDataKey(e, CompanyField, i)
                                 /\ Row(e, i)["company.name"] # None
<1>1. OwnedIn(company, pc, mix) /\ WrittenIn(company, pc)
  BY DEF Core, Tables, Authors
<1>2. ASSUME NEW i \in 1..Len(Rows(e))
      PROVE  Facts(i)
  <2>1. /\ CompanyFits(e, i) /\ CompanyLanded(e, i) /\ FirmCompany(e, i)
        /\ plan[e][i].company \in Ref /\ plan[e][i].company = CompanyOf(e, i)
    BY Through
  <2>2. CompanyOf(e, i).kind = "existing" => CompanyOf(e, i).of \in OldIds(e, company)
    <3>1. SUFFICES ASSUME CompaniesLike(e, i) # {}
                   PROVE  Pick(company, CompaniesLike(e, i)) \in OldIds(e, company)
      BY DEF CompanyOf, Existing, New, NoRef
    <3>2. CompaniesLike(e, i) \subseteq OldIds(e, company)
      BY DEF CompaniesLike
    <3>3. CompaniesLike(e, i) \in SUBSET Nat
      BY <3>2, TableFacts DEF OldIds, OldIn, Core, Types, TypeOK
    <3>. QED
      BY <3>1, <3>2, <3>3, OldestOne
  <2>3. /\ CompanyOf(e, i).kind \in {"existing", "new", "none"}
        /\ CompanyOf(e, i).kind = "existing" => CompanyOf(e, i) = Existing(CompanyOf(e, i).of)
    BY <2>1 DEF Ref, Existing
  <2>. QED
    BY <2>1, <2>2, <2>3 DEF CompanyFits, CompanyLanded, FirmCompany
<1>3. Facts(m) /\ Facts(n)
  BY <1>2
<1>. PICK at : at = landed[e][m].company /\ at = landed[e][n].company
  OBVIOUS
<1>. PICK a : a = CompanyOf(e, m)
  OBVIOUS
<1>. PICK b : b = CompanyOf(e, n)
  OBVIOUS
<1>4. /\ a.kind \in {"existing", "new", "none"} /\ b.kind \in {"existing", "new", "none"}
      /\ a.kind = "none" => a = NoRef
      /\ b.kind = "none" => b = NoRef
      /\ (a.kind = "none") <=> (at = None)
      /\ (b.kind = "none") <=> (at = None)
      /\ a.kind = "existing" => a = Existing(at) /\ at \in OldIds(e, company)
      /\ b.kind = "existing" => b = Existing(at) /\ at \in OldIds(e, company)
      /\ a.kind = "new" => /\ company[at] = NewCompany(e, a.of) /\ Row(e, m)["company.name"] # None
                           /\ SameDataKey(e, CompanyField, a.of) = SameDataKey(e, CompanyField, m)
      /\ b.kind = "new" => /\ company[at] = NewCompany(e, b.of) /\ Row(e, n)["company.name"] # None
                           /\ SameDataKey(e, CompanyField, b.of) = SameDataKey(e, CompanyField, n)
  BY <1>3
<1>. HIDE DEF Facts
<1>5. at \in OldIds(e, company) => company[at].by # e
  BY <1>1, SeenByBoth
<1>6. \A i : NewCompany(e, i).by = e
  BY DEF NewCompany
<1>7. CASE a.kind = "new" /\ b.kind = "new"
  <2>1. NewCompany(e, a.of) = NewCompany(e, b.of)
    BY <1>4, <1>7
  <2>2. \A f \in CompanyField : Row(e, a.of)[f] = Row(e, b.of)[f]
    <3>1. NewCompany(e, a.of).data = NewCompany(e, b.of).data
      BY <2>1
    <3>. QED
      BY <3>1 DEF NewCompany
  <2>3. SameDataKey(e, CompanyField, a.of) = SameDataKey(e, CompanyField, b.of)
    BY <2>2 DEF SameDataKey, CompanyField
  <2>. QED
    BY <1>4, <1>7, <2>3, CompanyChosen
<1>. QED
  BY <1>4, <1>5, <1>6, <1>7

\* Whoever repeats e finds the company that e's row has.
LEMMA CompanyFound ==
  ASSUME Core, Logbook, Landings, Foreseen, Firm, Authors,
         NEW e \in Imports, pc[e] = "ok", Undisturbed(e), NEW l \in Open, ~MadeBy(l, company),
         reqOf[e].csv = reqOf[l].csv,
         NEW n \in 1..Len(Rows(e)), Row(e, n)["company.name"] # None
  PROVE  FindCompanies(l, reqOf[l].csv, Row(l, n)) = {landed[e][n].company}
<1>. PICK x : x = landed[e][n].company
  OBVIOUS
<1>. DEFINE S == {id \in Ids(l, company) :
                    ExactTerms(CompanyField \cap Supplied(e), company[id], Row(e, n))}
<1>1. FindCompanies(l, reqOf[l].csv, Row(l, n)) = Oldest(company, S)
  BY SameCsv DEF FindCompanies, Supplied
<1>2. OwnedIn(company, pc, mix) /\ WrittenIn(company, pc)
  BY DEF Core, Tables, Authors
<1>3. /\ Ids(l, company) = OldIds(e, company)
                             \cup {id \in DOMAIN company : company[id] # None /\ company[id].by = e}
      /\ Ids(e, company) \subseteq Ids(l, company)
  BY <1>2, SeenByBoth
<1>4. /\ CompanyFits(e, n) /\ CompanyLanded(e, n)
      /\ plan[e][n].company \in Ref /\ plan[e][n].company = CompanyOf(e, n)
  BY Through
<1>5. \A id, row : ExactTerms(CompanyField \cap Supplied(e), company[id], row)
                     <=> \A f \in CompanyField \cap Supplied(e) : company[id].data[f] = row[f]
  BY DEF ExactTerms, ExactTerm, CompanyField
<1>6. x \in S
  BY <1>3, <1>4, <1>5 DEF CompanyFits, CompanyLanded, CompanyData
<1>7. ASSUME NEW id \in S, id \notin OldIds(e, company)
      PROVE  id = x
  <2>1. id \in DOMAIN company /\ company[id] # None /\ company[id].by = e
    BY <1>3, <1>7
  <2>2. PICK m \in 1..Len(Rows(e)) :
          /\ landed[e][m].company = id
          /\ company[id].data = [f \in CompanyField |-> Row(e, m)[f]]
          /\ Row(e, m)["company.name"] # None
    BY <2>1, MadeCompany
  <2>3. \A f \in CompanyField \cap Supplied(e) : Row(e, m)[f] = Row(e, n)[f]
    <3>1. ExactTerms(CompanyField \cap Supplied(e), company[id], Row(e, n))
      BY <1>7
    <3>2. \A f \in CompanyField \cap Supplied(e) : company[id].data[f] = Row(e, n)[f]
      BY <1>5, <3>1
    <3>3. \A f \in CompanyField : company[id].data[f] = Row(e, m)[f]
      BY <2>2
    <3>. QED
      BY <3>2, <3>3
  <2>4. SameDataKey(e, CompanyField, m) = SameDataKey(e, CompanyField, n)
    BY <2>3 DEF SameDataKey, CompanyField
  <2>. QED
    BY <2>2, <2>4, CompanyChosen
<1>8. CompaniesLike(e, n) = S \cap OldIds(e, company)
  BY <1>3 DEF CompaniesLike
<1>9. S \in SUBSET Nat /\ x \in Nat /\ {x} # {}
  BY <1>6, TableFacts DEF Ids, Core, Types, TypeOK
<1>10. CASE CompaniesLike(e, n) # {}
  <2>1. x = Pick(company, CompaniesLike(e, n))
    BY <1>4, <1>10 DEF CompanyOf, CompanyLanded, Existing
  <2>2. /\ Pick(company, CompaniesLike(e, n)) \in CompaniesLike(e, n)
        /\ Oldest(company, CompaniesLike(e, n)) = {Pick(company, CompaniesLike(e, n))}
    BY <1>8, <1>9, <1>10, OldestOne
  <2>3. S = CompaniesLike(e, n)
    BY <1>7, <1>8, <2>1, <2>2
  <2>. QED
    BY <1>1, <2>1, <2>2, <2>3
<1>11. CASE CompaniesLike(e, n) = {}
  <2>1. S = {x}
    BY <1>6, <1>7, <1>8, <1>11
  <2>2. {x} \in SUBSET Nat
    BY <1>9
  <2>. HIDE DEF S
  <2>3. Pick(company, {x}) \in {x} /\ Oldest(company, {x}) = {Pick(company, {x})}
    BY <1>9, <2>2, OldestOne
  <2>. QED
    BY <1>1, <2>1, <2>3
<1>. QED
  BY <1>10, <1>11

\* Rows with one key of a person, at one company in the end, have one person.
LEMMA PersonChosen ==
  ASSUME Core, Logbook, Landings, Foreseen, Firm, Authors,
         NEW e \in Imports, pc[e] = "ok", Undisturbed(e), NEW l \in Open, ~MadeBy(l, company),
         NEW m \in 1..Len(Rows(e)), NEW n \in 1..Len(Rows(e)),
         SameDataKey(e, PersonField, m) = SameDataKey(e, PersonField, n),
         CompanyColumn(e) => landed[e][m].company = landed[e][n].company,
         Row(e, m)["person.name"] # None, Row(e, n)["person.name"] # None
  PROVE  landed[e][m].person = landed[e][n].person
<1>1. e \in Job /\ Len(Rows(e)) \in Nat /\ m \in Nat /\ n \in Nat
  BY Through
<1>2. m \in 1..n \/ n \in 1..m
  BY <1>1
<1>3. CompanyColumn(e) => CompanyOf(e, m) = CompanyOf(e, n)
  BY CompanyBack
<1>4. PersonKey(e, m, CompanyOf(e, m)) = PersonKey(e, n, CompanyOf(e, n))
  BY <1>3 DEF PersonKey
<1>5. PersonOf(e, m) = PersonOf(e, n)
  BY <1>1, <1>2, <1>4, PersonAlike
<1>. QED
  BY <1>5, CompanyOnce

\* A lead that is there is found.
LEMMA LeadFound ==
  ASSUME Core, Logbook, Landings, Foreseen, Firm, Authors,
         NEW e \in Imports, pc[e] = "ok", Undisturbed(e), NEW l \in Open, ~MadeBy(l, lead),
         reqOf[e].csv = reqOf[l].csv, reqOf[e].label = reqOf[l].label,
         NEW n \in 1..Len(Rows(e)), NEW at,
         at.company = landed[e][n].company, at.person = landed[e][n].person
  PROVE  FindLeads(l, reqOf[l].csv, Row(l, n), at) # {}
<1>1. OwnedIn(lead, pc, mix) /\ WrittenIn(lead, pc)
  BY DEF Core, Tables, Authors
<1>2. Ids(e, lead) \subseteq Ids(l, lead)
  BY <1>1, SeenByBoth
<1>3. LeadLanded(e, n) /\ FirmLead(e, n)
  BY Through
<1>4. /\ Row(l, n) = Row(e, n) /\ LeadSource(l, Row(l, n)) = LeadSource(e, Row(e, n))
      /\ reqOf[l].csv.supplied = Supplied(e)
  <2>1. /\ \A i : Row(l, i) = Row(e, i)
        /\ \A row : LeadSource(l, row) = LeadSource(e, row)
    BY SameCsv
  <2>2. reqOf[l].csv.supplied = Supplied(e)
    BY DEF Supplied
  <2>. QED
    BY <2>1, <2>2
<1>5. landed[e][n].lead \in FindLeads(l, reqOf[l].csv, Row(l, n), at)
  BY <1>2, <1>3, <1>4 DEF LeadLanded, FirmLead, FindLeads
<1>. QED
  BY <1>5

\* Rows of one key are like each other, in the store's lower case too.
LEMMA KeysMatch ==
  ASSUME Core, NEW e \in Job, Importing(e), Foldable(e),
         NEW m \in 1..Len(Rows(e)), NEW n \in 1..Len(Rows(e)), NEW record,
         record.data = [f \in PersonField |-> Row(e, m)[f]]
  PROVE  ExactTerms(PersonField \cap Supplied(e), record, Row(e, n))
           <=> SameDataKey(e, PersonField, m) = SameDataKey(e, PersonField, n)
<1>1. \A i \in 1..Len(Rows(e)) : Row(e, i) \in CsvRow /\ Rows(e)[i] = Row(e, i)
  BY RowsType DEF NamedRow, Row
<1>2. DOMAIN Rows(e) = 1..Len(Rows(e))
  BY RowsType
<1>3. Row(e, m)["person.email"] \in Text \cup {None} /\ Row(e, n)["person.email"] \in Text \cup {None}
  BY <1>1 DEF CsvRow, Field, PersonField
<1>4. Fold(StoreLower, Row(e, m)["person.email"]) = Fold(Lower, Row(e, m)["person.email"])
  <2>1. CASE store = "postgres"
    BY <2>1 DEF StoreLower
  <2>2. CASE store # "postgres"
    <3>1. Row(e, m)["person.email"] # None =>
            AsciiLower[Row(e, m)["person.email"]] = Lower[Row(e, m)["person.email"]]
      BY <1>1, <1>2, <2>2 DEF Foldable
    <3>. QED
      BY <3>1 DEF Fold, StoreLower
  <2>. QED
    BY <2>1, <2>2
<1>5. \A f \in PersonField : record.data[f] = Row(e, m)[f]
  OBVIOUS
<1>6. ASSUME NEW f \in PersonField \cap Supplied(e)
      PROVE  ExactTerm(f, record.data[f], Row(e, n)[f])
               <=> SameDataKey(e, PersonField, m)[f] = SameDataKey(e, PersonField, n)[f]
  BY <1>4, <1>5 DEF ExactTerm, SameDataKey
<1>7. SameDataKey(e, PersonField, m) = SameDataKey(e, PersonField, n)
        <=> \A f \in PersonField \cap Supplied(e) :
              SameDataKey(e, PersonField, m)[f] = SameDataKey(e, PersonField, n)[f]
  BY DEF SameDataKey
<1>. QED
  BY <1>6, <1>7 DEF ExactTerms

\* Nobody who was there when e began works for a company that e made.
LEMMA OldElsewhere ==
  ASSUME Core, Logbook, Landings, Foreseen, Firm, Authors, LinkOrder,
         NEW e \in Imports, pc[e] = "ok", Undisturbed(e), NEW l \in Open, ~MadeBy(l, person),
         NEW id \in OldIds(e, person), NEW at \in EmployersOf(id)
  PROVE  company[at] # None => company[at].by # e
<1>1. OwnedIn(person, pc, mix) /\ WrittenIn(person, pc) /\ LinksKnown
  BY DEF Core, Tables, Authors
<1>2. /\ person[id].by # e
      /\ person[id].by = None \/ (person[id].by \notin Open /\ ended[person[id].by] <= began[e])
  BY <1>1, SeenByBoth
<1>3. PICK lk \in link : lk.person = id /\ lk.company = at
  BY DEF EmployersOf
<1>4. lk.by = person[id].by /\ WorksSince(lk) /\ person[id] # None /\ id \in DOMAIN person
  BY <1>1, <1>3 DEF LinksKnown, LinkOrder
<1>5. ended[e] = began[e] + 1 /\ began[e] \in Nat /\ e # None
  BY Through
<1>6. ASSUME company[at] # None, company[at].by = e
      PROVE  FALSE
  <2>1. lk.by \in Open \/ ended[e] < ended[lk.by]
    BY <1>2, <1>3, <1>4, <1>5, <1>6 DEF WorksSince
  <2>2. lk.by # None
    BY <1>2, <1>3, <1>4, <1>5, <1>6 DEF WorksSince
  <2>3. ended[lk.by] <= began[e] /\ ended[e] < ended[lk.by]
    BY <1>2, <1>4, <2>1, <2>2
  <2>4. ended[lk.by] \in Nat
    BY <1>1, <1>4, <2>2 DEF OwnedIn, OwnerIn, Core, Types
  <2>. QED
    BY <1>5, <2>3, <2>4
<1>. QED
  BY <1>6

\* Whoever repeats e finds the person that e's row has.
LEMMA PersonFound ==
  ASSUME Core, Logbook, Landings, Foreseen, Firm, Authors, OneEmployer, LinkOrder,
         NEW e \in Imports, pc[e] = "ok", Undisturbed(e), Foldable(e), NEW l \in Open,
         ~MadeBy(l, company), ~MadeBy(l, person), reqOf[e].csv = reqOf[l].csv,
         NEW n \in 1..Len(Rows(e)), Row(e, n)["person.name"] # None
  PROVE  /\ CompanyColumn(e) => FindPeople(l, reqOf[l].csv, Row(l, n), landed[e][n].company)
                                  = {landed[e][n].person}
         /\ ~CompanyColumn(e) => FindPeople(l, reqOf[l].csv, Row(l, n), -1)
                                   = {landed[e][n].person}
<1>. SUFFICES ASSUME NEW at,
                     CompanyColumn(e) => at = landed[e][n].company, ~CompanyColumn(e) => at = -1
              PROVE  FindPeople(l, reqOf[l].csv, Row(l, n), at) = {landed[e][n].person}
  OBVIOUS
<1>. PICK x, c : x = landed[e][n].person /\ c = landed[e][n].company
  OBVIOUS
<1>. DEFINE Fine(id) ==
       /\ ExactTerms(PersonField \cap Supplied(e), person[id], Row(e, n))
       /\ WorksAt(e, id, c)
<1>. DEFINE S == {id \in Ids(l, person) : Fine(id)}
<1>1. OwnedIn(person, pc, mix) /\ WrittenIn(person, pc) /\ LinksKnown
  BY DEF Core, Tables, Authors
<1>2. /\ Ids(l, person) = OldIds(e, person)
                            \cup {id \in DOMAIN person : person[id] # None /\ person[id].by = e}
      /\ Ids(e, person) \subseteq Ids(l, person)
      /\ \A id \in OldIds(e, person) : person[id].by # e
  BY <1>1, SeenByBoth
<1>3. /\ CompanyFits(e, n) /\ CompanyLanded(e, n) /\ FirmCompany(e, n)
      /\ PersonFits(e, n) /\ PersonLanded(e, n) /\ FirmPerson(e, n)
      /\ plan[e][n].company \in Ref /\ plan[e][n].company = CompanyOf(e, n)
      /\ plan[e][n].person \in Ref /\ plan[e][n].person = PersonOf(e, n)
      /\ c \in Nat \cup {None}
      /\ 1..n \subseteq 1..Len(Rows(e)) /\ e \in Job /\ Importing(e) /\ e # None
  BY Through
<1>4. FindPeople(l, reqOf[l].csv, Row(l, n), at) = Oldest(person, S)
  <2>1. \A id \in Ids(l, person) : Employers(l, id) = EmployersOf(id)
    BY EmployersSeen
  <2>2. None \notin Int /\ c # -1
    BY <1>3, TransferAssumption
  <2>3. ASSUME NEW id \in Ids(l, person)
        PROVE  (/\ at = None => Employers(l, id) = {}
                /\ at \notin {None, -1} => at \in Employers(l, id)) <=> WorksAt(e, id, c)
    BY <2>1, <2>2 DEF WorksAt
  <2>4. Row(l, n) = Row(e, n) /\ reqOf[l].csv.supplied = Supplied(e)
    BY SameCsv DEF Supplied
  <2>5. {id \in Ids(l, person) :
           /\ ExactTerms(PersonField \cap reqOf[l].csv.supplied, person[id], Row(l, n))
           /\ at = None => Employers(l, id) = {}
           /\ at \notin {None, -1} => at \in Employers(l, id)} = S
    BY <2>3, <2>4
  <2>. HIDE DEF S
  <2>. QED
    BY <2>5 DEF FindPeople
<1>5. x \in S
  <2>1. x \in Ids(l, person) /\ WorksAt(e, x, c)
    BY <1>2, <1>3 DEF PersonFits, PersonLanded
  <2>2. CASE plan[e][n].person.kind = "existing"
    <3>1. PeopleLike(e, n) # {} /\ x = Pick(person, PeopleLike(e, n))
      BY <1>3, <2>2 DEF PersonOf, FirmPerson, Existing, New, NoRef
    <3>2. PeopleLike(e, n) \in SUBSET Nat
      BY TableFacts DEF PeopleLike, OldIds, OldIn, Core, Types, TypeOK
    <3>3. x \in PeopleLike(e, n)
      BY <3>1, <3>2, OldestOne
    <3>. QED
      BY <2>1, <3>3 DEF PeopleLike
  <2>3. CASE plan[e][n].person.kind = "new"
    <3>. PICK m : m = plan[e][n].person.of
      OBVIOUS
    <3>1. /\ person[x] = NewPerson(e, m) /\ m \in 1..Len(Rows(e))
          /\ PersonKey(e, m, plan[e][m].company) = PersonKey(e, n, plan[e][n].company)
      BY <1>3, <2>3 DEF FirmPerson, PersonFits
    <3>2. SameDataKey(e, PersonField, m) = SameDataKey(e, PersonField, n)
      BY <3>1, PersonKeys
    <3>3. person[x].data = [f \in PersonField |-> Row(e, m)[f]]
      BY <3>1 DEF NewPerson
    <3>4. ExactTerms(PersonField \cap Supplied(e), person[x], Row(e, n))
      BY <1>3, <3>1, <3>2, <3>3, KeysMatch
    <3>. QED
      BY <2>1, <3>4
  <2>. QED
    BY <1>3, <2>2, <2>3 DEF Ref, PersonFits
<1>6. ASSUME NEW id \in S, id \notin OldIds(e, person)
      PROVE  id = x
  <2>1. id \in DOMAIN person /\ person[id] # None /\ person[id].by = e /\ Fine(id)
    BY <1>2, <1>6
  <2>2. PICK m \in 1..Len(Rows(e)) :
          /\ landed[e][m].person = id
          /\ person[id].data = [f \in PersonField |-> Row(e, m)[f]]
          /\ Row(e, m)["person.name"] # None
    BY <2>1, MadePerson
  <2>3. SameDataKey(e, PersonField, m) = SameDataKey(e, PersonField, n)
    BY <1>3, <2>1, <2>2, KeysMatch
  <2>4. CompanyColumn(e) => landed[e][m].company = c
    <3>1. PersonLanded(e, m) /\ PersonFits(e, m)
      BY Through
    <3>2. WorksAt(e, id, landed[e][m].company)
      BY <2>2, <3>1 DEF PersonFits, PersonLanded
    <3>3. \A a, b \in EmployersOf(id) : a = b
      <4>1. \A lk \in link : lk.person = id => lk.by = e
        BY <1>1, <2>1 DEF LinksKnown
      <4>. QED
        BY <1>3, <4>1 DEF OneEmployer, EmployersOf
    <3>. QED
      BY <2>1, <3>2, <3>3 DEF WorksAt
  <2>. QED
    BY <2>2, <2>3, <2>4, PersonChosen
<1>7. PeopleLike(e, n) = S \cap OldIds(e, person)
  <2>1. ASSUME NEW id \in OldIds(e, person), CompanyColumn(e)
        PROVE  WorksAt(e, id, c) <=> IF CompanyOf(e, n).kind = "none" THEN EmployersOf(id) = {}
                                     ELSE /\ CompanyOf(e, n).kind = "existing"
                                          /\ CompanyOf(e, n).of \in EmployersOf(id)
    <3>1. CASE CompanyOf(e, n).kind = "none"
      BY <1>3, <2>1, <3>1 DEF CompanyLanded, WorksAt
    <3>2. CASE CompanyOf(e, n).kind = "existing"
      BY <1>3, <2>1, <3>2 DEF CompanyLanded, WorksAt
    <3>3. CASE CompanyOf(e, n).kind = "new"
      <4>1. company[c] = NewCompany(e, CompanyOf(e, n).of) /\ c # None
        BY <1>3, <3>3 DEF CompanyLanded, FirmCompany
      <4>2. company[c].by = e /\ company[c] # None
        BY <1>3, <3>3, <4>1 DEF CompanyLanded, Ids, Sees, NewCompany
      <4>3. c \notin EmployersOf(id)
        BY <2>1, <4>2, OldElsewhere
      <4>. QED
        BY <2>1, <3>3, <4>1, <4>3 DEF WorksAt
    <3>. QED
      BY <1>3, <3>1, <3>2, <3>3 DEF Ref
  <2>2. ASSUME NEW id \in OldIds(e, person)
        PROVE  Fine(id) <=> id \in PeopleLike(e, n)
    BY <2>1, <2>2 DEF PeopleLike, WorksAt
  <2>. QED
    BY <1>2, <2>2 DEF PeopleLike
<1>8. S \in SUBSET Nat /\ x \in Nat /\ {x} # {}
  BY <1>5, TableFacts DEF Ids, Core, Types, TypeOK
<1>. HIDE DEF Fine
<1>9. CASE PeopleLike(e, n) # {}
  <2>1. x = Pick(person, PeopleLike(e, n))
    BY <1>3, <1>9 DEF PersonOf, FirmPerson, Existing
  <2>2. /\ Pick(person, PeopleLike(e, n)) \in PeopleLike(e, n)
        /\ Oldest(person, PeopleLike(e, n)) = {Pick(person, PeopleLike(e, n))}
    BY <1>7, <1>8, <1>9, OldestOne
  <2>3. S = PeopleLike(e, n)
    BY <1>6, <1>7, <2>1, <2>2
  <2>. QED
    BY <1>4, <2>1, <2>2, <2>3
<1>10. CASE PeopleLike(e, n) = {}
  <2>1. S = {x}
    BY <1>5, <1>6, <1>7, <1>10
  <2>2. {x} \in SUBSET Nat
    BY <1>8
  <2>. HIDE DEF S
  <2>3. Pick(person, {x}) \in {x} /\ Oldest(person, {x}) = {Pick(person, {x})}
    BY <1>8, <2>2, OldestOne
  <2>. QED
    BY <1>4, <2>1, <2>3
<1>. QED
  BY <1>9, <1>10

LEMMA RefToOne ==
  ASSUME NEW a, NEW b, RefTo(a) = RefTo(b)
  PROVE  a = b
<1>1. Existing(a).kind = "existing" /\ Existing(b).kind = "existing" /\ NoRef.kind = "none"
      /\ Existing(a).of = a /\ Existing(b).of = b
  BY DEF Existing, NoRef
<1>. QED
  BY <1>1 DEF RefTo

\* So it plans each row with what e's row has.
LEMMA CompanyEchoed ==
  ASSUME Core, Logbook, Landings, Foreseen, Firm, Authors,
         NEW e \in Imports, NEW l \in Imports, Repeats(e, l), Echoes(e, l), pc[l] = "company",
         NEW n \in 1..Len(Rows(e)), n = Len(plan[l]) + 1, NEW ref \in CompanyRefs(l, n)
  PROVE  ref = RefTo(landed[e][n].company)
<1>1. /\ reqOf[e].csv = reqOf[l].csv /\ pc[e] = "ok" /\ Undisturbed(e) /\ l \in Open
      /\ ~MadeBy(l, company) /\ n - 1 = Len(plan[l]) /\ Row(l, n) = Row(e, n)
      /\ n - 1 \in Nat /\ 1..n - 1 \subseteq 1..Len(Rows(e))
  <2>1. Len(plan[l]) \in Nat
    BY RowNumbers DEF Imports, Core, Types
  <2>2. /\ reqOf[e].csv = reqOf[l].csv /\ pc[e] = "ok" /\ Undisturbed(e) /\ l \in Open
        /\ ~MadeBy(l, company)
    BY DEF Repeats, Echoes, Open, Working, Imports
  <2>3. Len(Rows(e)) \in Nat
    BY <2>2, Through
  <2>4. Row(l, n) = Row(e, n)
    BY <2>2, SameCsv
  <2>. QED
    BY <2>1, <2>2, <2>3, <2>4
<1>2. \A m \in 1..n - 1 : plan[l][m].company = RefTo(landed[e][m].company)
  BY <1>1 DEF Echoes
<1>3. CompanyFits(e, n) /\ CompanyLanded(e, n) /\ plan[e][n].company \in Ref
  BY Through, <1>1
<1>4. CASE Row(e, n)["company.name"] = None
  BY <1>1, <1>3, <1>4 DEF CompanyRefs, CompanyFits, CompanyLanded, RefTo
<1>5. CASE Row(e, n)["company.name"] # None
  <2>. DEFINE same == {m \in 1..n - 1 : /\ plan[l][m].company # NoRef
                                        /\ SameDataKey(l, CompanyField, m)
                                             = SameDataKey(l, CompanyField, n)}
  <2>1. landed[e][n].company # None
    BY <1>3, <1>5 DEF CompanyFits, CompanyLanded
  <2>2. ref \in IF same # {} THEN {plan[l][m].company : m \in same}
                ELSE Refs(FindCompanies(l, reqOf[l].csv, Row(l, n)), n)
    BY <1>1, <1>5 DEF CompanyRefs
  <2>3. ASSUME NEW m \in same
        PROVE  plan[l][m].company = RefTo(landed[e][n].company)
    <3>1. m \in 1..Len(Rows(e)) /\ landed[e][m].company # None
      BY <1>1, <1>2, <2>3 DEF RefTo
    <3>2. Row(e, m)["company.name"] # None
      <4>1. CompanyFits(e, m) /\ CompanyLanded(e, m)
        BY <1>1, <3>1, Through
      <4>. QED
        BY <3>1, <4>1 DEF CompanyFits, CompanyLanded
    <3>3. SameDataKey(e, CompanyField, m) = SameDataKey(e, CompanyField, n)
      <4>1. \A i, f : SameDataKey(l, f, i) = SameDataKey(e, f, i)
        BY <1>1, SameCsvKeys
      <4>2. SameDataKey(l, CompanyField, m) = SameDataKey(l, CompanyField, n)
        BY <2>3
      <4>. QED
        BY <4>1, <4>2
    <3>4. landed[e][m].company = landed[e][n].company
      BY <1>1, <1>5, <3>1, <3>2, <3>3, CompanyChosen
    <3>. QED
      BY <1>2, <2>3, <3>4
  <2>4. CASE same # {}
    <3>. HIDE DEF same
    <3>. QED
      BY <2>2, <2>3, <2>4
  <2>5. CASE same = {}
    <3>1. FindCompanies(l, reqOf[l].csv, Row(l, n)) = {landed[e][n].company}
      BY <1>1, <1>5, CompanyFound
    <3>. HIDE DEF same
    <3>2. ref \in Refs({landed[e][n].company}, n)
      BY <2>2, <2>5, <3>1
    <3>. QED
      BY <2>1, <3>2 DEF Refs, RefTo
  <2>. QED
    BY <2>4, <2>5
<1>. QED
  BY <1>4, <1>5

LEMMA PersonEchoed ==
  ASSUME Core, Logbook, Landings, Foreseen, Firm, Authors, OneEmployer, LinkOrder,
         NEW e \in Imports, NEW l \in Imports, Repeats(e, l), Echoes(e, l), pc[l] = "person",
         NEW n \in 1..Len(Rows(e)), n = Len(plan[l]),
         NEW ref \in PersonRefs(l, n, plan[l][n].company)
  PROVE  ref = RefTo(landed[e][n].person)
<1>. PICK by : by = plan[l][n].company
  OBVIOUS
<1>1. /\ reqOf[e].csv = reqOf[l].csv /\ pc[e] = "ok" /\ Undisturbed(e) /\ l \in Open
      /\ Foldable(e) /\ ~MadeBy(l, company) /\ ~MadeBy(l, person) /\ Row(l, n) = Row(e, n)
      /\ n \in Nat /\ 1..n \subseteq 1..Len(Rows(e)) /\ CompanyColumn(l) = CompanyColumn(e)
  <2>1. /\ reqOf[e].csv = reqOf[l].csv /\ pc[e] = "ok" /\ Undisturbed(e) /\ l \in Open
        /\ Foldable(e) /\ ~MadeBy(l, company) /\ ~MadeBy(l, person)
    BY DEF Repeats, Echoes, Open, Working, Imports
  <2>2. Len(Rows(e)) \in Nat
    BY <2>1, Through
  <2>3. Row(l, n) = Row(e, n) /\ CompanyColumn(l) = CompanyColumn(e)
    BY <2>1, SameCsv
  <2>. QED
    BY <2>1, <2>2, <2>3
<1>2. /\ \A m \in 1..n - 1 : plan[l][m].person = RefTo(landed[e][m].person)
      /\ \A m \in 1..n : plan[l][m].company = RefTo(landed[e][m].company)
  BY <1>1 DEF Echoes
<1>3. PersonFits(e, n) /\ PersonLanded(e, n) /\ plan[e][n].person \in Ref
  BY Through, <1>1
<1>4. by = RefTo(landed[e][n].company) /\ by.kind # "new"
  BY <1>1, <1>2 DEF RefTo, NoRef, Existing
<1>5. \A i, of : PersonKey(l, i, of) = PersonKey(e, i, of)
  <2>1. reqOf[e].csv = reqOf[l].csv
    BY <1>1
  <2>. QED
    BY <2>1, SameCsvKeys
<1>6. CASE Row(e, n)["person.name"] = None
  BY <1>1, <1>3, <1>6 DEF PersonRefs, PersonFits, PersonLanded, RefTo
<1>7. CASE Row(e, n)["person.name"] # None
  <2>. DEFINE same == {m \in 1..n - 1 : /\ plan[l][m].person # NoRef
                                        /\ PersonKey(l, m, plan[l][m].company)
                                             = PersonKey(l, n, by)}
  <2>. DEFINE at == IF ~CompanyColumn(l) THEN -1 ELSE IF by = NoRef THEN None ELSE by.of
  <2>1. landed[e][n].person # None
    BY <1>3, <1>7 DEF PersonFits, PersonLanded
  <2>2. ref \in IF same # {} THEN {plan[l][m].person : m \in same}
                ELSE Refs(FindPeople(l, reqOf[l].csv, Row(l, n), at), n)
    BY <1>1, <1>4, <1>7 DEF PersonRefs
  <2>3. ASSUME NEW m \in same
        PROVE  plan[l][m].person = RefTo(landed[e][n].person)
    <3>1. m \in 1..Len(Rows(e)) /\ m \in 1..n - 1 /\ m \in 1..n /\ landed[e][m].person # None
      BY <1>1, <1>2, <2>3 DEF RefTo
    <3>2. Row(e, m)["person.name"] # None
      <4>1. PersonFits(e, m) /\ PersonLanded(e, m)
        BY <1>1, <3>1, Through
      <4>. QED
        BY <3>1, <4>1 DEF PersonFits, PersonLanded
    <3>3. PersonKey(e, m, plan[l][m].company) = PersonKey(e, n, by)
      <4>1. PersonKey(l, m, plan[l][m].company) = PersonKey(l, n, by)
        BY <2>3
      <4>. QED
        BY <1>5, <4>1
    <3>4. /\ SameDataKey(e, PersonField, m) = SameDataKey(e, PersonField, n)
          /\ CompanyColumn(e) => plan[l][m].company = by
      BY <3>3, PersonKeys
    <3>5. CompanyColumn(e) => landed[e][m].company = landed[e][n].company
      BY <1>2, <1>4, <3>1, <3>4, RefToOne
    <3>6. landed[e][m].person = landed[e][n].person
      BY <1>1, <1>7, <3>1, <3>2, <3>4, <3>5, PersonChosen
    <3>. QED
      BY <1>2, <3>1, <3>6
  <2>4. CASE same # {}
    <3>. HIDE DEF same, at
    <3>. QED
      BY <2>2, <2>3, <2>4
  <2>5. CASE same = {}
    <3>1. /\ CompanyColumn(e) => at = landed[e][n].company
          /\ ~CompanyColumn(e) => at = -1
      BY <1>1, <1>4 DEF RefTo, NoRef, Existing
    <3>. HIDE DEF same, at
    <3>2. FindPeople(l, reqOf[l].csv, Row(l, n), at) = {landed[e][n].person}
      <4>1. /\ CompanyColumn(e) => FindPeople(l, reqOf[l].csv, Row(l, n), landed[e][n].company)
                                     = {landed[e][n].person}
            /\ ~CompanyColumn(e) => FindPeople(l, reqOf[l].csv, Row(l, n), -1)
                                      = {landed[e][n].person}
        BY <1>1, <1>7, PersonFound
      <4>. QED
        BY <3>1, <4>1
    <3>3. ref \in Refs({landed[e][n].person}, n)
      BY <2>2, <2>5, <3>2
    <3>. QED
      BY <2>1, <3>3 DEF Refs, RefTo
  <2>. QED
    BY <2>4, <2>5
<1>. QED
  BY <1>6, <1>7

\* How an import that has its tag goes on.
LEMMA PastTagSteps ==
  ASSUME Core, NEW k \in mix, Step(k), reqOf[k].op = "import.run", pc'[k] \in PastTag
  PROVE  \/ /\ pc[k] \in {"tag", "tagging"} /\ pc'[k] = "company" /\ plan' = plan /\ landed' = landed
            /\ UNCHANGED <<company, person, lead>>
         \/ PlanCompany(k) /\ pc[k] = "company" /\ pc'[k] = "person"
         \/ PlanPerson(k) /\ pc[k] = "person" /\ pc'[k] \in {"company", "writing"}
         \/ WriteCompany(k) \/ WritePerson(k) \/ FindLead(k) \/ (WriteLead(k) /\ ~Fail(k))
<1>1. k \in Job /\ pc \in [Job -> Where] /\ Fits(k)
  BY DEF Core, Types
<1>2. ~Fail(k)
  BY <1>1 DEF Fail, Goto, PastTag, Writing
<1>3. ~Begin(k)
  BY <1>1 DEF Begin, Goto, PastTag, Writing
<1>4. CASE FindTag(k)
  BY <1>1, <1>4 DEF FindTag, Goes, Goto, AfterTag, PastTag, Writing, tables
<1>5. CASE CreateTag(k)
  BY <1>1, <1>2, <1>5 DEF CreateTag, Goto, AfterTag
<1>6. CASE PlanCompany(k)
  BY <1>1, <1>6 DEF PlanCompany, Goes, Goto, PastTag, Writing
<1>7. CASE PlanPerson(k)
  BY <1>1, <1>7 DEF PlanPerson, Planned, Goes, Goto, PastTag, Writing
<1>8. ~PlanNothing(k)
  BY <1>1, <1>2 DEF PlanNothing, Goes, Goto, PastTag, Writing, Fits, Working
<1>9. ~Commit(k) /\ ~Preview(k) /\ ~CountPage(k) /\ ~ReadPage(k)
  BY <1>1 DEF Commit, Preview, CountPage, ReadPage, Goto, PastTag, Writing, Fits
<1>10. ~EditRecord(k) /\ ~Unlink(k)
  BY DEF EditRecord, Unlink, Edit
<1>. QED
  BY <1>2, <1>3, <1>4, <1>5, <1>6, <1>7, <1>8, <1>9, <1>10
     DEF Step, Refuse, LinkRefused, DeadlockAbort

\* An import that repeats e did so before, or has just got its tag: when e commits,
\* nobody but e has the tag that e made.
LEMMA RepeatsBefore ==
  ASSUME Core, Logbook, History, Authors, TagKnown, TagMade, NEW k \in mix, Step(k),
         NEW e \in Imports, NEW l \in Imports, Repeats(e, l)'
  PROVE  k # e /\ (Repeats(e, l) \/ (k = l /\ pc[l] \in {"tag", "tagging"}))
<1>1. /\ Frame(k) /\ k \in Job /\ e \in Job /\ l \in Job /\ mix' = mix /\ e \in mix /\ l \in mix
      /\ pc \in [Job -> Where] /\ store' = store /\ GoesOn(tag, tag', k)
      /\ reqOf[e].op = "import.run" /\ reqOf[l].op = "import.run" /\ pc[k] # "ok" /\ e # None
      /\ began \in [Job -> Nat] /\ ended \in [Job -> Nat] /\ Len(log) \in Nat
  <2>1. Frame(k) /\ GoesOn(tag, tag', k)
    BY StepFrame, TablesGoOn DEF Core
  <2>2. /\ k \in Job /\ mix' = mix /\ pc \in [Job -> Where] /\ store' = store /\ pc[k] # "ok"
        /\ began \in [Job -> Nat] /\ ended \in [Job -> Nat] /\ Len(log) \in Nat
    BY <2>1, LenProperties DEF Core, Types, TypeOK, Frame
  <2>3. /\ e \in Job /\ l \in Job /\ e \in mix /\ l \in mix
        /\ reqOf[e].op = "import.run" /\ reqOf[l].op = "import.run" /\ e # None
    BY TransferAssumption DEF Core, Types, TypeOK, Imports
  <2>. QED
    BY <2>1, <2>2, <2>3
<1>2. /\ e # l /\ reqOf[e].csv = reqOf[l].csv /\ reqOf[e].label = reqOf[l].label
      /\ pc'[e] = "ok" /\ Undisturbed(e)' /\ Foldable(e)' /\ pc'[l] \in PastTag
      /\ \/ ended'[e] <= began'[l]
         \/ MadeBy(e, tag)' /\ tag'[tagOf'[l]] # None
  BY DEF Repeats
<1>3. Foldable(e)
  <2>1. Rows(e)' = Rows(e)
    BY <1>1, RowsFixed
  <2>. QED
    BY <1>1, <1>2, <2>1 DEF Foldable
<1>4. began'[e] = began[e]
  <2>1. CASE k = e
    BY <1>1, <1>2, <2>1, CommitEnds
  <2>2. CASE k # e
    BY <1>1, <2>2 DEF Frame
  <2>. QED
    BY <2>1, <2>2
<1>5. Undisturbed(e)
  BY <1>1, <1>2, <1>4, StillUndisturbed
<1>6. k # e
  <2>. SUFFICES ASSUME k = e PROVE FALSE
    OBVIOUS
  <2>1. /\ pc[e] = "committing" /\ tag' = tag /\ tagOf' = tagOf /\ ended'[e] = Len(log) + 1
        /\ began' = began
    BY <1>1, <1>2, CommitEnds DEF tables, locals
  <2>2. pc[l] \in PastTag /\ began[l] <= Len(log)
    BY <1>1, <1>2 DEF Frame, History
  <2>3. MadeBy(e, tag)' /\ tag[tagOf[l]] # None
    BY <1>1, <1>2, <2>1, <2>2
  <2>4. PICK s \in DOMAIN tag : tag[s] # None /\ tag[s].by = e
    BY <2>1, <2>3 DEF MadeBy
  <2>. PICK t : t = tagOf[l]
    OBVIOUS
  <2>5. /\ t \in DOMAIN tag /\ tag[t] # None
        /\ \/ tag[t].by = l
           \/ tag[t].by \notin Open /\ StoreLower[tag[t].name] = Lower[reqOf[l].label]
    BY <2>2, <2>3 DEF TagKnown
  <2>6. e \in Open /\ MadeBy(e, tag) /\ pc[e] \in Working
    BY <1>1, <2>1, <2>4 DEF Open, Working, MadeBy
  <2>7. CASE tag[t].by = l
    <3>1. l # None
      BY <1>1, TransferAssumption
    <3>2. tag[t].name = tag[s].name
      BY <1>1, <1>2, <2>4, <2>5, <2>7, <3>1 DEF Authors, Labelled
    <3>3. t = s
      BY <2>4, <2>5, <3>2 DEF Core, Tables, TagsDiffer
    <3>. QED
      BY <1>2, <2>4, <2>7, <3>3
  <2>8. CASE tag[t].by # l
    <3>1. t \in TagsNamed(e, reqOf[e].label)
      BY <1>2, <2>5, <2>8 DEF TagsNamed, Ids, Sees
    <3>2. tag[t].by = e
      BY <1>5, <2>6, <3>1 DEF TagMade
    <3>. QED
      BY <2>5, <2>6, <2>8, <3>2
  <2>. QED
    BY <2>7, <2>8
<1>7. pc[e] = "ok" /\ ended'[e] = ended[e] /\ (MadeBy(e, tag)' => MadeBy(e, tag))
  <2>1. pc[e] = "ok" /\ ended'[e] = ended[e]
    BY <1>1, <1>2, <1>6 DEF Frame
  <2>2. ASSUME NEW n \in DOMAIN tag', tag'[n] # None, tag'[n].by = e
        PROVE  n \in DOMAIN tag /\ tag[n] # None /\ tag[n].by = e
    BY <1>1, <1>6, <2>2 DEF GoesOn
  <2>. QED
    BY <2>1, <2>2 DEF MadeBy
<1>8. CASE k # l
  <2>1. pc[l] \in PastTag /\ began'[l] = began[l] /\ tagOf'[l] = tagOf[l]
    BY <1>1, <1>2, <1>8 DEF Frame
  <2>2. tagOf[l] \in DOMAIN tag
    BY <2>1 DEF TagKnown
  <2>3. tag'[tagOf[l]] # None => tag[tagOf[l]] # None
    BY <1>1, <2>2 DEF GoesOn
  <2>. QED
    BY <1>2, <1>3, <1>5, <1>6, <1>7, <2>1, <2>3 DEF Repeats
<1>9. CASE k = l /\ pc[l] \notin {"tag", "tagging"}
  <2>1. pc[l] \in PastTag /\ tagOf' = tagOf /\ tag' = tag
    <3>1. pc'[l] \in Working /\ pc'[l] \notin {"tag", "tagging"}
      BY <1>2 DEF PastTag, Working, Writing
    <3>. QED
      BY <1>1, <1>9, <3>1, ImportTags
  <2>2. began' = began
    BY <1>9, <2>1, StepPace DEF Previews, Begins, Works, Logs, Closes, PastTag, Writing
  <2>. QED
    BY <1>2, <1>3, <1>5, <1>6, <1>7, <2>1, <2>2 DEF Repeats
<1>. QED
  BY <1>6, <1>8, <1>9

\* It makes nothing and has what e has, row by row.
LEMMA EchoPlanned ==
  ASSUME Core, Logbook, Landings, Foreseen, Firm, Authors, OneEmployer, LinkOrder,
         NEW e \in Imports, NEW l \in Imports, Repeats(e, l), Echoes(e, l), landed'[e] = landed[e],
         \/ PlanCompany(l) /\ pc[l] = "company" /\ pc'[l] = "person"
         \/ PlanPerson(l) /\ pc[l] = "person" /\ pc'[l] \in {"company", "writing"}
  PROVE  Echoes(e, l)'
<1>1. /\ l \in mix /\ reqOf[e].csv = reqOf[l].csv /\ pc[e] = "ok" /\ Undisturbed(e)
      /\ Rows(l) = Rows(e) /\ l \in Job
  BY SameCsv DEF Repeats, Imports, Core, Types
<1>2. /\ ~MadeBy(l, company) /\ ~MadeBy(l, person) /\ ~MadeBy(l, lead)
      /\ \A n \in 1..Len(plan[l]) :
           /\ plan[l][n].company = RefTo(landed[e][n].company)
           /\ n < Len(plan[l]) \/ pc[l] # "person"
                => plan[l][n].person = RefTo(landed[e][n].person)
  BY DEF Echoes
<1>3. Len(landed[l]) = 0
  BY <1>1 DEF Core, Fits, Planning
<1>4. CASE PlanCompany(l) /\ pc[l] = "company" /\ pc'[l] = "person"
  <2>. PICK n : n = Len(plan[l]) + 1
    OBVIOUS
  <2>1. /\ n \in Nat /\ n \in 1..n /\ n - 1 = Len(plan[l]) /\ n \in 1..Len(Rows(l))
        /\ UNCHANGED tables /\ landed' = landed
        /\ Len(plan'[l]) = n /\ \A m \in 1..n - 1 : plan'[l][m] = plan[l][m]
        /\ plan'[l][n].company \in CompanyRefs(l, n)
    BY <1>1, <1>4, CompanyPlanned
  <2>2. plan'[l][n].company = RefTo(landed[e][n].company)
    BY <1>1, <1>4, <2>1, CompanyEchoed
  <2>3. \A m \in 1..n : m \in 1..n - 1 \/ (m = n /\ ~(m < n))
    BY <2>1
  <2>4. \A m \in 1..Len(plan'[l]) :
          /\ plan'[l][m].company = RefTo(landed'[e][m].company)
          /\ m < Len(plan'[l]) \/ pc'[l] # "person"
               => plan'[l][m].person = RefTo(landed'[e][m].person)
    BY <1>2, <1>4, <2>1, <2>2, <2>3
  <2>5. ~MadeBy(l, company)' /\ ~MadeBy(l, person)' /\ ~MadeBy(l, lead)'
    BY <1>2, <2>1 DEF tables, MadeBy
  <2>6. pc'[l] # "leading" /\ Len(landed'[l]) = 0
    BY <1>3, <1>4, <2>1
  <2>. QED
    BY <2>4, <2>5, <2>6 DEF Echoes
<1>5. CASE PlanPerson(l) /\ pc[l] = "person" /\ pc'[l] \in {"company", "writing"}
  <2>. PICK n : n = Len(plan[l])
    OBVIOUS
  <2>1. /\ n \in Nat /\ n \in 1..n /\ n \in 1..Len(Rows(l)) /\ n = Len(plan[l])
        /\ UNCHANGED tables /\ landed' = landed
        /\ Len(plan'[l]) = n /\ \A m \in 1..n - 1 : plan'[l][m] = plan[l][m]
        /\ plan'[l][n].company = plan[l][n].company
        /\ plan'[l][n].person \in PersonRefs(l, n, plan[l][n].company)
    BY <1>1, <1>5, PersonPlanned
  <2>2. plan'[l][n].person = RefTo(landed[e][n].person)
    BY <1>1, <1>5, <2>1, PersonEchoed
  <2>3. \A m \in 1..n : (m \in 1..n - 1 /\ m < n) \/ m = n
    BY <2>1
  <2>4. \A m \in 1..Len(plan'[l]) :
          /\ plan'[l][m].company = RefTo(landed'[e][m].company)
          /\ plan'[l][m].person = RefTo(landed'[e][m].person)
    BY <1>2, <2>1, <2>2, <2>3
  <2>5. ~MadeBy(l, company)' /\ ~MadeBy(l, person)' /\ ~MadeBy(l, lead)'
    BY <1>2, <2>1 DEF tables, MadeBy
  <2>6. pc'[l] # "leading" /\ Len(landed'[l]) = 0
    BY <1>3, <1>5, <2>1
  <2>. QED
    BY <2>4, <2>5, <2>6 DEF Echoes
<1>. QED
  BY <1>4, <1>5

LEMMA EchoWritten ==
  ASSUME Core, Logbook, Landings, Foreseen, Firm, Authors,
         NEW e \in Imports, NEW l \in Imports, Repeats(e, l), Echoes(e, l), landed'[e] = landed[e],
         WriteCompany(l) \/ WritePerson(l) \/ FindLead(l) \/ (WriteLead(l) /\ ~Fail(l))
  PROVE  Echoes(e, l)'
<1>1. /\ l \in mix /\ reqOf[e].csv = reqOf[l].csv /\ reqOf[e].label = reqOf[l].label
      /\ pc[e] = "ok" /\ Undisturbed(e) /\ Rows(l) = Rows(e) /\ l \in Job /\ l \in Open
  BY SameCsv DEF Repeats, Imports, Core, Types, Open, PastTag, Writing, Working
<1>2. /\ ~MadeBy(l, company) /\ ~MadeBy(l, person) /\ ~MadeBy(l, lead) /\ pc[l] # "leading"
      /\ pc[l] # "person" => \A n \in 1..Len(plan[l]) :
           /\ plan[l][n].company = RefTo(landed[e][n].company)
           /\ plan[l][n].person = RefTo(landed[e][n].person)
      /\ \A n \in 1..Len(landed[l]) :
           /\ landed[l][n].company = landed[e][n].company
           /\ landed[l][n].person = IF n < Len(landed[l]) \/ pc[l] # "landing"
                                    THEN landed[e][n].person ELSE None
  BY DEF Echoes
<1>3. \A a : /\ RefTo(a).kind # "new" /\ (RefTo(a).kind = "none" => a = None)
             /\ RefTo(a).kind = "existing" => RefTo(a).of = a
  BY DEF RefTo, NoRef, Existing
<1>4. CASE WriteCompany(l)
  <2>. PICK n, ref : n = RowNow(l) /\ ref = plan[l][n].company
    OBVIOUS
  <2>1. l \in mix /\ n = RowNow(l) /\ ref = plan[l][n].company
    BY <1>1
  <2>2. /\ n \in Nat /\ n \in 1..n /\ Len(landed[l]) = n - 1 /\ n \in 1..Len(plan[l])
        /\ pc[l] = "writing" /\ pc'[l] = "landing" /\ plan' = plan
        /\ person' = person /\ lead' = lead
        /\ Len(landed'[l]) = n /\ \A m \in 1..n - 1 : landed'[l][m] = landed[l][m]
        /\ landed'[l][n].person = None
    BY <1>4, <2>1, CompanyWritten
  <2>3. ref = RefTo(landed[e][n].company)
    BY <1>2, <2>1, <2>2
  <2>4. LET id == landed'[l][n].company
        IN \/ ref.kind = "none" /\ id = None /\ company' = company
           \/ ref.kind = "existing" /\ id = ref.of /\ company' = company
           \/ ref.kind = "new"
    BY <1>4, <2>1, CompanyWritten, SMTT(60)
  <2>5. landed'[l][n].company = landed[e][n].company /\ company' = company
    BY <1>3, <2>3, <2>4
  <2>6. \A m \in 1..n : (m \in 1..n - 1 /\ m < n) \/ (m = n /\ ~(m < n))
    BY <2>2
  <2>7. \A m \in 1..Len(landed'[l]) :
          /\ landed'[l][m].company = landed'[e][m].company
          /\ landed'[l][m].person = IF m < Len(landed'[l]) \/ pc'[l] # "landing"
                                    THEN landed'[e][m].person ELSE None
    BY <1>2, <2>2, <2>5, <2>6
  <2>8. ~MadeBy(l, company)' /\ ~MadeBy(l, person)' /\ ~MadeBy(l, lead)'
    BY <1>2, <2>2, <2>5 DEF MadeBy
  <2>. QED
    BY <1>2, <2>2, <2>7, <2>8 DEF Echoes
<1>5. CASE WritePerson(l)
  <2>. PICK n, ref : n = Len(landed[l]) /\ ref = plan[l][n].person
    OBVIOUS
  <2>1. l \in mix /\ n = Len(landed[l]) /\ ref = plan[l][n].person
    BY <1>1
  <2>2. /\ n \in Nat /\ n \in 1..n /\ Len(landed[l]) = n /\ n \in 1..Len(plan[l])
        /\ pc[l] = "landing" /\ pc'[l] = "finding" /\ plan' = plan
        /\ company' = company /\ lead' = lead
        /\ Len(landed'[l]) = n /\ \A m \in 1..n - 1 : landed'[l][m] = landed[l][m]
        /\ landed'[l][n].company = landed[l][n].company
    BY <1>5, <2>1, PersonWritten
  <2>3. ref = RefTo(landed[e][n].person) /\ landed[l][n].person = None
    BY <1>2, <2>1, <2>2
  <2>4. LET id == landed'[l][n].person
        IN \/ ref.kind = "none" /\ id = landed[l][n].person /\ person' = person
           \/ ref.kind = "existing" /\ id = ref.of /\ person' = person
           \/ ref.kind = "new"
    BY <1>5, <2>1, PersonWritten, SMTT(60)
  <2>5. landed'[l][n].person = landed[e][n].person /\ person' = person
    BY <1>3, <2>3, <2>4
  <2>6. \A m \in 1..n : (m \in 1..n - 1 /\ m < n) \/ m = n
    BY <2>2
  <2>7. \A m \in 1..Len(landed'[l]) :
          /\ landed'[l][m].company = landed'[e][m].company
          /\ landed'[l][m].person = landed'[e][m].person
    BY <1>2, <2>2, <2>5, <2>6
  <2>8. ~MadeBy(l, company)' /\ ~MadeBy(l, person)' /\ ~MadeBy(l, lead)'
    BY <1>2, <2>2, <2>5 DEF MadeBy
  <2>. QED
    BY <1>2, <2>2, <2>7, <2>8 DEF Echoes
<1>6. CASE FindLead(l) \/ (WriteLead(l) /\ ~Fail(l))
  <2>. PICK n : n = Len(landed[l])
    OBVIOUS
  <2>1. l \in mix /\ n = Len(landed[l])
    BY <1>1
  <2>2. /\ n \in Nat /\ n \in 1..n /\ n \in 1..Len(Rows(l)) /\ plan' = plan
        /\ pc[l] \in {"finding", "leading"} /\ pc'[l] # "landing"
        /\ company' = company /\ person' = person
        /\ Len(landed'[l]) = n /\ \A m \in 1..n - 1 : landed'[l][m] = landed[l][m]
        /\ landed'[l][n].company = landed[l][n].company
        /\ landed'[l][n].person = landed[l][n].person
    BY <1>6, <2>1, LeadWritten
  <2>3. /\ landed[l][n].company = landed[e][n].company /\ landed[l][n].person = landed[e][n].person
        /\ pc[l] = "finding"
    BY <1>2, <2>1, <2>2
  <2>4. FindLeads(l, reqOf[l].csv, Row(l, n), landed[l][n]) # {}
    BY <1>1, <1>2, <2>2, <2>3, LeadFound
  <2>5. lead' = lead /\ pc'[l] = AfterRow(l)
    BY <1>6, <2>1, <2>3, <2>4, LeadWritten
  <2>6. pc'[l] \notin {"leading", "person"}
    BY <2>5 DEF AfterRow
  <2>7. \A m \in 1..n : m \in 1..n - 1 \/ m = n
    BY <2>2
  <2>8. \A m \in 1..Len(landed'[l]) :
          /\ landed'[l][m].company = landed'[e][m].company
          /\ landed'[l][m].person = landed'[e][m].person
    BY <1>2, <2>1, <2>2, <2>3, <2>7
  <2>9. ~MadeBy(l, company)' /\ ~MadeBy(l, person)' /\ ~MadeBy(l, lead)'
    BY <1>2, <2>2, <2>5 DEF MadeBy
  <2>. QED
    BY <1>2, <2>2, <2>3, <2>6, <2>8, <2>9 DEF Echoes
<1>. QED
  BY <1>4, <1>5, <1>6

LEMMA EchoStep ==
  ASSUME Core, Logbook, History, Authors, Landings, Foreseen, Firm, OneEmployer, LinkOrder,
         TagKnown, TagMade, Echo, NEW k \in mix, Step(k)
  PROVE  Echo'
<1>1. /\ Frame(k) /\ k \in Job /\ mix' = mix /\ mix \subseteq Job
      /\ GoesOn(company, company', k) /\ GoesOn(person, person', k) /\ GoesOn(lead, lead', k)
  BY StepFrame, TablesGoOn DEF Core, Types, Frame
<1>2. Imports' = Imports
  BY <1>1 DEF Imports
<1>. SUFFICES ASSUME NEW e \in Imports, NEW l \in Imports, Repeats(e, l)'
              PROVE  Echoes(e, l)'
  BY <1>2 DEF Echo
<1>3. /\ e \in Job /\ l \in Job /\ e \in mix /\ l \in mix /\ e # l
      /\ reqOf[l].op = "import.run" /\ pc'[l] \in PastTag
  BY <1>1 DEF Imports, Repeats
<1>4. k # e /\ (Repeats(e, l) \/ (k = l /\ pc[l] \in {"tag", "tagging"}))
  BY RepeatsBefore
<1>5. landed'[e] = landed[e]
  BY <1>1, <1>3, <1>4 DEF Frame
<1>6. CASE k = l /\ pc[l] \in {"tag", "tagging"}
  <2>1. /\ pc'[l] = "company" /\ plan' = plan /\ landed' = landed
        /\ UNCHANGED <<company, person, lead>>
    BY <1>3, <1>6, PastTagSteps DEF WriteCompany, WritePerson, FindLead, WriteLead
  <2>2. plan[l] = <<>> /\ landed[l] = <<>>
    BY <1>3, <1>6 DEF Core, Fits
  <2>3. ~MadeBy(l, company) /\ ~MadeBy(l, person) /\ ~MadeBy(l, lead)
    <3>1. l # None /\ pc[l] \notin Writing \cup {"committing", "ok"}
      BY <1>3, <1>6, TransferAssumption DEF Writing
    <3>. QED
      BY <3>1 DEF Authors, WrittenIn, MadeBy
  <2>4. ~MadeBy(l, company)' /\ ~MadeBy(l, person)' /\ ~MadeBy(l, lead)'
    BY <2>1, <2>3 DEF MadeBy
  <2>5. Len(plan'[l]) = 0 /\ Len(landed'[l]) = 0
    BY <2>1, <2>2
  <2>. QED
    BY <2>1, <2>4, <2>5 DEF Echoes
<1>7. CASE Repeats(e, l) /\ k = l
  <2>1. Echoes(e, l) /\ pc[l] \notin {"tag", "tagging"}
    BY <1>7 DEF Echo, Repeats, PastTag, Writing
  <2>2. \/ PlanCompany(l) /\ pc[l] = "company" /\ pc'[l] = "person"
        \/ PlanPerson(l) /\ pc[l] = "person" /\ pc'[l] \in {"company", "writing"}
        \/ WriteCompany(l) \/ WritePerson(l) \/ FindLead(l) \/ (WriteLead(l) /\ ~Fail(l))
    BY <1>3, <1>7, <2>1, PastTagSteps
  <2>. QED
    BY <1>5, <1>7, <2>1, <2>2, EchoPlanned, EchoWritten
<1>8. CASE Repeats(e, l) /\ k # l
  <2>1. Echoes(e, l)
    BY <1>8 DEF Echo
  <2>2. pc'[l] = pc[l] /\ plan'[l] = plan[l] /\ landed'[l] = landed[l]
    BY <1>1, <1>3, <1>8 DEF Frame
  <2>3. ASSUME NEW t, NEW u, GoesOn(t, u, k), ~MadeBy(l, t)
        PROVE  ~MadeBy(l, u)
    BY <1>8, <2>3 DEF GoesOn, MadeBy
  <2>4. ~MadeBy(l, company)' /\ ~MadeBy(l, person)' /\ ~MadeBy(l, lead)'
    <3>1. ~MadeBy(l, company') /\ ~MadeBy(l, person') /\ ~MadeBy(l, lead')
      BY <1>1, <2>1, <2>3 DEF Echoes
    <3>. QED
      BY <3>1 DEF MadeBy
  <2>. QED
    BY <1>5, <2>1, <2>2, <2>4 DEF Echoes
<1>. QED
  BY <1>4, <1>6, <1>7, <1>8

\* The later of two such runs, when it commits.  On PostgreSQL the tag it began with
\* may be deleted since; then it has made no lead, and so nothing.
LEMMA LaterMakesNothing ==
  ASSUME Core, Logbook, Solo, History, TagKnown, Yielding, Echo,
         NEW e \in Imports, NEW l \in Imports, e # l, reqOf[e].csv = reqOf[l].csv,
         reqOf[e].label = reqOf[l].label, pc[e] = "ok", pc[l] = "committing", Foldable(e),
         ended[e] <= began[l] \/ MadeBy(e, tag),
         \A n \in began[e] + 1..Len(log) : log[n] \in {e, l}
  PROVE  ~MadeBy(l, company) /\ ~MadeBy(l, person) /\ ~MadeBy(l, lead)
<1>1. /\ e \in Job /\ l \in Job /\ l \in Open /\ reqOf[e].op = "import.run"
      /\ began[e] \in Nat /\ began[l] \in Nat /\ ended[e] \in Nat /\ Len(log) \in Nat
      /\ DOMAIN log = 1..Len(log) /\ pc[l] \in PastTag
  BY LenProperties DEF Core, Types, TypeOK, Imports, Open, Working, PastTag
<1>2. Undisturbed(e)
  <2>1. ended[e] \in 1..Len(log) /\ began[e] < ended[e] /\ ended[l] = 0
    BY <1>1 DEF Logbook, Writes
  <2>2. \A n \in began[e] + 1..Len(log) : ended[log[n]] = n
    BY <1>1 DEF Logbook
  <2>3. \A n \in began[e] + 1..Len(log) : n = ended[e]
    BY <1>1, <2>1, <2>2
  <2>4. began[e] + 1 = ended[e] /\ Len(log) = ended[e]
    BY <1>1, <2>1, <2>3
  <2>. QED
    BY <2>4 DEF Undisturbed
<1>3. CASE ended[e] <= began[l] \/ (MadeBy(e, tag) /\ tag[tagOf[l]] # None)
  <2>1. Repeats(e, l)
    BY <1>1, <1>2, <1>3 DEF Repeats
  <2>. QED
    BY <2>1 DEF Echo, Echoes
<1>4. CASE ~(ended[e] <= began[l]) /\ tag[tagOf[l]] = None
  <2>1. store = "postgres"
    <3>1. Len(log) = ended[e]
      BY <1>2 DEF Undisturbed
    <3>2. store = "sqlite" => began[l] = Len(log)
      BY <1>1 DEF Solo
    <3>. QED
      BY <1>1, <1>4, <3>1, <3>2 DEF Core, Types
  <2>2. ~MadeBy(l, lead)
    BY <1>1, <1>4, <2>1 DEF TagKnown
  <2>. QED
    BY <2>2 DEF Yielding, MadeBy
<1>. QED
  BY <1>3, <1>4

LEMMA NothingTwiceStep ==
  ASSUME Core, Logbook, Solo, History, TagKnown, Yielding, Echo, NothingTwice,
         NEW k \in mix, Step(k)
  PROVE  NothingTwice'
<1>1. /\ Frame(k) /\ k \in Job /\ mix' = mix /\ mix \subseteq Job /\ store' = store
      /\ GoesOn(company, company', k) /\ GoesOn(person, person', k) /\ GoesOn(lead, lead', k)
      /\ GoesOn(tag, tag', k) /\ pc[k] # "ok" /\ log \in Seq(Job) /\ Len(log) \in Nat
      /\ \A j \in Job : began[j] \in Nat /\ ended[j] \in Nat /\ ended[j] <= Len(log)
  BY StepFrame, TablesGoOn, LenProperties DEF Core, Types, TypeOK, Frame, History
<1>2. Imports' = Imports
  BY <1>1 DEF Imports
<1>. SUFFICES ASSUME NEW e \in Imports, NEW l \in Imports, e # l, reqOf[e].csv = reqOf[l].csv,
                     reqOf[e].label = reqOf[l].label, pc'[e] = "ok", pc'[l] = "ok",
                     ended'[e] < ended'[l], ended'[e] <= began'[l] \/ MadeBy(e, tag'),
                     \A n \in began'[e] + 1..ended'[l] : log'[n] \in {e, l}, Foldable(e)'
              PROVE  ~MadeBy(l, company') /\ ~MadeBy(l, person') /\ ~MadeBy(l, lead')
  BY <1>2 DEF NothingTwice, Between, MadeBy
<1>3. /\ e \in Job /\ l \in Job /\ e \in mix /\ l \in mix
      /\ reqOf[e].op = "import.run" /\ reqOf[l].op = "import.run"
  BY <1>1 DEF Imports
<1>4. Foldable(e)
  <2>1. Rows(e)' = Rows(e)
    BY <1>3, RowsFixed
  <2>. QED
    BY <1>1, <2>1 DEF Foldable
<1>5. ASSUME NEW j, NEW t, NEW u, GoesOn(t, u, k), k # j, MadeBy(j, u)
      PROVE  MadeBy(j, t)
  BY <1>5 DEF GoesOn, MadeBy
<1>6. \A n \in 1..Len(log) : log'[n] = log[n]
  <2>1. log' = log \/ log' = Append(log, k)
    BY <1>1 DEF Frame
  <2>2. log \in Seq(Job) /\ k \in Job
    BY <1>1
  <2>3. \A n \in 1..Len(log) : Append(log, k)[n] = log[n]
    BY <2>2
  <2>. QED
    BY <2>1, <2>3
<1>7. k # e
  <2>. SUFFICES ASSUME k = e PROVE FALSE
    OBVIOUS
  <2>1. ended'[e] = Len(log) + 1
    BY <1>1, <1>3, CommitEnds DEF Core, Types
  <2>2. ended'[l] = ended[l] /\ ended[l] <= Len(log)
    BY <1>1, <1>3 DEF Frame
  <2>. QED
    BY <1>1, <1>3, <2>1, <2>2
<1>8. /\ pc[e] = "ok" /\ began'[e] = began[e] /\ ended'[e] = ended[e]
      /\ MadeBy(e, tag') => MadeBy(e, tag)
  BY <1>1, <1>3, <1>5, <1>7 DEF Frame
<1>9. CASE k # l
  <2>1. pc[l] = "ok" /\ began'[l] = began[l] /\ ended'[l] = ended[l]
    BY <1>1, <1>3, <1>9 DEF Frame
  <2>2. \A n \in began[e] + 1..ended[l] : log[n] \in {e, l}
    <3>1. \A n \in began[e] + 1..ended[l] : n \in 1..Len(log)
      BY <1>1, <1>3
    <3>. QED
      BY <1>6, <1>8, <2>1, <3>1
  <2>3. ~MadeBy(l, company) /\ ~MadeBy(l, person) /\ ~MadeBy(l, lead)
    BY <1>4, <1>8, <2>1, <2>2 DEF NothingTwice, Between
  <2>. QED
    BY <1>1, <1>5, <1>9, <2>3
<1>10. CASE k = l
  <2>1. /\ pc[l] = "committing" /\ UNCHANGED tables /\ began' = began
        /\ ended'[l] = Len(log) + 1
    BY <1>1, <1>3, <1>10, CommitEnds DEF Core, Types
  <2>2. \A n \in began[e] + 1..Len(log) : log[n] \in {e, l}
    <3>1. \A n \in began[e] + 1..Len(log) : n \in 1..Len(log) /\ n \in began[e] + 1..Len(log) + 1
      BY <1>1, <1>3
    <3>. QED
      BY <1>6, <1>8, <2>1, <3>1
  <2>3. ended[e] <= began[l] \/ MadeBy(e, tag)
    BY <1>8, <2>1
  <2>4. ~MadeBy(l, company) /\ ~MadeBy(l, person) /\ ~MadeBy(l, lead)
    BY <1>4, <1>8, <2>1, <2>2, <2>3, LaterMakesNothing
  <2>. QED
    BY <2>1, <2>4 DEF tables
<1>. QED
  BY <1>9, <1>10

-----------------------------------------------------------------------------
(* What makes a repeated import harmless, put together.                    *)

Twice ==
  /\ Reach /\ OneEmployer /\ LinkOrder /\ TagKnown /\ TagMade /\ Yielding /\ Firm
  /\ Echo /\ NothingTwice

LEMMA TwiceInit == Init => Twice
<1>. SUFFICES ASSUME Init PROVE Twice
  OBVIOUS
<1>1. \A j \in Imports : pc[j] = "idle"
  BY TransferAssumption DEF Init, Imports
<1>2. TagKnown /\ Yielding
  BY <1>1 DEF TagKnown, Yielding, PastTag, Writing
<1>3. TagMade
  BY <1>1 DEF TagMade, Working
<1>4. Firm
  BY <1>1 DEF Firm, Writing
<1>5. Echo /\ NothingTwice
  BY <1>1 DEF Echo, Repeats, NothingTwice
<1>. QED
  BY <1>2, <1>3, <1>4, <1>5, ReachInit, OneEmployerInit, LinkOrderInit DEF Twice

\* A stuttering step.
LEMMA TwiceStays == Core /\ Twice /\ UNCHANGED vars => Twice'
<1>. SUFFICES ASSUME Core, Twice, UNCHANGED vars
              PROVE  Twice'
  OBVIOUS
<1>1. /\ store' = store /\ order' = order /\ mix' = mix /\ company' = company
      /\ person' = person /\ lead' = lead /\ tag' = tag /\ link' = link /\ pc' = pc
      /\ plan' = plan /\ landed' = landed /\ tagOf' = tagOf /\ log' = log
      /\ began' = began /\ ended' = ended
  BY DEF vars, tables, locals, history
<1>2. Open' = Open /\ Imports' = Imports /\ Imports \subseteq Job
  BY <1>1 DEF Open, Imports, Core, Types
<1>3. \A j \in Job : \A n : Row(j, n)' = Row(j, n) /\ Rows(j)' = Rows(j) /\ Supplied(j)' = Supplied(j)
  BY RowFixed, RowsFixed
<1>4. /\ \A b, id : /\ Reaches(b, company, id)' <=> Reaches(b, company, id)
                    /\ Reaches(b, person, id)' <=> Reaches(b, person, id)
  BY <1>1, <1>2 DEF Reaches
<1>5. Reach'
  BY <1>1, <1>2, <1>4 DEF Twice, Reach
<1>6. OneEmployer' /\ LinkOrder'
  BY <1>1, <1>2 DEF Twice, OneEmployer, LinkOrder, WorksSince
<1>7. StoreLower' = StoreLower
  BY <1>1 DEF StoreLower
<1>8. /\ \A j : MadeBy(j, lead)' <=> MadeBy(j, lead)
      /\ \A j : MadeBy(j, tag)' <=> MadeBy(j, tag)
      /\ \A j : MadeBy(j, company)' <=> MadeBy(j, company)
      /\ \A j : MadeBy(j, person)' <=> MadeBy(j, person)
  BY <1>1 DEF MadeBy
<1>9. TagKnown'
  BY <1>1, <1>2, <1>7, <1>8 DEF Twice, TagKnown
<1>10. \A j : Undisturbed(j)' <=> Undisturbed(j)
  BY <1>1 DEF Undisturbed
<1>11. TagMade'
  <2>1. \A j, label : TagsNamed(j, label)' = TagsNamed(j, label)
    BY <1>1, <1>2, <1>7 DEF TagsNamed, Ids, Sees
  <2>. QED
    BY <1>1, <1>2, <1>8, <1>10, <2>1 DEF Twice, TagMade
<1>12. Yielding'
  BY <1>1, <1>2, <1>8 DEF Twice, Yielding
<1>13. Firm'
  <2>. SUFFICES ASSUME NEW j \in Imports, AsWritten(j)
                PROVE  AsWritten(j)'
    BY <1>1, <1>2 DEF Twice, Firm, Since, Between
  <2>1. \A n : NewCompany(j, n)' = NewCompany(j, n) /\ NewPerson(j, n)' = NewPerson(j, n)
    BY <1>2, <1>3 DEF NewCompany, NewPerson
  <2>2. \A n : /\ FirmCompany(j, n)' <=> FirmCompany(j, n)
               /\ FirmPerson(j, n)' <=> FirmPerson(j, n)
               /\ FirmLead(j, n)' <=> FirmLead(j, n)
    BY <1>1, <1>2, <1>3, <2>1 DEF FirmCompany, FirmPerson, FirmLead
  <2>. QED
    BY <1>1, <2>2 DEF AsWritten, FirmRows
<1>14. \A j \in Imports : Foldable(j)' <=> Foldable(j)
  BY <1>1, <1>2, <1>3 DEF Foldable
<1>15. Echo'
  <2>. SUFFICES ASSUME NEW e \in Imports, NEW l \in Imports
                PROVE  (Repeats(e, l)' <=> Repeats(e, l)) /\ (Echoes(e, l)' <=> Echoes(e, l))
    BY <1>2 DEF Twice, Echo
  <2>1. Repeats(e, l)' <=> Repeats(e, l)
    BY <1>1, <1>8, <1>10, <1>14 DEF Repeats
  <2>2. Echoes(e, l)' <=> Echoes(e, l)
    BY <1>1, <1>8 DEF Echoes
  <2>. QED
    BY <2>1, <2>2
<1>16. NothingTwice'
  BY <1>1, <1>2, <1>14 DEF Twice, NothingTwice, Between, MadeBy
<1>. QED
  BY <1>5, <1>6, <1>9, <1>11, <1>12, <1>13, <1>15, <1>16 DEF Twice

LEMMA TwiceNext == Core /\ History /\ Landings /\ Telling /\ Twice /\ [Next]_vars => Twice'
<1>. SUFFICES ASSUME Core, History, Landings, Telling, Twice, [Next]_vars
              PROVE  Twice'
  OBVIOUS
<1>1. ASSUME NEW k \in mix, Step(k)
      PROVE  Twice'
  <2>1. Logbook /\ Solo /\ Authors /\ Foreseen
    BY DEF Telling
  <2>2. /\ Reach /\ OneEmployer /\ LinkOrder /\ TagKnown /\ TagMade /\ Yielding /\ Firm
        /\ Echo /\ NothingTwice
    BY DEF Twice
  <2>3. Reach' /\ OneEmployer' /\ LinkOrder'
    BY <1>1, <2>1, <2>2, ReachStep, OneEmployerStep, LinkOrderStep
  <2>4. TagKnown' /\ TagMade'
    BY <1>1, <2>1, <2>2, TagKnownStep, TagMadeStep
  <2>5. Yielding' /\ Firm'
    BY <1>1, <2>1, <2>2, YieldingStep, FirmStep
  <2>6. Echo' /\ NothingTwice'
    BY <1>1, <2>1, <2>2, EchoStep, NothingTwiceStep
  <2>. QED
    BY <2>3, <2>4, <2>5, <2>6 DEF Twice
<1>. QED
  BY <1>1, TwiceStays DEF Next

\* Of two imports of one CSV under one label that both succeed, with nothing else
\* committed from the beginning of the earlier to the end of the later, the later makes
\* no company, no person and no lead ("re-running the same CSV with the same sourceLabel
\* does not duplicate", data-ops.ts:364).
THEOREM NothingTwiceHolds == Spec => []NothingTwice
<1>1. Twice => NothingTwice
  BY DEF Twice
<1>. QED
  BY <1>1, CoreHolds, CoreInit, CoreNext, ExportsInit, ExportsNext, LandingsInit, LandingsNext,
     TellingInit, TellingNext, TwiceInit, TwiceNext, PTL DEF Spec
=============================================================================
