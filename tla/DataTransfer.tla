------------------------------ MODULE DataTransfer ------------------------------
(***************************************************************************)
(* CSV import, its preview and CSV export                                  *)
(* (packages/core/src/operations/data-ops.ts), with the lookups, creates   *)
(* and lists of the two stores they are built from, tag.create and         *)
(* tag.delete (meta-ops.ts), and the edits of records that come between.   *)
(*                                                                         *)
(* import.run finds or makes the tag of its label, decides for every row   *)
(* which company and person it reuses, and then writes the rows one by     *)
(* one; nothing it read is locked.  It is one transaction: alone on        *)
(* SQLite; on PostgreSQL (READ COMMITTED) a step below is one lookup, or   *)
(* the writes of one record of a row.  There, numbering a record keeps the *)
(* workspace's counter of its table locked until the transaction ends.     *)
(*                                                                         *)
(* The preview an approver sees runs before the call is held back, outside *)
(* any transaction on both stores.                                         *)
(*                                                                         *)
(* Left out: how CSV columns are recognised, the pipeline and stage of the *)
(* leads, the notes of rows and the fields that are only copied.  Texts    *)
(* are those left after trimming; records of one table differ in age       *)
(* unless their transactions overlapped: which of those is the older is    *)
(* chosen once and for all.                                                *)
(***************************************************************************)
EXTENDS Integers, Sequences, FiniteSets

CONSTANTS
  Job,
  reqOf,        \* reqOf[j]: the call that job j makes
  Mixes,        \* bound: the sets of jobs that come together
  Text, None,
  Lower,        \* Lower[t]: t.toLowerCase() in JavaScript, lower(t) in PostgreSQL
  AsciiLower,   \* AsciiLower[t]: lower(t) in SQLite, which folds ASCII only
  PageSize,     \* rows of a page of an export (500 in the code)
  Workspaces,   \* the tables a run may begin with
  Orders,       \* the ways records of overlapping transactions may differ in age
  FirstOf       \* FirstOf[o][ids]: the oldest of such records, in order o

CompanyField == {"company.name", "company.website"}
PersonField == {"person.name", "person.email"}
Field == CompanyField \cup PersonField \cup {"engagement.channel", "engagement.source"}

\* A CSV: the fields its columns map to, and for each row a value or none of each.
Csv == {csv \in [supplied : SUBSET Field, rows : Seq([Field -> Text \cup {None}])] :
          \A n \in DOMAIN csv.rows, f \in Field \ csv.supplied : csv.rows[n][f] = None}

Edit == {"company.update", "company.delete", "company.unlinkPerson", "person.update",
         "engagement.update", "engagement.archive", "engagement.restore",
         "engagement.delete", "tag.delete"}

\* gated: an agent calls, so the call is previewed and waits for its approval.
Call ==
       [op : {"import.run"}, csv : Csv, label : Text, gated : BOOLEAN]
  \cup [op : {"import.preview"}, csv : Csv]
  \cup [op : {"export.csv"}]
  \cup [op : {"tag.create"}, label : Text]
  \cup [op : {"company.update"}, id : Nat, field : CompanyField, to : Text \cup {None}]
  \cup [op : {"person.update"}, id : Nat, field : PersonField, to : Text \cup {None}]
  \cup [op : {"engagement.update"}, id : Nat, field : {"engagement.source"},
        to : Text \cup {None}]
  \cup [op : {"company.unlinkPerson"}, company : Nat, person : Nat]
  \cup [op : {"company.delete", "engagement.archive", "engagement.restore",
              "engagement.delete", "tag.delete"}, id : Nat]

ASSUME TransferAssumption ==
  /\ reqOf \in [Job -> Call]
  /\ Mixes \subseteq SUBSET Job
  /\ None \notin Text \cup Job /\ None \notin Int
  /\ Lower \in [Text -> Text] /\ AsciiLower \in [Text -> Text]
  /\ PageSize \in Nat \ {0}

\* Folding a text again, or what SQLite has folded, changes nothing more.
ASSUME FoldAssumption ==
  \A t \in Text : Lower[Lower[t]] = Lower[t] /\ Lower[AsciiLower[t]] = Lower[t]

\* The rows of a table by their display id; None where a row is gone.
TableOf(row) == Seq(row \cup {None})
By == Job \cup {None}  \* whose transaction wrote a row; None, before this run
CompanyRow == [data : [CompanyField -> Text \cup {None}], by : By]
PersonRow == [data : [PersonField -> Text \cup {None}], by : By]
LeadRow == [company : Nat \cup {None}, person : Nat \cup {None}, channel : Text \cup {None},
            source : Text \cup {None}, archived : BOOLEAN, by : By]
TagRow == [name : Text, by : By]
LinkRow == [company : Nat, person : Nat, by : By]

ASSUME NoneAssumption ==
  None \notin CompanyRow \cup PersonRow \cup LeadRow \cup TagRow \cup LinkRow

Settled(table) == \A n \in DOMAIN table : table[n] # None => table[n].by = None
There(table, id) == id \in DOMAIN table /\ table[id] # None

\* A workspace as earlier calls left it: nobody's transaction is open, a tag's name
\* is its own, and the records that links and leads refer to are there.
ASSUME WorkspaceAssumption ==
  \A w \in Workspaces :
    /\ w.company \in TableOf(CompanyRow) /\ Settled(w.company)
    /\ w.person \in TableOf(PersonRow) /\ Settled(w.person)
    /\ w.lead \in TableOf(LeadRow) /\ Settled(w.lead)
    /\ w.tag \in TableOf(TagRow) /\ Settled(w.tag)
    /\ \A m, n \in DOMAIN w.tag : m # n /\ w.tag[m] # None /\ w.tag[n] # None
                                    => w.tag[m].name # w.tag[n].name
    /\ w.link \subseteq LinkRow
    /\ \A l \in w.link : /\ l.by = None
                         /\ There(w.company, l.company) /\ There(w.person, l.person)
    /\ \A n \in {m \in DOMAIN w.lead : w.lead[m] # None} :
         /\ w.lead[n].company # None => There(w.company, w.lead[n].company)
         /\ w.lead[n].person # None => There(w.person, w.lead[n].person)

VARIABLES
  store,                  \* "sqlite" or "postgres"
  order,                  \* which of the records of overlapping transactions are older
  mix,                    \* the jobs of this run
  company, person, lead,  \* the tables, by display id; None where a row is gone
  tag,
  link,                   \* company_people
  pc,                     \* where job j is
  plan,                   \* plan[j]: what planImport decided for the rows so far
  landed,                 \* landed[j]: the records of the rows written so far
  tagOf,                  \* tagOf[j]: the tag j's label stands for
  total, pages,           \* what j's export has counted and collected
  told,                   \* told[j]: the counts of j's preview and of its run
  log,                    \* history: the jobs that committed changes, in order
  began, ended,           \* history: Len(log) when j began and when it committed
  listed                  \* history: the leads there when j's export began

tables == <<company, person, lead, tag, link>>
locals == <<plan, landed, tagOf, total, pages, told>>
history == <<log, began, ended, listed>>
vars == <<store, order, mix, tables, pc, locals, history>>

Counts == [newCompanies : Nat, companyMatches : Nat, newPeople : Nat, peopleMatches : Nat]
Zero == [newCompanies |-> 0, companyMatches |-> 0, newPeople |-> 0, peopleMatches |-> 0]

-----------------------------------------------------------------------------
(* Transactions.                                                           *)

Working == {"tag", "tagging", "company", "person", "writing", "landing", "finding",
            "leading", "counting", "paging", "committing"}
Open == {j \in mix : pc[j] \in Working}

\* SQLite has one connection: a unit of work begins when no other is open, and
\* a statement outside any waits for it.
MayBegin(j) == store = "sqlite" => Open \subseteq {j}

\* Rows of transactions that are still open are seen by nobody else.
Sees(j, row) == row # None /\ row.by \notin Open \ {j}
Ids(j, table) == {n \in DOMAIN table : Sees(j, table[n])}
Links(j) == {l \in link : Sees(j, l)}

\* Whether another transaction has uncommitted rows in a table: it then holds
\* the counter of that table.
MadeBy(k, table) == \E n \in DOMAIN table : table[n] # None /\ table[n].by = k
Holders(j, table) == {k \in Open \ {j} : MadeBy(k, table)}
NextDisplayId(j, table) == Holders(j, table) = {}

Undo(j, table) ==
  [n \in DOMAIN table |->
     IF table[n] # None /\ table[n].by = j THEN None ELSE table[n]]

Goto(j, where) == pc' = [pc EXCEPT ![j] = where] /\ UNCHANGED <<store, order, mix>>

\* A read, or a decision: no table changes and nothing ends.
Goes(j, where) == Goto(j, where) /\ UNCHANGED <<tables, history>>

\* The handler throws: its transaction rolls back.
Fail(j) ==
  /\ company' = Undo(j, company) /\ person' = Undo(j, person) /\ lead' = Undo(j, lead)
  /\ tag' = Undo(j, tag)
  /\ link' = {l \in link : l.by # j}
  /\ Goto(j, "failed")
  /\ UNCHANGED <<locals, history>>

Ends(j) ==
  /\ log' = Append(log, j)
  /\ ended' = [ended EXCEPT ![j] = Len(log) + 1]
  /\ UNCHANGED <<began, listed>>

-----------------------------------------------------------------------------
(* Matching.                                                               *)

Fold(fold, text) == IF text = None THEN None ELSE fold[text]
StoreLower == IF store = "sqlite" THEN AsciiLower ELSE Lower

\* Blank equals blank; an email is compared in the store's lower case.
ExactTerm(field, stored, wanted) ==
  IF field = "person.email"
  THEN Fold(StoreLower, stored) = Fold(Lower, wanted)
  ELSE stored = wanted

ExactTerms(fields, record, row) ==
  \A f \in fields : ExactTerm(f, record.data[f], row[f])

\* The order of createdAt and id: certain when one transaction ended before
\* the other began.
Older(table, m, n) ==
  /\ m < n
  /\ \/ table[m].by = None
     \/ table[n].by # None /\ table[m].by # table[n].by
          /\ ended[table[m].by] <= began[table[n].by]

\* The row an ORDER BY created_at, id LIMIT 1 answers with, if any.
Oldest(table, ids) ==
  LET eldest == {n \in ids : \A m \in ids : ~Older(table, m, n)}
      first == FirstOf[order][eldest]
  IN {n \in eldest : n = IF first \in eldest THEN first ELSE CHOOSE m \in eldest : TRUE}

FindCompanies(j, csv, row) ==
  Oldest(company, {n \in Ids(j, company) :
                     ExactTerms(CompanyField \cap csv.supplied, company[n], row)})

Employers(j, n) == {l.company : l \in {m \in Links(j) : m.person = n}}

\* at: the company the person works for, None for nobody, -1 for whoever.
FindPeople(j, csv, row, at) ==
  Oldest(person, {n \in Ids(j, person) :
    /\ ExactTerms(PersonField \cap csv.supplied, person[n], row)
    /\ at = None => Employers(j, n) = {}
    /\ at \notin {None, -1} => at \in Employers(j, n)})

LeadSource(j, row) ==
  IF row["engagement.source"] = None THEN reqOf[j].label ELSE row["engagement.source"]

\* Mutant: a lead is looked for under the import's label only.
FindLeadsByLabel(j, csv, row, at) ==
  {n \in Ids(j, lead) :
     /\ lead[n].company = at.company /\ lead[n].person = at.person
     /\ "engagement.channel" \in csv.supplied => lead[n].channel = row["engagement.channel"]
     /\ lead[n].source = reqOf[j].label}

\* The leads on the same company and person with the same channel and source.
FindLeads(j, csv, row, at) ==
  {n \in Ids(j, lead) :
     /\ lead[n].company = at.company /\ lead[n].person = at.person
     /\ "engagement.channel" \in csv.supplied => lead[n].channel = row["engagement.channel"]
     /\ lead[n].source = LeadSource(j, row)}

TagsNamed(j, label) ==
  {n \in Ids(j, tag) : StoreLower[tag[n].name] = Lower[label]}

-----------------------------------------------------------------------------
(* Planning.                                                               *)

\* How many of the numbers come before n.
Place(numbers, n) == Cardinality({m \in numbers : m < n})

\* Rows without a company's and a person's name are not imported.
Named(csv) ==
  {n \in DOMAIN csv.rows :
     csv.rows[n]["company.name"] # None \/ csv.rows[n]["person.name"] # None}

Rows(j) ==
  LET csv == reqOf[j].csv
  IN [k \in 1..Cardinality(Named(csv)) |->
        csv.rows[CHOOSE n \in Named(csv) : Place(Named(csv), n) = k - 1]]

Row(j, n) == Rows(j)[n]
Supplied(j) == reqOf[j].csv.supplied
CompanyColumn(j) == "company.name" \in Supplied(j)

SameDataKey(j, fields, n) ==
  [f \in fields \cap Supplied(j) |->
     IF f = "person.email" THEN Fold(Lower, Row(j, n)[f]) ELSE Row(j, n)[f]]

\* What a row's company or person comes from: a record, or the first row that
\* has its data, or nothing.
Existing(id) == [kind |-> "existing", of |-> id]
New(n) == [kind |-> "new", of |-> n]
NoRef == [kind |-> "none", of |-> 0]
Refs(ids, n) == IF ids = {} THEN {New(n)} ELSE {Existing(id) : id \in ids}

\* The companies row n may be planned to have; earlier rows with its data decide.
CompanyRefs(j, n) ==
  LET same == {m \in 1..n - 1 : /\ plan[j][m].company # NoRef
                                /\ SameDataKey(j, CompanyField, m)
                                     = SameDataKey(j, CompanyField, n)}
  IN IF Row(j, n)["company.name"] = None THEN {NoRef}
     ELSE IF same # {} THEN {plan[j][m].company : m \in same}
     ELSE Refs(FindCompanies(j, reqOf[j].csv, Row(j, n)), n)

\* Mutant: the people of a CSV are told apart by their own data alone.
PersonKeyOfData(j, n, ref) == SameDataKey(j, PersonField, n)

PersonKey(j, n, ref) ==
  <<SameDataKey(j, PersonField, n), IF CompanyColumn(j) THEN ref ELSE NoRef>>

PersonRefs(j, n, ref) ==
  LET same == {m \in 1..n - 1 : /\ plan[j][m].person # NoRef
                                /\ PersonKey(j, m, plan[j][m].company)
                                     = PersonKey(j, n, ref)}
      at == IF ~CompanyColumn(j) THEN -1 ELSE IF ref = NoRef THEN None ELSE ref.of
  IN IF Row(j, n)["person.name"] = None THEN {NoRef}
     ELSE IF same # {} THEN {plan[j][m].person : m \in same}
     ELSE IF ref.kind = "new" THEN {New(n)}
     ELSE Refs(FindPeople(j, reqOf[j].csv, Row(j, n), at), n)

RowsWith(p, what, kinds) == {n \in DOMAIN p : p[n][what].kind \in kinds}
NewRefs(p, what) == {p[n][what] : n \in RowsWith(p, what, {"new"})}

\* Mutant: a row that repeats a new record of the CSV counts as new too.
PreviewCountsRepeats(p) ==
  [newCompanies |-> Cardinality(RowsWith(p, "company", {"new"})),
   companyMatches |-> Cardinality(RowsWith(p, "company", {"existing"})),
   newPeople |-> Cardinality(RowsWith(p, "person", {"new"})),
   peopleMatches |-> Cardinality(RowsWith(p, "person", {"existing"}))]

\* What a preview tells: a new record once, its repeats as matches.
PreviewCounts(p) ==
  LET news(what) == Cardinality(NewRefs(p, what))
      all(what) == Cardinality(RowsWith(p, what, {"new", "existing"}))
  IN [newCompanies |-> news("company"), companyMatches |-> all("company") - news("company"),
      newPeople |-> news("person"), peopleMatches |-> all("person") - news("person")]

\* Where planning goes on after row n, and where it ends.
Planned(j) ==
  IF Len(plan[j]) < Len(Rows(j))
  THEN /\ Goes(j, IF pc[j] = "person" THEN "company" ELSE "preview_company")
       /\ UNCHANGED told
  ELSE IF pc[j] = "person" /\ reqOf[j].op = "import.run"
  THEN /\ told' = [told EXCEPT ![j].run = Zero]
       /\ Goes(j, "writing")
  ELSE /\ told' = [told EXCEPT ![j].preview = PreviewCounts(plan'[j])]
       /\ Goes(j, IF pc[j] = "person" THEN "committing" ELSE "asked")

PlanCompany(j) ==
  /\ pc[j] \in {"company", "preview_company"} /\ Rows(j) # <<>>
  /\ MayBegin(j)
  /\ \E ref \in CompanyRefs(j, Len(plan[j]) + 1) :
       plan' = [plan EXCEPT ![j] = Append(@, [company |-> ref, person |-> NoRef])]
  /\ Goes(j, IF pc[j] = "company" THEN "person" ELSE "preview_person")
  /\ UNCHANGED <<landed, tagOf, total, pages, told>>

PlanPerson(j) ==
  /\ pc[j] \in {"person", "preview_person"}
  /\ MayBegin(j)
  /\ LET n == Len(plan[j])
     IN \E ref \in PersonRefs(j, n, plan[j][n].company) :
          plan' = [plan EXCEPT ![j][n].person = ref]
  /\ Planned(j)
  /\ UNCHANGED <<landed, tagOf, total, pages>>

\* A preview of no importable row; "CSV has no data rows" is an error.
PlanNothing(j) ==
  /\ pc[j] \in {"company", "preview_company"} /\ Rows(j) = <<>>
  /\ MayBegin(j)
  /\ IF reqOf[j].csv.rows = <<>> THEN Fail(j)
     ELSE /\ told' = [told EXCEPT ![j].preview = Zero]
          /\ Goes(j, IF pc[j] = "company" THEN "committing" ELSE "asked")
          /\ UNCHANGED <<plan, landed, tagOf, total, pages>>

-----------------------------------------------------------------------------
(* Beginning a call.                                                       *)

Began(j) ==
  /\ began' = [began EXCEPT ![j] = Len(log)]
  /\ UNCHANGED <<log, ended>>

\* An agent's import: the preview of what it would do comes first.
Preview(j) ==
  /\ pc[j] = "idle" /\ reqOf[j].op = "import.run" /\ reqOf[j].gated
  /\ Began(j)
  /\ Goto(j, "preview_company")
  /\ UNCHANGED <<tables, locals, listed>>

\* At once, or once the held-back call is approved.
MayRun(j) ==
  /\ \/ pc[j] = "idle" /\ (reqOf[j].op = "import.run" => ~reqOf[j].gated)
     \/ pc[j] = "asked"
  /\ MayBegin(j)

NothingToImport(j) == reqOf[j].op = "import.run" /\ Rows(j) = <<>>

\* "Nothing importable in this CSV"
Refuse(j) == MayRun(j) /\ NothingToImport(j) /\ Fail(j)

\* The handler begins.
Begin(j) ==
  /\ MayRun(j) /\ ~NothingToImport(j)
  /\ Began(j)
  /\ LET op == reqOf[j].op
     IN /\ op \notin Edit
        /\ Goto(j, CASE op \in {"import.run", "tag.create"} -> "tag"
                     [] op = "import.preview" -> "company"
                     [] op = "export.csv" -> "counting")
        /\ listed' = [listed EXCEPT ![j] =
             IF op = "export.csv" THEN {n \in Ids(j, lead) : ~lead[n].archived} ELSE @]
  /\ plan' = [plan EXCEPT ![j] = <<>>]
  /\ UNCHANGED <<tables, landed, tagOf, total, pages, told>>

-----------------------------------------------------------------------------
(* Tags.                                                                   *)

AfterTag(j) == IF reqOf[j].op = "import.run" THEN "company" ELSE "committing"

\* tags.getByName
FindTag(j) ==
  /\ pc[j] = "tag"
  /\ LET named == TagsNamed(j, reqOf[j].label)
     IN IF named = {} THEN UNCHANGED tagOf /\ Goes(j, "tagging")
        ELSE \E n \in named : /\ tagOf' = [tagOf EXCEPT ![j] = n]
                              /\ Goes(j, AfterTag(j))
  /\ UNCHANGED <<plan, landed, total, pages, told>>

TagsCalled(label) == {n \in DOMAIN tag : tag[n] # None /\ tag[n].name = label}

\* Mutant: the name is not unique in the table.
CreateTagTwice(j) ==
  /\ pc[j] = "tagging"
  /\ tag' = Append(tag, [name |-> reqOf[j].label, by |-> j])
  /\ tagOf' = [tagOf EXCEPT ![j] = Len(tag) + 1]
  /\ Goto(j, AfterTag(j))
  /\ UNCHANGED <<company, person, lead, link, plan, landed, total, pages, told, history>>

\* tags.create: UNIQUE (workspace_id, name), by the name as it is written.  The
\* insert waits for an uncommitted tag of that name, and fails beside a
\* committed one.
CreateTag(j) ==
  /\ pc[j] = "tagging"
  /\ LET rivals == TagsCalled(reqOf[j].label)
     IN /\ rivals \subseteq Ids(j, tag)
        /\ \/ rivals # {} /\ Fail(j)
           \/ /\ rivals = {}
              /\ tag' = Append(tag, [name |-> reqOf[j].label, by |-> j])
              /\ tagOf' = [tagOf EXCEPT ![j] = Len(tag) + 1]
              /\ Goto(j, AfterTag(j))
              /\ UNCHANGED <<company, person, lead, link, history>>
              /\ UNCHANGED <<plan, landed, total, pages, told>>

-----------------------------------------------------------------------------
(* Writing the rows.                                                       *)

\* The row being written, and the record an earlier row made of its data.
RowNow(j) == Len(landed[j]) + 1
Made(j, ref, what) ==
  IF ref.of \in DOMAIN landed[j] THEN landed[j][ref.of][what] ELSE None

\* Foreign keys: PostgreSQL refuses a row that refers to a record that is gone.
KeysHold(j, table, id) == store = "postgres" /\ id # None => id \in Ids(j, table)

Land(j, at) == landed' = [landed EXCEPT ![j] = Append(@, at)]

\* What the stores' creates insert.
NewCompany(j, n) == [data |-> [f \in CompanyField |-> Row(j, n)[f]], by |-> j]
NewPerson(j, n) == [data |-> [f \in PersonField |-> Row(j, n)[f]], by |-> j]
NewLead(j, n) ==
  [company |-> landed[j][n].company, person |-> landed[j][n].person,
   channel |-> Row(j, n)["engagement.channel"], source |-> LeadSource(j, Row(j, n)),
   archived |-> FALSE, by |-> j]

WriteCompany(j) ==
  /\ pc[j] = "writing"
  /\ LET n == RowNow(j)
         ref == plan[j][n].company
         id == IF ref.kind = "existing" THEN ref.of ELSE Made(j, ref, "company")
     IN \/ /\ ref.kind = "none"
           /\ Land(j, [company |-> None, person |-> None, lead |-> None])
           /\ UNCHANGED <<company, told>>
        \/ /\ ref.kind # "none" /\ id # None
           /\ Land(j, [company |-> id, person |-> None, lead |-> None])
           /\ told' = [told EXCEPT ![j].run.companyMatches = @ + 1]
           /\ UNCHANGED company
        \/ /\ ref.kind = "new" /\ id = None
           /\ NextDisplayId(j, company)
           /\ company' = Append(company, NewCompany(j, n))
           /\ Land(j, [company |-> Len(company) + 1, person |-> None, lead |-> None])
           /\ told' = [told EXCEPT ![j].run.newCompanies = @ + 1]
  /\ Goto(j, "landing")
  /\ UNCHANGED <<person, lead, tag, link, plan, tagOf, total, pages, history>>

\* people.link, for a person this row created.
LinkMade(j, id) ==
  LET at == landed[j][Len(landed[j])].company
  IN IF at = None THEN {} ELSE {[company |-> at, person |-> id, by |-> j]}

WritePerson(j) ==
  /\ pc[j] = "landing"
  /\ LET n == Len(landed[j])
         ref == plan[j][n].person
         id == IF ref.kind = "existing" THEN ref.of ELSE Made(j, ref, "person")
     IN \/ /\ ref.kind = "none"
           /\ Goto(j, "finding")
           /\ UNCHANGED <<tables, landed, told, history>>
        \/ /\ ref.kind # "none" /\ id # None
           /\ landed' = [landed EXCEPT ![j][n].person = id]
           /\ told' = [told EXCEPT ![j].run.peopleMatches = @ + 1]
           /\ Goto(j, "finding")
           /\ UNCHANGED <<tables, history>>
        \/ /\ ref.kind = "new" /\ id = None
           /\ NextDisplayId(j, person)
           /\ KeysHold(j, company, landed[j][n].company)
           /\ person' = Append(person, NewPerson(j, n))
           /\ link' = link \cup LinkMade(j, Len(person) + 1)
           /\ landed' = [landed EXCEPT ![j][n].person = Len(person) + 1]
           /\ told' = [told EXCEPT ![j].run.newPeople = @ + 1]
           /\ Goto(j, "finding")
           /\ UNCHANGED <<company, lead, tag, history>>
  /\ UNCHANGED <<plan, tagOf, total, pages>>

\* The company to link a new person to is gone.
LinkRefused(j) ==
  /\ pc[j] = "landing"
  /\ LET n == Len(landed[j])
         ref == plan[j][n].person
     IN /\ ref.kind = "new" /\ Made(j, ref, "person") = None
        /\ NextDisplayId(j, person)
        /\ ~KeysHold(j, company, landed[j][n].company)
  /\ Fail(j)

AfterRow(j) == IF Len(landed[j]) = Len(Rows(j)) THEN "committing" ELSE "writing"

\* engagements.findExact: a lead that is there is kept, not repeated.
FindLead(j) ==
  /\ pc[j] = "finding"
  /\ LET n == Len(landed[j])
         there == FindLeads(j, reqOf[j].csv, Row(j, n), landed[j][n])
     IN IF there = {} THEN UNCHANGED landed /\ Goes(j, "leading")
        ELSE \E id \in Oldest(lead, there) :
               /\ landed' = [landed EXCEPT ![j][n].lead = id]
               /\ Goes(j, AfterRow(j))
  /\ UNCHANGED <<plan, tagOf, total, pages, told>>

\* engagements.create, and the tag of the label on it.
WriteLead(j) ==
  /\ pc[j] = "leading"
  /\ NextDisplayId(j, lead)
  /\ LET n == Len(landed[j])
         at == landed[j][n]
         held == /\ KeysHold(j, company, at.company) /\ KeysHold(j, person, at.person)
                 /\ KeysHold(j, tag, tagOf[j])
     IN \/ /\ held
           /\ lead' = Append(lead, NewLead(j, n))
           /\ landed' = [landed EXCEPT ![j][n].lead = Len(lead) + 1]
           /\ Goto(j, AfterRow(j))
           /\ UNCHANGED <<company, person, tag, link, history, plan, tagOf, total, pages, told>>
        \/ ~held /\ Fail(j)

\* The audit event and the end of the transaction.
Commit(j) ==
  /\ pc[j] = "committing"
  /\ Goto(j, "ok")
  /\ IF reqOf[j].op \in {"import.run", "tag.create"} THEN Ends(j) ELSE UNCHANGED history
  /\ UNCHANGED <<tables, locals>>

\* What j's next write waits for.
Waits(j) ==
  CASE pc[j] = "tagging" -> {tag[n].by : n \in TagsCalled(reqOf[j].label) \ Ids(j, tag)}
    [] pc[j] = "writing" /\ plan[j][RowNow(j)].company.kind = "new"
         -> Holders(j, company)
    [] pc[j] = "landing" /\ plan[j][Len(landed[j])].person.kind = "new"
         -> Holders(j, person)
    [] pc[j] = "leading" -> Holders(j, lead)
    [] OTHER -> {}

\* PostgreSQL ends one of the transactions that wait for each other.
DeadlockAbort(j) ==
  /\ \E ring \in SUBSET Open : j \in ring /\ \A k \in ring : Waits(k) \cap ring # {}
  /\ Fail(j)

-----------------------------------------------------------------------------
(* Export.                                                                 *)

\* A page of the leads by display id, as both stores list them.
Listed(j) == {n \in Ids(j, lead) : ~lead[n].archived}

\* Mutant: the newest leads come first.
PageNewestFirst(j, from) ==
  {n \in Listed(j) : Cardinality({m \in Listed(j) : m > n}) \in from..from + PageSize - 1}

Page(j, from) ==
  {n \in Listed(j) : Place(Listed(j), n) \in from..from + PageSize - 1}

CountPage(j) ==
  /\ pc[j] = "counting"
  /\ total' = [total EXCEPT ![j] = Cardinality(Listed(j))]
  /\ Goes(j, "paging")
  /\ UNCHANGED <<plan, landed, tagOf, pages, told>>

\* How many rows the pages have, those on two of them counted twice.
Collected(j) == Cardinality(UNION {{n} \X pages[j][n] : n \in DOMAIN pages[j]})

ReadPage(j) ==
  /\ pc[j] = "paging"
  /\ LET items == Page(j, PageSize * Len(pages[j]))
     IN /\ pages' = [pages EXCEPT ![j] = Append(@, items)]
        /\ Goes(j, IF Collected(j) + Cardinality(items) >= total[j] \/ items = {}
                   THEN "committing" ELSE "counting")
  /\ UNCHANGED <<plan, landed, tagOf, total, told>>

-----------------------------------------------------------------------------
(* The edits of others.  Each is one step: it reads its record only to ask *)
(* whether it is there, and its write waits for the transactions whose     *)
(* uncommitted rows refer to what it removes.                              *)

Refer(k, id, what) == \E l \in {x \in link : x.by = k} : l[what] = id
Hang(k, id, what) == \E n \in DOMAIN lead : /\ lead[n] # None /\ lead[n].by = k
                                            /\ lead[n][what] = id

Free(j, req) ==
  \A k \in Open \ {j} :
    CASE req.op = "company.delete" -> ~Refer(k, req.id, "company") /\ ~Hang(k, req.id, "company")
      [] req.op = "tag.delete" -> ~(tagOf[k] = req.id /\ MadeBy(k, lead))
      [] OTHER -> TRUE

Target(req) ==
  CASE req.op \in {"company.update", "company.delete"} -> company
    [] req.op = "person.update" -> person
    [] req.op = "tag.delete" -> tag
    [] OTHER -> lead

Cleared(req) ==
  [n \in DOMAIN lead |->
     IF lead[n] # None /\ lead[n].company = req.id THEN [lead[n] EXCEPT !.company = None]
     ELSE lead[n]]

EditRecord(j) ==
  LET req == reqOf[j]
  IN /\ pc[j] = "idle" /\ req.op \in Edit \ {"company.unlinkPerson"}
     /\ MayBegin(j)
     /\ Free(j, req)
     /\ IF req.id \notin Ids(j, Target(req)) THEN Fail(j)
        ELSE /\ company' = CASE req.op = "company.update"
                                  -> [company EXCEPT ![req.id].data[req.field] = req.to]
                             [] req.op = "company.delete" -> [company EXCEPT ![req.id] = None]
                             [] OTHER -> company
             /\ person' = IF req.op = "person.update"
                          THEN [person EXCEPT ![req.id].data[req.field] = req.to] ELSE person
             /\ link' = IF req.op = "company.delete"
                        THEN {l \in link : l.company # req.id} ELSE link
             /\ lead' = CASE req.op = "company.delete" -> Cleared(req)
                          [] req.op = "engagement.update"
                               -> [lead EXCEPT ![req.id].source = req.to]
                          [] req.op = "engagement.archive"
                               -> [lead EXCEPT ![req.id].archived = TRUE]
                          [] req.op = "engagement.restore"
                               -> [lead EXCEPT ![req.id].archived = FALSE]
                          [] req.op = "engagement.delete" -> [lead EXCEPT ![req.id] = None]
                          [] OTHER -> lead
             /\ tag' = IF req.op = "tag.delete" THEN [tag EXCEPT ![req.id] = None] ELSE tag
             /\ Ends(j)
             /\ Goto(j, "ok")
             /\ UNCHANGED locals

Unlink(j) ==
  LET req == reqOf[j]
  IN /\ pc[j] = "idle" /\ req.op = "company.unlinkPerson"
     /\ MayBegin(j)
     /\ link' = link \ {l \in Links(j) : l.company = req.company /\ l.person = req.person}
     /\ Ends(j)
     /\ Goto(j, "ok")
     /\ UNCHANGED <<company, person, lead, tag, locals>>

-----------------------------------------------------------------------------
Init ==
  /\ store \in {"sqlite", "postgres"}
  /\ order \in Orders
  /\ \E w \in Workspaces :
       /\ company = w.company /\ person = w.person /\ lead = w.lead
       /\ tag = w.tag /\ link = w.link
  /\ mix \in Mixes
  /\ pc = [j \in Job |-> "idle"]
  /\ plan = [j \in Job |-> <<>>] /\ landed = [j \in Job |-> <<>>]
  /\ tagOf = [j \in Job |-> None]
  /\ total = [j \in Job |-> 0] /\ pages = [j \in Job |-> <<>>]
  /\ told = [j \in Job |-> [preview |-> None, run |-> None]]
  /\ log = <<>>
  /\ began = [j \in Job |-> 0] /\ ended = [j \in Job |-> 0]
  /\ listed = [j \in Job |-> {}]

Step(j) ==
  \/ Preview(j) \/ Refuse(j) \/ Begin(j)
  \/ FindTag(j) \/ CreateTag(j)
  \/ PlanCompany(j) \/ PlanPerson(j) \/ PlanNothing(j)
  \/ WriteCompany(j) \/ WritePerson(j) \/ LinkRefused(j)
  \/ FindLead(j) \/ WriteLead(j)
  \/ CountPage(j) \/ ReadPage(j)
  \/ Commit(j) \/ DeadlockAbort(j)
  \/ EditRecord(j) \/ Unlink(j)

Next == \E j \in mix : Step(j)

Spec == Init /\ [][Next]_vars

-----------------------------------------------------------------------------
(* Properties.                                                             *)

TypeOK ==
  /\ company \in TableOf(CompanyRow) /\ person \in TableOf(PersonRow)
  /\ lead \in TableOf(LeadRow) /\ tag \in TableOf(TagRow)
  /\ link \subseteq LinkRow
  /\ told \in [Job -> [preview : Counts \cup {None}, run : Counts \cup {None}]]
  /\ log \in Seq(Job)

\* Two tags never have one name (meta-ops.ts: "Names are unique per workspace"),
\* nor do two open transactions number records of one table.
Inv ==
  /\ TypeOK
  /\ \A m, n \in DOMAIN tag : m # n /\ tag[m] # None /\ tag[n] # None
                                => tag[m].name # tag[n].name
  /\ \A table \in {company, person, lead} : Cardinality({k \in Open : MadeBy(k, table)}) <= 1

Imports == {j \in mix : reqOf[j].op = "import.run"}
Between(a, b) == {log[n] : n \in a + 1..b}

\* Emails whose case SQLite folds as JavaScript does.
Foldable(j) ==
  \/ store = "postgres"
  \/ \A text \in {Rows(j)[n]["person.email"] : n \in DOMAIN Rows(j)} \ {None} :
       AsciiLower[text] = Lower[text]

\* "re-running the same CSV with the same sourceLabel does not duplicate"
\* (data-ops.ts:364): of two runs that both succeed with nothing else between
\* them, the later makes no record.  On PostgreSQL the later may even begin
\* before the earlier ends, when their label is a new one: its tag then holds
\* the second run back.
NothingTwice ==
  \A e, l \in Imports :
    /\ e # l /\ reqOf[e].csv = reqOf[l].csv /\ reqOf[e].label = reqOf[l].label
    /\ pc[e] = "ok" /\ pc[l] = "ok" /\ ended[e] < ended[l]
    /\ ended[e] <= began[l] \/ MadeBy(e, tag)
    /\ Between(began[e], ended[l]) \subseteq {e, l}
    /\ Foldable(e)
    => ~\E table \in {company, person, lead} : MadeBy(l, table)

SameDataAs(j, record, row) ==
  \A f \in PersonField \cap Supplied(j) :
    IF f = "person.email" THEN Fold(Lower, record.data[f]) = Fold(Lower, row[f])
    ELSE record.data[f] = row[f]

\* A row is where its data says: its lead is on the company and the person it
\* names, with its source, and a person of a CSV with companies works there
\* ("A matched person is already linked to the row's company", data-ops.ts:452).
\* What an import wrote stands as long as nobody edits a record.
RowsLandOnTheirRecords ==
  \A j \in Imports :
    pc[j] = "ok" /\ (\A k \in Between(began[j], Len(log)) : reqOf[k].op \notin Edit) =>
      \A n \in DOMAIN Rows(j) :
        LET row == Row(j, n)
            on == lead[landed[j][n].lead]
        IN /\ on # None
           /\ on.source = LeadSource(j, row)
           /\ (on.company = None) = (row["company.name"] = None)
           /\ (on.person = None) = (row["person.name"] = None)
           /\ on.company # None =>
                \A f \in CompanyField \cap Supplied(j) : company[on.company].data[f] = row[f]
           /\ on.person # None =>
                /\ SameDataAs(j, person[on.person], row)
                /\ CompanyColumn(j) =>
                     LET employers == {l.company : l \in {m \in link : m.person = on.person}}
                     IN IF on.company = None THEN employers = {} ELSE on.company \in employers

\* "Preview and run both use this, so the approver sees exactly what the import
\* will do" (data-ops.ts:125): it does when nothing was committed since the
\* preview began.
PreviewTells ==
  \A j \in Imports :
    pc[j] = "ok" /\ reqOf[j].gated /\ ended[j] = 1 => told[j].preview = told[j].run

\* An export has every lead that was there when it began, once, and in order,
\* whatever is imported meanwhile, as long as no lead leaves the list or
\* returns to it.
ExportComplete ==
  \A j \in mix :
    /\ reqOf[j].op = "export.csv" /\ pc[j] = "ok"
    /\ \A k \in Between(began[j], Len(log)) :
         reqOf[k].op \notin {"engagement.archive", "engagement.restore", "engagement.delete"}
    => /\ listed[j] \subseteq UNION {pages[j][n] : n \in DOMAIN pages[j]}
       /\ \A m, n \in DOMAIN pages[j] : m < n =>
            \A a \in pages[j][m], b \in pages[j][n] : a < b
=============================================================================
