----------------------------- MODULE MCDataTransfer -----------------------------
(* Instances of DataTransfer for TLC. *)
EXTENDS DataTransfer, TLC

CONSTANTS
  acme, globex, site, ann, mail, MAIL, accent, ACCENT, fair, gala, mixed, mixedLower, chat,
  a1, a2, gated, b1, c1, c2, d1, o1, o2, n1, n2, preview, export, create, updateCompany, deleteCompany,
  unlink, updatePerson, updateLead, archive, restore, delete, deleteTag,
  nobody, blank

\* An address and a label with a capital that is not ASCII: SQLite leaves it.
MCLower == [t \in Text |->
  CASE t = MAIL -> mail [] t = ACCENT -> accent [] t = mixed -> mixedLower [] OTHER -> t]
MCAsciiLower == [t \in Text |-> IF t = MAIL THEN mail ELSE t]

Values(pairs) == pairs @@ [f \in Field |-> None]
At(name, web, who, email) ==
  Values([f \in CompanyField \cup PersonField |->
    CASE f = "company.name" -> name [] f = "company.website" -> web
      [] f = "person.name" -> who [] OTHER -> email])

\* Repeats of one person, one of them in another case, and a namesake elsewhere.
Team == [supplied |-> CompanyField \cup PersonField,
         rows |-> <<At(acme, site, ann, MAIL), At(acme, site, ann, mail),
                    At(globex, None, ann, mail)>>]
\* People without companies, and a row of nobody.
Contacts == [supplied |-> PersonField \cup {"engagement.channel"},
             rows |-> <<At(None, None, ann, mail), At(None, None, None, mail)>>]
\* A person of no company, and companies without people.
Mixed == [supplied |-> CompanyField \cup PersonField \cup {"engagement.source"},
          rows |-> <<At(None, None, ann, mail), At(acme, None, None, None),
                     "engagement.source" :> chat @@ At(globex, None, None, None)>>]
Firms == [supplied |-> {"company.name"},
          rows |-> <<At(acme, None, None, None), At(globex, None, None, None)>>]
\* Rows nobody can import, and no row at all.
Nobody == [supplied |-> PersonField, rows |-> <<At(None, None, None, mail)>>]
Blank == [supplied |-> {}, rows |-> <<>>]
Accents == [supplied |-> PersonField, rows |-> <<At(None, None, ann, ACCENT)>>]

Import(csv, label, held) ==
  [op |-> "import.run", csv |-> csv, label |-> label, gated |-> held]

MCReq == [j \in Job |->
  CASE j \in {a1, a2} -> Import(Team, fair, FALSE)
    [] j = gated -> Import(Team, fair, TRUE)
    [] j = b1 -> Import(Contacts, gala, FALSE)
    [] j \in {c1, c2} -> Import(Mixed, gala, FALSE)
    [] j = d1 -> Import(Firms, gala, FALSE)
    [] j \in {o1, o2} -> Import(Contacts, mixed, FALSE)
    [] j \in {n1, n2} -> Import(Accents, gala, FALSE)
    [] j = nobody -> Import(Nobody, gala, TRUE)
    [] j = blank -> [op |-> "import.preview", csv |-> Blank]
    [] j = preview -> [op |-> "import.preview", csv |-> Team]
    [] j = export -> [op |-> "export.csv"]
    [] j = create -> [op |-> "tag.create", label |-> fair]
    [] j = updateCompany -> [op |-> "company.update", id |-> 1,
                             field |-> "company.website", to |-> None]
    [] j = deleteCompany -> [op |-> "company.delete", id |-> 1]
    [] j = unlink -> [op |-> "company.unlinkPerson", company |-> 1, person |-> 1]
    [] j = updatePerson -> [op |-> "person.update", id |-> 1,
                            field |-> "person.email", to |-> None]
    [] j = updateLead -> [op |-> "engagement.update", id |-> 1,
                          field |-> "engagement.source", to |-> None]
    [] j = archive -> [op |-> "engagement.archive", id |-> 1]
    [] j = restore -> [op |-> "engagement.restore", id |-> 2]
    [] j = delete -> [op |-> "engagement.delete", id |-> 1]
    [] j = deleteTag -> [op |-> "tag.delete", id |-> 1]]

\* Imports that repeat each other, cross each other or are previewed, an export
\* beside an import and beside each change of its list, an import beside each edit.
MCMixes ==
  {{a1, a2, b1}, {a1, b1, d1}, {a1, c1}, {gated, b1, archive}, {o1, o2}, {n1, n2}, {c1, c2}, {preview, d1},
   {create, a1}, {export, b1, c1}, {gated, d1}, {export, archive, b1}, {export, restore},
   {export, delete}, {a1, a2, deleteTag}, {a1, a2, unlink}, {c1, deleteCompany},
   {gated, updateCompany}, {nobody}, {blank}, {a1, deleteCompany, b1}, {a1, updatePerson, updateLead}}

Record(fields, row) == [data |-> [f \in fields |-> row[f]], by |-> None]
Lead(at, who, gone) == [company |-> at, person |-> who, channel |-> None, source |-> fair,
                        archived |-> gone, by |-> None]

\* A new workspace; one with a company, its people and leads, the second of
\* them archived; one whose people are like each other and work elsewhere.
Empty == [company |-> <<>>, person |-> <<>>, lead |-> <<>>, tag |-> <<>>, link |-> {}]
Used ==
  LET row == At(acme, site, ann, mail)
  IN [company |-> <<Record(CompanyField, row)>>,
      person |-> <<Record(PersonField, row), Record(PersonField, row)>>,
      lead |-> <<Lead(1, 1, FALSE), Lead(1, None, TRUE), Lead(None, 2, FALSE), Lead(1, 2, FALSE)>>,
      tag |-> <<[name |-> fair, by |-> None]>>,
      link |-> {[company |-> 1, person |-> 1, by |-> None]}]
MCWorkspaces == {Empty, Used}

\* The oldest is the first by number, or the last.
MCOrders == {"lowest", "highest"}
MCFirstOf ==
  [o \in MCOrders |-> [ids \in SUBSET (1..8) |->
     IF ids = {} THEN 0
     ELSE CHOOSE n \in ids : \A m \in ids : IF o = "lowest" THEN n <= m ELSE n >= m]]
=============================================================================
