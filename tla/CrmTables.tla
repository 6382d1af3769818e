----------------------------- MODULE CrmTables -----------------------------
(***************************************************************************)
(* The rows of the CRM's records and how a statement reads and changes a   *)
(* table, shared by the two stores of packages/db (SqliteStore, PgStore).  *)
(* A table is a set of rows, a database a record of tables.  A column      *)
(* stays when a filter, a join, a constraint or another statement tells    *)
(* its values apart; phone numbers, descriptions, colours and the like are *)
(* left out, and one column `name` stands for all the searched ones.       *)
(* A workspace is one database: both stores select it in every statement   *)
(* of a port.                                                              *)
(***************************************************************************)
EXTENDS Integers, FiniteSets, FiniteSetsExt, TLC

CONSTANTS
  None,    \* NULL
  Unasked, \* stands for a column an import does not give
  Misfit,  \* a value of a type no field and no filter takes
  Values   \* function: a type of custom field -> the values that fit it

Tagged == {"company", "person", "engagement", "deal"}   \* TaggableType, ListableType
Offered == {"engagement", "deal"}                       \* what an offering is linked to
Fielded == Tagged \cup {"offering"}                     \* CustomFieldEntity
PipelineTypes == {"engagement", "deal"}                 \* PIPELINE_TYPES

(***************************************************************************)
(* Rows as inserted.  `id` is the database's next id: newId() is unique,   *)
(* and both stores order by created_at, which grows with it.               *)
(***************************************************************************)
CompanyRow(id, name, owner) ==
  [id |-> id, name |-> name, owner |-> owner, archived |-> FALSE, version |-> 1]

PersonRow(id, name, owner) ==
  [id |-> id, name |-> name, owner |-> owner, archived |-> FALSE, version |-> 1]

\* `created` and `last`, of created_at and last_activity_at, are days ago; no time
\* passes.  A place is a pipeline and one of its stages, both columns of the row.
EngagementRow(id, name, owner, company, person, place) ==
  [id |-> id, name |-> name, company |-> company, person |-> person,
   pipeline |-> place.pipeline, stage |-> place.stage,
   deal |-> None, owner |-> owner, archived |-> FALSE, version |-> 1,
   created |-> 0, last |-> None]

DealRow(id, name, owner, company, person, engagement, place, money) ==
  [id |-> id, name |-> name, company |-> company, person |-> person,
   engagement |-> engagement, pipeline |-> place.pipeline, stage |-> place.stage, status |-> "open",
   amount |-> money.amount, currency |-> money.currency, probability |-> money.probability,
   owner |-> owner, archived |-> FALSE, version |-> 1, created |-> 0, last |-> None]

\* The name stands for what else renaming, recolouring and the like change.
PipelineRow(id, type, name, default, position) ==
  [id |-> id, type |-> type, name |-> name, default |-> default, position |-> position]

StageRow(id, pipeline, position, outcome, probability) ==
  [id |-> id, pipeline |-> pipeline, position |-> position, outcome |-> outcome,
   probability |-> probability]

OfferingRow(id, name, owner) ==
  [id |-> id, name |-> name, owner |-> owner, archived |-> FALSE, version |-> 1]

\* `due` is None, "past", "today", "soon" (within a week) or "far".
ActivityRow(id, kind, name, links, due, assignee) ==
  [id |-> id, kind |-> kind, name |-> name, company |-> links.company, person |-> links.person,
   engagement |-> links.engagement, deal |-> links.deal,
   due |-> due, assignee |-> assignee, done |-> FALSE]

FieldRow(id, type, key, kind, position) ==
  [id |-> id, type |-> type, key |-> key, kind |-> kind, position |-> position,
   required |-> FALSE, archived |-> FALSE]

\* `filters` are those the view names, `entity` the list they are for.
ViewRow(id, name, owner, visibility, entity, filters) ==
  [id |-> id, name |-> name, owner |-> owner, visibility |-> visibility,
   entity |-> entity, filters |-> filters]

\* An agent's request to delete the company `target`; `by` is its stamp.
ActionRow(id, target, by) ==
  [id |-> id, target |-> target, user |-> by.user, client |-> by.client,
   status |-> "pending", reviewer |-> None]

\* The id of an audit row and its time are left out.
AuditRow(operation, entity, by) ==
  [operation |-> operation, entity |-> entity, user |-> by.user, client |-> by.client,
   actor |-> IF by.client = None THEN "human" ELSE "agent"]

ClientRow(id, scopes, trust, owner) ==
  [id |-> id, scopes |-> scopes, trust |-> trust, owner |-> owner, revoked |-> FALSE]

\* A user and its membership.  `linked`: an auth subject is bound to it, which its
\* first sign-in does (SignIn); `hash`: it has a password_hash, as accounts from
\* before OpenAuth do; one spelling of an email stands for all.
UserRow(id, email, name, role) ==
  [id |-> id, email |-> email, name |-> name, role |-> role, status |-> "pending",
   linked |-> FALSE, hash |-> FALSE]

\* mapUser: what both stores answer of a user.
UserShown(u) == [id |-> u.id, email |-> u.email, name |-> u.name, role |-> u.role, status |-> u.status]

\* A setup or reset code.  `recent`: issued within the window of the issue limit.
CodeRow(id, user, email, purpose) ==
  [id |-> id, user |-> user, email |-> email, purpose |-> purpose, used |-> FALSE, recent |-> TRUE]

SessionRow(id, user) == [id |-> id, user |-> user]

IssueMax == 5   \* AUTH_CODE_ISSUE_MAX

\* actorStamp: a caller is an agent when a client calls for its user.
Human(me) == [user |-> me.user, client |-> None]

(***************************************************************************)
(* Statements.                                                             *)
(***************************************************************************)
Has(table, id) == \E r \in table : r.id = id
Keys(rows) == {r.id : r \in rows}
Row(table, id) == CHOOSE r \in table : r.id = id
\* out[id] ?? []: a record that is no key of a lookup has nothing.
At(found, id) == IF id \in DOMAIN found THEN found[id] ELSE {}
NameOf(table, id) == IF Has(table, id) THEN Row(table, id).name ELSE None

\* UPDATE ... SET patch WHERE id = id.
SetRow(table, id, patch) == {IF r.id = id THEN patch @@ r ELSE r : r \in table}

\* ... SET patch, version = version + 1 WHERE id = id.
NextVersion(table, id, patch) ==
  {IF r.id = id THEN [patch @@ r EXCEPT !.version = @ + 1] ELSE r : r \in table}

\* UPDATE ... SET column = NULL WHERE column = id.
Cleared(table, column, id) ==
  {IF r[column] = id THEN [r EXCEPT ![column] = None] ELSE r : r \in table}

\* COALESCE(MAX(position), -1) + 1
NextPosition(table) == IF table = {} THEN 0 ELSE Max({r.position : r \in table}) + 1

\* ORDER BY created_at, id LIMIT 1: the oldest row, or none.
Oldest(rows) ==
  IF rows = {} THEN None ELSE CHOOSE i \in {r.id : r \in rows} : \A r \in rows : i <= r.id

(***************************************************************************)
(* What a call comes to: the database it leaves and what it answers.  A    *)
(* refused call is rolled back.                                            *)
(***************************************************************************)
Done(db) == [db |-> db, out |-> "ok"]
Answer(db, out) == [db |-> db, out |-> out]
Refused(db, why) == [db |-> db, out |-> why]
Failed(r) ==
  r.out \in {"not_found", "validation", "version_conflict", "conflict", "forbidden", "internal",
             "in_use", "invalid_state"}

(***************************************************************************)
(* Names: the lookups of tags and lists ignore case, the unique indexes do *)
(* not.                                                                    *)
(***************************************************************************)
Lower(name) == IF name = "VIP" THEN "vip" ELSE name
NamedLike(table, name) == {r \in table : Lower(r.name) = Lower(name)}
NameTaken(table, name, id) == \E r \in table : r.name = name /\ r.id # id

\* A given owner or assignee that is not a member of the workspace.
Unknown(db, user) == user # None /\ ~Has(db.users, user)
UnknownOwner(db, patch) == "owner" \in DOMAIN patch /\ Unknown(db, patch.owner)

(***************************************************************************)
(* What a list is asked for.  None, FALSE and {} ask for nothing.  Sorting *)
(* and paging are left out: an answer is the set of all matching rows,     *)
(* each with the names and lists joined to it.                             *)
(***************************************************************************)
AnyFilter ==
  [archived |-> FALSE, owner |-> None, text |-> None, tags |-> {}, list |-> None,
   offering |-> None, company |-> None, person |-> None, engagement |-> None, deal |-> None,
   pipeline |-> None, stage |-> None, status |-> None, stale |-> FALSE,
   kinds |-> {}, assignee |-> None, open |-> FALSE, overdue |-> FALSE, within |-> None]

\* The conditions each list takes; the schemas strip the others.
CompanyFilter == {"text", "owner", "tags", "list", "archived"}
PersonFilter == {"text", "company", "owner", "tags", "list", "archived"}
EngagementFilter ==
  {"text", "pipeline", "stage", "company", "person", "owner", "tags", "list", "offering",
   "stale", "archived"}
DealFilter == EngagementFilter \cup {"status"}
ActivityFilter ==
  {"kinds", "company", "person", "engagement", "deal", "assignee", "open", "overdue", "within"}

FilterOf ==
  [company |-> CompanyFilter, person |-> PersonFilter, engagement |-> EngagementFilter,
   deal |-> DealFilter, activity |-> ActivityFilter]

Wanted(wanted, value) == wanted = None \/ wanted = value

\* lower(column) LIKE '%text%' on the searched columns.
Matches(text, name) == text = None \/ Lower(text) = Lower(name)

\* The conditions all lists of records share.
Shown(f, r) == (f.archived \/ ~r.archived) /\ Wanted(f.owner, r.owner) /\ Matches(f.text, r.name)

\* From today until that many days on, both included.
DueWithin(days, due) == due = "today" \/ (days = 7 /\ due = "soon")

\* validateCustomFieldValue
Fits(kind, value) == value = None \/ value \in Values[kind]

\* COALESCE(last_activity_at, created_at) < cutoff
IsStale(r, days) == (IF r.last = None THEN r.created ELSE r.last) > days

\* ORDER BY position LIMIT 1 of rows no two of which share one.
FirstByPosition(rows) == CHOOSE r \in rows : \A s \in rows : r.position <= s.position
=============================================================================
