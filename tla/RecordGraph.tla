------------------------------ MODULE RecordGraph ------------------------------
(***************************************************************************)
(* The records of a workspace and the rows that join them: who works for   *)
(* which company, a deal's stakeholders, tags, contact lists, custom field *)
(* values, linked offerings, and the columns by which leads, deals and     *)
(* activities refer to other records.  packages/core/src/operations/       *)
(* {company,person,engagement,deal,offering,activity,meta,list,bulk}-ops.ts*)
(* and the two stores' ports.                                              *)
(*                                                                         *)
(* PostgreSQL has a foreign key for every such row and column and clears   *)
(* them when a record goes (pg/schema.sql); SQLite has none of these keys, *)
(* and relies on each hardDelete naming every table.  An operation is one  *)
(* transaction: alone on SQLite; on PostgreSQL (READ COMMITTED) a step     *)
(* below is the reads an operation starts with, one statement, or its last *)
(* writes with the commit.                                                 *)
(*                                                                         *)
(* A list's members are of one type when the list is typed.  Names, the    *)
(* values of fields, pipelines and stages are left out (DealPipeline has   *)
(* the last two).                                                          *)
(***************************************************************************)
EXTENDS Integers, FiniteSets

CONSTANTS
  OldId, OldType,    \* the ids that may exist at the start, and their types
  Job,               \* operations; each runs once and names the row it creates
  Op,                \* the operations a job may be
  InitAlive, InitLinks, InitListType,   \* the tables at the start
  Untyped            \* the entity_type of a list of any records (NULL)

Id == OldId \cup Job
Listable == {"person", "company", "engagement", "deal"}
Kind == Listable \cup {"offering", "activity", "tag", "list", "field"}

\* Tables of rows that join two records.
JoinTable == {"company_people", "deal_stakeholders", "taggings", "custom_values",
              "offering_links"}
Table == JoinTable \cup {"list_members", "reference"}

\* A row of a table; a "reference" row is a column of the record it is of.
LinkRow == [table : Table, of : Id, to : Id, primary : BOOLEAN]

Extra == [table : JoinTable, to : OldId, primary : BOOLEAN]
Operation ==
  [op : {"link"}, table : JoinTable, of : OldId, to : OldId, primary : BOOLEAN]
    \cup [op : {"unlink"}, table : JoinTable, of : OldId, to : OldId]
    \cup [op : {"set_primary"}, of : OldId, to : OldId, primary : BOOLEAN]
    \cup [op : {"add_members", "remove_members"}, list : OldId, type : Listable,
          ids : SUBSET OldId]
    \cup [op : {"retype"}, list : OldId, type : Listable \cup {Untyped}]
    \cup [op : {"create"}, type : Kind, refs : SUBSET OldId, extra : SUBSET Extra]
    \cup [op : {"refer"}, of : OldId, to : OldId]
    \cup [op : {"delete"}, id : OldId]

\* What the rows of a table join: records of types s and t.
Joins(table, s, t) ==
  \/ table = "company_people" /\ s = "person" /\ t = "company"
  \/ table = "deal_stakeholders" /\ s = "deal" /\ t = "person"
  \/ table = "taggings" /\ s \in Listable /\ t = "tag"
  \/ table = "list_members" /\ s \in Listable /\ t = "list"
  \/ table = "custom_values" /\ s \in Listable \cup {"offering"} /\ t = "field"
  \/ table = "offering_links" /\ s \in {"engagement", "deal"} /\ t = "offering"
  \/ table = "reference" /\ s = "engagement" /\ t \in {"company", "person", "deal"}
  \/ table = "reference" /\ s = "deal" /\ t \in {"company", "person", "engagement"}
  \/ table = "reference" /\ s = "activity" /\ t \in Listable

\* An operation names records of the types it is for.  A new record refers to
\* one record of a type, and comes with one row of its own: a person's company,
\* the offering of a lead or a deal.  Field definitions are never deleted.
WellTyped(o) ==
  /\ o.op \in {"link", "unlink"} => Joins(o.table, OldType[o.of], OldType[o.to])
  /\ o.op = "set_primary" => Joins("deal_stakeholders", OldType[o.of], OldType[o.to])
  /\ o.op \in {"add_members", "remove_members", "retype"} => OldType[o.list] = "list"
  /\ o.op = "create" =>
       /\ \A r \in o.refs : Joins("reference", o.type, OldType[r])
       /\ \A r, s \in o.refs : OldType[r] = OldType[s] => r = s
       /\ \A x \in o.extra : /\ x.table \in {"company_people", "offering_links"}
                             /\ Joins(x.table, o.type, OldType[x.to])
       /\ \A x, y \in o.extra : x = y
  /\ o.op = "refer" => Joins("reference", OldType[o.of], OldType[o.to])
  /\ o.op = "delete" => OldType[o.id] # "field"

ASSUME RecordOpAssumption ==
  /\ Op \subseteq Operation
  /\ OldType \in [OldId -> Kind]
  /\ \A o \in Op : WellTyped(o)

\* The tables a workspace starts with are in order, and a created record has an
\* id nobody has had.
ASSUME GraphAssumption ==
  /\ Job \cap OldId = {}
  /\ InitAlive \subseteq OldId
  /\ InitLinks \subseteq LinkRow
  /\ InitListType \in [Id -> Listable \cup {Untyped}]
  /\ \A l \in InitLinks :
       /\ {l.of, l.to} \subseteq InitAlive
       /\ Joins(l.table, OldType[l.of], OldType[l.to])
       /\ l.table = "list_members" => ~l.primary /\ InitListType[l.to] \in {Untyped, OldType[l.of]}
  /\ \A l, m \in InitLinks :
       /\ <<l.table, l.of, l.to>> = <<m.table, m.of, m.to>> => l = m
       /\ l.table \in {"company_people", "deal_stakeholders"} /\ m.table = l.table
            /\ l.of = m.of /\ l.primary /\ m.primary => l = m

VARIABLES
  backend,   \* "sqlite" or "postgres"
  alive,     \* the records that exist
  links,     \* the rows that join them
  listType,  \* lists.entity_type: the one type a list accepts, or Untyped
  req, at,   \* what job j is, and where
  seen       \* what j's statements have read

tables == <<alive, links, listType>>
graphVars == <<backend, tables, req, at, seen>>

-----------------------------------------------------------------------------
TypeOf(i) ==
  IF i \in OldId THEN OldType[i]
  ELSE IF req[i].op = "create" THEN req[i].type ELSE "activity"

Nothing == [existing |-> {}, cleared |-> {}]

GraphTypeOK ==
  /\ backend \in {"sqlite", "postgres"}
  /\ alive \subseteq Id
  /\ links \subseteq LinkRow
  /\ \A l, m \in links : [l EXCEPT !.primary = TRUE] = [m EXCEPT !.primary = TRUE] => l = m
  /\ listType \in [Id -> Listable \cup {Untyped}]
  /\ req \in [Job -> Op]
  /\ at \in [Job -> {"idle", "checked", "writing", "done", "refused", "not_found"}]
  /\ seen \in [Job -> [existing : SUBSET LinkRow, cleared : SUBSET LinkRow]]

\* On SQLite a unit of work begins only when no other is open.
MayBegin(j) ==
  backend = "sqlite" => \A k \in Job \ {j} : at[k] \notin {"checked", "writing"}

Goto(j, where) == at' = [at EXCEPT ![j] = where] /\ UNCHANGED <<backend, req>>

Reads(j, what, where) ==
  seen' = [seen EXCEPT ![j] = what] /\ Goto(j, where) /\ UNCHANGED tables

\* The operation throws and its transaction rolls back.
Fail(j, why) == Goto(j, why) /\ UNCHANGED <<tables, seen>>

Commits(j) == Goto(j, "done") /\ UNCHANGED seen

-----------------------------------------------------------------------------
(* The rows.                                                               *)

Row(table, of, to, primary) ==
  [table |-> table, of |-> of, to |-> to, primary |-> primary]

SameRow(l, m) == <<l.table, l.of, l.to>> = <<m.table, m.of, m.to>>

RowsOf(table, of) == {l \in links : l.table = table /\ l.of = of}

TheRow(table, of, to) == {l \in RowsOf(table, of) : l.to = to}

\* PostgreSQL's foreign keys; SQLite has none between these tables.
KeysHold(rows) ==
  backend = "postgres" => \A l \in rows : {l.of, l.to} \subseteq alive

\* Asking again without isPrimary keeps a person's or an offering's primary
\* row as it is, and takes it away from a stakeholder.
Primary(table, asked, existing) ==
  asked \/ (table # "deal_stakeholders" /\ \E l \in existing : l.primary)

-----------------------------------------------------------------------------
(* The checks an operation begins with.                                    *)

\* The records a handler looks up before it writes.  tag.apply and
\* bulk.addTag look up the tag, and not the record they tag.
Named(o) ==
  CASE o.op \in {"link", "unlink"} /\ o.table = "custom_values" -> {o.of, o.to}
    [] o.op = "link" /\ o.table = "taggings" -> {o.to}
    [] o.op = "link" /\ o.table \in JoinTable \ {"taggings", "custom_values"} -> {o.of, o.to}
    [] o.op = "unlink" /\ o.table # "custom_values" -> {}
    [] o.op = "set_primary" -> {}
    [] o.op \in {"add_members", "remove_members", "retype"} -> {o.list}
    [] o.op = "create" -> o.refs \cup {x.to : x \in o.extra}
    [] o.op = "refer" -> {o.of, o.to}
    [] o.op = "delete" -> {o.id}

\* The row that an operation on one row finds before it writes.
RowAsked(o) ==
  CASE o.op = "link" -> TheRow(o.table, o.of, o.to)
    [] o.op = "set_primary" -> TheRow("deal_stakeholders", o.of, o.to)
    [] OTHER -> {}

\* "Retyping fails while conflicting members exist"; to no type it never does.
MayRetype(o) ==
  o.type = Untyped
    \/ \A l \in links : l.table = "list_members" /\ l.to = o.list => TypeOf(l.of) = o.type

\* list.addMembers: the list accepts the type, and every id is one of it.
MayAdd(o) ==
  /\ listType[o.list] \in {Untyped, o.type}
  /\ \A i \in o.ids : i \in alive /\ TypeOf(i) = o.type

Check(j) ==
  /\ at[j] = "idle"
  /\ MayBegin(j)
  /\ LET o == req[j]
         known == /\ Named(o) \subseteq alive
                  /\ o.op = "set_primary" => RowAsked(o) # {}
         allowed == /\ o.op = "retype" => MayRetype(o)
                    /\ o.op = "add_members" => MayAdd(o)
     IN \/ ~known /\ Fail(j, "not_found")
        \/ known /\ ~allowed /\ Fail(j, "refused")
        \/ /\ known
           /\ allowed
           /\ Reads(j, [seen[j] EXCEPT !.existing = RowAsked(o)], "checked")

At(j, where, ops) == at[j] = where /\ req[j].op \in ops

-----------------------------------------------------------------------------
(* people.link, deals.addStakeholder and updateStakeholder, offerings.link,*)
(* tags.apply, customFields.setValue.                                      *)

TableOf(o) == IF o.op = "link" THEN o.table ELSE "deal_stakeholders"

\* "Only one primary company per person", and one stakeholder per deal; a
\* record may have several primary offerings.
Clears(o) == o.primary /\ TableOf(o) \in {"company_people", "deal_stakeholders"}

\* UPDATE .. SET is_primary = false: the rows that are there when it starts.
ClearedRows(o) == RowsOf(TableOf(o), o.of)

ClearPrimary(j) ==
  /\ At(j, "checked", {"link", "set_primary"})
  /\ Clears(req[j])
  /\ Reads(j, [seen[j] EXCEPT !.cleared = ClearedRows(req[j])], "writing")

\* The rows once those that j has cleared are no longer primary.
AfterClear(j) ==
  LET cleared == {l \in links : \E c \in seen[j].cleared : SameRow(l, c)}
  IN (links \ cleared) \cup {[l EXCEPT !.primary = FALSE] : l \in cleared}

\* The row takes the place of the one with its key.
WithRow(rows, row) == {l \in rows : ~SameRow(l, row)} \cup {row}

\* The UPDATE of the row that was found, or the INSERT.  On PostgreSQL the
\* row may be gone by then: people.link and offerings.link then fail as they
\* map a missing row, and addStakeholder answers with nothing.  Or it may
\* have come: ON CONFLICT takes that for tags and field values only.
PutLink(j) ==
  /\ req[j].op \in {"link", "set_primary"}
  /\ at[j] = (IF Clears(req[j]) THEN "writing" ELSE "checked")
  /\ LET o == req[j]
         t == TableOf(o)
         was == seen[j].existing
         now == TheRow(t, o.of, o.to)
         row == Row(t, o.of, o.to, Primary(t, o.primary, was))
         onConflict == t \in {"taggings", "custom_values"}
         lost == was # {} /\ now = {} /\ ~onConflict
         refused == was = {} /\ now # {} /\ ~onConflict
         orphan == now = {} /\ ~KeysHold({row})
     IN \/ /\ refused \/ lost \/ orphan
           /\ Fail(j, IF refused THEN "refused" ELSE "not_found")
        \/ /\ lost
           /\ o.op = "link"
           /\ t = "deal_stakeholders"
           /\ links' = AfterClear(j)
           /\ UNCHANGED <<alive, listType>>
           /\ Commits(j)
        \/ /\ ~(refused \/ lost \/ orphan)
           /\ links' = WithRow(AfterClear(j), row)
           /\ UNCHANGED <<alive, listType>>
           /\ Commits(j)

\* unlinkPerson, removeStakeholder, tag.remove, offering.unlink, a null value.
Unlink(j) ==
  /\ At(j, "checked", {"unlink"})
  /\ links' = links \ TheRow(req[j].table, req[j].of, req[j].to)
  /\ UNCHANGED <<alive, listType>>
  /\ Commits(j)

-----------------------------------------------------------------------------
(* Lists.                                                                  *)

\* INSERT .. ON CONFLICT DO NOTHING, of all the ids at once.
AddMembers(j) ==
  /\ At(j, "checked", {"add_members"})
  /\ LET rows == {Row("list_members", i, req[j].list, FALSE) : i \in req[j].ids}
     IN \/ ~KeysHold(rows) /\ Fail(j, "not_found")
        \/ /\ KeysHold(rows)
           /\ links' = links \cup rows
           /\ UNCHANGED <<alive, listType>>
           /\ Commits(j)

RemoveMembers(j) ==
  /\ At(j, "checked", {"remove_members"})
  /\ links' = links \ {Row("list_members", i, req[j].list, FALSE) : i \in req[j].ids}
  /\ UNCHANGED <<alive, listType>>
  /\ Commits(j)

Retype(j) ==
  /\ At(j, "checked", {"retype"})
  /\ LET o == req[j]
     IN \/ o.list \notin alive /\ Fail(j, "not_found")
        \/ /\ o.list \in alive
           /\ listType' = [listType EXCEPT ![o.list] = o.type]
           /\ UNCHANGED <<alive, links>>
           /\ Commits(j)

-----------------------------------------------------------------------------
(* Records: created with their references, and deleted.                    *)

\* The offerings of the lead a deal is made from.
Carried(o) ==
  IF o.type = "deal"
    THEN {l \in links : l.table = "offering_links" /\ l.of \in o.refs}
    ELSE {}

\* The rows a new record brings: its references; a person's company, as the
\* primary one; a lead's or a deal's offering, and the offerings of its lead.
NewRows(j) ==
  LET o == req[j]
      carried == {Row("offering_links", j, l.to, l.primary) : l \in Carried(o)}
      asked == {Row(x.table, j, x.to, x.primary) : x \in o.extra}
  IN {Row("reference", j, r, FALSE) : r \in o.refs} \cup carried
       \cup {[l EXCEPT !.primary = l.primary /\ carried = {}] :
               l \in {a \in asked : ~\E c \in carried : SameRow(a, c)}}

\* The lead a deal is made from refers to it from then on.
BackReference(j) ==
  IF req[j].type = "deal"
    THEN {Row("reference", r, j, FALSE) : r \in {i \in req[j].refs : TypeOf(i) = "engagement"}}
    ELSE {}

\* A reference is a column: it takes the place of the one to a record of the
\* same type.
WithReferences(rows, refs) ==
  {l \in rows : ~\E r \in refs : l.table = "reference" /\ l.of = r.of
                                 /\ TypeOf(l.to) = TypeOf(r.to)} \cup refs

Create(j) ==
  /\ At(j, "checked", {"create"})
  /\ LET o == req[j]
         rows == NewRows(j)
         others == rows \cup BackReference(j)
         known == backend = "postgres" => \A l \in others : {l.of, l.to} \ {j} \subseteq alive
     IN \/ ~known /\ Fail(j, "not_found")
        \/ /\ known
           /\ alive' = alive \cup {j}
           /\ links' = WithReferences(links, BackReference(j)) \cup rows
           /\ UNCHANGED listType
           /\ Commits(j)

\* engagement.update and deal.update set a column.
Refer(j) ==
  /\ At(j, "checked", {"refer"})
  /\ LET row == Row("reference", req[j].of, req[j].to, FALSE)
         known == KeysHold({row}) /\ req[j].of \in alive
     IN \/ ~known /\ Fail(j, "not_found")
        \/ /\ known
           /\ links' = WithReferences(links, {row})
           /\ UNCHANGED <<alive, listType>>
           /\ Commits(j)

\* The tables whose rows of a record its hardDelete names.
OwnTables(type) ==
  CASE type = "company" -> {"taggings", "custom_values", "list_members"}
    [] type = "person" -> {"company_people", "taggings", "custom_values", "list_members"}
    [] type = "engagement" -> {"taggings", "custom_values", "offering_links", "list_members",
                               "reference"}
    [] type = "deal" -> {"deal_stakeholders", "taggings", "custom_values", "offering_links",
                         "list_members", "reference"}
    [] type = "offering" -> {"custom_values"}
    [] type = "activity" -> {"reference"}
    [] type \in {"tag", "list", "field"} -> {}

\* Mutant: a person's hardDelete forgets the deals the person is in.
StakeholdersLeft(type) ==
  CASE type = "company" -> {"company_people", "reference"}
    [] type \in {"person", "engagement", "deal"} -> {"reference"}
    [] type = "offering" -> {"offering_links"}
    [] type = "tag" -> {"taggings"}
    [] type = "list" -> {"list_members"}
    [] OTHER -> {}

\* .. and the tables whose rows to it.
InTables(type) ==
  CASE type = "company" -> {"company_people", "reference"}
    [] type = "person" -> {"deal_stakeholders", "reference"}
    [] type \in {"engagement", "deal"} -> {"reference"}
    [] type = "offering" -> {"offering_links"}
    [] type = "tag" -> {"taggings"}
    [] type = "list" -> {"list_members"}
    [] OTHER -> {}

\* PostgreSQL's ON DELETE CASCADE and SET NULL.
Cascades(id) ==
  IF backend = "postgres" THEN {l \in links : id \in {l.of, l.to}} ELSE {}

Cleaned(id) ==
  {l \in links : (l.of = id /\ l.table \in OwnTables(TypeOf(id)))
                 \/ (l.to = id /\ l.table \in InTables(TypeOf(id)))}

HardDelete(j) ==
  /\ At(j, "checked", {"delete"})
  /\ LET id == req[j].id
     IN /\ alive' = alive \ {id}
        /\ links' = links \ (Cleaned(id) \cup Cascades(id))
        /\ UNCHANGED listType
        /\ Commits(j)

-----------------------------------------------------------------------------
GraphInit ==
  /\ backend \in {"sqlite", "postgres"}
  /\ alive = InitAlive
  /\ links = InitLinks
  /\ listType = InitListType
  /\ req \in [Job -> Op]
  /\ at = [j \in Job |-> "idle"]
  /\ seen = [j \in Job |-> Nothing]

Step(j) ==
  \/ Check(j)
  \/ ClearPrimary(j) \/ PutLink(j) \/ Unlink(j)
  \/ AddMembers(j) \/ RemoveMembers(j) \/ Retype(j)
  \/ Create(j) \/ Refer(j) \/ HardDelete(j)

GraphNext == \E j \in Job : Step(j)

GraphSpec == GraphInit /\ [][GraphNext]_graphVars

-----------------------------------------------------------------------------
(* Properties.                                                             *)

\* No row and no column names a record that is gone, whatever is deleted
\* while it is linked, listed, tagged or referred to.  SQLite has no foreign
\* keys for this and depends on the list of tables in every hardDelete
\* (repositories.ts:717, :881, :1257, :1406, :1576).  It does not hold of the
\* record a tag is on there: tag.apply never looks it up (meta-ops.ts:104).
NoDanglingRow ==
  \A l \in links :
    /\ l.to \in alive
    /\ l.of \in alive \/ (backend = "sqlite" /\ l.table = "taggings")

\* Where units of work do not interleave, a typed list has members of its
\* type only: "Typed lists reject mismatched entity types" (list-ops.ts:9),
\* "Retyping fails while conflicting members exist" (list-ops.ts:75).  Both
\* are reads that come before the write.
TypedListOnSqlite ==
  backend = "sqlite" =>
    \A l \in links : l.table = "list_members" => listType[l.to] \in {Untyped, TypeOf(l.of)}

\* A person has one primary company at most ("Only one primary company per
\* person", pg/repositories.ts:1306) and a deal one primary stakeholder, where
\* units of work do not interleave: nothing but the order of two statements
\* keeps it.
OnePrimaryOnSqlite ==
  backend = "sqlite" =>
    \A l, m \in links :
      l.table \in {"company_people", "deal_stakeholders"} /\ m.table = l.table
        /\ l.of = m.of /\ l.primary /\ m.primary => l = m

\* The types; no dangling row, typed lists without other members, and one primary
\* company for a person.
GraphInv == GraphTypeOK /\ NoDanglingRow /\ TypedListOnSqlite /\ OnePrimaryOnSqlite
=============================================================================
