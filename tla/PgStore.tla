------------------------------ MODULE PgStore ------------------------------
(***************************************************************************)
(* The record ports of packages/db/src/pg/repositories.ts on PostgreSQL:   *)
(* the same methods as SqliteStore.  Taggings, list members, offering      *)
(* links and custom field values have a table per record type (TAG_LINK_   *)
(* TABLES and the like in pg/schema.ts) of entity ids with a foreign key   *)
(* (pg/schema.sql); references to records and users are foreign keys too,  *)
(* and a method looks none of them up: `run` turns the database's refusal  *)
(* (SQLSTATE 23503) into not_found.                                        *)
(***************************************************************************)
EXTENDS CrmTables

EmptyPg ==
  [company |-> {}, person |-> {}, engagement |-> {}, deal |-> {}, offering |-> {},
   activity |-> {}, links |-> {}, stakeholders |-> {}, tags |-> {}, lists |-> {},
   fields |-> {}, views |-> {}, actions |-> {}, audit |-> {}, clients |-> {},
   users |-> {}, codes |-> {}, sessions |-> {}, pipelines |-> {}, stages |-> {},
   workspace |-> [name |-> None, currency |-> None, engagementDays |-> 14, dealDays |-> 30],
   tagOf |-> [type \in Tagged |-> {}],      \* company_tags, person_tags, ...
   memberOf |-> [type \in Tagged |-> {}],   \* company_list_members, ...
   offerOf |-> [type \in Offered |-> {}],   \* engagement_offering_links, deal_offering_links
   valueOf |-> [type \in Fielded |-> {}]]   \* company_custom_field_values, ...

(***************************************************************************)
(* Foreign keys: every record and user a row names exists.                 *)
(***************************************************************************)
KeysHold(db, row) ==
  /\ \A c \in DOMAIN row \cap Tagged : row[c] = None \/ Has(db[c], row[c])
  /\ \A c \in DOMAIN row \cap {"owner", "assignee", "user", "reviewer"} :
       row[c] = None \/ Has(db.users, row[c])
  /\ "client" \in DOMAIN row => row.client = None \/ Has(db.clients, row.client)
  /\ "pipeline" \in DOMAIN row => Has(db.pipelines, row.pipeline)
  /\ "stage" \in DOMAIN row => \E s \in db.stages : s.id = row.stage /\ s.pipeline = row.pipeline

\* INSERT, UPDATE ... SET version = version + 1 and UPDATE of a table, as the
\* methods run them: a broken key and a missing row are both not_found.
Insert(db, table, row) ==
  IF KeysHold(db, row) THEN Done([db EXCEPT ![table] = @ \cup {row}])
  ELSE Refused(db, "not_found")

Updated(db, table, id, patch, rows) ==
  IF Has(db[table], id) /\ KeysHold(db, patch) THEN Done([db EXCEPT ![table] = rows])
  ELSE Refused(db, "not_found")

UpdateRow(db, table, id, patch) == Updated(db, table, id, patch, NextVersion(db[table], id, patch))

(***************************************************************************)
(* The workspace, its users and their setup and reset codes.               *)
(***************************************************************************)
UpdateWorkspace(db, patch) ==
  Done([db EXCEPT !.workspace =
    [c \in DOMAIN @ |-> IF c \in DOMAIN patch THEN patch[c] ELSE @[c]]])

\* Only the column of before OpenAuth counts as a password.  No operation asks a
\* user to change its password: the flag is FALSE from the invitation on.
UserList(db) ==
  {[hasPassword |-> u.hash, passwordMustChange |-> FALSE] @@ UserShown(u) : u \in db.users}

\* CASE WHEN status = 'disabled' THEN 'active' ELSE status END, unless it disables.
UpdateUser(db, id, patch) ==
  LET toggled(u) == IF patch.disabled THEN "disabled"
                    ELSE IF u.status = "disabled" THEN "active" ELSE u.status
      status(u) == IF "disabled" \in DOMAIN patch THEN [status |-> toggled(u)] ELSE << >>
      given == [c \in DOMAIN patch \ {"disabled"} |-> patch[c]]
  IN IF Has(db.users, id)
     THEN Done([db EXCEPT !.users = {IF u.id = id THEN status(u) @@ given @@ u ELSE u : u \in @}])
     ELSE Refused(db, "not_found")

DeleteSessions(db, user) ==
  Done([db EXCEPT !.sessions = @ \ {e \in @ : e.user = user /\ Has(db.users, user)}])

\* users_email_ux
CreatePending(db, id, email, name, role) ==
  IF role = "owner" THEN Refused(db, "validation")
  ELSE IF email \in {u.email : u \in db.users} THEN Refused(db, "conflict")
  ELSE Insert(db, "users", UserRow(id, email, name, role))

\* ON DELETE SET NULL of the columns that name a user or a client.
Nulled(table, columns, gone) ==
  {[c \in DOMAIN r |-> IF c \in columns /\ r[c] \in gone THEN None ELSE r[c]] : r \in table}

\* Clients and private views are deleted, and what the foreign keys do with the
\* user's row: its codes and sessions go, every other column that names it, or one
\* of its clients, is NULL.
DeletePermanently(db, id) ==
  LET clients == {c.id : c \in {k \in db.clients : k.owner = id}}
      private == {v \in db.views : v.owner = id /\ v.visibility = "private"}
      unowned(table) == Nulled(table, {"owner", "assignee"}, {id})
      stamped(table) == Nulled(Nulled(table, {"user", "reviewer"}, {id}), {"client"}, clients)
  IN IF ~Has(db.users, id) THEN Refused(db, "not_found")
     ELSE IF Row(db.users, id).role = "owner" THEN Refused(db, "validation")
     ELSE Done([db EXCEPT
       !.clients = {c \in @ : c.id \notin clients},
       !.views = unowned(@ \ private),
       !.company = unowned(@), !.person = unowned(@), !.engagement = unowned(@),
       !.deal = unowned(@), !.offering = unowned(@), !.activity = unowned(@),
       !.actions = stamped(@), !.audit = stamped(@),
       !.codes = {c \in @ : c.user # id}, !.sessions = {e \in @ : e.user # id},
       !.users = {u \in @ : u.id # id}])

\* The previous owner is demoted first: memberships_one_owner_ux.
TransferOwnership(db, from, to) ==
  LET role(u) == CASE u.id = from -> "admin" [] u.id = to -> "owner" [] OTHER -> u.role
  IN IF from = to THEN Refused(db, "validation")
     ELSE IF ~\E u \in db.users : u.id = to /\ u.status = "active" THEN Refused(db, "not_found")
     ELSE IF ~\E u \in db.users : u.id = from /\ u.role = "owner" THEN Refused(db, "conflict")
     ELSE Done([db EXCEPT !.users = {[u EXCEPT !.role = role(u)] : u \in @}])

\* createPgIdentity(db).issueCode: none for a disabled user.
IssueCode(db, id, user, purpose) ==
  LET its == {u \in db.users : u.id = user /\ u.status # "disabled"}
      email == Row(its, user).email
      recent == {c \in db.codes : c.email = email /\ c.recent}
      superseded == {c \in db.codes : c.user = user /\ c.purpose = purpose}
      codes == (db.codes \ superseded) \cup {[c EXCEPT !.used = TRUE] : c \in superseded}
      issued == Insert([db EXCEPT !.codes = codes], "codes", CodeRow(id, user, email, purpose))
  IN IF its = {} THEN Refused(db, "not_found")
     ELSE IF Cardinality(recent) >= IssueMax THEN Refused(db, "conflict")
     ELSE IF purpose = "reset" THEN DeleteSessions(issued.db, user) ELSE issued

(***************************************************************************)
(* Pipelines and their stages.                                             *)
(***************************************************************************)
\* The stages of all the pipelines in one query, then by pipeline.
PipelineList(db, type) ==
  LET rows == {p \in db.pipelines : type = None \/ p.type = type}
      stages == {s \in db.stages : s.pipeline \in Keys(rows)}
  IN {[row |-> p, stages |-> {s \in stages : s.pipeline = p.id}] : p \in rows}

GetDefault(db, type) ==
  LET all == {x.row : x \in PipelineList(db, type)}
      preferred == IF \E p \in all : p.default THEN {p \in all : p.default} ELSE all
  IN IF all = {} THEN None ELSE FirstByPosition(preferred).id

\* is_default = (p is the one) for the pipelines of a type.
OnlyDefault(pipelines, type, id) ==
  {IF p.type = type THEN [p EXCEPT !.default = (p.id = id)] ELSE p : p \in pipelines}

CreatePipeline(db, id, type, name, default, stages) ==
  LET rest == IF default THEN OnlyDefault(db.pipelines, type, id) ELSE db.pipelines
      row == PipelineRow(id, type, name, default, NextPosition({p \in rest : p.type = type}))
      stage(i) == StageRow(10 * id + i, id, i - 1, stages[i].outcome, stages[i].probability)
  IN Done([db EXCEPT !.pipelines = rest \cup {row}, !.stages = @ \cup {stage(i) : i \in DOMAIN stages}])

RenamePipeline(db, id, name) ==
  Done([db EXCEPT !.pipelines = {IF p.id = id THEN [p EXCEPT !.name = name] ELSE p : p \in @}])

SetDefault(db, id) ==
  IF Has(db.pipelines, id)
  THEN Done([db EXCEPT !.pipelines = OnlyDefault(@, Row(@, id).type, id)])
  ELSE Refused(db, "not_found")

DeletePipeline(db, id) ==
  Done([db EXCEPT !.stages = {s \in @ : s.pipeline # id}, !.pipelines = {p \in @ : p.id # id}])

AddStage(db, id, pipeline, outcome, probability) ==
  LET position == NextPosition({s \in db.stages : s.pipeline = pipeline})
  IN Insert(db, "stages", StageRow(id, pipeline, position, outcome, probability))

UpdateStage(db, id, patch) == Updated(db, "stages", id, patch, SetRow(db.stages, id, patch))

\* An id of another pipeline's stage matches no row.
ReorderStages(db, pipeline, ids) ==
  LET at(s) == {i \in DOMAIN ids : s.pipeline = pipeline /\ ids[i] = s.id}
  IN Done([db EXCEPT !.stages =
       {IF at(s) = {} THEN s ELSE [s EXCEPT !.position = Max(at(s)) - 1] : s \in @}])

DeleteStage(db, id) == Done([db EXCEPT !.stages = {s \in @ : s.id # id}])

(***************************************************************************)
(* Companies, people and the links between them.                           *)
(***************************************************************************)
CreateCompany(db, id, name, owner) == Insert(db, "company", CompanyRow(id, name, owner))
CreatePerson(db, id, name, owner) == Insert(db, "person", PersonRow(id, name, owner))
UpdateCompany(db, id, patch) == UpdateRow(db, "company", id, patch)
UpdatePerson(db, id, patch) == UpdateRow(db, "person", id, patch)

\* The rows of typed tables that are not of the record.
Left(table, id) == {r \in table : r.entity # id}

DeleteCompany(db, id) ==
  Done([db EXCEPT
    !.links = {l \in @ : l.company # id},
    !.tagOf["company"] = Left(@, id),
    !.valueOf["company"] = Left(@, id),
    !.memberOf["company"] = Left(@, id),
    !.engagement = Cleared(@, "company", id),
    !.deal = Cleared(@, "company", id),
    !.activity = Cleared(@, "company", id),
    !.company = {r \in @ : r.id # id}])

DeletePerson(db, id) ==
  Done([db EXCEPT
    !.links = {l \in @ : l.person # id},
    !.tagOf["person"] = Left(@, id),
    !.valueOf["person"] = Left(@, id),
    !.memberOf["person"] = Left(@, id),
    !.stakeholders = {s \in @ : s.person # id},
    !.engagement = Cleared(@, "person", id),
    !.deal = Cleared(@, "person", id),
    !.activity = Cleared(@, "person", id),
    !.person = {r \in @ : r.id # id}])

\* Only one primary company per person.
LinkPerson(db, company, person, role, primary) ==
  LET same(l) == l.company = company /\ l.person = person
      cleared == {IF primary /\ l.person = person THEN [l EXCEPT !.primary = FALSE] ELSE l :
                    l \in db.links}
      old == {l \in cleared : same(l)}
      new == [company |-> company, person |-> person, role |-> role, primary |-> primary]
      kept(l) == [l EXCEPT !.role = IF role = None THEN @ ELSE role, !.primary = @ \/ primary]
  IN IF old # {}
     THEN Done([db EXCEPT !.links = (cleared \ old) \cup {kept(l) : l \in old}])
     ELSE Insert([db EXCEPT !.links = cleared], "links", new)

UnlinkPerson(db, company, person) ==
  Done([db EXCEPT !.links = {l \in @ : <<l.company, l.person>> # <<company, person>>}])

CompanyPeople(db, company) ==
  {[link |-> l, person |-> Row(db.person, l.person)] : l \in {k \in db.links : k.company = company}}

PersonCompanies(db, person) ==
  {[link |-> l, company |-> Row(db.company, l.company)] : l \in {k \in db.links : k.person = person}}

(***************************************************************************)
(* Engagements and deals.                                                  *)
(***************************************************************************)
CreateEngagement(db, id, name, owner, company, person, place) ==
  Insert(db, "engagement", EngagementRow(id, name, owner, company, person, place))
UpdateEngagement(db, id, patch) == UpdateRow(db, "engagement", id, patch)

DeleteEngagement(db, id) ==
  Done([db EXCEPT
    !.tagOf["engagement"] = Left(@, id),
    !.valueOf["engagement"] = Left(@, id),
    !.offerOf["engagement"] = Left(@, id),
    !.memberOf["engagement"] = Left(@, id),
    !.activity = Cleared(@, "engagement", id),
    !.deal = Cleared(@, "engagement", id),
    !.engagement = {r \in @ : r.id # id}])

CreateDeal(db, id, name, owner, company, person, engagement, place, money) ==
  Insert(db, "deal", DealRow(id, name, owner, company, person, engagement, place, money))
UpdateDeal(db, id, patch) == UpdateRow(db, "deal", id, patch)

DeleteDeal(db, id) ==
  Done([db EXCEPT
    !.stakeholders = {s \in @ : s.deal # id},
    !.tagOf["deal"] = Left(@, id),
    !.valueOf["deal"] = Left(@, id),
    !.offerOf["deal"] = Left(@, id),
    !.memberOf["deal"] = Left(@, id),
    !.activity = Cleared(@, "deal", id),
    !.engagement = Cleared(@, "deal", id),
    !.deal = {r \in @ : r.id # id}])

IsStakeholder(s, deal, person) == s.deal = deal /\ s.person = person

\* isPrimary: false for all of the deal's stakeholders.
NonePrimary(table, deal) ==
  {IF s.deal = deal THEN [s EXCEPT !.primary = FALSE] ELSE s : s \in table}

UpdateStakeholder(db, deal, person, patch) ==
  LET promoted == "primary" \in DOMAIN patch /\ patch.primary
      rest == IF promoted THEN NonePrimary(db.stakeholders, deal) ELSE db.stakeholders
  IN IF \E s \in rest : IsStakeholder(s, deal, person)
     THEN Done([db EXCEPT !.stakeholders =
            {IF IsStakeholder(s, deal, person) THEN patch @@ s ELSE s : s \in rest}])
     ELSE Refused(db, "not_found")

AddStakeholder(db, deal, person, role, primary) ==
  LET given == IF role = None THEN [primary |-> primary] ELSE [role |-> role, primary |-> primary]
      rest == IF primary THEN NonePrimary(db.stakeholders, deal) ELSE db.stakeholders
  IN IF \E s \in db.stakeholders : IsStakeholder(s, deal, person)
     THEN UpdateStakeholder(db, deal, person, given)
     ELSE Insert([db EXCEPT !.stakeholders = rest], "stakeholders",
                 [deal |-> deal, person |-> person, role |-> role, primary |-> primary])

RemoveStakeholder(db, deal, person) ==
  Done([db EXCEPT !.stakeholders = {s \in @ : ~IsStakeholder(s, deal, person)}])

Stakeholders(db, deal) ==
  {[held |-> s, person |-> Row(db.person, s.person)] : s \in {k \in db.stakeholders : k.deal = deal}}

(***************************************************************************)
(* Offerings and activities.                                               *)
(***************************************************************************)
CreateOffering(db, id, name, owner) == Insert(db, "offering", OfferingRow(id, name, owner))
UpdateOffering(db, id, patch) == UpdateRow(db, "offering", id, patch)

DeleteOffering(db, id) ==
  Done([db EXCEPT
    !.offerOf = [type \in Offered |-> {o \in @[type] : o.offering # id}],
    !.valueOf["offering"] = Left(@, id),
    !.offering = {r \in @ : r.id # id}])

LinkOffering(db, offering, type, entity, fit, primary) ==
  LET same(o) == o.offering = offering /\ o.entity = entity
      old == {o \in db.offerOf[type] : same(o)}
      kept(o) == [o EXCEPT !.fit = IF fit = None THEN @ ELSE fit, !.primary = @ \/ primary]
      new == [offering |-> offering, entity |-> entity, fit |-> fit, primary |-> primary]
  IN IF old # {} THEN Done([db EXCEPT !.offerOf[type] = (@ \ old) \cup {kept(o) : o \in old}])
     ELSE IF Has(db.offering, offering) /\ Has(db[type], entity)
     THEN Done([db EXCEPT !.offerOf[type] = @ \cup {new}])
     ELSE Refused(db, "not_found")

UnlinkOffering(db, offering, type, entity) ==
  Done([db EXCEPT !.offerOf[type] = {o \in @ : o.offering # offering \/ o.entity # entity}])

OfferingsOf(db, type, entity) ==
  {[id |-> o.offering, name |-> Row(db.offering, o.offering).name,
    fit |-> o.fit, primary |-> o.primary] : o \in {k \in db.offerOf[type] : k.entity = entity}}

\* One query per type, the type added to the rows.
LinksForOffering(db, offering) ==
  UNION {{o @@ [type |-> type] : o \in {k \in db.offerOf[type] : k.offering = offering}} :
           type \in Offered}

CreateActivity(db, id, kind, name, links, due, assignee) ==
  Insert(db, "activity", ActivityRow(id, kind, name, links, due, assignee))
UpdateActivity(db, id, patch) == Updated(db, "activity", id, patch, SetRow(db.activity, id, patch))
DeleteActivity(db, id) == Done([db EXCEPT !.activity = {r \in @ : r.id # id}])

TouchLinked(db, links) ==
  Done([db EXCEPT !.engagement = SetRow(@, links.engagement, [last |-> 0]),
                  !.deal = SetRow(@, links.deal, [last |-> 0])])

(***************************************************************************)
(* Tags and contact lists.                                                 *)
(***************************************************************************)
CreateTag(db, id, name) ==
  IF NameTaken(db.tags, name, id) THEN Refused(db, "internal")
  ELSE Insert(db, "tags", [id |-> id, name |-> name])

UpdateTag(db, id, patch) ==
  IF NameTaken(db.tags, patch.name, id) THEN Refused(db, "internal")
  ELSE Updated(db, "tags", id, patch, SetRow(db.tags, id, patch))

\* Mutant: deal_tags is left out.
DeleteTagNotOfDeals(db, id) ==
  Done([db EXCEPT !.tagOf = [type \in Tagged |-> {g \in @[type] : type = "deal" \/ g.tag # id}],
                  !.tags = {r \in @ : r.id # id}])

DeleteTag(db, id) ==
  Done([db EXCEPT !.tagOf = [type \in Tagged |-> {g \in @[type] : g.tag # id}],
                  !.tags = {r \in @ : r.id # id}])

\* The keys on the tag and on the record are checked, ON CONFLICT DO NOTHING or not.
ApplyTag(db, tag, type, entity) ==
  IF Has(db.tags, tag) /\ Has(db[type], entity)
  THEN Done([db EXCEPT !.tagOf[type] = @ \cup {[tag |-> tag, entity |-> entity]}])
  ELSE Refused(db, "not_found")

RemoveTag(db, tag, type, entity) ==
  Done([db EXCEPT !.tagOf[type] = @ \ {[tag |-> tag, entity |-> entity]}])

TagsOf(db, type, entity) == {Row(db.tags, g.tag) : g \in {k \in db.tagOf[type] : k.entity = entity}}

TagUsage(db) ==
  {[tag |-> t, usage |-> MapThenSumSet(
      LAMBDA type : Cardinality({g \in db.tagOf[type] : g.tag = t.id}), Tagged)] : t \in db.tags}

CreateList(db, id, name, type) ==
  IF NameTaken(db.lists, name, id) THEN Refused(db, "internal")
  ELSE Insert(db, "lists", [id |-> id, name |-> name, type |-> type])

UpdateList(db, id, patch) ==
  IF "name" \in DOMAIN patch /\ NameTaken(db.lists, patch.name, id) THEN Refused(db, "internal")
  ELSE Updated(db, "lists", id, patch, SetRow(db.lists, id, patch))

DeleteList(db, id) ==
  Done([db EXCEPT !.memberOf = [type \in Tagged |-> {m \in @[type] : m.list # id}],
                  !.lists = {r \in @ : r.id # id}])

MembersOf(db, list, type) == {m \in db.memberOf[type] : m.list = list}

MemberTypeCounts(db, list) ==
  [type \in {t \in Tagged : MembersOf(db, list, t) # {}} |-> Cardinality(MembersOf(db, list, type))]

ListCounts(db) ==
  {[list |-> l, counts |-> [type \in Tagged |-> Cardinality(MembersOf(db, l.id, type))]] :
     l \in db.lists}

\* Mutant: the answer is how many were given.
AddMembersAnswersAll(db, list, type, entities) ==
  IF Has(db.lists, list) /\ \A e \in entities : Has(db[type], e)
  THEN Answer([db EXCEPT !.memberOf[type] = @ \cup {[list |-> list, entity |-> e] : e \in entities}],
              Cardinality(entities))
  ELSE Refused(db, "not_found")

\* One INSERT of all ids: a missing one refuses them all.
AddMembers(db, list, type, entities) ==
  LET new == {[list |-> list, entity |-> e] : e \in entities} \ db.memberOf[type]
  IN IF Has(db.lists, list) /\ \A e \in entities : Has(db[type], e)
     THEN Answer([db EXCEPT !.memberOf[type] = @ \cup new], Cardinality(new))
     ELSE Refused(db, "not_found")

RemoveMembers(db, list, type, entities) ==
  LET gone == {m \in MembersOf(db, list, type) : m.entity \in entities}
  IN Answer([db EXCEPT !.memberOf[type] = @ \ gone], Cardinality(gone))

ListsOf(db, type, entity) ==
  {Row(db.lists, m.list) : m \in {k \in db.memberOf[type] : k.entity = entity}}

(***************************************************************************)
(* Custom fields and their values; saved views.                            *)
(***************************************************************************)
CreateDef(db, id, type, key, kind) ==
  Insert(db, "fields", FieldRow(id, type, key, kind, NextPosition({d \in db.fields : d.type = type})))
UpdateDef(db, id, patch) == Updated(db, "fields", id, patch, SetRow(db.fields, id, patch))
SetDefArchived(db, id, archived) == UpdateDef(db, id, [archived |-> archived])

\* The upsert is on (workspace_id, field_id, entity_id) of the type's table.
SetValue(db, field, type, entity, value) ==
  LET rest == {v \in db.valueOf[type] : v.field # field \/ v.entity # entity}
      new == [field |-> field, entity |-> entity, value |-> value]
  IN IF value = None THEN Done([db EXCEPT !.valueOf[type] = rest])
     ELSE IF Has(db.fields, field) /\ Has(db[type], entity)
     THEN Done([db EXCEPT !.valueOf[type] = rest \cup {new}])
     ELSE Refused(db, "not_found")

ValuesOf(db, type, entity, archived) ==
  LET def(v) == Row(db.fields, v.field)
  IN {[key |-> def(v).key, value |-> v.value] :
        v \in {k \in db.valueOf[type] : k.entity = entity /\ (archived \/ ~def(k).archived)}}

DefsOf(db, type, archived) ==
  {d \in db.fields : Wanted(type, d.type) /\ (archived \/ ~d.archived)}

CreateView(db, id, name, owner, visibility, entity, filters) ==
  Insert(db, "views", ViewRow(id, name, owner, visibility, entity, filters))
UpdateView(db, id, patch) == Updated(db, "views", id, patch, SetRow(db.views, id, patch))
DeleteView(db, id) == Done([db EXCEPT !.views = {r \in @ : r.id # id}])

ViewsFor(db, user) ==
  {v \in db.views : v.visibility \in {"shared", "system"} \/ (user # None /\ v.owner = user)}

(***************************************************************************)
(* Pending actions, the audit trail and MCP clients.                       *)
(***************************************************************************)
CreateAction(db, id, target, by) == Insert(db, "actions", ActionRow(id, target, by))

SetStatus(db, id, status, reviewer) ==
  LET patch == [status |-> status, reviewer |-> reviewer]
  IN Updated(db, "actions", id, patch, SetRow(db.actions, id, patch))

\* The rows the UPDATE returns tell whether it changed one.
TransitionIfPending(db, id, status, reviewer) ==
  LET guarded(a) == a.id = id /\ a.status = "pending"
      decided(a) == [a EXCEPT !.status = status, !.reviewer = reviewer]
  IN Answer([db EXCEPT !.actions = {IF guarded(a) THEN decided(a) ELSE a : a \in @}],
            \E a \in db.actions : guarded(a))

ActionList(db, status) == {a \in db.actions : status = None \/ a.status = status}
CountPending(db) == Cardinality(ActionList(db, "pending"))

RecordAudit(db, operation, entity, by) == Insert(db, "audit", AuditRow(operation, entity, by))

AuditList(db, f) ==
  {e \in db.audit : /\ f.actor \in {None, e.actor} /\ f.entity \in {None, e.entity}
                    /\ f.operations # {} => e.operation \in f.operations}

CreateClient(db, id, scopes, trust, owner) ==
  Insert(db, "clients", ClientRow(id, scopes, trust, owner))
UpdateClient(db, id, patch) == Updated(db, "clients", id, patch, SetRow(db.clients, id, patch))
RevokeClient(db, id) == UpdateClient(db, id, [revoked |-> TRUE])

RevokeAllForUser(db, user) ==
  LET of(c) == c.owner = user /\ ~c.revoked
  IN Answer([db EXCEPT !.clients = {IF of(c) THEN [c EXCEPT !.revoked = TRUE] ELSE c : c \in @}],
            Cardinality({c \in db.clients : of(c)}))

ClientList(db) == db.clients

(***************************************************************************)
(* The lists of records, the lookups of an import and the totals of the    *)
(* boards.                                                                 *)
(***************************************************************************)
\* tagCondition, listCondition, offeringCondition: EXISTS on the type's table.
Tagging(db, f, type, id) ==
  f.tags = {} \/ \E g \in db.tagOf[type] : g.entity = id /\ g.tag \in f.tags
Listed(db, f, type, id) == f.list = None \/ \E m \in MembersOf(db, f.list, type) : m.entity = id
Offering(db, f, type, id) ==
  f.offering = None \/ \E o \in db.offerOf[type] : o.entity = id /\ o.offering = f.offering

CompanyName(db, id) == NameOf(db.company, id)
PersonName(db, id) == NameOf(db.person, id)

\* Of many records of a type at once; only records that have any are keys.
ListsShown(db, type, ids) ==
  [id \in {m.entity : m \in db.memberOf[type]} \cap ids |-> ListsOf(db, type, id)]
TagsShown(db, type, ids) ==
  [id \in {g.entity : g \in db.tagOf[type]} \cap ids |-> TagsOf(db, type, id)]
OfferingsShown(db, type, ids) ==
  [id \in {o.entity : o \in db.offerOf[type]} \cap ids |->
     {[id |-> o.id, name |-> o.name, primary |-> o.primary] : o \in OfferingsOf(db, type, id)}]

CompanyList(db, f) ==
  LET rows == {r \in db.company : /\ Shown(f, r)
                                  /\ Tagging(db, f, "company", r.id)
                                  /\ Listed(db, f, "company", r.id)}
      lists == ListsShown(db, "company", Keys(rows))
  IN {[row |-> c, lists |-> At(lists, c.id)] : c \in rows}

\* Prefer the primary link; otherwise first seen wins.
CompaniesShown(db, person) ==
  LET of == {l \in db.links : l.person = person}
  IN {CompanyName(db, l.company) :
        l \in {k \in of : k.primary \/ ~\E other \in of : other.primary}}

PersonList(db, f) ==
  LET at(r) == f.company = None \/ \E l \in db.links : l.person = r.id /\ l.company = f.company
      rows == {r \in db.person : /\ Shown(f, r) /\ at(r)
                                 /\ Tagging(db, f, "person", r.id)
                                 /\ Listed(db, f, "person", r.id)}
      lists == ListsShown(db, "person", Keys(rows))
  IN {[row |-> p, company |-> CompaniesShown(db, p.id), lists |-> At(lists, p.id)] : p \in rows}

EngagementList(db, f) ==
  LET rows == {r \in db.engagement :
                /\ Shown(f, r)
                /\ Wanted(f.pipeline, r.pipeline) /\ Wanted(f.stage, r.stage)
                /\ Wanted(f.company, r.company) /\ Wanted(f.person, r.person)
                /\ ~f.stale \/ (IsStale(r, db.workspace.engagementDays) /\ Row(db.stages, r.stage).outcome = None)
                /\ Tagging(db, f, "engagement", r.id)
                /\ Listed(db, f, "engagement", r.id)
                /\ Offering(db, f, "engagement", r.id)}
      lists == ListsShown(db, "engagement", Keys(rows))
      offerings == OfferingsShown(db, "engagement", Keys(rows))
  IN {[row |-> e, company |-> CompanyName(db, e.company), person |-> PersonName(db, e.person),
       lists |-> At(lists, e.id), offerings |-> At(offerings, e.id)] : e \in rows}

DealList(db, f) ==
  LET involved(d) == \/ Wanted(f.person, d.person)
                     \/ \E s \in db.stakeholders : IsStakeholder(s, d.id, f.person)
      rows == {r \in db.deal :
                /\ Shown(f, r)
                /\ Wanted(f.pipeline, r.pipeline) /\ Wanted(f.stage, r.stage)
                /\ Wanted(f.status, r.status) /\ Wanted(f.company, r.company)
                /\ involved(r) /\ (f.stale => IsStale(r, db.workspace.dealDays))
                /\ Tagging(db, f, "deal", r.id)
                /\ Listed(db, f, "deal", r.id)
                /\ Offering(db, f, "deal", r.id)}
      lists == ListsShown(db, "deal", Keys(rows))
      offerings == OfferingsShown(db, "deal", Keys(rows))
  IN {[row |-> d, company |-> CompanyName(db, d.company), person |-> PersonName(db, d.person),
       lists |-> At(lists, d.id), offerings |-> At(offerings, d.id)] : d \in rows}

OfferingList(db, archived) == {r \in db.offering : ~r.archived \/ archived}

ActivityList(db, f) ==
  {r \in db.activity :
     /\ f.kinds = {} \/ r.kind \in f.kinds
     /\ \A type \in Tagged : Wanted(f[type], r[type])
     /\ Wanted(f.assignee, r.assignee)
     /\ ~f.open \/ (r.kind = "task" /\ ~r.done)
     /\ ~f.overdue \/ r.due = "past"
     /\ f.within = None \/ DueWithin(f.within, r.due)}

CompanyExact(db, name) == Oldest({r \in db.company : r.name = name})

PersonExact(db, name, company) ==
  LET of(r) == {l.company : l \in {k \in db.links : k.person = r.id}}
  IN Oldest({r \in db.person :
       r.name = name /\ (company = Unasked \/ company \in of(r) \/ (company = None /\ of(r) = {}))})

EngagementExact(db, name, company, person) ==
  Oldest({r \in db.engagement : <<r.name, r.company, r.person>> = <<name, company, person>>})

CountByStage(db, pipeline) ==
  LET rows == {r \in db.engagement : r.pipeline = pipeline /\ ~r.archived}
      in(s) == {r \in rows : r.stage = s}
  IN {[stage |-> s, count |-> Cardinality(in(s))] : s \in {k \in Keys(db.stages) : in(k) # {}}}

\* COALESCE(d.probability, s.probability, 0), per hundred of the amount or nothing.
Weighted(db, d) ==
  LET chance == IF d.probability # None THEN d.probability ELSE Row(db.stages, d.stage).probability
  IN IF None \in {d.amount, chance} THEN 0 ELSE d.amount * chance

Worth(d) == IF d.amount = None THEN 0 ELSE d.amount

\* num() of the totals the database returns; Math.round of the weighted one.
StageStats(db, pipeline) ==
  LET in(s) == {d \in db.deal : d.stage = s /\ ~d.archived /\ d.pipeline = pipeline}
      held(rows, c) == {d \in rows : d.currency = c}
      totals(rows, value(_), round(_)) ==
        {<<c, round(MapThenSumSet(value, held(rows, c)))>> :
           c \in {k \in {d.currency : d \in rows} : MapThenSumSet(value, held(rows, k)) > 0}}
  IN {[stage |-> s, count |-> Cardinality(in(s)),
       sums |-> totals(in(s), Worth, LAMBDA n : n),
       weighted |-> totals(in(s), LAMBDA d : Weighted(db, d), LAMBDA n : (n + 50) \div 100)] :
        s \in {k \in Keys(db.stages) : in(k) # {}}}

StageUsage(db, stage) ==
  Cardinality({r \in db.engagement : r.stage = stage}) + Cardinality({r \in db.deal : r.stage = stage})
PipelineUsage(db, pipeline) ==
  Cardinality({r \in db.engagement : r.pipeline = pipeline})
    + Cardinality({r \in db.deal : r.pipeline = pipeline})

GlobalSearch(db, text) ==
  LET found(table) == {r \in table : Matches(text, r.name)}
      notes == {r \in db.activity : r.kind \in {"note", "call", "email", "meeting"}}
  IN UNION {{[type |-> type, id |-> r.id, archived |-> r.archived] : r \in found(db[type])} :
              type \in Tagged}
       \cup {[type |-> "activity", id |-> r.id, archived |-> FALSE] : r \in found(notes)}

RecordCounts(db) ==
  LET live(type) == {r \in db[type] : ~r.archived}
  IN [type \in Tagged |-> Cardinality(live(type))]
       @@ [open |-> Cardinality({d \in live("deal") : d.status = "open"})]

(***************************************************************************)
(* The operations of packages/core over these ports.                       *)
(***************************************************************************)
Ops == INSTANCE CrmOperations
=============================================================================
