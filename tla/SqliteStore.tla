---------------------------- MODULE SqliteStore ----------------------------
(***************************************************************************)
(* The record ports of packages/db/src/repositories.ts on SQLite: what     *)
(* each method does to the tables and what it answers.  Taggings, list     *)
(* members, offering links and custom field values are one table each, of  *)
(* (entity_type, entity_id) pairs; no foreign key guards a record's id, so *)
(* the methods look references up themselves (requireUser and the checks   *)
(* of deals.update) or trust the operation that calls them.                *)
(***************************************************************************)
EXTENDS CrmTables

EmptySqlite ==
  [company |-> {}, person |-> {}, engagement |-> {}, deal |-> {}, offering |-> {},
   activity |-> {}, links |-> {}, stakeholders |-> {}, tags |-> {}, taggings |-> {},
   lists |-> {}, members |-> {}, offers |-> {}, fields |-> {}, values |-> {}, views |-> {},
   actions |-> {}, audit |-> {}, clients |-> {}, users |-> {}, codes |-> {}, sessions |-> {},
   pipelines |-> {}, stages |-> {},
   workspace |-> [name |-> None, currency |-> None, engagementDays |-> 14, dealDays |-> 30]]

(***************************************************************************)
(* The workspace, its users and their setup and reset codes.               *)
(***************************************************************************)
\* What the patch does not give stays.
UpdateWorkspace(db, patch) == Done([db EXCEPT !.workspace = patch @@ @])

\* A bound auth subject counts as a password.
UserList(db) == {[hasPassword |-> u.hash \/ u.linked] @@ UserShown(u) : u \in db.users}

\* Disabling wins; enabled again, a user is active once an auth subject was bound.
UpdateUser(db, id, patch) ==
  LET status(u) == IF patch.disabled THEN "disabled" ELSE IF u.linked THEN "active" ELSE "pending"
      given == [c \in DOMAIN patch \ {"disabled"} |-> patch[c]]
      updated(u) == IF "disabled" \in DOMAIN patch THEN [given @@ u EXCEPT !.status = status(u)]
                    ELSE given @@ u
  IN IF ~Has(db.users, id) THEN Refused(db, "not_found")
     ELSE Done([db EXCEPT !.users = {IF u.id = id THEN updated(u) ELSE u : u \in @}])

\* endUserSessions
DeleteSessions(db, user) == Done([db EXCEPT !.sessions = {e \in @ : e.user # user}])

CreatePending(db, id, email, name, role) ==
  IF role = "owner" THEN Refused(db, "validation")
  ELSE IF \E u \in db.users : u.email = email THEN Refused(db, "conflict")
  ELSE Done([db EXCEPT !.users = @ \cup {UserRow(id, email, name, role)}])

\* Private views go, shared ones and records stay without an owner; the actors of
\* actions and of the audit trail keep their ids.
DeletePermanently(db, id) ==
  IF ~Has(db.users, id) THEN Refused(db, "not_found")
  ELSE IF Row(db.users, id).role = "owner" THEN Refused(db, "invalid_state")
  ELSE Done([db EXCEPT
    !.sessions = {e \in @ : e.user # id},
    !.clients = {c \in @ : c.owner # id},
    !.codes = {c \in @ : c.user # id},
    !.views = Cleared({v \in @ : ~(v.owner = id /\ v.visibility = "private")}, "owner", id),
    !.company = Cleared(@, "owner", id),
    !.person = Cleared(@, "owner", id),
    !.engagement = Cleared(@, "owner", id),
    !.deal = Cleared(@, "owner", id),
    !.offering = Cleared(@, "owner", id),
    !.activity = Cleared(@, "assignee", id),
    !.users = {u \in @ : u.id # id}])

TransferOwnership(db, from, to) ==
  LET owns == \E u \in db.users : u.id = from /\ u.role = "owner"
  IN IF ~owns THEN Refused(db, "invalid_state")
     ELSE IF ~Has(db.users, to) THEN Refused(db, "not_found")
     ELSE IF Row(db.users, to).status # "active" THEN Refused(db, "invalid_state")
     ELSE Done([db EXCEPT !.users = SetRow(SetRow(@, from, [role |-> "admin"]), to, [role |-> "owner"])])

\* issueAuthCodeSync: a new code supersedes those of its purpose, and one to reset
\* a password ends the user's sessions.
IssueCode(db, id, user, purpose) ==
  LET email == Row(db.users, user).email
      old(c) == c.user = user /\ c.purpose = purpose /\ ~c.used
      codes == {IF old(c) THEN [c EXCEPT !.used = TRUE] ELSE c : c \in db.codes}
      issued == [db EXCEPT !.codes = codes \cup {CodeRow(id, user, email, purpose)}]
  IN IF ~Has(db.users, user) THEN Refused(db, "not_found")
     ELSE IF Cardinality({c \in db.codes : c.email = email /\ c.recent}) >= IssueMax
          THEN Refused(db, "conflict")
     ELSE IF purpose = "reset" THEN DeleteSessions(issued, user) ELSE Done(issued)

(***************************************************************************)
(* Pipelines and their stages.  A stage is a row of its own: deleting a    *)
(* pipeline deletes them, and reordering moves only those of the pipeline. *)
(***************************************************************************)
OfPipeline(db, pipeline) == {s \in db.stages : s.pipeline = pipeline}

PipelineList(db, type) ==
  {[row |-> p, stages |-> OfPipeline(db, p.id)] : p \in {k \in db.pipelines : Wanted(type, k.type)}}

\* The default of the type, else its first; None when it has no pipeline.
GetDefault(db, type) ==
  LET all == {x.row : x \in PipelineList(db, type)}
      default == {p \in all : p.default}
  IN CASE default # {} -> FirstByPosition(default).id
       [] default = {} /\ all # {} -> FirstByPosition(all).id
       [] OTHER -> None

NoDefault(pipelines, type) ==
  {IF p.type = type THEN [p EXCEPT !.default = FALSE] ELSE p : p \in pipelines}

\* `stages` is a sequence of [outcome, probability]; their ids are new.
CreatePipeline(db, id, type, name, default, stages) ==
  LET others == IF default THEN NoDefault(db.pipelines, type) ELSE db.pipelines
      position == NextPosition({p \in db.pipelines : p.type = type})
  IN Done([db EXCEPT
       !.pipelines = others \cup {PipelineRow(id, type, name, default, position)},
       !.stages = @ \cup {StageRow(10 * id + i, id, i - 1, stages[i].outcome, stages[i].probability) :
                            i \in DOMAIN stages}])

RenamePipeline(db, id, name) == Done([db EXCEPT !.pipelines = SetRow(@, id, [name |-> name])])

SetDefault(db, id) ==
  IF ~Has(db.pipelines, id) THEN Refused(db, "not_found")
  ELSE Done([db EXCEPT !.pipelines =
         SetRow(NoDefault(@, Row(@, id).type), id, [default |-> TRUE])])

DeletePipeline(db, id) ==
  Done([db EXCEPT !.stages = @ \ OfPipeline(db, id), !.pipelines = {p \in @ : p.id # id}])

AddStage(db, id, pipeline, outcome, probability) ==
  Done([db EXCEPT !.stages = @ \cup
    {StageRow(id, pipeline, NextPosition(OfPipeline(db, pipeline)), outcome, probability)}])

UpdateStage(db, id, patch) ==
  IF ~Has(db.stages, id) THEN Refused(db, "not_found")
  ELSE Done([db EXCEPT !.stages = SetRow(@, id, patch)])

\* One UPDATE per id given: the last of a repeated id stays.
ReorderStages(db, pipeline, ids) ==
  LET last(s) == Max({i \in DOMAIN ids : ids[i] = s.id}) - 1
      named(s) == s.pipeline = pipeline /\ \E i \in DOMAIN ids : ids[i] = s.id
  IN Done([db EXCEPT !.stages =
       {IF named(s) THEN [s EXCEPT !.position = last(s)] ELSE s : s \in @}])

DeleteStage(db, id) == Done([db EXCEPT !.stages = {s \in @ : s.id # id}])

(***************************************************************************)
(* Companies, people and the links between them.                           *)
(***************************************************************************)
CreateCompany(db, id, name, owner) ==
  IF Unknown(db, owner) THEN Refused(db, "not_found")
  ELSE Done([db EXCEPT !.company = @ \cup {CompanyRow(id, name, owner)}])

CreatePerson(db, id, name, owner) ==
  IF Unknown(db, owner) THEN Refused(db, "not_found")
  ELSE Done([db EXCEPT !.person = @ \cup {PersonRow(id, name, owner)}])

UpdateCompany(db, id, patch) ==
  IF UnknownOwner(db, patch) \/ ~Has(db.company, id)
  THEN Refused(db, "not_found")
  ELSE Done([db EXCEPT !.company = NextVersion(@, id, patch)])

UpdatePerson(db, id, patch) ==
  IF UnknownOwner(db, patch) \/ ~Has(db.person, id)
  THEN Refused(db, "not_found")
  ELSE Done([db EXCEPT !.person = NextVersion(@, id, patch)])

\* The rows (entity_type, entity_id) of a record in a table of such pairs.
Other(table, type, id) == {r \in table : ~(r.type = type /\ r.entity = id)}

DeleteCompany(db, id) ==
  Done([db EXCEPT
    !.links = {l \in @ : l.company # id},
    !.taggings = Other(@, "company", id),
    !.values = Other(@, "company", id),
    !.engagement = Cleared(@, "company", id),
    !.deal = Cleared(@, "company", id),
    !.activity = Cleared(@, "company", id),
    !.members = Other(@, "company", id),
    !.company = {r \in @ : r.id # id}])

DeletePerson(db, id) ==
  Done([db EXCEPT
    !.links = {l \in @ : l.person # id},
    !.taggings = Other(@, "person", id),
    !.values = Other(@, "person", id),
    !.stakeholders = {s \in @ : s.person # id},
    !.engagement = Cleared(@, "person", id),
    !.deal = Cleared(@, "person", id),
    !.activity = Cleared(@, "person", id),
    !.members = Other(@, "person", id),
    !.person = {r \in @ : r.id # id}])

\* An existing link is updated: a missing role or status keeps the old one, and
\* isPrimary can be given but not taken away.  Only one primary per person.
LinkPerson(db, company, person, role, primary) ==
  LET exists == \E l \in db.links : l.company = company /\ l.person = person
      demoted == IF primary
                 THEN {IF l.person = person THEN [l EXCEPT !.primary = FALSE] ELSE l : l \in db.links}
                 ELSE db.links
      linked == IF exists
                THEN {IF l.company = company /\ l.person = person
                      THEN [l EXCEPT !.role = IF role = None THEN @ ELSE role,
                                     !.primary = @ \/ primary]
                      ELSE l : l \in demoted}
                ELSE demoted \cup {[company |-> company, person |-> person,
                                    role |-> role, primary |-> primary]}
  IN Done([db EXCEPT !.links = linked])

UnlinkPerson(db, company, person) ==
  Done([db EXCEPT !.links = {l \in @ : ~(l.company = company /\ l.person = person)}])

CompanyPeople(db, company) ==
  {[link |-> l, person |-> Row(db.person, l.person)] :
     l \in {k \in db.links : k.company = company /\ Has(db.person, k.person)}}

PersonCompanies(db, person) ==
  {[link |-> l, company |-> Row(db.company, l.company)] :
     l \in {k \in db.links : k.person = person /\ Has(db.company, k.company)}}

(***************************************************************************)
(* Engagements and deals.                                                  *)
(***************************************************************************)
CreateEngagement(db, id, name, owner, company, person, place) ==
  IF Unknown(db, owner) THEN Refused(db, "not_found")
  ELSE Done([db EXCEPT !.engagement = @ \cup
         {EngagementRow(id, name, owner, company, person, place)}])

UpdateEngagement(db, id, patch) ==
  IF UnknownOwner(db, patch) \/ ~Has(db.engagement, id)
  THEN Refused(db, "not_found")
  ELSE Done([db EXCEPT !.engagement = NextVersion(@, id, patch)])

DeleteEngagement(db, id) ==
  Done([db EXCEPT
    !.taggings = Other(@, "engagement", id),
    !.values = Other(@, "engagement", id),
    !.offers = Other(@, "engagement", id),
    !.members = Other(@, "engagement", id),
    !.activity = Cleared(@, "engagement", id),
    !.deal = Cleared(@, "engagement", id),
    !.engagement = {r \in @ : r.id # id}])

CreateDeal(db, id, name, owner, company, person, engagement, place, money) ==
  IF Unknown(db, owner) THEN Refused(db, "not_found")
  ELSE Done([db EXCEPT !.deal = @ \cup
         {DealRow(id, name, owner, company, person, engagement, place, money)}])

UpdateDeal(db, id, patch) ==
  LET given(f) == f \in DOMAIN patch /\ patch[f] # None
  IN IF \/ UnknownOwner(db, patch)
        \/ given("company") /\ ~Has(db.company, patch.company)
        \/ given("person") /\ ~Has(db.person, patch.person)
        \/ given("engagement") /\ ~Has(db.engagement, patch.engagement)
        \/ ~Has(db.deal, id)
     THEN Refused(db, "not_found")
     ELSE Done([db EXCEPT !.deal = NextVersion(@, id, patch)])

DeleteDeal(db, id) ==
  Done([db EXCEPT
    !.stakeholders = {s \in @ : s.deal # id},
    !.taggings = Other(@, "deal", id),
    !.values = Other(@, "deal", id),
    !.offers = Other(@, "deal", id),
    !.members = Other(@, "deal", id),
    !.activity = Cleared(@, "deal", id),
    !.engagement = Cleared(@, "deal", id),
    !.deal = {r \in @ : r.id # id}])

\* A stakeholder is addressed by its deal and person, which no two share.
Demoted(table, deal) == {IF s.deal = deal THEN [s EXCEPT !.primary = FALSE] ELSE s : s \in table}

UpdateStakeholder(db, deal, person, patch) ==
  IF ~\E s \in db.stakeholders : s.deal = deal /\ s.person = person
  THEN Refused(db, "not_found")
  ELSE LET others == IF "primary" \in DOMAIN patch /\ patch.primary
                     THEN Demoted(db.stakeholders, deal) ELSE db.stakeholders
       IN Done([db EXCEPT !.stakeholders =
            {IF s.deal = deal /\ s.person = person THEN patch @@ s ELSE s : s \in others}])

\* Adding a stakeholder again updates it: isPrimary is always given, a role only
\* when the caller names one.
AddStakeholder(db, deal, person, role, primary) ==
  IF \E s \in db.stakeholders : s.deal = deal /\ s.person = person
  THEN UpdateStakeholder(db, deal, person,
         (IF role = None THEN << >> ELSE [role |-> role]) @@ [primary |-> primary])
  ELSE Done([db EXCEPT !.stakeholders =
         (IF primary THEN Demoted(@, deal) ELSE @)
           \cup {[deal |-> deal, person |-> person, role |-> role, primary |-> primary]}])

RemoveStakeholder(db, deal, person) ==
  Done([db EXCEPT !.stakeholders = {s \in @ : ~(s.deal = deal /\ s.person = person)}])

Stakeholders(db, deal) ==
  {[held |-> s, person |-> Row(db.person, s.person)] :
     s \in {k \in db.stakeholders : k.deal = deal /\ Has(db.person, k.person)}}

(***************************************************************************)
(* Offerings.                                                              *)
(***************************************************************************)
CreateOffering(db, id, name, owner) ==
  IF Unknown(db, owner) THEN Refused(db, "not_found")
  ELSE Done([db EXCEPT !.offering = @ \cup {OfferingRow(id, name, owner)}])

UpdateOffering(db, id, patch) ==
  IF UnknownOwner(db, patch) \/ ~Has(db.offering, id) THEN Refused(db, "not_found")
  ELSE Done([db EXCEPT !.offering = NextVersion(@, id, patch)])

DeleteOffering(db, id) ==
  Done([db EXCEPT
    !.offers = {o \in @ : o.offering # id},
    !.values = Other(@, "offering", id),
    !.offering = {r \in @ : r.id # id}])

\* Linking again keeps what is not given; several links of a record may be primary.
LinkOffering(db, offering, type, entity, fit, primary) ==
  LET same(o) == o.offering = offering /\ o.type = type /\ o.entity = entity
  IN Done([db EXCEPT !.offers =
       IF \E o \in @ : same(o)
       THEN {IF same(o) THEN [o EXCEPT !.fit = IF fit = None THEN @ ELSE fit,
                                       !.primary = @ \/ primary]
             ELSE o : o \in @}
       ELSE @ \cup {[offering |-> offering, type |-> type, entity |-> entity,
                     fit |-> fit, primary |-> primary]}])

UnlinkOffering(db, offering, type, entity) ==
  Done([db EXCEPT !.offers =
    {o \in @ : ~(o.offering = offering /\ o.type = type /\ o.entity = entity)}])

OfferingsOf(db, type, entity) ==
  {[id |-> o.offering, name |-> NameOf(db.offering, o.offering), fit |-> o.fit, primary |-> o.primary] :
     o \in {k \in db.offers : k.type = type /\ k.entity = entity /\ Has(db.offering, k.offering)}}

LinksForOffering(db, offering) == {o \in db.offers : o.offering = offering}

(***************************************************************************)
(* Activities.                                                             *)
(***************************************************************************)
CreateActivity(db, id, kind, name, links, due, assignee) ==
  IF Unknown(db, assignee) THEN Refused(db, "not_found")
  ELSE Done([db EXCEPT !.activity = @ \cup {ActivityRow(id, kind, name, links, due, assignee)}])

UpdateActivity(db, id, patch) ==
  IF ("assignee" \in DOMAIN patch /\ Unknown(db, patch.assignee)) \/ ~Has(db.activity, id)
  THEN Refused(db, "not_found")
  ELSE Done([db EXCEPT !.activity = SetRow(@, id, patch)])

DeleteActivity(db, id) == Done([db EXCEPT !.activity = {r \in @ : r.id # id}])

\* last_activity_at of the linked engagement and deal; their version stays.
TouchLinked(db, links) ==
  Done([db EXCEPT !.engagement = SetRow(@, links.engagement, [last |-> 0]),
                  !.deal = SetRow(@, links.deal, [last |-> 0])])

(***************************************************************************)
(* Tags and contact lists.                                                 *)
(***************************************************************************)
CreateTag(db, id, name) ==
  IF NameTaken(db.tags, name, id) THEN Refused(db, "internal")
  ELSE Done([db EXCEPT !.tags = @ \cup {[id |-> id, name |-> name]}])

UpdateTag(db, id, patch) ==
  IF NameTaken(db.tags, patch.name, id) THEN Refused(db, "internal")
  ELSE Done([db EXCEPT !.tags = SetRow(@, id, patch)])

DeleteTag(db, id) ==
  Done([db EXCEPT !.taggings = {g \in @ : g.tag # id}, !.tags = {r \in @ : r.id # id}])

\* ON CONFLICT (tag_id, entity_type, entity_id) DO NOTHING
ApplyTag(db, tag, type, entity) ==
  Done([db EXCEPT !.taggings = @ \cup {[tag |-> tag, type |-> type, entity |-> entity]}])

RemoveTag(db, tag, type, entity) ==
  Done([db EXCEPT !.taggings = @ \ {[tag |-> tag, type |-> type, entity |-> entity]}])

TagsOf(db, type, entity) ==
  {Row(db.tags, g.tag) :
     g \in {k \in db.taggings : k.type = type /\ k.entity = entity /\ Has(db.tags, k.tag)}}

CreateList(db, id, name, type) ==
  IF NameTaken(db.lists, name, id) THEN Refused(db, "internal")
  ELSE Done([db EXCEPT !.lists = @ \cup {[id |-> id, name |-> name, type |-> type]}])

UpdateList(db, id, patch) ==
  IF "name" \in DOMAIN patch /\ NameTaken(db.lists, patch.name, id) THEN Refused(db, "internal")
  ELSE Done([db EXCEPT !.lists = SetRow(@, id, patch)])

DeleteList(db, id) ==
  Done([db EXCEPT !.members = {m \in @ : m.list # id}, !.lists = {r \in @ : r.id # id}])

\* The answer is the number of rows inserted, one INSERT per id.
AddMembers(db, list, type, entities) ==
  LET new == {[list |-> list, type |-> type, entity |-> e] : e \in entities} \ db.members
  IN Answer([db EXCEPT !.members = @ \cup new], Cardinality(new))

RemoveMembers(db, list, type, entities) ==
  LET gone == {m \in db.members : m.list = list /\ m.type = type /\ m.entity \in entities}
  IN Answer([db EXCEPT !.members = @ \ gone], Cardinality(gone))

\* GROUP BY entity_type: a type without members is no key.
MemberTypeCounts(db, list) ==
  [type \in {m.type : m \in {k \in db.members : k.list = list}} |->
     Cardinality({m \in db.members : m.list = list /\ m.type = type})]

\* list.list: the lists with how many records of each type they hold.
ListCounts(db) ==
  {[list |-> l, counts |-> [type \in Tagged |->
      Cardinality({m \in db.members : m.list = l.id /\ m.type = type})]] : l \in db.lists}

ListsOf(db, type, entity) ==
  {Row(db.lists, m.list) :
     m \in {k \in db.members : k.type = type /\ k.entity = entity /\ Has(db.lists, k.list)}}

(***************************************************************************)
(* Custom fields and their values; saved views.                            *)
(***************************************************************************)
CreateDef(db, id, type, key, kind) ==
  Done([db EXCEPT !.fields = @ \cup
    {FieldRow(id, type, key, kind, NextPosition({d \in @ : d.type = type}))}])

UpdateDef(db, id, patch) ==
  IF ~Has(db.fields, id) THEN Refused(db, "not_found")
  ELSE Done([db EXCEPT !.fields = SetRow(@, id, patch)])

SetDefArchived(db, id, archived) ==
  IF ~Has(db.fields, id) THEN Refused(db, "not_found")
  ELSE Done([db EXCEPT !.fields = SetRow(@, id, [archived |-> archived])])

\* The upsert is on (field_id, entity_id); null deletes.
SetValue(db, field, type, entity, value) ==
  LET rest == {v \in db.values : ~(v.field = field /\ v.entity = entity)}
  IN Done([db EXCEPT !.values =
       IF value = None THEN rest
       ELSE rest \cup {[field |-> field, type |-> type, entity |-> entity, value |-> value]}])

ValuesOf(db, type, entity, archived) ==
  {[key |-> Row(db.fields, v.field).key, value |-> v.value] :
     v \in {k \in db.values : /\ k.type = type /\ k.entity = entity
                              /\ Has(db.fields, k.field)
                              /\ archived \/ ~Row(db.fields, k.field).archived}}

DefsOf(db, type, archived) ==
  {d \in db.fields : (type = None \/ d.type = type) /\ (archived \/ ~d.archived)}

CreateView(db, id, name, owner, visibility, entity, filters) ==
  Done([db EXCEPT !.views = @ \cup {ViewRow(id, name, owner, visibility, entity, filters)}])

UpdateView(db, id, patch) ==
  IF ~Has(db.views, id) THEN Refused(db, "not_found")
  ELSE Done([db EXCEPT !.views = SetRow(@, id, patch)])

DeleteView(db, id) == Done([db EXCEPT !.views = {r \in @ : r.id # id}])

ViewsFor(db, user) ==
  {v \in db.views : v.visibility \in {"shared", "system"} \/ (user # None /\ v.owner = user)}

(***************************************************************************)
(* Pending actions, the audit trail and MCP clients.                       *)
(***************************************************************************)
CreateAction(db, id, target, by) ==
  Done([db EXCEPT !.actions = @ \cup {ActionRow(id, target, by)}])

SetStatus(db, id, status, reviewer) ==
  IF ~Has(db.actions, id) THEN Refused(db, "not_found")
  ELSE Done([db EXCEPT !.actions = SetRow(@, id, [status |-> status, reviewer |-> reviewer])])

\* UPDATE ... WHERE status = 'pending'; the answer is whether it changed a row.
TransitionIfPending(db, id, status, reviewer) ==
  LET due == {a \in db.actions : a.id = id /\ a.status = "pending"}
  IN Answer([db EXCEPT !.actions =
       (@ \ due) \cup {[a EXCEPT !.status = status, !.reviewer = reviewer] : a \in due}], due # {})

ActionList(db, status) == {a \in db.actions : Wanted(status, a.status)}
CountPending(db) == Cardinality({a \in db.actions : a.status = "pending"})

RecordAudit(db, operation, entity, by) ==
  Done([db EXCEPT !.audit = @ \cup {AuditRow(operation, entity, by)}])

AuditList(db, f) ==
  {e \in db.audit : /\ Wanted(f.actor, e.actor)
                    /\ f.operations = {} \/ e.operation \in f.operations
                    /\ Wanted(f.entity, e.entity)}

CreateClient(db, id, scopes, trust, owner) ==
  Done([db EXCEPT !.clients = @ \cup {ClientRow(id, scopes, trust, owner)}])

UpdateClient(db, id, patch) ==
  IF ~Has(db.clients, id) THEN Refused(db, "not_found")
  ELSE Done([db EXCEPT !.clients = SetRow(@, id, patch)])

RevokeClient(db, id) == UpdateClient(db, id, [revoked |-> TRUE])

\* The answer is how many were still active.
RevokeAllForUser(db, user) ==
  LET active == {c \in db.clients : c.owner = user /\ ~c.revoked}
  IN Answer([db EXCEPT !.clients = (@ \ active) \cup {[c EXCEPT !.revoked = TRUE] : c \in active}],
            Cardinality(active))

ClientList(db) == db.clients

(***************************************************************************)
(* The lists of records, the lookups of an import and the totals of the    *)
(* boards.                                                                 *)
(***************************************************************************)
\* Any of the tags; in the list; linked to the offering.
Tagging(db, f, type, id) ==
  f.tags = {} \/ \E g \in db.taggings : g.type = type /\ g.entity = id /\ g.tag \in f.tags
Listed(db, f, type, id) ==
  f.list = None \/ \E m \in db.members : m.type = type /\ m.entity = id /\ m.list = f.list
Offering(db, f, type, id) ==
  f.offering = None
    \/ \E o \in db.offers : o.type = type /\ o.entity = id /\ o.offering = f.offering

CompanyName(db, id) == NameOf(db.company, id)
PersonName(db, id) == NameOf(db.person, id)

\* The lists, tags and offerings of many records at once, for a page of a list.
ListsShown(db, type, ids) ==
  LET of == {m \in db.members : m.type = type /\ m.entity \in ids /\ Has(db.lists, m.list)}
  IN [id \in {m.entity : m \in of} |-> {Row(db.lists, m.list) : m \in {k \in of : k.entity = id}}]

TagsShown(db, type, ids) ==
  LET of == {g \in db.taggings : g.type = type /\ g.entity \in ids /\ Has(db.tags, g.tag)}
  IN [id \in {g.entity : g \in of} |-> {Row(db.tags, g.tag) : g \in {k \in of : k.entity = id}}]

OfferingsShown(db, type, ids) ==
  LET of == {o \in db.offers : o.type = type /\ o.entity \in ids /\ Has(db.offering, o.offering)}
      shown(o) == [id |-> o.offering, name |-> NameOf(db.offering, o.offering), primary |-> o.primary]
  IN [id \in {o.entity : o \in of} |-> {shown(o) : o \in {k \in of : k.entity = id}}]

CompanyList(db, f) ==
  LET rows == {r \in db.company : /\ Shown(f, r)
                                  /\ Tagging(db, f, "company", r.id)
                                  /\ Listed(db, f, "company", r.id)}
      lists == ListsShown(db, "company", Keys(rows))
  IN {[row |-> c, lists |-> At(lists, c.id)] : c \in rows}

\* The company shown with a person: its primary one, else any of its companies.
CompaniesShown(db, person) ==
  LET of == {l \in db.links : l.person = person}
      primary == {l \in of : l.primary}
  IN {CompanyName(db, l.company) : l \in (IF primary = {} THEN of ELSE primary)}

PersonList(db, f) ==
  LET rows == {r \in db.person :
                /\ Shown(f, r)
                /\ \/ f.company = None
                   \/ \E l \in db.links : l.person = r.id /\ l.company = f.company
                /\ Tagging(db, f, "person", r.id)
                /\ Listed(db, f, "person", r.id)}
      lists == ListsShown(db, "person", Keys(rows))
  IN {[row |-> p, company |-> CompaniesShown(db, p.id), lists |-> At(lists, p.id)] : p \in rows}

\* A closed lead is never stale.
EngagementList(db, f) ==
  LET rows == {r \in db.engagement :
                /\ Shown(f, r)
                /\ Wanted(f.pipeline, r.pipeline) /\ Wanted(f.stage, r.stage)
                /\ Wanted(f.company, r.company) /\ Wanted(f.person, r.person)
                /\ f.stale => /\ IsStale(r, db.workspace.engagementDays)
                              /\ \E s \in db.stages : s.id = r.stage /\ s.outcome = None
                /\ Tagging(db, f, "engagement", r.id)
                /\ Listed(db, f, "engagement", r.id)
                /\ Offering(db, f, "engagement", r.id)}
      lists == ListsShown(db, "engagement", Keys(rows))
      offerings == OfferingsShown(db, "engagement", Keys(rows))
  IN {[row |-> e, company |-> CompanyName(db, e.company), person |-> PersonName(db, e.person),
       lists |-> At(lists, e.id), offerings |-> At(offerings, e.id)] : e \in rows}

\* A person's deals are those it is the primary person or a stakeholder of.
DealList(db, f) ==
  LET rows == {r \in db.deal :
                /\ Shown(f, r)
                /\ Wanted(f.pipeline, r.pipeline) /\ Wanted(f.stage, r.stage)
                /\ Wanted(f.status, r.status) /\ Wanted(f.company, r.company)
                /\ \/ Wanted(f.person, r.person)
                   \/ \E s \in db.stakeholders : s.deal = r.id /\ s.person = f.person
                /\ f.stale => IsStale(r, db.workspace.dealDays)
                /\ Tagging(db, f, "deal", r.id)
                /\ Listed(db, f, "deal", r.id)
                /\ Offering(db, f, "deal", r.id)}
      lists == ListsShown(db, "deal", Keys(rows))
      offerings == OfferingsShown(db, "deal", Keys(rows))
  IN {[row |-> d, company |-> CompanyName(db, d.company), person |-> PersonName(db, d.person),
       lists |-> At(lists, d.id), offerings |-> At(offerings, d.id)] : d \in rows}

OfferingList(db, archived) == {r \in db.offering : archived \/ ~r.archived}

\* Only `open` asks for tasks: what is overdue may be of any kind, and done.
ActivityList(db, f) ==
  {r \in db.activity :
     /\ f.kinds = {} \/ r.kind \in f.kinds
     /\ Wanted(f.company, r.company) /\ Wanted(f.person, r.person)
     /\ Wanted(f.engagement, r.engagement) /\ Wanted(f.deal, r.deal)
     /\ Wanted(f.assignee, r.assignee)
     /\ f.open => (r.kind = "task" /\ ~r.done)
     /\ f.overdue => r.due = "past"
     /\ f.within # None => DueWithin(f.within, r.due)}

\* tags.list counts every tagging, whatever it is of.
TagUsage(db) ==
  {[tag |-> t, usage |-> Cardinality({g \in db.taggings : g.tag = t.id})] : t \in db.tags}

\* The lookups of an import: the oldest record with these data, archived or not.
CompanyExact(db, name) == Oldest({r \in db.company : r.name = name})

\* `company` is Unasked when the row names no company column at all.
PersonExact(db, name, company) ==
  Oldest({r \in db.person :
            /\ r.name = name
            /\ \/ company = Unasked
               \/ company = None /\ ~\E l \in db.links : l.person = r.id
               \/ \E l \in db.links : l.person = r.id /\ l.company = company})

EngagementExact(db, name, company, person) ==
  Oldest({r \in db.engagement : r.name = name /\ r.company = company /\ r.person = person})

CountByStage(db, pipeline) ==
  LET rows == {r \in db.engagement : r.pipeline = pipeline /\ ~r.archived}
  IN {[stage |-> s, count |-> Cardinality({r \in rows : r.stage = s})] : s \in {r.stage : r \in rows}}

\* COALESCE(d.amount_minor, 0), COALESCE(d.probability, s.probability, 0)
Amount(d) == IF d.amount = None THEN 0 ELSE d.amount
Chance(db, d) ==
  LET default == Row(db.stages, d.stage).probability
  IN CASE d.probability # None -> d.probability
       [] d.probability = None /\ default # None -> default
       [] OTHER -> 0

\* Per stage and currency; a currency whose total is zero is left out, and the
\* weighted total is rounded once, after summing.
StageStats(db, pipeline) ==
  LET rows == {d \in db.deal : d.pipeline = pipeline /\ ~d.archived /\ Has(db.stages, d.stage)}
      total(of, value(_)) == MapThenSumSet(value, of)
      sums(at, value(_), scale) ==
        {<<c, (total({d \in at : d.currency = c}, value) + scale \div 2) \div scale>> :
           c \in {k \in {d.currency : d \in at} : total({d \in at : d.currency = k}, value) > 0}}
      weighted(d) == Amount(d) * Chance(db, d)
  IN {LET at == {d \in rows : d.stage = s}
      IN [stage |-> s, count |-> Cardinality(at),
          sums |-> sums(at, Amount, 1), weighted |-> sums(at, weighted, 100)] :
        s \in {d.stage : d \in rows}}

\* What keeps a stage or a pipeline from being deleted: archived records count.
StageUsage(db, stage) ==
  Cardinality({e \in db.engagement : e.stage = stage}) + Cardinality({d \in db.deal : d.stage = stage})
PipelineUsage(db, pipeline) ==
  Cardinality({e \in db.engagement : e.pipeline = pipeline})
    + Cardinality({d \in db.deal : d.pipeline = pipeline})

\* The search finds archived records too, and says so; of activities, notes only.
SearchHits(table, type, text) ==
  {[type |-> type, id |-> r.id, archived |-> r.archived] : r \in {k \in table : Matches(text, k.name)}}

GlobalSearch(db, text) ==
  UNION {SearchHits(db[type], type, text) : type \in Tagged}
    \cup {[type |-> "activity", id |-> r.id, archived |-> FALSE] :
            r \in {k \in db.activity : /\ k.kind \in {"note", "call", "email", "meeting"}
                                       /\ Matches(text, k.name)}}

RecordCounts(db) ==
  [type \in Tagged |-> Cardinality({r \in db[type] : ~r.archived})]
    @@ [open |-> Cardinality({d \in db.deal : ~d.archived /\ d.status = "open"})]

(***************************************************************************)
(* The operations of packages/core over these ports.                       *)
(***************************************************************************)
Ops == INSTANCE CrmOperations
=============================================================================
