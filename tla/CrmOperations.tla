--------------------------- MODULE CrmOperations ---------------------------
(***************************************************************************)
(* What the record operations of packages/core/src/operations do over a    *)
(* store: the checks a handler makes and the port methods it then calls,   *)
(* all in one transaction.  The constants are the methods of the ports;    *)
(* SqliteStore and PgStore each instantiate this module with their own.    *)
(* An operation takes the database `db` and answers as a method does; one  *)
(* that creates a row takes its id, one that stamps the caller takes `me`, *)
(* a user and its role.  Roles, scopes and approvals are checked before    *)
(* (AgentAccess, PendingActions); of the audit rows, those of the approval *)
(* gate, of the agents' clients and of deleted users are kept.             *)
(***************************************************************************)
EXTENDS CrmTables

CONSTANTS
  UpdateWorkspace(_, _), UserList(_), UpdateUser(_, _, _), DeleteSessions(_, _),
  CreatePending(_, _, _, _, _), DeletePermanently(_, _), TransferOwnership(_, _, _),
  IssueCode(_, _, _, _),
  PipelineList(_, _), GetDefault(_, _), CreatePipeline(_, _, _, _, _, _), RenamePipeline(_, _, _),
  SetDefault(_, _), DeletePipeline(_, _), AddStage(_, _, _, _, _), UpdateStage(_, _, _),
  ReorderStages(_, _, _), DeleteStage(_, _), StageUsage(_, _), PipelineUsage(_, _),
  CreateCompany(_, _, _, _), UpdateCompany(_, _, _), DeleteCompany(_, _),
  CreatePerson(_, _, _, _), UpdatePerson(_, _, _), DeletePerson(_, _),
  LinkPerson(_, _, _, _, _), UnlinkPerson(_, _, _),
  CreateEngagement(_, _, _, _, _, _, _), UpdateEngagement(_, _, _), DeleteEngagement(_, _),
  CreateDeal(_, _, _, _, _, _, _, _, _), UpdateDeal(_, _, _), DeleteDeal(_, _),
  AddStakeholder(_, _, _, _, _), UpdateStakeholder(_, _, _, _), RemoveStakeholder(_, _, _),
  CreateOffering(_, _, _, _), UpdateOffering(_, _, _), DeleteOffering(_, _),
  LinkOffering(_, _, _, _, _, _), UnlinkOffering(_, _, _, _),
  CreateActivity(_, _, _, _, _, _, _), UpdateActivity(_, _, _), DeleteActivity(_, _),
  TouchLinked(_, _),
  CreateTag(_, _, _), UpdateTag(_, _, _), DeleteTag(_, _), ApplyTag(_, _, _, _), RemoveTag(_, _, _, _),
  CreateList(_, _, _, _), UpdateList(_, _, _), DeleteList(_, _),
  AddMembers(_, _, _, _), RemoveMembers(_, _, _, _), MemberTypeCounts(_, _), ListCounts(_),
  CreateDef(_, _, _, _, _), UpdateDef(_, _, _), SetDefArchived(_, _, _), SetValue(_, _, _, _, _),
  CreateView(_, _, _, _, _, _, _), UpdateView(_, _, _), DeleteView(_, _),
  CreateAction(_, _, _, _), SetStatus(_, _, _, _), TransitionIfPending(_, _, _, _),
  ActionList(_, _), CountPending(_), RecordAudit(_, _, _, _), AuditList(_, _),
  CreateClient(_, _, _, _, _), UpdateClient(_, _, _), RevokeClient(_, _),
  RevokeAllForUser(_, _), ClientList(_),
  CompanyPeople(_, _), PersonCompanies(_, _), Stakeholders(_, _), OfferingsOf(_, _, _),
  LinksForOffering(_, _), TagsOf(_, _, _), ListsOf(_, _, _), ValuesOf(_, _, _, _),
  CompanyList(_, _), PersonList(_, _), EngagementList(_, _), DealList(_, _), ActivityList(_, _),
  RecordCounts(_), StageStats(_, _), CountByStage(_, _)

\* found(...): a record that is not there.
Existing(db, type, id, outcome) ==
  IF Has(db[type], id) THEN outcome ELSE Refused(db, "not_found")

\* A reference an input may leave out.
Referred(db, type, id, outcome) ==
  IF id = None THEN outcome ELSE Existing(db, type, id, outcome)

\* checkVersion: the version the caller read, when it names one.
CheckVersion(db, type, id, expected, outcome) ==
  IF expected \in {None, Row(db[type], id).version} THEN outcome
  ELSE Refused(db, "version_conflict")

\* The next call of a handler, unless the last one failed and the transaction
\* is rolled back to `db`.
Then(db, r, next(_)) == IF Failed(r) THEN Refused(db, r.out) ELSE next(r.db)

Default(owner, me) == IF owner = None THEN me.user ELSE owner

(***************************************************************************)
(* The workspace and its users.  A code's id is the caller's `id`.         *)
(***************************************************************************)
\* What is given of the settings is merged into them.
WorkspaceUpdate(db, patch) == UpdateWorkspace(db, patch)

\* Invites a user: a pending one with a setup code.
UserCreate(db, id, email, name, role) ==
  LET coded(d) == IssueCode(d, id, id, "setup")
  IN IF role = "owner" THEN Refused(db, "validation")
     ELSE IF \E u \in db.users : u.email = email THEN Refused(db, "conflict")
     ELSE Then(db, Then(db, CreatePending(db, id, email, name, role), coded), Done)

UserRegenerateSetupCode(db, id, user) ==
  Existing(db, "users", user,
    IF Row(db.users, user).status # "pending" THEN Refused(db, "invalid_state")
    ELSE IssueCode(db, id, user, "setup"))

\* Disabling ends the user's sessions and revokes its agents; enabling restores
\* nothing.  The owner is neither demoted nor disabled.
UserUpdate(db, id, patch) ==
  LET disabled == "disabled" \in DOMAIN patch /\ patch.disabled
      promoted == "role" \in DOMAIN patch /\ patch.role = "owner"
      revoked(d) == Done(RevokeAllForUser(d, id).db)
      ended(d) == IF disabled THEN Then(d, DeleteSessions(d, id), revoked) ELSE Done(d)
  IN Existing(db, "users", id,
       IF promoted \/ (Row(db.users, id).role = "owner" /\ (disabled \/ "role" \in DOMAIN patch))
       THEN Refused(db, "validation")
       ELSE Then(db, UpdateUser(db, id, patch), ended))

UserResetPassword(db, me, id, user) ==
  LET row == Row(db.users, user)
  IN Existing(db, "users", user,
       IF row.role = "owner" /\ me.role # "owner" THEN Refused(db, "forbidden")
       ELSE IF row.status = "pending" THEN Refused(db, "invalid_state")
       ELSE IssueCode(db, id, user, "reset"))

\* The audit row is written last, and names the caller.
UserDelete(db, me, id) ==
  LET others == {u \in UserList(db) : u.id # id /\ u.status = "active" /\ u.role \in {"admin", "owner"}}
      deleted(d) == DeletePermanently(d, id)
      audited(d) == RecordAudit(d, "user.delete", id, Human(me))
  IN Existing(db, "users", id,
       IF Row(db.users, id).role = "owner" THEN Refused(db, "validation")
       ELSE IF me.user = id /\ others = {} THEN Refused(db, "invalid_state")
       ELSE Then(db, Then(db, DeleteSessions(db, id), deleted), audited))

UserTransferOwnership(db, me, to) ==
  LET owners == {u \in UserList(db) : u.role = "owner"}
      current == CHOOSE u \in owners : TRUE
  IN IF me.role # "owner" THEN Refused(db, "forbidden")
     ELSE IF owners = {} THEN Refused(db, "invalid_state")
     ELSE IF me.user # current.id THEN Refused(db, "forbidden")
     ELSE Existing(db, "users", to,
            IF to = current.id \/ Row(db.users, to).status # "active" THEN Refused(db, "validation")
            ELSE TransferOwnership(db, current.id, to))

(***************************************************************************)
(* Pipelines and stages.  One that a record sits in is not deleted.        *)
(***************************************************************************)
PipelineCreate(db, id, type, name, default, stages) ==
  CreatePipeline(db, id, type, name, default, stages)

PipelineRename(db, id, name) == Existing(db, "pipelines", id, RenamePipeline(db, id, name))

PipelineSetDefault(db, id) == Existing(db, "pipelines", id, SetDefault(db, id))

PipelineDelete(db, id) ==
  Existing(db, "pipelines", id,
    IF PipelineUsage(db, id) > 0 THEN Refused(db, "in_use") ELSE DeletePipeline(db, id))

StageAdd(db, id, pipeline, outcome, probability) ==
  Existing(db, "pipelines", pipeline, AddStage(db, id, pipeline, outcome, probability))

StageUpdate(db, id, patch) == Existing(db, "stages", id, UpdateStage(db, id, patch))

\* As many different ids as the pipeline has stages; which ones is not asked.
StageReorder(db, pipeline, ids) ==
  Existing(db, "pipelines", pipeline,
    IF Cardinality({ids[i] : i \in DOMAIN ids})
         # Cardinality({s \in db.stages : s.pipeline = pipeline})
    THEN Refused(db, "validation")
    ELSE ReorderStages(db, pipeline, ids))

StageDelete(db, id) ==
  Existing(db, "stages", id,
    IF StageUsage(db, id) > 0 THEN Refused(db, "in_use") ELSE DeleteStage(db, id))

\* resolvePipelineStage: the pipeline given or the default one of the type, the
\* stage given or the pipeline's first.
StagesToEnter(db, type, place) ==
  LET pipeline == IF place.pipeline = None THEN GetDefault(db, type) ELSE place.pipeline
      its == UNION {x.stages : x \in {k \in PipelineList(db, type) : k.row.id = pipeline}}
  IN IF place.stage # None THEN {s \in its : s.id = place.stage}
     ELSE {s \in its : \A k \in its : s.position <= k.position}

Placed(db, type, place, next(_)) ==
  LET entered == StagesToEnter(db, type, place)
      stage == CHOOSE s \in entered : TRUE
  IN IF entered = {} THEN Refused(db, "validation") ELSE next(stage)

(***************************************************************************)
(* Companies and people.                                                   *)
(***************************************************************************)
CompanyCreate(db, me, id, name, owner) == CreateCompany(db, id, name, Default(owner, me))

CompanyUpdate(db, id, patch, expected) ==
  Existing(db, "company", id, CheckVersion(db, "company", id, expected,
    UpdateCompany(db, id, patch)))

CompanyArchive(db, id, archived) ==
  Existing(db, "company", id, UpdateCompany(db, id, [archived |-> archived]))

CompanyDelete(db, id) == Existing(db, "company", id, DeleteCompany(db, id))

CompanyLinkPerson(db, company, person, role, primary) ==
  Existing(db, "company", company, Existing(db, "person", person,
    LinkPerson(db, company, person, role, primary)))

CompanyUnlinkPerson(db, company, person) == UnlinkPerson(db, company, person)

\* A person created at a company has that one as its primary company.
PersonCreate(db, me, id, name, owner, company, role) ==
  LET linked(d) == IF company = None THEN Done(d) ELSE LinkPerson(d, company, id, role, TRUE)
  IN Referred(db, "company", company,
       Then(db, CreatePerson(db, id, name, Default(owner, me)), linked))

PersonUpdate(db, id, patch, expected) ==
  Existing(db, "person", id, CheckVersion(db, "person", id, expected,
    UpdatePerson(db, id, patch)))

PersonArchive(db, id, archived) ==
  Existing(db, "person", id, UpdatePerson(db, id, [archived |-> archived]))

PersonDelete(db, id) == Existing(db, "person", id, DeletePerson(db, id))

(***************************************************************************)
(* Leads and deals.  Their stages move in DealPipeline.                    *)
(***************************************************************************)
EngagementCreate(db, me, id, name, company, person, place, offering) ==
  LET offered(d) == IF offering = None THEN Done(d)
                    ELSE LinkOffering(d, offering, "engagement", id, None, TRUE)
      created(stage) ==
        Then(db, CreateEngagement(db, id, name, me.user, company, person,
                                  [pipeline |-> stage.pipeline, stage |-> stage.id]), offered)
  IN Referred(db, "company", company, Referred(db, "person", person,
       Referred(db, "offering", offering, Placed(db, "engagement", place, created))))

EngagementUpdate(db, id, patch, expected) ==
  LET to(type) == IF type \in DOMAIN patch THEN patch[type] ELSE None
  IN Existing(db, "engagement", id, CheckVersion(db, "engagement", id, expected,
       Referred(db, "company", to("company"), Referred(db, "person", to("person"),
         Referred(db, "deal", to("deal"), UpdateEngagement(db, id, patch))))))

EngagementArchive(db, id, archived) ==
  Existing(db, "engagement", id, UpdateEngagement(db, id, [archived |-> archived]))

EngagementDelete(db, id) == Existing(db, "engagement", id, DeleteEngagement(db, id))

\* A deal takes the workspace's currency and its stage's probability when it is
\* given none.  One made from a lead takes the lead's offerings along; an offering
\* of its own is the primary one only when there were none.
DealCreate(db, me, id, name, company, person, engagement, place, money, offering) ==
  LET priced(stage) ==
        [money EXCEPT !.currency = IF @ = None THEN db.workspace.currency ELSE @,
                      !.probability = IF @ = None THEN stage.probability ELSE @]
      carried == IF engagement = None THEN {} ELSE OfferingsOf(db, "engagement", engagement)
      carry(d) == FoldSet(LAMBDA l, e : LinkOffering(e, l.id, "deal", id, l.fit, l.primary).db, d, carried)
      offered(d) == IF offering = None \/ \E l \in carried : l.id = offering THEN Done(carry(d))
                    ELSE LinkOffering(carry(d), offering, "deal", id, None, carried = {})
      back(d) == IF engagement = None THEN offered(d)
                 ELSE Then(db, UpdateEngagement(d, engagement, [deal |-> id]), offered)
      created(stage) ==
        Then(db, CreateDeal(db, id, name, me.user, company, person, engagement,
                            [pipeline |-> stage.pipeline, stage |-> stage.id], priced(stage)), back)
  IN Referred(db, "company", company, Referred(db, "person", person,
       Referred(db, "engagement", engagement, Referred(db, "offering", offering,
         Placed(db, "deal", place, created)))))

DealUpdate(db, id, patch, expected) ==
  Existing(db, "deal", id, CheckVersion(db, "deal", id, expected, UpdateDeal(db, id, patch)))

DealArchive(db, id, archived) ==
  Existing(db, "deal", id, UpdateDeal(db, id, [archived |-> archived]))

DealDelete(db, id) == Existing(db, "deal", id, DeleteDeal(db, id))

DealAddStakeholder(db, deal, person, role, primary) ==
  Existing(db, "deal", deal, Existing(db, "person", person,
    AddStakeholder(db, deal, person, role, primary)))

DealUpdateStakeholder(db, deal, person, patch) == UpdateStakeholder(db, deal, person, patch)

DealRemoveStakeholder(db, deal, person) ==
  IF \E s \in db.stakeholders : s.deal = deal /\ s.person = person
  THEN RemoveStakeholder(db, deal, person)
  ELSE Refused(db, "not_found")

(***************************************************************************)
(* Offerings and activities.                                               *)
(***************************************************************************)
OfferingCreate(db, me, id, name, owner) == CreateOffering(db, id, name, Default(owner, me))

OfferingUpdate(db, id, patch, expected) ==
  Existing(db, "offering", id, CheckVersion(db, "offering", id, expected,
    UpdateOffering(db, id, patch)))

OfferingArchive(db, id, archived) ==
  Existing(db, "offering", id, UpdateOffering(db, id, [archived |-> archived]))

OfferingDelete(db, id) == Existing(db, "offering", id, DeleteOffering(db, id))

OfferingLink(db, offering, type, entity, fit, primary) ==
  Existing(db, "offering", offering, Existing(db, type, entity,
    LinkOffering(db, offering, type, entity, fit, primary)))

OfferingUnlink(db, offering, type, entity) == UnlinkOffering(db, offering, type, entity)

\* validateLinks: every record an activity is about exists.
ValidLinks(db, links, outcome) ==
  IF \A type \in Tagged : links[type] = None \/ Has(db[type], links[type])
  THEN outcome ELSE Refused(db, "not_found")

\* Only a task keeps its due date and assignee; the linked lead and deal get the
\* activity's date.
ActivityLog(db, me, id, kind, name, links, due, assignee) ==
  LET isTask == kind = "task"
      touched(d) == TouchLinked(d, links)
  IN ValidLinks(db, links,
       Then(db, CreateActivity(db, id, kind, name, links, IF isTask THEN due ELSE None,
                               IF isTask THEN Default(assignee, me) ELSE None), touched))

TaskCreate(db, me, id, name, links, due, assignee) ==
  LET touched(d) == TouchLinked(d, links)
  IN ValidLinks(db, links,
       Then(db, CreateActivity(db, id, "task", name, links, due, Default(assignee, me)), touched))

ActivityUpdate(db, id, patch) ==
  Existing(db, "activity", id,
    IF Row(db.activity, id).kind \in {"status_change", "agent_action"}
    THEN Refused(db, "validation")
    ELSE UpdateActivity(db, id, patch))

ActivityDelete(db, id) == Existing(db, "activity", id, DeleteActivity(db, id))

\* task.complete and task.reopen
TaskDone(db, id, done) ==
  Existing(db, "activity", id,
    IF Row(db.activity, id).kind # "task" THEN Refused(db, "validation")
    ELSE UpdateActivity(db, id, [done |-> done]))

(***************************************************************************)
(* Tags and contact lists.                                                 *)
(***************************************************************************)
\* The existing tag is the answer when the name is taken, whatever its case.
TagCreate(db, id, name) ==
  IF NamedLike(db.tags, name) # {} THEN Done(db) ELSE CreateTag(db, id, name)

TagUpdate(db, id, patch) == Existing(db, "tags", id, UpdateTag(db, id, patch))

TagDelete(db, id) == Existing(db, "tags", id, DeleteTag(db, id))

\* Only the tag is looked up.
TagApply(db, tag, type, entity) == Existing(db, "tags", tag, ApplyTag(db, tag, type, entity))

TagRemove(db, tag, type, entity) == RemoveTag(db, tag, type, entity)

\* An existing list is the answer, unless both are typed and the types differ.
ListCreate(db, id, name, type) ==
  LET existing == NamedLike(db.lists, name)
  IN IF existing = {} THEN CreateList(db, id, name, type)
     ELSE IF \E l \in existing : l.type # None /\ type # None /\ l.type # type
          THEN Refused(db, "validation") ELSE Done(db)

\* A list takes a type only when all its members are of that type.
ListUpdate(db, id, patch) ==
  LET conflicting == /\ "type" \in DOMAIN patch /\ patch.type # None
                     /\ \E type \in DOMAIN MemberTypeCounts(db, id) :
                          MemberTypeCounts(db, id)[type] > 0 /\ type # patch.type
  IN Existing(db, "lists", id,
       IF conflicting THEN Refused(db, "validation") ELSE UpdateList(db, id, patch))

ListDelete(db, id) == Existing(db, "lists", id, DeleteList(db, id))

\* Mutant: a typed list takes any record.
AcceptsAny(list, type) == TRUE

\* listAccepts
Accepts(list, type) == list.type \in {None, type}

\* All the ids must exist.
ListAddMembers(db, list, type, entities) ==
  Existing(db, "lists", list,
    IF ~Accepts(Row(db.lists, list), type) \/ \E e \in entities : ~Has(db[type], e)
    THEN Refused(db, "validation")
    ELSE AddMembers(db, list, type, entities))

ListRemoveMembers(db, list, type, entities) ==
  Existing(db, "lists", list, RemoveMembers(db, list, type, entities))

(***************************************************************************)
(* Custom fields and saved views.                                          *)
(***************************************************************************)
Def(db, type, key) == {d \in db.fields : d.type = type /\ d.key = key}

\* An archived field keeps its key.
CustomFieldCreate(db, id, type, key, kind) ==
  IF Def(db, type, key) # {} THEN Refused(db, "conflict") ELSE CreateDef(db, id, type, key, kind)

CustomFieldUpdate(db, id, patch) == Existing(db, "fields", id, UpdateDef(db, id, patch))

CustomFieldArchive(db, id, archived) ==
  Existing(db, "fields", id, SetDefArchived(db, id, archived))

\* Values by key: one unknown key or misfit refuses them all; archived fields can
\* still be set.
CustomFieldSetValues(db, type, entity, values) ==
  LET def(key) == CHOOSE d \in Def(db, type, key) : TRUE
      settable(key) == Def(db, type, key) # {} /\ Fits(def(key).kind, values[key])
      set(key, d) == SetValue(d, def(key).id, type, entity, values[key]).db
  IN Existing(db, type, entity,
       IF \E key \in DOMAIN values : ~settable(key) THEN Refused(db, "validation")
       ELSE Done(FoldSet(set, db, DOMAIN values)))

\* canManageSavedView: own views, shared ones for members, all for admins; system
\* views for nobody.
MayManage(me, view) ==
  /\ view.visibility # "system" /\ me.role # "viewer"
  /\ view.visibility = "shared" \/ view.owner = me.user \/ me.role \in {"admin", "owner"}

\* parseFilters: what the list of that entity takes, defaults for the rest; a
\* value of the wrong type is refused.
Parses(entity, filters) == \A f \in DOMAIN filters \cap FilterOf[entity] : filters[f] # Misfit
Parsed(entity, filters) ==
  [f \in DOMAIN AnyFilter |->
     IF f \in FilterOf[entity] \cap DOMAIN filters THEN filters[f] ELSE AnyFilter[f]]

\* What is stored is what was parsed.
SavedViewCreate(db, me, id, name, visibility, entity, filters) ==
  IF Parses(entity, filters)
  THEN CreateView(db, id, name, me.user, visibility, entity, Parsed(entity, filters))
  ELSE Refused(db, "validation")

\* New filters are stored as given.
SavedViewUpdate(db, me, id, patch) ==
  LET view == Row(db.views, id)
  IN Existing(db, "views", id,
       IF view.visibility = "system" THEN Refused(db, "validation")
       ELSE IF ~MayManage(me, view) THEN Refused(db, "forbidden")
       ELSE UpdateView(db, id, patch))

SavedViewDelete(db, me, id) ==
  LET view == Row(db.views, id)
  IN Existing(db, "views", id,
       IF view.visibility = "system" THEN Refused(db, "validation")
       ELSE IF ~MayManage(me, view) THEN Refused(db, "forbidden")
       ELSE DeleteView(db, id))

\* The list the view is of; any view, whoever it is of.
ListOf(db, entity, f) ==
  CASE entity = "company" -> CompanyList(db, f)
    [] entity = "person" -> PersonList(db, f)
    [] entity = "engagement" -> EngagementList(db, f)
    [] entity = "deal" -> DealList(db, f)
    [] entity = "activity" -> ActivityList(db, f)

SavedViewRun(db, id) ==
  LET view == Row(db.views, id)
      ok == Has(db.views, id) /\ Parses(view.entity, view.filters)
  IN [out |-> IF ~Has(db.views, id) THEN "not_found" ELSE IF ok THEN "ok" ELSE "validation",
      rows |-> IF ok THEN ListOf(db, view.entity, Parsed(view.entity, view.filters)) ELSE {}]

(***************************************************************************)
(* The approval gate, for the deletion of a company, and agents' clients.  *)
(* `by` stamps the caller: an agent's client and its user.                 *)
(***************************************************************************)
\* runOperation's gate: the request and its audit row.
ActionAsk(db, id, target, by) ==
  LET audited(d) == RecordAudit(d, "pendingAction.create", id, by)
  IN Then(db, CreateAction(db, id, target, by), audited)

\* The stored operation runs in a nested transaction; its failure is committed
\* as the action's status and is the answer.
ActionApprove(db, me, id) ==
  LET ran == CompanyDelete(db, Row(db.actions, id).target)
      status == IF Failed(ran) THEN "failed" ELSE "approved"
      settled == SetStatus(ran.db, id, status, me.user).db
  IN Existing(db, "actions", id,
       IF Row(db.actions, id).status # "pending" THEN Refused(db, "validation")
       ELSE Answer(RecordAudit(settled, "pendingAction.approve", id, Human(me)).db, ran.out))

\* A decision that finds the action decided meanwhile answers it as it is.
Decided(db, me, id, status, operation) ==
  LET moved == TransitionIfPending(db, id, status, me.user)
  IN IF Row(db.actions, id).status # "pending" THEN Refused(db, "validation")
     ELSE IF moved.out THEN RecordAudit(moved.db, operation, id, Human(me)) ELSE Done(db)

ActionReject(db, me, id) ==
  Existing(db, "actions", id, Decided(db, me, id, "rejected", "pendingAction.reject"))

\* canCancelPendingAction: the requester or an admin.
MayCancel(me, action) == action.user = me.user \/ me.role \in {"admin", "owner"}

ActionCancel(db, me, id) ==
  Existing(db, "actions", id,
    IF Row(db.actions, id).status = "pending" /\ ~MayCancel(me, Row(db.actions, id))
    THEN Refused(db, "forbidden")
    ELSE Decided(db, me, id, "cancelled", "pendingAction.cancel"))

\* ROLE_GRANTABLE_SCOPES
Grantable(role) ==
  CASE role = "viewer" -> {"read"}
    [] role = "member" -> {"read", "write", "approvals"}
    [] OTHER -> {"read", "write", "admin", "approvals"}

\* assertCanManageClient
MayManageClient(me, client) == client.owner = me.user \/ me.role \in {"admin", "owner"}

ClientCreate(db, me, id, scopes, trust) ==
  LET audited(d) == RecordAudit(d, "mcpClient.create", id, Human(me))
  IN IF ~(scopes \subseteq Grantable(me.role)) THEN Refused(db, "forbidden")
     ELSE Then(db, CreateClient(db, id, scopes, trust, me.user), audited)

\* The scopes an agent may have are those of its user, whoever grants them.
ClientUpdate(db, me, id, patch) ==
  LET client == Row(db.clients, id)
      excessive == /\ "scopes" \in DOMAIN patch
                   /\ ~(patch.scopes \subseteq Grantable(Row(db.users, client.owner).role))
      orphaned == "scopes" \in DOMAIN patch /\ ~Has(db.users, client.owner)
      audited(d) == RecordAudit(d, "mcpClient.update", id, Human(me))
  IN Existing(db, "clients", id,
       IF ~MayManageClient(me, client) THEN Refused(db, "forbidden")
       ELSE IF orphaned THEN Refused(db, "validation")
       ELSE IF excessive THEN Refused(db, "forbidden")
       ELSE Then(db, UpdateClient(db, id, patch), audited))

ClientRevoke(db, me, id) ==
  LET audited(d) == RecordAudit(d, "mcpClient.revoke", id, Human(me))
  IN Existing(db, "clients", id,
       IF ~MayManageClient(me, Row(db.clients, id)) THEN Refused(db, "forbidden")
       ELSE Then(db, RevokeClient(db, id), audited))

ClientsShown(db, me) ==
  {c \in ClientList(db) : me.role \in {"admin", "owner"} \/ c.owner = me.user}

(***************************************************************************)
(* The totals of the home page and of the boards.                          *)
(***************************************************************************)
\* Mutant: closed deals count as well.
OpenValueOfAll(db) ==
  LET valued == {d \in {x.row : x \in DealList(db, AnyFilter)} : d.amount # None}
  IN [c \in {d.currency : d \in valued} |->
        MapThenSumSet(LAMBDA d : d.amount, {d \in valued : d.currency = c})]

\* An open deal without an amount adds no currency.
OpenValue(db) ==
  LET deals == {d.row : d \in DealList(db, [AnyFilter EXCEPT !.status = "open"])}
      valued == {d \in deals : d.amount # None}
  IN [c \in {d.currency : d \in valued} |->
        MapThenSumSet(LAMBDA d : d.amount, {d \in valued : d.currency = c})]

\* The week's tasks without today's, which have a list of their own.
StatsHome(db) ==
  LET tasks == [AnyFilter EXCEPT !.kinds = {"task"}, !.open = TRUE]
      within(days) == ActivityList(db, [tasks EXCEPT !.within = days])
      stale == [AnyFilter EXCEPT !.stale = TRUE]
  IN [counts |-> RecordCounts(db),
      overdue |-> ActivityList(db, [tasks EXCEPT !.overdue = TRUE]),
      today |-> {t \in within(0) : t.due = "today"},
      upcoming |-> {t \in within(7) : t.due # "today"},
      staleEngagements |-> EngagementList(db, stale),
      staleDeals |-> DealList(db, [stale EXCEPT !.status = "open"]),
      pending |-> CountPending(db),
      agentEvents |-> AuditList(db, [actor |-> "agent", operations |-> {}, entity |-> None]),
      value |-> OpenValue(db)]

\* Every stage of the pipeline, whether or not a deal sits in it.
StatsDeals(db, pipeline) ==
  LET stats == StageStats(db, pipeline)
      at(s) == {x \in stats : x.stage = s}
  IN {[stage |-> s, count |-> MapThenSumSet(LAMBDA x : x.count, at(s)),
       sums |-> UNION {x.sums : x \in at(s)}, weighted |-> UNION {x.weighted : x \in at(s)}] :
        s \in Keys({k \in db.stages : k.pipeline = pipeline})}

StatsEngagements(db, pipeline) ==
  LET at(s) == {x \in CountByStage(db, pipeline) : x.stage = s}
  IN {[stage |-> s, count |-> MapThenSumSet(LAMBDA x : x.count, at(s))] :
        s \in Keys({k \in db.stages : k.pipeline = pipeline})}

(***************************************************************************)
(* The reads that gather a record's neighbourhood: <type>.get and          *)
(* <type>.getContext.  None stands for not_found.                          *)
(***************************************************************************)
Common(db, type, id) ==
  [row |-> Row(db[type], id), tags |-> TagsOf(db, type, id),
   fields |-> ValuesOf(db, type, id, FALSE)]

\* The newest activities of a record and its open tasks.
Timeline(db, type, id) ==
  LET about == [AnyFilter EXCEPT ![type] = id]
  IN [recent |-> ActivityList(db, about),
      tasks |-> ActivityList(db, [about EXCEPT !.kinds = {"task"}, !.open = TRUE])]

CompanyGet(db, id) == Common(db, "company", id) @@ [people |-> CompanyPeople(db, id)]

CompanyContext(db, id) ==
  LET its == [AnyFilter EXCEPT !.company = id]
  IN CompanyGet(db, id) @@ Timeline(db, "company", id)
       @@ [lists |-> ListsOf(db, "company", id),
           engagements |-> EngagementList(db, its), deals |-> DealList(db, its)]

PersonGet(db, id) == Common(db, "person", id) @@ [companies |-> PersonCompanies(db, id)]

PersonContext(db, id) ==
  LET its == [AnyFilter EXCEPT !.person = id]
  IN PersonGet(db, id) @@ Timeline(db, "person", id)
       @@ [lists |-> ListsOf(db, "person", id),
           engagements |-> EngagementList(db, its), deals |-> DealList(db, its)]

EngagementGet(db, id) ==
  Common(db, "engagement", id)
    @@ [offerings |-> OfferingsOf(db, "engagement", id), lists |-> ListsOf(db, "engagement", id)]

EngagementContext(db, id) ==
  LET row == Row(db.engagement, id)
      named(type, to) == {r \in db[type] : r.id = to}
  IN EngagementGet(db, id) @@ Timeline(db, "engagement", id)
       @@ [company |-> named("company", row.company), person |-> named("person", row.person),
           deal |-> named("deal", row.deal)]

DealGet(db, id) ==
  Common(db, "deal", id)
    @@ [stakeholders |-> Stakeholders(db, id), offerings |-> OfferingsOf(db, "deal", id),
        lists |-> ListsOf(db, "deal", id)]

DealContext(db, id) ==
  LET row == Row(db.deal, id)
      named(type, to) == {r \in db[type] : r.id = to}
  IN DealGet(db, id) @@ Timeline(db, "deal", id)
       @@ [company |-> named("company", row.company), person |-> named("person", row.person)]

OfferingGet(db, id) ==
  [row |-> Row(db.offering, id), links |-> LinksForOffering(db, id),
   fields |-> ValuesOf(db, "offering", id, FALSE)]

ListGet(db, id) == CHOOSE l \in ListCounts(db) : l.list.id = id

\* list.members: of a typed list, its type only; archived records are left out.
ListMembers(db, id) ==
  LET its == [AnyFilter EXCEPT !.list = id]
      wanted == IF Row(db.lists, id).type = None THEN Tagged ELSE {Row(db.lists, id).type}
  IN [type \in wanted |-> ListOf(db, type, its)]
=============================================================================
