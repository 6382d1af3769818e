---------------------------- MODULE StoreParity ----------------------------
(***************************************************************************)
(* One caller, two stores: the same operations run on SQLite               *)
(* (packages/db/src/repositories.ts) and on PostgreSQL                     *)
(* (packages/db/src/pg/repositories.ts), whose ports are written by hand   *)
(* twice against the interfaces of packages/core/src/ports.ts.  SQLite     *)
(* keeps taggings, list members, offering links and field values in one    *)
(* table each, PostgreSQL in one per record type; `Typed` maps the first   *)
(* onto the second.  Calls run one after the other: RecordGraph,           *)
(* DealPipeline and DataTransfer interleave them.  Three calls are known   *)
(* to part the stores, after which nothing is compared.                    *)
(***************************************************************************)
EXTENDS CrmTables

CONSTANTS
  Me,        \* the caller, a user
  Admin,     \* another, who reviews its agents' requests
  Seed,      \* the records of the workspace, as SQLite rows
  Areas,     \* which part of the operations a caller uses: model bound
  MaxCalls,  \* how many operations it calls: model bound
  Names,     \* the names it gives
  Owners,    \* the owners and assignees it names; may hold one who is no user
  Filters    \* what it asks the lists for

ASSUME CallersAssumption == {Me, Admin} \subseteq Keys(Seed.users)
ASSUME BoundsAssumption == MaxCalls \in Nat

S == INSTANCE SqliteStore
P == INSTANCE PgStore

VARIABLES
  sqlite,  \* the SQLite database
  pg,      \* the PostgreSQL database
  area,    \* the part of the operations this caller uses
  calls,   \* how many it has called
  said,    \* what the last one answered: <<SQLite, PostgreSQL>>
  parted   \* in which of the known ways it parted the stores, or "no"

vars == <<sqlite, pg, area, calls, said, parted>>

\* A signed-in caller: an active user, with the role of its membership.
Caller(user) == [user |-> user, role |-> Row(sqlite.users, user).role]
me == Caller(Me)
Active == {u \in sqlite.users : u.status = "active"}
Callers == {Caller(user) : user \in {Me, Admin} \cap Keys(Active)}
Admins == {Caller(u.id) : u \in {k \in Active : k.role \in {"admin", "owner"}}}

(***************************************************************************)
(* The rows of PostgreSQL for those of SQLite: the pairs (entity_type,     *)
(* entity_id) of records that exist, by type.                              *)
(***************************************************************************)
OfType(db, table, types) ==
  [type \in types |->
     {[c \in DOMAIN r \ {"type"} |-> r[c]] :
        r \in {k \in db[table] : k.type = type /\ Has(db[type], k.entity)}}]

\* The id of a deleted user or client that SQLite keeps is NULL on PostgreSQL.
Known(db, row) ==
  [c \in DOMAIN row |->
     IF \/ c \in {"user", "reviewer"} /\ ~Has(db.users, row[c])
        \/ c = "client" /\ ~Has(db.clients, row[c])
     THEN None ELSE row[c]]

KnownRows(db, rows) == {Known(db, r) : r \in rows}

Typed(db) ==
  [company |-> db.company, person |-> db.person, engagement |-> db.engagement, deal |-> db.deal,
   offering |-> db.offering, activity |-> db.activity, links |-> db.links,
   stakeholders |-> db.stakeholders, tags |-> db.tags, lists |-> db.lists,
   fields |-> db.fields, views |-> db.views,
   actions |-> KnownRows(db, db.actions), audit |-> KnownRows(db, db.audit), clients |-> db.clients,
   users |-> db.users, codes |-> db.codes, sessions |-> db.sessions, workspace |-> db.workspace,
   pipelines |-> db.pipelines, stages |-> db.stages,
   tagOf |-> OfType(db, "taggings", Tagged), memberOf |-> OfType(db, "members", Tagged),
   offerOf |-> OfType(db, "offers", Offered), valueOf |-> OfType(db, "values", Fielded)]

Init ==
  /\ sqlite = Seed
  /\ pg = Typed(Seed)
  /\ area \in Areas
  /\ calls = 0
  /\ said = <<"ok", "ok">>
  /\ parted = "no"

CallParting(how, s, p) ==
  /\ calls < MaxCalls /\ parted = "no"
  /\ calls' = calls + 1
  /\ sqlite' = s.db
  /\ pg' = p.db
  /\ said' = <<s.out, p.out>>
  /\ parted' = how
  /\ UNCHANGED area

Call(s, p) == CallParting("no", s, p)

\* The ids a caller names: those of a table, and one of no row.
Missing == 0
Ids(table) == {r.id : r \in sqlite[table]} \cup {Missing}
MaybeIds(table) == Ids(table) \cup {None}
NewId == 100 + calls

\* The version it read last, or an older one, or none.
Versions(type, id) ==
  {None, 0} \cup (IF Has(sqlite[type], id) THEN {Row(sqlite[type], id).version} ELSE {})

About(type, id) == [t \in Tagged |-> IF t = type THEN id ELSE None]

(***************************************************************************)
(* Companies and people.                                                   *)
(***************************************************************************)
CompanyCreate == \E name \in Names, owner \in Owners :
  Call(S!Ops!CompanyCreate(sqlite, me, NewId, name, owner),
       P!Ops!CompanyCreate(pg, me, NewId, name, owner))

CompanyUpdate == \E id \in Ids("company"), owner \in Owners : \E v \in Versions("company", id) :
  Call(S!Ops!CompanyUpdate(sqlite, id, [owner |-> owner], v),
       P!Ops!CompanyUpdate(pg, id, [owner |-> owner], v))

CompanyArchive == \E id \in Ids("company"), archived \in BOOLEAN :
  Call(S!Ops!CompanyArchive(sqlite, id, archived), P!Ops!CompanyArchive(pg, id, archived))

CompanyDelete == \E id \in Ids("company") :
  Call(S!Ops!CompanyDelete(sqlite, id), P!Ops!CompanyDelete(pg, id))

CompanyLinkPerson ==
  \E c \in Ids("company"), p \in Ids("person"), role \in {None, "founder"}, primary \in BOOLEAN :
    Call(S!Ops!CompanyLinkPerson(sqlite, c, p, role, primary),
         P!Ops!CompanyLinkPerson(pg, c, p, role, primary))

CompanyUnlinkPerson == \E c \in Ids("company"), p \in Ids("person") :
  Call(S!Ops!CompanyUnlinkPerson(sqlite, c, p), P!Ops!CompanyUnlinkPerson(pg, c, p))

PersonCreate == \E name \in Names, owner \in Owners, c \in MaybeIds("company") :
  Call(S!Ops!PersonCreate(sqlite, me, NewId, name, owner, c, "buyer"),
       P!Ops!PersonCreate(pg, me, NewId, name, owner, c, "buyer"))

PersonUpdate == \E id \in Ids("person"), name \in Names : \E v \in Versions("person", id) :
  Call(S!Ops!PersonUpdate(sqlite, id, [name |-> name], v),
       P!Ops!PersonUpdate(pg, id, [name |-> name], v))

PersonArchive == \E id \in Ids("person"), archived \in BOOLEAN :
  Call(S!Ops!PersonArchive(sqlite, id, archived), P!Ops!PersonArchive(pg, id, archived))

PersonDelete == \E id \in Ids("person") :
  Call(S!Ops!PersonDelete(sqlite, id), P!Ops!PersonDelete(pg, id))

(***************************************************************************)
(* Leads, deals and their stakeholders.                                    *)
(***************************************************************************)
\* The default pipeline, or a closing stage of one of the type.
Anywhere == [pipeline |-> None, stage |-> None]
Places(type) ==
  {Anywhere} \cup
    {[pipeline |-> s.pipeline, stage |-> s.id] :
       s \in {k \in sqlite.stages : k.outcome # None /\ Row(sqlite.pipelines, k.pipeline).type = type}}

EngagementCreate ==
  \E c \in MaybeIds("company"), p \in {None, Missing}, at \in Places("engagement"),
     o \in MaybeIds("offering") :
    Call(S!Ops!EngagementCreate(sqlite, me, NewId, "expo", c, p, at, o),
         P!Ops!EngagementCreate(pg, me, NewId, "expo", c, p, at, o))

\* Another company, person, deal or owner of a lead.
EngagementPatches ==
  {[company |-> c] : c \in MaybeIds("company")} \cup {[person |-> p] : p \in MaybeIds("person")}
    \cup {[deal |-> d] : d \in MaybeIds("deal")} \cup {[owner |-> u] : u \in Owners}

EngagementUpdate == \E id \in Ids("engagement"), patch \in EngagementPatches :
  \E v \in Versions("engagement", id) :
    Call(S!Ops!EngagementUpdate(sqlite, id, patch, v), P!Ops!EngagementUpdate(pg, id, patch, v))

EngagementArchive == \E id \in Ids("engagement"), archived \in BOOLEAN :
  Call(S!Ops!EngagementArchive(sqlite, id, archived), P!Ops!EngagementArchive(pg, id, archived))

EngagementDelete == \E id \in Ids("engagement") :
  Call(S!Ops!EngagementDelete(sqlite, id), P!Ops!EngagementDelete(pg, id))

Monies == {[amount |-> None, currency |-> None, probability |-> None],
           [amount |-> 101, currency |-> "USD", probability |-> 50]}

DealCreate ==
  \E c \in {None, Missing}, p \in MaybeIds("person"), e \in MaybeIds("engagement"),
     at \in Places("deal"), money \in Monies, o \in MaybeIds("offering") :
    Call(S!Ops!DealCreate(sqlite, me, NewId, "expo", c, p, e, at, money, o),
         P!Ops!DealCreate(pg, me, NewId, "expo", c, p, e, at, money, o))

DealPatches ==
  {[company |-> c] : c \in MaybeIds("company")} \cup {[person |-> p] : p \in MaybeIds("person")}
    \cup {[engagement |-> e] : e \in MaybeIds("engagement")} \cup {[owner |-> u] : u \in Owners}
    \cup {[amount |-> a, currency |-> "USD"] : a \in {None, 50}}

DealUpdate == \E id \in Ids("deal"), patch \in DealPatches : \E v \in Versions("deal", id) :
  Call(S!Ops!DealUpdate(sqlite, id, patch, v), P!Ops!DealUpdate(pg, id, patch, v))

DealArchive == \E id \in Ids("deal"), archived \in BOOLEAN :
  Call(S!Ops!DealArchive(sqlite, id, archived), P!Ops!DealArchive(pg, id, archived))

DealDelete == \E id \in Ids("deal") :
  Call(S!Ops!DealDelete(sqlite, id), P!Ops!DealDelete(pg, id))

DealAddStakeholder ==
  \E d \in Ids("deal"), p \in Ids("person"), role \in {None, "champion"}, primary \in BOOLEAN :
    Call(S!Ops!DealAddStakeholder(sqlite, d, p, role, primary),
         P!Ops!DealAddStakeholder(pg, d, p, role, primary))

DealUpdateStakeholder ==
  \E d \in Ids("deal"), p \in Ids("person"),
     patch \in {[role |-> "blocker"], [primary |-> TRUE], [primary |-> FALSE]} :
    Call(S!Ops!DealUpdateStakeholder(sqlite, d, p, patch),
         P!Ops!DealUpdateStakeholder(pg, d, p, patch))

DealRemoveStakeholder == \E d \in Ids("deal"), p \in Ids("person") :
  Call(S!Ops!DealRemoveStakeholder(sqlite, d, p), P!Ops!DealRemoveStakeholder(pg, d, p))

(***************************************************************************)
(* Offerings and activities.                                               *)
(***************************************************************************)
OfferingCreate == \E name \in Names, owner \in Owners :
  Call(S!Ops!OfferingCreate(sqlite, me, NewId, name, owner),
       P!Ops!OfferingCreate(pg, me, NewId, name, owner))

OfferingUpdate == \E id \in Ids("offering"), name \in Names : \E v \in Versions("offering", id) :
  Call(S!Ops!OfferingUpdate(sqlite, id, [name |-> name], v),
       P!Ops!OfferingUpdate(pg, id, [name |-> name], v))

OfferingArchive == \E id \in Ids("offering"), archived \in BOOLEAN :
  Call(S!Ops!OfferingArchive(sqlite, id, archived), P!Ops!OfferingArchive(pg, id, archived))

OfferingDelete == \E id \in Ids("offering") :
  Call(S!Ops!OfferingDelete(sqlite, id), P!Ops!OfferingDelete(pg, id))

OfferingLink == \E o \in Ids("offering"), type \in Offered, fit \in {None, 3}, primary \in BOOLEAN :
  \E id \in Ids(type) :
    Call(S!Ops!OfferingLink(sqlite, o, type, id, fit, primary),
         P!Ops!OfferingLink(pg, o, type, id, fit, primary))

OfferingUnlink == \E o \in Ids("offering"), type \in Offered : \E id \in Ids(type) :
  Call(S!Ops!OfferingUnlink(sqlite, o, type, id), P!Ops!OfferingUnlink(pg, o, type, id))

ActivityLog ==
  \E kind \in {"note", "task"}, type \in Tagged, due \in {None, "past", "today"}, assignee \in Owners :
    \E id \in Ids(type) :
      Call(S!Ops!ActivityLog(sqlite, me, NewId, kind, "expo", About(type, id), due, assignee),
           P!Ops!ActivityLog(pg, me, NewId, kind, "expo", About(type, id), due, assignee))

TaskCreate == \E type \in Tagged, due \in {None, "soon"}, assignee \in Owners : \E id \in Ids(type) :
  Call(S!Ops!TaskCreate(sqlite, me, NewId, "call", About(type, id), due, assignee),
       P!Ops!TaskCreate(pg, me, NewId, "call", About(type, id), due, assignee))

ActivityUpdate == \E id \in Ids("activity"),
                     patch \in {[due |-> "far"]} \cup {[assignee |-> u] : u \in Owners} :
  Call(S!Ops!ActivityUpdate(sqlite, id, patch), P!Ops!ActivityUpdate(pg, id, patch))

ActivityDelete == \E id \in Ids("activity") :
  Call(S!Ops!ActivityDelete(sqlite, id), P!Ops!ActivityDelete(pg, id))

TaskDone == \E id \in Ids("activity"), done \in BOOLEAN :
  Call(S!Ops!TaskDone(sqlite, id, done), P!Ops!TaskDone(pg, id, done))

(***************************************************************************)
(* Tags and contact lists.                                                 *)
(***************************************************************************)
Labels == {"vip", "VIP", "key"}

TagCreate == \E name \in Labels :
  Call(S!Ops!TagCreate(sqlite, NewId, name), P!Ops!TagCreate(pg, NewId, name))

TagUpdate == \E id \in Ids("tags"), name \in Labels :
  Call(S!Ops!TagUpdate(sqlite, id, [name |-> name]), P!Ops!TagUpdate(pg, id, [name |-> name]))

TagDelete == \E id \in Ids("tags") :
  Call(S!Ops!TagDelete(sqlite, id), P!Ops!TagDelete(pg, id))

TagApply == \E tag \in Ids("tags"), type \in Tagged : \E id \in Ids(type) :
  Call(S!Ops!TagApply(sqlite, tag, type, id), P!Ops!TagApply(pg, tag, type, id))

TagRemove == \E tag \in Ids("tags"), type \in Tagged : \E id \in Ids(type) :
  Call(S!Ops!TagRemove(sqlite, tag, type, id), P!Ops!TagRemove(pg, tag, type, id))

ListCreate == \E name \in Labels, type \in {None, "person"} :
  Call(S!Ops!ListCreate(sqlite, NewId, name, type), P!Ops!ListCreate(pg, NewId, name, type))

ListUpdate ==
  \E id \in Ids("lists"),
     patch \in {[name |-> n] : n \in Labels} \cup {[type |-> t] : t \in {None, "person", "deal"}} :
    Call(S!Ops!ListUpdate(sqlite, id, patch), P!Ops!ListUpdate(pg, id, patch))

ListDelete == \E id \in Ids("lists") :
  Call(S!Ops!ListDelete(sqlite, id), P!Ops!ListDelete(pg, id))

\* One record, or all of a type.
Some(type) == {{id} : id \in Ids(type)} \cup {Ids(type) \ {Missing}}

ListAddMembers == \E list \in Ids("lists"), type \in Tagged : \E entities \in Some(type) :
  Call(S!Ops!ListAddMembers(sqlite, list, type, entities),
       P!Ops!ListAddMembers(pg, list, type, entities))

ListRemoveMembers == \E list \in Ids("lists"), type \in Tagged : \E entities \in Some(type) :
  Call(S!Ops!ListRemoveMembers(sqlite, list, type, entities),
       P!Ops!ListRemoveMembers(pg, list, type, entities))

(***************************************************************************)
(* Custom fields and saved views.                                          *)
(***************************************************************************)
FieldKeys == {"size", "tier"}

CustomFieldCreate == \E type \in {"company", "deal"}, key \in FieldKeys, kind \in DOMAIN Values :
  Call(S!Ops!CustomFieldCreate(sqlite, NewId, type, key, kind),
       P!Ops!CustomFieldCreate(pg, NewId, type, key, kind))

CustomFieldUpdate == \E id \in Ids("fields"), required \in BOOLEAN :
  Call(S!Ops!CustomFieldUpdate(sqlite, id, [required |-> required]),
       P!Ops!CustomFieldUpdate(pg, id, [required |-> required]))

CustomFieldArchive == \E id \in Ids("fields"), archived \in BOOLEAN :
  Call(S!Ops!CustomFieldArchive(sqlite, id, archived), P!Ops!CustomFieldArchive(pg, id, archived))

\* One value, or two at once.
GivenValues ==
  LET values == {None, Misfit} \cup UNION {Values[k] : k \in DOMAIN Values}
  IN {[k \in {key} |-> v] : key \in FieldKeys, v \in values}
       \cup {[k \in FieldKeys |-> v] : v \in values}

CustomFieldSetValues == \E type \in Fielded, values \in GivenValues : \E id \in Ids(type) :
  Call(S!Ops!CustomFieldSetValues(sqlite, type, id, values),
       P!Ops!CustomFieldSetValues(pg, type, id, values))

\* Filters of a view: some of the entity's list, some of no such list, a misfit.
ViewFilters == {[stale |-> TRUE], [company |-> 1, status |-> "open"], [archived |-> Misfit]}

SavedViewCreate ==
  \E visibility \in {"private", "shared"}, entity \in {"person", "deal"}, f \in ViewFilters :
    Call(S!Ops!SavedViewCreate(sqlite, me, NewId, "mine", visibility, entity, f),
         P!Ops!SavedViewCreate(pg, me, NewId, "mine", visibility, entity, f))

ViewPatches ==
  {[visibility |-> v] : v \in {"private", "shared"}} \cup {[filters |-> f] : f \in ViewFilters}

SavedViewUpdate == \E id \in Ids("views"), patch \in ViewPatches :
  Call(S!Ops!SavedViewUpdate(sqlite, me, id, patch), P!Ops!SavedViewUpdate(pg, me, id, patch))

SavedViewDelete == \E id \in Ids("views") :
  Call(S!Ops!SavedViewDelete(sqlite, me, id), P!Ops!SavedViewDelete(pg, me, id))

(***************************************************************************)
(* Agents: their clients, what they ask for and who decides it.            *)
(***************************************************************************)
\* The stamp of a client that is not revoked.
Agents == {[user |-> c.owner, client |-> c.id] : c \in {k \in sqlite.clients : ~k.revoked}}

ActionAsk == \E by \in Agents, target \in Ids("company") :
  Call(S!Ops!ActionAsk(sqlite, NewId, target, by), P!Ops!ActionAsk(pg, NewId, target, by))

ActionApprove == \E who \in Callers \cap Admins, id \in Ids("actions") :
  Call(S!Ops!ActionApprove(sqlite, who, id), P!Ops!ActionApprove(pg, who, id))

ActionReject == \E who \in Callers \cap Admins, id \in Ids("actions") :
  Call(S!Ops!ActionReject(sqlite, who, id), P!Ops!ActionReject(pg, who, id))

ActionCancel == \E who \in Callers, id \in Ids("actions") :
  Call(S!Ops!ActionCancel(sqlite, who, id), P!Ops!ActionCancel(pg, who, id))

Trusts == {"review_risky_actions", "trusted_agent"}

ClientCreate == \E who \in Callers, scopes \in {{"read"}, {"admin"}}, trust \in Trusts :
  Call(S!Ops!ClientCreate(sqlite, who, NewId, scopes, trust),
       P!Ops!ClientCreate(pg, who, NewId, scopes, trust))

ClientUpdate == \E who \in Callers, id \in Ids("clients"),
                   patch \in {[scopes |-> {"write"}], [scopes |-> {"admin"}], [trust |-> "trusted_agent"]} :
  Call(S!Ops!ClientUpdate(sqlite, who, id, patch), P!Ops!ClientUpdate(pg, who, id, patch))

ClientRevoke == \E who \in Callers, id \in Ids("clients") :
  Call(S!Ops!ClientRevoke(sqlite, who, id), P!Ops!ClientRevoke(pg, who, id))

UserDisable == \E id \in Ids("users") :
  Call(S!Ops!UserUpdate(sqlite, id, [disabled |-> TRUE]), P!Ops!UserUpdate(pg, id, [disabled |-> TRUE]))

(***************************************************************************)
(* Pipelines, their stages, and what enters them.                          *)
(***************************************************************************)
NewStages ==
  {<<[outcome |-> "lost", probability |-> 5]>>,
   <<[outcome |-> None, probability |-> 10], [outcome |-> "won", probability |-> None]>>}

PipelineCreate == \E type \in PipelineTypes, default \in BOOLEAN, stages \in NewStages :
  Call(S!Ops!PipelineCreate(sqlite, NewId, type, "new", default, stages),
       P!Ops!PipelineCreate(pg, NewId, type, "new", default, stages))

PipelineRename == \E id \in Ids("pipelines") :
  Call(S!Ops!PipelineRename(sqlite, id, "renamed"), P!Ops!PipelineRename(pg, id, "renamed"))

PipelineSetDefault == \E id \in Ids("pipelines") :
  Call(S!Ops!PipelineSetDefault(sqlite, id), P!Ops!PipelineSetDefault(pg, id))

PipelineDelete == \E id \in Ids("pipelines") :
  Call(S!Ops!PipelineDelete(sqlite, id), P!Ops!PipelineDelete(pg, id))

StageAdd == \E id \in Ids("pipelines"), outcome \in {None, "lost"} :
  Call(S!Ops!StageAdd(sqlite, NewId, id, outcome, 30), P!Ops!StageAdd(pg, NewId, id, outcome, 30))

StageUpdate == \E id \in Ids("stages"), patch \in {[outcome |-> "lost"], [probability |-> 70]} :
  Call(S!Ops!StageUpdate(sqlite, id, patch), P!Ops!StageUpdate(pg, id, patch))

\* Too few ids, as many as a pipeline has, and one of them twice.
Orders ==
  LET ids == Ids("stages")
  IN {<<a>> : a \in ids} \cup {<<a, b>> : a \in ids, b \in ids} \cup {<<a, b, a>> : a \in ids, b \in ids}

StageReorder == \E id \in Ids("pipelines"), order \in Orders :
  Call(S!Ops!StageReorder(sqlite, id, order), P!Ops!StageReorder(pg, id, order))

StageDelete == \E id \in Ids("stages") :
  Call(S!Ops!StageDelete(sqlite, id), P!Ops!StageDelete(pg, id))

\* Any pipeline and any stage, of it or not.  Of two stages at the same position,
\* which foreign ids in a new order make, either may be the first.
AnyPlace == [pipeline : MaybeIds("pipelines"), stage : MaybeIds("stages")]
Untied(type, at) == Cardinality(S!Ops!StagesToEnter(sqlite, type, at)) <= 1

EngagementEnter == \E at \in {p \in AnyPlace : Untied("engagement", p)} :
  Call(S!Ops!EngagementCreate(sqlite, me, NewId, "fair", None, None, at, None),
       P!Ops!EngagementCreate(pg, me, NewId, "fair", None, None, at, None))

DealEnter == \E at \in {p \in AnyPlace : Untied("deal", p)} :
  LET money == [amount |-> 70, currency |-> None, probability |-> None]
  IN Call(S!Ops!DealCreate(sqlite, me, NewId, "fair", None, None, None, at, money, None),
          P!Ops!DealCreate(pg, me, NewId, "fair", None, None, None, at, money, None))

(***************************************************************************)
(* The workspace and its users, by its admins and its owner.               *)
(***************************************************************************)
Settings == {[currency |-> "USD"], [engagementDays |-> 90], [dealDays |-> 14, name |-> "new"]}

WorkspaceUpdate == \E patch \in Settings :
  Call(S!Ops!WorkspaceUpdate(sqlite, patch), P!Ops!WorkspaceUpdate(pg, patch))

Emails == {"eve"} \cup {u.email : u \in {k \in sqlite.users : k.status = "pending"}}

UserCreate == \E email \in Emails, role \in {"viewer", "owner"} :
  Call(S!Ops!UserCreate(sqlite, NewId, email, "eve", role), P!Ops!UserCreate(pg, NewId, email, "eve", role))

UserRegenerateSetupCode == \E id \in Ids("users") :
  Call(S!Ops!UserRegenerateSetupCode(sqlite, NewId, id), P!Ops!UserRegenerateSetupCode(pg, NewId, id))

\* A user who never signed in, disabled and enabled again.
Unbound(id) == \E u \in sqlite.users : u.id = id /\ u.status = "disabled" /\ ~u.linked

UserPatches == {[role |-> r] : r \in {"viewer", "owner"}} \cup {[disabled |-> b] : b \in BOOLEAN}

UserUpdate == \E id \in Ids("users"), patch \in UserPatches :
  CallParting(IF Unbound(id) /\ patch = [disabled |-> FALSE] THEN "status" ELSE "no",
              S!Ops!UserUpdate(sqlite, id, patch), P!Ops!UserUpdate(pg, id, patch))

\* SQLite issues a disabled user a code.
UserResetPassword == \E who \in Admins, id \in Ids("users") :
  LET disabled == \E u \in sqlite.users : u.id = id /\ u.status = "disabled"
  IN CallParting(IF disabled THEN "reset" ELSE "no",
                 S!Ops!UserResetPassword(sqlite, who, NewId, id),
                 P!Ops!UserResetPassword(pg, who, NewId, id))

\* The audit row of an admin who deletes itself names a user that is gone.
UserDelete == \E who \in Admins, id \in Ids("users") :
  LET itself == who.user = id /\ who.role # "owner" /\ Cardinality(Admins) > 1
  IN CallParting(IF itself THEN "self" ELSE "no",
                 S!Ops!UserDelete(sqlite, who, id), P!Ops!UserDelete(pg, who, id))

UserTransferOwnership == \E who \in Admins, id \in Ids("users") :
  Call(S!Ops!UserTransferOwnership(sqlite, who, id), P!Ops!UserTransferOwnership(pg, who, id))

(***************************************************************************)
(* A caller uses the operations of one area, and deletes records in any.   *)
(***************************************************************************)
Deletes == CompanyDelete \/ PersonDelete \/ EngagementDelete \/ DealDelete \/ OfferingDelete

PeopleNext ==
  \/ CompanyCreate \/ CompanyUpdate \/ CompanyArchive \/ CompanyLinkPerson \/ CompanyUnlinkPerson
  \/ PersonCreate \/ PersonUpdate \/ PersonArchive

LeadsNext ==
  \/ EngagementCreate \/ EngagementUpdate \/ EngagementArchive
  \/ OfferingCreate \/ OfferingUpdate \/ OfferingArchive \/ OfferingLink \/ OfferingUnlink

DealsNext ==
  \/ DealCreate \/ DealUpdate \/ DealArchive
  \/ DealAddStakeholder \/ DealUpdateStakeholder \/ DealRemoveStakeholder

NotesNext == ActivityLog \/ TaskCreate \/ ActivityUpdate \/ ActivityDelete \/ TaskDone

MarksNext ==
  \/ TagCreate \/ TagUpdate \/ TagDelete \/ TagApply \/ TagRemove
  \/ ListCreate \/ ListUpdate \/ ListDelete \/ ListAddMembers \/ ListRemoveMembers

FieldsNext ==
  \/ CustomFieldCreate \/ CustomFieldUpdate \/ CustomFieldArchive \/ CustomFieldSetValues
  \/ SavedViewCreate \/ SavedViewUpdate \/ SavedViewDelete

AgentsNext ==
  \/ ActionAsk \/ ActionApprove \/ ActionReject \/ ActionCancel
  \/ ClientCreate \/ ClientUpdate \/ ClientRevoke \/ UserDisable

StagesNext ==
  \/ PipelineCreate \/ PipelineRename \/ PipelineSetDefault \/ PipelineDelete
  \/ StageAdd \/ StageUpdate \/ StageReorder \/ StageDelete
  \/ EngagementEnter \/ DealEnter

TeamNext ==
  \/ WorkspaceUpdate \/ UserCreate \/ UserRegenerateSetupCode \/ UserUpdate
  \/ UserResetPassword \/ UserDelete \/ UserTransferOwnership

Next ==
  \/ Deletes
  \/ area = "people" /\ PeopleNext
  \/ area = "leads" /\ LeadsNext
  \/ area = "deals" /\ DealsNext
  \/ area = "notes" /\ NotesNext
  \/ area = "marks" /\ MarksNext
  \/ area = "fields" /\ FieldsNext
  \/ area = "agents" /\ AgentsNext
  \/ area = "stages" /\ StagesNext
  \/ area = "team" /\ TeamNext

Spec == Init /\ [][Next]_vars

(***************************************************************************)
(* Properties.                                                             *)
(***************************************************************************)
\* The records both stores hold, and the lists of one type.
IdsIn(table) == Keys(pg[table])

SameLists == \A f \in Filters :
  /\ S!CompanyList(sqlite, f) = P!CompanyList(pg, f)
  /\ S!PersonList(sqlite, f) = P!PersonList(pg, f)
  /\ S!EngagementList(sqlite, f) = P!EngagementList(pg, f)
  /\ S!DealList(sqlite, f) = P!DealList(pg, f)
  /\ S!ActivityList(sqlite, f) = P!ActivityList(pg, f)
  /\ S!GlobalSearch(sqlite, f.text) = P!GlobalSearch(pg, f.text)

SameRecords ==
  /\ \A id \in IdsIn("company") : S!Ops!CompanyContext(sqlite, id) = P!Ops!CompanyContext(pg, id)
  /\ \A id \in IdsIn("person") : S!Ops!PersonContext(sqlite, id) = P!Ops!PersonContext(pg, id)
  /\ \A id \in IdsIn("engagement") :
       S!Ops!EngagementContext(sqlite, id) = P!Ops!EngagementContext(pg, id)
  /\ \A id \in IdsIn("deal") : S!Ops!DealContext(sqlite, id) = P!Ops!DealContext(pg, id)
  /\ \A id \in IdsIn("offering") : S!Ops!OfferingGet(sqlite, id) = P!Ops!OfferingGet(pg, id)
  /\ \A id \in IdsIn("lists") : S!Ops!ListMembers(sqlite, id) = P!Ops!ListMembers(pg, id)

\* The lists of users say the same but for two fields: SQLite takes a bound auth
\* subject for a password (repositories.ts:299), PostgreSQL does not
\* (pg/repositories.ts:539), and only PostgreSQL tells passwordMustChange.
SameUsers ==
  LET bound == {u.id : u \in {k \in pg.users : k.linked /\ ~k.hash}}
      onSqlite(u) == [c \in DOMAIN u \ {"passwordMustChange"} |->
                        IF c = "hasPassword" THEN u[c] \/ u.id \in bound ELSE u[c]]
  IN /\ S!UserList(sqlite) = {onSqlite(u) : u \in P!UserList(pg)}
     /\ \A u \in P!UserList(pg) : ~u.passwordMustChange /\ (u.hasPassword => u.id \notin bound)

SameCatalogs ==
  /\ S!ListCounts(sqlite) = P!ListCounts(pg)
  /\ \A archived \in BOOLEAN :
       /\ S!OfferingList(sqlite, archived) = P!OfferingList(pg, archived)
       /\ \A type \in Fielded \cup {None} : S!DefsOf(sqlite, type, archived) = P!DefsOf(pg, type, archived)
       /\ \A type \in Fielded : \A id \in IdsIn(type) :
            S!ValuesOf(sqlite, type, id, archived) = P!ValuesOf(pg, type, id, archived)
  /\ \A user \in IdsIn("users") \cup {None} : S!ViewsFor(sqlite, user) = P!ViewsFor(pg, user)
  /\ \A id \in IdsIn("views") : S!Ops!SavedViewRun(sqlite, id) = P!Ops!SavedViewRun(pg, id)
  /\ SameUsers
  /\ \A type \in PipelineTypes \cup {None} : S!PipelineList(sqlite, type) = P!PipelineList(pg, type)
  /\ \A type \in PipelineTypes : S!GetDefault(sqlite, type) = P!GetDefault(pg, type)

\* What the approvals page, the agents page and the audit log ask for.
AuditFilters ==
  [actor : {None, "agent", "human"}, entity : {None} \cup IdsIn("clients"),
   operations : {{}, {"mcpClient.update", "mcpClient.revoke"}}]

SameAgents ==
  /\ \A status \in {None, "pending", "cancelled"} :
       KnownRows(sqlite, S!ActionList(sqlite, status)) = P!ActionList(pg, status)
  /\ \A f \in AuditFilters : KnownRows(sqlite, S!AuditList(sqlite, f)) = P!AuditList(pg, f)
  /\ \A who \in Callers : S!Ops!ClientsShown(sqlite, who) = P!Ops!ClientsShown(pg, who)

SameLookups ==
  \A name \in Names :
    /\ S!CompanyExact(sqlite, name) = P!CompanyExact(pg, name)
    /\ \A c \in IdsIn("company") \cup {None, Unasked} :
         S!PersonExact(sqlite, name, c) = P!PersonExact(pg, name, c)
    /\ \A c \in IdsIn("company") \cup {None}, p \in IdsIn("person") \cup {None} :
         S!EngagementExact(sqlite, name, c, p) = P!EngagementExact(pg, name, c, p)

Currencies == {d.currency : d \in sqlite.deal}
Pipelines == Keys(sqlite.pipelines)

SameBoards ==
  /\ \A pipeline \in Pipelines :
       /\ S!Ops!StatsEngagements(sqlite, pipeline) = P!Ops!StatsEngagements(pg, pipeline)
       /\ S!Ops!StatsDeals(sqlite, pipeline) = P!Ops!StatsDeals(pg, pipeline)
       /\ S!PipelineUsage(sqlite, pipeline) = P!PipelineUsage(pg, pipeline)
  /\ \A stage \in Keys(sqlite.stages) : S!StageUsage(sqlite, stage) = P!StageUsage(pg, stage)
  /\ [S!Ops!StatsHome(sqlite) EXCEPT !.agentEvents = KnownRows(sqlite, @)] = P!Ops!StatsHome(pg)

\* tag.apply looks the tag up and not the record (meta-ops.ts:102-105): SQLite
\* keeps a tagging of a record that is not there.
Strayed == \E g \in sqlite.taggings : ~Has(sqlite[g.type], g.entity)

SameUsage == Strayed \/ S!TagUsage(sqlite) = P!TagUsage(pg)

\* The two stores hold the same workspace: whatever is called, PostgreSQL's typed
\* tables are SQLite's polymorphic ones of the records that exist.  Nothing but
\* the two hand-written sets of statements makes them so: a deletion that forgets
\* one of the typed tables, or a link written to the wrong one, parts them.  The
\* known exceptions: a user invited, disabled and enabled again is pending on SQLite
\* and active on PostgreSQL (pg/repositories.ts:789-800), whose foreign key refuses
\* the audit row of an admin who deletes itself, and which issues no reset code to
\* a disabled user (pg/identity.ts:428).
SameRows ==
  LET restored(u) == IF u.status = "pending" /\ ~Has({k \in pg.users : k.status = "pending"}, u.id)
                     THEN [u EXCEPT !.status = "active"] ELSE u
  IN CASE parted = "no" -> pg = Typed(sqlite)
       [] parted = "status" -> /\ pg = [Typed(sqlite) EXCEPT !.users = {restored(u) : u \in @}]
                               /\ Cardinality({u \in sqlite.users : restored(u) # u}) = 1
       [] OTHER -> said = <<"ok", "not_found">>

\* A caller cannot tell the stores apart: every write is accepted or refused with
\* the same code, found missing by a lookup on SQLite and by a foreign key on
\* PostgreSQL (`run`, pg/repositories.ts:551-566), and every list, record, count
\* and total reads the same.  The exceptions: tag.apply on a missing record, the
\* password fields of user.list (SameUsers), and what comes after the stores are
\* known to have parted.
SameAnswers == parted # "no" \/
  /\ said[1] = said[2] \/ Strayed
  /\ SameLists /\ SameRecords /\ SameCatalogs /\ SameAgents /\ SameLookups /\ SameBoards /\ SameUsage

\* The boards add up: a pipeline's stages count the rows of its list, no more and
\* no fewer, and their totals per currency are those rows' amounts (stageStats and
\* countByStage are statements of their own, repositories.ts:1274-1286, 1493-1515).
\* On the home page an open task due within the week is in exactly one of its
\* three lists ("Filter "today" out of upcoming to avoid duplication",
\* data-ops.ts:274), and the open deals' value is theirs on the boards.
BoardsAddUp ==
  LET lists(f) == {d.row : d \in S!DealList(sqlite, f)}
      worth(deals, c) == MapThenSumSet(S!Amount, {d \in deals : d.currency = c})
      counted(rows) == MapThenSumSet(LAMBDA x : x.count, rows)
      home == S!Ops!StatsHome(sqlite)
      total(x, c) == MapThenSumSet(LAMBDA t : t[2], {t \in x.sums : t[1] = c})
  IN /\ \A pipeline \in Pipelines :
          LET its == [AnyFilter EXCEPT !.pipeline = pipeline]
              stats == S!Ops!StatsDeals(sqlite, pipeline)
          IN /\ counted(S!Ops!StatsEngagements(sqlite, pipeline)) = Cardinality(S!EngagementList(sqlite, its))
             /\ counted(stats) = Cardinality(lists(its))
             /\ \A c \in Currencies : MapThenSumSet(LAMBDA x : total(x, c), stats) = worth(lists(its), c)
     /\ \A t \in sqlite.activity :
          Cardinality({l \in {"overdue", "today", "upcoming"} : t \in home[l]})
            = IF t.kind = "task" /\ ~t.done /\ t.due \in {"past", "today", "soon"} THEN 1 ELSE 0
     /\ home.counts.open = Cardinality({d \in lists(AnyFilter) : d.status = "open"})
     /\ \A c \in DOMAIN home.value :
          home.value[c] = worth({d \in lists(AnyFilter) : d.status = "open"}, c)

\* A relation reads the same from both of its ends: a person's deals are those
\* that name it or show it as a stakeholder, a company's people are the people
\* who show that company, an offering's links are those its records show, and a
\* list holds the records that show it, of its own type when it has one; the
\* lookups for a whole page (forEntities) find what those for one record do.
SidesAgree ==
  LET all == [AnyFilter EXCEPT !.archived = TRUE]
      shows(id, rows) == \E x \in rows : x.id = id
  IN /\ \A d \in S!DealList(sqlite, all), p \in sqlite.person :
          d \in S!DealList(sqlite, [all EXCEPT !.person = p.id])
            <=> d.row.person = p.id \/ \E x \in S!Stakeholders(sqlite, d.row.id) : x.person = p
     /\ \A c \in sqlite.company, p \in S!PersonList(sqlite, all) :
          p \in S!PersonList(sqlite, [all EXCEPT !.company = c.id])
            <=> \E x \in S!PersonCompanies(sqlite, p.row.id) : x.company = c
     /\ \A o \in sqlite.offering, type \in Offered : \A r \in sqlite[type] :
          shows(o.id, S!OfferingsOf(sqlite, type, r.id))
            <=> \E x \in S!LinksForOffering(sqlite, o.id) : x.type = type /\ x.entity = r.id
     /\ \A l \in sqlite.lists, type \in Tagged :
          LET held == {r \in sqlite[type] : l \in S!ListsOf(sqlite, type, r.id)}
          IN /\ Cardinality(held) = S!Ops!ListGet(sqlite, l.id).counts[type]
             /\ l.type \notin {None, type} => held = {}
     /\ \A type \in Tagged :
          LET ids == Keys(sqlite[type])
          IN \A id \in ids :
               /\ At(S!ListsShown(sqlite, type, ids), id) = S!ListsOf(sqlite, type, id)
               /\ At(S!TagsShown(sqlite, type, ids), id) = S!TagsOf(sqlite, type, id)
=============================================================================
