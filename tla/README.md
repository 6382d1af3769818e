# mcpsuite in TLA+

TLA+ models of mcpsuite, the runs that check them with TLC, and theorems about
them checked by TLAPS. Paths are relative to the repository; the lines of the code
behind the definitions are in `PROJECT.json` under `map` (a short definition whose
lines another one names is not repeated there), the hazards that
decide which properties are stated under `hazards`. File names without a directory
are those of `packages/core/src/operations` (`*-ops.ts`), `packages/db/src` and
`packages/hosting-control/src`.

## The system

mcpsuite is a multi-tenant CRM. Every operation (a company is created, a user
disabled, an approval given) is defined once in `packages/core` and runs the same
way from the web server functions, the MCP server and scripts: authorize, check the
input, maybe park the operation for approval, run its handler in a transaction,
write an audit event in that transaction. `packages/db` has two stores with one
interface, both written by hand: SQLite, where a promise chain (`sqlite-tx.ts`) gives
the one connection to one unit of work at a time, and PostgreSQL at READ COMMITTED,
where units of work interleave statement by statement, ordered only by row locks, two
advisory locks, unique indexes, foreign keys and the rechecks of UPDATEs. The hosted
product adds `packages/hosting-control`, a separate HTTP service with authority over
workspaces (provision, lock, transfer, recover, delete), an idempotency protocol for
its callers and an outbox for the codes it mails.

### Components

| component | state it keeps | operations | what is hard | what makes it correct |
|---|---|---|---|---|
| idempotency receipts (`server.ts` `runMutation`; `sqlite-hosting.ts`, `pg/hosting.ts`) | one row per Idempotency-Key: pending or completed, request hash, holder, age, response | begin (insert, select, take over), complete, abandon | retries beside the original, a process dying at any step, takeover of a claim that only looks dead | the mutation behind a key commits at most once; answers tell what committed; nobody hangs |
| workspace lifecycle (`lifecycle.ts`, `server.ts`) | workspace row, access mode and version, memberships, service audit | provision, set access, transfer owner, inspect, delete, audit | compare in one statement and write in another; audit written in a second transaction; deletion redacts earlier rows | one owner, compare-and-set on the version, consistent reads, no trace of a deleted id |
| CRM user administration (`admin-ops.ts`) | memberships, user status, auth subject, MCP clients | update, disable, enable, delete, hand over, reset; clients | read, decide, write by id; no lock shared with hosting control | the owner survives every mix of the two administrations; what a user held ends with the user |
| approval gate (`catalog.ts`, `approval-ops.ts`) | pending action: status, result, expiry | ask, approve, reject, cancel, poll, expire | reviewers, requester and time decide at once; refusals roll back and are audited after | declined means never run; approved means run once; decided stays decided |
| setup and reset codes, outbox (`pg/identity.ts`, `openauth.ts`, `auth-delivery.ts`) | codes, their window, attempts, outbox rows | issue, supersede, deliver, mark, sweep, redeem | the channel fails or its answer is lost; the sweep runs beside live requests; redemption waits on a lock | one live code, the issue limit, one redemption, capped guesses, a code marked sent works |
| transaction layer (`sqlite-tx.ts`, `pg/tx.ts`) | the promise chain, the async-local transaction, savepoints, the bound workspace | acquire, begin, nest, commit, roll back | holders that throw; savepoints in a transaction that goes on; a workspace named inside a savepoint that is rolled back | units of work are atomic and of one workspace; the queue is served |
| identity and sessions (`pg/identity.ts`, `sqlite-identity.ts`, `auth.ts`) | subjects, sessions, passwords | sign in, adopt, sign out, reset | a sign-in is five units of work; users are disabled, deleted and made again between them | one subject per user; a disabled user stays out |
| hosting access and password-change gates (`hosting-access.ts`, `gated-run.ts`) | none of their own | check | read before the operation's transaction | a locked workspace is not used |
| policy (`packages/core/src/policy.ts`), MCP server (`apps/mcp`) | none; a stdio process outlives changes of its key | authorize, clamp, tool calls, tasks | the caller is resolved once per call, and rows change until its write | an agent never exceeds its grant |
| record operations (`*-ops.ts`, both `repositories.ts`) | rows with optimistic versions, the rows that join them | create, update, move, close, archive, delete, link, tag, list, define fields, save views, count | version read and compared before the write; no foreign keys on SQLite; two implementations | no lost update; stages and deals fit; nothing dangles; the two stores agree |
| bulk, import, export (`bulk-ops.ts`, `data-ops.ts`) | as above | per-record loops, plan then write, pages by offset | nothing read is locked; some records fail; repeats | a repeated import makes nothing; rows land where they say; exports are complete |
| web server (`apps/web/src/server`) | cookies, rate-limit counters | sign-in pages, server functions | the flow between units of work | as identity and sessions |
| web user interface, schema, scripts | – | – | – | reached through the operations above |

They interact through the database only: hosting control and the CRM change the same
`memberships` and `users` rows; hosting control, the CRM's administrators and the
sweep issue codes for the same email; a lifecycle mutation runs inside the
transaction that completes its receipt; recovery inside a mutation issues the code
and its outbox row, and delivers after the commit; a call reads the gates, its key and
its user in units of work of their own before its operation.

## The modules

| module | models | extends |
|---|---|---|
| `IdempotentMutation` | abstract: a key's mutation takes effect at most once; a caller is told of the effect that is there | |
| `HostingReceipts` | the receipt protocol, both stores; implements it | |
| `WorkspaceControl` | one hosted workspace under hosting control and the CRM's user operations | |
| `Hosting_proofs` | the theorems of `HostingReceipts` and `WorkspaceControl` (whose names differ for this) | both, `TLAPS` |
| `PendingActions` | one pending action, its reviewers and requester | |
| `PendingActions_proofs` | its theorems | `PendingActions`, `TLAPS` |
| `CodeDelivery` | the codes of one user, their delivery and redemption | |
| `AtomicUnits` | abstract: a unit of work commits whole; a nested call that throws takes back its own writes only | |
| `TransactionScope` | the connection queue, transactions, savepoints and workspace binding of both stores; implements it | |
| `SignIn` | sign-ins, sessions, refresh tokens and adoption for one email beside its administration | |
| `Identity_proofs` | the theorems of `CodeDelivery` and `SignIn` (whose names differ for this) | both, `TLAPS` |
| `AgentAccess` | calls from web, MCP over HTTP and stdio: keys, gates, policy, tasks, user and key administration | |
| `AgentAccess_proofs` | its theorems | `AgentAccess`, `TLAPS` |
| `DealPipeline` | pipelines, stages, leads and deals, interleaved | |
| `DealPipeline_proofs` | its theorems | `DealPipeline`, `TLAPS` |
| `RecordGraph` | the rows that join records, interleaved | |
| `Transactions_proofs` | the theorems of `TransactionScope` and `RecordGraph` (whose names differ for this) | both, `TLAPS` |
| `DataTransfer` | import, preview and export, interleaved | |
| `DataTransfer_proofs` | its theorems but one | `DataTransfer`, `TLAPS` |
| `RepeatedImport_proofs` | its theorem `NothingTwiceHolds` | `DataTransfer_proofs` |
| `CrmTables` | the tables of the CRM and how statements read and write them | |
| `SqliteStore`, `PgStore` | the record ports of each store | `CrmTables` |
| `CrmOperations` | the record operations over any store's ports (its CONSTANTs) | `CrmTables` |
| `StoreParity` | composition: the same calls on both stores | `CrmTables` |
| `MC*` | the instances TLC checks | each its module |

**Granularity.** A step is one SQL statement as others can observe it, or a
statement merged with its neighbours when nothing another unit of work can see or
change lies between them (the last write with the commit, in the modules where an
uncommitted row matters only through the lock it holds). Reads and writes that the
code separates stay separate. `Serial` (receipts) or a variable, `store` or
`backend` (the other modules, so that one run checks both) selects the store: on SQLite a unit of work
begins only when no other is open, which is what `TransactionScope` shows of
`sqlite-tx.ts`; on PostgreSQL it begins at any time.
UPDATE ... WHERE id = ? writes whatever the row is by then; UPDATE ... WHERE
status = 'pending' rechecks.

### HostingReceipts

`receipts` is `idempotency_receipts`; `stage` says which statement of `runMutation`
the caller's request is at: `received`, `inserted` (the INSERT conflicted),
`taking` (a stale claim was read), `claimed` (`started: true`), `closing`
(completeReceipt has run, the transaction is open), `failed` (it threw),
`committed`. `InsertClaim` / `InsertConflict`, `ReadNothing` / `ReadReceipt` /
`ReadStale` and `Takeover` are the three statements of `beginReceipt`; `Execute`
and `Commit` the mutation's transaction; `Throw` and `Abandon` its failure;
`Crash` the end of the process serving one request; `Elapse` that
`PENDING_TAKEOVER_MS` has passed. `runs` is a history variable: committed
executions. The mutation itself is opaque here: its effect is that it committed.
`Prompt` is an assumption on timing, that no live request outlasts the takeover
window of one minute; the code relies on it without enforcing it. `Elapse` never falls
between the SELECT and the takeover UPDATE of one `beginReceipt`: that UPDATE names the
`created_at` it read, so a claim renewed and aged again in between would not match.

### WorkspaceControl

`alive`, `access`, `role`, `status`, `linked` are the rows; `lock` the workspace row's
lock; `audit` says in which columns the service audit row of a request holds the raw
workspace id (`workspace_id`, and always `path`); `setUp` is a history variable: who has
set up a login, by registering before the workspace was provisioned or by signing in.
`Init` has the owner that `provisionWorkspace` makes active without an auth subject, because
its email was registered before (`lifecycle.ts:87-107`), as well as owners who are
pending or signed in. Each job is one request of
`Op` and runs once. `LockWorkspace`, `CheckVersion` then `SetAccess`, or
`FindTarget`, `CompareOwner`, `Demote`, `Promote`; `ViewOwner`, `ViewVersion`;
`DeleteWorkspace`; `FinishAudit` for what is audited after the transaction. The
CRM's `Decide` reads the user and applies the handlers' refusals; `UpdateUser`,
`RemoveUser`, `HandOver` write. `Promote` and `HandOver` fail when
`memberships_one_owner_ux` would be violated. `Inv` is the types, one owner
(never two on either store, exactly one where units do not interleave), inspections
that are snapshots, no login enabled that was never set up (SQLite), and no success with
the `workspace_id` of a deleted workspace. Of the `path`, which keeps the id, nothing is claimed.

### PendingActions

`action` is the row; `ReadForApproval`, `ReadForDecision`, `ReadOwnTask` are the
operations up to their write, `Execute` is the stored operation with
`setStatus`, `Decide` the guarded `transitionIfPending`, `RecordRefusal` the
audit of a refusal after its rollback, `Fail` a failed statement or commit.
`Authorized` is `authorize` for these operations. The code's roll-back of the
"cancelled" mark when `approve` finds the action expired is kept: `ReadForApproval`
leaves the row unchanged. `Inv`: what was declined never ran, one decline is recorded,
and the status tells what ran (SQLite).

### CodeDelivery

`codes` holds the committed rows in commit order, `mail` what the channel took,
`outbox` the rows of recovery calls. An issuer is `begun` (its transaction is
open), `found` (it holds the email's advisory lock and the rows it will
supersede), `deliver`, `mark`. The sweep goes through the same steps with the row it
listed. A redemption `Look`s (SELECT ... FOR UPDATE, may wait) and `Settle`s
under the lock, where it re-evaluates which code it has. `Crash` and `Boot` are hosting
control's; clerks run in the CRM and survive them. `Inv`: one unused code of each
purpose, none redeemed twice, no window and no code beyond its limit.

### TransactionScope and AtomicUnits

A chain is one request's async call chain. `queue` is `txLock`; `Ask` and `Acquire` join
and reach its head, `Open` begins an outermost transaction (`BEGIN IMMEDIATE`, or a
PostgreSQL transaction that sets `app.workspace_id`), `Nest` a savepoint or a joined call,
`Statement` writes, `Raise` throws, and `Release`, `Commit`, `Rollback`,
`LeaveConnection` are the ways out. `levels` is what the connection's transaction and each
savepoint hold, `guc` the workspace its row policies use at each, `ambient` what the call
chain remembers. `AtomicUnits` knows `db` and `unit` only: what is committed and what the
open calls of a chain have written; `UnitsAreAtomic` is the refinement.

### SignIn

`user` is the email's user (ids count the users that have had it), `credential` and `noted` the
keys of `openauth_kv`, `sessions` the rows sign-ins opened, `tokens` the sign-ins whose refresh
token the issuer keeps. `Verify`, `Lookup`, `Bind`, `Note`, `Exchange`, `Find`, `OpenSession`
are the units of the login flow (`auth-issuer.ts`, `resolveAuthSuccess`, `openSession`),
`Logout` ends its session and token; `ReadSession`, `ReadCandidate`, `Adopt` resolve a cookie,
adopting a session opened before its user existed; `Invite`, `Provision`, `DisableUser`,
`EnableUser`, `Reset`, `Redeem`, `DeleteUser` are the other units that change the user. `at`
says where each sign-in and request is. `SignInInv`: whoever was linked to the present user,
and every session that is theirs, has the subject the user is bound to; on PostgreSQL no
session is of a user that is gone. What a change to the user ends is found differently by the
stores: `OfItsSessions` through the session rows, `OfItsSubject` through the user's subject.
`EndSessions` (disabling) and `EndSignIns` (reset, deletion) are what each store makes of them,
and `EndedStaysEnded` says both leave no refresh token of a session they end (disabling on
PostgreSQL apart), and that no sign-in under way makes a disabled user active.

### AgentAccess

`key` is `mcp_clients`, `started` the keys with a stdio process. A call goes through
`Arrive`, `Resolve` (the context of a session or a key), `Touch`, `GateRequest` and
`GateTool` (the lock, at the HTTP layer and per tool), `GatePassword`, then `Forbid`, `Ask`
(stored for approval), `Run`, or for tasks `ReadTask`, `CancelTask`, `AnswerTask`, for
reviews `Approve`; an update of a user or key is `Run` then `Update`, where PostgreSQL lets
others commit between the read and the write. `Grantable`, `RoleAtLeast`, `AgentContext`
and `TrustAllows` are `policy.ts`. `held` and `opened` are histories: what the caller was
allowed by the rows of each moment of its call. `Inv`: a key that was revoked or whose
user is gone never works again.

### DealPipeline

`pipe`, `stage`, `rec` are the tables; a lead and a deal are both records. `lock` and
`draft` are rows a transaction has updated and not committed, `plock` the pipelines'.
`Resolve`/`Insert` create (and import, and deals out of leads); `ReadRecord`, `FindStage`,
`UpdateRecord`, `DeleteRecord` are edits, moves, closings, reopenings; `BulkRead`,
`BulkWrite`, `BulkCommit`, `DeadlockAbort` the bulk operations, one transaction over the ids;
`ClearBegin`, `Clear`, `DefaultEnd` the default pipeline; `DropCheck`/`Drop`,
`AddStageRead`/`AddStage`, `EditStage`, `ReorderCheck`/`Reorder` the settings page.
`Inv`: records are in stages of their pipeline, closing dates go with the status, links
are to records that exist, one default pipeline (SQLite).

### RecordGraph

`links` holds the rows of every joining table and every reference column, `alive` the
records. `Check` is what an operation reads, then `ClearPrimary`, `PutLink`, `Unlink`,
`AddMembers`, `RemoveMembers`, `Retype`, `Create`, `Refer`, `HardDelete`. PostgreSQL's
foreign keys refuse, cascade or set null (`Cascades`); SQLite cleans the tables its
`hardDelete` names (`OwnTables`, `InTables`). `Joins` says what a table's rows join,
`WellTyped` that an operation is called with records of those types; `GraphAssumption` that
the tables are in order at the start. `GraphInv`: nothing names a record that is gone
(except a tagging on SQLite, below), typed lists hold one type, a person has one
primary company and a deal one primary stakeholder (SQLite).

### DataTransfer

Tables are sequences by display id. `FindTag` and `CreateTag` find or make the label's tag,
`PlanCompany` and `PlanPerson` are `planImport` (`PlanNothing` its end when no row has a
name), `WriteCompany`, `WritePerson`, `LinkRefused`, `FindLead`, `WriteLead` the rows'
writes; `Refuse` is "Nothing importable in this CSV", `Preview` the preview, `CountPage`
and `ReadPage` the export; `EditRecord` and `Unlink` other callers' changes. A run begins
with any of `Workspaces`, tables as earlier calls left them: names of tags differ, and the companies and
people that links and leads refer to are there. Lookups answer with the
oldest match: the age of records is that of their transactions, and for transactions that
overlapped `Orders` and `FirstOf` choose an order that then stays the same. Numbering a record keeps the counter's row locked on PostgreSQL, which is what
`MadeBy` and `DeadlockAbort` are about. `log`, `began`, `ended`, `listed` are histories.

### The two stores: CrmTables, SqliteStore, PgStore, CrmOperations, StoreParity

`SqliteStore` and `PgStore` have one operator per port method, of the same name: what it
does to the tables and what it answers (`[db, out]`). They differ as the code does: SQLite
has one polymorphic table each for taggings, list members, offering links and field
values and looks references up; PostgreSQL has a table per record type and foreign keys,
whose refusals `run` turns into `not_found`. `CrmOperations` takes the port methods as
CONSTANTs and is the handlers; each store instantiates it (`Ops`). `StoreParity` calls an
operation on both and compares: `Typed` maps SQLite's tables onto PostgreSQL's. Besides
records, lists, fields, views, approvals and clients, the operations of pipelines and
stages (area `stages`) and of the workspace and its users with their codes and sessions
(area `team`) are called so. Three calls are known to make the stores differ; `CallParting`
marks them in the ghost variable `parted`, `SameRows` then states exactly in what the
stores differ, and the caller stops. A call is one step, since this module is about what the statements say, not about their interleaving, which `RecordGraph`, `DealPipeline` and
`DataTransfer` have. The columns `linked` and `hash` of a user are not answered; what
`user.list` makes of them, `hasPassword`, is the one field known to differ (`SameUsers`). `Areas` only restricts which operations one caller uses.

## The runs

All runs pass. Each covers both stores, except the first two.

| run | instance | checks | distinct states |
|---|---|---|---|
| `receipts_sqlite` | SQLite; three callers of one key, two of one request and one of another; 2 failures, 2 crashes | `ReceiptsTypeOK`, `OneHolder`, `AtMostOncePerKey`, `ReceiptTellsRun`, `CompletedIsFinal`, `ImplementsIdempotentMutation` | 19 562 |
| `receipts_pg_live` | PostgreSQL, fair; two retries of one request; 1 failure, 1 crash | `AnswersAreRuns`, `EventuallyAnswered` | 1 663 |
| `workspace` | three users, every pair of operations, any of them signed in before, one perhaps registered | `Inv`, `GuardedChange`, `EveryJobEnds` | 2.6 million |
| `approvals` | an agent asks, polls, drops its task and tries to approve its own request; two admins approve, one rejects; a member and a viewer who are not the requester try to cancel; 1 failure | `Inv`, `RefusalIsRecorded`, `TerminalIsFinalOnSqlite`, `ExpiredIsSettled` | 0.6 million |
| `codes` | a recovery call, a clerk, the sweep, two guessers; three codes, two per window, two attempts, 1 fault, 1 window | `Inv`, `SentWasDelivered`, `OldCodeDead` | 6.0 million |
| `pipelines` | every pair of 34 operations on two pipelines, five stages, two deals and a lead | `Inv`, `GuardedWriteOnSqlite`, `EveryJobEnds` | 24 944 |
| `records` | any three of 36 operations on two companies, two people and one record of every other kind, and an id that is gone | `GraphInv` | 0.4 million |
| `tx` | two chains, two workspaces, four calls and statements each | `Inv`, `UnitsAreAtomic`, `EveryoneIsServed` | 0.6 million |
| `sign_in` | two sign-ins, two requests with a cookie, four administrative changes, two users with the email one after the other; with and without open registration | `SignInInv`, `EndedStaysEnded` | 1.0 million |
| `access` | two users, two keys, sixteen calls in twelve mixes of three, one lock | `Inv`, `NeverOutranks`, `GatesHold`, `DeletedWritesNothingOnPostgres` | 0.4 million |
| `transfer` | twenty-two mixes of two or three imports, previews, exports and edits, on an empty and on a used workspace, two leads to a page | `Inv`, `NothingTwice`, `RowsLandOnTheirRecords`, `PreviewTells`, `ExportComplete` | 0.1 million |
| `stores` | a seeded workspace, two calls of one area (people, leads, deals, notes, marks, fields, agents, stages, team) or of it and the deletions | `SameRows`, `SameAnswers`, `BoardsAddUp`, `SidesAgree` | 37 998 |

Deadlock is checked for the receipts and the approvals; in the other runs every job,
call or chain is finite and the system then rightly stops.

What they show: on SQLite, where units of work do not interleave, the code keeps every
property listed. On PostgreSQL it keeps those whose guard is a lock, an index, a foreign
key or a recheck; the properties that end in `OnSqlite` are kept only by the order of
statements, and the section on divergences tells what PostgreSQL does instead.

**Why the bounds are enough.** *Receipts:* the interesting cases need a holder, a
caller who takes its key over or conflicts with it, and a third who arrives
between them: three callers, and keys are independent, since every statement names one.
Two failures and two crashes let two generations of claims die. *Workspace:* each way to
break ownership needs two operations and the users they name, so two jobs and three
users (an owner, a target, a bystander) cover each pair at every interleaving.
*Approvals:* an action is decided by its reviewers, its requester or time; the run has each
of these, and two approvers, the callers whose own race matters. *Codes:* three
generations, a window limit of two so that the third code is refused in the same window
and issued in the next, and two guessers to wait for each other. *Pipelines* and
*records:* a stale read needs one operation that reads and one that writes in between;
every table has one row to be changed and one to change it to, and bulk operations take
ids in opposite orders, so that they can deadlock, and one names an id twice. Three jobs in `records` let a link be
made, demoted and its record deleted. *Tx:* four events allow a savepoint inside a savepoint
with writes at each level and a workspace named at each. *Sign-in:* two sign-ins race for
one binding; two users let a session, a subject or an adoption meet the user's successor;
four changes make a user, disable, enable and delete it. *Access:* the mixes pair every
kind of call with every change of what it rests on. *Transfer:* the mixes pair an import
with its repeat, a crossing import and each edit of what it reads; rows repeat a person, name
a namesake elsewhere, and differ in the case of letters that SQLite does and does not fold;
two leads to a page make the export read several. *Stores:* a difference between two
statements shows after a call that prepares a row and one that reads or deletes it; the
seed already holds a row of every kind in every state a filter tells apart (archived,
closed, stale, overdue, linked, listed; a user pending, active, disabled before and after
signing in; an email at its limit of codes; a pipeline in use, a default one and an empty
one), and every list, record, lookup and board is compared in every state.

**Fairness.** `FairSpec` of the receipts: each request goes on (`SF` of its server
steps, because a unit of work that waits for the connection is enabled only now and
then: the connection lock is a FIFO chain and PostgreSQL queues lock waiters), time
passes (`SF` of `Elapse`), and a caller sends again after a dropped connection or
an error (`WF` of `Retry`: releasing the key "for a later retry" is what the
protocol is for, `packages/hosting-control/README.md:85`). `WorkspaceControl` and
`DealPipeline`: an operation whose next statement can run runs it (`WF`).
`PendingActions`: calls that have begun end, and the requester goes on polling its
task, as the MCP server asks its clients to (`pollIntervalMs`, `apps/mcp/src/handler.ts:68`);
nobody is assumed to review, so `ExpiredIsSettled` does not rest on a reviewer.
`TransactionScope`: the head of the queue runs and a chain inside a scope comes to an end
(`WF` of `Acquire` and `Leave`), because better-sqlite3 is synchronous and a chain there awaits
microtasks only; nothing is assumed of when a chain asks. The other modules
are checked for safety only.

## Where code, comments and stores differ

Met while modelling; the models have what the code does, and the properties are stated
where they hold.

*Hosting control.*
- `user.update` checks the owner role on an earlier read (`admin-ops.ts:187`) and writes
  the role by id (`pg/repositories.ts:806`). A hand-over in between leaves no owner on PostgreSQL,
  against "keeps exactly one owner" (`hosting-control/README.md:49`). `ExactlyOneOwner`
  in `WorkspaceControl` is the unrestricted statement.
- A takeover keeps the crashed request's hash (`pg/hosting.ts:173`): a different request
  is then replayed to the first caller. On PostgreSQL a key released between the INSERT
  and the SELECT of a claim leaves two holders (`pg/hosting.ts:167`, "Exactly one
  concurrent caller wins", `hosting.ts:96`).
- An audit row written after a deletion's redaction keeps the workspace id
  (`server.ts:446`; "only the one-way target hash may remain", `hosting.ts:116`).
- Redaction sets `workspace_id` NULL and leaves `path` (`pg/hosting.ts:216`,
  `sqlite-hosting.ts:292`), where every request on a workspace has its raw id (`server.ts:163`),
  the deletion's own row too. "Permanent deletion scrubs the raw workspace id from earlier rows"
  (`hosting-control/README.md:105`) is not what happens. `audit` has both columns, and
  `SuccessesAreRedacted` speaks of `workspace_id` only.
- `provisionWorkspace` makes an owner whose email was registered before active without an
  auth subject (`lifecycle.ts:107`), though "`active` = completed first login (auth
  subject bound)" (`domain.ts:140`). Disabled and enabled before it signs in, such a user
  becomes pending on SQLite (`repositories.ts:480`) and active again on PostgreSQL.
- The sweep replaces a code its own request is still delivering, and sends the purpose
  stored in the row, also to a user who is active by now (`auth-delivery.ts:57`).

*Users and sessions.*
- Enabling a disabled user who never signed in makes it active on PostgreSQL
  (`pg/repositories.ts:799`; "never resurrects a pre-activation 'pending' to 'active'", `:792`)
  and pending on SQLite. `user.resetPassword` of a disabled user issues a code on SQLite and
  is refused on PostgreSQL (`pg/identity.ts:428`). `StoreParity` has both as `parted`.
- A sign-in that read the user before a disabling opens a session after it
  (`auth-issuer.ts:375`); it resolves to nobody until the user is enabled. A deletion racing
  a sign-in leaves the email's subject in `openauth_kv`. SQLite sessions have no foreign
  key: one of a deleted user may remain. Disabling on PostgreSQL deletes sessions and keeps
  their refresh tokens (`pg/repositories.ts:831`; "a disabled user's sessions (and the
  OpenAuth refresh tokens behind them) are gone for good", `repositories.ts:505`). A reset there revokes the tokens of
  sign-ins under way too. An adoption that finds another subject ends the session and
  leaves its token.
- A key created by a call resolved before its user was disabled survives the disabling
  and works after re-enabling ("every MCP client the user created is revoked",
  `admin-ops.ts:199`). Deleting one's own account always fails on PostgreSQL: the audit
  event names the deleted user (`admin-ops.ts:268`, `schema.sql:704`).
- `user.list` tells `hasPassword` of a user who has signed in and has no hash of before OpenAuth,
  as any user made since: TRUE on SQLite, where a bound auth subject counts
  (`repositories.ts:299`), FALSE on PostgreSQL, where only `password_hash` does
  (`pg/repositories.ts:539`). `passwordMustChange` is in PostgreSQL's answer only.
  `SameUsers` in `StoreParity` states exactly this.
- SQLite redeems a code of a disabled user; PostgreSQL refuses. Nothing outside tests sets
  `password_must_change`. `identity.withTransaction` inside another is a savepoint on
  SQLite and joins on PostgreSQL.

*Approvals.*
- On PostgreSQL `approve` writes over a decision made after its read (`catalog.ts:135`;
  "guarded transitions preserve terminal status", `pg-isolation.test.ts:796`): two approvals
  both execute. A task answer may say input_required after the action was decided.

*Records.*
- `tag.apply` and `bulk.addTag` never look the record up (`meta-ops.ts:102`): SQLite keeps
  a tagging of a record that is not there. The comment at `pg/repositories.ts:38` ("SQLite
  leaves those rows orphaned") is out of date for deletions.
- Two links at once give a person two primary companies on PostgreSQL
  (`pg/repositories.ts:1306`). Adding a stakeholder again without `isPrimary` demotes, linking
  a person again does not. `isPrimary` of a company or offering link cannot be taken away, and
  several offering links may be primary.
- `bulk.updateStage` leaves status and closing date (`bulk-ops.ts:82`). On PostgreSQL
  the 23503 that `bulk.assignOwner` catches has already aborted its transaction.
  `engagement.updateStage` answers a version behind. `stage.reorder` accepts foreign
  and repeated ids (`pipeline-ops.ts:149`). An import takes a pipeline of the
  wrong type (`data-ops.ts:380`, `engagement-ops.ts:38`).
- `activity.log` with an earlier time moves `lastActivityAt` back. `savedView.run` runs any
  view by id; `savedView.update` stores filters `run` may refuse. The overdue filter returns
  done tasks. `stats.home` adds up at most 500 open deals. Columns that may be NULL sort first
  on SQLite and last on PostgreSQL.
- Tag names are looked up without case and indexed with it; SQLite folds ASCII only, so a label
  with another capital fails on the unique index instead of finding its tag, and an email
  is imported twice (`data-ops.ts:364`). `DataTransfer` has one `Fold` for JavaScript's
  `toLowerCase` and PostgreSQL's `lower`: where a locale makes the two differ is outside the model.

*Import and export.*
- Two imports under a label that exists make every record twice on PostgreSQL, and may
  deadlock on the counters. Imports reuse archived records; a repeated row's note is dropped.
  An export by offset skips a lead when another is archived or deleted meanwhile. The preview an
  approver sees may be stale by the time of approval.

## What is proved

Theorems about ten modules, for every value of the constants.

### HostingReceipts

For every set of callers, keys and bodies and every bound:

| theorem | statement | assumptions |
|---|---|---|
| `TypeCorrect` | `ReceiptsSpec => []ReceiptsTypeOK` | none |
| `NoAnswerAheadOfCommit` | `ReceiptsSpec => []AnswersAreRuns` | none |
| `MutualExclusion` | `ReceiptsSpec => []OneHolder` | `Sound` |
| `AtMostOnce` | `ReceiptsSpec => []AtMostOncePerKey` | `Sound` |
| `ReceiptsAgree` | `ReceiptsSpec => []ReceiptTellsRun` | `Sound` |
| `CompletedStays` | `ReceiptsSpec => CompletedIsFinal` | `Sound` |
| `Refinement` | `ReceiptsSpec => ImplementsIdempotentMutation` | `Sound` |

`Sound == Prompt /\ (Serial \/ MaxFailures = 0)`: no live request outlasts the
takeover window, and either units of work do not interleave (SQLite) or no
mutation fails (PostgreSQL, so no key is released). Both are needed: without
`Prompt` a slow holder's claim is taken over and both run; on PostgreSQL a key released
between the INSERT and the SELECT of a claim leaves two holders. Crashes are not restricted.

The two unconditional theorems rest on the invariant `Basic`: types, and that what
a caller has read, what it is about to be told and what the row stores are
responses of committed runs. The others need `ReceiptsIInv`, which adds `HoldInv` (whoever
believes it holds the key is the holder in a pending row that is not stale; this is
what makes `OneHolder` inductive, because two callers cannot both be the row's
holder), `HitInv` (the completion in an open transaction found its row), `ConflictInv` (a caller
between the INSERT and the SELECT still finds a row), `FailInv` (nothing has failed where
`MaxFailures = 0`), `OnceInv` (at most one run each) and `ReceiptTellsRun`. `Prompt` keeps
`HoldInv` when a claim ages, `Serial \/ MaxFailures = 0` keeps `ConflictInv` when a
claim is released. None of `OneHolder`, `AtMostOncePerKey` or
`CompletedIsFinal` is inductive alone: a second run is excluded because a completed row is
never pending again, which is excluded because only the holder completes or deletes.
For `Refinement` the abstract effect of a key is the caller whose run committed
(`effectBar`, a CHOOSE that `AtMostOncePerKey` makes unique) and each action is shown
to be an abstract step or a stutter.

### TransactionScope

For every set of chains and workspaces, any number of calls and any depth of savepoints,
on both stores, with no assumption but `ScopeAssumption` (which only keeps names apart):

| theorem | statement |
|---|---|
| `ScopesAreKept` | `Spec => []Inv`: one holder of the SQLite connection, its own writes only, one workspace per PostgreSQL transaction and that the row policies' |
| `ScopesAreAtomic` | `Spec => UnitsAreAtomic`: the refinement of `AtomicUnits` |

The inductive invariant `IInv` is the types and four parts. `Queued`: a chain is in the
queue from asking to leaving, once, and whoever is in a scope is its head; two chains in a
scope would both be the head, which is `OneHolderOnSqlite`. `SharedLevels`: the shared
connection holds what the chain in the scope has written, and nothing when there is none, so that the
next holder begins with an empty transaction. `OwnLevels`: a PostgreSQL connection has its own chain's levels, with a
workspace and an Ambient for each. `WorkspaceByLevel`: a transaction without savepoints may be bound to
no workspace yet; as soon as it has one, all levels have the same. The last is why releasing a savepoint
cannot change the workspace of the level around it: `Nest` binds the enclosing Ambient first.
Every action inside a scope has the form `ScopeChange` (the chain's stack and its connection's change alike,
and the chain leaves the queue with its outermost call), and `ScopeStep` shows once
that such a step keeps `IInv`; one lemma for each action then shows its form. For the
refinement `failing` is `pc = "throwing"`; asking for the connection, taking it by
`withConnection` and leaving such a call normally are stutters, all other steps are steps of `AtomicUnits`.

### PendingActions

For any set of requests, whatever they call and whoever sends them; the assumptions are only
what a request is (`RequestAssumption`) and that no row is not a row (`RowAssumption`):

| theorem | statement |
|---|---|
| `DecisionsTell` | `Spec => []Inv`: what was declined never ran, one decline is recorded, and on SQLite the status and result tell what ran |
| `RefusalsAreRecorded` | `Spec => []RefusalIsRecorded` |
| `DecidedStays` | `Spec => TerminalIsFinalOnSqlite` |

The invariant `IInv` says why: whoever runs the action leaves it approved or failed
(`RunSettles`), whoever declines it leaves it decided and is the only one to do so
(`DeclineSettles`, `OneDeclines`), because `Decide` rechecks the status in its UPDATE and nothing
makes an action pending again. `Execute` does not recheck: on SQLite it need not, since a
transaction that acts is alone (`Alone`) and what it read still stands (`ReadStands`); on
PostgreSQL it may overwrite a decision, a decline as well, but then the status says so: it
reads approved or failed, so that `DeclinedNeverRan`, which is about the decline that stands, holds there too.
Steps that leave the action alone have the form `Watches(r)`, which `WatchKeeps` shows once to
keep `IInv`; `Ask`, `Execute` and `Decide` have a lemma each.

### WorkspaceControl

For any set of users, and any number of requests and operations of any kind; the only
assumption, `OperationAssumption`, says what a request is and that `None` is none of the
values it stands in for:

| theorem | statement |
|---|---|
| `OwnershipAndRecordsHold` | `Spec => []Inv`: never two owners; on SQLite exactly one, who can sign in, and no login active that was never set up, by registering or by signing in; inspections are snapshots; no success has the `workspace_id` of a deleted workspace on its audit row (its `path` keeps the id) |
| `VersionsAreComparedAndSet` | `Spec => []GuardedChange`, on both stores |

None of these is inductive. `JobInv` adds what a job between two statements relies on: it
has the workspace row exactly from `LockWorkspace` to its end (`Held`), and while it has it nobody else
changes the access row or deletes the workspace, so the version it read is still the
version. That gives `InspectIsSnapshot`, and for `GuardedChange` that a change reports
the version before it plus one; since the version never goes down, it is greater than all reported before
(`DistinctVersions`). The memberships are not under that lock. On PostgreSQL only their
index keeps them to one owner; on SQLite an open unit of work is alone (`Alone`), so what it
read, the owner and the target's status included, still stands when it writes
(`ReadStands`), and a swap replaces the one owner by an active member. `Acts(j)` is what a
step of one job looks like to the others; `ActsKeep` shows once that they lose nothing by it, and each
action has a lemma for the job that moves.

### CodeDelivery

For any callers, clerks and guessers and whatever the limits (`BoundAssumption` makes them
natural numbers, the two of the code positive, and keeps callers and clerks apart):

| theorem | statement |
|---|---|
| `CodesAreBounded` | `Spec => []Inv`: one unused code of each purpose, none redeemed twice, both limits |
| `SentIsDelivered` | `Spec => []SentWasDelivered` |
| `OldCodesDie` | `Spec => OldCodeDead` |

An unused code is the newest of its purpose (`NewestUnused`): a commit supersedes those before
it, and no step makes a used code unused. So a redemption that waited for a lock and looks again takes the newest
code or nothing, which is `OldCodeDead`. The hourly limit holds because one issuer at a time
has counted the window (`OneFound`, the email's advisory lock) and its count still stands when
it commits (`Working`); `Counts` ties the guesses that were wrong to the attempts that are capped.
`SentWasDelivered` needs `Working` too: whoever is about to mark a row sent has mailed a code for it.

### SignIn

For any sets of sign-ins and requests and any number of users and changes; `SignInAssumption`
only keeps names apart and makes the two bounds natural numbers:

| theorem | statement |
|---|---|
| `SubjectsAgree` | `SignInSpec => []SignInInv`: whoever was linked to the present user, and every session of theirs, has the subject the user is bound to; on PostgreSQL no session of a user that is gone |
| `WhatEndsStaysEnded` | `SignInSpec => EndedStaysEnded` |

A sign-in and a request act on a user they read in an earlier unit of work. What they read is
still of use because a user is the one of now or gone for good (`IdsKnown`), and a subject once
bound never changes, so who has read a bound user has read what it is bound to now
(`BoundForGood`). A sign-in has its subject from `linked` on and keeps it, which its session then
has (`Linking`); a request that adopts knows that the user it read was unbound or bound to that
subject (`Adopting`). For `EndedStaysEnded` each change to the user is compared with the sessions it
removes: on SQLite the tokens of the removed sessions go with them, on PostgreSQL those of the user's
subject, and `SessionsMatch` makes the two the same.

### AgentAccess

For any users, keys and calls and any number of locks. `AccessAssumption` says what a call is and that no two
calls create the same key (its id is a new one each time):

| theorem | statement |
|---|---|
| `EndedForGood` | `Spec => []Inv`: a key that was revoked, or whose user is gone, never works again |
| `NobodyOutranks` | `Spec => []NeverOutranks` |
| `NothingPassesTheGates` | `Spec => []GatesHold` |
| `TheDeletedWriteNothing` | `Spec => DeletedWritesNothingOnPostgres` |

A call's context is read once and used until its write, so that `NeverOutranks` speaks of the rows of
some moment: `ContextHeld` says the context is what some standing in `held` allows (`Covers`), and
`UpdaterMayRun` that the moment is not lost between the two statements of an update. Where a call is
tells which gates it has passed (`Opened`, `PasswordKept`): a lock may come later, but a flag that
demands a new password is only taken away. `EndedKeysStayEnded` is not inductive because a call may still
create a key: `CreatedOnce` says that until it does nobody has had that key. `ActsForCreator`, a
key never changes hands, is what lets the foreign keys of the audit log decide
`DeletedWritesNothingOnPostgres`. Most actions are one call going on (`Passes`) or one handler
(`Works`), and the invariant is proved once for each of these forms.

### DealPipeline

For any pipelines, stages and records, any operations at once and any list of ids in a bulk one.
`OperationAssumption` says what an operation is; `TablesAssumption` that the initial tables are in order, as the
bootstrap of a workspace leaves them and every operation then keeps them, and that a created row's id is new:

| theorem | statement |
|---|---|
| `PipelinesInOrder` | `Spec => []Inv`: records are in stages of their pipeline, closing dates go with the status, links are to records that exist (both stores); one default pipeline of a type (SQLite) |
| `GuardsHoldOnSqlite` | `Spec => []GuardedWriteOnSqlite` |

Every operation reads in some steps and writes in another. On SQLite it is alone meanwhile (`Alone`), so what
it read stands (`ReadStands`, one clause per place an operation can be at). On PostgreSQL only
the foreign keys stand between a stage that was read and the record put into it; the delicate case is a bulk
operation, which holds rows it has updated and not committed: `LocksFit` says those
drafts still fit the committed tables, since `Drop` waits for whoever holds a draft in the stage, and nobody
else writes a locked row. `Fresh` (a row created by an operation is not there before its
end) keeps links and drafts off ids that are still to come. `OneDefaultOnSqlite` counts with `Cardinality`, of
which nothing can be said for an infinite set, so the invariant has it as uniqueness (`OneDefault`) and a lemma
leads from there to the count. Steps read, fail or commit: `ReadKeeps`, `FailKeeps` and `CommitKeeps` say what
each kind has to show, and there is a lemma for every action.

### RecordGraph

For any records and types of records, any operations on them and any tables in order at the start.
`RecordOpAssumption` and `GraphAssumption` say what an operation names (`WellTyped`), that field definitions are not
deleted (no operation does), that a created record comes with one row of its own at most, and that its id is new:

| theorem | statement |
|---|---|
| `RecordsInOrder` | `GraphSpec => []GraphInv`: no row or column names a record that is gone (both stores); typed lists of one type, one primary company or stakeholder (SQLite) |

`NoDanglingRow` is not inductive on SQLite: a deletion takes the rows of the tables it names, and these are enough
only because of what each table's rows join (`RowsFit`), which makes `TablesCovered` the heart of the proof: for every
table and types it joins, the table is among those named for either end. `Fresh` (no row names a record
still to be created) lets a creation add rows without meeting others; `Alone` and `ReadStands` say, as in
`DealPipeline`, that what an operation checked holds until it writes; on PostgreSQL its foreign keys check again,
except for the types of a list's new members, which never change (`MembersTyped`). A primary row is written after the
others of its record were cleared, and on SQLite the set that was cleared is the set that is there
(`AfterClearing`, `LinkRead`). The rows a deal takes from its lead are of one lead (`CarriedFromOne`), so
their keys differ. Every write keeps rows, demotes some and adds some, which `RowsKeep` treats once.

### DataTransfer

For any CSVs, texts, jobs and mixes of them, any page size, any order in which lookups answer with records
of overlapping transactions. `TransferAssumption` and `FoldAssumption` say what calls and folding are,
`WorkspaceAssumption` that the initial tables are such as calls leave behind them:

| theorem | statement |
|---|---|
| `InvHolds` | `Spec => []Inv` |
| `ExportCompleteHolds` | `Spec => []ExportComplete` |
| `RowsLandHold` | `Spec => []RowsLandOnTheirRecords` |
| `PreviewTellsHolds` | `Spec => []PreviewTells` |
| `NothingTwiceHolds` | `Spec => []NothingTwice` |

`Core` is the invariant the others rest on: types, how far each job is with its rows (`Fits`), that a row's
writer is open or has committed, that links lead to people who are there, and `NewestIn`: what an open
transaction has numbered comes after everything else in its table. The last makes `Inv` inductive, since two
transactions that had both numbered would each have to come last, and it is kept because numbering waits for
whoever holds the counter.

`ExportComplete` is about the end of an export; while it runs, `Collecting` says that its pages are full and hold
the first leads of the list, and that the leads which were there when it began are the first of the list too. Places
in the list are counted with `Cardinality`; the lemmas on places (`FirstPlaces`, `PageFacts`) say that the next
page is the leads that come next. Rows only ever join the list at its end, and it is `NewestIn` again
that says so: a row that becomes visible when its transaction commits is younger than all that are seen.

`RowsLandOnTheirRecords` needs `Landings`, which follows a row from plan to lead: the plan of a row is nothing, a
record that is like it, or the first row of its data (`Aimed`), and each row that was written has records that are
like it, a person who works where the row says, and a lead on both (`Arrived`). Two facts about others carry it
(`Remain`): while nobody edits, a record that a job sees stays as it is, and so do the employers of a person it sees,
because links are made with the person, in one transaction.

`PreviewTells` compares two plans of one CSV that were made at different times, each over many steps. `Telling` is
its invariant. As long as nothing was committed since a job began, the records it may match are those that
were there then (`OldIds`; the rows of other open transactions are not seen, its own are not old), and what
planning decides is determined by them and by the CSV: `CompanyOf` and `PersonOf` say what, without the rows planned
before (`Foreseen`). With an empty log the rows that were there at the start are the old rows of the preview and of the run alike, so
the preview told the counts of the same plan (`Shown`). The run counts as it writes, once per row; `Counted` says
that after each row the counts are those of the plan so far, a new record once and its repeats as matches.

`NothingTwice` is about two imports of one CSV under one label, `e` and then `l`, and `Twice` is its invariant. `Echo`
is its heart: once `l` has its tag, with nothing but `e` committed since `e` began, `l` has made nothing, and each row it
planned or wrote has exactly the company and the person of `e`'s row. It is an induction over rows and steps, and in each
step the lookup must have one answer (`CompanyFound`, `PersonFound`) although records from before `e` may be
like the row as well: if one had been, `e` would have taken the oldest and made none, and so does `l`. That needs what `e` wrote to be as
it wrote it (`Firm`), people made by an import to work for one company at most (`OneEmployer`), and nobody from before `e`
to work for a company that `e` made (`LinkOrder`). When `l` began before `e` ended, on PostgreSQL, `l` can have `e`'s new
tag only after `e` committed it (`TagKnown`, `TagMade`). If instead it has a tag that was deleted meanwhile, it has made no
lead, because a lead would have held that tag; and an import without a lead has made nothing (`Yielding`), because no lead that
it finds refers to records it has not committed (`Reach`). `Foldable` is a real hypothesis: on SQLite an
email outside ASCII may not find itself in its own lower case, so somebody with one is imported again. A label needs none: an
import that does not find the tag of its own label cannot make it again, and fails.

**Model-checked only.** TLAPS does not prove liveness under fairness, so that stays with
TLC: `EventuallyAnswered`, `EveryJobEnds`, `ExpiredIsSettled`, `EveryoneIsServed`. So do the properties of the two
stores: `CrmTables` and what extends it fold over sets (`MapThenSumSet`), which no induction rule here can be
instantiated for.

## Not modelled

- *Web user interface* (`apps/web/src/components`, `routes`; about half of the
  implementation's lines): rendering and form state, which reach the data through the
  operations only. Of its query cache, one thing was seen: the invalidation of a changed company leaves out the
  lists that show its name.
- *Schema, bootstrap, scripts:* constraints and row policies are modelled where a
  module depends on them; the scripts run once.
- *Receipts:* a COMMIT whose outcome the server does not learn; an `abandonReceipt` that
  fails itself (the claim stays, as after `Crash` at that point); requests refused before
  `runMutation` (bad signature, bad body).
- *WorkspaceControl:* provisioning, user creation and resets except as the states they leave
  (`SignIn` and `CodeDelivery` have them); the expiry date and reason of an access state.
- *PendingActions:* what the stored operation is; trust profiles beyond their verdict
  that the agent must ask (`AgentAccess` has them).
- *CodeDelivery:* the password a redemption sets; codes shown instead of mailed by
  hosting control; other users (emails are independent).
- *SignIn:* passwords as such, the use of a refresh token, expiry, the issuer's rate limits
  (`auth-issuer.ts:171`, fixed windows in memory) and its own storage protocol.
- *AgentAccess:* batches of JSON-RPC messages, resources and tool descriptions; expiry.
- *Stores:* text columns no filter or constraint tells apart, display ids, sorting and
  paging, and the audit rows of record operations (those of the gate and of the clients are
  kept). `tags.forEntities`, `mcpClients.touchLastUsed`, `users.create`, `activate`, `count` and
  `setPassword` are used by no modelled operation. Two stages of a pipeline that tie for its
  lowest position are not entered (`Untied`): neither store says which comes first.
- *DataTransfer:* CSV parsing and column recognition, and the database backup: conversion
  and file I/O.
- Several processes on one SQLite file: each has its own connection queue, and
  SQLite's file lock orders them by failing with SQLITE_BUSY.

## Plan

1. The issuer's counters and the refresh grant.
2. Theorems about the two stores, once what they fold over can be reasoned about.

Runs stay few: modules that share an instance share a run.
