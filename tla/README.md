# TLA+ models of GXP

GXP is a multi-tenant low-code platform: FastAPI services with Celery workers
over PostgreSQL (one schema per tenant), Valkey (cache and streams), MinIO
(objects), ClamAV, OpenSearch and Keycloak. These modules model the parts of it
where the order of steps of several actors decides whether the data stays
right. Paths below are relative to the repository; `services/` and `packages/`
are the top-level directories.

    tlc  -workers 2 -config <run>.cfg <module>.tla
    tlapm <module>Proofs.tla

A `MC` module gives a specification its small sets, a `Proofs` module holds the
theorems about one or more of them.

## 1. The system

| Component | State | Operations | Talks to |
|---|---|---|---|
| workflow-service API | `workflow_instances`, `task_instances` | start, cancel, claim, complete | queue `workflow` |
| workflow-service worker, beat | `state_json` (the engine), the same rows | `execute_workflow_step`, `complete_task`, `tick_timer_events` | queue, database |
| workflow-service definitions | `workflow_definitions` (BPMN and DMN) | upload, update, retire | database |
| document-service API, worker | `documents`, `document_versions`, buckets, index | upload, new version, delete, `scan_document` | queue `document`, MinIO, ClamAV, OpenSearch |
| document-service folders | `folders`, `document_permissions` | create, delete, grant | database |
| case-service API | `cases`, `case_counters`, participants, notes, links, timeline | create, update, add and remove, start workflow | database, workflow-service |
| case-service timeline consumer | `case_timeline` | reads `audit:events` with a group of its own | Valkey, database |
| app-service | `apps`, `app_pages`, `app_versions`, objects | edit, submit, reject, publish, delete | MinIO |
| tenant-service | `platform.tenants`, `cross_tenant_grants` | create tenant, request, approve, revoke, `expire_grants` | Keycloak, MinIO, Valkey |
| audit-service consumer | `audit_events` | batch insert, acknowledge | Valkey, database |
| audit-service worker, beat | the partitions of `audit_events` | create, archive and drop a month | MinIO |
| py-shared | connection pool, grant cache, token keys | tenant context, `get_db`, audit middleware, grant check | used by every service |
| gateway, identity, portal, runtime | configuration, user interface | | the services |

What is hard in it:

* handlers read a row, `await`, and commit later: no SELECT but the one of
  `case_numbers.py` takes a lock, so every check may be stale at the commit;
* Celery messages are acknowledged when they are received (the default), so a
  worker that dies loses its message; exceptions are retried a few times;
* one operation writes to several systems (row and queue, object and row, row
  and cache) with no transaction around them;
* background work depends on a status that other actors write (timer tick,
  grant expiry), or on the calendar (partitions);
* a connection carries its tenant in `search_path`, and the pool hands it on;
* several items share one transaction (a batch of events, a tick over all
  tenants), and one statement that fails spoils it for the others.

What makes each part correct: stored engine state, status and task inbox agree;
a version of a definition names one content; only scanned files are served and
no bytes are lost; folders stay a tree, and rights are delegated and not lost;
case numbers are unique and without gaps; a case is what its timeline tells;
a tenant's writes stay in its schema, and a tenant is complete before it is
served; acknowledged audit events are stored; grants are not answered from old
data; the served app version is the newest one and its snapshot is frozen.

## 2. Modules

### WorkflowInstance (MCWorkflowInstance, WorkflowServiceProofs)

One instance. `status`, `done` (what `state_json` says: the completed nodes),
`taskStatus` and `assignee` are the rows; `queue` the Celery messages; `worker`
what each worker has read; `api` what a request has read. A handler that reads
and writes in two statements is two actions (`ClaimRead`/`ClaimCommit`,
`CancelRead`/`CancelCommit`, `TakeStep`/`CommitStep`, `TakeComplete`/
`CommitComplete`). `Advance` is `do_engine_steps`: the smallest set of nodes
that is settled under the process graph; gateways are joins (AND), a task is
completed once. `CommitStep` and `CommitComplete` include `_sync_task_instances`
and the choice of the new status. Workers crash (`CrashWorker`), raise
(`FailJob`) and retry; requests end between commit and publication
(`AbortRequest`). The SpiffWorkflow engine is external: it is assumed to fire
timers that are due when it runs.

### Definitions, WorkflowTick, WorkflowService (MCWorkflowService, WorkflowServiceProofs)

`Definitions` is one row of `workflow_definitions`: the handlers read the row
(`UpdateRead`, `DeleteRead`, `StartRead`) and commit the columns they changed.
`written` is the history of contents with their versions, `overtaken` that of
the updates whose row had been changed by others since they read it; an
instance (`pinned`) keeps the content and the version that were read together.

`WorkflowTick` is one run of `tick_timer_events` after the other, over all
tenants on one connection. `tick.tx` is the transaction: a statement that fails
aborts it and every later SET fails too (`SetPathInVain`), a publication that
fails ends the visit of its tenant only. Meanwhile tenants are listed and
instances start and stop; `steady` remembers what was running all the time.

`WorkflowService` puts them and `WorkflowInstance` into one specification. The
three share no variable, so interleaving them would multiply the states and show
nothing more: the variable `driven` says which one a behaviour drives. The same
idiom is used in `CaseService` and `AccessDecisions`. That the joint
specification implements that of each part is a theorem (`ServiceImplements`,
`AccessImplements`), so what is proved of a part holds of the run.

### DocumentScan (DocumentScanProofs)

One document with several versions, its upload requests, and the workers that
scan. Every commit, object store call and index write is a step of its own.
`Move` is copy-then-remove with a best-effort removal. `HandleException` is the
`except` branch of `scan_document`, with the retry. A version number is read
before the file is sent and committed under a unique constraint.

### CaseNumbering, CaseNumbers (CaseNumbersProofs)

`CaseNumbering` is the promise: cases of a year are numbered 1, 2, 3, ...
`CaseNumbers` is the code: the year is read, the counter row is locked with FOR
UPDATE or found missing, incremented, and committed with the case. `holder` is
the row lock; where there is no row yet there is none, and the primary key
decides. `NumberingSpec` states the refinement.

### CaseFile, CaseTimeline, CaseService (MCCaseService, CaseFileProofs)

`CaseFile` is one case after its creation: status and `closed_at`, participants,
notes, links, and `timeline`, the rows of `case_timeline_events` in the order of
their commits. Every handler is a check (`get_case_or_404`, `assert_can_write`
and what it reads) and a commit. A row carries the name of the request that
inserted it, so that a removal can miss the row it has read. `start_workflow` has
the call of workflow-service between check and commit; no rollback undoes it,
and `failed` remembers who ended with an error. `TokenIsIssued` is explained in
section 5.

`CaseTimeline` extends it by the consumer of `audit:events` that adds rows for
linked instances and documents. A batch is one transaction: `consumer.tx` is
`ok`, `aborted` (PostgreSQL knows, the session does not) or `inactive` (a flush
failed, the session knows). `Process` is `_process_event`, which looks the link
up among the links that the handlers of `CaseFile` commit at the same time.

`CaseService` puts creation, file and consumer into one specification. While it
drives the consumer, the requests of `Linkers` link beside it.

### FolderAccess, AccessDecisions (MCAccess, AccessProofs)

Folders and documents as one tree (`kind`, `parent`, `path`), the permissions on
them (`perms`, in the order of their commits), and requests as check and commit.
`Effective` is `get_effective_permissions`: `Ancestors` is the recursive query, as
the least set that has the starting folder and the parent of every member with a row (what
the database computes, and what can be reasoned about without induction), and
permissions on a document take the place of what it inherits. `path` is the
denormalised column, which for folders says where they were created; for
documents, which have no such column, it is the path of the folder at the
upload. `crossed` is a history variable: what was inserted into a folder whose
deletion had been checked.

### TenantSession, TenantProvisioning (MCTenantSession, TenantSessionProofs)

Requests on the pool of one service. A request sets `search_path` on the
connection it gets (`SetPath`), works, commits (which gives the connection back),
and may need a connection again for `db.refresh`. A connection has the path that
its statements run with (`inForce`) and the one that was last committed on it
(`path`), to which a rollback returns, as PostgreSQL does with a SET. A request
has no path of its own: what it writes goes where the path in force on the
connection it holds says. The pool is first-in first-out. Overflow connections
are counted into `PoolSize`.

`TenantProvisioning` extends it by the creation of one of the tenants: the row
(`create_tenant`), the background task piece by piece (`ProvisionPiece`), the
entry in Valkey that the middleware reads (`WarmCache`, `Passes`), and
`migrate_tenants.py` (`Migrate`), which creates the tables whenever it is run,
also (`--tenant`) for a tenant without a row. A request of the tenant is refused,
fails for want of tables, or is served. `SharedValkey` is explained in section 5.

### AuditPartitions, AuditStream (AuditStreamProofs)

`AuditPartitions` has the calendar, the migration's first partitions and the
two monthly tasks; `AuditStream` extends it by the middleware's events, the
consumer group and its consumers. A consumer reads what is pending for its own
name, then new entries; a batch is one INSERT, so one row that cannot be stored
(`Storable`: for want of a partition, or because a header value is longer than
its column, `Oversized`) refuses it all (`RefuseBatch`, a step that changes
nothing and repeats). `MetadataResolves` is explained in section 5. A process
that comes back has a new name. A partition is exported and dropped in
two steps.

### TenantGrants, AccessDecisions (MCAccess, AccessProofs)

One grant in discrete time. Approval and expiry read and commit in two steps;
`assert_cross_tenant_grant` is `CacheMiss`, `QueryGrant`, `StoreAnswer`, with at
most `MaxDelay` between the answer of the database and the end of the check
(nothing in the code limits it: the theorem says how stale an answer is for any
such limit). `IdsAreBound` and `SharedValkey` are explained in section 5.
`last` is a history variable: when the database would last have answered "0" and
"1". A cached answer is an entry that ends by itself (`Cached`).

### AppPublish (AppPublishProofs)

One app. Submit, reject and edit check and commit in two steps; publication
loads the pages, loads the versions and the permissions and draws a number,
writes the object, and commits row, number and status together. `draft` stands
for what name, pages and permissions compile to; when it has changed since the
pages were loaded, the permissions of now make any schema of them (`Compiled`). `overlap` is a history variable: the numbers that
two publications had at the same time.

## 3. Runs

| Run | Instance | Shows |
|---|---|---|
| `wf_core` | two workers, two user tasks, a timer beside them, a join; four requests on a definition; a tick over three tenants and three instances with two failures | status, rows and engine agree even when workers overwrite each other (`StatusAgreesWithEngine`, `ReadyTaskHasRow`, `ProcessOrder`, `ReadyRowIsOpen`); a version names one content unless an update was lost (`VersionsNameContents`); a tick finds all that runs but what a failure hides (`TickFindsInstances`) |
| `wf_single` | one worker, two requests, one fault, one retry | rows and engine never disagree, nothing completed is lost, an accepted completion takes effect |
| `doc_scan` | three versions (one infected), two uploads, two workers, one fault, one retry | clean means scanned and present, nothing infected is served, no bytes are lost, version numbers are dense, every upload is decided unless a call failed |
| `case_numbers` | creation: four requests over a turn of the year; file: three users (an editor, an admin who is a participant, a stranger) with one request each; consumer: three events, batches of two, two failures, one request that links | numbers are unique, dense, and a refinement of `CaseNumbering`; status, participants, notes and links are what the timeline tells, and its actors had been allowed to write (`CaseFollowsTimeline`); an event gets at most one row, an acknowledged one has it, and without failures every event of something linked gets it |
| `tenant_session` | two tenants and a platform administrator with a request each, a pool of two, one tenant created by two racing requests, a plan of three pieces | writes stay in the tenant whatever path the connection had before, whoever passes the middleware finds the tenant complete, every request ends |
| `audit_trail` | three events (one malformed, one with a header value too long for its column), two replicas, batches of two, three months, one fault | acknowledged events are kept, copies need a failed call, partitions are kept for the retention, a refused batch stops only the consumer that holds it, and the others store every event that is not in one |
| `tenant_grants` | two checks, TTL 3, delay 1, expiry at 4, nine ticks; three users (with a role, an admin, a stranger) on a tree of folders | no answer is staler than TTL and delay; folders stay a tree and only a race makes a subfolder a root; every permission was delegated; no right is lost but to a permission on the document itself or a deletion |
| `app_publish` | three requests, two schemas, two versions | numbers without gap, newest served, snapshots frozen unless a number was drawn twice |

Four runs check a statement of the documentation or of a comment that the code
does not keep, and end with the counterexample:

| Run | Statement | What happens |
|---|---|---|
| `wf_timer` | the tick makes timers fire (`worker/tasks.py:15-16`) | an instance that waits for a timer only is stored as `waiting`, the tick selects `running` |
| `wf_lost_update` | every ready task has a row in the inbox (`worker/tasks.py:69`) | two workers read the same state, the later commit undoes a completion, and the completed row stays |
| `tenant_refresh` | statements run in the tenant's schema (`tenant_context.py:10-11`) | the SELECT of `db.refresh` runs on a connection whose `search_path` is another one: 500 after a commit |
| `audit_partition` | the partition exists before its data arrive (`worker/tasks.py:48-49`) | the migration creates two months and the task only the one two months ahead: the month in between the two is never created |

### Bounds, and why they are enough

Two actors of each kind make every race of check and commit; a third request in
`app_publish` (and a fourth in the creation of `case_numbers` and in
`Definitions`) is the one that moves the system
on while two others hold stale reads: the oldest of them must be able to come
last. In the file of a case the third request is the one whose right the other
two may change between its check and its commit; its users cover the ways to
have the right (role, creator, admin) and to lack it. Three requests on folders
build, grant on and delete a chain of two below the folder that exists. A plan
of three pieces has a piece before and one after the schema; the list itself is
a parameter. A tick over three tenants has one before and one after the failing
one, and two failures let a publication fail before a statement does. Faults and retries are bounded by one each because the properties are
about what a single fault leaves behind; `CopiesNeedFaults` counts them. Two
versions are enough for an older publication to come after a newer one. Three
months with a retention of two let a partition be created, filled, archived and
dropped. Time in `tenant_grants` covers an entry stored at the last moment
before the expiry and its whole life. `Linkers` is one request, enough for the consumer to race
with. `MaxQueued` bounds copies of one message
in the queue, `Lag` how many months an entry may wait for a running consumer
(below the retention), `MaxStream` the events of a timeline, `MaxFailures` and
`MaxHiccups` what fails, `MaxVersion` the versions, `MaxTime` and `LastMonth`
the clocks. Every bound is a constant named in its module.

CHECK_DEADLOCK is off where the system comes to rest: an instance or a request
is over, all versions are decided, a clock has reached its bound. It is on in
`app_publish`.

### Fairness

* Workflow: the workers take messages (strong fairness, other messages may come
  in between) and finish the job they took. Users, API requests in progress and
  the tick need not continue: the tick may miss the same tenants every time
  (section 5), so nothing is promised by it. Only `wf_timer` assumes a tick that
  selects the instance again and again (`TickingSpec`), so that what it refutes
  fails however well the tick runs.
* Documents: the workers run, and a request that has staged its file runs to
  its end (an ASGI handler goes on until it fails, which is a fault).
* Sessions: requests run; the pool serves waiting requests in order. Nothing is
  assumed of creations, the background task or the migration: requests end all
  the same.
* Timeline: the consumer is a task of the event loop that goes on (weak fairness
  of its steps together). Handlers and failures have none.
* Audit: replicas that have not ended keep looping (`while True`). No fairness
  for requests, beat or tasks.
* Grants and folders: none; the run checks safety only.

## 4. Proofs

All proofs are for arbitrary constants under the named assumptions of the
modules: any number of users, requests, workers and tenants, any process graph,
any bound. Every safety property that a passing run checks is a theorem. Below,
for each module, the inductive invariant and what makes it necessary.

**WorkflowServiceProofs**

* Instances: `WorkflowTypes`, `StatusAlwaysAgrees`, `OpenTasksHaveRows`,
  `StoredStateIsOrdered`, `ReadyRowsAreOpen` for any number of workers;
  `OneWorkerRowsAgree` and `OneWorkerNeverRegresses` when there is one. The lemmas
  about `Advance` say that the closure extends a state, completes no user task,
  is settled, and keeps a causally closed state closed. The invariant has to
  speak of the states that workers have *read* as well as of the stored one:
  each is ordered, and rows exist for what is READY in it, since any of them may
  become the stored state. With one worker the state it read still is the stored
  one.
* Definitions: `DefinitionTypesHold`, `VersionsAreNames`. `DefinitionInv` says that
  the row is the last upload, that what a request has read was uploaded with that
  version, and that its own content is new. With it, a version that does not go
  up is the work of an update whose row others had changed.
* Tick: `TickTypesHold`, `TicksFindInstances`. An instance that has been running
  all the time is found, excused by a failure, or *still to come*: its tenant is
  to do, or being visited, or the instance is among the found ones (`SteadyInv`).
  No tenant is visited twice and an aborted transaction has had a statement fail
  (`VisitsInv`).

**CaseNumbersProofs**: `CaseTypes`, `UniqueNumbers`, `DenseNumbers`,
`ImplementsNumbering`. `LockInv` is what the lock is worth: who has a number
holds the row of its year, and the committed counter has not moved since. The
refinement maps every commit to one `Issue` and everything else to a stutter.

**CaseFileProofs**

* The file: `FileInvariant`, `FileTypesHold`, `TimelineAccounts`. `FileInv` says
  for every user, link and status where in the timeline it comes from, by single
  positions where `CaseFollowsTimeline` speaks of the last of a set, so that a
  step has one new position to look at. `RequestInv` is what a check was worth at
  the commit: who passed it *had been* an editor at that length of the timeline,
  though they need not be one any more.
* The consumer: `TimelineInvariant`, `TimelineTypes`, `EventsOnce`. What the
  transaction will add continues what is recorded, in the order of the stream,
  and what will be acknowledged is recorded, in that list, spoiled or not linked;
  links never go away while the handlers run (`LinksStay`).

**AccessProofs**

* Grants: `GrantTypes`, `AnswersStayFresh`. `FreshInv` relates an answer on its way
  to the moment the database gave it, and the end of a cache entry to the age of
  its answer.
* Folders: `FolderInvariant`, `FolderTypes`, `TreeStays`, `GrantsComeFromWriters`,
  `RightsAreKept`. `NodeInv` makes a path the path of the parent and the node, so
  that the recursive query finds nothing but folders of the path; `CallInv` is
  what a check still says at its commit: who may grant was given the right by
  earlier rows, and a child of a folder about to be deleted has crossed the
  deletion. `RightsStay` then follows from what a step does to rows and parents
  (`StepKeeps`), by closing the chains under it.

**TenantSessionProofs**: `SessionTypes`, `WritesAreIsolated`, `PoolIsExclusive`,
`ServedAreReady`. The pool is exclusive: as many connections as were opened, each
idle once or with one request, and held only inside a transaction. The isolation
of the writes rests on it: a request that holds a connection finds its own
tenant in force there (`IsolationInv`), because the SET came first (`PathIsSet`)
and no other request can have reached the connection since. For the third, the task only runs for a tenant with a row and has
made the pieces before its position; the entry in Valkey implies that all are
made, and a request past the middleware implies the entry.

**DocumentScanProofs**: `ScanTypes`, `CleanOnly`, `BytesStay`, `DenseVersions`. A
version belongs to one request, its file is stored before the row, and the number
that was read is at most one above the rows (`RequestInv`); a message has a row,
and a scan past the promotion its file in the docs bucket (`ScanInv`). `MoveKeeps`
says that copy-then-remove loses nothing.

**AuditStreamProofs**: `AuditInvariant`, `AuditTypes`, `TrailKept`,
`RetentionIsKept`. Pending lists are disjoint and what is in one has been stored
only by calls that failed; what is archived still has its rows or lost its
partition; an entry that may still be inserted is younger than what the archiver
takes (`Lag` below the retention), so that no row comes after the export. The last
is why the assumption on `Lag` is needed.

**AppPublishProofs**: `AppTypes`, `NewestIsServed`, `SnapshotsAreFrozen`.
`DrawnInv`: a number in use is at most one above the newest version, so the
unique constraint refuses all but that one; `SharedInv`: a number that two
requests have, or that is already committed, is in `overlap`; `WrittenInv`: an
object whose number nobody shares is its writer's.

**The runs' specifications**: `ServiceImplements` (workflow-service and
case-service) and `AccessImplements` show that the joint specifications implement
those of their parts; `ServiceTypes` and `AccessTypes` are the joint type
invariants. The runs under fairness check a stronger specification than the
theorems are about.

Only model-checked: the liveness properties (`CompletionTakesEffect`,
`UploadIsDecided`, `RequestsEnd`, `EventsAreStored`, `EventsAreRecorded`), which need fairness and ENABLED and are
out of the prover's reach; and the four statements that the code does not keep.

## 5. What the models say besides

What the code does that no property forbids. First where a document of the
repository says otherwise; the properties except exactly these cases:

* Scans end in any order, so `current_version_id` may go back to an older
  version, where `models/document.py:57` and document-service's README (line 15)
  speak of the latest clean version.
* `audit_consumer.py:6` promises an idempotent insert. A row gets a new uuid per
  delivery, so a batch that is delivered again is stored again.
* `folders.py:112` prevents "deleting non-empty folders" and document-service's
  README (line 112) lists "Delete empty folder": the check asks for subfolders
  only, so documents in a deleted folder move to the root and lose what they
  inherited.
* A permission on a document for one principal hides what its folders grant to
  all the user's principals; `permissions.py:6` and `:68` limit the override to
  that principal.
* `models/app.py:7` calls the schema of a version frozen. Of two publications that
  draw one number the refused one may overwrite the object of the other.
* "Within seconds even for in-flight requests" (tenant-service,
  `worker/tasks.py:33-34`) is really TTL and delay: an answer in flight is stored
  after an invalidation, and a failed invalidation is not repeated.
* `timeline.py:90` announces a retry that never comes, as the loop reads only `>`
  and nothing claims what is pending.
* `start_instance` runs `create_workflow` in the request although workflow-service's
  README says that the engine never runs in the async path. `waiting` and
  `running` are used the other way round than `instances.py:10-11` says.
* case-service's README (line 9) lets case managers bypass the check, the code
  only `gxp-admin`.
* An accepted instance whose first message was lost is found by the tick alone,
  if at all (below), although workflow-service's README (line 13) calls instances
  restartable after a worker crash.
* A rejected app stays rejected and a published one published: no handler sets
  `draft` again, unlike the diagram in `publish.py:4-5`.

And where none does:

* Cancel and claim check and write in two statements. The second of two claims
  takes the task over; a cancellation between a worker's read and its commit is
  lost; `cancelled` may replace `completed`.
* The tick shares one connection over all tenants: one failing tenant aborts
  the transaction, and the following tenants are not ticked.
* An exception in a scan after the promotion leaves the version in `error` with
  its staged file gone and `current_version_id` pointing at it. A version whose
  message was lost stays `pending` or `scanning`: nothing looks for it. A deleted
  document stays in the search index (`delete_document` has no caller).
* The first two cases of a year may collide: one request answers 500. A retry
  after the 500 of a failed refresh creates the case twice.
* Requests of the platform realm set no `search_path` and run in whatever
  schema the connection was left in.
* An approval that has read `pending` resurrects a grant that is revoked before
  it commits; an expiry overwrites a revocation; an approval does not look at
  `expires_at`. Revocation leaves the cache alone.
* What a dead audit consumer had pending is never read again, because names are
  random and nobody claims. A batch with a row of a month without a partition, or
  with a `request_id` or `ip_address` header longer than its column (64 and 45
  characters, migration `001:43-44`; `middleware.py:55` and `:96-98` take them as
  they come), stops its consumer for good. The archiver does not verify the row
  count its docstring announces, and a run that is late in its month may drop a
  partition whose last days are younger than the retention.
* Only a submit or reject that commits after a publication lets an app be
  published twice. A page may
  change, and be deleted, while the app is under review. `publish_app` declares
  no datasource (`publisher.py:62`), so that the validation clears every binding.
* Two updates of a definition that read the same version leave two contents under
  one version number, and a late one may set the version back.
* The tick hides all tenants after the one whose statement failed, and the order
  of `smembers` need not change: the same tenants may be hidden every time.
* Timeline consumer: the COMMIT of an
  aborted transaction is a silent rollback, after which the whole batch is
  acknowledged: entries that had succeeded are lost. The lookup runs before the
  tenant's `search_path` is set and so works only where the tables are on the
  default path. An event that comes before its link is committed is acknowledged
  without a row.
* Cases: a status written over a newer one reports the old `from`; two closings
  overwrite `closed_at`; the last owner may be removed; two removals are both
  reported; a change of a note is not reported at all. The timeline is in the
  order of the commits; `occurred_at`, by which it is listed, is stamped before
  the commit and may order two crossing requests the other way.
* Folders: anybody may create folders at the root, and gets no right on them by
  that. Who may write may grant rights that they do not have. Nothing revokes a
  permission.
* Tenants: the row is `active` before anything exists. A step that fails ends the
  task for good: creating the tenant again is refused with 409. PATCH
  `suspended` never reaches Valkey, so that a suspended tenant is served on, and
  `deprovision_tenant`, which would write it, has no caller. The three writes of
  the warm-up are not atomic: a tenant may be served without ever being ticked.
  Until `migrate_tenants.py` runs, statements fail, or find the tables of
  `public` where a deployment has migrated that schema.

### Taken as meant

In six places the code cannot do what the lines around it are about. The modules
describe the repaired code as well, so that the rest of it can be checked; where
a Boolean constant says which of the two is meant, FALSE is the code as it is,
the run sets TRUE, and the theorems are for both.

* `cases.py:491` calls `ServiceTokenManager()` without the base URL that its
  constructor needs, and `get_token` with a keyword that it does not have:
  `start_workflow` raises before it calls workflow-service, and all that follows
  the call is unreachable (`TokenIsIssued` in `CaseFile`).
* `worker/tasks.py` of workflow-service writes `:state::jsonb`, and `:vars`, `:form`,
  `:roles` and `:data` likewise, in `text()` (lines 87, 133-134, 195, 201-202).
  SQLAlchemy does not take a name that is followed by a colon for a parameter, so
  the statements raise: no instance would get past its first step.
  `WorkflowInstance` takes them for the parameters that they are meant to be;
  everything it says of workers is said under this reading.
* `expire_grants` writes `ANY(:ids::uuid[])` in `text()` (tenant-service,
  `worker/tasks.py:64`): the UPDATE raises in every run, no grant is ever marked
  `expired` and no cache entry deleted (`IdsAreBound` in `TenantGrants`). The
  check compares `expires_at` itself, so the answers are as fresh either way; that
  a grant past its expiry gets marked is not a property here, as the code does
  not do it.
* `audit_consumer.py:84` and `:93` insert a row with the key `metadata`, but the
  attribute of the model is `metadata_`: the key resolves to the `MetaData` of the
  declarative class and the statement raises. No batch is stored or acknowledged;
  the test replaces `pg_insert` (`MetadataResolves` in `AuditStream`).
* Each service has a Valkey database of its own (`docker-compose.yml:302-497`;
  tenant-service, 6 in `config.py:34`). The status and the set of tenants that
  tenant-service writes are read by the middleware and the tick elsewhere, its
  deletion of a cached grant reaches no other service, and the consumers of
  `audit:events` see the events of their own service only. `SharedValkey` in
  `TenantProvisioning` and `TenantGrants` is TRUE where one database is
  configured for all; `AuditStream`, `CaseTimeline` and `WorkflowTick` take the
  stream and the set for shared.
* `WorkflowDefinition.is_active` is declared as a string of length one over a
  Boolean column (`models/workflow.py:41`, migration `001`, line 29), to which
  asyncpg would not bind a Boolean. `Definitions` takes it for a Boolean.

## 6. Not modelled, and the plan

Modules in the order in which they are worth writing:

1. `CaseTypes`: the configuration that cases are created from; the handler of a
   new case reads it and commits later.
2. `SchemaSanitizer`: `builder.py` over bounded trees against a reference
   definition.
3. `AuditMiddleware`: which requests are audited and with what outcome, also
   when the handler raises; so far an event is the one action `Emit`.

Abstract specifications worth stating: an append-only version history that
`AppPublish` implements; an audit log that `AuditStream` implements at least
once; a process instance without workers that `WorkflowInstance` implements
when there is one worker.

Proofs to come: these refinements, step by step. What they need of the invariants
is there: with one worker the state that is written follows from the one stored
(`FreshInv`), and a committed version has its number and its object (`WrittenInv`).

Left out for good: the pure reads (audit reports, listings, search, catalog),
token validation, the Alembic environments, the deployment files, the
notification-service (a health endpoint), and the TypeScript user interfaces.
Formatting of numbers, keys and file names is left out everywhere.
