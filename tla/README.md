# FAMES & R Office PRO backend: TLA+ models, checks and proofs

A verification development kept beside the FastAPI/SQLAlchemy backend of an audit office. Every definition is
translated from the Python code under `app/`; `PROJECT.json` maps each to its lines.

## 1. The system

The backend is one FastAPI process (or several) before one PostgreSQL database. A handler is a plain function that
FastAPI runs in a worker thread (the two uploads are coroutines on the event loop); `get_db` (`app/db.py`) gives it a
SQLAlchemy session of its own (`autoflush=False`) and closes it after the response. There is no queue, no background
job and no lock in the process: the parts talk to each other only through committed rows. So the state of the system is
the tables, the steps are single SQL statements, and the actors are worker threads. Two things surround this: the start
of an instance, which upgrades the schema and puts its users in order before it serves, and what a process has to serve
with, its threads, its pool of connections and its event loop.

Four facts about this setting drive every model:

1. Each statement sees what is committed at that moment (READ COMMITTED, PostgreSQL's default, which the code
   nowhere changes). Two statements of one handler may see different databases.
2. A loaded row stays in the session as it was; `db.get` does not read it again.
3. The commit sends `UPDATE ... WHERE id = ?` with the columns the handler *changed*. Optimistic locking
   (`expected_version`) is a comparison in Python on the loaded row, not part of the UPDATE (no `version_id_col` is
   configured), so two requests that loaded the same row both pass it.
4. An insert that collides with a unique key waits for the uncommitted one and fails once that commits.

| Component | State (tables) | Operations | Talks to | What makes it correct |
|---|---|---|---|---|
| Engagement task engine (`engagement_tasks.py`) | generated tasks, dependencies, status history | transition, configure, add dependency, deadline scan, progress report | templates create its rows, closure counts them | history is the life of the row; no dependency cycle; nothing starts before what it waits for; finished is final |
| Review and closure (`engagement_closure.py`) | engagement status and version, record lock, review trail | submit, approve, close, reopen, status views | reads tasks and documents | closed exactly when locked; the trail replays; nothing outstanding passes a gate |
| Templates (`engagement_templates.py`) | templates, required documents | create, apply | writes tasks, documents, engagement version | applied once |
| Engagement master (`engagements.py`) | engagements, number series, team | create, update, assign | clients, staff | codes unique and gapless, one membership per person |
| Working papers (`working_papers.py`) | papers, evidence links, notes, sign-offs | create, update, link, note, resolve, submit, review, approve, lock | documents, audit execution | a locked paper has no open note and does not change |
| Audit planning (`audit_planning.py`) | acceptance, independence, materiality, risks, procedures | upserts and decision | execution reads it | approval is of what was assessed |
| Audit execution (`audit_execution.py`) | requisitions, tests, issues, completion, record lock | create, move, complete, resolve, finalize | reads planning and papers | a finalized file is ready and stays so |
| Finance (`finance.py`) | invoices, receipts, expenses, trail | create, approve, record, economics | engagement currency and fee | receipts never exceed the invoice |
| Documents (`documents.py`) | documents, versions, access log | upload, new version, archive, download | evidence links | versions contiguous, kept, logged |
| Clients (`clients.py`, `clients/lifecycle.py`) | clients, identifiers, portfolio, status history | create, update, archive, list, export | engagements | identifiers unique, lifecycle order, archive final |
| Staff (`staff.py`) | profiles, departments, designations | create, update | engagement leads | department and designation fit together |
| Workforce (`workforce.py`) | attendance, leave, assignments, worklogs | create, move worklogs, capacity | staff | worklogs move forward, capacity never understated |
| Authentication (`auth.py`, `admin.py`, `deps.py`) | users, login audit | login, change password, set status, create | every request | a change of credentials takes hold, wrong answers count |
| Operations (`operations.py`) | notifications, readiness checks, backup verifications | create, deliver, upsert, record | reports | events tell what the rows show |
| Foundation (`foundation/`) | none | permission, access, lock and workflow decisions | every router (permissions) | access is monotone in the grants and in time |
| Schema migrations (`migrations/`) | the schema, `alembic_version` | upgrade, downgrade | every ORM class | the schema is that of its version, and makes what the classes declare |
| Start-up (`scripts/`, `railway.toml`, `cloudbuild.yaml`) | where each instance is, its restarts | upgrade, serve, restart, give up; bootstrap of users | schema, users | a start ends; only what was superseded gives up |
| Request serving (`app/db.py`, `app/main.py`) | threads, connections, event loop | authenticate, dispatch, commit, close | every request | every request ends |

The hard behaviours are all of one family: **interleavings of requests between read and commit** — lost updates,
checks on rows that have changed since, a unique key hit late, blocking inserts — plus **legal sequences** that leave
one table disagreeing with another (a template applied to a closed file, a due date moved after an escalation). There
are no messages between the parts, and a request that dies before its commit has changed nothing, so requests need no
crash recovery. Instances do: up to three of them start at once on one database, each upgrades it, they may die in the
middle of that, and the platform restarts them a few times.

## 2. How requests are modelled

`req[w]` is the request worker `w` is serving: the handler, where it stands, and what it has read. One action is one
statement. `Begin` is the load of the main row with the checks made on it, then come the reads, and `Commit...` is the
transaction's writes, which take the columns the handler changed (`Column(current, loaded, new)`) and leave the others
as they are *now*. A refused request returns to `Idle` and commits nothing. Clients always send the version they could
have loaded: a request refused at its first check changes nothing and is left out, and so are permissions and record
access, which can only refuse. `Deployment`, `Access` and `Serving` are not about the statements of a handler and have
no `req`.

`stale` is a history variable that becomes TRUE when a commit rests on data another commit replaced since the request
read it. Properties come in two groups. The ones that hold *unless stale* say what the code guarantees when its version
checks mean what they say: all interleavings of reads and commits are explored, those of the blocker checks included,
only commits over a replaced row are not followed. The *unconditional* ones hold whatever is lost. What the
repository promises without a condition and the code does not keep is in the `violation` runs.

## 3. Modules

| Module | Models | State |
|---|---|---|
| `Requests` | how a worker serves a request: begin, finish, the columns a commit writes | `req`, `stale` |
| `EngagementTasks` | `app/routers/engagement_tasks.py`: every handler that writes | `task`, `dependency`, `history`, `today` |
| `ClosureProtocol` | what review and closure promise, each request one step | `status`, `locked`, `revision`, `outstanding` |
| `EngagementWorkflow` | `engagement_closure.py`, `apply_template`, create and update of the engagement; extends `EngagementTasks`, so the whole task board runs beside it | adds `engagement`, `lock`, `document`, `trail` |
| `TasksProofs`, `EngagementWorkflowProofs` | theorems about the board alone and about the whole workflow | |
| `WorkingPapers` | `working_papers.py` and `archive_document`: every handler that writes | `paper`, `note`, `evidence`, `archived`, `signoff` |
| `AuditFile` | `audit_planning.py`, `audit_execution.py`, `assign_team_member`; extends `WorkingPapers`, whose papers a finalization counts | adds `acceptance`, `materiality`, `team`, `declaration`, `risk`, `procedure`, `item`, `completion`, `fileLock`, `finalization` |
| `FileProtocol` | what the audit file and its papers promise, each request one step | `met`, `approved`, `planned`; `status`, `text`, `linked`, `open`; `work`, `complete`, `asked`, `finalized` |
| `Ledger` | `finance.py`: every handler that writes, and the economics report | `currency`, `invoice`, `received`, `approvals`, `expenses` |
| `EngagementNumbers` | the number series of `create_engagement` | `year`, `series`, `issued` |
| `DocumentStore` | `documents.py`: upload, new version, archive | `document`, `versions` |
| `ClientMaster` | `clients.py`: create, update, archive | `client`, `identifiers`, `statuses` |
| `Workforce` | `workforce.py`: every handler that writes, and the capacity summary, for one day of one staff member | `attended`, `leave`, `assigned`, `worklog`, `moves` |
| `Accounts` | one account: `auth.py`, `admin.py`, `get_current_user`, and the bootstrap scripts, which act on the same row | `account`, `listed`, `handedOut`, `revoked`, `misses`, `chosen` |
| `StaffMaster` | `staff.py`: every handler, for one member | `departments`, `designation`, `profile`, `updates` |
| `Operations` | `operations.py`: every handler that writes | `notification`, `deliveries`, `check`, `verdict`, `verified` |
| `Access` | `foundation/access.py`: the decision on access to a record, while grants and time change | `context`, `now` |
| `Schema` | the nineteen revisions of `migrations/versions` and the ORM classes (definitions only) | |
| `Deployment` | instances that upgrade one database and serve: the start scripts, `env.py`, `railway.toml`, `cloudbuild.yaml` | `version`, `schema`, `inst`, `crashes`, `downgrades` |
| `Serving` | what requests of one process compete for: `db.py`, `deps.py`, the coroutines of `documents.py` | `call`, `connected` |
| `AuditFileProofs` | theorems about the audit file and its papers, the refinement of `FileProtocol` among them | |
| `OfficeProofs` | theorems about `Ledger`, `StaffMaster`, `Operations`, `Workforce`, `Access` and `Accounts`, each by itself | |
| `UniqueKeyProofs` | theorems about `EngagementNumbers`, `DocumentStore` and `ClientMaster`, where a unique key decides late | |
| `DeploymentProofs` | theorems about `Deployment` and `Serving` | |
| `MCOfficeProofs`, `MCWaitingProofs` | the compositions that `office` and `waiting` check are, part by part, the specifications the theorems are about | |
| `MCTasks`, `MCWorkflow`, `MCConcurrent`, `MCAuditFile`, `MCOffice`, `MCWaiting` | constants, symmetry and parts for the runs | |

Operations and actions: `transition_task` is `TransitionTask`, `ReadDependencies`, `ReadParent`, `CommitTransition`;
`configure_task` is `ConfigureTask`, `CommitConfigure`; `create_dependency` is `CreateDependency`, `WalkDependency`
(one per turn of `_would_create_cycle`), `CommitDependency`; `deadline_scan` is `DeadlineScan`, `CommitScan`. The four
review handlers share `StartReview`, `CheckBlockers` (three selects of `_blockers`), `ReadLock` and `InsertLock`
(`_lock`), `CommitReview`; the GETs share `StartView` and `FinishView` and insert the lock row as well. `apply_template`
is `StartApply`, `CheckNotApplied`, `CommitApply` or `FailApply`.

In `WorkingPapers` a handler is its load (`EditPaper`, `LinkEvidence`, `RaiseNote`, `ResolveNote`, `SignOff`), the
reads it makes (`ReadDocument`, `ReadNote`, `CountNotes`) and its commit; `SignOff` stands for the four sign-offs that
share `_transition`. In `AuditFile` the requisitions, tests and issues of the file share `CreateItem`, `MoveItem`,
`CheckNotFinalized` and `CommitMove`, because their handlers differ only in the statuses they give (`Fresh`, `Target`)
and in what finalization wants to see (`Settled`). `finalize_audit_file` is `Finalize`, one `CheckReadiness` per select
of `_planning_ready` and `_readiness` in their order, one `CheckProcedure` per significant risk, `ReadFileLock` and
`CommitFinalize`. Handlers whose one write depends on nothing that can change under them are one step
(`CreatePaper`, `ArchiveFile`, `SetMateriality`, `AssignMember`, `CreateRisk`, `LinkProcedure`).

`record_receipt` is `RecordReceipt`, `SumReceipts`, `CommitReceipt`; `engagement_economics` is `ViewEconomics` and one
action per sum. The report subtracts two sums over the invoices; the model keeps each invoice's addend instead, so that
what is shown for an invoice can be compared with what it owes. `create_engagement` is `StartCreation`, `TakeNumber` (the
select `FOR UPDATE`, which waits for the transaction that holds the year's row and holds nothing when there is no
row), `InsertSeries` (the flush of a year's first row, which waits for another's and fails once that commits), then
`CommitCreation` or `RollBack`. `upload_new_version` is `UploadVersion`, up to the awaited file, then `RefuseFile` or
`CommitVersion`, where `uq_document_version_number` decides. Contents and the access log are left out.

`create_client` is `CreateClient`, one `InsertIdentifier` per identifier, in the order of the payload in which the flush
of the commit inserts them, and `CommitClient`. An identifier is a type and a value as it was typed; the unique key sees
only its letters and digits (`Normalized`). An insert whose key another open transaction holds waits, and
`BreakDeadlock` is PostgreSQL ending one of several transactions that wait in a circle. The three moves of a worklog
share `MoveWorklog` and `CommitWorklog`, as they share `_transition_worklog`; the capacity summary is one action per sum.

In `Accounts` a request computes from the row it has loaded what it will write (`SignedIn`, `Missed`, `PasswordSet`,
`StatusSet`, `Synchronized`, `Recovered`), and `CommitAccount` writes the columns that differ, a new hash always. A
password is its own hash, which may be `aged`, so that a login renews it; a token is the token version it carries, and
whether it is accepted is `Accepted`, what `get_current_user` compares. `handedOut` are the versions of the tokens that
logins have answered with, `revoked` those that the last change should have ended, `misses` the wrong answers since the
counter was last reset. `Bootstrap` is what `bootstrap_users` and `bootstrap_super_admin` do to an account at every
start: without `BOOTSTRAP_FORCE_RESET` the listed status is put back, with it the password as well. The status that the
start-up lists for the account does not change while it runs; it is chosen at the beginning (`listed`).

`update_staff` is `UpdateStaff` and `CommitStaff`: `_validate_links` checks the new department against the loaded
designation, or the other way round. `deliver_notification` is `DeliverNotification` and `CommitDelivery`, the upsert of
a readiness check `UpsertCheck` and `CommitCheck`, where `verdict` is the one its last event tells.
`Access` has the whole of `evaluate_access` as one operator, `Decision`; as no router asks for it yet, every grant may
change at any moment.

`Schema` is data: for each revision the tables and columns it makes, in its order, with the tables that its foreign keys
need and the unique keys that the handlers rely on, and what an added column gives the rows that do not have it; and
what each ORM module declares. `Deployment` runs such a chain: `Start` reads the version, `RunRevision` makes the next
revision in the process's own transaction, waiting for another transaction that has made an object of the same name,
and `CommitUpgrade` commits them all, as `env.py` wraps them in one. A statement that fails, a version that the image
does not know, and `Crash` end the process, which the platform restarts up to `MaxRetries` times (`restartPolicyMaxRetries`). Images of two
commits overlap: `HeadOf` and `Declares` say what each instance's image has.

The limit is Railway's (`railway.toml:9`), the three instances of the runs Cloud Run's (`cloudbuild.yaml:39`), which has
no such limit: the combination is harsher than either platform alone, so what holds under it holds on both.
`Downgrade` takes away what the revisions after its target made, as their `downgrade` functions do.

`Serving` follows a request through the framework: `Authenticate` gives `get_current_user` a thread, `Connect` its
session a connection, `Check` each of `require_password_changed` and `require_super_admin` a thread of its own, if the
handler depends on them, and `Dispatch` the handler a thread; `Commit` gives the connection back and the refresh after it asks
for one again. Between authentication and handler a request holds a connection and waits for a thread, while those that
hold threads wait for connections; and an upload asks for its connection on the event loop, without which nothing moves.
`TimeOut` is the pool's. The stages, threads and the pool are the libraries' (FastAPI, anyio, SQLAlchemy) as `db.py` and
the handlers use them.

`ImplementsProtocol` is the refinement: `outstanding` is the set of open required tasks and pending required documents,
`locked` the lock row's state, `revision` its number (1 before it exists). Reads map to stutters, commits to the
protocol's steps, the board to `Work`.

`FollowsProtocol` is that of the audit file, as an action property: a step that leaves `stale` FALSE is one step of
`FileProtocol` or none. The protocol sees rows without versions and counters, tests and severe issues as `OPEN` or
`DONE` (`WorkStates`), and of the requests in flight only the finalizations, with the work and the papers that there
were when each was asked for (`Asked`). So the load, the count and the commit of a sign-off together are `SignOff`, at
the commit; the dozen selects of a finalization are nothing, and its commit is `Finalize`, or `Refuse`.

## 4. Runs

| Run | Question | Bounds |
|---|---|---|
| `tasks_board` | Do history, version, status and dependency order agree under every interleaving of two workers? | 2 workers, 2 tasks, a due date that passes and none, 1 day, versions to 3, 2 moves per task; stops at a stale commit |
| `tasks_cycle` (violation) | "Dependency would create a cycle" | 2 workers, 3 tasks (the shortest graph with an indirect cycle), no moves |
| `workflow_fresh` | Do lock, trail, blockers and status agree, and do the handlers implement `ClosureProtocol`? | 2 workers, 1 required task, 1 required document, 2 templates, 5 trail rows (a whole round and a reopening), versions to 7 |
| `workflow_concurrent` | What survives lost updates, and does every request end? Two parts: the reviews of one engagement, and dependency requests, whose walk must end on any graph | 2 workers; 1 task, 5 trail rows, versions to 5; 3 tasks without moves |
| `workflow_closed_unlocked` (violation) | Is a closed engagement always locked? | 2 workers, 1 task, 5 trail rows, versions to 5 |
| `workflow_closed_incomplete` (violation) | Is a closed engagement complete? | 1 worker |
| `audit_file` | Does a locked paper stay without open notes, does independence hold per person, what does a finalization leave, and do the handlers implement `FileProtocol`? | 2 workers; 1 paper with versions to 7 (its four sign-offs, a note raised and resolved), 2 notes, 1 document; 2 staff, 1 risk, 1 requisition, test or issue, 2 boxes, record versions to 2, acceptance to 4 |
| `audit_papers_locked` (violation) | "Locked working papers cannot be modified" | 2 workers, 1 note |
| `audit_file_finalized` (violation) | "The audit file is finalized and locked" | 1 worker, no items |
| `office` | Do balances, approvals and the economics report agree, are document versions kept in order and archives frozen, do worklogs go forward, is capacity never understated, do changes of credentials take hold and wrong answers count, do department and designation fit, do events tell what the rows show, is access monotone? | 2 workers; 1 invoice of total 2, receipts and expenses of 1 or 2, expenses to 2, 2 currencies; 1 document with versions to 4; 1 worklog, 1 leave type, 1 source, leave that takes the whole day; 2 passwords, a lock at the second wrong answer, token versions to 2; 2 departments, 1 designation, member versions to 3; 1 notification, 1 check, 1 backup; every access context with 2 instants |
| `waiting` | Are engagement numbers gapless, identifiers unique, archived clients final, does an instance serve only on a schema that has what it declares, who gives up, and does everything that waits come to an end? | 2 workers; 2 years with numbers to 3, so that a series both starts and goes on; 2 clients, 5 lists of at most 2 identifiers (none, one, two in either order, spelled differently, one type twice), updates from version 1; 3 instances (two of this commit's image, one of the image before the last columns added to tables in use, revision 11), an empty database, the 19 revisions, 3 retries, 1 crash, 1 downgrade; 3 requests of 3 kinds, 2 threads, 1 connection |
| `receipts_overpaid` (violation) | "Invoice, receipt and outstanding balances reconcile" | the ledger of `office` with 1 currency |

The audit file is checked in parts (`part` in `MCAuditFile`): requests that touch no common row do not multiply each
other. Notes and sign-offs, text, evidence and sign-offs, the acceptance, the other planning records, and the execution
with items of one kind are explored from their own beginnings, each a state the handlers reach (a fresh paper; a
planned file with its paper approved or not yet written). `office`, `waiting` and `workflow_concurrent` are checked in
parts in the same way (`part` in `MCOffice`, `MCWaiting`, `MCConcurrent`): their parts share no table. `office` and
`waiting` are two runs because the one is safety only, under symmetry, and the other has the liveness properties.

In `waiting` two instances of one image and one older are enough for each race of starts: two upgrades that meet, an
upgrade that meets a finished one, and an image that finds a database ahead of it. An instance can lose to the
older image's upgrade, then to one of its own image, and die once, which the three retries just cover
(`OnlySupersededGiveUp`).
One connection less than threads, and one request more than threads, make both circles of `Serving` possible. Without
`TimeOut` TLC finds them.

Two workers are enough for every race the code has: each is between one request's read and another's commit. Bounds
(`MaxVersion`, `MaxTrail`, `MaxTaskVersion`, `MaxHistory`, `MaxDay`, `MaxPaperVersion`, `MaxRecordVersion`, `MaxAcceptanceVersion`,
`MaxExpenses`, `MaxYear`, `MaxNumber`, `MaxDocVersion`, `MaxClientVersion`, `MaxTokenVersion`, `MaxStaffVersion`,
`MaxCrashes`, `MaxDowngrades`) stand in the guards of the actions that *start* requests or faults, so what is in flight
always completes. `MaxRetries` and `MaxFailures` are no bounds but settings of the code. Symmetry is used in safety runs only. `tasks_board` stops at stale
commits with a state constraint, `workflow_fresh` with its specification `FreshSpec` (`[][Next /\ ~stale']`), because
the refinement is meant for those executions alone; there a request that could only commit over a newer row just
stays where it is, which is why that run turns the deadlock check off. The papers of a file come
to rest when everything is locked and archived, and so do the parts of `office` and `waiting` when numbers and versions
are used up or the document is archived, so `audit_file`, `audit_papers_locked`, `office`, `waiting` and
`receipts_overpaid` do not check deadlock either; what may not stop in `waiting` is the subject of its liveness property.
All other runs check it. In `office` nothing follows a stale commit on the account or the staff member, whose properties
all are "unless stale".

Fairness. `WorkflowFairness` assumes weak fairness of each worker's next statement: threads are scheduled and
the database answers. It adds strong fairness of the insert of the lock row: a waiting insert gets the key when
it is free, as the database's lock queue ensures. `NumbersFairness` and `ClientsFairness` say the same in one formula,
strong fairness of each worker's next statement, for at any point of a request only one of its statements can be
enabled; `BreakDeadlock` is among those of `ClientsFairness`, because PostgreSQL looks for deadlocks after `deadlock_timeout`.
`DeploymentFairness` assumes that a process runs on and that the platform restarts one that failed.
`ServingFairness` assumes that the event loop takes what is ready in turn, that a thread goes to who has waited longest, and that
a wait for a connection ends, in a connection or in the pool's timeout. Nothing assumes that users send requests, that
somebody deploys, or that a day passes. The liveness properties watch one worker, call or instance of each image: the
others are exchangeable with it.

## 5. What was found

* **A dependency cycle can be created** (`tasks_cycle`): the walk reads edges in statements of their own, so A→B and
  B→A requested together are both inserted (`engagement_tasks.py:179`). The walk still ends on a cyclic graph.
* **Closed but unlocked** (`workflow_closed_unlocked`): two closings and a reopening of which the first closing commits
  last leave CLOSED with an OPEN lock: the late commit writes no lock column, since nothing changed in its session.
  Reopening is then refused for ever.
* **Locked papers still change** (`audit_papers_locked`): a note, edit or link let in before the lock commits after it;
  a paper can so be locked with an open note.
* **A finalized file does not stay ready** (`audit_file_finalized`): papers can be added to it, and all planning
  records changed, because only the handlers of `audit_execution.py` look at its flag. What does hold: the work that
  was there when finalization was asked for stays done (`FinalizedWorkIsDone`), and its execution records come to rest
  when the overlapping requests have drained (`FinalizedFileDrains`).
* **Closed but incomplete** (`workflow_closed_incomplete`): `apply_template` looks at neither status nor lock.
* **An invoice can be overpaid** (`receipts_overpaid`): the receipts so far are summed by a select of their own
  (`finance.py:128`) and nothing makes two receipts of one invoice exclude each other.

Seen while modelling, and in no run, because no text of the repository says otherwise: an escalation is never taken
back when the due date is moved into the future; the fee currency of an engagement can change under its invoices
(`engagements.py:275`), whose amounts the report then adds; two creations of clients that list the same identifiers in opposite orders end in a
deadlock, whose error `create_client` does not turn into the 409 it gives for a duplicate; no handler moves a client
out of `PROSPECT` but into the archive, while `create_engagement` asks for `APPROVED`, `ONBOARDING` or `ACTIVE`; every
start puts an account's listed status back, so that a suspension by an administrator lasts until the next restart (its
tokens stay dead, which `CredentialChangesTakeHold` checks); of two password changes that overlap, the second to commit
leaves the token version at the value the first gave it; supervisors can form a circle of two or more
(`staff.py:156` refuses only oneself); `render.yaml` starts the server without an upgrade; an image that was
superseded cannot be restarted, for it does not know the database's revision; and a request that has committed is
answered with an error when the pool is empty for its refresh.

## 6. What is proved

`EngagementWorkflowProofs` proves for all workers, tasks, documents, templates and bounds:

* `TypeCorrect`: `Spec => []WorkflowTypeOK`. The inductive invariant `TypeInv` adds that rows which requests refer to
  exist (rows are never deleted) and that a request which read a lock row still finds one.
* `LockExclusive`: `Spec => []LockInsertIsExclusive`, with `ReadyInv`, by the wait in `InsertLock`.
* `ClosedExactlyWhenLocked`: `Spec => []ClosedIsLocked`. The property is not inductive: it speaks of committed rows,
  and a commit writes what was read long before. `FreshInv` adds, for each request in flight, that its copy of the
  engagement is either an older version or the committed row itself, with a status the action may start from, and that
  in the second case the lock it has read is the committed one; a commit that leaves `stale` FALSE is of the second
  kind.

* `TrailIsHistory`: `Spec => []TrailReplays`. Inductive with one addition (`TrailInv`): without a lock row the trail is
  empty, for every commit of a review has the row, found or inserted.
* `NothingWithoutCause`: `Spec => []ActionsHaveCauses`, without the condition that nothing was stale. `CauseInv` says the
  same of what requests have loaded: however old the copy, a status other than `DRAFT` is one that some review of the
  trail led to, and a lock revision above one is one that a reopening of the trail gave.
* `FreshImplementsProtocol`: `FreshSpec => ImplementsProtocol`, the refinement of `ClosureProtocol`. `FoundInv` says that
  what a review has counted stays true as long as the engagement row it loaded is the committed one: each handler that
  could add an open required task or a pending required document writes the engagement or is refused, and no move leads
  out of `COMPLETED`. So the commit of an approval or a closing is the protocol's step, with nothing outstanding.
* `NoCyclesOnTheBoard`, `BoardHistoriesAreChains`, `FinishedWorkStays`, `BoardDependenciesGate`: the properties of the task
  board below, while templates are applied and engagements reviewed beside it.

`TasksProofs` proves of the board alone, for all workers, tasks, dates and bounds, `BoardTypesAreKept` (`TaskTypeOK`),
`HistoriesAreChains` (`HistoryIsChain`), `FinishedTasksStay` (`FinishedIsFinal`), `DependenciesGate`
(`DependenciesComeFirst`) and `NoCycles` (`NoDependencyCycle`). Their invariant `BoardInv` adds to the tables what each
request knows of them:

* a transition is an allowed one from the row as loaded (`Gated`), and the parents that its gate has read are completed
  still (`Cleared`), because no move leads out of `COMPLETED` and a commit that leaves `stale` FALSE writes over the row
  it loaded;
* the walk of `_would_create_cycle` has not met the new edge's task, and what it has seen depends only on what it has seen
  or has still to see (`WalkFacts`). When nothing is left to see, the seen tasks are closed under the edges and do not
  contain the task, so an edge from the task to the start of the walk closes no cycle. Edges are never removed, so this
  holds if the table at the commit is the one the walk began with; the run `tasks_cycle` shows what happens otherwise.

`BoardInv` is about the board's actions, whoever else is at work, so the workflow uses the same lemmas.

`AuditFileProofs` proves for all workers, papers, notes, staff, items, checks and bounds:

* `TypesAreKept`: `AuditSpec => []AuditTypeOK`.
* `SignoffsChain`: `AuditSpec => []SignoffsAreChain`, by `SignInv`: a request about a paper was let in while the paper was
  not locked, and one that found it approved did so after the approval had been recorded.
* `LockedPapersHaveNoOpenNotes`: `AuditSpec => []LockedHasNoOpenNotes`. `NotesInv` adds that a request's copy of its paper
  is the committed row or an earlier version of it, that a note in flight has an id of its own, and that a lock whose
  count saw no open note has either been overtaken by another version or there is still none.
* `ApprovalsRest`: `AuditSpec => []ApprovalRestsOnPreconditions` (unless stale, an approved acceptance meets its
  preconditions); an approval in flight rests on the preconditions of the acceptance row as loaded.
* `IndependenceCounts`: `AuditSpec => []IndependenceIsPerMember`. `_planning_ready` compares two counts; as only members
  declare and a member has one declaration (`TeamInv`), equal counts mean that every member has one, by the counting of
  finite sets.
* `FileLocksAgree`: `AuditSpec => []FileLockAgrees`, and `FinalizedWorkStaysDone`: `AuditSpec => []FinalizedWorkIsDone`.
  `WorkInv` says, for each select of `_readiness`, that the items and papers there were at the start of the finalization
  and that it found settled or locked are so still. What was created after its select is not claimed.
* `LocksStay`: `AuditSpec => LockedPapersStay`, and `FilesDrain`: `AuditSpec => FinalizedFileDrains`, from the same
  invariants.

* `FileFollowsProtocol`: `AuditSpec => FollowsProtocol`, and `FreshFileImplementsProtocol`: `FreshAuditSpec =>
  Protocol!ProtocolSpec`, the refinement of `FileProtocol` by the executions without a stale commit. The invariants above
  are what its steps need: a sign-off commits over the row it loaded, so with the status it follows (`SignKnows`) and, if it
  approves or locks, with no open note (`NotesKnow`); a finalization commits over a complete checklist (`FileKnows`) and
  its items and papers are done still (`WorkKnows`). `PlanInv` adds that the materiality and the team which a finalization
  has seen are there still, for neither is ever removed, and that an edit was let in by a draft or a reviewed paper. The
  protocol does not promise that the acceptance is approved, the independence clear or the requisitions closed at the
  moment of the finalization: each was so when its own select saw it, and may have changed since.

`DeploymentProofs` proves for any chain of revisions, any number of instances and images, and any number of crashes,
restarts and downgrades:

* `SchemaFollowsVersion`: `DeploymentSpec => []SchemaIsItsVersion`. The committed tables are those of the recorded
  version, although several upgrades are under way. `DeploymentInv` adds where each instance stands (`Placed`: one that
  has made something went on from the version that is still there, one that serves is not ahead of it) and that at most
  one transaction has made anything (`OneUpgradeRuns`). A second upgrade waits to make the same first revision; if the
  first commits, what it makes is there and its statement fails, and that is the step the invariant rests on.
* `ServingIsSafe`: `DeploymentSpec => []ServesWhatItDeclares`, if the revisions of each image make what its classes
  declare and later ones fill the columns they add to its tables (`ImagesFit`).
* `RestartsAreEnough`: `DeploymentSpec => OnlySupersededGiveUp`, if each revision runs on the tables of the one before it
  (`ChainRuns`) and a process is restarted at least once for each crash and for each version at which another image can
  overtake its own (`EnoughRetries`). `RetriesInv` is the count: as long as an instance is not superseded, its failures
  are no more than the crashes and the versions of rivals that the database has come past, for an upgrade that is behind
  was overtaken by a commit, and no version is reached twice before a downgrade, which finds every process stopped.

That `ChainRuns` and `EnoughRetries` hold for the revisions and the three retries of this commit is the assumption
`ChainFits` of `MCWaiting`, which TLC evaluates; that `ImagesFit` does for its classes is what the run `waiting` finds by
checking `ServesWhatItDeclares` itself.

`DeploymentProofs` also proves `NothingIsOverused`: `ServingSpec => []ServingTypeOK`, for any set of calls, finite or not:
no more threads and connections are in use than there are, and one upload at a time holds the event loop. `ServingInv`
adds that what is in use is finite and that an upload never has a thread when it commits.

`DeploymentTypesAreKept` (`DeploymentTypeOK`) includes the counters: `RestartsCounted` says that a process that has not
given up has failed no more often than it is restarted.

`OfficeProofs` proves of each of the smaller components, under its own specification and for any sets and bounds:

* ledger: `BalancesHold` (`LedgerBalances`, with each approved invoice approved once) and `LedgerTypesAreKept`
  (`LedgerTypeOK`). A receipt or an approval commits on what was true when it was let in, so `LedgerInv` adds what every
  request still knows (`Holds`): an approval was let in by a draft, a receipt by an approved invoice and a sum with room
  for it; and no id is given to two invoices in flight (`IdsAreFresh`). `ReportsAreCautious` (`ReportIsCautious`) needs no
  "unless stale": `Holds` keeps each addend of the first select below what its invoice owes, since no commit takes an
  approval back or changes a total.
* staff master: `StaffTypesAreKept` (`StaffTypeOK`) and `LinksFitTogether` (`StaffFitsTogether`). `StaffInv` adds that an
  update in flight writes links that fit each other; they fit still at its commit, as designations are only added.
* operations: `OperationsTypesAreKept` (`OperationsTypeOK`) and `OperationsEventsAgree` (`EventsTellTheRows`). A delivery has
  found its notification pending, and none is removed.
* workforce: `WorklogsAreLivedOnce` (`WorklogsGoForward`). `WorklogsInv` says that row, version and events of a worklog are
  at the same step of its life; a second move from the same row is a stale one. `WorkforceTypesAreKept`
  (`WorkforceTypeOK`) and `CapacityIsSafe` (`CapacityIsNotUnderstated`): the summary adds up the approved leave in one
  select and the assignments in the next, and shows no less capacity than remains at the second. `CapacityInv` says that
  the leave it has added up is no more than what is approved now, as approved leave is never taken back. That a sum is a natural number and grows with what is added up is proved by induction over a finite set: a
  set of sizes at which the claim fails would have a least element.
* access: `AccessTypesAreKept` (`AccessTypeOK`), `DelegationGrantsLittle` (`DelegationIsBounded`) and `AccessMovesOneWay`
  (`AccessIsMonotone`). `Decision` is a chain of refusals; the lemma `Passes` states it as one conjunction, which is
  monotone in every grant.
* accounts: `AccountTypesAreKept` (`AccountsTypeOK`), `CredentialChangesHold` (`CredentialChangesTakeHold`) and
  `NoWrongAnswerIsLost` (`WrongAnswersCount`). `AccountsInv` says of each request which columns it writes and how they
  relate to the row it loaded (`WritesInPart`), and of each token that it is not ahead of the row (`NotAhead`); where the
  start-up list would put an account back to `ACTIVE`, every token is strictly behind, or the put-back would let revoked
  tokens in again.

`UniqueKeyProofs` proves in the same way of the components in which a unique key decides:

* engagement numbers: `Gapless` (`NumbersAreGapless`) and `NumberTypesAreKept` (`NumbersTypeOK`). `NumbersInv` adds that a
  transaction holds its year's row alone (`RowIsExclusive`) and has the number that comes next (`NumberIsNext`); the
  insert of a first row needs the unique key for both.
* documents: `HistoryIsComplete` (`VersionsAreInOrder`), `ArchiveIsFrozen` (`ArchivedIsFrozen`) and `DocumentTypesAreKept`
  (`DocumentsTypeOK`). `DocumentsInv` adds that a request's copy of its document is of an earlier or the present version and
  was not archived (`CopyIsEarlier`): so the key rejects every upload whose version has been taken.
* clients: `ClientTypesAreKept` (`ClientsTypeOK`), `NoSharedIdentifiers` (`IdentifiersAreUnique`) and `ArchivedClientsStay`
  (`ClientArchiveIsFinal`). `ClientsInv` extends uniqueness to what open transactions hold: two creations hold different
  keys, and none holds the key of a committed identifier or two identifiers of one type. That is what the wait of an
  insert is for.

`MCOfficeProofs` and `MCWaitingProofs` close the gap between the theorems and the runs `office` and `waiting`, whose
specification is a composition. `OfficeExploresItsParts` and `WaitingExploresItsParts` say that each behaviour of it is a
behaviour of the component it explores, so that every theorem above is about what the runs check; `OfficeTypesAreKept` and
`WaitingTypesAreKept` follow, and `ThreeRestartsAreEnough` is `RestartsAreEnough` with its conditions discharged for the
revisions and settings of this commit.

Assumptions: those named in the modules and nothing else, except the conditions just named. They say that
bounds are naturals, and: templates and tasks fit together (`TasksAssumption`, `WorkflowAssumption`); there is content to
write and a check to answer (`PapersAssumption`, `AuditAssumption`); the staff are finitely many (`AuditAssumption`, for the
count), and so are the leave types and the sources of assignments (`WorkforceAssumption`, for the sums); a client's
identifiers come in lists (`ClientsAssumption`); revisions are not empty and make different items
(`DeploymentAssumption`); the parts a run explores are parts there are (`PartsAssumption`), and the revisions and retries fit
together (`ChainFits`). TLC evaluates them on every run.

Only model-checked are the two liveness properties, `RequestsEnd` and `NothingWaitsForEver`: they need fairness and
`ENABLED`, which are out of the prover's reach. Each other property that a passing run checks is a theorem.

## 7. Not modelled, and what could follow

Formatting, validation of payloads, permissions (which only refuse), the activity and audit events (rows inserted in the
same transaction as what they describe, read only by listings), and in particular:

* `foundation/locking.py` and `foundation/workflow.py`: pure rules that no router calls; `masking.py`, `records.py`: text.
* `create_template`: one insert of rows that nothing changes; the models take templates as constants.
* the supervisor and the skills of a staff member, and contacts, addresses and ownership of a client: nothing that is
  modelled reads them back.
* the access log of documents: rows appended by every view, read only by its listing.
* the progress report of the task board, a sum over one select, and the dashboards of `operations.py`.
* column types, indexes and check constraints of the schema, and the data of the rows a revision changes.
* the platform of `render.yaml`, which starts without an upgrade: under it `ServesWhatItDeclares` would rest on an
  operator.

What could follow: the supervisors as a graph, which can become a circle and which no handler walks today; the currency of
an engagement beside its invoices, once the report is meant to keep them apart; and an abstract specification of the
credentials of an account, of which `CredentialChangesTakeHold` is the part that matters most.
