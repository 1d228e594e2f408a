# Yucca in TLA+

A verification development kept beside the Yucca source (FUTO Backups): TLA+
modules translated from the code under `src/packages`, TLC configurations that
check them on small instances, and theorems that the TLA+ proof system checks for
every instance. `PROJECT.json` holds the machine-readable part: the map from every
definition to the lines it models, the runs, the mutants, the hazards and the
theorems.

## 1. The system

Yucca backs up the files of a self-hosted application (Immich, for instance) with
restic. The *orchestrator* is a NestJS library embedded in the host application; it
keeps its configuration in SQLite and drives `restic` child processes. A *backend*
stores the repositories: `restic-api` and its successor `michael` speak restic's REST
protocol in front of S3. The *cloud API* gives users accounts, repositories and
access URLs, and a worker meters what is stored.

    UI  --HTTP/socket-->  orchestrator  --spawn-->  restic  --REST-->  michael / restic-api  -->  S3
                               |                                              ^
                               +------- HTTP (device flow, endpoints) ---->  yucca-api  <-- yucca-admin-api
                                                                              ^
                                                        yucca-metrics-worker -+-- RGW usage

Paths below are relative to `src/packages`; OA stands for
`yucca-sdk/orchestration-api/src`.

### Components

| Component | State it keeps | Operations | What makes it correct |
|---|---|---|---|
| **Task engine** (`OA/services/repository.service.ts`, `repositories/runningTasks`, `repositories/runHistory`, `services/bootstrap`) | `activeTasks` and `controllers` (memory), `runHistory` (SQLite), restic's locks (in the repository) | `createBackup`, `pruneRepository`, `forgetSnapshot`, `restoreSnapshot`, `restoreFromPoint`, `cancelTask`, bootstrap | One task per repository; no entry outlives its task; a cancellation reaches the task the user sees; the history tells the truth after any failure or crash; stale locks never block, live ones are never broken |
| **Schedules** (`OA/services/schedule.service.ts`, `repositories/schedule`) | cron jobs (memory), `schedules` and `repositorySchedules` (SQLite), the schedule's own task entry | `runSchedule` (the cron tick), create, update, remove, bootstrap | A tick works through its repositories whatever fails; a cancelled schedule starts nothing more; cron jobs are those of the table |
| **Repository configuration** (`OA/services/repository.service.ts`, `repositories/repository`, `repositoryPath`, `repositoryLocalMetrics`) | `repositories`, `repositoryPaths`, `repositoryLocalMetrics` | create, update, delete, import, reconfigure, inspect | Foreign keys hold; a partly failed operation leaves nothing half-made |
| **Onboarding and recovery key** (the flows under `yucca-sdk/orchestration-ui`, `OA/services/onboarding.service.ts`, `OA/repositories/config`, `OA/services/bootstrap`) | the stage and the open dialogue of each tab; the key and the progress in the table `config` | the steps of three flows; make, show, confirm, import a key; bootstrap | No backup is made under a key that the user does not have |
| **Device login and backends** (`OA/services/auth.service.ts`, `OA/services/backend.service.ts`) | `backends`, the pending login | start, poll, cancel; create a backend | A dialogue that waits is answered; the stream of a login ends |
| **Restore from a point** (the dialogues, `OA/services/repository.service.ts`, `OA/repositories/runHistory`) | the log of the restore | choose, confirm, restore | What the dialogue shows at its end is what happened |
| **Immich integration** (`OA/services/integrations.service.ts`) | `repositoryIntegrationImmich`, the managed schedule and paths | configure, library change | The integration keeps its repository and its schedule |
| **Settings of the Immich backup** (`components/integrations/immich/ImmichConfigureBackup.svelte` of `yucca-sdk/orchestration-ui`, `OA/services/integrations.service.ts`) | the form in each tab, the lists it is filled from; policy, schedule, folders and libraries of the managed repository | fill, edit, save all fields; store them table by table | What the user left alone is stored as it was; Immich's database is always backed up |
| **Events and UI caches** (`OA/events`, `services/*` of `yucca-sdk/orchestration-ui`) | sockets; query caches in the browser | fetch; publish; append, patch, invalidate, drop a cached item | A list shows what the rows are, once nothing is under way |
| **michael** (`michael`, Go) | objects in S3, counters of stored bytes | create/delete repository, save/get/delete config, save/get/list/delete blob | A write-once repository never loses or changes a blob; a blob that is served is whole |
| **restic-api** (`restic-api`) | the same objects, its own counters | the same protocol | the same, and the two servers agree: what one acknowledged the other serves |
| **Access tokens** (`yucca-api` and `yucca-admin-api`, `services/repository.service.ts`) | `repositories` (Postgres), signed tokens | access URLs; enable and disable write-only; delete | Write-only is never switched off by the user; a token grants what the repository allows |
| **Accounts and sessions** (`yucca-api`, `yucca-admin-api`) | `users`, `sessions` (Postgres), the cookies of a login | login by redirect or device code, authenticated calls, logout; disable, enable, delete, end sessions | A person has one account; a session leads to the account of who signed in; who is disabled is out |
| **Backup metrics** (`OA/services/repository.service.ts`, `yucca-api/services/metrics.service.ts`) | `repositoryLocalMetrics` at the device, `repositoryMetrics` and its history in the cloud | report start, end, success and size of a backup | The row has its entry in the history; device and cloud agree |
| **Metrics worker** (`yucca-metrics-worker`) | rows and history of the meter | the five-minute synchronisation | Row and history agree, whichever runs overlap |
| **Cursor pagination** (`yucca-api`, `yucca-admin-api`, `utils/pagination.ts`) | none | a page after a cursor | A reader to the last page gets every row once |
| restic, SQLite, Postgres, S3, cron | external | | modelled only as the code uses them |
| `ansible`, `tf`, `kubernetes`, `charts`, `.mise`, `yaak`, `web`, `common`, `mock-oidc-provider`, generated clients | deployment, presentation, telemetry, test doubles | | not modelled: no protocol state |

### How they interact

* An orchestrator operation is a coroutine of the single Node thread. Between two
  `await`s it runs alone; at an `await` any other operation may run. The registry of
  tasks is the only thing that keeps two operations on one repository apart, and it
  is read (`canStart`) and written (`startTask`) at different moments.
* `createLog` calls the function that answers the HTTP request and runs the task;
  the caller (a controller or `runSchedule`) receives the promise of the task.
* A schedule awaits the task promises of its repositories one by one and passes them
  its own abort signal, which `startTask` links to the task's controller.
* `restoreFromPoint` replaces the contents of the database and calls the bootstrap
  again, in a process in which other operations may be running.
* restic protects its repository with locks kept in the repository; the orchestrator
  removes *all* of them before a backup, prune or forget.
* Backups with a metrics-capable backend make HTTP calls to the cloud API before they
  register their task and after they end.
* The browser fetches its lists over HTTP and patches them with the events of a socket;
  nothing orders the answer of a fetch against an event. The dialogues of a login and
  of a restore wait for events and have no other way to learn how it ended.
* yucca-api and yucca-admin-api are two processes on one database and, but for the
  metrics worker's, use no transactions: between two statements of a call any other
  call may run.
* michael and restic-api are two processes on the same buckets; each believes itself
  alone.

### What is hard

Interleavings at awaits; errors on every await; cancellation at any moment; crashes
that leave rows `Incomplete` and locks in repositories; a database that is replaced
under running operations; overlapping ticks of one schedule; on the storage side,
uploads that race deletes and verification after the fact, by two servers that differ
in the order of their calls; in the cloud, tests that are out of date when what they
guard is written; in the browser, events that are lost, or cross the answer of a fetch,
a recovery key that may change between being shown and being confirmed, and a form that
saves all it shows, filled from lists of different ages.
`PROJECT.json` lists each such hazard at its line with the properties that cover it,
and says where a property excepts it.


## 2. The modules

| Module | What it is |
|---|---|
| `TaskRunner` | the task engine: five operations as coroutines, the registry, the history, restic's locks, cancellation, crashes |
| `RunLedger`, `RepositoryMutex` | what `runHistory` promises its readers, and what the registry promises the repositories; `TaskRunner` implements both (under conditions, below) |
| `ScheduleRunner` | `runSchedule` on top of `TaskRunner` (it EXTENDS it, and its steps are steps of the engine) |
| `WriteOnceStore` | what a write-once repository promises |
| `ObjectServer` | michael's handlers, one action per call to S3; implements `WriteOnceStore` |
| `ResticApi` | restic-api's handlers beside michael's on one bucket (it EXTENDS `ObjectServer`), and the reading requests of both; the two together implement `WriteOnceStore` |
| `RepositoryTokens` | the row in the cloud API, the tokens signed from it, and `ObjectServer` as they reach it |
| `OrchestratorConfig` | what is to be backed up: repositories, paths, schedules, links and the Immich integration in SQLite, the cron jobs in the process, and the calls that change them |
| `CloudAccounts` | logins, sessions and the administrator's calls, statement by statement on one database |
| `CloudUsage` | the reports of devices, the runs of the metrics worker, and the readers of pages |
| `LiveViews` | a list in a browser: its fetches, and the events that patch it |
| `ImmichSettings` | the form of the backup's settings, filled from lists and stored by overlapping saves |
| `Onboarding` | the flows of dialogues, the recovery key, the login and the restore that dialogues wait for |
| `TaskRunnerProofs`, `ScheduleProofs`, `ObjectServerProofs` (also of `ResticApi` and `RepositoryTokens`), `OrchestratorConfigProofs`, `CloudAccountsProofs`, `CloudUsageProofs`, `LiveViewsProofs` (also of `ImmichSettings`), `OnboardingProofs` | theorems and proofs |
| `MC*` | instances for TLC |

### TaskRunner

The state is `pc` (where each operation is), `task` (`activeTasks` and `controllers`,
which the code always changes together), `aborted` (the controllers that have fired),
`row` (the operation's row of `runHistory`), `result` (what a caller that awaits the
operation sees), `locks` (the lock files of restic) and `up`. An action is one segment
of code between two awaits, or the failure of one:

| Action | Code |
|---|---|
| `Request` | the guard `canStart` of `createBackup`, `pruneRepository`, `forgetSnapshot` (`restoreSnapshot` and `restoreFromPoint` have none) |
| `Prepare`, `OpenLog`, `Ready` and `*Fails` | reads of the database and the key, `createLog`, `submitMetricBackupStart`; the last segment of them ends in `startTask` |
| `Unlock`, `Begin`, `Work` and `*Fails` | `unlockAll`, and each restic call in turn: it takes its lock, and ends or fails |
| `ReadPolicy` | `runForgetAndPrune` of a backup, a failure of which is not one of the backup |
| `Replace`, `Reboot` | `restoreFrom` and the second bootstrap of `restoreFromPoint` |
| `Finalize`, `FinalizeFails` | the update of the row after `endTask` |
| `Signal`, `Cancel` | the abort signal of the caller, and `cancelTask` |
| `Crash`, `Restart` | the process dies; `onApplicationBootstrap` sweeps |

A call of `better-sqlite3` does not in fact let other coroutines in for long, but every
await is a point where they may run, and the model lets them run at each. This allows
more than the code does.

`Faults` names the failures that an instance lets in: `"log"` (the log or the row
cannot be created), `"finalize"` (the row cannot be updated), `"replace"` (the database is
replaced by halves) and `"boot"` (the second bootstrap fails). Every other await may always
fail. What the history promises is stated under `NoRestore`, because a restored database
takes rows back to an older state on purpose.

`SerialSpec` is the engine under requests that do not meet between `canStart` and
`startTask`.

### ScheduleRunner

`tick`, `todo` and `status` are the position, the repositories to go and
`scheduleStatus` of each call of `runSchedule`; `entry` is the schedule's own entry in
`activeTasks`, by the tick that wrote it; `cancelled` the ticks whose controller fired.
The backup of repository r by tick t is the engine's request `<<t, r>>`, so `NextBackup`
is `TaskRunner`'s `Request`. `Fire` has no guard: the cron jobs are made without
`waitForCompletion`.

### ObjectServer

`objects` is the bucket, a blob's right content being its own key (its name is its
hash), `meter` the counter of stored bytes (objects have size 1), and `req`, `at`,
`reply` the HTTP requests, the next call to S3 of each and its answer. `Receive` is the
part of a handler before its first call, with the write-only guard; `Put`, `HeadObject`,
`Delete`, `Check`, `Make` the calls; `Undo` the deletion of a blob whose hash is wrong,
which may fail unheard (`UndoFails`) or be repeated by the SDK (`UndoRetried`);
`PutFails` and `CallFails` calls that fail with or without effect.

### ResticApi

`OldRequests` are the requests that restic-api gets. Its handlers differ from michael's in
what the actions `Api*` say: an upload that S3 finds damaged stores nothing, the failure
of an undo is told, and an object without a byte (`Empty`) cannot be deleted. `stored` is
its counter beside michael's `meter`. `read` are the reading requests of both servers
(`ReadOne`, `List`); a listing holds at most `Page` keys, and restic-api refuses one in
which an object has no size. Each server crashes alone, with the requests it is serving
(`Crash`).

### RepositoryTokens

`row` is the flag of the repository's row, or that it is deleted; `edit`, `stage`, `seen`
the calls of the cloud API (`createUrl`, `update`, `delete`), where they are and the flag
they read; `issued` the flags in unexpired tokens. `ReadRow` is `get` with the refusal
that follows it, `WriteRow` the unconditional update or delete, `Sign` the token,
`Expire` the end of its life (`JWT_EXPIRES_IN`). The requests of `ObjectServer` are made
with the tokens that are in use when they arrive.

### OrchestratorConfig

`rows`, `paths`, `scheds`, `links` and `integration` are the tables, `jobs` the cron jobs of
`SchedulerRegistry`, `remotes` the restic repositories at the backends, `boot` and `offered`
the state of the bootstrap and the host's module configuration. `call`, `at`, `seen`, `held`
and `reply` are the HTTP calls under way: what was asked, the next statement or await, what
`configureImmichIntegration` keeps in local variables, and the answer. `Faults` are
`"backend"` and `"crash"`.

`Receive` is a handler up to its first statement or await; `CreateRemote`, `InitRemote`,
`Fetch`, `ListKeys` and `Rename` end an await of a backend or of restic, and
`ExternalFails` fails it, with or without effect; every other action of a call is one SQL
statement, or the change of a cron job. better-sqlite3 answers synchronously, so a call
keeps the event loop (`loop`) from one outside await to the next, and only there do others
run; but the statements are no transaction, so that a foreign key, a refused cron
expression or a crash leaves what came before. `UpdateModuleConfig` and
`FollowModuleConfig` are the host's update and the listener `onModuleConfigUpdate`;
`Start` is the bootstrap, which the first unreadable cron expression ends (HTTP is served
all the same).

The model shows a few things that no property states, because nothing in the repository
says otherwise: a schedule that is created with a repository that has just been deleted, or
an integration with a cron expression that the library refuses (its DTO only asks for a
string), leaves a schedule without a job, and in the latter case the next bootstrap fails;
two first configurations that overlap make two integration rows, of which the oldest is
used; deleting the managed repository removes its paths, links and history before the
foreign key refuses.

### CloudAccounts

`sub` and `disabled` are the table of users (`None` where there is no row), `session` that
of sessions, each named after the login that made it, `owner` that of repositories, and
`cookie` the login whose state the browser holds. `login`, `call` and `op` are the calls
under way with what they have read. An action is one statement, or one exchange with the
identity provider: `GetBySub`, `UpdateUser`, `CreateUser`, `CreateSession` are those of a
login, `DisableDeletes` and `DisableWrites` the two of disabling, `DeleteTests` and
`DeleteWrites` those of deleting. Foreign keys and the unique sub are the database's:
`CreateSession`, `CreateRepository`, `CreateUser` and `DeleteWrites` refuse as it does.
Three fields of `op` are not in the code and only let the properties speak: `ended`,
`late`, `undone`.

### CloudUsage

`local` is the device's row, `row` and `history` the cloud's, `meter` the tables of the
worker. A report reads the size (`ReadSize`), saves it (`SaveLocal`), and in the cloud
takes a read and two statements (`GetRepository`, `WriteRow`, `Log`); it may fail at each.
A run of the worker lists the repositories, reads the usage of the buckets, and records
one after the other (`Record`, a transaction) until one is gone. `ReadPage` returns
`Limit` rows after a cursor, which is the millisecond of an entry of the history, or the
id of a row.

### LiveViews

A behaviour is about one list, of the `kind` chosen at its start. `rows` is the table,
`change` the requests that change it, `wire` the events, `socket` and `open` the browser's
connection and the components that listen, `cache` and `fetch` the query. `Patch` does to
the list what the listener of that kind does: append without looking, append in the place
of the old entry, or replace the whole; of snapshots the query is invalidated instead
(`Invalidate`). `excused` are the rows that the browser has no way to know: their last
event was published while it was not connected, was overtaken by an older one, or was
overwritten by an older answer, and nothing was fetched since.

### Onboarding

`boot`, `key`, `flags`, `backends`, `local`, `remote`, `schedule` are the orchestrator's
state; `tab` is what each tab shows (its flow, stage and dialogue, the key it has fetched
and the answer under way), `wire` the events on the way to it, `login` and `restore` what
it has begun in the orchestrator. `known` are the keys that the user has. A request and
its answer are one step, except for the key, whose answer may be out of date (`ReadKey`,
`KeyArrives`). `First` and `AfterKey` say where the flows go on. `Elsewhere` is what other
browsers do to the same orchestrator, one event at a time (a bound). `EndRestore`,
`FailRestore`, `ReportItem` and `WriteError` are in the order of the code: the end of the
task is published before the error is written.

### ImmichSettings

`managed` is what is stored of the managed repository, schedule and integration: a policy, a
cron expression, folders and libraries. `known` is what the lists of each tab say of them
(`Unknown` until a list is there), `form` the form that is open in the tab, `sent` and
`stage` the saves. `Fill` is the effect of the form: it runs once, as soon as the list of
integrations is there, with what the tab knows then of repositories and schedules.
`Submit` sends every field; `Begin` asks if there is an integration, `SaveFirst` and
`SaveChange` write what was sent without a pause once the backend has answered, up to the
statement that fails; `Dies` ends the process, at times between two of them. `basis` and
`touched` are not in the code: what a form was filled with, and what the user changed
since, only let the properties speak. The comment of the module lists what is left out.

The model shows two things that no run states. In the daily mode the form does not check the
time (`ImmichConfigureBackup.svelte:206`), and turns a cleared one into `NaN 0 * * *` (:357):
the row of the schedule keeps it though the call fails, while the API's own calls refuse
such an expression (`schedule.dto.ts:25`). And in the custom mode the test is inverted
(:207): the button is disabled exactly if the expression is valid (`Enabled`).

## 3. The runs

Requests, ticks and calls are used once each, so the number of them bounds a run; runs
whose actors may all come to an end are checked without deadlock, and a run of the engine
and of the schedules never stops there, since the process can crash and come back.

| Run | Instance | What it shows |
|---|---|---|
| `task_serial` | 3 requests that keep out of the window between `canStart` and `startTask`, 2 repositories, no restores, Faults log, finalize, boot | `OneTaskPerRepository`, `CancelReachesRunningTask`, `LiveLocksSurvive`, `StaleLocksNeverBlock`, and the implementation of `RepositoryMutex` |
| `task_history` | 2 requests of all 5 kinds on 1 repository, no Faults, fairness | `InterruptedRunsShow`, `HistoryAgreesWithCaller`, the implementation of `RunLedger`; `EveryRunEnds`, `EveryRequestIsAnswered` |
| `schedule_overlap` | 2 ticks of one schedule, 0 to 2 repositories, no Faults | `NoLeakedScheduleTask`, `StatusAgreesWithHistory`, `NoRepositoryIsSkipped`, `CancelledScheduleStartsNothing`, `CancelReachesTick` |
| `schedule_users` | 1 tick and a user's backup or restore point, Faults replace, boot, fairness | the implementation of `TaskRunner`; `CompleteRunsSucceeded`; `TicksMoveOn` |
| `store` | 3 requests (1 to michael, 2 to restic-api), 1 reader, 2 blobs, 1 lock, the configuration, the empty object, write-once tokens, Faults s3, undo, crash | `AcknowledgedIsStored`, `ReadsAreHonest`, the implementation of `WriteOnceStore` by both servers |
| `tokens_all` | 3 calls of the cloud API, an administrator, 3 requests, both kinds of tokens, an SDK that may repeat an undo, no Faults | `OnlyOlderCallsReopen`, `OldTokensWearOut`, `NoBadBlobStays` |
| `config_all` | 3 calls of all 11 kinds, 1 folder, refused cron expressions, Faults backend, crash | `RowsAreReady`, `JobsAreScheduled`, `CreatedSchedulesTick`, `ImmichKeepsItsRepository`, `OnlyDeletionUnlinks` |
| `accounts` | 1 login by redirect and 1 by device code, 2 persons, 2 rows of users, 2 calls of users, 2 of administrators, fairness of the device login | `DisabledIsLoggedOut`, `AccountsAreTheirs`, `DeviceStreamsEnd` |
| `usage` | 2 reports, 1 run of the worker, 1 reader with pages of 1, 2 repositories, 2 milliseconds | `RowsAreOnRecord`, `UncrossedReportsAgree`, `PagesMissOnlyTies` |
| `browser` | lists: 7 kinds, 3 changes, 2 rows, 2 mounted components; settings: 1 tab, 2 saves, 2 policies, 2 cron expressions (one that no library reads), 1 library, one setting touched in each form | `ListsShowTheRows`, `NoEntryTwice`; `UntouchedSettingsStay` |
| `onboarding` | 1 tab in each of the 3 flows, other browsers, 2 keys that may be made, an older one and a slip | `BackupKeysAreKept`, `DialogsAreAnswered` |
| `onboarding_restore` | 1 tab in the flow of a restore | *violated*: `FailedRestoresAreShown` |

Two runs have a state constraint that bounds what is asked: `OwnOrStray` (`store`: what is
uploaded is the right content or the empty one) and `Three` (`usage`: reports are of one
repository, and of two reports, the worker and the reader three are begun). The type
invariants are not run, because they are theorems, or (of `ScheduleRunner`) part of an
invariant that is proved. So are three properties that follow from the same invariants as
others and are not run: `OneBackupPerTick`, `UntouchedFieldsAreTrue`, `DatabaseIsBackedUp`.
The two modules that `browser` instantiates share no state, and a
behaviour of it is one of either (`BrowserNext`).

Why these bounds are enough: repositories do not interact except through a tick's list,
so one repository (two for ticks) shows all interference; every race of the engine that is
known needs two operations, the third is there for the successor that is admitted wrongly;
a schedule's entry is contended by two ticks; in the store, a bad blob needs its uploader,
one who meets it and one who deletes, and a reader shows what is left afterwards; three
calls of the orchestrator are one that makes a repository or the integration, one that
refers to it, and one that meets both; an account is disabled or deleted by one call and
enabled again, or made again, by another, with a login on either side; a report crosses
one other; a fetch is crossed by two changes, and a third comes after it; a key is
replaced by one other while a tab waits; a form is overtaken by the
save of another, and a save by a second one. What does not depend on the bounds is proved
(section 4).

What the conditions of a run leave out, and why:

* `task_serial` is about requests that do not meet in the window. Of the others (`Spec`)
  `OneTaskPerRepository` does not hold: `createBackup` looks at the registry, does four
  awaits and registers; a second request in between passes the same test, and its
  `unlockAll` removes the lock of the first. `restoreSnapshot` makes no test at all.
* `task_history` has no Faults: if the row cannot be written, history and caller cannot
  agree; and when the log or the row cannot be created, `createLog` reports it to a
  callback that answers nobody, so that the promise that a request or a tick awaits is
  never settled (`EveryRequestIsAnswered`, and with `"log"` in the Faults of
  `schedule_users` also `TicksMoveOn`, do not hold then).
* `store` has no repeated deletion (`UndoRetried`, of `RetryingSpec`): if the SDK repeats
  the undo of one upload whose reply was lost, it may delete the right blob that another
  stored in between, and `AcknowledgedIsStored` and `ImplementsWriteOnceStore` fail. The
  repository says nothing of the SDK's retries. `tokens_all` has it: a repetition makes no
  bad blob stay, and is an exception that `OldTokensWearOut` names.
* `NoBadBlobStays` is checked, in `tokens_all`, without failing undos and crashes. With
  them it does not hold: `PutObject` drops the error of the deletion that undoes a bad
  upload (s3.go:179), and the blob stays under the name of another content, where uploads
  of the right content are refused and, in a write-once repository, nothing can delete it.
* `tokens_all` states what the code keeps. A write-only repository does not stay so
  whatever its user does: `update` and `delete` test the flag of the row they read, and
  write without a condition (`OnlyOlderCallsReopen` names those calls).
* `config_all` has one folder, and calls that change one thing of a schedule; more of
  either adds steps of the same kind to one call, not others between them. That the
  managed paths follow Immich's libraries is not checked, because it does not hold: a
  configuration reads what Immich offers, waits for the backend and restic, and writes the
  paths from what it read, so that a change in between is lost.
* `DisabledIsLoggedOut` excepts logins that were past the test of the flag; the guard of
  every call refuses their sessions until the account is enabled again.
* `UntouchedSettingsStay` excepts a setting that the tab did not have when the form was
  filled, or that changed since: the code sends the form's value and overwrites it. It
  excepts, too, what the form cannot show (`Misshown`): a policy that is not on its list, and
  an expression of six fields, in which an unanchored pattern finds a daily time. Neither is
  in the instance; the theorem is about all of them.
* `ListsShowTheRows`, `PagesMissOnlyTies`, `ReadsAreHonest` and `DialogsAreAnswered` name
  their exceptions: an event that is lost or overtaken; entries that share a millisecond
  with the last of a page; a listing cut at its page, and one that restic-api refuses; a
  login whose stream breaks off after its first message, and an event that is published
  while the socket is down.

### Fairness

`FairSpec` assumes that every await of an operation ends and that the process is started
again after a crash; `FairScheduleSpec` the same of ticks. The first is what the code
relies on: Node resumes a coroutine when its promise settles, SQLite and the file system
answer, HTTP calls fail in the end. restic is run without a timeout, so a restic process
that hangs for ever is outside this assumption, and so is a host that is never restarted.
`AccountsFairness` is weak fairness of the steps of logins by device code: the statements
of a login end or fail, and polling ends at the latest when the code expires, so that it
does not depend on the user. Nothing is assumed of requests, cancellations, cron, crashes,
administrators or browsers. The store, the tokens, the configuration, the usage, the lists,
the settings and the onboarding are checked for safety only.

### The finding

**A restore that failed looks complete** (`onboarding_restore`). The dialogue of a restore
has a title for its failure, and ends the flow only if no error is shown
(`RestorePointFlow4Restore.svelte:20-30`); it learns of errors from the log.
`restoreFromPoint` publishes the end of the task in its `finally`
(`repository.service.ts:900`), and only afterwards is the error written to the log
(`runHistory.repository.ts:127-129`). The event arrives first, and the dialogue closes as
after a success.

## 4. The proofs

The theorems hold for every number of requests, repositories, ticks, blobs, contents,
calls, tokens, folders, logins, persons, administrators, reports, runs of the worker, readers
and sizes of pages, lists and listeners, tabs, saves and keys.
They assume what the modules assume of their constants (`ConstantsAssumption`,
`ScheduleAssumption`, `ServerAssumption`, `ReadersAssumption`, `TokenAssumption`,
`ConfigAssumption`, `AccountsAssumption`, `UsageAssumption`, `ViewsAssumption`,
`SettingsAssumption`, `UnsetAssumption`, `OnboardingAssumption`) and what their statements
say; nothing else. `UnsetAssumption` says that the value that stands for "nothing" is no
record, which TLC finds for any model value.

**Task engine** (`TaskRunnerProofs`). `TypeCorrect`; `TasksNeverLeak`: the registry is
written only by `startTask`, whose owner is then between `startTask` and `endTask`, and
deleted by whoever ends, so an entry always belongs to an operation in between - even
when operations overwrite each other. `CompleteMeansSuccess` needs the strengthening that
an operation on its way to recording success has had no failed call.
Of the history without restored databases, `HistoryInv` says of each operation when it has
a row and that the row is Incomplete until the operation is over (`RowOK`: that a sweep and an operation never meet
on one row), and what the end of an operation leaves there (`EndsOK`). `HistoryIsLedger`
follows whatever fails, `InterruptedRunsAreFound` unless the sweep of a bootstrap fails, and
`CallerAndHistoryAgree` unless `finalize` fails; these conditions are assumptions of the theorems.

**Mutual exclusion** (in `TaskRunnerProofs`), for `SerialSpec` without restores. `MutexInv`
adds to the stated properties that at most one operation per repository is anywhere
between admission and `endTask` (`OneActive`), and that a working operation's repository
holds no lock but its own (`OwnLockOnly`). The first is what makes `OneTaskPerRepository`
inductive, the second what `unlockAll` needs in order to remove only stale locks. From it
follow `OneTask`, `CancelReaches`, `LiveLocksAreKept`, `StaleLocksAreRemoved`, and
`RegistryIsMutex`: the engine implements `RepositoryMutex`.

**Schedules** (`ScheduleProofs`). `SchedulesDriveTheEngine`: every step of a tick is a
step of `TaskRunner` or leaves it alone, so all theorems about `Spec` carry over. It needs
an invariant, because a cancellation of the schedule signals the backup the tick waits
for, which must be a request of the engine. `ScheduleTasksNeverLeak` and
`TicksBackUpOneByOne` come from the same `ScheduleInv`, and so does `CancelFindsTheTick`. `StatusInv` adds that what a tick still shows
as Incomplete is still on its list, and that only a tick in its loop, or past it, is cancelled:
`NoneIsSkipped`, `CancelStopsTheTick`. `BothHistoriesAgree` joins the engine's `HistoryInv`
with `HeardInv`, that a status is the answer that was heard, since answers never change.

**Store** (`ObjectServerProofs`). `BadBlobsGo` for any tokens, provided that calls do not
fail and the process lives, and even if the SDK repeats deletions (`RetryingSpec`). For write-once tokens `WormInv` says who may be in which
handler (deletions only of locks), that whoever undoes an upload finds it as it was
stored and is alone in doing so (`UndoesItsOwn`: S3's `If-None-Match` lets nobody in
while the bad blob is there), and what an answer means (`Answered`). `AcknowledgedIsKept`
and `ServerIsWriteOnce` follow, through failures, lost undos and crashes; the SDK must
not repeat an undo that had its effect.

**Configuration** (`OrchestratorConfigProofs`), for all of `ConfigSpec`. `ConfigInv` adds
to the types which kind of call can be at which statement. On it rest: `RemotesOK`, that
only one call ever makes a remote, which is ready when the row is written
(`RowsStayReady`); `KeptOK`, that what a call made or checked is still there when it relies
on it, because it has kept the event loop since; `KeysOK`, the foreign keys of the
integration (with `KeptOK`: `ImmichIsKept`, `ImmichStaysLinked`); and `JobsOK`, that a job
differs from its row only while the call that is about to change it keeps the loop, and
that the job of a schedule is made before its call is answered (`JobsFollowTable`,
`SchedulesTick`).

**Two servers** (in `ObjectServerProofs`). Most steps of restic-api are michael's too, and its
own (`ApiOwn`) keep `WormInv` as well, which is therefore inductive for both together:
`AcknowledgedByEither` and `BothAreWriteOnce` follow. For the readers `ReadsInv` adds that
what was due to a reader was acknowledged then and is to this moment, so that it is there
when the request is answered (`EitherReadsBoth`).

**Tokens** (in `ObjectServerProofs`), for all of `TokensSpec`. `TokensInv` adds to the types
that only uploads undo (`SavesOnly`), that a deletion under way is one that its token allows
(`Unprotected`), and that a call of the cloud API past its test with the flag set is none
that may write the row (`SeenIsKept`). `OlderCallsReopen` follows, and `BadBlobsGoWithAnyToken`
by the argument of the store. `WornOutIsWriteOnce` needs more: once the repository is
write-only and no token of the other kind is left (`WornOut`, with the requests that used
one gone), this stays so until the administrator or an older call opens it, and with
`UndoesItsOwn` no stored blob goes.

**Usage** (`CloudUsageProofs`), for all of `UsageSpec`. Every measure of a row has its entry,
or a report that wrote it and got no further (`FieldOnRecord`), and a meter's row says what
its last entry says (`MeterOnRecord`): `MeasuresAreOnRecord`, since the history only grows
while the repository is there. `AgreeInv` says of a repository whose reports have not crossed
that one at most is under way, and that device and cloud differ only while it is between its
two writes (`Agrees`); for the order of success and end it needs that nothing is dated after
now (`NotAfterNow`): `SizesAgree`. `ReaderInv` says that the history is in the order of time
(`InTime`), that what a reader was shown lies before his cursor (`Seen`), and that what he is
missing lies behind it or shared the last row's millisecond (`ReaderOK`): `ReadersMissOnlyTies`.
The lemmas on pages (the rows a page takes come before those it leaves, and a page that is not
the last has a last row) hold for pages of any size; they rest on finite sets of numbers
having a least and a greatest member.

**Lists** (`LiveViewsProofs`), for all of `ViewsSpec`. `NothingListedTwice` is inductive.
`ViewsInv` is about the events that are outstanding, on the wire or still to be published
(`Outstanding`): none is newer than its row (`EventsOK`), nor is an answer (`FetchOK`) or an
entry (`ListOK`); a row that is not excused is shown as it is when nothing of it is
outstanding, and one that is not shown yet has its creation outstanding (`Known`); and
the answer under way lacks nothing but what is outstanding (`Answered`). The last two are
for each row, so that appends, replacements and the exchange of the whole list keep them row
by row. `ListsAtRestAreTrue` follows.

**Settings** (in `LiveViewsProofs`), for all of `SettingsSpec`. `SettingsInv` says of a form
that what it would send agrees with what it was filled with, but for what was touched, what
was unknown and what it cannot show (`Keeps`, in `GoodForm`), that an unfilled form has not
ticked anything, so that filling it makes it agree; the same of what was sent (`GoodRequest`); that lists
and rows have the database's folder (`KnownOK`, `ManagedOK`); and that a save past its test
has a request, and a change an integration (`StageOK`). `UntouchedFieldsShow`,
`UntouchedAreKept` and `DatabaseStaysBackedUp` follow.

**Accounts** (`CloudAccountsProofs`), for all of `AccountsSpec`. `AccountsInv` says of rows
that ids are given in order and a person has one (`Rows`); of a login that it knows who signed
in, then whose row that is or was, and has a session only after the statement that makes it
(`LoginOK`); of a call that the user it read was there (`CallOK`); and of an
administrator's call (`OpOK`) that the sessions it ended belong to logins past that
statement, which never return to it, and that an account it disabled stays disabled, or is gone, so that
`getOrCreateUser` hands it to no later login. `AccountsGoTogether` and `DisablingLogsOut`
are consequences. The types alone are not inductive: that `disable` writes the flag of a
row needs `OpOK`.

**Onboarding** (`OnboardingProofs`). `KeysInv` says which keys the server may hold
(`ServerKeys`), that a tab past the dialogue of the key stands on a confirmed one
(`StageOK`), that a key a tab has fetched, or is about to, is the server's or one the user keeps
(`CodeOK`), and that a restore goes on with a key the user has (`RestoreOK`). The keys the user
has only grow, which is what lets the other tabs alone (`Grows`). `KeysAreKept` follows. Of the dialogues,
`AnswersInv` says that a tab that was connected all the time and waits has what it waits for
begun in the orchestrator or on the wire, that the wire carries what the open dialogue
means only (`Meant`), and that a restore is the one the tab chose: `DialogsHaveAnswers`.

**Only model-checked:** the liveness properties `EveryRunEnds`, `EveryRequestIsAnswered`,
`TicksMoveOn` and `DeviceStreamsEnd` (ENABLED and fairness are beyond the prover). Every
safety property of a passing run is a theorem.

## 5. The plan

Done: 1. `TaskRunner` with its two abstract specifications and proofs; 2. `ScheduleRunner`
with proofs; 3. `WriteOnceStore` and `ObjectServer` with proofs; 4. `RepositoryTokens`;
5. `OrchestratorConfig` with proofs; 6. `ResticApi` with proofs; 7. `CloudAccounts` with proofs;
8. `CloudUsage`, 9. `LiveViews` and 10. `Onboarding` with proofs, and proofs of `RepositoryTokens`;
11. `ImmichSettings` with proofs.

What is worth doing next: the removal of a schedule while it ticks (`ScheduleRunner` with the
cron jobs of `OrchestratorConfig`); two tabs in one run of `Onboarding`; the pickers of paths
and repositories.

## 6. What is not modelled

* Content and layout of logs, progress output of restic, telemetry, the wording of errors,
  and authentication beyond the flag in the token and the row of the session.
* Reads that change nothing, but for those that a property is about (the reading handlers
  of the store, pages, lists of the browser): statistics, the inspection of a repository.
* Forms, but for that of the Immich backup: `PathPickerModal.svelte`, `RepositoryPicker.svelte`
  and the other dialogues of settings hold the state of one component until it is sent, and what is sent is an
  input of `OrchestratorConfig`. Components that only show data are left out too.
* The removal of a schedule while it ticks; what retention policies keep; the online test of backends and their addresses; a second
  login from one tab while the first is pending; the list of running tasks.
* A restic child that outlives the Node process. Failover of the object store, and the identity provider,
  beyond its answers.
* Deployment (`ansible`, `tf`, `kubernetes`, `charts`), web sites, the mock identity provider, end-to-end tests and generated clients:
  no logic of the system.

Every component and the reason is listed in `PROJECT.json`.
