# A verification of MBC CQRS Serverless

MBC CQRS Serverless (`src/`) is a NestJS framework for event-sourced
applications on AWS: commands are appended to a DynamoDB table, DynamoDB streams
start Step Functions executions that carry each command into the read models,
and queues, notifications and further state machines run tasks and imports. All
of its code runs in short-lived Lambdas that share nothing but tables, queues
and task tokens. This directory models the parts where that makes correctness
hard, model-checks them with TLC, and proves the central properties with TLAPS:
every safety property that a run checks has a theorem, for any number of
commands, handlers, users, items, clients, sub-tasks, files, rows and deliveries.
Liveness is model-checked.

- [The system](#the-system): its parts, their state, and what makes them hard
- [The modules](#the-modules), and how they correspond to the code
- [The runs](#the-runs): what each shows, its bounds, the fairness it assumes
- [Faults that no run allows](#faults-that-no-run-allows), and what they break
- [Findings](#findings)
- [The proofs](#the-proofs)
- [What is not modelled](#what-is-not-modelled), and the [plan](#plan)

To run: `tlc -config MCCommandSync_order.cfg MCCommandSync.tla` and likewise for
the others; `tlapm CommandSyncProofs.tla` and likewise for the proofs. `PROJECT.json` lists
the components, the hazards with their lines in the source, the runs, the
theorems, for each definition the lines that it models, and for each checked
property a mutant: a plausible bug, defined in the module beside the definition
it replaces (`Seeded bug`), that makes TLC report the property violated.

## The system

| Component | State | Operations | Where |
|---|---|---|---|
| Command tables | rows `pk, sk@version` of the command table with `status`, `taskToken`, `syncMode`, `ttl`; the data table (one row per item, with the version it shows); the history table | conditional put; `updateStatus`, `updateTtl`, `updateTaskToken`; `HistoryService.publish`; `DataService.publish` | `core/src/commands`, `core/src/data-store` |
| Command pipeline | the state of each version's execution, its task token | `publishAsync`, `publishPartialUpdateAsync`, `publishSync`, `duplicate`; stream to execution; the states `check_version`, `wait_prev_command`, `set_ttl_command`, `history_copy`, `transform_data`, `sync_data`, `finish` | `core/src/commands/command.event.handler.ts`, `cli/templates/infra/libs/infra-stack.ts` |
| Read-your-writes | session rows user x item -> version, with a TTL | session write after a publish; `getItem`, `listItemsByPk`, `listItems` with merge; purge in the background | `core/src/commands/repository.ts`, `core/src/data-store/session.service.ts` |
| Task | rows of tasks and sub-tasks with a status; a parent's counts | insert, QUEUED, run a task, fan out into sub-tasks, count them | `task/src` |
| Import, jobs | rows of `import_tmp` for a ZIP and its CSV files; the ZIP state machine's token in a CSV job's row | insert, QUEUED, start the CSV state machine, rows to SQS, finalise, answer the token | `import/src` |
| Import, rows | single rows in `import_tmp`, batches in SQS only, counters in the parent job | compare, publish, count, finalise (by the last row or by `csv_loader`), the end of the row's command | `import/src/event/processor` |
| Sequence | a counter for each code and period | atomic add, formatted number | `sequence/src` |
| Directory | folders and files with a parent, their ancestors and permissions that children inherit | create, copy, move, update, rename, permissions, remove, restore, each after a walk up to the root | `directory/src` |
| Tenant | tenants with the groups of each role, in an order that is automatic or customised | create, update, delete, add a group, customise | `tenant/src` |
| Master settings | one setting at the levels user, group, tenant, common | create, upsert, update, delete; lookup level by level | `master/src/services/master-setting.service.ts` |
| Master data, UI settings, surveys, generated services | plain items of the command service | create, upsert, bulk upsert, update, delete, copy to another tenant | `master/src`, `ui-setting/src`, `survey-template/src`, `cli/schematics` |
| Notifications, event bus, authorization, CLI, MCP server | none that outlives a call | | `core/src`, `cli`, `mcp-server` |

**Interactions.** A caller only writes to the command table. Its stream starts
one execution per asynchronous command; executions of successive versions of an
item overlap and coordinate by reading each other's rows and by sending each
other's task token back to Step Functions. `sync_data` gives the command to each
data sync handler: one writes the data table, the others maintain the
application's own read models. `finish` notifies; queues built on that feed
tasks and imports. Tasks and imports follow the same pattern: the insert of a
row makes an event handler send a message and then mark the row, a queue handler
takes the message at least once and starts a state machine, whose branches
report back through SNS and SQS.

**What is hard.** Nothing locks. Executions interleave at every single request;
data reads are eventually consistent; a Lambda can fail between any two requests
and be invoked again; messages come twice and in any order; rows are rewritten
whole from copies read before; a wake-up (a task token) can be sent only to one
who already waits. `PROJECT.json` lists these hazards at their lines. What
makes the components correct in spite of them:

- *Pipeline*: the log is append-only; the data table moves through the versions
  one by one; a status of `finish` can be trusted; no command waits for one that
  is over; each past state of the data row is archived; every command succeeds.
- *Read-your-writes*: as long as their session is there nobody is shown an older
  state of an item than one of their own that they were told of, however old the
  data row that is read; nobody is shown another's pending command; a total is
  that of the list it comes with.
- *Task*: COMPLETED is written only when everything ran; it is written in the
  end, with every sub-task counted, whatever was delivered twice, in all but three
  cases, which are named ([when a job does not end](#when-a-job-does-not-end)).
- *Import, jobs*: COMPLETED is written only when all rows are queued; every job
  ends, and the state machine that waits for it goes on, unless a failure hits
  one of the places where the code catches nothing (the same section).
- *Import, rows*: COMPLETED is written only for a row that has its command, and
  for a job only when all its rows have; no row is applied on top of itself,
  whatever is delivered twice; every row and its job end.
- *Services*: nothing published meanwhile is lost or replaced unseen. A create
  takes the place of a deleted item only; groups added at the same time are all
  there; the directory stays a tree; no state of an item is replaced by one whom
  it denies that, if the walk saw the newest row; a lookup misses a setting that is
  in force only when a read was old or an error was swallowed.
- *Sequence*: no formatted number is issued twice.

## The modules

| Module | Models |
|---|---|
| `AggregateLog` | the abstract promise of the pipeline for one item: `Accept`, `Archive`, `Apply`, in order |
| `CommandTables` | the three tables for one item and each service method that is one request |
| `CommandSync` | the pipeline: callers, executions, the Lambda of `wait_prev_command`, failures |
| `CommandSyncInv` | its inductive invariants `LogInv`, `OrderInv`, `HandshakeInv`, `HistoryInv`, and the refinement mapping `Log` to `AggregateLog` |
| `CommandSyncProofs` | the theorems about the pipeline |
| `ReadYourWrites` | sessions and the three reading methods, for several users and items |
| `StepFunctionTask` | one task, plain or with sub-tasks |
| `ImportJobs` | the jobs of one ZIP archive |
| `ImportRows` | single rows and batches from SQS to the data table, and the counters of their job |
| `ItemStore` | the command service as other packages use it: many items, a data table behind its log |
| `MasterItems` | master data, UI settings, surveys, generated services, on `ItemStore` |
| `Directory` | the directory, on `ItemStore` |
| `TenantSettings` | tenants, and a setting looked up through the levels that their groups give, on `ItemStore` |
| `NumberSequences` | counters, their periods, formatted numbers |
| `ReadYourWritesProofs`, `StepFunctionTaskProofs`, `ImportJobsProofs`, `ImportRowsProofs` | the theorems about these |
| `ServiceProofs` and `DirectoryProofs`, on `ItemStoreProofs` | the theorems about the services: `MasterItems`, `TenantSettings` and `NumberSequences` in the first |
| `MCStores` | `MasterItems`, `Directory`, `TenantSettings` and `NumberSequences` in one instance, one service at a time |
| `MC...` | instances for TLC |

### CommandTables and CommandSync

One item (`pk`, `sk`) is enough, as nothing in the pipeline relates two of them.
A version is a number; a row keeps `mode` (`syncMode`; NONE is a row that is not
there), `status` (a pair of state and phase; the code's string
`finish:STARTED` is `<<"finish", "STARTED">>`) and `token` (the version whose
execution the task token belongs to, 0 if there is none). A read model is
represented by the version it was last given (`view`), and `handled` remembers
all it was ever given. `Dds` is the handler of the data table.

Each action is what one Lambda does up to and including one request that others
can observe:

| Code | Actions |
|---|---|
| `publishAsync`; `publishPartialUpdateAsync` and `duplicate` | `PublishAsync`; `ReadBase`, `PutDraft` (they keep an item in memory between read and put) |
| `publishSync`, in the caller's request | `PublishSync`, `SyncTtlRead`, `SyncTtlPut`, `SyncHistory`, `SyncPublishData`, `SyncHandler`, `SyncFinish`, `SyncFail` |
| stream -> `startExecution` | `Deliver` |
| `execute`: `<state>:STARTED`, `<state>:FINISHED`, and what Step Functions does next | `Begin`, `End` with `NextStep` |
| `checkVersion`, `setTtlCommand`, `historyCopy`, `transformData`, `syncData`, `checkNextToken` | `CheckVersion`, `SetTtlRead`/`SetTtlPut`, `HistoryCopy`, `TransformData`, `SyncData` per handler and `SyncDataAllDone`, `CheckNextToken` |
| `waitConfirmToken`, whose Lambda runs on although the execution may be resumed meanwhile | `WaitBegin`, `StoreToken`, `SelfResume`, `WaitEnd`, `WaitFail` |
| failed Lambda, retried Lambda, the 24 hours of `taskTimeout` | `StepFail`, `Retry`, `Timeout` |

`updateTtl` reads the predecessor's whole row and puts the whole row back, so
it is two actions with `snap` between them. The read of the version's existence
before a conditional put is not an action of its own: a stored version stays
stored, so the condition of the put decides. A data read that is not consistent
may return any version the data row ever had (`DataRead`, fault `stale`).

`Callers` and `Faults` select who publishes and what may go wrong, so that a
property can say what it depends on.

### ReadYourWrites

Users run one request at a time. `publishAsync` is its put and, as another
step, the write of the session row; `getItem` reads the session and, as another
step, the data row; the lists read a page first and merge the sessions next. In
between, other users publish and the read models move (`SyncData`, `SyncRds`).
No read of a data row is consistent (`dynamodb.service.ts:118-133`, and the
queries): each may return any version from `settled`, which every copy of the
table has, to `data`, so the second of two reads may be older than the first
(`DataRead`, in every run). `Settle` moves the last copy on. Session rows and
the commands that they name are read as they are, unless the fault `stale` is on;
then a session row may be missing or old, and a command not found, for which
`getItem` reads the data row again and the list leaves its row alone.
The deletes that a read leaves running in the background are `Purge`. `shown`
and `total` are the answer, `floor` the version the user has a right to see:
what this user published or saw. `Purge` lowers it to `settled`: the code deletes
a session when *one* read showed its version, although the next read may go to a
copy that is behind. `mbc-debug/SKILL.md:301` says that the session is not needed
once the write is visible; what the model shows is that from then on the user is
served by eventual consistency alone.
A deletion is a version in `gone`. An item's attributes do not matter, so a
row is its version, and the caller's key condition, filter and limit are a
nondeterministic page.

### StepFunctionTask

The row of the task exists (`Init`). `PublishTaskExecute` and `MarkQueued` are
the two steps of `TaskEventHandler`, for the task and for each sub-task.
`Process` ... `Fail` are `TaskQueueEventHandler` for one delivery of the
message, and `Die` is its Lambda ending early. `BeginBranch`/`EndBranch` are the
branches of the Map that this delivery started. A branch records an error and
goes on; `CompleteUnheard` is the write of COMPLETED whose publication fails,
after which the catch block runs. What is thrown in the catch block
(`task.sfn.event.handler.ts:60-69`), or a Lambda that dies, ends the execution:
`BranchDies` loses the branches that have not begun (`Aborted`), and `MapTimesOut`
is the 15 minutes of the state machine. `GetAllSubTask` and
`UpdateStepFunctionTask` are the two requests of `SubTaskQueueEventHandler`, for
each of the `Aggregators` that run at a time. As this takes only the parent's key
from a message, the queue is a number.

### ImportJobs

`current` is where the ZIP state machine is: the file whose token is open;
`aborted` that its execution ended with an error, or was never started.
`TriggerSingleCsvJob` puts the job of that file; `TriggerFails` is the same state
throwing, because of the file's name, the put, or its Lambda
(`zip-import.sfn.event.handler.ts:61-72`; `serverless.yml:481-498` has a Retry for
errors of the Lambda service and no Catch). `PublishImport` and
`MarkQueued` are `ImportEventHandler`, `ProcessCsv`, `StartCsvExecution`,
`StartFails` are `CsvImportQueueEventHandler` for one delivery, whose Lambda may
also die or fail in its catch block (`HandlerDies`). `SendRows`,
`FailRows`, `CrashRows` are the ends of a branch of the CSV Map,
`FinalizeParentJob` its last state, which has no Catch either
(`FinalizeParentFails`: the job stays as it was, or has its end with nobody
told), and `ImportStatusHandler` answers the token, if the execution that waits
still runs. The Retry of the two state machines on errors of the Lambda service is
not modelled as steps: a state fails when its retries are used up. `notices`
is a set: a second message with the same content has no effect that the first had
not.

### ItemStore and the services on it

What `CommandSync` promises is the interface here: `log[i]` is the sequence of
commands of item i, `synced[i]` the version in the data table, which `Sync`
moves one at a time. A first read that returns an older row is a call that began
earlier, and no step of its own. That the row follows in order is a theorem for
`publishAsync`; most services call `publishPartialUpdateAsync`, with which the
finding `partial` may skip a command, and that is left out here. A call is a
record in `call[client]`: `Begin` is the read of the data row with the checks on
it, `Publish` the conditional put. Between the two anything may happen. A call that is refused throws (`Refused`); one that
changes nothing is not published (`NotDirty`), and its caller goes on. An item's
state is what its properties tell apart: `deleted` ("unset" where the code leaves
`isDeleted` undefined) and a value. `publishAsync` refuses by the condition of
its put; its earlier read is no step of its own, as a log never shrinks.

`MasterItems` has one action per method and one `...Spec` per service, which is
what the theorems are about. `UpsertBulk` writes one item after the other
(`todo`); `Copying`/`CopyWrite` are the two reads of a copy between tenants;
`CheckSetting` is the read of the setting that a data setting needs. `Fresh`
stands for a key from `ulid()`.

`Directory` numbers its items in the order of their creation: `Place` gives the
number, which stands for the ulid. `Walk` is one level of `getEffectiveRole`; it
reads any version of its row (`RowRead`), older ones than the call was built
from included, and `Place` does so for the parent. `seen` remembers what version
of the item itself was checked.
As the code does, it counts deleted folders, `CopyNode` asks for no permission,
and `MoveNode` publishes a copy under a new key and leaves the item where it is.

`TenantSettings` keeps, for each role, what `addTenantGroup` and
`customizeSettingGroups` maintain. Groups are numbers in the order of
`sortGroups`. A lookup is a record that goes through the levels, with reads of
any age (`AnyVersion`). An error of the tenant's read or of a group's is only
logged (`master-setting.service.ts:163-165`) and the lookup goes on with the
tenant's own and the common setting (`LookupSwallowsError`); any other error
reaches the caller (`LookupThrows`). For `LookupIsNotStale`, `since`, `levels` and
`first` remember what was in force when it began, and `missed` that a read
returned an older row than there was then, or other groups.

### NumberSequences

`Ask` computes the period and the parts of the date, `Issue` is the atomic
increment; requests interleave with each other and with the clock (`Tick`).
A period is a triple, a formatted number the number with the parts of the date
that the format shows: formats that run both together are out of scope.
`ShowsItsPeriod` says when a format can tell periods apart. For a fiscal year
this takes a start in April, since `getRotateValue` knows no other.

### ImportRows

A delivery `<<message, k>>` is one Lambda with a message, and one client of
`ItemStore`. `Compare` is `strategy.compare` with the build of a command,
`PublishRow` the publication, `AfterRow` what a failure or a success means: the
catch block of a single row, the next row of a batch and its collected errors.
`Complete`, `IncrementParentJobCounters` and `FinalizeParent` follow as steps
of their own, and so does `CsvLoader` with `CsvLoaderFinalizes`, the other one
that may end the job. `SyncRow`, `FinishFails` and `SyncFails` are the end of a
row's execution; `CommandFinished` takes its notice, at any time. A batch
has the id of its CSV job as source, which `CommandFinishedHandler` ignores, so
only single rows get notices.

## The runs

"States" are distinct states. All runs are complete searches. `Deadlock` is not
checked, as each of these systems stops when its work is done; that it does not
stop before is what the liveness properties say.

| Run | Instance | Checks | States |
|---|---|---|---|
| `log` | 2 versions, 2 handlers, all callers, all faults | `AppendOnlyLog`: a stored command is never replaced or removed, and versions have no gap | 82 000 |
| `order` | 3 versions, 2 handlers, `publishAsync` and `publishSync`; failing Lambdas, timeouts, stale reads | `DataInOrder`; `FinishMeansSynced`; `TokenKept`; `NoLostWakeup`; the inductive invariant `HandshakeInv` | 516 000 |
| `live` | 3 versions, 2 handlers, `publishAsync`, no faults | `HistoryComplete`; `EveryCommandSucceeds`; `ImplementsAggregateLog` | 15 000 |
| `own` | 2 users, 1 item, 2 versions; data rows of any age, lost sessions | `GetSeesOwnWrites`, `ListSeesOwnWrites`, `PendingIsPrivate`, `TotalIsListed` | 277 000 |
| `task` | 2 sub-tasks; 2 deliveries, or 2 aggregators; failing work and calls, dying Lambdas | `CompletedMeansAllRan`, `TaskReportsItsEnd` | 490 000 |
| `zip` | a file of 2 batches, a file with only a header; 2 deliveries; failing starts, rows and branches, dying Lambdas, redelivery | `CompletedMeansAccepted`, `ImportEnds` | 167 000 |
| `stores` | one service at a time; 2 clients, 3 commands in a run of it; 2 folders; 2 groups; 3 codes over 4 days | `CreateNeverReplaces`, `DeletesOnlyMark`; `TreeIsWellFounded`, `AncestorsAreParents`, `ReplacedAsAllowed`; `GroupsSurvive`, `AutoGroupsAgree`, `LookupIsNotStale`; `FormattedIsUnique` | 808 000 |
| `rows` | 2 rows of a CSV job, or 1 with a batch or a third row for its item; 2 deliveries; failing strategies and commands | `CompletedMeansImported`, `RowsApplyOnce`, `ParentMeansRows`; `RowsEnd`, `ParentIsFinalized` | 88 000 |
| `sync`, `partial`, `handlers`, `rowfail` | | one property each that TLC violates: [findings](#findings) | |

**Why the bounds are enough.** Three versions give each handshake a chain: the
middle one waits for its predecessor while its successor waits for it, and
`updateTtl` of the third rewrites the row of a second that may still run. Two
handlers tell "some handler ran" from "all did". In `log` two versions suffice,
as it is about a row and the one that rewrites it, and the theorem covers all
numbers. Two users are an author and somebody else; two versions let a second
command land while the first is read, or its session deleted. Two sub-tasks let
one be counted before the other ends; two deliveries are the original and a
redelivery that overlaps it, two aggregators an older and a newer count. `task`
takes the two in turn (`scope`): "twice" has one aggregator and no
`CompleteUnheard`, "overlap" one delivery. In `zip` the message of the second file,
which has no branch to tell apart, comes again only after its handler failed. Two
batches make "one lost, one queued"; the empty
file is the case in which the Map reports an error that is none; two files let
the first fail and the second be the one that answers last.

In `stores` the variable `subject` chooses a service, so that the states are the
sum of what the services have and not the product: they share no item. Three
commands are a create, one that replaces it and one that competes with that.
The second client does only some of what the first does (`Second`): in the
directory it renames, in master data it creates and deletes, as each property
needs two writers, one of which is of every kind. In the lookup one client writes
while the reader reads. Two nodes are a folder and an item that could be moved
into itself; that longer cycles are excluded is `NoCycleOfParents`. The days are
on both sides of New Year's and of the first of April, and in the next fiscal
year. `rows` likewise takes two messages at a time (`together`); all of them are
about one item, with equal values in two of them, so that commands compete and
EQUAL happens, and the batch has a second item, so that one of its rows may fail.
The retry is the second delivery; `Redelivered` are those that may come twice
without cause as well, a third row and a batch, but no child (see faults).

**Fairness.** `CommandSync!Fairness`: AWS delivers every stream record, and each
execution, each Lambda and each request runs on (weak fairness per version), and
the 24-hour timer fires. Callers need not publish, and nothing need fail.
Branches of one version share a fairness condition; that is enough, since each
action of an execution leads on. `StepFunctionTask!Fairness`: the stream
and the queues deliver, the first delivery of `task-execute` happens; a second
one need not; every handler, branch and aggregator that does not die runs on.
`ImportJobs!Fairness`: the same, and SQS delivers again after a handler threw or
died; an execution that was begun goes on to its end unless it fails, and so does
the ZIP state machine. A failure or a death is never owed.
`ImportRows!RowsFairness`: the stream and SQS deliver, again after a
handler threw; each Lambda runs on, notices are handled, and commands are
synchronised unless they fail. A row or a redelivery need not come.
No action is strongly fair.

### When a job does not end

`TaskReportsItsEnd` and `ImportEnds` say "unless", because the code has places
where a failure leaves a row at PROCESSING and nothing looks after it. TLC finds a
counterexample as soon as one of these outs is taken from the property.

| Out | In the code |
|---|---|
| `GivenUp`, a handler that failed | `TaskQueueEventHandler` writes FAILED and throws, or its Lambda ends before it wrote anything; a later delivery need not come |
| `GivenUp`, a branch that is lost | the Lambda of a branch dies or throws in its catch block; `map_state` has no Catch, so the execution ends with the sub-task at PROCESSING and the others not begun |
| `Overlap` | the Lambdas on the sub-task-status queue run concurrently (`infra-stack.ts:1165`), each reads all sub-tasks and writes the parent unconditionally: of two counts that differ in whether all is over, the older may be written last |
| `aborted` | `trigger_single_csv_and_wait` throws, `finalize_zip_job` fails, or the Lambda of `createZipJob` dies before the start: the ZIP job stays at PROCESSING |
| `FileGivenUp`, an execution that is aborted | `finalize_parent_job` fails: its CSV job stays as it was, or ends with nobody told, so the token of the ZIP job is never answered |
| `FileGivenUp`, the last delivery failed | every delivery fails until SQS gives the message up (when its retention ends, as `import-action-sqs` has no dead letter queue); the model does so after `MaxDeliveries` |

For every other file and delivery the promise stands: `ImportEnds` is per file,
so that a file that was given up takes the ZIP job with it, and no other CSV job.

## Faults that no run allows

Some faults are defined in the modules but switched off in the runs that check
the properties they break, because the code does nothing against them or makes
no promise. They are named here so that what the properties do not say is
clear. With the fault switched on, TLC reports the violation.

| Fault | Breaks | Because |
|---|---|---|
| `retry` (CommandSync) | `DataInOrder` | `DataService.publish` is an unconditional put: `sync_data` of v, invoked again after v + 1 was synced, takes the data row back |
| `late_end` (CommandSync) | `NoLostWakeup` | the Lambda of `wait_prev_command` writes `wait_prev_command:FINISHED` over `finish:...` if it sleeps through four states of its own execution |
| `lost_resume` (CommandSync) | `NoLostWakeup` | a `SendTaskSuccess` that fails for good raises an alarm only |
| `stale` (CommandSync) | `HistoryComplete` | `HistoryService.publish` reads the data row eventually consistently and may archive an older state again |
| `late_purge` (ReadYourWrites) | `ListSeesOwnWrites` | the delete of a session is unconditional: one that is still under way removes the session of the user's next command |
| `stale` (ReadYourWrites) | `GetSeesOwnWrites` | the session row, and the command it names, are read without `ConsistentRead` and may not be there yet. Data rows are read so in every run |
| `rds_first` (ReadYourWrites) | `GetSeesOwnWrites` | `listItems` deletes a session when the external read model has caught up, though the data table has not |
| `late_queued` (ImportJobs) | `ImportEnds` | `ImportEventHandler` writes QUEUED after it sent the message, so QUEUED may replace COMPLETED for good |
| `late_queued` (StepFunctionTask) | `TaskReportsItsEnd` | the same in `TaskEventHandler`: a sub-task left at QUEUED counts neither as ended nor as running, so its parent stays PROCESSING |
| `stale_query` (StepFunctionTask) | `TaskReportsItsEnd` | the query of the sub-tasks is eventually consistent: the one for the last message may miss the end of a sub-task, and no message comes after it. `CompletedMeansAllRan` holds all the same |
| `late_queued` (ImportRows) | `RowsEnd` | the same for a single row |
| `frozen` (ImportRows) | `RowsEnd` | `publishAlarm` throws while the write of FAILED is under way; the Lambda may end before it |
| `Redelivered` with a child (ImportRows) | `ParentMeansRows` | the counter of a parent has no memory of which rows it counted: two deliveries of one row make the job COMPLETED with another row still to come |
| `own_ancestors` (Directory) | `AncestorsAreParents` | `update` spreads the caller's attributes over the item's, and checks only that `parentId` is the same |
| `midnight` (NumberSequences) | `FormattedIsUnique` | the period and the fiscal year come from two reads of the clock |

## Findings

Each is a run whose property TLC violates; the counterexample is short and runs
through the code as it is.

- **`sync`** (`command.service.ts:325`). `publishSync` finishes its command
  without looking for a waiting successor; only `checkNextToken` of an execution
  does. An asynchronous command that checked its version before the data row was
  written, and read the predecessor's status before it was `finish:FINISHED`,
  waits for 24 hours and then fails. `WakeupsAreNotLost` proves, under
  `Reliable`, that nobody is left so by an *asynchronous* predecessor.
- **`partial`** (`command.service.ts:233`). `publishPartialUpdateAsync` spreads
  the item it merges into over the new command and drops only `syncMode`. Its
  `status` and `taskToken` go along. A new command with an inherited
  `finish:FINISHED` looks synced from the start: the version after it resumes
  itself and overtakes it, so that one is skipped or late.
- **`handlers`** (`command.event.handler.ts:259`). `check_version` takes the
  data table's version for the predecessor's progress, but `sync_data` runs
  its handlers in parallel. Once the data table has v, v + 1 may go through all
  its states while a slow custom handler for v has yet to run; then that
  handler's read model goes back from v + 1 to v. It stays behind until
  another command.
- **`rowfail`** (`single-import.processor.ts:89`). The catch block of a row calls
  `publishAlarm(payload)`, which reads `event.importEvent.importKey`
  (`import.service.ts:614`), but this payload is the `importEvent` itself
  (`import.queue.event.handler.ts:25`). So it throws a TypeError, and the block
  ends before "inform the parent it failed" (:92). `failedRows` of the job never
  counts the row, and the job never ends by its counters. The unit test of this
  path mocks `publishAlarm`. `ParentMeansRows` shows that at least COMPLETED is
  not told of such a job.

One more divergence needs no model: `packages/import/README.md:231` and `:249`
say that a FAILED job answers with `SendTaskFailureCommand`; the code
(`import-status.queue.event.handler.ts:66-88`) always sends success, with
`importJobStatus: FAILED` in the output, and `ImportJobs` models that.

## The proofs

The theorems about the pipeline hold for every `MaxVersion`, every set of `Handlers` and, unless
they assume otherwise, all `Callers` and all `Faults`. The constants' assumptions
are `MaxVersion \in Nat \ {0}`, `Dds \in Handlers`, and that `Callers` and
`Faults` are among those the module names. The number of handlers need not even
be finite.

**The log** (`CommandSyncProofs`). `TypeCorrect`; `LogInvariant`;
`LogIsAppendOnly`. That a stored row keeps being that command is not inductive
by itself: `updateTtl` and `PutDraft` write rows they hold in memory. `LogInv`
adds that what they hold is of a stored command (`SnapOfPredecessor`,
`DraftOfStored`), that nothing runs for a version that is not stored
(`OnlyStoredRuns`, `OnlyStoredHandled`), and that versions are `Contiguous`.

**The order** (`CommandSyncProofs`), assuming
`Orderly == Callers \subseteq {"async", "sync"} /\ "retry" \notin Faults`:
`OrderInvariant`, and from it `NothingSkipped`, `DataMovesInOrder`,
`FinishIsTrustworthy`, `TokenStaysInRow`. The argument: a version passes the
gate (goes on after `check_version` or is resumed) only if its predecessor is in
the data table (`GateIsSound`). It passes by its own look at the data row, by the
predecessor's `finish`, or by its own look at the predecessor's status. For the
last two a status of `finish` must imply that all handlers ran, not only in the
row but in each copy that `updateTtl` will put back (`FinishIsSound`,
`SnapIsSound`), and a token in a row must be that row's own (`TokenIsOwn`).
That a stale read is harmless is `DataIsPrefix`: it can be too low, never too
high. The assumption is needed: `partial` and `duplicate` copy statuses and
tokens (finding `partial`), and `retry` undoes the order.

**The handshake** (`CommandSyncProofs`), assuming
`Reliable == Orderly /\ "late_end" \notin Faults /\ "lost_resume" \notin Faults`:
`WakeupsAreNotLost`. The two sides each write, then read: the successor its
token, then the predecessor's status; the predecessor `finish:STARTED`, then the
successor's token. `HandshakeInv` says what must survive between the write and
the read although others rewrite the same rows: `StatusKept` (nobody but the
successor, later, overwrites the finishing status) and `TokenKept`; and
`NoneLeft`: if the successor has looked in vain, the predecessor still will.

The inductive invariants are checked by TLC as well (`order`: `HandshakeInv`,
of which `OrderInv` and `LogInv` are conjuncts).

`HandshakeInvariant` states it for the property that `order` checks.

**The archive and the refinement** (`CommandSyncProofs`), assuming
`Archiving == Orderly /\ "stale" \notin Faults`: `HistoryInvariant`,
`HistoryStaysComplete`, `PipelineImplementsLog`. `PastIsArchived` is what makes
`HistoryComplete` inductive: a version that is past its `history_copy` has its
predecessor in the history table, so that the put into the data row overwrites
nothing that is not kept. It stands on `OrderInv`: because versions reach the data
row in their order, what `history_copy` of v reads there is v - 1. The
refinement maps each step of the pipeline to one of `AggregateLog` or a stutter:
a stored row is an `Accept` (versions are `Contiguous`, so the number of stored
rows grows by one), the first archive of a version an `Archive`, a put into the
data table an `Apply`, which finds its predecessor archived by `PastIsArchived`.
The theorem allows failing Lambdas, timeouts, lost wake-ups and `publishSync`, all
of which `live` leaves out; what it leaves to `live` is that the log keeps moving.
The assumptions are needed: `stale` and `retry` break it (see faults), and so
does the finding `partial`.

**Read-your-writes** (`ReadYourWritesProofs`), for any `Users`, finite `Items` and
`MaxVersion`. With all `Faults`: `ReadInvariant`, `ReadTypeCorrect`,
`PendingStaysPrivate`, `TotalsAreListed`. `ReadInv` says that versions have no gap
and no read model is ahead of them, that a session row, and a request that took
from one, holds a version of the user's own, and that a page holds no more than
the read model it came from and is counted as it is; so what is merged into an answer is
either the reader's or synced. Assuming
`Timely == Faults \cap {"stale", "late_purge", "rds_first"} = {}`:
`FloorInvariant`, `GetShowsOwnWrites`, `ListShowsOwnWrites`. `FloorInv` says where a
version that a user has a right to see is found when a copy of the data table
lags: in the session row (`SessionsCover`, for what is not `settled`), in what the
running request took from it (`RequestsCover`), and that the delete of a session
is under way only when the data table has caught up (`PurgesAreSafe`). Nothing is
assumed of the reads of the data table. Sessions may be lost at any time. Each
of the three faults breaks one of the properties, as the table above says.

**Tasks** (`StepFunctionTaskProofs`), for any finite `Subs`, any deliveries,
aggregators and all `Faults`: `TaskInvariant`, `TaskTypeCorrect`,
`CompletedIsTrustworthy`. A parent is set to COMPLETED from a snapshot of its
sub-tasks that some Lambda read earlier. `TaskInv` says that whatever can lead to such a
snapshot (a branch, a message) exists only after every sub-task has its row
(`OnlyOfStored`), as an end counted from half of the rows would be wrong; and that
a sub-task whose row, or whose snapshot, says that it ended has run
(`EndedHasRun`). Late QUEUED marks and redeliveries only take such a status back.
The type theorem bounds the messages: each branch announces its start and its end.

**Import jobs** (`ImportJobsProofs`), for any number of files, `Batches` and
deliveries and all `Faults`: `ImportInvariant`, `ImportTypeCorrect`,
`CompletedImportsAreAccepted`. The status of a CSV job reaches the ZIP job's row
through a message, a token's output and the output of the Map; `CompletedIsTrue`
says that COMPLETED is true in each of them, and `Answered` that the Map has gone
past a file only with an answer. Lambdas may die in every state: what they leave
undone never makes COMPLETED untrue.

**The services** (`ServiceProofs`, on lemmas in `ItemStoreProofs`), for any
`Items`, `Clients`, `MaxVersion` and `Values`, one theorem per specification:
`MasterDataIsNotReplaced`, `UiSettingsAreNotReplaced`, `SurveysAreNotReplaced`,
`GeneratedItemsAreNotReplaced`. Each is `CreateNeverReplaces` and `DeletesOnlyMark`.
About the log alone they are not inductive: `MasterInv` adds what a running call
knows. The state it is about to publish follows from the one at the version it
read (`SoundCall`, `ReadyCall`), and a log never changes at a version that it has;
so if the put is not refused, what it replaces is what was read.

**Tenants and settings** (`ServiceProofs`), for any `Roles`, `Groups`, `Contents`,
clients and bounds, assuming only `KeysAssumption` (the rows of settings and those of
tenants have different keys): `TenantInvariant`, `TenantsAreNotReplaced`,
`GroupsAreKept`, `GroupsAreSorted`, `LookupsAreNotStale`. `TenantInv` is as
`MasterInv`, with `Follows` for what a command owes to the state it replaces: all of its
groups. The states themselves are those whose two lists agree (`RoleGroups`); that
`UpdateAttribute` leads from one to another rests on the lemma `Sorted`: the result
of `SortGroups` has the same groups, each once, in increasing order. `SortGroups` is
therefore defined by the rank of a group and not with `SortSeq`, which the prover does
not know. `LookupInv` follows a lookup, with reads of any age and swallowed errors:
unless it `missed`, what was found first when it began is still found, since a row
is never taken away, and lies at or behind the level the lookup asks next
(`NotPassed`); an error only shortens the list to `TenantLevels`.

**The directory** (`DirectoryProofs`), for any `MaxNodes`, `Clients`, `Permissions`
and `Names`, assuming `"own_ancestors" \notin DirectoryFaults`:
`DirectoryInvariant`, `NoCycleOfParents`, `AncestorsAreTheParents`,
`NoReplacementDenied`. The argument: an item never changes its place
(`PlacesAreKept`), because every call takes parent and ancestors from some state
of the item (`CallFor`), and a new item is placed below one that has a number
already (`NodesInOrder`), which is smaller. For permissions, `CallFor` says that
a call past its walk was granted by the version it saw. If that is the one the
call was built from, it is the one that is replaced, or the put is refused; if it
is newer, the put is refused; if it is older, that older state allowed it.

**Sequences** (`ServiceProofs`), for any codes, dates, callers and length
of months, assuming `"midnight" \notin SequenceFaults`:
`FormattedNumbersAreUnique`. `SequenceInv` says that every number was formatted
for a date of its period, and that a counter is ahead of all it issued; two equal
numbers are then of two periods, and the lemmas on dates show that a format that
shows its period differs there.

**Imported rows** (`ImportRowsProofs`), for any messages, contents, deliveries and
all `RowFaults`: `RowsTypeCorrect`, `RowsInvariant`, `CompletedRowsAreImported`,
`RowsArePublishedOnce`. `RowsInv` follows each delivery (`WorkIsSound`): which of
its rows have commands, and that the call it makes is for the row it compared,
so a put on top of the row's own command is refused or not dirty; and it says that
a notice is only for a row that has a command (`ToldOnlyImported`).
`CompletedParentMeansRows` assumes `Redelivered \cap Children = {}` (no child
comes again without cause). `ParentInv` says that `processedRows` is the
number of children past their count, so it reaches the total only with all.

**Model-checked only.** Liveness (`EveryCommandSucceeds`, `TaskReportsItsEnd`,
`ImportEnds`, `RowsEnd`, `ParentIsFinalized`) and the fairness in
`ImplementsAggregateLog` are temporal properties under fairness, which the
prover does not treat. All the other properties of the passing runs are proved.
The four findings are properties that do not hold, each with TLC's counterexample.
The theorems are about the specifications in the components' modules (`Spec`,
`MasterDataSpec`, ..., `TenantSpec`); a run of `stores` takes some of their steps
only, as its `Second` restricts the second client.

## What is not modelled

- The Retry of the state machines of tasks and imports on errors of the Lambda
  service, and reads of `ItemStore`'s services that fail (a call then ends without
  a publication, as one that never began).
- Attributes of commands, S3 offload of large ones, and TTL values.
- `publishPartialUpdateSync` (its checks are `publishSync`'s), `reSyncData`, and
  a stream record delivered twice (the name of an execution ends with the time,
  so there would be two of them).
- Imports: a strategy that is not registered (a row then ends FAILED at once), the
  local orchestration of several files, and the parsing of a file into rows.
- Directory: the objects in S3, which `removeFile` deletes before it publishes;
  permissions by e-mail, tenant or general access (a permission is a role for each
  client); lists and the history's paging.
- Master data: lists and counts from RDS, the `seq` of a new item, which is the
  largest in RDS plus one and so the same for items created at one time, and the
  copy of sequences between tenants (`shouldCopySequence` compares the target's
  counter with itself, so it never copies).
- Sequences: the text of a number, of which only the parts are kept, and
  `isIncrementNo`, which nothing calls.
- Generated services of mode `sync`: they write with `publishSync`.
- Role guards, notifications, the event bus, authorization, the MCP server and
  the CLI itself: no state that outlives a call. These, and the CLI's templates
  and the test utilities of `core/src/integration`, are most of the lines that no
  definition stands for.

## Plan

What could follow, the most valuable first:

1. A theorem that ties the two layers: what `ItemStore` assumes of the pipeline
   (a log that only grows, a data row that follows it version by version) is what
   `PipelineImplementsLog` gives, stated as a refinement by both.
2. Stream redelivery as a fault of `CommandSync` (two executions of one version).
3. The composition of `ImportJobs` with `ImportRows`: files are started one after
   the other, but their rows are applied in any order.
