# DynaPlan: a formal model

DynaPlan is a connected-planning server: planning models made of modules, line items and
multi-dimensional cells, with formulas, scheduled integrations, uploads, workflows and
collaboration around them. The backend (`src/backend/app`) is one asyncio process per node
(FastAPI, SQLAlchemy's async ORM, PostgreSQL or SQLite, optionally Redis), with a calculation
core that exists twice: in Python (`app/engine`) and in Rust (`src/engine`).

This directory holds TLA+ modules of the parts of it whose correctness depends on the order in
which things happen, or on algorithms that a test can only sample; TLC configurations that check
them on small instances; and TLAPS proofs of their central invariants for all values of the
constants. `PROJECT.json` is the machine-readable
index: which definition stands for which lines, which run checks what, which change of the code
breaks which property, and which hazards the properties are aimed at.

## 1. Inventory

### Where behaviour is hard in this code

* **Requests interleave at every `await`.** Every HTTP request has an `AsyncSession` of its own
  (`core/database.py`: `expire_on_commit=False`, no isolation level set, so READ COMMITTED on
  PostgreSQL). A service function typically loads a row, checks it, assigns attributes and
  commits: a check-then-act over several suspension points, with no row lock and no version
  column anywhere. At a flush the ORM sends an `UPDATE` of exactly those columns whose new value
  differs from the value *this session* loaded, `WHERE id = <primary key>`. Two consequences
  recur in the models: a stale request may overwrite a newer value, and it may fail to write at
  all because what it wants to write equals the stale value it loaded.
* **The job executor** is pure asyncio: workers, runner tasks, retry timers and `stop()` share a
  registry and a queue; cancellation may arrive at any suspension point, including before a
  task's first step.
* **Two records of one fact**: a schedule row and its registration with APScheduler; a cell row
  and its mirror in the calculation engine; a counter and the rows it counts; the two directions
  of a dependency edge; a cell's key id and the key that encrypted its payload.
* **Nothing is restored after a restart** of what lives in the process: queue, registry, cron
  registrations, presence connections.

### Components

| Component | State | Operations | What makes it correct | Module |
|---|---|---|---|---|
| Background jobs `engine/job_executor.py`, `engine/job_registry.py` | job records, queue, workers, runners, retry timers, dead letters | submit, cancel, start, stop, worker loop, retry | legal transitions only; one runner per job; a cancelled job is not started; bounded retries; drain waits for exactly the work there is; every job ends | `JobLifecycle`, `JobExecutor` |
| CloudWorks `services/cloudworks.py`, `engine/job_scheduler.py` | schedules, runs, cron registrations | trigger, execute, complete, fail, retry, cron firing, enable, disable, delete, restart | a run is executed once and ends; retries are bounded; registration follows the row | `CloudWorks` |
| Cells, quota, encryption `services/cell.py`, `workspace_quota.py`, `model_encryption.py`, `engine/rust_bridge.py` | cell rows, keys, the engine's mirror | single and bulk write, delete, enable encryption, rotate key | no committed write disappears; the quota holds; every cell is readable under the active key; the mirror agrees | `CellStore` |
| Dependency graph `engine/dependency_graph.py` and its Rust port | nodes and edges in both directions | add, remove, build from formulas, calculation order, downstream closure, cycle search | dependencies come first; an order or a cycle; a recalculation is minimal | `DependencyGraph` |
| Chunked upload, batches, imports `services/chunked_upload.py` | upload row, chunk rows, batch row, import task | upload a chunk, complete, fail; add, commit, roll back; progress | complete means all chunks; closed uploads stay closed; additions are lost to overlapping ones only | `ChunkedUpload`, `Batches` |
| Workflow `services/workflow.py` | workflow, stages, tasks, approvals | status changes, submit, approve, reject, deletions | a status is what the approvals decided; a gate is passed when its tasks are approved | `Workflows` |
| Bulk operations `services/bulk_ops.py` | jobs, cells, workers | bulk write, copy, delete, cancel | counters add up; what a copy counts has arrived | `BulkJobs` |
| Presence `services/collaboration.py`, `api/collaboration.py` | presence rows, connection list, handlers | connect, announce, serve, leave, REST deletion | a served user is listed and has a row | `Presence` |
| Horizontal scaling `services/horizontal_scaling.py` | Redis, each node's memory | assign, cache, publish events; Redis fails, keys expire | nodes agree on the assignment; the newest events stay | `Scaling` |
| Calculation cache `services/calc_cache.py` | one row per line item | set, invalidate, recalculate, clear | a value is served under the hash it was computed with | `CalcCache` |
| ALM and snapshots `services/alm.py`, `services/snapshot.py` | rows and cells of models, tags, promotions, snapshots | lock, tag, initiate, complete, fail; snapshot, restore | a promotion carries its source and nothing else; a rollback or restore brings the model back | `ModelRows`, `Promotion`, `Snapshots`, `ModelCopies` |
| Formula engine `engine/parser.py`, `formula.py`, `evaluator.py` | none | parse, collect references, evaluate | the parser is the grammar; references suffice; functions agree | `Formula`, `FormulaFunctions`, `FormulaSeries`, `FormulaMembers` |
| Time calendar `engine/time_calendar.py` | none | generate periods, look one up, offsets, bounds | every day has its one period; offsets step through periods | `TimeCalendar` |
| Versions `services/version.py`, `rolling_forecast.py`, `whatif.py`, `scenario_compare.py` | versions, forecast configuration, scenario, cells | CRUD, switchover, roll, assume, promote, compare | a roll hides no value; promotion shows what the scenario evaluated to; comparisons agree | `Versions` |
| Planning `services/planning.py`, `engine/spread.py` | cells of a hierarchy | spread, aggregate, recalculate | children add up, at every level | `Planning` |
| Dimensions `services/dimension.py`, `composite_dimension.py`, item import | dimensions, items, intersections | CRUD, import, ensure an intersection | one intersection per combination; limits and codes of numbered lists; no item hidden but by a cycle | `Dimensions` |
| Time ranges `services/time_range.py` | ranges, assignments | CRUD, assign | ordered periods, one default, one effective range | `TimeRanges` |
| Data hub `services/data_hub.py`, `engine/pipeline_runtime/` | staging table, rows, lineage, published cells | replace, append, import, transform, publish, change schema | rows agree with `row_count` and schema; the module shows what was published | `Frames`, `DataHub` |
| Pipelines `services/pipeline.py` | run, logs, steps | execute, cancel, edit steps, process stop | an ended run explains itself and stays as it is | `Pipelines` |
| Gate of the public API `services/workspace_security.py`, `api_key.py` | policies, certificates, key, rate counter | update, register, revoke, call | a call is served as policies and limit say | `RequestGate` |
| Access control `services/rbac.py`, `dca.py` | members, permissions, grants, driver cells | change a role or permission, check a cell | changes by those who may; a check is what the rules say; write implies read | `CellAccess` |
| Provisioning `services/scim.py`, `sso.py` | users, one group, log | create, change, sign on, replace members | no user twice; every request does what it was sent | `Provisioning` |

Section 8 lists what is not modelled, and why.

### How components interact

```
 HTTP request ---> api/*.py ---> services/*.py ---> AsyncSession ---> database rows
      |                              |
      |  services/cell.py            +--> workspace_quota   (count, then insert)
      |                              +--> model_encryption  (key looked up per read and write)
      |                              +--> rust_bridge       (mirror, after the commit)
      |  services/cloudworks.py      +--> job_scheduler     (registration, after the commit)
 cron thread of APScheduler ----------> execute_scheduled_run -> trigger_run, execute_run
 engine/job_executor.py  <----------> engine/job_registry.py     (one event loop)
 services/planning.py, whatif.py, rolling_forecast.py, data_hub.py --> services/cell.py
 services/pipeline.py ---> engine/pipeline_runtime ---> services/cell.py (publish steps)
 services/alm.py --------> snapshots of its own shape; services/snapshot.py another
 services/calc_cache.py -> engine/dependency_graph.py (pure calls)
```

Calls are direct; shared state is the database and a few process-wide singletons (the executor's
registry, the CloudWorks runtime, the engine handles, the connection manager, the scaling
runtime). There is no message broker; Redis is optional and used by the scaling runtime only.

## 2. How the modules read

* One module per component; its header says what one step is. In the asyncio models one action is
  one uninterrupted segment between two suspension points of one task; in the database models it
  is one query, commit or refresh of one session.
* A request is a record in a function over sessions (`session`, `writer`, `request`, `hubRequests`,
  ...): where it is (`at`, `stage`) and what it has loaded. A model's *clients* are unconstrained:
  any operation may be called at any time. Constants such as `Operations` or `Calls` restrict them
  where a run asks a narrower question.
* Where the code keeps a promise only for a request that nothing overlapped, the request carries a
  history field (`alone`, `seen`, `disturbed`) and the property is stated with it. The overlapping
  cases stay in the model and the state they leave is what later requests start from.
* A definition `X_Something` above a definition `X` is a *mutant*: `X` as a plausible bug would
  have it. Each checked property has one in `PROJECT.json` that must make TLC report a violation;
  mutants are otherwise used nowhere.
* Counters are bounded by constants (`MaxStarts`, `MaxRetries`, `MaxKeys`, `Max...Ops`), each named
  and explained where it is declared.
* An `MC...` module gives a run its constants: `MCJobExecutor`, `MCCellStore`,
  `MCFormulas`, `MCRequests`, `MCModelCopies`, `MCPlanning`, `MCServices`. Components that do not
  interact are checked by one run: the variable `focus` (or `sheet`) says at the start which of them the behaviour is about,
  the others keep their initial state. The state space is the sum of theirs, not the product, and
  a property of one component is about its behaviours only. Symmetry is used in runs without
  liveness properties, over sets whose members the specification treats alike.
* `CHECK_DEADLOCK FALSE` stands in the configurations whose system really may stop: all jobs over
  and no more clients, all run ids used up, an upload closed, every request that may be made made.

## 3. The modules and the code

### `JobLifecycle` - the registry's promise

What `job_registry.py` promises of every job, whatever executor drives it: `ALLOWED_TRANSITIONS`
is the code's table; `Moves` adds what the table does not say but the executor's code relies on:
an attempt is counted exactly when a job becomes running, no attempt and no retry after a recorded
cancellation, failed only when the retry budget is spent. `pending` never appears, because
`submit()` registers and queues in one segment. It is the abstract specification of this project;
`JobExecutor` implements it: `Promise == INSTANCE JobLifecycle WITH ...` maps its four variables,
and `LifecyclePromise` is `Promise!Spec`.

### `JobExecutor` - the asyncio executor

State: the four record variables, `active` (the registry's task binding), `handlers`, `queue` with
`unfinished` (asyncio's join counter), `retryTasks`, `deadLetters`, `running`, one `stopStage` per
pool that `start()` ever created, and per worker `stage`/`wjob`/`cancelling`. A worker and the
runner it awaits share one `stage`; `spawned` is the window between `create_task` and the
runner's first step, in which a cancellation hits a coroutine that has not begun.

| Action | Code |
|---|---|
| `Start`, `Submit`, `Cancel` | `start`, `submit`, `cancel` |
| `StopNoDrain`, `StopDrain`, `StopEndsPool`, `StopReturns` | `stop`, split at `queue.join()` and `gather` |
| `WorkerStops`, `WorkerSkipsJob`, `WorkerStartsJob`, `WorkerResumes` | `_worker_loop`, split at `get()` and `await run_task` |
| `RunnerCancelledUnstarted`, `RunnerBegins`, `HandlerReturns`, `HandlerCancelled`, `HandlerFails`, `HandlerSurvivesCancel` | `_execute_job` with `_handle_failure`, split at the handler |
| `RetryWakes` | `_enqueue_retry` after its sleep |

The handler is the environment: it returns, fails, or ends cancelled, by a cancellation that
reached it or by a `CancelledError` of its own, which the runner does not tell apart; those of
`SwallowingJobs` may also swallow a cancellation, as Python code can. Fairness
(`FairSpec`) is weak fairness of workers, runners, retry timers and the two continuations of
`stop()`: the event loop runs every ready task, `asyncio.sleep` ends, and handlers are assumed to
end. No fairness is assumed of clients.

### `CloudWorks` - scheduled integrations

One schedule, its runs and its cron registration. A session is one request or one firing. The
split of `execute_run` into `BeginExecute`, `MarkRunning`, `RefreshRun`, `FinishRun` follows its
queries; `Writes` is the rule that an unchanged attribute is not sent. `Override` is the pair of
API endpoints that set a run completed or failed at will. `Restart` ends the process with what it
was doing. The connectors' work is a nondeterministic outcome of `FinishRun`. Fairness: a session
that has begun continues (`WF` of `Continues`); nothing obliges one to begin. A restart may leave a
run running for ever, which is why `RunsEnd` excepts it. Row ids are handed out in order
and not used again.

### `CellStore` - cell values, quota, encryption, engine mirror

A cell is a position (line item and dimension key); a row has the three value columns, the
encrypted payload and the key id, because which columns an `UPDATE` sends decides several races.
`Merge` is that update. A writer's request is a sequence of cells (`write_cell` is the one-element
case, with its `IntegrityError` path: `InsertLost`, `CommitFails`, `Reload`, up to two tries; a
longer one is `write_cells_bulk`, one transaction). An administrator's request enables encryption
or rotates the key: `BeginKeyChange`, `NextKeyVersion`, `InsertKey`, `SelectCells`, `CommitKey`.
`allowed` and `since` are history variables: the values a reader may find in a cell, which is the
last committed one, or any value committed by a write that overlapped it.

### `DependencyGraph` - references between line items

The mutators are single steps (they are synchronous). The three algorithms run as steps, one per
iteration, so that invariants speak about every iteration: `DownstreamStep` (breadth first),
`SortStep` (Kahn), `EnterRoot`/`ExploreNeighbour`/`LeaveNode` (the depth-first cycle search with
its path and visited set). The Python code takes ready nodes from a deque filled in set order,
the Rust port takes the least one; the model takes any, and so covers both.

### `ChunkedUpload`, `Batches` - uploads, batches, import tasks

Requests that read the upload's row, look for the chunk, and commit (`BeginChunk`,
`CheckDuplicate`, `CommitChunk`), complete it, or fail it. `copies` counts rows per index because
no unique constraint forbids two. `Batches` reads the row of a batch, checks its status and writes
the list it read plus one operation; `commits` is the history of commits.

### `Workflows`, `BulkJobs`, `Presence`, `Scaling`, `CalcCache` - components of concurrent requests

* `Workflows`: each operation asks (loads the rows it works on, checks them) and then commits the
  columns it changed; a task's record holds its approvals and the statuses it was committed with.
* `BulkJobs`: a worker commits after every row and reports after every chunk; cancelling requests
  come between. The worker's session never reads its job again. A row that is refused before any
  statement is counted as failed and passed over; one that fails in a flush or commit takes the session with
  it, so that the worker's later commits raise and its job stays running (`SessionFails`). When the model is encrypted
  (`sealed`) the plain columns that copies read are empty.
* `Presence`: a WebSocket handler moves through register, join, broadcast, serve and leave, and
  gives way at every query and every send; two broadcasts may find the same dead connection.
* `Scaling`: every call of Redis may fail with or without effect, and the node then answers from
  its own memory; keys expire at any time, also between `SET NX` and `GET`.
* `CalcCache`: a set writes the columns that differ from what it loaded; invalidations are
  statements on the table. An expired row is not served; whether a row has expired is chosen where it
  is read. An invalidation of dependents falls back to the item alone when the graph cannot be built.

### `ModelRows`, `Promotion`, `Snapshots`, `ModelCopies` - copies of models

`ModelRows` has what ALM and snapshots copy: rows with an id, a parent, references and attributes,
and cells whose key joins ids. A fresh id is the entity's name and the copy that created it, which
makes "the same up to ids" a comparison of names. `Promotion` splits `complete_promotion` at its
commits: `BeginComplete`, the mark that locks the record, `Apply`, the commit, and after a failure
the rollback and the rebuilding from the snapshot. `Snapshots` reads a model by one query after the
other, with edits in between, restores it in one transaction, and counts what two snapshots have
apart (`compare_snapshots`). `ModelCopies` composes them with
users who edit rows and cells.

### `Formula`, `FormulaFunctions`, `FormulaSeries`, `FormulaMembers`, `TimeCalendar` - the engine

Pure operators, recursive where the code is. A state is a formula typed so far, a series entered so
far, a list of members built so far, or a calendar and a day: TLC's search enumerates the inputs.
Numbers are exact rationals, so that laws that floats keep only approximately can be stated; texts
are sequences of character codes; exceptions are values (`FormulaError`, `Escaped`). The parser is
a recursive descent over token sequences as in `parser.py` and is compared with a grammar stated as
a relation between trees and token sequences. Functions are called the way the evaluator calls
them, by name with a list of values (`Called`, `TextCalled`, `RangeCalled`, `SeriesCalled`,
`MemberCalled`, `TimeCalled`), with the number of arguments, the unwrapping of lists and
the defaults that the dispatch has. A date is its ordinal, a period code a tuple.

### `Versions`, `Planning`, `Dimensions`, `TimeRanges` - what planners work with

* `Versions`: a dimension key is a set of parts (members, a version, a period). `roll_forecast`
  reads in one step, which also chooses the rows without a version that it gives one, and commits in
  another (`RollCommit`), which fails if a version it writes was deleted in between (`RollFails`); the
  other requests are atomic. Cells are read by version and by the parts of a key, and
  `get_forecast_status` says what is due.
* `Planning`: a spread writes one child after the other (`WriteShare`), a recalculation reads the
  children of a parent and writes it (`ReadChildren`, `WriteParent`), the deepest first; edits and
  other requests come between, and a write may fail (`Ends`).
* `Dimensions`: numbered lists, imports and intersections read first and insert later. A
  dimension may change its type, and the deletion of a composite's source takes its row of sources
  with it, so that later intersections are made of those that are left.
* `TimeRanges`: a request reads the ranges, and commits the columns that differ.

### `Frames`, `DataHub`, `Pipelines` - staging and pipelines

`Frames` says what the steps do to a data frame and how schemas are inferred and values coerced;
pandas is modelled from how it is used (dtypes change beside nulls, null keys join each other).
How a text reads as a number, NaN, a boolean or a date are constants (`TextNumber`, `NanTexts`, ...),
of which the proofs assume only that what was printed is read as itself. A publish step makes cell
writes of a frame, in batches. `DataHub` is one table under overlapping requests: each loads the
table, then at a second await the rows, works on what it loaded and commits; the deletion of a replacement is a statement of its own that locks rows; a publication
commits in batches. `Pipelines` is one run: an execution commits before and after every step and
goes by the run and logs as it loaded them; the request that starts a run commits it, reads it again
and only then begins to execute it (`start_run`, `RefreshRun`); cancellations, other executions, edits of steps and
the end of the process come between.

### `RequestGate`, `CellAccess`, `Provisioning` - who may do what

`RequestGate` is a call of the public API: its key with its scopes, the limiter (one step, since it awaits nothing),
then the policy of each workspace it names, created if it is not there, while administrators change
policies and certificates and time passes. `CellAccess` has the three steps of a change of members
or permissions (may the sender, which row, write it) and the four of the check of a cell (grants,
configuration, two drivers); a driver with several rows for one key makes the check raise. `Provisioning` has the look-up, insert and log of users by SCIM and by
signing on, the operations of a PATCH, each with its commit, refresh and log, and the replacement of
a group's members, which commits the rows first and its log after them.

## 4. The runs

All instances are small on purpose: each bound is the least at which the case in question happens,
and the next larger one was looked at while developing where TLC's time allowed.

| Run | Instance | Shows |
|---|---|---|
| `executor_safety` | 2 workers per pool, 2 pools on one queue, 2 jobs, 1 retry, any stop, one swallowing handler | the bookkeeping of queue, workers, timers and dead letters; every step is one of `JobLifecycle` |
| `executor_ends` | 2 workers, 2 jobs, 2 retries, fairness | jobs end; `stop()` returns |
| `cloudworks` | 2 sessions, 2 runs, one restart, fairness | a running run has a session that will write its outcome; runs end; deletion is final |
| `cells` | 2 writers, 5 cells, overlapping and disjoint bulks, deletions, quota 2; 1 writer, 2 administrators, 3 cells, 3 key versions | no lost update; the overrun of the quota is bounded; between key changes every cell stays readable and the mirror agrees |
| `formulas` | formulas of up to 4 typed tokens after 9 beginnings, series up to length 4 over 7 values, 4 members with 2 moves, 6 calendars, some thirty days; all graphs of 4 nodes | grammar, references, functions, calendar; orders are topological, minimal, complete or cyclic; cycles are real and one is found if any |
| `requests` | 2 clients each; 3 chunks, 2 stages and 2 tasks, 3 rows in chunks of 2, 3 sockets of 2 users, 2 nodes with one fault and one expiry, a chain of 2 line items | uploads, workflows, batches and bulk jobs, presence, scaling, cache |
| `copies` | 2 models with 6 kinds of rows, 2 promoting requests, 1 tag, 1 promotion, 1 snapshot, 1 edit | promotions carry the source; rollback and restore bring the model back |
| `plans` | 3 versions over 3 periods, a hierarchy of 5 items and 3 levels, 4 dimensions, 2 ranges; 2 clients each | planning, versions, lists and ranges |
| `services` | frames of 2 rows over 13 values; 3 requests of 2 clients on the table, on 3 steps of a run, on users; 2 workspaces, 3 calls under a limit of 1 in a minute of 2 ticks; 2 users beside the owner | data hub, pipelines, gate, access, provisioning |
| `cells_readable_claim`, `rollback_claim`, `week_claim` | least instances | expected violations, see section 6 |

What the properties say, beyond bookkeeping:

* `executor_safety`: `WorkIsAccounted` puts together that a job is queued at most once, that no
  accepted job is lost, that a stop token has a worker to end, that no job is put behind the last token where no worker
  would take it (`QueueIsServed`: a timer that wakes after a stop drops its job), that a recorded cancellation wins,
  and that dead letters are the jobs whose retries are spent. `LifecyclePromise` is the refinement.
  `WorkEnds` in `executor_ends` is both liveness properties: jobs end, and `stop()` returns.
* `formulas`: `FormulasMeetGrammar` compares the parser with the grammar and evaluation in contexts
  that agree on the references found; `FunctionsMeetDefinitions` compares windows, ranks,
  percentiles, criteria, look-ups, spreads and mapped sums with one another, as formulas call them;
  `CalendarAgrees` walks days and periods, given as dates, years, codes or members.
* `copies`: `PromotionsCarryTheSource` (and leave the rest of the target alone),
  `RestoreIsFaithful` (a rolled back promotion), `RestoreBringsBack` (a snapshot made while the
  model was edited; compared with the snapshot, as many rows are added as removed and none is changed).
* `plans`: `VersionsAgree` (rolls take no value from a reader, promotion makes the target what the
  scenario showed, two comparisons give one answer, reads by version are those of the comparisons;
  the first and the last two for keys that name one
  version, see section 6; the forecast status counts the rolls that are due), `HierarchyAddsUp`, `DimensionsAgree`, `RangesStayOrdered`.
* `services`: `FramesAgree` (`InferredFits`: rows fit the schema inferred from them and stay as they
  are when coerced again, but for texts that read as NaN, see section 6; `StepsAgree`: steps of a
  pipeline agree with one another; `PublishingAgrees`: a publish step writes the cell of every value once, in order and in batches, and
  raises exactly when a key is mapped to nothing), `HubKeepsTable` (the table with itself, the module
  with what was published), `RunsExplainThemselves`, `GateKept` (served exactly when policies allow; never more
  than the limit in a minute of the clock, twice in any sixty seconds; Retry-After is honest),
  `AccessAsAsked`, `ScimAsAsked`.

Two of anything concurrent are enough for a check-then-act race and three for a lost update
between two others; two pools suffice for everything a restarted executor shares with its
predecessor; three key versions let both administrators succeed one after the other; five cells are
what two racing bulk requests and one more write need to pass the bound on the overrun if the
quota's check were off by one; three levels are what a recalculation in the wrong order needs;
windows, ranks and ties show in series of four; three requests let a third start from what two
overlapping ones left. Initial states of `plans` and `services` are restricted where symmetric
cases would repeat (the operators `FewVersions`, `FewCells`, `OneOrder` and the conjuncts of `ServicesInit`).

**Fairness.** `executor_ends`: weak fairness of workers, runners, retry timers and the two
continuations of `stop()`: the event loop runs every ready task, `asyncio.sleep` ends, and handlers
are assumed to end; none of clients. `cloudworks`: a session that has begun continues (weak fairness
of `Continues`); nothing obliges one to begin, and a restart, which may leave a run running for
ever, is excepted by `RunsEnd`. The other runs check safety only.

The runs named `..._claim` are expected to fail: each checks one sentence of the repository's
docs or tests, which the code does not keep. `findings` in `PROJECT.json` quotes the sentence and
says what the counterexample shows.

## 5. What is proved

The proofs hold for every value of the constants allowed by the modules' `ASSUME`s.

**`JobExecutorProofs`.** `TypeCorrect`, `OneRunnerPerJobHolds`, `RetryIsAwaitedHolds`,
`NoAttemptAfterCancelHolds`, `HandlerAvailableHolds`, `JoinCountsWorkHolds` and
`ExecutorKeepsPromise` (the refinement of `JobLifecycle`). Assumption: `ExecutorAssumption`.
`OneRunnerPerJob` alone is not inductive: that a worker may start the job it takes from the queue
needs that no other copy of the id is queued and that no runner has it. `Core` adds exactly this:
`QueueDistinct` and `QueueWaits` (a queued id is not being attempted, a retry timer's job is not
queued) and `BoundWhileAttempted` (the registry's binding is the busy worker, until the attempt is
over). `Ledger` adds the attempt budget to `Core` and carries the refinement: `NextSteps` shows
that each action moves each job by `Stays`, `Submitted` or `Moves`. `Counting` relates asyncio's
unfinished counter to the queue and the busy workers; its one difficulty is that `Start` creates
workers, so that `FutureAbsent` (workers of pools not yet started do not exist) is part of it.

The module's second part proves `WorkIsAccountedHolds` on top of these three invariants, under the
same assumption. `WorkIsAccounted` says what the executor's books look like from outside; each of
its parts needs a fact about what is under way. `Cancelling`: a handler whose job's cancellation was
recorded has the CancelledError pending unless it swallows it, and a bound job has been attempted.
`Waiting`: a queued job stands in the queue, unless its cancellation reached a finished task of an
earlier attempt; before the first stop every job that is not over is held by the queue, a timer or
a runner. `DeadLetters`: the letters are the failed jobs and distinct, so that a bijection counts
them. `EnoughAlive` with `StoppingRuns`: the workers that are left are at least the tokens queued
plus, while the executor runs, one pool; only the stop that holds the lock ends a pool, and a new
pool has exactly `worker_count` workers (`PoolSize`). `QueueIsServed` is inductive by itself:
a job is put only while the executor runs (`NextServed`).

**`DependencyGraphProofs`.** `EdgesAgreeAlways`, `DependenciesComeFirst`, `OrderOrCycleAlways`,
`RecalcIsMinimalAlways`, `CyclesAreFoundAlways`, for every finite set of nodes, every sequence of
mutations and every choice among ready nodes. `KahnInv` says what the in-degrees mean in the middle of the loop: the
in-degree of a node is the number of its dependencies not yet in the result, and the ready nodes
are those with none left. From it a node is only put behind its dependencies, and what is left
when nothing is ready is a set in which every node waits for another one of the set, which is the
cycle of `OrderOrCycle`. `Collecting` says that the breadth-first frontier is what separates the
collected nodes from being closed; when it is empty, the collected set is the least closed one.
`Searching` is the invariant of the depth-first search. `PathInv`: the path is one along the edges
without a repeated node, so that an edge back to one of its nodes closes a simple cycle
(`CycleToIsSimple`). `LeftInv`: while no cycle was found, the nodes that were left have
all their dependents among themselves and no cycle is in them (`LeavingAddsNoCycle`); when all
nodes are left and none was found, there is none. Once a cycle was found this no longer
holds, which is why the search may miss others. Assumption: `DependencyGraphAssumption`.

**`CloudWorksProofs`.** `RunningIsAttendedAlways` and the action property
`DeletedStaysDeletedAlways`, for any number of sessions and runs. To the types and
`RunningIsAttended` the inductive invariant adds `NothingLeft` only: a deleted schedule has no
runs; every action that creates or changes a run has to be shown not to do so after the deletion,
by a request that loaded the schedule before it. Assumption: `CloudWorksAssumption`.

**`CellStoreProofs`.** All rest on `Base`: the types, that key versions have no gap and the last is
active (`KeysInOrder`), that at most the next version is about to be added (`AdminsInOrder`),
and that a row somebody has loaded is there, unless he knows that it is gone (`LoadedIsThere`).
Assumption of all: `CellStoreAssumption` (finitely many cells and writers, requests of distinct
cells and a longest one).

* `QuotaOverrunBoundedAlways`, for every interleaving of writes and key changes. `QuotaInv` counts
  with each row the inserts that passed the quota's check and are still to be committed
  (`Pending`): of these, those of one writer were counted against the rows there were, so that
  what exceeds the quota is at most what the other writers insert in one request each.
* `AllUnderActiveKeyAlways`: `KeyInv` says that what is stored, what was loaded and what will be
  stored is under the newest key (`AllUnder`), and that an administrator about to commit has every
  row that is left, as it is (`AllReencrypted`).
  The property is about systems in which writes and key changes do not overlap, as the finding of
  section 6 shows it must be; several administrators may well race.
* `WritesSurviveAlways`, from `ChangesAreNoticed`: whoever commits to a cell tells every writer
  that has it loaded (the history `since`), so that what its stale `UPDATE` leaves behind is among
  the values `allowed`. Hypotheses: no write overlaps a key change, and only numbers are written,
  since overlapping writes of different types may leave null (section 6).
* `ClientKeepsItsCellsAlways`, of `FocusSpec`, which `MCCellStore` runs: `MirrorInv` says of a client
  that writes alone what it knows of its cells at each step (`Told`) and where the engine's copies
  stand (`Mirrored`). Hypothesis: no write overlaps a key change.

**`RequestsProofs`.** `ServesWhatWasSetAlways`, `WorkflowsAgreeAlways`, `NodesAgreeAlways`,
`PresenceFollowsSocketsAlways` and `BulkWorkAddsUpAlways`, of `ReqSpec`, which `MCRequests` runs: a
step of it is a step or a stutter of each component (`OneAtATime`), so that the invariant of a
component is proved from its own actions, for any number of clients, line items, stages, tasks,
nodes, sockets, bulk rows and cancellations.

* `CacheInv` (`CalcCache`): an open set that no other set came between knows the value and hash the
  row still holds, unless the row was cleared and made anew; ids are what tells the two apart. Hence
  the columns it leaves alone are those it computed. Assumption: `CacheAssumption` (what is
  computed are pairs).
* `WfInv` (`Workflows`): a task that no commit on a stale row has touched has the status its
  decisions and commits spell out (`commits = 3 * decisions + SinceDecision`), and an open request
  knows the task's status unless the task was committed since. Identities of deleted stages and
  tasks are not used again, as they are UUIDs. Assumption: `WorkflowAssumption` (no stage has a
  reserved name).
* `ScInv` (`Scaling`): without a fault, nobody remembers or is about to remember what Redis does not
  know; the nodes Redis named are at most the one it names; the list is a
  prefix of what was pushed and holds its newest events; it is longer than the cap by no more than
  the pushes whose trim is to come and the faults, each of which may have lost one. Assumption:
  `ScalingAssumption` (the cap is a number, there are finitely many clients).
* `PresInv` (`Presence`): a session id belongs to one user (`IdsAgree`: sockets of a user share it,
  others never know it); a listed connection is one of its handler's session, and that handler is
  attached, about to leave, or failed at its join (`Listing`); every row has a handler still to
  delete it (`HasHandler`). `HandlerFits` carries what a registration found past its await: without
  an overlapping one, nothing means that there is no row yet, which is why a second row needs an
  overlap. A broadcast only removes connections whose sockets are gone, which keeps a lone served
  user listed (`Present`). Since a handler gives way inside every broadcast, most actions change
  one handler and the list; `HandlerGoesOn` says once what such a step has to keep. The list
  operators are proved first (`ListWithoutIs`). No assumption.
* `BtInv` (`Batches`): a request that read the list read it before any closing, and if no addition
  was committed since, what it holds is still the batch's list (`BtReadFits`); the commit is then an
  append, or overwrites and is counted as such. No assumption.
* `BulkInv` (`BulkJobs`): `HasCounted` balances a worker's counts with the rows it has left and,
  for the copy, with the number of cells it took up, so that nothing is counted twice when one more
  source is read. `RowFits`: the job's row never is ahead of its worker, a
  cancellation only changes status and end, and `complete_job` writes the final counts over it.
  `CopyFits`: while nobody else has a job, each cell taken up from a sole source is still in the
  list or has arrived with the value read; `DeleteFits` is the same of the deletion's targets.
  With two sources mapped to one target the later one overwrites the earlier, so
  the property speaks of targets of a single source (`SoleSource`). Assumption: `BulkAssumption`
  (the rows are a list, the mapping a set of pairs).

The chunked upload's own theorems are in the same module and of its own specification `Spec`:
`TypeCorrect`, `NeverOvercountsAlways`, `CompleteHasAllChunksAlways` and
the action property `NeverReopensAlways` (a complete upload changes no more), for any number of
chunks and requests. What makes them inductive is `ReadsAreLow`: the count a
request read is at most the number of chunks stored since, and while its chunk is looked for and
not found, the count it will write is still at most the number of chunks with its own.
Assumption: `ChunkedUploadAssumption`.

**`ServicesProofs`.** `GateKeptAlways`, `AccessAsAskedAlways`, `RunsExplainThemselvesAlways`,
`ScimAsAskedAlways` and `InferredFitsAlways`, of `GateSpec`, `AccessSpec`, `PipeSpec`, `ScimSpec` and
`FrameSpec`: the components one by one, which `MCServices` runs beside each other.

* `RequestGate`, for every set of workspaces, networks and clients, every
  limit and every length of a minute. `Rated` is the limiter's part: its count is the number of
  calls that passed in the minute of its bucket, which is the last one with a call, and no minute
  has more than the limit; `MinuteOf` is the division it rests on, and a window of a minute's length
  meets two minutes at most (`PassedInAWindow`), hence twice the limit. `Gated` is the part of the
  policies: a request holds the policy it read, and as long as no write has overlapped it, this is
  the one stored; a call meets the policy of each workspace it is through with. Assumption:
  `RequestGateAssumption`.
* `AccessInv` (`CellAccess`): the tables hold roles and permissions, and every open request
  `AccessStands`: it asks what its kind may ask; while nothing overlapped it, its sender still may,
  and the value it loaded or saw is the one in the table (`ChangeHolds`); the part of an answer a
  check has come to is what the parts it has read say (`CheckHolds`). Of every check, torn or not,
  the invariant says that whoever may write may read. Assumption: `AccessAssumption` (edits that no
  client sends have an author who is none).
* `PipeInv` (`Pipelines`): of the run, that its logs are of steps that are there and are all pending
  while it is (`RunFits`); of an execution past its load, that the run is not pending; and of one
  that is alone and the first (`Follows`), where it is in the run: what is left to do is pending and
  behind what is completed (`Done`, `DoneBut` the step at hand, `FailedAt` the step that failed), and
  it holds the logs and the count that are stored. The next step is the least of those left;
  `LeastStep` shows that there is one by the strict subsets of a finite set being well founded.
  Assumption: `PipeAssumption` (finitely many steps, numbered from 1; the trigger is no client).
* `ScimInv` (`Provisioning`): users have distinct emails; the users whose creation was logged, and
  those of the requests that have inserted one and are to log it (`CreatorsApart`), are all
  different; a group's replacement that is alone loaded the rows there are. A PATCH that is alone
  (`PatchFollows`) has its last operations to do, saw the user as it is, has logged as many as are
  done, and the user has of each field what was last given for it; this is where the theorem's
  claim comes from one operation at a time (`StepFollows`, `LogFollows`). Assumption:
  `ScimAssumption` (finitely many emails, well-formed operations and member lists).
* `InferredFits`, the first part of `FramesAgree` (`Frames`), needs no strengthening: a frame does not
  change. `LooksSettle` goes through the types: a value that looks like one is coerced to a value of
  it that is coerced to itself, or it is a text that reads as NaN, which in a column of numbers
  becomes null; `InferredType` says that all of a column's values look like the type inferred for
  it; `NumberIs` and `ValueKinds` that a text is NaN in no other column; and `RowsFitInferred` says the
  property of rows of any length, with the exception the code makes: rows are refused when they are
  coerced again exactly when such a text stood in a column inferred without nulls. Assumptions:
  `FramesAssumption` (values are of the kinds there are) and `TextsAssumption` (a printed date is
  read as itself, and no text reads both as a number and as NaN), with any readings of texts.

**`PlanningProofs`.** `RangesStayOrderedAlways`, of `RangeSpec`, which `MCPlanning` runs beside other
components. `RangeInv` says of an open request that it `Intends` either a valid row or the periods
it read, and to unset the defaults it read. When it commits and the table is as it read it, the
defaults are those that were there or its own row alone (`DefaultsAfter`); otherwise a default of
somebody else may be left, and a module then finds several. A range a module is
assigned is there, since deleting it clears the assignment. Assumption: `RangeAssumption` (finitely
many ranges).

`DimensionsAgreeAlways`, of `DimSpec`, for every set of lists and clients, every file and any number of
requests. The inductive invariant `DimInv` has five parts. `ItemsInv`: a parent is an item of the same
list, and the code of item i of a list is at most i, so that the next code is a number. `ListsInv`: limits are numbers. `StandInv`: an item's dimension is there. `MembersInv`:
the key of an intersection names one member of each source, unless one of them has been deleted
since, its item belongs to the composite, and no two have one key or one item. `DimRequestsInv`: an
open request means to insert rows whose codes go on where those of the items it saw end, and no
more than the limit left then (`Continues`), with parents of the same list, some perhaps gone by
now. All of it survives the others' steps because an id keeps its dimension and is never given out
again (`ItemsMove`). The property follows from it: the source key of an intersection's members is
its key, since the sources are distinct (`NormalizedSame`); an insertion nobody overlapped counts
as many new codes as rows (`InsertedCount`); and an item is in one of the first n levels of its
tree exactly when its n-th ancestor has no parent (`TreeFromAncestors`, by counting up to
`MaxItems`). The tree's levels, the ancestors and the rows of an import are functions defined by
recursion on numbers: `RecursionExists` says that they exist, by a least counterexample, since the library's
induction theorems cannot be used. Assumption: `DimensionsAssumption` (limits are numbers, files
are sequences, the sources of a composite are finitely many and none is a composite, which
`create_composite_dimension` checks).

`HierarchyAddsUpAlways`, of `PlanSpec`: for every hierarchy of items, every list of spreads and any number
of requests and edits. The inductive invariant `PlanInv` says nothing of a request that somebody
else's write has disturbed. Of the others: a spread's parents add up in the cells as they will be
when the writes it has left are done (`Planned`, `SpreadFollows`), so that a share written changes
nothing that was planned (`ShareWritten`) and a spread whose turn comes replaces only what earlier spreads of the
same parent had planned (`FollowsMore`); a recalculation's parents that are written are the
aggregates of their children and none of those left to write is deeper (`AggregateFollows`), so
that the next one is no child of a parent that is done (`NotItsChild`). On the operators: the
children are listed once each, the depths are the numbers the code's recursion returns
(`ChildrenAre`, `DepthsAre`, by `RecursionExists`); shares add up to the total by every method but
`manual`, the only one that keeps what was there (`SpreadShared`, `SharedWhole`); and sums, counts
and extremes do not depend on the order of the children (`Permuted`, `SameAggregate`), which
matters because a recalculation takes them in no particular order. The first and last child do
depend on it, and the property says only that the parent has the value of one of its children.
Assumption: `PlanAssumption` (every item once in the order, none its own parent, numbers are whole).
Longer cycles of parents are allowed, as in the code: there `_get_depth` does not return, and a
recalculation fails before it writes (`Acyclic` in `recalculate_hierarchy`).

`VersionsAgreeAlways`, of `VersionsSpec`: for every finite set of versions, every set of keys and
values, and any number of requests around a roll. The inductive invariant `VsInv` says that a row of
a version names it in its key (`CellsFit`), which migration, promotion and archiving keep and which
deleting a version cannot disturb, and of an open roll that what it archives is what it read: of the
rows that belonged to the forecast by the versions alive then, those of the rolled periods, each
under the actuals' key (`RollFits`, `ArchivedFrom`). The parts of the property follow. A roll:
`RollLeaves` says what the commit stores; a value that the moved switchover hides was in a rolled
period, its archived row reads as the same base and value, and nothing that was read before is
overwritten (`RollIsKept`). A promotion: the rows after the first n assumptions are a function
defined by recursion on n, and an assumption's place holds its value until a later one has the same
place (`PromotedIs`, `PromotionIsShown`). The comparisons: both are the same function of a base
(`BothShow`), a base has one value of a version or none (`OneValue`) and a value of one of the two
(`SomeValue`), so that it is unchanged exactly when the variance shown is 0 (`UnchangedIs`,
`RowsCount`), and a filter on parts that are no version keeps whole rows (`FilterKeepsWhole`). A read of a
version finds the rows the comparisons show of it (`ReadsHold`). The forecast status counts periods
from the switchover, so that a roll moves it by what was rolled (`StatusHolds`, `OfTwo`).
Assumption: `VersionsAssumption` (finitely many versions, none of them called `NoVersion`; the
clock's month is one of the periods; numbers are whole).

**`ModelCopiesProofs`.** `PromotionsCarryTheSourceAlways`, of the `Spec` of `ModelCopies` that the run
`copies` checks: promotions, snapshots and users' edits on the same rows, for any number of each and
for every catalogue of entities. The inductive invariant `CopiesInv` has four parts. `ModelsInv`: the
rows of a model have their parents and links among themselves, as the catalogue has them (`Whole`),
cells belong to rows that are there, and the source, which no promotion writes, has one row of each
entity. `SnapsInv` and `RecordsInv`: what a snapshot, finished or half read, and a revision tag hold
has the parents of its rows. `RequestsInv`: a request about to commit deletes nothing unless it replaces, inserts
rows of the catalogue, and, as long as nobody else has written the target, it is `Ready`: what it
deletes and inserts is what `Apply` computes from the target as it still is. Restoring a snapshot
read while users edited has to give rows that are whole again, because a promotion may start from
them; this is why the invariant reaches into `Snapshots`. On the operators: the copy of a row looks
like it up to ids (`CopyLooksLike`), what the foreign keys leave is whole (`WithoutIs`), and images
of one row of each entity are as many (`ImageOfEach`), which is the counting in the property.
Assumptions: `ModelsAssumption` (items and line items have parents of the other kinds, links are not
to versions, models start with whole sets of rows), `PromotionAssumption` (source and target are
two of the models), `SnapshotsAssumption` (snapshots are of models).

**Only model-checked**: all liveness (`WorkEnds`, `RunsEnd`: fairness and ENABLED are outside the
prover's reach). Of the copies of models, `RestoreIsFaithful` and `RestoreBringsBack`: they do
not hold for every value of the constants, because two racing promotions can leave two rows of one
name in the target, which a rollback then merges (section 6); the run's single promotion leaves
none. `HubKeepsTable` does not hold for every value either: a table without a schema whose rows have
no columns gets one from an append, which the old rows do not fit. `StepsAgree` and `PublishingAgrees`, the other parts of
`FramesAgree`, compare the steps of `Frames` by sums over rows and lists of lists, and the formula engine is recursive: both would
need induction over data, which is out of the prover's reach, and are checked over bounded inputs
only.

## 6. What the models found

Three sentences of the repository that the code does not keep have a run that shows it:

* *Encrypt cell values before DB write, decrypt on read* (`ROADMAP.md:473`): a write that overlaps
  a key rotation leaves a ciphertext that no key of the row can read (`cells_readable_claim`).
* *Store pre-promotion snapshot, restore on failure* (`ROADMAP.md:428`): a promotion that is rolled
  back loses the target's cells of versions and encrypted cells (`rollback_claim`).
* `PERIODEND("2024-W01")` is expected to be `2024-01-07` (`tests/test_formula_engine.py:547`): under
  the Python the tests run with it is the Monday, 2024-01-01 (`week_claim`).

While modelling, these were seen too; the models allow each of them, which is why the properties
around them are stated as they are.

* Jobs: a runner cancelled before its first step leaves its job running after
  `stop(drain=False)`, against the name of a test (`test_stop_without_drain_cancels_running_and_queued_jobs`);
  `stop()` leaves a retrying job retrying for ever.
* CloudWorks: two execute requests that load one pending run both pass *Only pending/retrying runs
  can be executed* (`cloudworks.py:665`); `retry_run` clones runs that did not fail; enabled
  schedules are not registered again after a restart, and concurrent toggles may leave row and
  registration apart.
* Cells: overlapping writes of a number and a boolean leave null; concurrent writers exceed the
  quota (within `QuotaOverrunBounded`); a write that overlaps the enabling of encryption stays in
  plain text; two administrators who enable at once leave two active keys.
* Bulk operations: a row that fails in a flush or commit leaves the worker's session unusable, and
  its job running.
* Uploads and batches: two concurrent chunks lose an increment and the upload never completes,
  although it should auto-complete (`chunked_upload.py:102`); a chunk can be stored twice; an
  addition that loaded an open batch commits after the batch was closed.
* Formulas: the grammar in the parser's header allows chains of `^` (`parser.py:15`), `_parse_pow`
  reads one (`:231`); `detect_cycles` misses cycles through nodes it has left.
* Copies: keys are not sorted after a restore, although `models/cell.py` says *Sorted,
  pipe-separated*. Two promotions that race into one target insert what is missing twice, as no
  constraint keeps names apart; the rollback of a third one merges the two, since it looks rows up by
  name (`alm.py:917`): with three promotions `RestoreIsFaithful` would not hold.
* Plans: two requests leave two default ranges, and the effective range then raises; an item's
  parent may be its own descendant, which hides both from the tree; a parent that stands later in
  an imported file is not found.
* Versions: a scenario's assumption may name a version other than its base, and promoting it then
  stores a key that names two; of two such keys that differ in the actuals' version, or two periods,
  a roll archives one over the other, and the two comparisons assign such a row to different versions. `VersionsAgree` says so in its premises
  (`NameOneVersion`, `NameOnePeriod`).
* Presence and scaling: two broadcasts that find the same dead connection raise; all sockets of a
  user share one session; nodes without Redis assign from their own memory.
* Services: the text `nan` looks like a number (`data_hub.py:310-324`), so that a column of it is
  inferred as numbers without nulls, is coerced to NaN (`:137-152`), which counts as null (`:39-43`), and is
  refused when it is coerced again (`:214-223`); overlapping appends leave a wrong `row_count`; an inner join with an empty right side
  keeps every row; a completion overwrites a cancelled run; overlapping updates leave an enforced
  empty allow-list; a driver cell that is encrypted counts as true; overlapping PUTs of a group
  leave the members of both.

## 7. Abstractions and what they hide

* Values, names, payloads and formulas are model values; only what a property tells apart is kept.
* Database faults other than those named (integrity errors, stale rows) are left out: they end a
  request and roll its transaction back, which changes no state but the session's.
* PostgreSQL's row locks order two updates of one row; since a locked `UPDATE` in READ COMMITTED
  continues with the new row, a commit that sends its columns in one step is faithful.
* Time is not modelled as a number unless a module says so: a timer is an action that may happen
  late. Deadlines appear as nondeterministic choices (`stop(timeout)`).
* The wall clock of the rate limiter does not go backwards (`RequestGate`).
* Deletions cascade along foreign keys, as PostgreSQL has it; SQLite does so only under a `PRAGMA foreign_keys`
  that the backend does not send. `DeletedStaysDeleted` relies on it.
* An executor's timer is one step from the end of its sleep on: the registry's lock it takes is held
  over no await and so never contended.
* Of a promotion's source, `PromotionsCarryTheSource` compares the rows; of its cells it says only that the target's own stay.
* Properties that judge a request only if nothing overlapped it (`alone`, `seen`, `disturbed`) say
  nothing of what an overlapping pair leaves, beyond that a later request copes with it; the
  hazards in `PROJECT.json` note where the code keeps no promise then.
* A dimension key is the set of its parts: one that a scenario's promotion makes name the target
  twice is the key that names it once (`Versions`).
* Floats are exact rationals in the formula engine, whole numbers in `Planning`, halves in
  `Frames`: rounding is not modelled.
* The Python implementation is the reference; where a Rust port exists it is covered when the
  model's nondeterminism includes its choices (`DependencyGraph`).

## 8. Not modelled

* Partly modelled components say in `PROJECT.json` what is missing: CRUD of CloudWorks connections,
  storage, model and dimension quotas (the check-then-insert shape of the cell quota), registering
  presence over REST, the tokenizer, number formats (`TEXT`, `MAKETEXT`, `UPPER`, `TRIM`) and `POST` of the formula engine, reordering of items,
  the member lists of dimensions, SCIM and SSO configuration, exports.
* The Rust bridge's choice of backend and the Rust core: synchronous calls that mirror the Python.
* CRUD without a state of its own: workspaces, models, modules, subsets, comments, audit entries,
  dashboards, reports, pages, saved views, actions. Authentication is stateless; observability
  counts; the frontend and the command line client are clients of the modelled services;
  connectors, migrations and deployment are outside the program's logic.
* Two rolls of one forecast at once; several tables, runs, uploads or models beside each other,
  except where they interact (`ModelCopies`, `BulkJobs`).

What could come next: proofs for the steps of `Frames` and for what an append does to a table of `DataHub`.
