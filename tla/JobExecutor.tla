------------------------------ MODULE JobExecutor ------------------------------
(***************************************************************************)
(* The asyncio background executor (engine/job_executor.py) together with  *)
(* the registry it keeps its jobs in (engine/job_registry.py): a FIFO      *)
(* asyncio.Queue, a pool of worker tasks, one runner task per attempt, one *)
(* timer task per pending retry, and start / stop / submit / cancel.       *)
(*                                                                         *)
(* One action is one uninterrupted segment of one asyncio task.  The       *)
(* registry lock is never contended (nothing is awaited while it is held), *)
(* so the only places where a task gives way are: an empty queue, the      *)
(* handler, `await run_task`, a retry sleep, queue.join() and gather().    *)
(* The queue is unbounded, as everywhere in the application                *)
(* (queue_maxsize is left at 0), so put() does not suspend.                *)
(*                                                                         *)
(* A worker and the runner it awaits share one stage:                      *)
(*   idle      in `await queue.get()`                                      *)
(*   spawned   create_task(_execute_job) done, its first step not taken    *)
(*   handling  the runner is inside the job's handler                      *)
(*   returning the runner has ended, the worker has not resumed yet        *)
(*   thrown    the runner has ended with CancelledError, ditto             *)
(*   exited    the worker took a STOP_TOKEN                                *)
(*   killed    CancelledError came out of the worker's `await run_task`    *)
(***************************************************************************)
EXTENDS Integers, Sequences, FiniteSets

CONSTANTS Jobs,                \* ids submit() may be called with
          STOP_TOKEN,          \* the queue item that ends one worker
          NoJob,               \* what a worker that awaits no runner works on
          WorkerCount,         \* worker_count
          MaxStarts,           \* bound: how often start() takes effect
          MaxRetries,          \* bound: the largest max_retries submitted
          CancellableJobs,     \* jobs some client may cancel
          StopModes,           \* how stop() may be called: a subset of AllStopModes
          SwallowingJobs       \* jobs whose handler may catch a CancelledError, or raise its own

AllStopModes == {"drain", "drain_timeout", "nodrain"}

ASSUME ExecutorAssumption ==
    /\ STOP_TOKEN \notin Jobs /\ NoJob \notin Jobs
    /\ WorkerCount \in Nat \ {0}
    /\ MaxStarts \in Nat \ {0}
    /\ MaxRetries \in Nat
    /\ CancellableJobs \subseteq Jobs
    /\ StopModes \subseteq AllStopModes
    /\ SwallowingJobs \subseteq Jobs

Generations == 1..MaxStarts            \* one per effective start()
Workers     == 1..(WorkerCount * MaxStarts)
NoWorker    == 0
Pool(g)     == {w \in Workers : (g - 1) * WorkerCount < w /\ w <= g * WorkerCount}

VARIABLES
    (* JobRecord *)
    state, attempts, budget, cancelRequested,
    (* JobRegistry._active_tasks: the worker whose runner is bound to the job *)
    active,
    (* AsyncJobExecutor *)
    handlers,      \* keys of _handlers
    queue,         \* _queue
    unfinished,    \* _queue._unfinished_tasks
    retryTasks,    \* jobs with a live task in _retry_tasks
    deadLetters,   \* _dead_letters
    running,       \* _running
    starts,        \* how many pools have been created
    stopStage,     \* per generation: where the stop() that ends it is
    (* the worker and runner tasks *)
    stage, wjob,
    cancelling     \* workers whose runner has a CancelledError pending

recordVars == <<state, attempts, budget, cancelRequested>>
poolVars   == <<stage, wjob, cancelling>>
lifeVars   == <<running, starts, stopStage>>
vars == <<state, attempts, budget, cancelRequested, active, handlers, queue,
          unfinished, retryTasks, deadLetters, running, starts, stopStage,
          stage, wjob, cancelling>>

Promise == INSTANCE JobLifecycle
             WITH Jobs <- Jobs, MaxRetries <- MaxRetries, state <- state,
                  attempts <- attempts, budget <- budget, cancelRequested <- cancelRequested

Terminal(j)   == state[j] \in Promise!TERMINAL_JOB_STATES
Registered(j) == state[j] # "absent"

RunnerStages == {"spawned", "handling"}
BusyStages   == RunnerStages \union {"returning", "thrown"}
DeadStages   == {"exited", "killed"}
Stages       == {"absent", "idle"} \union BusyStages \union DeadStages

\* The runner task of worker w is alive and executes job j.
Runs(w, j) == stage[w] \in RunnerStages /\ wjob[w] = j

StopStages == {"none", "draining", "draining_timed", "drained", "gathering", "returned"}

Init == /\ state = [j \in Jobs |-> "absent"]
        /\ attempts = [j \in Jobs |-> 0]
        /\ budget = [j \in Jobs |-> 0]
        /\ cancelRequested = {}
        /\ active = [j \in Jobs |-> NoWorker]
        /\ handlers = {}
        /\ queue = <<>>
        /\ unfinished = 0
        /\ retryTasks = {}
        /\ deadLetters = <<>>
        /\ running = FALSE
        /\ starts = 0
        /\ stopStage = [g \in Generations |-> "none"]
        /\ stage = [w \in Workers |-> "absent"]
        /\ wjob = [w \in Workers |-> NoJob]
        /\ cancelling = {}

-------------------------------------------------------------------------------
(* Registry operations.                                                     *)

\* _apply_transition to a terminal state also unbinds the runner task.
EndsAs(j, terminalState) ==
    /\ state' = [state EXCEPT ![j] = terminalState]
    /\ active' = [active EXCEPT ![j] = NoWorker]
    /\ UNCHANGED <<attempts, budget, cancelRequested>>

\* Mutant: after cancelling the task it falls through to the transition.
RequestCancel_FallsThrough(J) ==
    LET targets == {j \in J : Registered(j) /\ ~Terminal(j)}
    IN  /\ cancelRequested' = cancelRequested \union targets
        /\ cancelling' = cancelling \union {w \in Workers : \E j \in targets : Runs(w, j)}
        /\ state' = [j \in Jobs |-> IF j \in targets THEN "cancelled" ELSE state[j]]
        /\ UNCHANGED <<attempts, budget, active>>

\* request_cancel for every job of J: a bound job has its task cancelled (to no
\* effect when that task is over), any other one is cancelled on the spot.
RequestCancel(J) ==
    LET targets == {j \in J : Registered(j) /\ ~Terminal(j)}
        bound   == {j \in targets : active[j] # NoWorker}
    IN  /\ cancelRequested' = cancelRequested \union targets
        /\ cancelling' = cancelling \union
                           {w \in Workers : \E j \in bound : active[j] = w /\ Runs(w, j)}
        /\ state' = [j \in Jobs |-> IF j \in targets \ bound THEN "cancelled"
                                                             ELSE state[j]]
        /\ UNCHANGED <<attempts, budget, active>>

\* _finalize_cancelled
FinalizeCancelled(j) ==
    /\ IF Terminal(j) THEN UNCHANGED <<recordVars, active>>
                      ELSE EndsAs(j, "cancelled")
    /\ handlers' = handlers \ {j}

-------------------------------------------------------------------------------
(* Clients: start, submit, cancel and stop.                                 *)

\* _lifecycle_lock is held by the stop() that is still draining.
LockFree == \A g \in Generations :
                stopStage[g] \notin {"draining", "draining_timed", "drained"}

Start ==
    /\ ~running /\ LockFree /\ starts < MaxStarts
    /\ running' = TRUE
    /\ starts' = starts + 1
    /\ stage' = [w \in Workers |-> IF w \in Pool(starts + 1) THEN "idle" ELSE stage[w]]
    /\ UNCHANGED <<recordVars, active, handlers, queue, unfinished, retryTasks,
                   deadLetters, stopStage, wjob, cancelling>>

Submit(j) ==
    /\ running /\ state[j] = "absent"
    /\ \E n \in 0..MaxRetries : budget' = [budget EXCEPT ![j] = n]
    /\ state' = [state EXCEPT ![j] = "queued"]
    /\ handlers' = handlers \union {j}
    /\ queue' = Append(queue, j)
    /\ unfinished' = unfinished + 1
    /\ UNCHANGED <<attempts, cancelRequested, active, retryTasks, deadLetters,
                   lifeVars, poolVars>>

Cancel(j) ==
    /\ Registered(j) /\ ~Terminal(j)
    /\ RequestCancel({j})
    /\ UNCHANGED <<handlers, queue, unfinished, retryTasks, deadLetters, lifeVars,
                   stage, wjob>>

QueuedJobs == {queue[i] : i \in DOMAIN queue} \ {STOP_TOKEN}
ActiveJobs == {j \in Jobs : active[j] # NoWorker}

\* Mutant: one token too few.
StopTokens_OneShort == [i \in 1..(WorkerCount - 1) |-> STOP_TOKEN]

StopTokens == [i \in 1..WorkerCount |-> STOP_TOKEN]

\* stop(drain=False) does everything up to gather() without giving way.
StopNoDrain ==
    /\ running /\ LockFree /\ "nodrain" \in StopModes
    /\ RequestCancel(ActiveJobs \union QueuedJobs)
    /\ retryTasks' = {}
    /\ running' = FALSE
    /\ queue' = StopTokens
    /\ unfinished' = (unfinished - Len(queue)) + Len(StopTokens)
    /\ stopStage' = [stopStage EXCEPT ![starts] = "gathering"]
    /\ UNCHANGED <<handlers, deadLetters, starts, stage, wjob>>

\* stop(drain=True) cancels the retry timers and waits in queue.join().
StopDrain ==
    /\ running /\ LockFree
    /\ \E mode \in StopModes \ {"nodrain"} :
          stopStage' = [stopStage EXCEPT ![starts] =
                          IF unfinished = 0 THEN "drained"
                          ELSE IF mode = "drain" THEN "draining" ELSE "draining_timed"]
    /\ retryTasks' = {}
    /\ UNCHANGED <<recordVars, active, handlers, queue, unfinished, deadLetters,
                   running, starts, poolVars>>

\* join() has returned, or its timeout has expired: end the pool.
StopEndsPool(g) ==
    /\ stopStage[g] \in {"drained", "draining_timed"}
    /\ running' = FALSE
    /\ queue' = queue \o StopTokens
    /\ unfinished' = unfinished + Len(StopTokens)
    /\ stopStage' = [stopStage EXCEPT ![g] = "gathering"]
    /\ UNCHANGED <<recordVars, active, handlers, retryTasks, deadLetters, starts, poolVars>>

\* gather() over the workers of this pool returns.
StopReturns(g) ==
    /\ stopStage[g] = "gathering"
    /\ \A w \in Pool(g) : stage[w] \in DeadStages
    /\ stopStage' = [stopStage EXCEPT ![g] = "returned"]
    /\ UNCHANGED <<recordVars, active, handlers, queue, unfinished, retryTasks,
                   deadLetters, running, starts, poolVars>>

-------------------------------------------------------------------------------
(* The workers: _worker_loop.                                               *)

\* Mutant: task_done() is not called.
TaskDone_Forgotten == UNCHANGED <<unfinished, stopStage>>

\* Mutant: task_done() is called both at the `continue` and in the finally block.
TaskDone_Twice ==
    /\ unfinished' = unfinished - 2
    /\ UNCHANGED stopStage

\* task_done(): the last one wakes the stop() that waits in join().
TaskDone ==
    /\ unfinished' = unfinished - 1
    /\ stopStage' = [g \in Generations |->
                       IF unfinished = 1 /\ stopStage[g] \in {"draining", "draining_timed"}
                       THEN "drained" ELSE stopStage[g]]

\* Mutant: the flag is not looked at.
CancelledWhileQueued_StateOnly(j) == state[j] = "cancelled"

CancelledWhileQueued(j) == state[j] = "cancelled" \/ j \in cancelRequested

Takes(w) == stage[w] = "idle" /\ queue # <<>> /\ queue' = Tail(queue)

WorkerStops(w) ==
    /\ Takes(w) /\ Head(queue) = STOP_TOKEN
    /\ stage' = [stage EXCEPT ![w] = "exited"]
    /\ TaskDone
    /\ UNCHANGED <<recordVars, active, handlers, retryTasks, deadLetters, running,
                   starts, wjob, cancelling>>

\* A job that was cancelled while it waited, or that is not queued any more.
WorkerSkipsJob(w) ==
    /\ Takes(w) /\ Head(queue) # STOP_TOKEN
    /\ LET j == Head(queue) IN
         /\ CancelledWhileQueued(j) \/ state[j] # "queued"
         /\ IF CancelledWhileQueued(j)
            THEN FinalizeCancelled(j)
            ELSE UNCHANGED <<recordVars, active, handlers>>
    /\ TaskDone
    /\ UNCHANGED <<retryTasks, deadLetters, running, starts, poolVars>>

WorkerStartsJob(w) ==
    /\ Takes(w) /\ Head(queue) # STOP_TOKEN
    /\ LET j == Head(queue) IN
         /\ state[j] = "queued" /\ ~CancelledWhileQueued(j)
         /\ state' = [state EXCEPT ![j] = "running"]
         /\ attempts' = [attempts EXCEPT ![j] = @ + 1]
         /\ active' = [active EXCEPT ![j] = w]
         /\ wjob' = [wjob EXCEPT ![w] = j]
    /\ stage' = [stage EXCEPT ![w] = "spawned"]
    /\ UNCHANGED <<budget, cancelRequested, handlers, unfinished, retryTasks,
                   deadLetters, lifeVars, cancelling>>

WorkerResumes(w) ==
    /\ stage[w] \in {"returning", "thrown"}
    /\ stage' = [stage EXCEPT ![w] = IF @ = "returning" THEN "idle" ELSE "killed"]
    /\ wjob' = [wjob EXCEPT ![w] = NoJob]
    /\ TaskDone
    /\ UNCHANGED <<recordVars, active, handlers, queue, retryTasks, deadLetters,
                   running, starts, cancelling>>

-------------------------------------------------------------------------------
(* The runners: _execute_job.                                               *)

\* asyncio throws a pending CancelledError into a task that has not begun at the
\* very top of its coroutine, outside the try block of _execute_job.
RunnerCancelledUnstarted(w) ==
    /\ stage[w] = "spawned" /\ w \in cancelling
    /\ stage' = [stage EXCEPT ![w] = "thrown"]
    /\ cancelling' = cancelling \ {w}
    /\ UNCHANGED <<recordVars, active, handlers, queue, unfinished, retryTasks,
                   deadLetters, lifeVars, wjob>>

RunnerEnds(w) == /\ stage' = [stage EXCEPT ![w] = "returning"]
                 /\ cancelling' = cancelling \ {w}
                 /\ UNCHANGED wjob

\* _fail_without_retry
FailWithoutRetry(j) ==
    /\ EndsAs(j, "failed")
    /\ deadLetters' = Append(deadLetters, j)
    /\ handlers' = handlers \ {j}

\* The runner's first step, up to the handler's first await.
RunnerBegins(w) ==
    /\ stage[w] = "spawned" /\ w \notin cancelling
    /\ LET j == wjob[w] IN
         IF j \notin handlers
         THEN FailWithoutRetry(j) /\ RunnerEnds(w)
         ELSE IF j \in cancelRequested
         THEN FinalizeCancelled(j) /\ RunnerEnds(w) /\ UNCHANGED deadLetters
         ELSE /\ stage' = [stage EXCEPT ![w] = "handling"]
              /\ UNCHANGED <<recordVars, active, handlers, deadLetters, wjob, cancelling>>
    /\ UNCHANGED <<queue, unfinished, retryTasks, lifeVars>>

\* Without a pending cancellation a handler may end in any way; with one, only a
\* handler (or the wait_for around it) that swallows the CancelledError ends
\* otherwise than by it.
MayEndFreely(w) == stage[w] = "handling" /\ (w \in cancelling => wjob[w] \in SwallowingJobs)

HandlerReturns(w) ==
    /\ MayEndFreely(w)
    /\ EndsAs(wjob[w], "completed")
    /\ handlers' = handlers \ {wjob[w]}
    /\ RunnerEnds(w)
    /\ UNCHANGED <<queue, unfinished, retryTasks, deadLetters, lifeVars>>

\* CancelledError came out of the handler: the runner was cancelled, or something
\* that the handler awaited.
HandlerCancelled(w) ==
    /\ stage[w] = "handling" /\ (w \in cancelling \/ wjob[w] \in SwallowingJobs)
    /\ FinalizeCancelled(wjob[w])
    /\ RunnerEnds(w)
    /\ UNCHANGED <<queue, unfinished, retryTasks, deadLetters, lifeVars>>

\* The handler catches the CancelledError and awaits something else.
HandlerSurvivesCancel(w) ==
    /\ stage[w] = "handling" /\ w \in cancelling /\ wjob[w] \in SwallowingJobs
    /\ cancelling' = cancelling \ {w}
    /\ UNCHANGED <<recordVars, active, handlers, queue, unfinished, retryTasks,
                   deadLetters, lifeVars, stage, wjob>>

\* _handle_failure: the handler raised, or wait_for timed it out.
RetriesLeft_OffByOne(j) == Promise!retries_used(attempts[j]) <= budget[j]  \* Mutant.

RetriesLeft(j) == Promise!retries_used(attempts[j]) < budget[j]

SchedulesRetry(j) ==
    /\ state' = [state EXCEPT ![j] = "retrying"]
    /\ retryTasks' = retryTasks \union {j}
    /\ UNCHANGED <<attempts, budget, cancelRequested, active, handlers, deadLetters>>

HandlerFails(w) ==
    /\ MayEndFreely(w)
    /\ LET j == wjob[w] IN
          \/ /\ j \in cancelRequested
             /\ FinalizeCancelled(j) /\ UNCHANGED <<retryTasks, deadLetters>>
          \/ /\ j \notin cancelRequested /\ RetriesLeft(j)
             /\ SchedulesRetry(j)
          \/ /\ j \notin cancelRequested /\ ~RetriesLeft(j)
             /\ FailWithoutRetry(j) /\ UNCHANGED retryTasks
    /\ RunnerEnds(w)
    /\ UNCHANGED <<queue, unfinished, lifeVars>>

-------------------------------------------------------------------------------
(* The retry timers: _enqueue_retry after its sleep.  Its other early return *)
(* (the job is neither cancelled nor retrying) is never taken: RetryIsAwaited. *)

\* Mutant: the job is declared queued but not put back.
Requeues_NoPut(j) ==
    /\ state' = [state EXCEPT ![j] = "queued"]
    /\ UNCHANGED <<attempts, budget, cancelRequested, active, handlers, queue, unfinished>>

Requeues(j) ==
    /\ state' = [state EXCEPT ![j] = "queued"]
    /\ queue' = Append(queue, j)
    /\ unfinished' = unfinished + 1
    /\ UNCHANGED <<attempts, budget, cancelRequested, active, handlers>>

RetryWakes(j) ==
    /\ j \in retryTasks
    /\ retryTasks' = retryTasks \ {j}
    /\ \/ /\ \/ j \in cancelRequested \/ state[j] = "cancelled"
             \/ state[j] = "retrying" /\ ~running
          /\ FinalizeCancelled(j)
          /\ UNCHANGED <<queue, unfinished>>
       \/ /\ j \notin cancelRequested /\ state[j] = "retrying" /\ running
          /\ Requeues(j)
    /\ UNCHANGED <<deadLetters, lifeVars, poolVars>>

-------------------------------------------------------------------------------

Worker(w) == \/ WorkerStops(w) \/ WorkerSkipsJob(w)
             \/ WorkerStartsJob(w) \/ WorkerResumes(w)

HandlerEnds(w) == HandlerReturns(w) \/ HandlerCancelled(w) \/ HandlerFails(w)

Runner(w) == RunnerCancelledUnstarted(w) \/ RunnerBegins(w) \/ HandlerEnds(w)

Next == \/ Start \/ StopNoDrain \/ StopDrain
        \/ \E g \in Generations : StopEndsPool(g) \/ StopReturns(g)
        \/ \E j \in Jobs : Submit(j) \/ RetryWakes(j)
        \/ \E j \in CancellableJobs : Cancel(j)
        \/ \E w \in Workers : Worker(w) \/ Runner(w) \/ HandlerSurvivesCancel(w)

Spec == Init /\ [][Next]_vars

\* The event loop runs every task that is ready, and every handler ends; nothing
\* obliges a client to call start, submit, cancel or stop.
Fairness == /\ \A w \in Workers : WF_vars(Worker(w)) /\ WF_vars(Runner(w))
            /\ \A j \in Jobs : WF_vars(RetryWakes(j))
            /\ \A g \in Generations : WF_vars(StopEndsPool(g)) /\ WF_vars(StopReturns(g))

FairSpec == Spec /\ Fairness

-------------------------------------------------------------------------------
(* Properties.                                                              *)

\* Types of the variables.
TypeOK ==
    /\ state \in [Jobs -> Promise!JobState]
    /\ attempts \in [Jobs -> Nat]
    /\ budget \in [Jobs -> 0..MaxRetries]
    /\ cancelRequested \subseteq Jobs
    /\ active \in [Jobs -> Workers \union {NoWorker}]
    /\ handlers \subseteq Jobs
    /\ queue \in Seq(Jobs \union {STOP_TOKEN})
    /\ unfinished \in Nat
    /\ retryTasks \subseteq Jobs
    /\ deadLetters \in Seq(Jobs)
    /\ running \in BOOLEAN
    /\ starts \in 0..MaxStarts
    /\ stopStage \in [Generations -> StopStages]
    /\ stage \in [Workers -> Stages]
    /\ wjob \in [Workers -> Jobs \union {NoJob}]
    /\ cancelling \subseteq Workers

\* A job is executed by at most one runner at a time, the registry says it is
\* running as long as one executes it, and the task bound to it is that runner:
\* so cancel() reaches it, and neither completed, failed nor retrying is ever
\* refused by _apply_transition (which would raise in the worker).
OneRunnerPerJob ==
    \A w \in Workers : stage[w] \in RunnerStages =>
        /\ wjob[w] \in Jobs
        /\ state[wjob[w]] = "running"
        /\ active[wjob[w]] = w

\* A retry timer exists only for a job that is retrying, so a timer that wakes up
\* late never revives a job that is over (_enqueue_retry's state checks).
RetryIsAwaited == \A j \in retryTasks : state[j] = "retrying"

\* Dead letters are the failed jobs, each exactly once, and a job is failed only
\* after max_retries + 1 attempts (exponential retry of _handle_failure).
DeadLettersAreExhausted ==
    /\ {deadLetters[i] : i \in DOMAIN deadLetters} = {j \in Jobs : state[j] = "failed"}
    /\ Len(deadLetters) = Cardinality({j \in Jobs : state[j] = "failed"})
    /\ \A j \in Jobs : /\ attempts[j] <= budget[j] + 1
                       /\ state[j] = "failed" => attempts[j] = budget[j] + 1

\* A job that is not over can still find its handler: _execute_job never fails a
\* job with "Job handler was not found".
HandlerAvailable ==
    \A j \in Jobs : Registered(j) /\ ~Terminal(j) => j \in handlers

\* A job whose handler lets CancelledError through and whose cancellation was
\* accepted (cancel() returned True) never ends as completed or failed.
CancelWins ==
    \A j \in cancelRequested \ SwallowingJobs : state[j] \notin {"completed", "failed"}

\* The queue's unfinished count is what is queued plus what a worker holds, so
\* join() in stop(drain=True) returns neither early nor never by miscounting.
JoinCountsWork ==
    unfinished = Len(queue) + Cardinality({w \in Workers : stage[w] \in BusyStages})

\* A waiting id is queued once, and a queued job that waits for nobody is one that
\* stop(drain=False) took out of the queue while its cancellation only got as far
\* as the finished task of an earlier attempt.
QueuedOnce ==
    /\ \A i, k \in DOMAIN queue : i # k /\ queue[i] = queue[k] => queue[i] = STOP_TOKEN
    /\ \A j \in QueuedJobs : state[j] \in {"queued", "cancelled"}
    /\ \A j \in Jobs : state[j] = "queued" =>
          \/ j \in QueuedJobs
          \/ j \in cancelRequested /\ attempts[j] > 0

\* A restarted pool shares the queue with what its predecessors left there, but there
\* are never more STOP_TOKENs than workers they were meant for: each token outstanding
\* has a worker (a killed one's token stays behind), and the running pool has all of
\* its own besides, so that no stray token ends one of them (start, stop).
TokensHaveWorkers ==
    Cardinality({w \in Workers : stage[w] \notin {"absent", "exited"}})
        >= (IF running THEN WorkerCount ELSE 0)
             + Cardinality({i \in DOMAIN queue : queue[i] = STOP_TOKEN})

\* Until somebody stops the executor or cancels a job, no job is lost: each one
\* that is not over is in the queue, in a runner's hands or behind a retry timer.
NoJobLost ==
    (\A g \in Generations : stopStage[g] = "none") =>
        \A j \in Jobs :
            /\ state[j] = "queued" => j \in QueuedJobs
            /\ state[j] = "retrying" => j \in retryTasks
            /\ state[j] = "running" =>
                  \/ \E w \in Workers : Runs(w, j)
                  \/ j \in cancelRequested

\* Nothing is put into a queue that nobody serves: once a pool is told to end, its
\* tokens are the last that workers find, so that a retry timer that wakes up later
\* queues no job (_enqueue_retry looks at _running, stop puts the tokens last).
QueueIsServed == ~running /\ queue # <<>> => queue[Len(queue)] = STOP_TOKEN

\* The executor's books balance: what is queued, lost, cancelled and dead is what its
\* jobs' states say, whatever stops, restarts and cancels are under way.
WorkIsAccounted ==
    /\ QueuedOnce /\ NoJobLost /\ TokensHaveWorkers /\ QueueIsServed
    /\ CancelWins /\ DeadLettersAreExhausted

\* Once a cancellation is recorded no further attempt is started
\* (_worker_loop, _execute_job and _enqueue_retry all look at cancel_requested).
NoAttemptAfterCancel ==
    [][\A j \in cancelRequested : attempts'[j] = attempts[j]]_vars

\* The registry's promise: every job follows ALLOWED_TRANSITIONS within its budget.
LifecyclePromise == Promise!Spec

-------------------------------------------------------------------------------
(* Liveness, under FairSpec.                                                *)

SomeWorkerKilled == \E w \in Workers : stage[w] = "killed"

\* Every submitted job is over in the end, however often it is retried, unless the
\* executor is stopped or a cancellation has killed a worker (wait_for_job returns).
JobsEnd ==
    \A j \in Jobs : state[j] = "queued" ~>
        Terminal(j) \/ ~running \/ SomeWorkerKilled
            \/ \E g \in Generations : stopStage[g] # "none"

\* stop() returns: the queue drains, the tokens reach the workers, gather() ends;
\* unless a cancellation has killed a worker.
StopEnds ==
    \A g \in Generations :
        stopStage[g] # "none" ~> stopStage[g] = "returned" \/ SomeWorkerKilled

\* The executor gets its work done: jobs end and so do stops (wait_for_job, stop).
WorkEnds == JobsEnd /\ StopEnds

===============================================================================
