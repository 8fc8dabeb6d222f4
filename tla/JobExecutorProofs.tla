--------------------------- MODULE JobExecutorProofs ---------------------------
(***************************************************************************)
(* Theorems about JobExecutor, for every set of jobs, pool size, retry     *)
(* bound and number of restarts.                                           *)
(***************************************************************************)
EXTENDS JobExecutor, FiniteSetTheorems, FunctionTheorems, TLAPS

\* What the proofs use of the constants.
LEMMA ConstantFacts ==
    /\ STOP_TOKEN \notin Jobs /\ NoJob \notin Jobs /\ CancellableJobs \subseteq Jobs
    /\ WorkerCount \in Nat \ {0} /\ MaxStarts \in Nat \ {0} /\ MaxRetries \in Nat
    /\ NoWorker \notin Workers
<1>1. /\ STOP_TOKEN \notin Jobs /\ NoJob \notin Jobs /\ CancellableJobs \subseteq Jobs
      /\ WorkerCount \in Nat \ {0} /\ MaxStarts \in Nat \ {0} /\ MaxRetries \in Nat
  BY ExecutorAssumption DEF ExecutorAssumption
<1>2. NoWorker \notin Workers
  <2>1. ASSUME NEW n \in Int PROVE 0 \notin 1..n
    OBVIOUS
  <2>2. WorkerCount * MaxStarts \in Int
    BY <1>1
  <2> QED
    BY <2>1, <2>2 DEF Workers, NoWorker
<1> QED
  BY <1>1, <1>2

-------------------------------------------------------------------------------
(* The inductive invariant.                                                 *)

\* TypeOK, except that the count of unfinished items is only an integer: that it
\* never goes below zero is JoinCountsWork.
RecordTypes ==
    /\ state \in [Jobs -> Promise!JobState]
    /\ attempts \in [Jobs -> Nat]
    /\ budget \in [Jobs -> 0..MaxRetries]
    /\ cancelRequested \subseteq Jobs
    /\ active \in [Jobs -> Workers \union {NoWorker}]
    /\ handlers \subseteq Jobs

QueueTypes ==
    /\ queue \in Seq(Jobs \union {STOP_TOKEN})
    /\ unfinished \in Int
    /\ retryTasks \subseteq Jobs
    /\ deadLetters \in Seq(Jobs)

LifeTypes ==
    /\ running \in BOOLEAN
    /\ starts \in 0..MaxStarts
    /\ stopStage \in [Generations -> StopStages]

TaskTypes ==
    /\ stage \in [Workers -> Stages]
    /\ wjob \in [Workers -> Jobs \union {NoJob}]
    /\ \A w \in Workers : stage[w] \in RunnerStages => wjob[w] \in Jobs
    /\ cancelling \subseteq Workers

Types == RecordTypes /\ QueueTypes /\ LifeTypes /\ TaskTypes

\* A running or retrying job keeps its entry in _active_tasks, so request_cancel
\* never transitions it behind its runner's or its timer's back.
BoundWhileAttempted ==
    \A j \in Jobs : state[j] \in {"running", "retrying"} => active[j] # NoWorker

\* The parts of QueuedOnce about what stands in the queue.
QueueDistinct ==
    \A i, k \in 1..Len(queue) :
        i # k /\ queue[i] = queue[k] => queue[i] = STOP_TOKEN

QueueWaits ==
    \A i \in 1..Len(queue) :
        queue[i] # STOP_TOKEN => state[queue[i]] \in {"queued", "cancelled"}

Core == /\ Types
        /\ OneRunnerPerJob
        /\ BoundWhileAttempted
        /\ RetryIsAwaited
        /\ QueueDistinct
        /\ QueueWaits

\* No waiting entry of the queue is job j.
NotQueued(j) == \A i \in 1..Len(queue) : queue[i] # j

-------------------------------------------------------------------------------
(* Types.                                                                   *)

LEMMA InitTypes == Init => Types
<1> SUFFICES ASSUME Init PROVE Types
  OBVIOUS
<1>1. RecordTypes
  BY ConstantFacts DEF Init, RecordTypes, Promise!JobState
<1>2. QueueTypes
  BY DEF Init, QueueTypes
<1>3. LifeTypes
  <2>1. running \in BOOLEAN
    BY DEF Init
  <2>3. starts \in 0..MaxStarts
    BY ConstantFacts DEF Init
  <2>2. stopStage \in [Generations -> StopStages]
    BY DEF Init, StopStages
  <2> QED
    BY <2>1, <2>2, <2>3 DEF LifeTypes
<1>4. TaskTypes
  BY DEF Init, TaskTypes, Stages, RunnerStages
<1> QED
  BY <1>1, <1>2, <1>3, <1>4 DEF Types

LEMMA TokensAreASequence ==
    StopTokens \in Seq(Jobs \union {STOP_TOKEN}) /\ Len(StopTokens) = WorkerCount
BY ConstantFacts DEF StopTokens

\* The registry operations keep the types of what they write.
LEMMA EndsAsTypes ==
    ASSUME RecordTypes, NEW j \in Jobs, NEW s \in Promise!JobState,
           EndsAs(j, s), handlers' \subseteq handlers
    PROVE  RecordTypes'
BY DEF RecordTypes, EndsAs

LEMMA FinalizeTypes ==
    ASSUME RecordTypes, NEW j \in Jobs, FinalizeCancelled(j)
    PROVE  RecordTypes'
BY EndsAsTypes DEF RecordTypes, FinalizeCancelled, recordVars, Promise!JobState

LEMMA RequestCancelTypes ==
    ASSUME RecordTypes, NEW J \in SUBSET Jobs, RequestCancel(J), UNCHANGED handlers
    PROVE  RecordTypes' /\ cancelling' \subseteq cancelling \union Workers
BY DEF RecordTypes, RequestCancel, Promise!JobState

LEMMA TaskDoneTypes ==
    ASSUME LifeTypes, unfinished \in Int, TaskDone, UNCHANGED <<running, starts>>
    PROVE  LifeTypes' /\ unfinished' \in Int
BY DEF LifeTypes, TaskDone, StopStages

LEMMA TakesTypes ==
    ASSUME QueueTypes, NEW w \in Workers, Takes(w)
    PROVE  /\ queue' \in Seq(Jobs \union {STOP_TOKEN})
           /\ Head(queue) \in Jobs \union {STOP_TOKEN}
BY DEF QueueTypes, Takes

LEMMA RunnerEndsTypes ==
    ASSUME TaskTypes, NEW w \in Workers, RunnerEnds(w)
    PROVE  TaskTypes'
BY DEF TaskTypes, RunnerEnds, Stages, BusyStages, RunnerStages

LEMMA FailTypes ==
    ASSUME RecordTypes, QueueTypes, NEW j \in Jobs, FailWithoutRetry(j)
    PROVE  RecordTypes' /\ deadLetters' \in Seq(Jobs)
<1>1. RecordTypes'
  BY EndsAsTypes DEF FailWithoutRetry, Promise!JobState
<1>2. deadLetters' \in Seq(Jobs)
  BY DEF FailWithoutRetry, QueueTypes
<1> QED
  BY <1>1, <1>2

LEMMA NextTypes == Types /\ [Next]_vars => Types'
<1> SUFFICES ASSUME Types, [Next]_vars PROVE Types'
  OBVIOUS
<1> USE DEF Types, recordVars, lifeVars, poolVars
<1>a. /\ (UNCHANGED <<recordVars, active, handlers>>) => RecordTypes'
      /\ (UNCHANGED <<queue, unfinished, retryTasks, deadLetters>>) => QueueTypes'
      /\ (UNCHANGED lifeVars) => LifeTypes'
      /\ (UNCHANGED poolVars) => TaskTypes'
  BY DEF RecordTypes, QueueTypes, LifeTypes, TaskTypes
<1>1. CASE Start
  <2>1. LifeTypes'
    BY <1>1, ConstantFacts DEF Start, LifeTypes
  <2>2. TaskTypes'
    BY <1>1 DEF Start, TaskTypes, Stages, RunnerStages
  <2> QED
    BY <1>1, <1>a, <2>1, <2>2 DEF Start
<1>2. CASE StopNoDrain
  <2>1. ActiveJobs \union QueuedJobs \in SUBSET Jobs
    BY DEF ActiveJobs, QueuedJobs, QueueTypes
  <2>2. RecordTypes' /\ cancelling' \subseteq Workers
    BY <1>2, <2>1, RequestCancelTypes DEF StopNoDrain, TaskTypes
  <2>3. QueueTypes'
    BY <1>2, TokensAreASequence DEF StopNoDrain, QueueTypes
  <2>4. LifeTypes'
    BY <1>2 DEF StopNoDrain, LifeTypes, StopStages
  <2>5. TaskTypes'
    BY <1>2, <2>2 DEF StopNoDrain, TaskTypes
  <2> QED
    BY <2>2, <2>3, <2>4, <2>5
<1>3. CASE StopDrain
  <2>1. LifeTypes' /\ QueueTypes'
    BY <1>3 DEF StopDrain, LifeTypes, QueueTypes, StopStages
  <2> QED
    BY <1>3, <1>a, <2>1 DEF StopDrain
<1>4. ASSUME NEW g \in Generations, StopEndsPool(g) PROVE Types'
  <2>1. QueueTypes'
    BY <1>4, TokensAreASequence, ConstantFacts DEF StopEndsPool, QueueTypes
  <2>2. LifeTypes'
    BY <1>4 DEF StopEndsPool, LifeTypes, StopStages
  <2> QED
    BY <1>4, <1>a, <2>1, <2>2 DEF StopEndsPool
<1>5. ASSUME NEW g \in Generations, StopReturns(g) PROVE Types'
  <2>1. LifeTypes'
    BY <1>5 DEF StopReturns, LifeTypes, StopStages
  <2> QED
    BY <1>5, <1>a, <2>1 DEF StopReturns
<1>6. ASSUME NEW j \in Jobs, Submit(j) PROVE Types'
  <2>1. RecordTypes'
    BY <1>6 DEF Submit, RecordTypes, Promise!JobState
  <2>2. QueueTypes'
    BY <1>6 DEF Submit, QueueTypes
  <2> QED
    BY <1>6, <1>a, <2>1, <2>2 DEF Submit
<1>7. ASSUME NEW j \in Jobs, RetryWakes(j) PROVE Types'
  <2>1. CASE FinalizeCancelled(j) /\ UNCHANGED <<queue, unfinished>>
    <3>1. RecordTypes' /\ QueueTypes'
      BY <1>7, <2>1, FinalizeTypes DEF RetryWakes, QueueTypes
    <3> QED
      BY <1>7, <1>a, <3>1 DEF RetryWakes
  <2>2. CASE Requeues(j)
    <3>1. RecordTypes'
      BY <2>2 DEF Requeues, RecordTypes, Promise!JobState
    <3>2. QueueTypes'
      BY <1>7, <2>2 DEF RetryWakes, Requeues, QueueTypes
    <3> QED
      BY <1>7, <1>a, <3>1, <3>2 DEF RetryWakes
  <2> QED
    BY <1>7, <2>1, <2>2 DEF RetryWakes
<1>8. ASSUME NEW j \in CancellableJobs, Cancel(j) PROVE Types'
  <2>1. RecordTypes' /\ cancelling' \subseteq Workers
    BY <1>8, RequestCancelTypes, ConstantFacts DEF Cancel, TaskTypes
  <2>2. TaskTypes'
    BY <1>8, <2>1 DEF Cancel, TaskTypes
  <2> QED
    BY <1>8, <1>a, <2>1, <2>2 DEF Cancel
<1>9. ASSUME NEW w \in Workers, WorkerStops(w) PROVE Types'
  <2>1. LifeTypes' /\ QueueTypes'
    BY <1>9, TakesTypes, TaskDoneTypes DEF WorkerStops, QueueTypes
  <2>2. TaskTypes'
    BY <1>9 DEF WorkerStops, TaskTypes, Stages, DeadStages, RunnerStages
  <2> QED
    BY <1>9, <1>a, <2>1, <2>2 DEF WorkerStops
<1>10. ASSUME NEW w \in Workers, WorkerSkipsJob(w) PROVE Types'
  <2>1. LifeTypes' /\ QueueTypes' /\ Head(queue) \in Jobs
    BY <1>10, TakesTypes, TaskDoneTypes DEF WorkerSkipsJob, QueueTypes
  <2>2. RecordTypes'
    BY <1>10, <1>a, <2>1, FinalizeTypes DEF WorkerSkipsJob
  <2> QED
    BY <1>10, <1>a, <2>1, <2>2 DEF WorkerSkipsJob
<1>11. ASSUME NEW w \in Workers, WorkerStartsJob(w) PROVE Types'
  <2>1. QueueTypes' /\ Head(queue) \in Jobs
    BY <1>11, TakesTypes DEF WorkerStartsJob, QueueTypes
  <2>2. RecordTypes'
    BY <1>11, <2>1 DEF WorkerStartsJob, RecordTypes, Promise!JobState
  <2>3. TaskTypes'
    BY <1>11, <2>1 DEF WorkerStartsJob, TaskTypes, Stages, BusyStages, RunnerStages
  <2> QED
    BY <1>11, <1>a, <2>1, <2>2, <2>3 DEF WorkerStartsJob
<1>12. ASSUME NEW w \in Workers, WorkerResumes(w) PROVE Types'
  <2>1. LifeTypes' /\ QueueTypes'
    BY <1>12, TaskDoneTypes DEF WorkerResumes, QueueTypes
  <2>2. TaskTypes'
    BY <1>12 DEF WorkerResumes, TaskTypes, Stages, DeadStages, RunnerStages
  <2> QED
    BY <1>12, <1>a, <2>1, <2>2 DEF WorkerResumes
<1>13. ASSUME NEW w \in Workers, RunnerCancelledUnstarted(w) PROVE Types'
  <2>1. TaskTypes'
    BY <1>13 DEF RunnerCancelledUnstarted, TaskTypes, Stages, BusyStages, RunnerStages
  <2> QED
    BY <1>13, <1>a, <2>1 DEF RunnerCancelledUnstarted
<1>14. ASSUME NEW w \in Workers, RunnerBegins(w) PROVE Types'
  <2> DEFINE j == wjob[w]
  <2>1. j \in Jobs
    BY <1>14 DEF RunnerBegins, TaskTypes, RunnerStages
  <2> HIDE DEF j
  <2>2. CASE FailWithoutRetry(j) /\ RunnerEnds(w)
    <3>1. RecordTypes' /\ QueueTypes' /\ TaskTypes'
      BY <1>14, <2>1, <2>2, FailTypes, RunnerEndsTypes DEF RunnerBegins, QueueTypes
    <3> QED
      BY <1>14, <1>a, <3>1 DEF RunnerBegins
  <2>3. CASE FinalizeCancelled(j) /\ RunnerEnds(w) /\ UNCHANGED deadLetters
    <3>1. RecordTypes' /\ TaskTypes'
      BY <2>1, <2>3, FinalizeTypes, RunnerEndsTypes
    <3> QED
      BY <1>14, <1>a, <2>3, <3>1 DEF RunnerBegins
  <2>4. CASE /\ stage' = [stage EXCEPT ![w] = "handling"]
             /\ UNCHANGED <<recordVars, active, handlers, deadLetters, wjob, cancelling>>
    <3>1. TaskTypes'
      BY <2>4, <2>1 DEF TaskTypes, Stages, BusyStages, RunnerStages, j
    <3> QED
      BY <1>14, <1>a, <2>4, <3>1 DEF RunnerBegins
  <2> QED
    BY <1>14, <2>2, <2>3, <2>4 DEF RunnerBegins, j
<1>15. ASSUME NEW w \in Workers, HandlerEnds(w) PROVE Types'
  <2>1. wjob[w] \in Jobs
    BY <1>15 DEF HandlerEnds, HandlerReturns, HandlerCancelled, HandlerFails,
       MayEndFreely, TaskTypes, RunnerStages
  <2>2. CASE HandlerReturns(w)
    <3>1. RecordTypes' /\ TaskTypes'
      BY <2>1, <2>2, EndsAsTypes, RunnerEndsTypes DEF HandlerReturns, Promise!JobState
    <3> QED
      BY <1>a, <2>2, <3>1 DEF HandlerReturns
  <2>3. CASE HandlerCancelled(w)
    <3>1. RecordTypes' /\ TaskTypes'
      BY <2>1, <2>3, FinalizeTypes, RunnerEndsTypes DEF HandlerCancelled
    <3> QED
      BY <1>a, <2>3, <3>1 DEF HandlerCancelled
  <2>4. CASE HandlerFails(w)
    <3> DEFINE j == wjob[w]
    <3>1. TaskTypes' /\ LifeTypes' /\ UNCHANGED <<queue, unfinished>>
      BY <1>a, <2>4, RunnerEndsTypes DEF HandlerFails
    <3>2. CASE FinalizeCancelled(j) /\ UNCHANGED <<retryTasks, deadLetters>>
      BY <1>a, <2>1, <3>1, <3>2, FinalizeTypes
    <3>3. CASE SchedulesRetry(j)
      <4>1. RecordTypes'
        BY <2>1, <3>3 DEF SchedulesRetry, RecordTypes, Promise!JobState
      <4>2. QueueTypes'
        BY <2>1, <3>1, <3>3 DEF SchedulesRetry, QueueTypes
      <4> QED
        BY <3>1, <4>1, <4>2
    <3>4. CASE FailWithoutRetry(j) /\ UNCHANGED retryTasks
      <4>1. RecordTypes' /\ QueueTypes'
        BY <2>1, <3>1, <3>4, FailTypes DEF QueueTypes
      <4> QED
        BY <3>1, <4>1
    <3> QED
      BY <2>4, <3>2, <3>3, <3>4 DEF HandlerFails
  <2> QED
    BY <1>15, <2>2, <2>3, <2>4 DEF HandlerEnds
<1>16. ASSUME NEW w \in Workers, HandlerSurvivesCancel(w) PROVE Types'
  <2>1. TaskTypes'
    BY <1>16 DEF HandlerSurvivesCancel, TaskTypes
  <2> QED
    BY <1>16, <1>a, <2>1 DEF HandlerSurvivesCancel
<1>17. CASE UNCHANGED vars
  BY <1>17, <1>a DEF vars
<1> QED
  BY <1>1, <1>2, <1>3, <1>4, <1>5, <1>6, <1>7, <1>8, <1>9, <1>10, <1>11, <1>12, <1>13,
     <1>14, <1>15, <1>16, <1>17 DEF Next, Worker, Runner

-------------------------------------------------------------------------------
(* The queue.                                                               *)

LEMMA TailOfQueue ==
    ASSUME Types, QueueDistinct, NEW w \in Workers, Takes(w)
    PROVE  /\ QueueDistinct'
           /\ \A i \in 1..Len(queue') :
                 \E k \in 1..Len(queue) : queue'[i] = queue[k]
           /\ Head(queue) # STOP_TOKEN =>
                 \A i \in 1..Len(queue') : queue'[i] # Head(queue)
           /\ \E k \in 1..Len(queue) : Head(queue) = queue[k]
<1> DEFINE S == Jobs \union {STOP_TOKEN}
<1>1. queue \in Seq(S) /\ queue # <<>> /\ queue' = Tail(queue)
  BY DEF Types, QueueTypes, Takes
<1>2. Len(queue) \in Nat /\ Len(queue) > 0 /\ Len(queue') = Len(queue) - 1
  BY <1>1
<1>3. \A i \in 1..Len(queue') : i + 1 \in 1..Len(queue) /\ queue'[i] = queue[i + 1]
  BY <1>1, <1>2
<1>4. Head(queue) = queue[1] /\ 1 \in 1..Len(queue)
  BY <1>1, <1>2
<1>5. QueueDistinct'
  BY <1>2, <1>3 DEF QueueDistinct
<1>6. Head(queue) # STOP_TOKEN =>
                 \A i \in 1..Len(queue') : queue'[i] # Head(queue)
  BY <1>2, <1>3, <1>4 DEF QueueDistinct
<1> QED
  BY <1>3, <1>4, <1>5, <1>6

LEMMA AppendToQueue ==
    ASSUME Types, QueueDistinct, NEW j \in Jobs, NotQueued(j), queue' = Append(queue, j)
    PROVE  /\ QueueDistinct'
           /\ \A i \in 1..Len(queue') :
                 queue'[i] = j \/ \E k \in 1..Len(queue) : queue'[i] = queue[k]
<1>1. queue \in Seq(Jobs \union {STOP_TOKEN})
  BY DEF Types, QueueTypes
<1>2. /\ Len(queue) \in Nat /\ Len(queue') = Len(queue) + 1
      /\ queue'[Len(queue')] = j
      /\ \A i \in 1..Len(queue) : queue'[i] = queue[i]
  BY <1>1
<1>3. \A i \in 1..Len(queue') : i = Len(queue') \/ i \in 1..Len(queue)
  BY <1>2
<1>4. QueueDistinct'
  BY <1>2, <1>3 DEF QueueDistinct, NotQueued
<1> QED
  BY <1>2, <1>3, <1>4

LEMMA TokensToQueue ==
    ASSUME Types, QueueDistinct, queue' = queue \o StopTokens
    PROVE  /\ QueueDistinct'
           /\ \A i \in 1..Len(queue') :
                 queue'[i] = STOP_TOKEN \/ \E k \in 1..Len(queue) : queue'[i] = queue[k]
<1>1. /\ queue \in Seq(Jobs \union {STOP_TOKEN})
      /\ StopTokens \in Seq(Jobs \union {STOP_TOKEN}) /\ Len(StopTokens) \in Nat
  BY TokensAreASequence, ConstantFacts DEF Types, QueueTypes
<1>2. /\ Len(queue) \in Nat /\ Len(queue') = Len(queue) + Len(StopTokens)
      /\ \A i \in 1..Len(queue') :
            IF i <= Len(queue) THEN queue'[i] = queue[i]
                               ELSE queue'[i] = StopTokens[i - Len(queue)]
  BY <1>1
<1>3. \A i \in 1..Len(StopTokens) : StopTokens[i] = STOP_TOKEN
  BY TokensAreASequence, ConstantFacts DEF StopTokens
<1>4. \A i \in 1..Len(queue') :
         \/ i \in 1..Len(queue) /\ queue'[i] = queue[i]
         \/ queue'[i] = STOP_TOKEN
  BY <1>1, <1>2, <1>3
<1> QED
  BY <1>4 DEF QueueDistinct

-------------------------------------------------------------------------------
(* The core invariant is inductive.                                         *)

LEMMA InitCore == Init => Core
<1> SUFFICES ASSUME Init PROVE Core
  OBVIOUS
<1>1. Types
  BY InitTypes
<1>2. OneRunnerPerJob /\ BoundWhileAttempted /\ RetryIsAwaited
  BY DEF Init, OneRunnerPerJob, BoundWhileAttempted, RetryIsAwaited, RunnerStages
<1>3. QueueDistinct /\ QueueWaits
  BY DEF Init, QueueDistinct, QueueWaits
<1> QED
  BY <1>1, <1>2, <1>3 DEF Core

\* request_cancel leaves the state of running and retrying jobs alone, and what
\* it does to the others is to cancel them.
LEMMA RequestCancelEffect ==
    ASSUME Core, NEW J \in SUBSET Jobs, RequestCancel(J)
    PROVE  /\ \A j \in Jobs : \/ state'[j] = state[j]
                              \/ /\ state'[j] = "cancelled"
                                 /\ state[j] \notin {"running", "retrying"}
           /\ active' = active
           /\ BoundWhileAttempted'
BY DEF Core, Types, RecordTypes, BoundWhileAttempted, RequestCancel

\* What the end of w's attempt, or a step that leaves other jobs and other workers
\* alone, means for the invariant.
LEMMA AttemptLeaves ==
    ASSUME Core, NEW w \in Workers, NEW j \in Jobs, stage[w] \in RunnerStages,
           j = wjob[w], RunnerEnds(w), UNCHANGED queue,
           state'[j] # "running",
           \A k \in Jobs \ {j} : state'[k] = state[k] /\ active'[k] = active[k]
    PROVE  OneRunnerPerJob' /\ QueueDistinct' /\ QueueWaits'
<1>1. state[j] = "running" /\ active[j] = w
  BY DEF Core, OneRunnerPerJob
<1>2. \A v \in Workers : stage'[v] \in RunnerStages =>
          v # w /\ stage[v] \in RunnerStages /\ wjob'[v] = wjob[v]
  BY DEF RunnerEnds, RunnerStages, Core, Types, TaskTypes
<1>3. \A v \in Workers : v # w /\ stage[v] \in RunnerStages => wjob[v] \in Jobs \ {j}
  BY <1>1 DEF Core, OneRunnerPerJob
<1>4. OneRunnerPerJob'
  BY <1>2, <1>3 DEF Core, OneRunnerPerJob
<1>5. \A i \in 1..Len(queue) : queue[i] # STOP_TOKEN => queue[i] \in Jobs \ {j}
  BY <1>1 DEF Core, QueueWaits, Types, QueueTypes
<1> QED
  BY <1>4, <1>5 DEF Core, QueueDistinct, QueueWaits

\* The same for a job that no runner executes and that leaves the queue.
LEMMA OthersUndisturbed ==
    ASSUME Core, NEW j \in Jobs, state[j] # "running", UNCHANGED <<stage, wjob>>,
           \A k \in Jobs \ {j} : state'[k] = state[k] /\ active'[k] = active[k]
    PROVE  OneRunnerPerJob'
BY DEF Core, OneRunnerPerJob

\* A job that is neither running nor retrying afterwards has no claim on a timer.
LEMMA AttemptOver ==
    ASSUME Core, NEW j \in Jobs, state'[j] \notin {"running", "retrying"},
           retryTasks' \subseteq retryTasks \ {j},
           \A k \in Jobs \ {j} : state'[k] = state[k] /\ active'[k] = active[k]
    PROVE  BoundWhileAttempted' /\ RetryIsAwaited'
BY DEF Core, BoundWhileAttempted, RetryIsAwaited, Types, QueueTypes

LEMMA NextCore == Core /\ [Next]_vars => Core'
<1> SUFFICES ASSUME Core, [Next]_vars PROVE Core'
  OBVIOUS
<1>t. Types'
  BY NextTypes DEF Core
<1>u. /\ UNCHANGED <<state, active, stage, wjob>> => OneRunnerPerJob'
      /\ UNCHANGED <<state, active>> => BoundWhileAttempted'
      /\ UNCHANGED <<state, retryTasks>> => RetryIsAwaited'
      /\ UNCHANGED <<state, queue>> => QueueDistinct' /\ QueueWaits'
  BY DEF Core, OneRunnerPerJob, BoundWhileAttempted, RetryIsAwaited, QueueDistinct, QueueWaits
<1>1. CASE Start
  <2>1. OneRunnerPerJob'
    BY <1>1 DEF Start, Core, OneRunnerPerJob, RunnerStages, recordVars, Types, TaskTypes
  <2> QED
    BY <1>1, <1>t, <1>u, <2>1 DEF Start, Core, recordVars
<1>2. CASE StopNoDrain
  <2>1. ActiveJobs \union QueuedJobs \in SUBSET Jobs
    BY DEF ActiveJobs, QueuedJobs, Core, Types, QueueTypes
  <2>2. /\ BoundWhileAttempted' /\ active' = active
        /\ \A j \in Jobs : state[j] = "running" => state'[j] = "running"
    BY <1>2, <2>1, RequestCancelEffect DEF StopNoDrain
  <2>3. OneRunnerPerJob' /\ RetryIsAwaited'
    BY <1>2, <2>2 DEF StopNoDrain, Core, OneRunnerPerJob, RetryIsAwaited
  <2>4. QueueDistinct' /\ QueueWaits'
    <3>1. Len(queue') = WorkerCount /\ \A i \in 1..WorkerCount : queue'[i] = STOP_TOKEN
      BY <1>2, TokensAreASequence DEF StopNoDrain, StopTokens
    <3> QED
      BY <3>1 DEF QueueDistinct, QueueWaits
  <2> QED
    BY <1>t, <2>2, <2>3, <2>4 DEF Core
<1>3. CASE StopDrain
  <2>1. RetryIsAwaited'
    BY <1>3 DEF StopDrain, RetryIsAwaited
  <2> QED
    BY <1>3, <1>t, <1>u, <2>1 DEF StopDrain, Core, recordVars, poolVars
<1>4. ASSUME NEW g \in Generations, StopEndsPool(g) PROVE Core'
  <2>1. QueueDistinct' /\ QueueWaits'
    BY <1>4, TokensToQueue DEF StopEndsPool, Core, QueueWaits, recordVars
  <2> QED
    BY <1>4, <1>t, <1>u, <2>1 DEF StopEndsPool, Core, recordVars, poolVars
<1>5. ASSUME NEW g \in Generations, StopReturns(g) PROVE Core'
  BY <1>5, <1>t, <1>u DEF StopReturns, Core, recordVars, poolVars
<1>6. ASSUME NEW j \in Jobs, Submit(j) PROVE Core'
  <2>1. /\ state[j] = "absent" /\ state'[j] = "queued" /\ active' = active
        /\ \A k \in Jobs \ {j} : state'[k] = state[k]
    BY <1>6 DEF Submit, Core, Types, RecordTypes
  <2>2. NotQueued(j)
    BY <2>1, ConstantFacts DEF Core, QueueWaits, NotQueued
  <2>3. OneRunnerPerJob'
    BY <1>6, <2>1, OthersUndisturbed DEF Submit, poolVars
  <2>4. BoundWhileAttempted' /\ RetryIsAwaited'
    BY <1>6, <2>1 DEF Submit, Core, BoundWhileAttempted, RetryIsAwaited
  <2>5. QueueDistinct' /\ QueueWaits'
    BY <1>6, <2>1, <2>2, AppendToQueue DEF Submit, Core, QueueWaits, NotQueued, Types, QueueTypes
  <2> QED
    BY <1>t, <2>3, <2>4, <2>5 DEF Core
<1>7. ASSUME NEW j \in Jobs, RetryWakes(j) PROVE Core'
  <2>1. state[j] = "retrying" /\ NotQueued(j)
    BY <1>7, ConstantFacts DEF RetryWakes, Core, RetryIsAwaited, QueueWaits, NotQueued
  <2>2. /\ state'[j] \notin {"running", "retrying"}
        /\ \A k \in Jobs \ {j} : state'[k] = state[k] /\ active'[k] = active[k]
    BY <1>7, <2>1 DEF RetryWakes, FinalizeCancelled, Requeues, EndsAs, Terminal,
       Promise!TERMINAL_JOB_STATES, Core, Types, RecordTypes
  <2>3. OneRunnerPerJob'
    BY <1>7, <2>1, <2>2, OthersUndisturbed DEF RetryWakes, poolVars
  <2>4. BoundWhileAttempted' /\ RetryIsAwaited'
    BY <1>7, <2>2, AttemptOver DEF RetryWakes
  <2>5. CASE UNCHANGED queue
    BY <1>t, <2>1, <2>2, <2>3, <2>4, <2>5
       DEF Core, QueueDistinct, QueueWaits, NotQueued, Types, QueueTypes
  <2>6. CASE Requeues(j)
    <3>1. queue' = Append(queue, j) /\ state'[j] = "queued"
      BY <2>6 DEF Requeues, Core, Types, RecordTypes
    <3>2. QueueDistinct' /\ QueueWaits'
      BY SMTT(40), <2>1, <2>2, <3>1, AppendToQueue DEF Core, QueueWaits, NotQueued, Types, QueueTypes
    <3> QED
      BY <1>t, <2>3, <2>4, <3>2 DEF Core
  <2> QED
    BY <1>7, <2>5, <2>6 DEF RetryWakes
<1>8. ASSUME NEW j \in CancellableJobs, Cancel(j) PROVE Core'
  <2>1. /\ BoundWhileAttempted' /\ active' = active
        /\ \A k \in Jobs : \/ state'[k] = state[k]
                           \/ /\ state'[k] = "cancelled"
                              /\ state[k] \notin {"running", "retrying"}
    BY <1>8, RequestCancelEffect, ConstantFacts DEF Cancel
  <2>2. OneRunnerPerJob' /\ RetryIsAwaited'
    BY <1>8, <2>1 DEF Cancel, Core, OneRunnerPerJob, RetryIsAwaited, Types, QueueTypes
  <2>3. QueueDistinct' /\ QueueWaits'
    BY <1>8, <2>1 DEF Cancel, Core, QueueDistinct, QueueWaits, Types, QueueTypes
  <2> QED
    BY <1>t, <2>1, <2>2, <2>3 DEF Core
<1>9. ASSUME NEW w \in Workers, WorkerStops(w) PROVE Core'
  <2>1. OneRunnerPerJob'
    BY <1>9 DEF WorkerStops, Core, OneRunnerPerJob, RunnerStages, recordVars, Types, TaskTypes
  <2>2. QueueDistinct' /\ QueueWaits'
    BY <1>9, TailOfQueue DEF WorkerStops, Core, QueueWaits, recordVars
  <2> QED
    BY <1>9, <1>t, <1>u, <2>1, <2>2 DEF WorkerStops, Core, recordVars
<1>10. ASSUME NEW w \in Workers, WorkerSkipsJob(w) PROVE Core'
  <2> DEFINE j == Head(queue)
  <2>1. j \in Jobs /\ state[j] \in {"queued", "cancelled"}
    BY <1>10, TakesTypes, TailOfQueue DEF WorkerSkipsJob, Core, Types, QueueWaits
  <2>2. /\ state'[j] \in {"queued", "cancelled"}
        /\ \A k \in Jobs \ {j} : state'[k] = state[k] /\ active'[k] = active[k]
    BY <1>10, <2>1 DEF WorkerSkipsJob, FinalizeCancelled, EndsAs, Core, Types, RecordTypes, recordVars
  <2>3. OneRunnerPerJob'
    BY <1>10, <2>1, <2>2, OthersUndisturbed DEF WorkerSkipsJob, poolVars
  <2>4. BoundWhileAttempted' /\ RetryIsAwaited'
    <3>1. retryTasks' \subseteq retryTasks \ {j}
      BY <1>10, <2>1 DEF WorkerSkipsJob, Core, RetryIsAwaited
    <3> QED
      BY <2>1, <2>2, <3>1, AttemptOver
  <2>5. QueueDistinct' /\ QueueWaits'
    BY <1>10, <2>2, TailOfQueue DEF WorkerSkipsJob, Core, QueueWaits, Types, QueueTypes
  <2> QED
    BY <1>t, <2>3, <2>4, <2>5 DEF Core
<1>11. ASSUME NEW w \in Workers, WorkerStartsJob(w) PROVE Core'
  <2> DEFINE j == Head(queue)
  <2>1. /\ j \in Jobs /\ state[j] = "queued" /\ Takes(w) /\ j # STOP_TOKEN
        /\ state' = [state EXCEPT ![j] = "running"]
        /\ active' = [active EXCEPT ![j] = w]
        /\ wjob' = [wjob EXCEPT ![w] = j]
        /\ stage' = [stage EXCEPT ![w] = "spawned"]
        /\ retryTasks' = retryTasks
    BY <1>11, TakesTypes DEF WorkerStartsJob, Core, Types
  <2> HIDE DEF j
  <2>2. OneRunnerPerJob'
    BY <2>1 DEF Core, OneRunnerPerJob, Types, RecordTypes, TaskTypes
  <2>3. BoundWhileAttempted' /\ RetryIsAwaited'
    BY <2>1, ConstantFacts DEF Core, BoundWhileAttempted, RetryIsAwaited, Types, RecordTypes
  <2>4. \A k \in Jobs \ {j} : state'[k] = state[k]
    BY <2>1 DEF Core, Types, RecordTypes
  <2>5. QueueDistinct' /\ QueueWaits'
    BY <2>1, <2>4, TailOfQueue DEF Core, QueueWaits, Types, QueueTypes, j
  <2> QED
    BY <1>t, <2>2, <2>3, <2>5 DEF Core
<1>12. ASSUME NEW w \in Workers, WorkerResumes(w) PROVE Core'
  <2>1. OneRunnerPerJob'
    BY <1>12 DEF WorkerResumes, Core, OneRunnerPerJob, RunnerStages, recordVars, Types, TaskTypes
  <2> QED
    BY <1>12, <1>t, <1>u, <2>1 DEF WorkerResumes, Core, recordVars
<1>13. ASSUME NEW w \in Workers, RunnerCancelledUnstarted(w) PROVE Core'
  <2>1. OneRunnerPerJob'
    BY <1>13 DEF RunnerCancelledUnstarted, Core, OneRunnerPerJob, RunnerStages, recordVars,
       Types, TaskTypes
  <2> QED
    BY <1>13, <1>t, <1>u, <2>1 DEF RunnerCancelledUnstarted, Core, recordVars
<1>14. ASSUME NEW w \in Workers, NEW j \in Jobs, stage[w] \in RunnerStages, j = wjob[w],
              RunnerEnds(w), UNCHANGED <<queue, retryTasks>>,
              FinalizeCancelled(j) \/ EndsAs(j, "failed") \/ EndsAs(j, "completed")
       PROVE  Core'
  <2>1. state[j] = "running"
    BY <1>14 DEF Core, OneRunnerPerJob
  <2>2. /\ state'[j] \in {"cancelled", "failed", "completed"}
        /\ \A k \in Jobs \ {j} : state'[k] = state[k] /\ active'[k] = active[k]
    BY <1>14, <2>1 DEF FinalizeCancelled, EndsAs, Terminal, Promise!TERMINAL_JOB_STATES,
       Core, Types, RecordTypes
  <2>3. OneRunnerPerJob' /\ QueueDistinct' /\ QueueWaits'
    BY <1>14, <2>2, AttemptLeaves
  <2>4. BoundWhileAttempted' /\ RetryIsAwaited'
    <3>1. retryTasks' \subseteq retryTasks \ {j}
      BY <1>14, <2>1 DEF Core, RetryIsAwaited
    <3> QED
      BY <2>2, <3>1, AttemptOver
  <2> QED
    BY <1>t, <2>3, <2>4 DEF Core
<1>15. ASSUME NEW w \in Workers, RunnerBegins(w) PROVE Core'
  <2>1. stage[w] \in RunnerStages /\ wjob[w] \in Jobs
    BY <1>15 DEF RunnerBegins, RunnerStages, Core, Types, TaskTypes
  <2>2. CASE FailWithoutRetry(wjob[w]) /\ RunnerEnds(w)
    BY <1>14, <1>15, <2>1, <2>2 DEF RunnerBegins, FailWithoutRetry
  <2>4. CASE FinalizeCancelled(wjob[w]) /\ RunnerEnds(w)
    BY <1>14, <1>15, <2>1, <2>4 DEF RunnerBegins
  <2>3. CASE /\ stage' = [stage EXCEPT ![w] = "handling"]
             /\ UNCHANGED <<recordVars, active, handlers, deadLetters, wjob, cancelling>>
    <3>1. OneRunnerPerJob'
      BY <2>1, <2>3 DEF Core, OneRunnerPerJob, recordVars, Types, TaskTypes
    <3> QED
      BY <1>15, <1>t, <1>u, <2>3, <3>1 DEF RunnerBegins, Core, recordVars
  <2> QED
    BY <1>15, <2>2, <2>3, <2>4 DEF RunnerBegins
<1>16. ASSUME NEW w \in Workers, HandlerEnds(w) PROVE Core'
  <2>1. stage[w] \in RunnerStages /\ wjob[w] \in Jobs /\ RunnerEnds(w)
    BY <1>16 DEF HandlerEnds, HandlerReturns, HandlerCancelled, HandlerFails, MayEndFreely,
       RunnerStages, Core, Types, TaskTypes
  <2>2. CASE HandlerReturns(w)
    BY <1>14, <2>1, <2>2 DEF HandlerReturns
  <2>3. CASE HandlerCancelled(w)
    BY <1>14, <2>1, <2>3 DEF HandlerCancelled
  <2>4. CASE HandlerFails(w) /\ SchedulesRetry(wjob[w])
    <3> DEFINE j == wjob[w]
    <3>1. state[j] = "running" /\ active[j] = w
      BY <2>1 DEF Core, OneRunnerPerJob
    <3>2. /\ state'[j] = "retrying" /\ active' = active
          /\ retryTasks' = retryTasks \union {j}
          /\ \A k \in Jobs \ {j} : state'[k] = state[k]
      BY <2>1, <2>4 DEF SchedulesRetry, Core, Types, RecordTypes
    <3>3. OneRunnerPerJob' /\ QueueDistinct' /\ QueueWaits'
      BY <2>1, <2>4, <3>2, AttemptLeaves DEF HandlerFails
    <3>4. BoundWhileAttempted' /\ RetryIsAwaited'
      BY <2>1, <3>1, <3>2, ConstantFacts DEF Core, BoundWhileAttempted, RetryIsAwaited, Types,
         QueueTypes
    <3> QED
      BY <1>t, <3>3, <3>4 DEF Core
  <2>5. CASE HandlerFails(w) /\ ~SchedulesRetry(wjob[w])
    BY <1>14, <2>1, <2>5 DEF HandlerFails, FailWithoutRetry
  <2> QED
    BY <1>16, <2>2, <2>3, <2>4, <2>5 DEF HandlerEnds
<1>17. ASSUME NEW w \in Workers, HandlerSurvivesCancel(w) PROVE Core'
  BY <1>17, <1>t, <1>u DEF HandlerSurvivesCancel, Core, recordVars
<1>18. CASE UNCHANGED vars
  BY <1>18, <1>t, <1>u DEF vars, Core
<1> QED
  BY <1>1, <1>2, <1>3, <1>4, <1>5, <1>6, <1>7, <1>8, <1>9, <1>10, <1>11, <1>12, <1>13,
     <1>15, <1>16, <1>17, <1>18 DEF Next, Worker, Runner

LEMMA CoreInvariant == Spec => []Core
BY InitCore, NextCore, PTL DEF Spec

-------------------------------------------------------------------------------
(* What follows from the core invariant at once.                            *)

\* A job is executed by at most one runner, which is the task bound to it, and the
\* registry calls it running as long as one executes it: cancel() reaches the
\* runner, and _execute_job's own transitions are never refused.
THEOREM OneRunnerPerJobHolds == Spec => []OneRunnerPerJob
<1>1. Core => OneRunnerPerJob
  BY DEF Core
<1> QED
  BY CoreInvariant, <1>1, PTL

\* A retry timer is pending only for a job that is retrying, so a late timer never
\* revives a job that is over.
THEOREM RetryIsAwaitedHolds == Spec => []RetryIsAwaited
<1>1. Core => RetryIsAwaited
  BY DEF Core
<1> QED
  BY CoreInvariant, <1>1, PTL

\* Once a cancellation has been recorded no further attempt starts, whatever the
\* state of the job was when it was cancelled.
THEOREM NoAttemptAfterCancelHolds == Spec => NoAttemptAfterCancel
<1>1. ASSUME Core, [Next]_vars
      PROVE  \A j \in cancelRequested : attempts'[j] = attempts[j]
  <2> SUFFICES ASSUME NEW j \in cancelRequested PROVE attempts'[j] = attempts[j]
    OBVIOUS
  <2>1. CASE \E w \in Workers : WorkerStartsJob(w)
    <3>1. PICK w \in Workers : WorkerStartsJob(w)
      BY <2>1
    <3>2. Head(queue) # j
      BY <3>1 DEF WorkerStartsJob, CancelledWhileQueued
    <3> QED
      BY <3>1, <3>2 DEF WorkerStartsJob, Core, Types, RecordTypes
  <2>2. CASE ~\E w \in Workers : WorkerStartsJob(w)
    <3>1. CASE UNCHANGED vars
      BY <3>1 DEF vars
    <3>2. CASE Next
      <4>1. CASE Start \/ StopNoDrain \/ StopDrain
        BY <4>1 DEF Start, StopNoDrain, StopDrain, RequestCancel, recordVars
      <4>2. CASE \E g \in Generations : StopEndsPool(g) \/ StopReturns(g)
        BY <4>2 DEF StopEndsPool, StopReturns, recordVars
      <4>3. CASE \E k \in Jobs : Submit(k) \/ RetryWakes(k) \/ Cancel(k)
        BY <4>3 DEF Submit, RetryWakes, Requeues, Cancel, RequestCancel,
           FinalizeCancelled, EndsAs, recordVars
      <4>4. CASE \E w \in Workers : Worker(w)
        BY <2>2, <4>4 DEF Worker, WorkerStops, WorkerSkipsJob, WorkerResumes,
           FinalizeCancelled, EndsAs, recordVars
      <4>5. CASE \E w \in Workers : RunnerCancelledUnstarted(w) \/ RunnerBegins(w)
                                    \/ HandlerSurvivesCancel(w)
        BY <4>5 DEF RunnerCancelledUnstarted, RunnerBegins, HandlerSurvivesCancel,
           FinalizeCancelled, FailWithoutRetry, EndsAs, recordVars
      <4>6. CASE \E w \in Workers : HandlerEnds(w)
        BY <4>6 DEF HandlerEnds, HandlerReturns, HandlerCancelled, HandlerFails,
           SchedulesRetry, FinalizeCancelled, FailWithoutRetry, EndsAs, recordVars
      <4> QED
        BY <3>2, <4>1, <4>2, <4>3, <4>4, <4>5, <4>6, ConstantFacts DEF Next, Runner
    <3> QED
      BY <1>1, <3>1, <3>2
  <2> QED
    BY <2>1, <2>2
<1> QED
  BY CoreInvariant, <1>1, PTL DEF Spec, NoAttemptAfterCancel

-------------------------------------------------------------------------------
(* The budget of attempts, the handlers and the promise of JobLifecycle.    *)

WithinBudget ==
    \A j \in Jobs :
        /\ state[j] = "absent" => attempts[j] = 0
        /\ state[j] \in {"queued", "retrying"} => attempts[j] <= budget[j]
        /\ state[j] = "running" => attempts[j] >= 1
        /\ state[j] = "failed" => attempts[j] = budget[j] + 1
        /\ attempts[j] <= budget[j] + 1

CancelledAreKnown == \A j \in cancelRequested : state[j] # "absent"

Ledger == HandlerAvailable /\ WithinBudget /\ CancelledAreKnown

\* What one step of the executor may do to one job.
StepOf(j) ==
    /\ Promise!Stays(j) \/ Promise!Submitted(j) \/ Promise!Moves(j)
    /\ Promise!Stays(j) \/ state[j] # state'[j]
    /\ j \in handlers \ handlers' => state'[j] \in Promise!TERMINAL_JOB_STATES
    /\ state[j] = "absent" /\ state'[j] # "absent" => j \in handlers'

LEMMA Unmoved ==
    ASSUME NEW j \in Jobs, state'[j] = state[j], attempts'[j] = attempts[j],
           budget'[j] = budget[j],
           j \in handlers \ handlers' => state[j] \in Promise!TERMINAL_JOB_STATES
    PROVE  StepOf(j)
BY DEF StepOf, Promise!Stays

LEMMA RequestCancelSteps ==
    ASSUME Core, NEW J \in SUBSET Jobs, RequestCancel(J), handlers' = handlers
    PROVE  /\ \A j \in Jobs : StepOf(j)
           /\ Promise!CancelsRecorded
<1>1. ASSUME NEW j \in Jobs PROVE StepOf(j)
  <2>1. attempts'[j] = attempts[j] /\ budget'[j] = budget[j]
    BY DEF RequestCancel
  <2>2. CASE state'[j] = state[j]
    BY <2>1, <2>2, Unmoved
  <2>3. CASE state'[j] # state[j]
    <3>1. state'[j] = "cancelled" /\ state[j] \in {"queued"}
      BY <2>3, RequestCancelEffect DEF Core, Types, RecordTypes, RequestCancel, Registered, Terminal,
         Promise!TERMINAL_JOB_STATES, Promise!JobState
    <3> QED
      BY <2>1, <3>1 DEF StepOf, Promise!Moves, Promise!ALLOWED_TRANSITIONS,
         Core, Types, RecordTypes
  <2> QED
    BY <2>2, <2>3
<1>2. Promise!CancelsRecorded
  BY DEF RequestCancel, Promise!CancelsRecorded, Registered, Terminal
<1> QED
  BY <1>1, <1>2

\* The end of the attempt of a running job.
LEMMA EndsAsSteps ==
    ASSUME Core, NEW i \in Jobs, NEW s \in {"completed", "failed", "cancelled"},
           state[i] \in {"running"} \/ (state[i] \in {"queued", "retrying"} /\ s = "cancelled"),
           EndsAs(i, s), handlers' = handlers \ {i},
           s = "failed" => /\ Promise!retries_used(attempts[i]) >= budget[i]
                           /\ i \notin cancelRequested
    PROVE  \A j \in Jobs : StepOf(j)
<1> SUFFICES ASSUME NEW j \in Jobs PROVE StepOf(j)
  OBVIOUS
<1>1. attempts'[j] = attempts[j] /\ budget'[j] = budget[j]
  BY DEF EndsAs
<1>2. CASE j # i
  <2>1. state'[j] = state[j]
    BY <1>2 DEF EndsAs, Core, Types, RecordTypes
  <2>2. j \in handlers => j \in handlers'
    BY <1>2
  <2> QED
    BY <1>1, <2>1, <2>2, Unmoved
<1>3. CASE j = i
  <2>1. state'[i] = s
    BY DEF EndsAs, Core, Types, RecordTypes
  <2> QED
    BY <1>1, <1>3, <2>1 DEF StepOf, Promise!Moves, Promise!ALLOWED_TRANSITIONS,
       Promise!TERMINAL_JOB_STATES, Core, Types, RecordTypes
<1> QED
  BY <1>2, <1>3

LEMMA FinalizeSteps ==
    ASSUME Core, NEW i \in Jobs, FinalizeCancelled(i), state[i] # "absent"
    PROVE  \A j \in Jobs : StepOf(j)
<1>1. CASE Terminal(i)
  <2>1. UNCHANGED recordVars /\ handlers' = handlers \ {i}
    BY <1>1 DEF FinalizeCancelled
  <2> QED
    BY <1>1, <2>1, Unmoved DEF recordVars, Terminal
<1>2. CASE ~Terminal(i)
  <2>1. EndsAs(i, "cancelled") /\ handlers' = handlers \ {i}
    BY <1>2 DEF FinalizeCancelled
  <2>2. state[i] \in {"queued", "running", "retrying"}
    BY <1>2 DEF Terminal, Promise!TERMINAL_JOB_STATES, Promise!JobState, Core, Types, RecordTypes
  <2> QED
    BY <2>1, <2>2, EndsAsSteps
<1> QED
  BY <1>1, <1>2

LEMMA NextSteps ==
    ASSUME Core, Ledger, [Next]_vars
    PROVE  (\A j \in Jobs : StepOf(j)) /\ Promise!CancelsRecorded
<1> DEFINE Goal == (\A j \in Jobs : StepOf(j)) /\ Promise!CancelsRecorded
<1>a. ASSUME UNCHANGED cancelRequested PROVE Promise!CancelsRecorded
  BY <1>a DEF Promise!CancelsRecorded
<1>b. ASSUME UNCHANGED <<recordVars, handlers>> PROVE Goal
  BY <1>a, <1>b, Unmoved DEF recordVars
<1>1. CASE Start \/ StopDrain
  BY <1>1, <1>b DEF Start, StopDrain
<1>2. CASE StopNoDrain
  <2>1. ActiveJobs \union QueuedJobs \in SUBSET Jobs
    BY DEF ActiveJobs, QueuedJobs, Core, Types, QueueTypes
  <2> QED
    BY <1>2, <2>1, RequestCancelSteps DEF StopNoDrain
<1>3. ASSUME NEW g \in Generations, StopEndsPool(g) \/ StopReturns(g) PROVE Goal
  BY <1>3, <1>b DEF StopEndsPool, StopReturns
<1>4. ASSUME NEW i \in Jobs, Submit(i) PROVE Goal
  <2>1. ASSUME NEW j \in Jobs PROVE StepOf(j)
    <3>1. CASE j # i
      BY <1>4, <3>1, Unmoved DEF Submit, Core, Types, RecordTypes
    <3>2. CASE j = i
      <4>1. /\ state[i] = "absent" /\ state'[i] = "queued" /\ i \in handlers'
            /\ attempts'[i] = 0 /\ budget'[i] \in 0..MaxRetries
            /\ i \notin cancelRequested'
        BY <1>4 DEF Submit, Core, Types, RecordTypes, Ledger, WithinBudget, CancelledAreKnown
      <4> QED
        BY <1>4, <3>2, <4>1 DEF StepOf, Promise!Submitted, Submit
    <3> QED
      BY <3>1, <3>2
  <2> QED
    BY <1>4, <1>a, <2>1 DEF Submit
<1>5. ASSUME NEW i \in Jobs, RetryWakes(i) PROVE Goal
  <2>1. state[i] = "retrying"
    BY <1>5 DEF RetryWakes, Core, RetryIsAwaited
  <2>2. CASE FinalizeCancelled(i)
    BY <1>a, <2>1, <2>2, FinalizeSteps DEF FinalizeCancelled, EndsAs, recordVars
  <2>3. CASE Requeues(i)
    <3>1. ASSUME NEW j \in Jobs PROVE StepOf(j)
      <4>1. CASE j # i
        BY <2>3, <4>1, Unmoved DEF Requeues, Core, Types, RecordTypes
      <4>2. CASE j = i
        <5>1. /\ state'[i] = "queued" /\ attempts'[i] = attempts[i]
              /\ budget'[i] = budget[i] /\ handlers' = handlers
              /\ attempts[i] \in Nat
          BY <2>3 DEF Requeues, Core, Types, RecordTypes
        <5> QED
          BY <2>1, <4>2, <5>1 DEF StepOf, Promise!Moves, Promise!ALLOWED_TRANSITIONS
      <4> QED
        BY <4>1, <4>2
    <3> QED
      BY <1>a, <2>3, <3>1 DEF Requeues
  <2> QED
    BY <1>5, <2>2, <2>3 DEF RetryWakes
<1>6. ASSUME NEW i \in CancellableJobs, Cancel(i) PROVE Goal
  BY <1>6, RequestCancelSteps, ConstantFacts DEF Cancel
<1>7. ASSUME NEW w \in Workers, WorkerStops(w) \/ WorkerResumes(w) PROVE Goal
  BY <1>7, <1>b DEF WorkerStops, WorkerResumes
<1>8. ASSUME NEW w \in Workers, WorkerSkipsJob(w) PROVE Goal
  <2> DEFINE i == Head(queue)
  <2>1. i \in Jobs /\ state[i] # "absent"
    BY <1>8, TakesTypes, TailOfQueue DEF WorkerSkipsJob, Core, Types, QueueWaits
  <2>2. CASE FinalizeCancelled(i)
    BY <1>a, <2>1, <2>2, FinalizeSteps DEF FinalizeCancelled, EndsAs, recordVars
  <2>3. CASE UNCHANGED <<recordVars, active, handlers>>
    BY <1>b, <2>3
  <2> QED
    BY <1>8, <2>2, <2>3 DEF WorkerSkipsJob
<1>9. ASSUME NEW w \in Workers, WorkerStartsJob(w) PROVE Goal
  <2> DEFINE i == Head(queue)
  <2>1. /\ i \in Jobs /\ state[i] = "queued" /\ i \notin cancelRequested
        /\ state' = [state EXCEPT ![i] = "running"]
        /\ attempts' = [attempts EXCEPT ![i] = @ + 1]
        /\ UNCHANGED <<budget, cancelRequested, handlers>>
    BY <1>9, TakesTypes DEF WorkerStartsJob, CancelledWhileQueued, Core, Types
  <2> HIDE DEF i
  <2>2. ASSUME NEW j \in Jobs PROVE StepOf(j)
    <3>1. CASE j # i
      BY <2>1, <3>1, Unmoved DEF Core, Types, RecordTypes
    <3>2. CASE j = i
      <4>1. /\ state'[i] = "running" /\ attempts'[i] = attempts[i] + 1
            /\ budget'[i] = budget[i]
        BY <2>1 DEF Core, Types, RecordTypes
      <4> QED
        BY <2>1, <3>2, <4>1 DEF StepOf, Promise!Moves, Promise!ALLOWED_TRANSITIONS
    <3> QED
      BY <3>1, <3>2
  <2> QED
    BY <1>a, <2>1, <2>2
<1>10. ASSUME NEW w \in Workers, RunnerCancelledUnstarted(w) \/ HandlerSurvivesCancel(w)
       PROVE  Goal
  BY <1>10, <1>b DEF RunnerCancelledUnstarted, HandlerSurvivesCancel
<1>11. ASSUME NEW w \in Workers, stage[w] \in RunnerStages
       PROVE  /\ wjob[w] \in Jobs /\ state[wjob[w]] = "running"
              /\ wjob[w] \in handlers
              /\ attempts[wjob[w]] \in Nat /\ attempts[wjob[w]] >= 1
              /\ budget[wjob[w]] \in Nat
  BY <1>11, ConstantFacts DEF Core, OneRunnerPerJob, Ledger, HandlerAvailable, WithinBudget, Registered,
     Terminal, Promise!TERMINAL_JOB_STATES, Types, RecordTypes
<1>12. ASSUME NEW w \in Workers, RunnerBegins(w) PROVE Goal
  <2>1. wjob[w] \in handlers /\ wjob[w] \in Jobs /\ state[wjob[w]] = "running"
    BY <1>11, <1>12 DEF RunnerBegins, RunnerStages
  <2>2. CASE FinalizeCancelled(wjob[w])
    BY <1>a, <2>1, <2>2, FinalizeSteps DEF FinalizeCancelled, EndsAs, recordVars
  <2>3. CASE UNCHANGED <<recordVars, handlers>>
    BY <1>b, <2>3
  <2> QED
    BY <1>12, <2>1, <2>2, <2>3 DEF RunnerBegins
<1>13. ASSUME NEW w \in Workers, HandlerEnds(w) PROVE Goal
  <2> DEFINE i == wjob[w]
  <2>1. /\ i \in Jobs /\ state[i] = "running" /\ attempts[i] \in Nat /\ attempts[i] >= 1
        /\ budget[i] \in Nat
    BY <1>11, <1>13 DEF HandlerEnds, HandlerReturns, HandlerCancelled, HandlerFails,
       MayEndFreely, RunnerStages
  <2>2. CASE FinalizeCancelled(i)
    BY <1>a, <2>1, <2>2, FinalizeSteps DEF FinalizeCancelled, EndsAs, recordVars
  <2>3. CASE HandlerReturns(w)
    <3>1. EndsAs(i, "completed") /\ handlers' = handlers \ {i}
      BY <2>3 DEF HandlerReturns
    <3> QED
      BY <1>a, <2>1, <3>1, EndsAsSteps DEF EndsAs
  <2>4. CASE i \notin cancelRequested /\ ~RetriesLeft(i) /\ FailWithoutRetry(i)
    <3>1. EndsAs(i, "failed") /\ handlers' = handlers \ {i}
      BY <2>4 DEF FailWithoutRetry
    <3>2. Promise!retries_used(attempts[i]) >= budget[i]
      BY <2>1, <2>4 DEF RetriesLeft, Promise!retries_used
    <3> QED
      BY <1>a, <2>1, <2>4, <3>1, <3>2, EndsAsSteps DEF EndsAs
  <2>5. CASE i \notin cancelRequested /\ RetriesLeft(i) /\ SchedulesRetry(i)
    <3>1. ASSUME NEW j \in Jobs PROVE StepOf(j)
      <4>1. CASE j # i
        BY <2>5, <4>1, Unmoved DEF SchedulesRetry, Core, Types, RecordTypes
      <4>2. CASE j = i
        <5>1. /\ state'[i] = "retrying" /\ attempts'[i] = attempts[i]
              /\ budget'[i] = budget[i] /\ handlers' = handlers
          BY <2>1, <2>5 DEF SchedulesRetry, Core, Types, RecordTypes
        <5> QED
          BY <2>1, <2>5, <4>2, <5>1
             DEF StepOf, Promise!Moves, Promise!ALLOWED_TRANSITIONS, RetriesLeft
      <4> QED
        BY <4>1, <4>2
    <3> QED
      BY <1>a, <2>5, <3>1 DEF SchedulesRetry
  <2> QED
    BY <1>13, <2>2, <2>3, <2>4, <2>5 DEF HandlerEnds, HandlerCancelled, HandlerFails
<1>14. CASE UNCHANGED vars
  BY <1>14, <1>b DEF vars, recordVars
<1> QED
  BY <1>1, <1>2, <1>3, <1>4, <1>5, <1>6, <1>7, <1>8, <1>9, <1>10, <1>12, <1>13, <1>14
     DEF Next, Worker, Runner

LEMMA NextLedger == Core /\ Ledger /\ [Next]_vars => Ledger'
<1> SUFFICES ASSUME Core, Ledger, [Next]_vars PROVE Ledger'
  OBVIOUS
<1>1. (\A j \in Jobs : StepOf(j)) /\ Promise!CancelsRecorded /\ Core'
  BY NextSteps, NextCore
<1>2. HandlerAvailable'
  <2> SUFFICES ASSUME NEW j \in Jobs, Registered(j)', ~Terminal(j)'
               PROVE  j \in handlers'
    BY DEF HandlerAvailable
  <2>1. CASE state[j] = "absent"
    BY <1>1, <2>1 DEF StepOf, Registered
  <2>2. CASE Terminal(j)
    BY <1>1, <2>2 DEF StepOf, Terminal, Promise!Stays, Promise!Submitted, Promise!Moves,
       Promise!ALLOWED_TRANSITIONS, Promise!TERMINAL_JOB_STATES
  <2>3. CASE state[j] # "absent" /\ ~Terminal(j)
    BY <1>1, <2>3 DEF StepOf, Ledger, HandlerAvailable, Registered, Terminal
  <2> QED
    BY <2>1, <2>2, <2>3
<1>3. WithinBudget'
  <2> SUFFICES ASSUME NEW j \in Jobs PROVE WithinBudget!(j)'
    BY DEF WithinBudget
  <2>1. /\ attempts[j] \in Nat /\ budget[j] \in Nat
        /\ attempts'[j] \in Nat /\ budget'[j] \in Nat
    BY <1>1, ConstantFacts DEF Core, Types, RecordTypes
  <2>2. CASE Promise!Stays(j)
    BY <2>1, <2>2 DEF Promise!Stays, Ledger, WithinBudget
  <2>3. CASE Promise!Submitted(j)
    BY <2>1, <2>3 DEF Promise!Submitted, Ledger, WithinBudget
  <2>4. CASE Promise!Moves(j)
    BY <2>1, <2>4 DEF Promise!Moves, Promise!ALLOWED_TRANSITIONS, Promise!retries_used,
       Ledger, WithinBudget
  <2> QED
    BY <1>1, <2>2, <2>3, <2>4 DEF StepOf
<1>4. CancelledAreKnown'
  <2> SUFFICES ASSUME NEW j \in cancelRequested' PROVE state'[j] # "absent"
    BY DEF CancelledAreKnown
  <2>1. j \in Jobs
    BY <1>1 DEF Core, Types, RecordTypes
  <2>2. state[j] # "absent"
    BY <1>1 DEF Ledger, CancelledAreKnown, Promise!CancelsRecorded
  <2> QED
    BY <1>1, <2>1, <2>2 DEF StepOf, Promise!Stays, Promise!Submitted, Promise!Moves,
       Promise!ALLOWED_TRANSITIONS
<1> QED
  BY <1>2, <1>3, <1>4 DEF Ledger

LEMMA LedgerInvariant == Spec => [](Core /\ Ledger)
<1>1. Init => Core /\ Ledger
  <2> SUFFICES ASSUME Init PROVE Core /\ Ledger
    OBVIOUS
  <2>1. HandlerAvailable
    BY DEF Init, HandlerAvailable, Registered
  <2>2. WithinBudget
    <3>1. ASSUME NEW j \in Jobs
          PROVE  state[j] = "absent" /\ attempts[j] = 0 /\ budget[j] = 0
      BY DEF Init
    <3> QED
      BY <3>1 DEF WithinBudget
  <2>3. CancelledAreKnown
    BY DEF Init, CancelledAreKnown
  <2> QED
    BY <2>1, <2>2, <2>3, InitCore DEF Ledger
<1>2. Core /\ Ledger /\ [Next]_vars => (Core /\ Ledger)'
  BY NextCore, NextLedger
<1> QED
  BY <1>1, <1>2, PTL DEF Spec

\* A job that is not over can still find its handler, so _execute_job never takes
\* its "Job handler was not found" exit.
THEOREM HandlerAvailableHolds == Spec => []HandlerAvailable
<1>1. Core /\ Ledger => HandlerAvailable
  BY DEF Ledger
<1> QED
  BY LedgerInvariant, <1>1, PTL

\* The executor keeps the registry's promise: each of its steps moves every job
\* along ALLOWED_TRANSITIONS within its budget of attempts, or leaves it alone.
THEOREM ExecutorKeepsPromise == Spec => LifecyclePromise
<1>1. Init => Promise!Init
  BY DEF Init, Promise!Init
<1>2. Core /\ Ledger /\ Core' /\ [Next]_vars => [Promise!Next]_(Promise!vars)
  <2> SUFFICES ASSUME Core, Ledger, Core', [Next]_vars PROVE Promise!Next
    OBVIOUS
  <2>1. DOMAIN state' = Jobs /\ DOMAIN attempts' = Jobs /\ DOMAIN budget' = Jobs
    BY DEF Core, Types, RecordTypes
  <2>2. (\A j \in Jobs : StepOf(j)) /\ Promise!CancelsRecorded
    BY NextSteps
  <2> QED
    BY <2>1, <2>2 DEF Promise!Next, StepOf
<1> QED
  BY LedgerInvariant, <1>1, <1>2, PTL DEF Spec, LifecyclePromise, Promise!Spec

-------------------------------------------------------------------------------
(* The queue's unfinished count.                                            *)

Busy == {w \in Workers : stage[w] \in BusyStages}

\* The pools that have not been created yet.
FutureAbsent ==
    \A w \in Workers : w > starts * WorkerCount => stage[w] = "absent"

Counting == JoinCountsWork /\ FutureAbsent

LEMMA BusyIsFinite == IsFiniteSet(Busy) /\ Cardinality(Busy) \in Nat
<1>1. WorkerCount * MaxStarts \in Int
  BY ConstantFacts
<1>2. IsFiniteSet(Workers)
  BY <1>1, FS_Interval DEF Workers
<1> QED
  BY <1>2, FS_Subset, FS_CardinalityType DEF Busy

\* The count survives a step that changes neither a worker's being busy nor the
\* difference between what is unfinished and what is queued.
LEMMA SameBusy ==
    ASSUME Core, Core', JoinCountsWork, Busy' = Busy,
           unfinished' - Len(queue') = unfinished - Len(queue)
    PROVE  JoinCountsWork'
<1>1. /\ Len(queue) \in Nat /\ Len(queue') \in Nat
      /\ unfinished \in Int /\ unfinished' \in Int
  BY DEF Core, Types, QueueTypes
<1>2. unfinished = Len(queue) + Cardinality(Busy)
  BY DEF JoinCountsWork, Busy
<1>3. unfinished' = Len(queue') + Cardinality(Busy')
  BY <1>1, <1>2, BusyIsFinite
<1> QED
  BY <1>3 DEF JoinCountsWork, Busy

LEMMA PoolArithmetic ==
    ASSUME NEW s \in Nat
    PROVE  /\ \A w \in Pool(s + 1) : w > s * WorkerCount /\ w <= (s + 1) * WorkerCount
           /\ s * WorkerCount \in Nat /\ (s + 1) * WorkerCount \in Nat
           /\ (s + 1) * WorkerCount >= s * WorkerCount
<1>1. (s + 1) - 1 = s
  OBVIOUS
<1>2. s * WorkerCount \in Nat /\ (s + 1) * WorkerCount = s * WorkerCount + WorkerCount
  BY ConstantFacts
<1> QED
  BY <1>1, <1>2, ConstantFacts DEF Pool

LEMMA NextCounting == Core /\ Counting /\ [Next]_vars => Counting'
<1> SUFFICES ASSUME Core, Counting, [Next]_vars PROVE Counting'
  OBVIOUS
<1>t. Core' /\ stage \in [Workers -> Stages] /\ starts \in Nat
  BY NextCore, ConstantFacts DEF Core, Types, TaskTypes, LifeTypes
<1>l. Len(queue) \in Nat /\ Len(queue') \in Nat /\ unfinished \in Int
  BY <1>t DEF Core, Types, QueueTypes
<1>w. Workers \subseteq Nat
  BY ConstantFacts DEF Workers
<1>a. ASSUME UNCHANGED <<stage, starts>> PROVE Busy' = Busy /\ FutureAbsent'
  BY <1>a DEF Busy, Counting, FutureAbsent
<1>b. ASSUME UNCHANGED <<stage, starts, queue, unfinished>> PROVE Counting'
  BY <1>a, <1>b, <1>t, <1>l, SameBusy DEF Counting
<1>c. ASSUME NEW w \in Workers, NEW s \in Stages, stage[w] # "absent",
             stage' = [stage EXCEPT ![w] = s], UNCHANGED starts
      PROVE  /\ FutureAbsent'
             /\ (stage[w] \in BusyStages <=> s \in BusyStages) => Busy' = Busy
             /\ s \in BusyStages => Busy' = Busy \union {w}
             /\ s \notin BusyStages => Busy' = Busy \ {w}
  <2>1. \A v \in Workers : stage'[v] = IF v = w THEN s ELSE stage[v]
    BY <1>c, <1>t
  <2>2. FutureAbsent'
    BY <1>c, <2>1 DEF Counting, FutureAbsent
  <2> QED
    BY <2>1, <2>2 DEF Busy
<1>1. CASE Start
  <2>1. \A w \in Workers : stage'[w] = IF w \in Pool(starts + 1) THEN "idle" ELSE stage[w]
    BY <1>1 DEF Start
  <2>2. \A w \in Pool(starts + 1) : w \in Workers /\ stage[w] = "absent"
    BY <1>t, PoolArithmetic DEF Counting, FutureAbsent, Pool
  <2>3. Busy' = Busy
    BY <2>1, <2>2 DEF Busy, BusyStages, RunnerStages
  <2>4. FutureAbsent'
    <3> SUFFICES ASSUME NEW w \in Workers, w > (starts + 1) * WorkerCount
                 PROVE  stage'[w] = "absent"
      BY <1>1 DEF FutureAbsent, Start
    <3>1. w \in Nat /\ w \notin Pool(starts + 1) /\ w > starts * WorkerCount
      BY <1>t, <1>w, PoolArithmetic
    <3> QED
      BY <2>1, <3>1 DEF Counting, FutureAbsent
  <2>5. JoinCountsWork'
    BY <1>1, <1>t, <1>l, <2>3, SameBusy DEF Start, Counting
  <2> QED
    BY <2>4, <2>5 DEF Counting
<1>2. CASE StopNoDrain
  <2>1. UNCHANGED <<stage, starts>> /\ unfinished' - Len(queue') = unfinished - Len(queue)
    BY <1>2, <1>l, TokensAreASequence, ConstantFacts DEF StopNoDrain
  <2> QED
    BY <1>a, <1>t, <2>1, SameBusy DEF Counting
<1>3. CASE StopDrain
  BY <1>3, <1>b DEF StopDrain, poolVars
<1>4. ASSUME NEW g \in Generations, StopEndsPool(g) PROVE Counting'
  <2>1. Len(queue') = Len(queue) + Len(StopTokens)
    <3>1. /\ queue \in Seq(Jobs \union {STOP_TOKEN})
          /\ StopTokens \in Seq(Jobs \union {STOP_TOKEN})
      BY TokensAreASequence DEF Core, Types, QueueTypes
    <3>2. queue' = queue \o StopTokens
      BY <1>4 DEF StopEndsPool
    <3> QED
      BY <3>1, <3>2
  <2>2. UNCHANGED <<stage, starts>> /\ unfinished' - Len(queue') = unfinished - Len(queue)
    BY <1>4, <1>l, <2>1, TokensAreASequence, ConstantFacts DEF StopEndsPool, poolVars
  <2> QED
    BY <1>a, <1>t, <2>2, SameBusy DEF Counting
<1>5. ASSUME NEW g \in Generations, StopReturns(g) PROVE Counting'
  BY <1>5, <1>b DEF StopReturns, poolVars
<1>6. ASSUME NEW j \in Jobs, queue' = Append(queue, j), unfinished' = unfinished + 1,
             UNCHANGED <<stage, starts>>
      PROVE  Counting'
  <2>1. Len(queue') = Len(queue) + 1
    BY <1>6 DEF Core, Types, QueueTypes
  <2>2. unfinished' - Len(queue') = unfinished - Len(queue)
    BY <1>6, <1>l, <2>1
  <2> QED
    BY <1>6, <1>a, <1>t, <2>2, SameBusy DEF Counting
<1>7. ASSUME NEW j \in Jobs, Submit(j) PROVE Counting'
  BY <1>7, <1>6 DEF Submit, lifeVars, poolVars
<1>8. ASSUME NEW j \in Jobs, RetryWakes(j) PROVE Counting'
  <2>1. CASE UNCHANGED <<queue, unfinished>>
    BY <1>8, <1>b, <2>1 DEF RetryWakes, lifeVars, poolVars
  <2>2. CASE Requeues(j)
    BY <1>8, <1>6, <2>2 DEF RetryWakes, Requeues, lifeVars, poolVars
  <2> QED
    BY <1>8, <2>1, <2>2 DEF RetryWakes
<1>9. ASSUME NEW j \in CancellableJobs, Cancel(j) PROVE Counting'
  BY <1>9, <1>b DEF Cancel, lifeVars
<1>10. ASSUME NEW w \in Workers, Takes(w)
       PROVE  Len(queue') = Len(queue) - 1 /\ stage[w] = "idle"
  BY <1>10 DEF Takes, Core, Types, QueueTypes
<1>11. ASSUME NEW w \in Workers, WorkerStops(w) PROVE Counting'
  <2>1. /\ Len(queue') = Len(queue) - 1 /\ stage[w] = "idle" /\ UNCHANGED starts
        /\ stage' = [stage EXCEPT ![w] = "exited"] /\ unfinished' = unfinished - 1
    BY <1>10, <1>11 DEF WorkerStops, TaskDone
  <2>2. Busy' = Busy /\ FutureAbsent'
    BY <1>c, <2>1 DEF Stages, BusyStages, RunnerStages, DeadStages
  <2>3. unfinished' - Len(queue') = unfinished - Len(queue)
    BY <1>l, <2>1
  <2> QED
    BY <1>t, <2>2, <2>3, SameBusy DEF Counting
<1>12. ASSUME NEW w \in Workers, WorkerSkipsJob(w) PROVE Counting'
  <2>1. Len(queue') = Len(queue) - 1 /\ unfinished' = unfinished - 1
        /\ UNCHANGED <<stage, starts>>
    BY <1>10, <1>12 DEF WorkerSkipsJob, TaskDone, poolVars
  <2>2. unfinished' - Len(queue') = unfinished - Len(queue)
    BY <1>l, <2>1
  <2> QED
    BY <1>a, <1>t, <2>1, <2>2, SameBusy DEF Counting
<1>13. ASSUME NEW w \in Workers, WorkerStartsJob(w) PROVE Counting'
  <2>1. /\ Len(queue') = Len(queue) - 1 /\ stage[w] = "idle" /\ UNCHANGED starts
        /\ stage' = [stage EXCEPT ![w] = "spawned"] /\ unfinished' = unfinished
    BY <1>10, <1>13 DEF WorkerStartsJob, lifeVars
  <2>2. Busy' = Busy \union {w} /\ FutureAbsent'
    BY <1>c, <2>1 DEF Stages, BusyStages, RunnerStages
  <2>3. w \notin Busy
    BY <2>1 DEF Busy, BusyStages, RunnerStages
  <2>4. Cardinality(Busy)' = Cardinality(Busy) + 1
    BY <2>2, <2>3, BusyIsFinite, FS_AddElement
  <2>5. JoinCountsWork'
    BY <1>l, <2>1, <2>4, BusyIsFinite DEF Counting, JoinCountsWork, Busy
  <2> QED
    BY <2>2, <2>5 DEF Counting
<1>14. ASSUME NEW w \in Workers, WorkerResumes(w) PROVE Counting'
  <2> DEFINE s == IF stage[w] = "returning" THEN "idle" ELSE "killed"
  <2>1. /\ stage[w] \in {"returning", "thrown"} /\ UNCHANGED <<starts, queue>>
        /\ stage' = [stage EXCEPT ![w] = s] /\ unfinished' = unfinished - 1
    BY <1>14 DEF WorkerResumes, TaskDone
  <2>2. s \in Stages /\ s \notin BusyStages /\ w \in Busy
    BY <2>1 DEF Stages, DeadStages, BusyStages, RunnerStages, Busy
  <2>3. Busy' = Busy \ {w} /\ FutureAbsent'
    BY <1>c, <2>1, <2>2
  <2>4. Cardinality(Busy)' = Cardinality(Busy) - 1
    BY <2>2, <2>3, BusyIsFinite, FS_RemoveElement
  <2>5. JoinCountsWork'
    BY <1>l, <2>1, <2>4, BusyIsFinite DEF Counting, JoinCountsWork, Busy
  <2> QED
    BY <2>3, <2>5 DEF Counting
<1>15. ASSUME NEW w \in Workers, NEW s \in BusyStages, stage[w] \in BusyStages,
              stage' = [stage EXCEPT ![w] = s], UNCHANGED <<starts, queue, unfinished>>
       PROVE  Counting'
  <2>1. Busy' = Busy /\ FutureAbsent'
    BY <1>c, <1>15 DEF Stages, BusyStages, RunnerStages
  <2> QED
    BY <1>15, <1>t, <1>l, <2>1, SameBusy DEF Counting
<1>16. ASSUME NEW w \in Workers, Runner(w) PROVE Counting'
  <2>1. CASE RunnerCancelledUnstarted(w)
    BY <1>15, <2>1 DEF RunnerCancelledUnstarted, BusyStages, RunnerStages, lifeVars
  <2>2. CASE RunnerBegins(w)
    <3>1. stage[w] = "spawned" /\ UNCHANGED <<starts, queue, unfinished>>
      BY <2>2 DEF RunnerBegins, lifeVars
    <3>2. \/ stage' = [stage EXCEPT ![w] = "returning"]
          \/ stage' = [stage EXCEPT ![w] = "handling"]
      BY <2>2 DEF RunnerBegins, RunnerEnds
    <3> QED
      BY <1>15, <3>1, <3>2 DEF BusyStages, RunnerStages
  <2>3. CASE HandlerEnds(w)
    <3>1. /\ stage[w] = "handling" /\ UNCHANGED <<starts, queue, unfinished>>
          /\ stage' = [stage EXCEPT ![w] = "returning"]
      BY <2>3 DEF HandlerEnds, HandlerReturns, HandlerCancelled, HandlerFails, MayEndFreely,
         RunnerEnds, lifeVars
    <3> QED
      BY <1>15, <3>1 DEF BusyStages, RunnerStages
  <2> QED
    BY <1>16, <2>1, <2>2, <2>3 DEF Runner
<1>17. ASSUME NEW w \in Workers, HandlerSurvivesCancel(w) PROVE Counting'
  BY <1>17, <1>b DEF HandlerSurvivesCancel, lifeVars
<1>18. CASE UNCHANGED vars
  BY <1>18, <1>b DEF vars
<1> QED
  BY <1>1, <1>2, <1>3, <1>4, <1>5, <1>7, <1>8, <1>9, <1>11, <1>12, <1>13, <1>14,
     <1>16, <1>17, <1>18 DEF Next, Worker

LEMMA CountingInvariant == Spec => [](Core /\ Counting)
<1>1. Init => Core /\ Counting
  <2> SUFFICES ASSUME Init PROVE Core /\ Counting
    OBVIOUS
  <2>1. Busy = {}
    BY DEF Init, Busy, BusyStages, RunnerStages
  <2>2. Cardinality(Busy) = 0
    BY <2>1, FS_EmptySet
  <2>3. JoinCountsWork
    BY <2>2 DEF Init, JoinCountsWork, Busy
  <2>4. FutureAbsent
    BY DEF Init, FutureAbsent
  <2> QED
    BY <2>3, <2>4, InitCore DEF Counting
<1> QED
  BY <1>1, NextCore, NextCounting, PTL DEF Spec

\* The count that join() waits for is exactly the work that is queued or held by a
\* worker, so a draining stop() goes on neither early nor never.
THEOREM JoinCountsWorkHolds == Spec => []JoinCountsWork
<1>1. Core /\ Counting => JoinCountsWork
  BY DEF Counting
<1> QED
  BY CountingInvariant, <1>1, PTL

\* Type correctness; in particular task_done() is never called too often.
THEOREM TypeCorrect == Spec => []TypeOK
<1>1. Core /\ Counting => TypeOK
  <2> SUFFICES ASSUME Core, Counting PROVE TypeOK
    OBVIOUS
  <2>1. unfinished \in Nat
    BY BusyIsFinite DEF Core, Types, QueueTypes, Counting, JoinCountsWork, Busy
  <2> QED
    BY <2>1 DEF Core, Types, RecordTypes, QueueTypes, LifeTypes, TaskTypes, TypeOK
<1> QED
  BY CountingInvariant, <1>1, PTL
-------------------------------------------------------------------------------
(* WorkIsAccounted: first what a cancellation reaches and where waiting     *)
(* jobs are, then the dead letters, then the STOP_TOKENs.                    *)

-------------------------------------------------------------------------------
(* Cancellations.                                                           *)

\* A job that is being handled when its cancellation is recorded, and whose handler
\* does not swallow it, has the CancelledError pending.
CancelReaches ==
    \A w \in Workers :
        stage[w] = "handling" /\ wjob[w] \in cancelRequested \ SwallowingJobs
            => w \in cancelling

\* A pending CancelledError belongs to a runner whose job's cancellation is recorded.
PendingIsKnown ==
    \A w \in cancelling : stage[w] \in RunnerStages /\ wjob[w] \in cancelRequested

\* A job has had a runner bound to it only after an attempt was counted.
BoundWasAttempted == \A j \in Jobs : active[j] # NoWorker => attempts[j] > 0

Cancelling == CancelReaches /\ PendingIsKnown /\ BoundWasAttempted /\ CancelWins

\* What the end of an attempt or of a wait does to the records.
LEMMA EndsAsEffect ==
    ASSUME Core, NEW j \in Jobs, NEW s \in Promise!JobState, EndsAs(j, s)
    PROVE  /\ state'[j] = s /\ UNCHANGED <<attempts, budget, cancelRequested>>
           /\ \A k \in Jobs \ {j} : state'[k] = state[k]
           /\ \A k \in Jobs : active'[k] \in {active[k], NoWorker}
BY DEF EndsAs, Core, Types, RecordTypes

LEMMA FinalizeEffect ==
    ASSUME Core, NEW j \in Jobs, FinalizeCancelled(j)
    PROVE  /\ UNCHANGED <<attempts, budget, cancelRequested>>
           /\ state'[j] = IF Terminal(j) THEN state[j] ELSE "cancelled"
           /\ \A k \in Jobs \ {j} : state'[k] = state[k]
           /\ \A k \in Jobs : active'[k] \in {active[k], NoWorker}
<1>1. CASE Terminal(j)
  BY <1>1 DEF FinalizeCancelled, recordVars
<1>2. CASE ~Terminal(j)
  BY <1>2, EndsAsEffect DEF FinalizeCancelled, Promise!JobState
<1> QED
  BY <1>1, <1>2

\* The records stay in order when nothing cancelled completes or fails, and nothing
\* is bound.
LEMMA RecordsInOrder ==
    ASSUME Cancelling, UNCHANGED <<attempts, cancelRequested>>, cancelRequested \subseteq Jobs,
           \A k \in Jobs : \/ state'[k] = state[k]
                           \/ state'[k] \notin {"completed", "failed"}
                           \/ k \notin cancelRequested \ SwallowingJobs,
           \A k \in Jobs : active'[k] \in {active[k], NoWorker}
    PROVE  BoundWasAttempted' /\ CancelWins'
BY DEF Cancelling, BoundWasAttempted, CancelWins

LEMMA RequestCancelling ==
    ASSUME Core, Ledger, Cancelling, NEW J \in SUBSET Jobs, RequestCancel(J),
           UNCHANGED <<stage, wjob>>
    PROVE  Cancelling'
<1> DEFINE targets == {j \in J : Registered(j) /\ ~Terminal(j)}
           bound == {j \in targets : active[j] # NoWorker}
<1>1. /\ cancelRequested' = cancelRequested \union targets
      /\ cancelling' = cancelling \union {w \in Workers : \E j \in bound : active[j] = w /\ Runs(w, j)}
      /\ UNCHANGED <<attempts, active>>
  BY DEF RequestCancel
<1>2. ASSUME NEW w \in Workers, stage[w] \in RunnerStages, wjob[w] \in targets
      PROVE  w \in cancelling'
  <2>1. active[wjob[w]] = w /\ w # NoWorker
    BY <1>2, ConstantFacts DEF Core, OneRunnerPerJob
  <2> QED
    BY <1>1, <1>2, <2>1 DEF Runs
<1>3. CancelReaches'
  BY <1>1, <1>2 DEF Cancelling, CancelReaches, RunnerStages
<1>4. PendingIsKnown'
  BY <1>1 DEF Cancelling, PendingIsKnown, Runs
<1>5. BoundWasAttempted'
  BY <1>1 DEF Cancelling, BoundWasAttempted
<1>6. CancelWins'
  <2> SUFFICES ASSUME NEW j \in cancelRequested' \ SwallowingJobs
               PROVE  state'[j] \notin {"completed", "failed"}
    BY DEF CancelWins
  <2>1. j \in Jobs /\ (state'[j] = state[j] \/ state'[j] = "cancelled")
    BY <1>1, RequestCancelEffect DEF Core, Types, RecordTypes
  <2>2. state[j] \notin {"completed", "failed"}
    BY <1>1 DEF Cancelling, CancelWins, Terminal, Promise!TERMINAL_JOB_STATES
  <2> QED
    BY <2>1, <2>2
<1> QED
  BY <1>3, <1>4, <1>5, <1>6 DEF Cancelling

\* The end of w's attempt at job j.
LEMMA AttemptEnds ==
    ASSUME Core, Cancelling, NEW w \in Workers, NEW j \in Jobs, j = wjob[w],
           stage[w] \in RunnerStages, RunnerEnds(w),
           \/ FinalizeCancelled(j)
           \/ SchedulesRetry(j)
           \/ /\ EndsAs(j, "completed") \/ EndsAs(j, "failed")
              /\ j \notin cancelRequested \ SwallowingJobs
    PROVE  Cancelling'
<1>1. stage \in [Workers -> Stages] /\ cancelling \subseteq Workers /\ cancelRequested \subseteq Jobs
  BY DEF Core, Types, TaskTypes, RecordTypes
<1>2. /\ stage' = [stage EXCEPT ![w] = "returning"] /\ wjob' = wjob
      /\ cancelling' = cancelling \ {w}
  BY DEF RunnerEnds
<1>3. UNCHANGED <<attempts, cancelRequested>>
  BY FinalizeEffect DEF EndsAs, SchedulesRetry
<1>4. CancelReaches' /\ PendingIsKnown'
  BY <1>1, <1>2, <1>3 DEF Cancelling, CancelReaches, PendingIsKnown
<1>5. /\ \A k \in Jobs : \/ state'[k] = state[k]
                         \/ state'[k] \notin {"completed", "failed"}
                         \/ k \notin cancelRequested \ SwallowingJobs
      /\ \A k \in Jobs : active'[k] \in {active[k], NoWorker}
  <2>1. CASE FinalizeCancelled(j)
    BY <2>1, FinalizeEffect
  <2>2. CASE SchedulesRetry(j)
    BY <2>2 DEF SchedulesRetry, Core, Types, RecordTypes
  <2>3. CASE /\ EndsAs(j, "completed") \/ EndsAs(j, "failed")
             /\ j \notin cancelRequested \ SwallowingJobs
    <3>1. {"completed", "failed"} \subseteq Promise!JobState
      BY DEF Promise!JobState
    <3> QED
      BY <2>3, <3>1, EndsAsEffect
  <2> QED
    BY <2>1, <2>2, <2>3
<1> QED
  BY <1>1, <1>3, <1>4, <1>5, RecordsInOrder DEF Cancelling

LEMMA NextCancelling == Core /\ Ledger /\ Counting /\ Cancelling /\ [Next]_vars => Cancelling'
<1> SUFFICES ASSUME Core, Ledger, Counting, Cancelling, [Next]_vars PROVE Cancelling'
  OBVIOUS
<1>t. /\ stage \in [Workers -> Stages] /\ wjob \in [Workers -> Jobs \union {NoJob}]
      /\ cancelling \subseteq Workers /\ cancelRequested \subseteq Jobs
      /\ \A w \in Workers : stage[w] \in RunnerStages => wjob[w] \in Jobs
  BY DEF Core, Types, TaskTypes, RecordTypes
<1>a. ASSUME UNCHANGED <<stage, wjob, cancelling, cancelRequested>>
      PROVE  CancelReaches' /\ PendingIsKnown'
  BY <1>a DEF Cancelling, CancelReaches, PendingIsKnown
<1>b. ASSUME UNCHANGED <<state, attempts, cancelRequested, active>>
      PROVE  BoundWasAttempted' /\ CancelWins'
  BY <1>b DEF Cancelling, BoundWasAttempted, CancelWins
<1>c. ASSUME UNCHANGED <<stage, wjob, cancelling, recordVars, active>> PROVE Cancelling'
  BY <1>a, <1>b, <1>c DEF Cancelling, recordVars
<1>1. CASE Start
  <2>1. /\ \A w \in Workers : stage'[w] = IF w \in Pool(starts + 1) THEN "idle" ELSE stage[w]
        /\ UNCHANGED <<state, attempts, cancelRequested, active, wjob, cancelling>>
    BY <1>1 DEF Start, recordVars
  <2>2. \A w \in Pool(starts + 1) : w \in Workers /\ stage[w] = "absent"
    BY PoolArithmetic, ConstantFacts DEF Counting, FutureAbsent, Pool, Core, Types, LifeTypes
  <2>3. CancelReaches' /\ PendingIsKnown'
    BY <1>t, <2>1, <2>2 DEF Cancelling, CancelReaches, PendingIsKnown, RunnerStages
  <2> QED
    BY <1>b, <2>1, <2>3 DEF Cancelling
<1>2. CASE StopNoDrain
  <2>1. ActiveJobs \union QueuedJobs \in SUBSET Jobs
    BY DEF ActiveJobs, QueuedJobs, Core, Types, QueueTypes
  <2> QED
    BY <1>2, <2>1, RequestCancelling DEF StopNoDrain
<1>3. CASE StopDrain
  BY <1>3, <1>c DEF StopDrain, poolVars
<1>4. ASSUME NEW g \in Generations, StopEndsPool(g) \/ StopReturns(g) PROVE Cancelling'
  BY <1>4, <1>c DEF StopEndsPool, StopReturns, poolVars
<1>5. ASSUME NEW j \in Jobs, Submit(j) PROVE Cancelling'
  <2>1. /\ \A k \in Jobs : state'[k] = state[k] \/ state'[k] = "queued"
        /\ UNCHANGED <<attempts, cancelRequested, active>>
    BY <1>5 DEF Submit, Core, Types, RecordTypes
  <2>2. BoundWasAttempted' /\ CancelWins'
    BY <1>t, <2>1, RecordsInOrder
  <2> QED
    BY <1>5, <1>a, <2>2 DEF Submit, poolVars, Cancelling
<1>6. ASSUME NEW j \in Jobs, RetryWakes(j) PROVE Cancelling'
  <2>1. /\ \A k \in Jobs : state'[k] = state[k] \/ state'[k] \in {"queued", "cancelled"}
        /\ \A k \in Jobs : active'[k] \in {active[k], NoWorker}
        /\ UNCHANGED <<attempts, cancelRequested>>
    <3>1. CASE FinalizeCancelled(j)
      BY <3>1, FinalizeEffect
    <3>2. CASE Requeues(j)
      BY <3>2 DEF Requeues, Core, Types, RecordTypes
    <3> QED
      BY <1>6, <3>1, <3>2 DEF RetryWakes
  <2>2. BoundWasAttempted' /\ CancelWins'
    BY <1>t, <2>1, RecordsInOrder
  <2> QED
    BY <1>6, <1>a, <2>1, <2>2 DEF RetryWakes, poolVars, Cancelling
<1>7. ASSUME NEW j \in CancellableJobs, Cancel(j) PROVE Cancelling'
  BY <1>7, RequestCancelling, ConstantFacts DEF Cancel
<1>8. ASSUME NEW w \in Workers, WorkerStops(w) PROVE Cancelling'
  <2>1. CancelReaches' /\ PendingIsKnown'
    BY <1>8, <1>t DEF WorkerStops, Takes, Cancelling, CancelReaches, PendingIsKnown,
       RunnerStages, recordVars
  <2> QED
    BY <1>8, <1>b, <2>1 DEF WorkerStops, recordVars, Cancelling
<1>9. ASSUME NEW w \in Workers, WorkerSkipsJob(w) PROVE Cancelling'
  <2>1. /\ \A k \in Jobs : state'[k] = state[k] \/ state'[k] \in {"queued", "cancelled"}
        /\ \A k \in Jobs : active'[k] \in {active[k], NoWorker}
        /\ UNCHANGED <<attempts, cancelRequested>>
    <3>1. Head(queue) \in Jobs
      BY <1>9, TakesTypes DEF WorkerSkipsJob, Core, Types
    <3> QED
      BY <1>9, <3>1, FinalizeEffect DEF WorkerSkipsJob, recordVars
  <2>2. BoundWasAttempted' /\ CancelWins'
    BY <1>t, <2>1, RecordsInOrder
  <2> QED
    BY <1>9, <1>a, <2>1, <2>2 DEF WorkerSkipsJob, poolVars, Cancelling
<1>10. ASSUME NEW w \in Workers, WorkerStartsJob(w) PROVE Cancelling'
  <2> DEFINE j == Head(queue)
  <2>1. /\ j \in Jobs /\ stage[w] = "idle"
        /\ state' = [state EXCEPT ![j] = "running"]
        /\ attempts' = [attempts EXCEPT ![j] = @ + 1]
        /\ active' = [active EXCEPT ![j] = w]
        /\ wjob' = [wjob EXCEPT ![w] = j]
        /\ stage' = [stage EXCEPT ![w] = "spawned"]
        /\ UNCHANGED <<cancelRequested, cancelling>>
    BY <1>10, TakesTypes DEF WorkerStartsJob, Takes, Core, Types
  <2> HIDE DEF j
  <2>2. CancelReaches' /\ PendingIsKnown'
    BY <1>t, <2>1 DEF Cancelling, CancelReaches, PendingIsKnown, RunnerStages
  <2>3. BoundWasAttempted' /\ CancelWins'
    BY <1>t, <2>1 DEF Cancelling, BoundWasAttempted, CancelWins, Core, Types, RecordTypes
  <2> QED
    BY <2>2, <2>3 DEF Cancelling
<1>11. ASSUME NEW w \in Workers, WorkerResumes(w) PROVE Cancelling'
  <2>1. CancelReaches' /\ PendingIsKnown'
    BY <1>11, <1>t DEF WorkerResumes, Cancelling, CancelReaches, PendingIsKnown,
       RunnerStages, recordVars
  <2> QED
    BY <1>11, <1>b, <2>1 DEF WorkerResumes, recordVars, Cancelling
<1>12. ASSUME NEW w \in Workers, RunnerCancelledUnstarted(w) PROVE Cancelling'
  <2>1. CancelReaches' /\ PendingIsKnown'
    BY <1>12, <1>t DEF RunnerCancelledUnstarted, Cancelling, CancelReaches, PendingIsKnown,
       RunnerStages, recordVars
  <2> QED
    BY <1>12, <1>b, <2>1 DEF RunnerCancelledUnstarted, recordVars, Cancelling
<1>13. ASSUME NEW w \in Workers, RunnerBegins(w) PROVE Cancelling'
  <2>1. /\ stage[w] = "spawned" /\ stage[w] \in RunnerStages /\ wjob[w] \in Jobs
        /\ w \notin cancelling
    BY <1>13, <1>t DEF RunnerBegins, RunnerStages
  <2>2. wjob[w] \in handlers
    BY <2>1 DEF Core, OneRunnerPerJob, Ledger, HandlerAvailable, Registered, Terminal,
       Promise!TERMINAL_JOB_STATES
  <2>3. CASE wjob[w] \in cancelRequested
    BY <1>13, <2>1, <2>2, <2>3, AttemptEnds DEF RunnerBegins
  <2>4. CASE wjob[w] \notin cancelRequested
    <3>1. /\ stage' = [stage EXCEPT ![w] = "handling"]
          /\ UNCHANGED <<state, attempts, cancelRequested, active, wjob, cancelling>>
      BY <1>13, <2>2, <2>4 DEF RunnerBegins, recordVars
    <3>2. CancelReaches' /\ PendingIsKnown'
      BY <1>t, <2>1, <2>4, <3>1 DEF Cancelling, CancelReaches, PendingIsKnown, RunnerStages
    <3> QED
      BY <1>b, <3>1, <3>2 DEF Cancelling
  <2> QED
    BY <2>3, <2>4
<1>14. ASSUME NEW w \in Workers, HandlerEnds(w) PROVE Cancelling'
  <2>1. stage[w] = "handling" /\ stage[w] \in RunnerStages /\ wjob[w] \in Jobs /\ RunnerEnds(w)
    BY <1>14, <1>t DEF HandlerEnds, HandlerReturns, HandlerCancelled, HandlerFails, MayEndFreely,
       RunnerStages
  <2>2. MayEndFreely(w) => wjob[w] \notin cancelRequested \ SwallowingJobs
    BY <2>1 DEF MayEndFreely, Cancelling, CancelReaches
  <2>3. CASE HandlerReturns(w)
    BY <2>1, <2>2, <2>3, AttemptEnds DEF HandlerReturns
  <2>4. CASE HandlerCancelled(w)
    BY <2>1, <2>4, AttemptEnds DEF HandlerCancelled
  <2>5. CASE HandlerFails(w)
    BY <2>1, <2>2, <2>5, AttemptEnds DEF HandlerFails, FailWithoutRetry
  <2> QED
    BY <1>14, <2>3, <2>4, <2>5 DEF HandlerEnds
<1>15. ASSUME NEW w \in Workers, HandlerSurvivesCancel(w) PROVE Cancelling'
  <2>1. CancelReaches' /\ PendingIsKnown'
    BY <1>15, <1>t DEF HandlerSurvivesCancel, Cancelling, CancelReaches, PendingIsKnown, recordVars
  <2> QED
    BY <1>15, <1>b, <2>1 DEF HandlerSurvivesCancel, recordVars, Cancelling
<1>16. CASE UNCHANGED vars
  BY <1>16, <1>c DEF vars, recordVars
<1> QED
  BY <1>1, <1>2, <1>3, <1>4, <1>5, <1>6, <1>7, <1>8, <1>9, <1>10, <1>11, <1>12, <1>13,
     <1>14, <1>15, <1>16 DEF Next, Worker, Runner

-------------------------------------------------------------------------------
(* Where the jobs that are not over wait.                                   *)

Waits(j) == \E i \in 1..Len(queue) : queue[i] = j

\* Of QueuedOnce: a queued job that does not wait was cancelled after an attempt.
QueuedIsFound ==
    \A j \in Jobs : state[j] = "queued" => Waits(j) \/ (j \in cancelRequested /\ attempts[j] > 0)

NeverStopped == \A g \in Generations : stopStage[g] = "none"

\* What NoJobLost says of one job.
IsHeld(j) ==
    /\ state[j] = "queued" => Waits(j)
    /\ state[j] = "retrying" => j \in retryTasks
    /\ state[j] = "running" => (\E w \in Workers : Runs(w, j)) \/ j \in cancelRequested

Waiting ==
    /\ QueuedIsFound
    /\ running => starts \in Generations
    /\ NeverStopped => \A j \in Jobs : IsHeld(j)

\* The queue loses its head only, and nothing when something is put.
LEMMA WaitAfterTake ==
    ASSUME Types, NEW w \in Workers, Takes(w), NEW j \in Jobs, Waits(j), j # Head(queue)
    PROVE  Waits(j)'
<1>1. queue \in Seq(Jobs \union {STOP_TOKEN}) /\ queue # <<>> /\ queue' = Tail(queue)
  BY DEF Types, QueueTypes, Takes
<1>2. PICK i \in 1..Len(queue) : queue[i] = j
  BY DEF Waits
<1>3. i # 1 /\ Len(queue) \in Nat
  BY <1>1, <1>2
<1>4. i - 1 \in 1..Len(queue') /\ queue'[i - 1] = j
  BY <1>1, <1>2, <1>3
<1> QED
  BY <1>4 DEF Waits

LEMMA WaitAfterPut ==
    ASSUME Types, NEW s \in Seq(Jobs \union {STOP_TOKEN}), queue' = queue \o s
    PROVE  /\ \A j \in Jobs : Waits(j) => Waits(j)'
           /\ \A i \in 1..Len(s) : s[i] \in Jobs => Waits(s[i])'
<1>1. queue \in Seq(Jobs \union {STOP_TOKEN})
  BY DEF Types, QueueTypes
<1>2. /\ Len(queue) \in Nat /\ Len(s) \in Nat /\ Len(queue') = Len(queue) + Len(s)
      /\ \A i \in 1..Len(queue') :
            queue'[i] = IF i <= Len(queue) THEN queue[i] ELSE s[i - Len(queue)]
  BY <1>1
<1>3. \A i \in 1..Len(queue) : i \in 1..Len(queue') /\ queue'[i] = queue[i]
  BY <1>2
<1>4. \A i \in 1..Len(s) : Len(queue) + i \in 1..Len(queue') /\ queue'[Len(queue) + i] = s[i]
  BY <1>2
<1> QED
  BY <1>3, <1>4 DEF Waits

LEMMA WaitAfterAppend ==
    ASSUME Types, NEW k \in Jobs, queue' = Append(queue, k)
    PROVE  Waits(k)' /\ \A j \in Jobs : Waits(j) => Waits(j)'
<1>1. queue \in Seq(Jobs \union {STOP_TOKEN})
  BY DEF Types, QueueTypes
<1>2. /\ Len(queue) \in Nat /\ Len(queue') = Len(queue) + 1
      /\ queue'[Len(queue')] = k
      /\ \A i \in 1..Len(queue) : queue'[i] = queue[i]
  BY <1>1
<1> QED
  BY <1>2 DEF Waits

\* A recorded cancellation of every waiting job empties the queue without losing one.
LEMMA RequestWaiting ==
    ASSUME Core, Ledger, Cancelling, Waiting, NEW J \in SUBSET Jobs, RequestCancel(J),
           UNCHANGED <<stage, wjob, handlers>>,
           \/ queue' = queue
           \/ \A j \in Jobs : Waits(j) => j \in J
    PROVE  QueuedIsFound'
<1> SUFFICES ASSUME NEW j \in Jobs, state'[j] = "queued"
             PROVE  Waits(j)' \/ (j \in cancelRequested' /\ attempts'[j] > 0)
  BY DEF QueuedIsFound
<1>1. state[j] = "queued" /\ attempts' = attempts /\ cancelRequested \subseteq cancelRequested'
  BY RequestCancelEffect DEF RequestCancel
<1>2. CASE Waits(j) /\ queue' = queue
  BY <1>2 DEF Waits
<1>3. CASE Waits(j) /\ j \in J
  <2>1. j \in cancelRequested' /\ active[j] # NoWorker
    BY <1>1, <1>3 DEF RequestCancel, Registered, Terminal, Promise!TERMINAL_JOB_STATES,
       Core, Types, RecordTypes
  <2> QED
    BY <1>1, <2>1 DEF Cancelling, BoundWasAttempted
<1>4. CASE ~Waits(j)
  BY <1>1, <1>4 DEF Waiting, QueuedIsFound
<1> QED
  BY <1>2, <1>3, <1>4

\* A job that only stands still stays where it waits.
LEMMA StandsStill ==
    ASSUME Waiting, NEW j \in Jobs, state'[j] = state[j],
           attempts'[j] = attempts[j], j \in cancelRequested => j \in cancelRequested',
           Waits(j) => Waits(j)'
    PROVE  /\ state'[j] = "queued" => Waits(j)' \/ (j \in cancelRequested' /\ attempts'[j] > 0)
           /\ /\ IsHeld(j) /\ (j \in retryTasks => j \in retryTasks')
              /\ \A w \in Workers : Runs(w, j) => Runs(w, j)'
              => IsHeld(j)'
BY DEF Waiting, QueuedIsFound, IsHeld

LEMMA NextWaiting ==
    Core /\ Ledger /\ Counting /\ Cancelling /\ Waiting /\ [Next]_vars => Waiting'
<1> SUFFICES ASSUME Core, Ledger, Counting, Cancelling, Waiting, [Next]_vars PROVE Waiting'
  OBVIOUS
<1> DEFINE Found(j) == state[j] = "queued" => Waits(j) \/ (j \in cancelRequested /\ attempts[j] > 0)
<1>t. /\ stage \in [Workers -> Stages] /\ wjob \in [Workers -> Jobs \union {NoJob}]
      /\ state \in [Jobs -> Promise!JobState] /\ active \in [Jobs -> Workers \union {NoWorker}]
      /\ stopStage \in [Generations -> StopStages]
      /\ cancelRequested \subseteq Jobs /\ Types
      /\ \A w \in Workers : stage[w] \in RunnerStages => wjob[w] \in Jobs
  BY DEF Core, Types, TaskTypes, RecordTypes, LifeTypes
\* What is left to show when the executor is still running or was not stopped before.
<1>g. ASSUME running' => running \/ starts' \in Generations, running => starts' = starts,
             NeverStopped' => NeverStopped,
             \A j \in Jobs : Found(j)' /\ (IsHeld(j) => IsHeld(j)')
      PROVE  Waiting'
  BY <1>g DEF Waiting, QueuedIsFound
<1>d. TaskDone => (NeverStopped' => NeverStopped)
  BY <1>t DEF TaskDone, NeverStopped
<1>a. ASSUME UNCHANGED <<recordVars, stage, wjob, lifeVars>>, retryTasks \subseteq retryTasks',
             \A j \in Jobs : Waits(j) => Waits(j)'
      PROVE  Waiting'
  <2>1. \A j \in Jobs : Found(j)' /\ (IsHeld(j) => IsHeld(j)')
    BY <1>a, StandsStill DEF recordVars, Runs
  <2> QED
    BY <1>a, <1>g, <2>1 DEF lifeVars, NeverStopped, Waiting
<1>1. CASE Start
  <2>1. /\ \A w \in Workers : stage'[w] = IF w \in Pool(starts + 1) THEN "idle" ELSE stage[w]
        /\ UNCHANGED <<state, attempts, cancelRequested, wjob, retryTasks, queue, stopStage>>
        /\ ~running /\ starts' = starts + 1 /\ starts < MaxStarts
    BY <1>1 DEF Start, recordVars
  <2>2. \A w \in Pool(starts + 1) : w \in Workers /\ stage[w] = "absent"
    BY PoolArithmetic, ConstantFacts DEF Counting, FutureAbsent, Pool, Core, Types, LifeTypes
  <2>3. \A w \in Workers, j \in Jobs : Runs(w, j) => Runs(w, j)'
    BY <2>1, <2>2 DEF Runs, RunnerStages
  <2>4. starts' \in Generations
    BY <2>1, ConstantFacts DEF Generations, Core, Types, LifeTypes
  <2>5. \A j \in Jobs : Waits(j) => Waits(j)'
    BY <2>1 DEF Waits
  <2>6. \A j \in Jobs : Found(j)' /\ (IsHeld(j) => IsHeld(j)')
    BY <2>1, <2>3, <2>5, StandsStill
  <2> QED
    BY <1>g, <2>1, <2>4, <2>6 DEF NeverStopped
<1>2. CASE StopNoDrain
  <2>1. ActiveJobs \union QueuedJobs \in SUBSET Jobs
    BY DEF ActiveJobs, QueuedJobs, Core, Types, QueueTypes
  <2>2. \A j \in Jobs : Waits(j) => j \in ActiveJobs \union QueuedJobs
    BY ConstantFacts, <1>t DEF Waits, QueuedJobs, Types, QueueTypes
  <2>3. QueuedIsFound'
    BY <1>2, <2>1, <2>2, RequestWaiting DEF StopNoDrain
  <2>4. ~NeverStopped'
    BY <1>2, <1>t DEF StopNoDrain, Waiting, NeverStopped
  <2> QED
    BY <1>2, <2>3, <2>4 DEF StopNoDrain, Waiting
<1>3. CASE StopDrain
  <2>1. QueuedIsFound' /\ UNCHANGED <<running, starts>>
    BY <1>3 DEF StopDrain, Waiting, QueuedIsFound, Waits, recordVars
  <2>2. ~NeverStopped'
    BY <1>3, <1>t DEF StopDrain, Waiting, NeverStopped
  <2> QED
    BY <2>1, <2>2 DEF Waiting
<1>4. ASSUME NEW g \in Generations, StopEndsPool(g) \/ StopReturns(g) PROVE Waiting'
  <2>1. UNCHANGED recordVars /\ starts' = starts /\ (running' => running)
    BY <1>4 DEF StopEndsPool, StopReturns
  <2>2. \A j \in Jobs : Waits(j) => Waits(j)'
    BY <1>4, <1>t, WaitAfterPut, TokensAreASequence DEF StopEndsPool, StopReturns, Waits
  <2>3. QueuedIsFound'
    BY <2>1, <2>2 DEF Waiting, QueuedIsFound, recordVars
  <2>4. ~NeverStopped'
    BY <1>4, <1>t DEF StopEndsPool, StopReturns, NeverStopped
  <2> QED
    BY <2>1, <2>3, <2>4 DEF Waiting
<1>5. ASSUME NEW j \in Jobs, Submit(j) PROVE Waiting'
  <2>1. /\ state'[j] = "queued" /\ (\A k \in Jobs \ {j} : state'[k] = state[k])
        /\ UNCHANGED <<attempts, cancelRequested, retryTasks, stage, wjob, lifeVars>>
        /\ queue' = Append(queue, j)
    BY <1>5, <1>t DEF Submit, poolVars
  <2>2. Waits(j)' /\ \A k \in Jobs : Waits(k) => Waits(k)'
    BY <1>t, <2>1, WaitAfterAppend
  <2>3. Found(j)' /\ IsHeld(j)'
    BY <2>1, <2>2 DEF IsHeld
  <2>4. \A k \in Jobs \ {j} : Found(k)' /\ (IsHeld(k) => IsHeld(k)')
    BY <2>1, <2>2, StandsStill DEF Runs
  <2> QED
    BY <1>g, <2>1, <2>3, <2>4 DEF lifeVars, NeverStopped, Waiting
<1>6. ASSUME NEW j \in Jobs, RetryWakes(j) PROVE Waiting'
  <2>1. /\ UNCHANGED <<attempts, cancelRequested, stage, wjob, lifeVars>>
        /\ \A k \in Jobs \ {j} : state'[k] = state[k] /\ (k \in retryTasks => k \in retryTasks')
        /\ \A k \in Jobs : Waits(k) => Waits(k)'
        /\ state'[j] \notin {"running", "retrying"}
        /\ state'[j] = "queued" => Waits(j)'
    <3>1. state[j] = "retrying"
      BY <1>6 DEF RetryWakes, Core, RetryIsAwaited
    <3>2. CASE FinalizeCancelled(j) /\ UNCHANGED queue
      BY <1>6, <3>1, <3>2, FinalizeEffect DEF RetryWakes, poolVars, Waits, Terminal,
         Promise!TERMINAL_JOB_STATES
    <3>3. CASE Requeues(j)
      <4>1. Waits(j)' /\ \A k \in Jobs : Waits(k) => Waits(k)'
        BY <1>t, <3>3, WaitAfterAppend DEF Requeues
      <4> QED
        BY <1>6, <1>t, <3>3, <4>1 DEF RetryWakes, Requeues, poolVars
    <3> QED
      BY <1>6, <3>2, <3>3 DEF RetryWakes
  <2>2. Found(j)' /\ IsHeld(j)'
    BY <2>1 DEF IsHeld
  <2>3. \A k \in Jobs \ {j} : Found(k)' /\ (IsHeld(k) => IsHeld(k)')
    BY <2>1, StandsStill DEF Runs
  <2> QED
    BY <1>g, <2>1, <2>2, <2>3 DEF lifeVars, NeverStopped, Waiting
<1>7. ASSUME NEW j \in CancellableJobs, Cancel(j) PROVE Waiting'
  <2>1. QueuedIsFound'
    BY <1>7, RequestWaiting, ConstantFacts DEF Cancel
  <2>2. \A k \in Jobs : IsHeld(k) => IsHeld(k)'
    <3> SUFFICES ASSUME NEW k \in Jobs, IsHeld(k) PROVE IsHeld(k)'
      OBVIOUS
    <3>1. state'[k] = state[k] \/ state'[k] = "cancelled"
      BY <1>7, RequestCancelEffect, ConstantFacts DEF Cancel
    <3>2. cancelRequested \subseteq cancelRequested' /\ UNCHANGED <<queue, retryTasks, stage, wjob>>
      BY <1>7 DEF Cancel, RequestCancel
    <3> QED
      BY <3>1, <3>2 DEF IsHeld, Waits, Runs
  <2> QED
    BY <1>7, <2>1, <2>2 DEF Cancel, lifeVars, NeverStopped, Waiting
<1>8. ASSUME NEW w \in Workers, WorkerStops(w) PROVE Waiting'
  <2>1. /\ UNCHANGED <<state, attempts, cancelRequested, retryTasks, wjob, running, starts>>
        /\ stage[w] = "idle" /\ stage' = [stage EXCEPT ![w] = "exited"]
        /\ Takes(w) /\ Head(queue) = STOP_TOKEN /\ TaskDone
    BY <1>8 DEF WorkerStops, Takes, recordVars
  <2>2. \A j \in Jobs : Waits(j) => Waits(j)'
    BY <1>t, <2>1, WaitAfterTake, ConstantFacts
  <2>3. \A v \in Workers, j \in Jobs : Runs(v, j) => Runs(v, j)'
    BY <1>t, <2>1 DEF Runs, RunnerStages
  <2>4. \A j \in Jobs : Found(j)' /\ (IsHeld(j) => IsHeld(j)')
    BY <2>1, <2>2, <2>3, StandsStill
  <2> QED
    BY <1>d, <1>g, <2>1, <2>4
<1>9. ASSUME NEW w \in Workers, WorkerSkipsJob(w) PROVE Waiting'
  <2>1. PICK j \in Jobs :
           /\ j = Head(queue) /\ Takes(w) /\ TaskDone /\ state[j] \in {"queued", "cancelled"}
           /\ CancelledWhileQueued(j) /\ FinalizeCancelled(j)
           /\ UNCHANGED <<retryTasks, running, starts, stage, wjob>>
    <3>1. Head(queue) \in Jobs
      BY <1>9, TakesTypes DEF WorkerSkipsJob, Core, Types
    <3>2. state[Head(queue)] \in {"queued", "cancelled"}
      BY <1>9, <3>1, TailOfQueue, ConstantFacts DEF WorkerSkipsJob, Core, QueueWaits
    <3> QED
      BY <1>9, <3>1, <3>2 DEF WorkerSkipsJob, CancelledWhileQueued, poolVars
  <2>2. /\ UNCHANGED <<attempts, cancelRequested>> /\ state'[j] = "cancelled"
        /\ \A k \in Jobs \ {j} : state'[k] = state[k]
    BY <2>1, FinalizeEffect DEF Terminal, Promise!TERMINAL_JOB_STATES
  <2>3. \A k \in Jobs \ {j} : Waits(k) => Waits(k)'
    BY <1>t, <2>1, WaitAfterTake
  <2>4. Found(j)' /\ IsHeld(j)'
    BY <2>2 DEF IsHeld
  <2>5. \A k \in Jobs \ {j} : Found(k)' /\ (IsHeld(k) => IsHeld(k)')
    BY <2>1, <2>2, <2>3, StandsStill DEF Runs
  <2> QED
    BY <1>d, <1>g, <2>1, <2>4, <2>5 DEF Waiting
<1>10. ASSUME NEW w \in Workers, WorkerStartsJob(w) PROVE Waiting'
  <2>1. PICK j \in Jobs :
           /\ j = Head(queue) /\ Takes(w) /\ stage[w] = "idle"
           /\ state' = [state EXCEPT ![j] = "running"]
           /\ attempts' = [attempts EXCEPT ![j] = @ + 1]
           /\ wjob' = [wjob EXCEPT ![w] = j]
           /\ stage' = [stage EXCEPT ![w] = "spawned"]
           /\ UNCHANGED <<cancelRequested, retryTasks, lifeVars>>
    BY <1>10, TakesTypes DEF WorkerStartsJob, Takes, Core, Types
  <2>2. \A k \in Jobs \ {j} : Waits(k) => Waits(k)'
    BY <1>t, <2>1, WaitAfterTake
  <2>3. /\ \A k \in Jobs \ {j} : state'[k] = state[k] /\ attempts'[k] = attempts[k]
        /\ state'[j] = "running"
    BY <1>t, <2>1 DEF Types, RecordTypes
  <2>4. /\ stage'[w] = "spawned" /\ wjob'[w] = j
        /\ \A v \in Workers \ {w} : stage'[v] = stage[v] /\ wjob'[v] = wjob[v]
    BY <1>t, <2>1
  <2>5. Runs(w, j)' /\ \A v \in Workers, k \in Jobs : Runs(v, k) => Runs(v, k)'
    BY <2>1, <2>4 DEF Runs, RunnerStages
  <2>6. Found(j)' /\ IsHeld(j)'
    BY <2>3, <2>5 DEF IsHeld
  <2>7. \A k \in Jobs \ {j} : Found(k)' /\ (IsHeld(k) => IsHeld(k)')
    BY <2>1, <2>2, <2>3, <2>5, StandsStill
  <2> QED
    BY <1>g, <2>1, <2>6, <2>7 DEF lifeVars, NeverStopped, Waiting
<1>11. ASSUME NEW w \in Workers, WorkerResumes(w) PROVE Waiting'
  <2>1. /\ UNCHANGED <<state, attempts, cancelRequested, retryTasks, queue, running, starts>>
        /\ stage[w] \notin RunnerStages /\ TaskDone
        /\ \A v \in Workers \ {w} : stage'[v] = stage[v] /\ wjob'[v] = wjob[v]
    BY <1>11, <1>t DEF WorkerResumes, RunnerStages, recordVars
  <2>2. \A v \in Workers, j \in Jobs : Runs(v, j) => Runs(v, j)'
    BY <2>1 DEF Runs
  <2>3. \A j \in Jobs : Found(j)' /\ (IsHeld(j) => IsHeld(j)')
    BY <2>1, <2>2, StandsStill DEF Waits
  <2> QED
    BY <1>d, <1>g, <2>1, <2>3 DEF Waiting
<1>12. ASSUME NEW w \in Workers, RunnerCancelledUnstarted(w) PROVE Waiting'
  <2>1. /\ UNCHANGED <<state, attempts, cancelRequested, retryTasks, queue, lifeVars>>
        /\ stage[w] \in RunnerStages
        /\ \A v \in Workers \ {w} : stage'[v] = stage[v] /\ wjob'[v] = wjob[v]
    BY <1>12, <1>t DEF RunnerCancelledUnstarted, RunnerStages, recordVars
  <2>2. PICK j \in Jobs : j = wjob[w] /\ j \in cancelRequested /\ state[j] = "running"
    BY <1>12, <1>t, <2>1 DEF RunnerCancelledUnstarted, Cancelling, PendingIsKnown, Core,
       OneRunnerPerJob
  <2>3. Found(j)' /\ IsHeld(j)'
    BY <2>1, <2>2 DEF IsHeld
  <2>4. \A v \in Workers, k \in Jobs \ {j} : Runs(v, k) => Runs(v, k)'
    BY <2>1, <2>2 DEF Runs
  <2>5. \A k \in Jobs \ {j} : Found(k)' /\ (IsHeld(k) => IsHeld(k)')
    BY <2>1, <2>4, StandsStill DEF Waits
  <2> QED
    BY <1>g, <2>1, <2>3, <2>5 DEF lifeVars, NeverStopped, Waiting
<1>e. ASSUME NEW w \in Workers, NEW j \in Jobs, j = wjob[w], stage[w] \in RunnerStages,
             RunnerEnds(w), UNCHANGED <<queue, lifeVars>>,
             \/ SchedulesRetry(j)
             \/ /\ FinalizeCancelled(j) \/ EndsAs(j, "completed") \/ EndsAs(j, "failed")
                /\ UNCHANGED retryTasks
      PROVE  Waiting'
  <2>1. state[j] = "running"
    BY <1>e DEF Core, OneRunnerPerJob
  <2>2. /\ UNCHANGED <<attempts, cancelRequested>> /\ retryTasks \subseteq retryTasks'
        /\ state'[j] \notin {"queued", "running"} /\ (state'[j] = "retrying" => j \in retryTasks')
        /\ \A k \in Jobs \ {j} : state'[k] = state[k]
    <3>1. CASE SchedulesRetry(j)
      BY <1>t, <3>1 DEF SchedulesRetry
    <3>2. CASE FinalizeCancelled(j) /\ UNCHANGED retryTasks
      BY <2>1, <3>2, FinalizeEffect DEF Terminal, Promise!TERMINAL_JOB_STATES
    <3>3. CASE (EndsAs(j, "completed") \/ EndsAs(j, "failed")) /\ UNCHANGED retryTasks
      BY <1>t, <3>3 DEF EndsAs
    <3> QED
      BY <1>e, <3>1, <3>2, <3>3
  <2>3. \A v \in Workers, k \in Jobs \ {j} : Runs(v, k) => Runs(v, k)'
    BY <1>e, <1>t DEF RunnerEnds, Runs
  <2>4. Found(j)' /\ IsHeld(j)'
    BY <2>2 DEF IsHeld
  <2>5. \A k \in Jobs \ {j} : Found(k)' /\ (IsHeld(k) => IsHeld(k)')
    BY <1>e, <2>2, <2>3, StandsStill DEF Waits
  <2> QED
    BY <1>e, <1>g, <2>4, <2>5 DEF lifeVars, NeverStopped, Waiting
<1>13. ASSUME NEW w \in Workers, RunnerBegins(w) PROVE Waiting'
  <2>1. stage[w] = "spawned" /\ stage[w] \in RunnerStages /\ wjob[w] \in Jobs
    BY <1>13, <1>t DEF RunnerBegins, RunnerStages
  <2>2. CASE /\ RunnerEnds(w)
             /\ FinalizeCancelled(wjob[w]) \/ EndsAs(wjob[w], "failed")
    BY <1>13, <1>e, <2>1, <2>2 DEF RunnerBegins
  <2>3. CASE /\ stage' = [stage EXCEPT ![w] = "handling"]
             /\ UNCHANGED <<recordVars, active, handlers, deadLetters, wjob, cancelling>>
    <3>1. \A v \in Workers, j \in Jobs : Runs(v, j) => Runs(v, j)'
      BY <1>t, <2>3 DEF Runs, RunnerStages
    <3>2. \A j \in Jobs : Found(j)' /\ (IsHeld(j) => IsHeld(j)')
      BY <1>13, <2>3, <3>1, StandsStill DEF RunnerBegins, Waits, recordVars
    <3> QED
      BY <1>13, <1>g, <3>2 DEF RunnerBegins, lifeVars, NeverStopped, Waiting
  <2> QED
    BY <1>13, <2>2, <2>3 DEF RunnerBegins, FailWithoutRetry
<1>14. ASSUME NEW w \in Workers, HandlerEnds(w) PROVE Waiting'
  <2>1. stage[w] \in RunnerStages /\ wjob[w] \in Jobs /\ RunnerEnds(w) /\ UNCHANGED <<queue, lifeVars>>
    BY <1>14, <1>t DEF HandlerEnds, HandlerReturns, HandlerCancelled, HandlerFails, MayEndFreely,
       RunnerStages
  <2>2. CASE HandlerReturns(w) \/ HandlerCancelled(w)
    BY <1>e, <2>1, <2>2 DEF HandlerReturns, HandlerCancelled
  <2>3. CASE HandlerFails(w)
    BY <1>e, <2>1, <2>3 DEF HandlerFails, FailWithoutRetry
  <2> QED
    BY <1>14, <2>2, <2>3 DEF HandlerEnds
<1>15. ASSUME NEW w \in Workers, HandlerSurvivesCancel(w) PROVE Waiting'
  BY <1>15, <1>a DEF HandlerSurvivesCancel, Waits
<1>16. CASE UNCHANGED vars
  BY <1>16, <1>a DEF vars, recordVars, lifeVars, Waits
<1> QED
  BY <1>1, <1>2, <1>3, <1>4, <1>5, <1>6, <1>7, <1>8, <1>9, <1>10, <1>11, <1>12, <1>13,
     <1>14, <1>15, <1>16 DEF Next, Worker, Runner

-------------------------------------------------------------------------------
(* The dead letters.                                                        *)

Failed == {j \in Jobs : state[j] = "failed"}

\* The letters are the failed jobs, and none is there twice.
DeadLetters ==
    /\ \A i \in 1..Len(deadLetters) : deadLetters[i] \in Failed
    /\ \A j \in Failed : \E i \in 1..Len(deadLetters) : deadLetters[i] = j
    /\ \A i, k \in 1..Len(deadLetters) : deadLetters[i] = deadLetters[k] => i = k

\* A job that fails was not dead before, and becomes the last letter.
LEMMA LetterAdded ==
    ASSUME Core, DeadLetters, NEW j \in Jobs, state[j] # "failed", FailWithoutRetry(j)
    PROVE  DeadLetters'
<1>1. deadLetters \in Seq(Jobs) /\ deadLetters' = Append(deadLetters, j)
  BY DEF Core, Types, QueueTypes, FailWithoutRetry
<1>2. Failed' = Failed \union {j}
  BY DEF Core, Types, RecordTypes, FailWithoutRetry, EndsAs, Failed
<1>3. /\ Len(deadLetters) \in Nat /\ Len(deadLetters') = Len(deadLetters) + 1
      /\ deadLetters'[Len(deadLetters')] = j
      /\ \A i \in 1..Len(deadLetters) : deadLetters'[i] = deadLetters[i]
  BY <1>1
<1>4. /\ \A i \in 1..Len(deadLetters') : i = Len(deadLetters') \/ i \in 1..Len(deadLetters)
      /\ \A i \in 1..Len(deadLetters) : i \in 1..Len(deadLetters')
      /\ Len(deadLetters') \in 1..Len(deadLetters')
  BY <1>3
<1>5. j \notin Failed
  BY DEF Failed
<1> QED
  BY <1>2, <1>3, <1>4, <1>5 DEF DeadLetters

LEMMA LettersKept ==
    ASSUME DeadLetters, UNCHANGED deadLetters,
           \A j \in Jobs : state'[j] = "failed" <=> state[j] = "failed"
    PROVE  DeadLetters'
<1>1. Failed' = Failed
  BY DEF Failed
<1> QED
  BY <1>1 DEF DeadLetters

LEMMA NextDeadLetters == Core /\ DeadLetters /\ [Next]_vars => DeadLetters'
<1> SUFFICES ASSUME Core, DeadLetters, [Next]_vars PROVE DeadLetters'
  OBVIOUS
<1>t. /\ state \in [Jobs -> Promise!JobState]
      /\ \A w \in Workers : stage[w] \in RunnerStages => wjob[w] \in Jobs /\ state[wjob[w]] = "running"
  BY DEF Core, Types, RecordTypes, OneRunnerPerJob
<1>a. ASSUME UNCHANGED <<state, deadLetters>> PROVE DeadLetters'
  BY <1>a, LettersKept
<1>b. ASSUME NEW J \in SUBSET Jobs, RequestCancel(J), UNCHANGED deadLetters PROVE DeadLetters'
  <2>1. \A j \in Jobs : state[j] = "failed" => state'[j] = "failed"
    BY <1>b, <1>t DEF RequestCancel, Terminal, Promise!TERMINAL_JOB_STATES
  <2> QED
    BY <1>b, <2>1, RequestCancelEffect, LettersKept
<1>c. ASSUME NEW j \in Jobs, FinalizeCancelled(j), UNCHANGED deadLetters PROVE DeadLetters'
  <2>1. \A k \in Jobs : state'[k] = "failed" <=> state[k] = "failed"
    BY <1>c, FinalizeEffect DEF Terminal, Promise!TERMINAL_JOB_STATES
  <2> QED
    BY <1>c, <2>1, LettersKept
<1>1. CASE Start \/ StopDrain
  BY <1>1, <1>a DEF Start, StopDrain, recordVars
<1>2. CASE StopNoDrain
  <2>1. ActiveJobs \union QueuedJobs \in SUBSET Jobs
    BY DEF ActiveJobs, QueuedJobs, Core, Types, QueueTypes
  <2> QED
    BY <1>2, <1>b, <2>1 DEF StopNoDrain
<1>3. ASSUME NEW g \in Generations, StopEndsPool(g) \/ StopReturns(g) PROVE DeadLetters'
  BY <1>3, <1>a DEF StopEndsPool, StopReturns, recordVars
<1>4. ASSUME NEW j \in Jobs, Submit(j) PROVE DeadLetters'
  <2>1. \A k \in Jobs : state'[k] = "failed" <=> state[k] = "failed"
    BY <1>4, <1>t DEF Submit
  <2> QED
    BY <1>4, <2>1, LettersKept DEF Submit
<1>5. ASSUME NEW j \in Jobs, RetryWakes(j) PROVE DeadLetters'
  <2>1. CASE FinalizeCancelled(j)
    BY <1>5, <1>c, <2>1 DEF RetryWakes
  <2>2. CASE Requeues(j) /\ state[j] = "retrying"
    <3>1. \A k \in Jobs : state'[k] = "failed" <=> state[k] = "failed"
      BY <1>t, <2>2 DEF Requeues
    <3> QED
      BY <1>5, <3>1, LettersKept DEF RetryWakes
  <2> QED
    BY <1>5, <2>1, <2>2 DEF RetryWakes
<1>6. ASSUME NEW j \in CancellableJobs, Cancel(j) PROVE DeadLetters'
  BY <1>6, <1>b, ConstantFacts DEF Cancel
<1>7. ASSUME NEW w \in Workers, WorkerStops(w) \/ WorkerResumes(w) PROVE DeadLetters'
  BY <1>7, <1>a DEF WorkerStops, WorkerResumes, recordVars
<1>8. ASSUME NEW w \in Workers, WorkerSkipsJob(w) PROVE DeadLetters'
  <2>1. Head(queue) \in Jobs
    BY <1>8, TakesTypes DEF WorkerSkipsJob, Core, Types
  <2> QED
    BY <1>8, <1>a, <1>c, <2>1 DEF WorkerSkipsJob, recordVars
<1>9. ASSUME NEW w \in Workers, WorkerStartsJob(w) PROVE DeadLetters'
  <2>1. /\ Head(queue) \in Jobs /\ state[Head(queue)] = "queued"
        /\ state' = [state EXCEPT ![Head(queue)] = "running"]
    BY <1>9, TakesTypes DEF WorkerStartsJob, Core, Types
  <2>2. \A k \in Jobs : state'[k] = "failed" <=> state[k] = "failed"
    BY <1>t, <2>1
  <2> QED
    BY <1>9, <2>2, LettersKept DEF WorkerStartsJob
<1>10. ASSUME NEW w \in Workers, RunnerCancelledUnstarted(w) \/ HandlerSurvivesCancel(w)
       PROVE  DeadLetters'
  BY <1>10, <1>a DEF RunnerCancelledUnstarted, HandlerSurvivesCancel, recordVars
<1>11. ASSUME NEW w \in Workers, RunnerBegins(w) PROVE DeadLetters'
  <2>1. wjob[w] \in Jobs /\ state[wjob[w]] = "running"
    BY <1>11, <1>t DEF RunnerBegins, RunnerStages
  <2>2. CASE FailWithoutRetry(wjob[w])
    BY <2>1, <2>2, LetterAdded
  <2>3. CASE FinalizeCancelled(wjob[w]) /\ UNCHANGED deadLetters
    BY <1>c, <2>1, <2>3
  <2>4. CASE UNCHANGED <<recordVars, deadLetters>>
    BY <1>a, <2>4 DEF recordVars
  <2> QED
    BY <1>11, <2>2, <2>3, <2>4 DEF RunnerBegins
<1>12. ASSUME NEW w \in Workers, HandlerEnds(w) PROVE DeadLetters'
  <2>1. wjob[w] \in Jobs /\ state[wjob[w]] = "running"
    BY <1>12, <1>t DEF HandlerEnds, HandlerReturns, HandlerCancelled, HandlerFails, MayEndFreely,
       RunnerStages
  <2>2. CASE HandlerReturns(w)
    <3>1. \A k \in Jobs : state'[k] = "failed" <=> state[k] = "failed"
      BY <1>t, <2>1, <2>2 DEF HandlerReturns, EndsAs
    <3> QED
      BY <2>2, <3>1, LettersKept DEF HandlerReturns
  <2>3. CASE HandlerCancelled(w)
    BY <1>c, <2>1, <2>3 DEF HandlerCancelled
  <2>4. CASE HandlerFails(w)
    <3>1. CASE FinalizeCancelled(wjob[w]) /\ UNCHANGED deadLetters
      BY <1>c, <2>1, <3>1
    <3>2. CASE SchedulesRetry(wjob[w])
      <4>1. \A k \in Jobs : state'[k] = "failed" <=> state[k] = "failed"
        BY <1>t, <2>1, <3>2 DEF SchedulesRetry
      <4> QED
        BY <3>2, <4>1, LettersKept DEF SchedulesRetry
    <3>3. CASE FailWithoutRetry(wjob[w])
      BY <2>1, <3>3, LetterAdded
    <3> QED
      BY <2>4, <3>1, <3>2, <3>3 DEF HandlerFails
  <2> QED
    BY <1>12, <2>2, <2>3, <2>4 DEF HandlerEnds
<1>13. CASE UNCHANGED vars
  BY <1>13, <1>a DEF vars
<1> QED
  BY <1>1, <1>2, <1>3, <1>4, <1>5, <1>6, <1>7, <1>8, <1>9, <1>10, <1>11, <1>12, <1>13
  DEF Next, Worker, Runner

\* Letters that are distinct and are the failed jobs are as many as the failed jobs.
LEMMA LettersAreCounted ==
    ASSUME Core, WithinBudget, DeadLetters
    PROVE  DeadLettersAreExhausted
<1>1. deadLetters \in Seq(Jobs) /\ Len(deadLetters) \in Nat /\ DOMAIN deadLetters = 1..Len(deadLetters)
  BY DEF Core, Types, QueueTypes
<1>2. {deadLetters[i] : i \in DOMAIN deadLetters} = Failed
  BY <1>1 DEF DeadLetters
<1>3. Len(deadLetters) = Cardinality(Failed)
  <2> DEFINE f == [i \in 1..Len(deadLetters) |-> deadLetters[i]]
  <2>1. f \in [1..Len(deadLetters) -> Failed]
    BY DEF DeadLetters
  <2>2. /\ \A i, k \in 1..Len(deadLetters) : f[i] = f[k] => i = k
        /\ \A j \in Failed : \E i \in 1..Len(deadLetters) : f[i] = j
    BY DEF DeadLetters
  <2>3. f \in Bijection(1..Len(deadLetters), Failed)
    BY <2>1, <2>2, Fun_IsBij
  <2>4. /\ IsFiniteSet(1..Len(deadLetters))
        /\ Cardinality(1..Len(deadLetters)) = Len(deadLetters)
    BY <1>1, FS_Interval
  <2> HIDE DEF f
  <2> QED
    BY <2>3, <2>4, FS_Bijection DEF ExistsBijection
<1> QED
  BY <1>2, <1>3 DEF DeadLettersAreExhausted, Failed, WithinBudget

-------------------------------------------------------------------------------
(* The STOP_TOKENs.                                                         *)

Alive  == {w \in Workers : stage[w] \notin {"absent", "exited"}}
Tokens == {i \in 1..Len(queue) : queue[i] = STOP_TOKEN}
Owed   == IF running THEN WorkerCount ELSE 0

\* A stop() that still drains holds the lock over the pool it will end.
StoppingRuns ==
    \A g \in Generations :
        stopStage[g] \in {"draining", "draining_timed", "drained"} => running /\ g = starts

EnoughAlive == Cardinality(Alive) >= Owed + Cardinality(Tokens)

LEMMA CountsAreNumbers ==
    ASSUME Types
    PROVE  /\ IsFiniteSet(Alive) /\ Cardinality(Alive) \in Nat
           /\ IsFiniteSet(Tokens) /\ Cardinality(Tokens) \in Nat
           /\ Owed \in Nat
<1>1. WorkerCount * MaxStarts \in Int
  BY ConstantFacts
<1>2. IsFiniteSet(Workers)
  BY <1>1, FS_Interval DEF Workers
<1>3. Alive \in SUBSET Workers
  BY DEF Alive
<1>4. IsFiniteSet(1..Len(queue))
  <2>1. Len(queue) \in Int
    BY DEF Types, QueueTypes
  <2> QED
    BY <2>1, FS_Interval
<1>5. Tokens \in SUBSET (1..Len(queue))
  BY DEF Tokens
<1>6. Owed \in Nat
  BY ConstantFacts DEF Owed
<1> QED
  BY <1>2, <1>3, <1>4, <1>5, <1>6, FS_Subset, FS_CardinalityType

\* What a worker takes leaves no more tokens behind, and one fewer if it is one.
LEMMA TokensAfterTake ==
    ASSUME Types, NEW w \in Workers, Takes(w)
    PROVE  /\ Cardinality(Tokens') \in Nat
           /\ Cardinality(Tokens') <=
                  Cardinality(Tokens) - (IF Head(queue) = STOP_TOKEN THEN 1 ELSE 0)
<1> DEFINE f == [i \in Tokens' |-> i + 1]
<1>1. queue \in Seq(Jobs \union {STOP_TOKEN}) /\ queue # <<>> /\ queue' = Tail(queue)
  BY DEF Types, QueueTypes, Takes
<1>2. /\ Len(queue) \in Nat /\ Len(queue) > 0 /\ Len(queue') = Len(queue) - 1
      /\ \A i \in 1..Len(queue') : i + 1 \in 1..Len(queue) /\ queue'[i] = queue[i + 1]
      /\ Head(queue) = queue[1] /\ 1 \in 1..Len(queue)
  BY <1>1
<1>3. \A i \in Tokens' : i \in Nat /\ i + 1 # 1 /\ i + 1 \in Tokens
  BY <1>2 DEF Tokens
<1>4. f \in Injection(Tokens', Tokens \ {1})
  <2>1. f \in [Tokens' -> Tokens \ {1}]
    BY <1>3
  <2>2. \A i, k \in Tokens' : f[i] = f[k] => i = k
    BY <1>3
  <2> HIDE DEF f
  <2> QED
    BY <2>1, <2>2, Fun_IsInj
<1>5. /\ IsFiniteSet(Tokens \ {1})
      /\ Cardinality(Tokens \ {1}) = IF 1 \in Tokens THEN Cardinality(Tokens) - 1
                                                     ELSE Cardinality(Tokens)
  BY CountsAreNumbers, FS_RemoveElement
<1>6. Cardinality(Tokens') \in Nat /\ Cardinality(Tokens') <= Cardinality(Tokens \ {1})
  BY <1>4, <1>5, FS_Injection, FS_CardinalityType
<1>7. Head(queue) = STOP_TOKEN <=> 1 \in Tokens
  BY <1>2 DEF Tokens
<1> HIDE DEF f
<1> QED
  BY <1>5, <1>6, <1>7, CountsAreNumbers

LEMMA TokensAfterAppend ==
    ASSUME Types, NEW j \in Jobs, queue' = Append(queue, j)
    PROVE  Tokens' = Tokens
<1>1. queue \in Seq(Jobs \union {STOP_TOKEN})
  BY DEF Types, QueueTypes
<1>2. /\ Len(queue) \in Nat /\ Len(queue') = Len(queue) + 1
      /\ queue'[Len(queue')] = j
      /\ \A i \in 1..Len(queue) : queue'[i] = queue[i]
  BY <1>1
<1> QED
  BY <1>2, ConstantFacts DEF Tokens

LEMMA TokensAfterStop ==
    ASSUME Types, queue' = queue \o StopTokens
    PROVE  /\ Cardinality(Tokens') \in Nat
           /\ Cardinality(Tokens') <= Cardinality(Tokens) + WorkerCount
<1> DEFINE new == (Len(queue) + 1)..(Len(queue) + WorkerCount)
<1>1. queue \in Seq(Jobs \union {STOP_TOKEN}) /\ StopTokens \in Seq(Jobs \union {STOP_TOKEN})
  BY TokensAreASequence DEF Types, QueueTypes
<1>2. /\ Len(queue) \in Nat /\ Len(queue') = Len(queue) + WorkerCount
      /\ \A i \in 1..Len(queue) : queue'[i] = queue[i]
  <2>1. Len(queue) \in Nat /\ Len(queue') = Len(queue) + Len(StopTokens)
    BY <1>1
  <2>2. \A i \in 1..Len(queue) : queue'[i] = queue[i]
    BY <1>1
  <2> QED
    BY <2>1, <2>2, TokensAreASequence
<1>3. Tokens' \in SUBSET (Tokens \union new)
  BY <1>2, ConstantFacts DEF Tokens
<1>4. IsFiniteSet(new) /\ Cardinality(new) = WorkerCount
  BY <1>2, ConstantFacts, FS_Interval
<1> HIDE DEF new
<1>5. /\ IsFiniteSet(Tokens \union new) /\ Cardinality(Tokens \cap new) \in Nat
      /\ Cardinality(Tokens \union new)
            = Cardinality(Tokens) + Cardinality(new) - Cardinality(Tokens \cap new)
  <2>1. IsFiniteSet(Tokens) /\ IsFiniteSet(Tokens \cap new)
    BY CountsAreNumbers, FS_Subset
  <2> QED
    BY <1>4, <2>1, FS_Union, FS_CardinalityType
<1>6. Cardinality(Tokens') \in Nat /\ Cardinality(Tokens') <= Cardinality(Tokens \union new)
  BY <1>3, <1>5, FS_Subset, FS_CardinalityType
<1> QED
  BY <1>4, <1>5, <1>6, CountsAreNumbers, ConstantFacts

\* A new pool is as large as worker_count says, and consists of workers.
LEMMA PoolSize ==
    ASSUME NEW s \in Nat, s < MaxStarts
    PROVE  /\ Pool(s + 1) \subseteq Workers
           /\ IsFiniteSet(Pool(s + 1)) /\ Cardinality(Pool(s + 1)) = WorkerCount
<1> DEFINE low == s * WorkerCount
<1>1. (s + 1) * WorkerCount = low + WorkerCount /\ low \in Nat /\ (s + 1) - 1 = s
  BY ConstantFacts
<1>2. WorkerCount * MaxStarts >= (s + 1) * WorkerCount
  <2>1. PICK d \in Nat : MaxStarts = (s + 1) + d
    <3>1. MaxStarts - (s + 1) \in Nat /\ MaxStarts = (s + 1) + (MaxStarts - (s + 1))
      BY ConstantFacts
    <3> QED
      BY <3>1
  <2>2. WorkerCount * MaxStarts = (s + 1) * WorkerCount + WorkerCount * d
    BY <2>1, ConstantFacts
  <2>3. WorkerCount * d \in Nat
    BY ConstantFacts
  <2> QED
    BY <1>1, <2>2, <2>3, ConstantFacts
<1>3. WorkerCount * MaxStarts \in Nat
  BY ConstantFacts
<1> HIDE DEF low
<1>4. Pool(s + 1) = (low + 1)..(low + WorkerCount)
  <2>1. \A w : w \in Pool(s + 1) <=> w \in Workers /\ low < w /\ w <= low + WorkerCount
    BY <1>1 DEF Pool, low
  <2>2. \A w : w \in Workers <=> w \in Int /\ 1 <= w /\ w <= WorkerCount * MaxStarts
    BY <1>3 DEF Workers
  <2>3. \A w : w \in (low + 1)..(low + WorkerCount)
                <=> w \in Int /\ low < w /\ w <= low + WorkerCount
    BY <1>1, ConstantFacts
  <2>4. \A w \in Int : low < w /\ w <= low + WorkerCount => 1 <= w /\ w <= WorkerCount * MaxStarts
    BY <1>1, <1>2, <1>3, ConstantFacts
  <2>5. \A w : w \in Pool(s + 1) <=> w \in (low + 1)..(low + WorkerCount)
    BY <2>1, <2>2, <2>3, <2>4
  <2> QED
    BY <2>5
<1>5. IsFiniteSet(Pool(s + 1)) /\ Cardinality(Pool(s + 1)) = WorkerCount
  BY <1>1, <1>4, ConstantFacts, FS_Interval
<1> QED
  BY <1>5 DEF Pool

LEMMA NextTokens == Core /\ Counting /\ StoppingRuns /\ EnoughAlive /\ [Next]_vars => EnoughAlive'
<1> SUFFICES ASSUME Core, Counting, StoppingRuns, EnoughAlive, [Next]_vars PROVE EnoughAlive'
  OBVIOUS
<1>t. Types /\ stage \in [Workers -> Stages] /\ starts \in 0..MaxStarts /\ running \in BOOLEAN
  BY DEF Core, Types, TaskTypes, LifeTypes
<1>n. /\ Cardinality(Alive) \in Nat /\ Cardinality(Tokens) \in Nat /\ Owed \in Nat
      /\ IsFiniteSet(Alive) /\ WorkerCount \in Nat
  BY <1>t, CountsAreNumbers, ConstantFacts
<1>a. ASSUME Alive' = Alive, Owed' = Owed,
             Cardinality(Tokens') \in Nat, Cardinality(Tokens') <= Cardinality(Tokens)
      PROVE  EnoughAlive'
  BY <1>a, <1>n DEF EnoughAlive
<1>b. ASSUME UNCHANGED <<stage, queue, running>> PROVE EnoughAlive'
  <2>1. Alive' = Alive /\ Tokens' = Tokens /\ Owed' = Owed
    BY <1>b DEF Alive, Tokens, Owed
  <2> QED
    BY <1>a, <1>n, <2>1
<1>c. ASSUME NEW j \in Jobs, queue' = Append(queue, j), UNCHANGED <<stage, running>>
      PROVE  EnoughAlive'
  <2>1. Alive' = Alive /\ Tokens' = Tokens /\ Owed' = Owed
    BY <1>c, <1>t, TokensAfterAppend DEF Alive, Owed
  <2> QED
    BY <1>a, <1>n, <2>1
<1>d. ASSUME NEW w \in Workers, NEW s \in Stages \ {"absent", "exited"},
             stage[w] \notin {"absent", "exited"}, stage' = [stage EXCEPT ![w] = s]
      PROVE  Alive' = Alive
  BY <1>d, <1>t DEF Alive
<1>e. ASSUME NEW w \in Workers, NEW s \in Stages \ {"absent", "exited"},
             stage[w] \notin {"absent", "exited"}, stage' = [stage EXCEPT ![w] = s],
             UNCHANGED <<queue, running>>
      PROVE  EnoughAlive'
  <2>1. Alive' = Alive /\ Tokens' = Tokens /\ Owed' = Owed
    BY <1>e, <1>d DEF Tokens, Owed
  <2> QED
    BY <1>a, <1>n, <2>1
<1>1. CASE Start
  <2>1. /\ \A w \in Workers : stage'[w] = IF w \in Pool(starts + 1) THEN "idle" ELSE stage[w]
        /\ ~running /\ running' /\ starts \in Nat /\ starts < MaxStarts /\ queue' = queue
    BY <1>1, <1>t, ConstantFacts DEF Start
  <2>2. \A w \in Pool(starts + 1) : w \in Workers /\ stage[w] = "absent"
    BY <2>1, PoolArithmetic DEF Counting, FutureAbsent, Pool
  <2>3. Alive' = Alive \union Pool(starts + 1) /\ Alive \cap Pool(starts + 1) = {}
    BY <2>1, <2>2 DEF Alive
  <2>4. IsFiniteSet(Pool(starts + 1)) /\ Cardinality(Pool(starts + 1)) = WorkerCount
    BY <2>1, PoolSize
  <2>5. Cardinality(Alive') = Cardinality(Alive) + WorkerCount
    <3>1. Cardinality(Alive') = Cardinality(Alive) + Cardinality(Pool(starts + 1))
                                  - Cardinality(Alive \cap Pool(starts + 1))
      BY <1>n, <2>3, <2>4, FS_Union
    <3>2. Cardinality(Alive \cap Pool(starts + 1)) = 0
      BY <2>3, FS_EmptySet
    <3> QED
      BY <1>n, <2>4, <3>1, <3>2
  <2>6. Tokens' = Tokens /\ Owed = 0 /\ Owed' = WorkerCount
    BY <2>1 DEF Tokens, Owed
  <2> QED
    BY <1>n, <2>5, <2>6 DEF EnoughAlive
<1>2. CASE StopNoDrain
  <2>1. Owed = WorkerCount /\ Owed' = 0 /\ Alive' = Alive /\ queue' = StopTokens
    BY <1>2 DEF StopNoDrain, Owed, Alive
  <2>2. Tokens' = 1..WorkerCount
    BY <2>1, TokensAreASequence, ConstantFacts DEF Tokens, StopTokens
  <2>3. Cardinality(Tokens') = WorkerCount
    BY <2>2, ConstantFacts, FS_Interval
  <2> QED
    BY <1>n, <2>1, <2>3 DEF EnoughAlive
<1>3. CASE StopDrain
  BY <1>3, <1>b DEF StopDrain, poolVars
<1>4. ASSUME NEW g \in Generations, StopEndsPool(g) PROVE EnoughAlive'
  <2>1. Owed = WorkerCount /\ Owed' = 0 /\ Alive' = Alive /\ queue' = queue \o StopTokens
    BY <1>4 DEF StopEndsPool, StoppingRuns, Owed, Alive, poolVars
  <2>2. Cardinality(Tokens') \in Nat /\ Cardinality(Tokens') <= Cardinality(Tokens) + WorkerCount
    BY <1>t, <2>1, TokensAfterStop
  <2> QED
    BY <1>n, <2>1, <2>2 DEF EnoughAlive
<1>5. ASSUME NEW g \in Generations, StopReturns(g) PROVE EnoughAlive'
  BY <1>5, <1>b DEF StopReturns, poolVars
<1>6. ASSUME NEW j \in Jobs, Submit(j) PROVE EnoughAlive'
  BY <1>6, <1>c DEF Submit, lifeVars, poolVars
<1>7. ASSUME NEW j \in Jobs, RetryWakes(j) PROVE EnoughAlive'
  BY <1>7, <1>b, <1>c DEF RetryWakes, Requeues, lifeVars, poolVars
<1>8. ASSUME NEW j \in CancellableJobs, Cancel(j) PROVE EnoughAlive'
  BY <1>8, <1>b DEF Cancel, lifeVars
<1>9. ASSUME NEW w \in Workers, WorkerStops(w) PROVE EnoughAlive'
  <2>1. /\ Takes(w) /\ Head(queue) = STOP_TOKEN /\ stage[w] = "idle" /\ running' = running
        /\ stage' = [stage EXCEPT ![w] = "exited"]
    BY <1>9 DEF WorkerStops, Takes
  <2>2. Cardinality(Tokens') \in Nat /\ Cardinality(Tokens') <= Cardinality(Tokens) - 1
    BY <1>t, <2>1, TokensAfterTake
  <2>3. Alive' = Alive \ {w} /\ w \in Alive /\ Owed' = Owed
    BY <1>t, <2>1 DEF Alive, Owed
  <2>4. Cardinality(Alive') = Cardinality(Alive) - 1
    BY <1>n, <2>3, FS_RemoveElement
  <2> QED
    BY <1>n, <2>2, <2>3, <2>4 DEF EnoughAlive
<1>10. ASSUME NEW w \in Workers, WorkerSkipsJob(w) \/ WorkerStartsJob(w) PROVE EnoughAlive'
  <2>1. Takes(w) /\ Head(queue) # STOP_TOKEN /\ stage[w] = "idle" /\ running' = running
    BY <1>10 DEF WorkerSkipsJob, WorkerStartsJob, Takes, lifeVars
  <2>2. Cardinality(Tokens') \in Nat /\ Cardinality(Tokens') <= Cardinality(Tokens)
    BY <1>t, <1>n, <2>1, TokensAfterTake
  <2>3. CASE WorkerSkipsJob(w)
    BY <1>a, <2>1, <2>2, <2>3 DEF WorkerSkipsJob, poolVars, Alive, Owed
  <2>4. CASE WorkerStartsJob(w)
    <3>1. Alive' = Alive
      BY <1>d, <2>1, <2>4 DEF WorkerStartsJob, Stages, BusyStages, RunnerStages
    <3> QED
      BY <1>a, <2>1, <2>2, <3>1 DEF Owed
  <2> QED
    BY <1>10, <2>3, <2>4
<1>11. ASSUME NEW w \in Workers, WorkerResumes(w) PROVE EnoughAlive'
  <2> DEFINE s == IF stage[w] = "returning" THEN "idle" ELSE "killed"
  <2>1. /\ stage[w] \in {"returning", "thrown"} /\ UNCHANGED <<queue, running>>
        /\ stage' = [stage EXCEPT ![w] = s]
    BY <1>11 DEF WorkerResumes
  <2>2. s \in Stages \ {"absent", "exited"}
    BY DEF Stages, DeadStages
  <2> HIDE DEF s
  <2> QED
    BY <1>e, <2>1, <2>2
<1>12. ASSUME NEW w \in Workers, Runner(w) PROVE EnoughAlive'
  <2>1. \E s \in {"thrown", "returning", "handling"} :
            /\ stage[w] \in {"spawned", "handling"} /\ stage' = [stage EXCEPT ![w] = s]
            /\ UNCHANGED <<queue, running>>
    BY <1>12 DEF Runner, HandlerEnds, RunnerCancelledUnstarted, RunnerBegins, HandlerReturns,
       HandlerCancelled, HandlerFails, MayEndFreely, RunnerEnds, lifeVars
  <2> QED
    BY <1>e, <2>1 DEF Stages, BusyStages, RunnerStages
<1>13. ASSUME NEW w \in Workers, HandlerSurvivesCancel(w) PROVE EnoughAlive'
  BY <1>13, <1>b DEF HandlerSurvivesCancel, lifeVars
<1>14. CASE UNCHANGED vars
  BY <1>14, <1>b DEF vars
<1> QED
  BY <1>1, <1>2, <1>3, <1>4, <1>5, <1>6, <1>7, <1>8, <1>9, <1>10, <1>11, <1>12, <1>13, <1>14
  DEF Next, Worker

\* While one stop() drains nobody starts or stops the executor, and when it ends the
\* pool no other one drains.
LEMMA NextStopping == Core /\ StoppingRuns /\ [Next]_vars => StoppingRuns'
<1> SUFFICES ASSUME Core, StoppingRuns, [Next]_vars PROVE StoppingRuns'
  OBVIOUS
<1> DEFINE Drains(g) == stopStage[g] \in {"draining", "draining_timed", "drained"}
<1>t. stopStage \in [Generations -> StopStages]
  BY DEF Core, Types, LifeTypes
<1>a. ASSUME UNCHANGED lifeVars PROVE StoppingRuns'
  BY <1>a DEF StoppingRuns, lifeVars
<1>b. ASSUME TaskDone, UNCHANGED <<running, starts>> PROVE StoppingRuns'
  <2>1. \A g \in Generations : Drains(g)' => Drains(g)
    BY <1>b DEF TaskDone
  <2> QED
    BY <1>b, <2>1 DEF StoppingRuns
<1>1. CASE Start
  BY <1>1 DEF Start, LockFree, StoppingRuns
<1>2. CASE StopNoDrain
  <2>1. \A g \in Generations : ~Drains(g)'
    BY <1>2, <1>t DEF StopNoDrain, LockFree
  <2> QED
    BY <2>1 DEF StoppingRuns
<1>3. CASE StopDrain
  <2>1. /\ \A g \in Generations : Drains(g)' => g = starts
        /\ running /\ UNCHANGED <<running, starts>>
    BY <1>3, <1>t DEF StopDrain, LockFree
  <2> QED
    BY <2>1 DEF StoppingRuns
<1>4. ASSUME NEW g \in Generations, StopEndsPool(g) PROVE StoppingRuns'
  <2>1. \A h \in Generations : ~Drains(h)'
    BY <1>4, <1>t DEF StopEndsPool, StoppingRuns
  <2> QED
    BY <2>1 DEF StoppingRuns
<1>5. ASSUME NEW g \in Generations, StopReturns(g) PROVE StoppingRuns'
  BY <1>5, <1>t DEF StopReturns, StoppingRuns
<1>6. ASSUME NEW j \in Jobs, Submit(j) \/ RetryWakes(j) PROVE StoppingRuns'
  BY <1>6, <1>a DEF Submit, RetryWakes
<1>7. ASSUME NEW j \in CancellableJobs, Cancel(j) PROVE StoppingRuns'
  BY <1>7, <1>a DEF Cancel
<1>8. ASSUME NEW w \in Workers, Worker(w) PROVE StoppingRuns'
  BY <1>8, <1>a, <1>b DEF Worker, WorkerStops, WorkerSkipsJob, WorkerStartsJob, WorkerResumes
<1>9. ASSUME NEW w \in Workers, Runner(w) \/ HandlerSurvivesCancel(w) PROVE StoppingRuns'
  BY <1>9, <1>a DEF Runner, HandlerEnds, RunnerCancelledUnstarted, RunnerBegins, HandlerReturns,
     HandlerCancelled, HandlerFails, HandlerSurvivesCancel
<1>10. CASE UNCHANGED vars
  BY <1>10, <1>a DEF vars, lifeVars
<1> QED
  BY <1>1, <1>2, <1>3, <1>4, <1>5, <1>6, <1>7, <1>8, <1>9, <1>10 DEF Next

-------------------------------------------------------------------------------
(* The end of the queue.                                                    *)

\* Jobs are put only while the executor runs, and a stop puts tokens.
LEMMA NextServed == Core /\ QueueIsServed /\ [Next]_vars => QueueIsServed'
<1> SUFFICES ASSUME Core, QueueIsServed, [Next]_vars PROVE QueueIsServed'
  OBVIOUS
<1>q. queue \in Seq(Jobs \union {STOP_TOKEN}) /\ Len(queue) \in Nat
  BY DEF Core, Types, QueueTypes
<1>t. /\ StopTokens \in Seq(Jobs \union {STOP_TOKEN}) /\ Len(StopTokens) \in Nat \ {0}
      /\ StopTokens[Len(StopTokens)] = STOP_TOKEN
  BY TokensAreASequence, ConstantFacts DEF StopTokens
<1>u. UNCHANGED <<queue, running>> => QueueIsServed'
  BY DEF QueueIsServed
<1>h. ASSUME queue # <<>>, queue' = Tail(queue), UNCHANGED running PROVE QueueIsServed'
  <2>1. Len(queue') = Len(queue) - 1 /\ \A i \in 1..Len(queue') : queue'[i] = queue[i + 1]
    BY <1>q, <1>h
  <2>2. queue' # <<>> => Len(queue') \in 1..Len(queue')
    BY <1>q, <1>h, <2>1
  <2> QED
    BY <1>q, <1>h, <2>1, <2>2 DEF QueueIsServed
<1>1. CASE Start
  BY <1>1 DEF Start, QueueIsServed
<1>2. CASE StopNoDrain
  BY <1>2, <1>t DEF StopNoDrain, QueueIsServed
<1>3. CASE StopDrain
  BY <1>3, <1>u DEF StopDrain
<1>4. ASSUME NEW g \in Generations, StopEndsPool(g) PROVE QueueIsServed'
  <2>1. queue' = queue \o StopTokens
    BY <1>4 DEF StopEndsPool
  <2>2. /\ Len(queue') = Len(queue) + Len(StopTokens)
        /\ queue'[Len(queue')] = StopTokens[Len(StopTokens)]
    BY <1>q, <1>t, <2>1
  <2> QED
    BY <1>t, <2>2 DEF QueueIsServed
<1>5. ASSUME NEW g \in Generations, StopReturns(g) PROVE QueueIsServed'
  BY <1>5, <1>u DEF StopReturns
<1>6. ASSUME NEW j \in Jobs, Submit(j) PROVE QueueIsServed'
  BY <1>6 DEF Submit, lifeVars, QueueIsServed
<1>7. ASSUME NEW j \in Jobs, RetryWakes(j) PROVE QueueIsServed'
  BY <1>7, <1>u DEF RetryWakes, lifeVars, QueueIsServed
<1>8. ASSUME NEW j \in CancellableJobs, Cancel(j) PROVE QueueIsServed'
  BY <1>8, <1>u DEF Cancel, lifeVars
<1>9. ASSUME NEW w \in Workers, Worker(w) PROVE QueueIsServed'
  BY <1>9, <1>u, <1>h DEF Worker, WorkerStops, WorkerSkipsJob, WorkerStartsJob, WorkerResumes, Takes, lifeVars
<1>10. ASSUME NEW w \in Workers, Runner(w) \/ HandlerSurvivesCancel(w) PROVE QueueIsServed'
  BY <1>10, <1>u DEF Runner, RunnerCancelledUnstarted, RunnerBegins, HandlerEnds, HandlerReturns,
     HandlerCancelled, HandlerFails, HandlerSurvivesCancel, lifeVars
<1>11. CASE UNCHANGED vars
  BY <1>11, <1>u DEF vars
<1> QED
  BY <1>1, <1>2, <1>3, <1>4, <1>5, <1>6, <1>7, <1>8, <1>9, <1>10, <1>11 DEF Next

-------------------------------------------------------------------------------
(* The accounts.                                                            *)

Accounts == Core /\ Ledger /\ Counting /\ Cancelling /\ Waiting /\ DeadLetters
                /\ StoppingRuns /\ EnoughAlive /\ QueueIsServed

LEMMA InitAccounts ==
    Init => Cancelling /\ Waiting /\ DeadLetters /\ StoppingRuns /\ EnoughAlive /\ QueueIsServed
<1> SUFFICES ASSUME Init
             PROVE  Cancelling /\ Waiting /\ DeadLetters /\ StoppingRuns /\ EnoughAlive /\ QueueIsServed
  OBVIOUS
<1>1. Cancelling
  BY DEF Init, Cancelling, CancelReaches, PendingIsKnown, BoundWasAttempted, CancelWins
<1>2. Waiting
  BY DEF Init, Waiting, QueuedIsFound, IsHeld
<1>3. DeadLetters
  BY DEF Init, DeadLetters, Failed
<1>4. StoppingRuns
  BY DEF Init, StoppingRuns
<1>5. EnoughAlive
  <2>1. Alive = {} /\ Tokens = {} /\ Owed = 0
    BY DEF Init, Alive, Tokens, Owed
  <2> QED
    BY <2>1, FS_EmptySet DEF EnoughAlive
<1>6. QueueIsServed
  BY DEF Init, QueueIsServed
<1> QED
  BY <1>1, <1>2, <1>3, <1>4, <1>5, <1>6

LEMMA AccountsInvariant == Spec => []Accounts
<1>1. Init => Cancelling /\ Waiting /\ DeadLetters /\ StoppingRuns /\ EnoughAlive /\ QueueIsServed
  BY InitAccounts
<1>2. /\ Core /\ Ledger /\ Counting /\ Cancelling /\ Waiting /\ DeadLetters /\ StoppingRuns
         /\ EnoughAlive /\ QueueIsServed /\ [Next]_vars
      => (Cancelling /\ Waiting /\ DeadLetters /\ StoppingRuns /\ EnoughAlive /\ QueueIsServed)'
  BY NextCancelling, NextWaiting, NextDeadLetters, NextStopping, NextTokens, NextServed
<1> QED
  BY LedgerInvariant, CountingInvariant, <1>1, <1>2, PTL DEF Spec, Accounts

\* The books balance, for every set of jobs, pool size, retry bound and number of
\* restarts: waiting jobs are queued once, none is lost before a stop or a cancellation,
\* every STOP_TOKEN has a worker left for it, nothing is queued behind the tokens of the
\* last stop, an accepted cancellation is never
\* overtaken, and the dead letters are the jobs that used up their attempts.
THEOREM WorkIsAccountedHolds == Spec => []WorkIsAccounted
<1>1. Accounts => WorkIsAccounted
  <2> SUFFICES ASSUME Accounts PROVE WorkIsAccounted
    OBVIOUS
  <2>1. /\ queue \in Seq(Jobs \union {STOP_TOKEN}) /\ DOMAIN queue = 1..Len(queue)
        /\ Core /\ Waiting
    BY DEF Accounts, Core, Types, QueueTypes
  <2>2. \A j \in Jobs : Waits(j) => j \in QueuedJobs
    BY <2>1, ConstantFacts DEF Waits, QueuedJobs
  <2>3. QueuedOnce
    <3>1. \A i, k \in DOMAIN queue : i # k /\ queue[i] = queue[k] => queue[i] = STOP_TOKEN
      BY <2>1 DEF Core, QueueDistinct
    <3>2. \A j \in QueuedJobs : state[j] \in {"queued", "cancelled"}
      BY <2>1 DEF Core, QueueWaits, QueuedJobs
    <3>3. \A j \in Jobs : state[j] = "queued" =>
             j \in QueuedJobs \/ (j \in cancelRequested /\ attempts[j] > 0)
      BY <2>1, <2>2 DEF Waiting, QueuedIsFound
    <3> QED
      BY <3>1, <3>2, <3>3 DEF QueuedOnce
  <2>4. NoJobLost
    BY <2>1, <2>2 DEF NoJobLost, Waiting, NeverStopped, IsHeld
  <2>5. TokensHaveWorkers
    BY <2>1 DEF Accounts, EnoughAlive, TokensHaveWorkers, Alive, Tokens, Owed
  <2>6. CancelWins
    BY DEF Accounts, Cancelling
  <2>7. DeadLettersAreExhausted
    BY LettersAreCounted DEF Accounts, Ledger
  <2>8. QueueIsServed
    BY DEF Accounts
  <2> QED
    BY <2>3, <2>4, <2>5, <2>6, <2>7, <2>8 DEF WorkIsAccounted
<1> QED
  BY AccountsInvariant, <1>1, PTL

===============================================================================
