---------------------------- MODULE CloudWorksProofs ----------------------------
(***************************************************************************)
(* Theorems about CloudWorks, for every set of run ids and of sessions, any *)
(* number of retries and restarts: a run that is running has somebody who   *)
(* will write its outcome, and a deleted schedule stays without runs.       *)
(***************************************************************************)
EXTENDS CloudWorks, TLAPS

-------------------------------------------------------------------------------
(* The inductive invariant.                                                 *)

RunStatus == {NoRow, "pending", "running", "completed", "failed", "retrying"}
ScheduleStatus == {"enabled", "disabled", "deleted"}

Steps == RunSteps \union {"idle", "fired", "create", "enabled", "disabled", "reload", "apply", "drop"}

\* A session that is at a step of a run has one of the runs.
Session == [at : Steps, run : Runs \union {NoRun}, seen : RunStatus \union ScheduleStatus]

Types ==
    /\ schedule \in ScheduleStatus /\ restarts \in Nat
    /\ status \in [Runs -> RunStatus] /\ attempt \in [Runs -> Int]
    /\ session \in [Sessions -> Session]
    /\ \A a \in Sessions : session[a].at \in RunSteps => session[a].run \in Runs

\* The runs go with their schedule.
NothingLeft == schedule = "deleted" => \A r \in Runs : status[r] = NoRow

IInv == Types /\ NothingLeft /\ RunningIsAttended

-------------------------------------------------------------------------------
(* What the steps of a session do to the others' claims.                    *)

\* A session that attends to no running run may go on in any way.
LEMMA OthersAttend ==
    ASSUME Types, RunningIsAttended, NEW a \in Sessions, NEW s,
           session' = [session EXCEPT ![a] = s], UNCHANGED restarts,
           \A r \in Runs : status'[r] = "running" =>
               \/ status[r] = "running" /\ ~WillFinish(a, r)
               \/ s.run = r /\ (s.at = "refresh" \/ (s.at = "outcome" /\ s.seen = "running"))
    PROVE  RunningIsAttended'
<1> SUFFICES ASSUME restarts = 0, NEW r \in Runs, status'[r] = "running"
             PROVE  (\E b \in Sessions : WillFinish(b, r))'
  BY DEF RunningIsAttended
<1>1. session'[a] = s /\ \A b \in Sessions \ {a} : session'[b] = session[b]
  BY DEF Types
<1>2. CASE status[r] = "running" /\ ~WillFinish(a, r)
  <2>1. PICK b \in Sessions : WillFinish(b, r)
    BY <1>2 DEF RunningIsAttended
  <2>2. session'[b] = session[b]
    BY <1>1, <1>2, <2>1
  <2> QED
    BY <2>1, <2>2 DEF WillFinish, At
<1>3. CASE s.run = r /\ (s.at = "refresh" \/ (s.at = "outcome" /\ s.seen = "running"))
  BY <1>1, <1>3 DEF WillFinish, At
<1> QED
  BY <1>2, <1>3

\* The types of a session that has gone on.
LEMMA SessionGoesOn ==
    ASSUME Types, NEW a \in Sessions, NEW s \in Session,
           session' = [session EXCEPT ![a] = s],
           s.at \in RunSteps => s.run \in Runs,
           schedule' \in ScheduleStatus, status' \in [Runs -> RunStatus],
           attempt' \in [Runs -> Int], UNCHANGED restarts
    PROVE  Types'
BY DEF Types

\* A write of the session's row changes this row only, and to the new status or not at all.
LEMMA WriteTypes ==
    ASSUME Types, NEW a \in Sessions, session[a].run \in Runs, NEW new \in RunStatus, Writes(a, new)
    PROVE  /\ status' \in [Runs -> RunStatus]
           /\ \A r \in Runs : r # session[a].run => status'[r] = status[r]
           /\ status'[session[a].run] = IF session[a].seen = new THEN status[session[a].run] ELSE new
BY DEF Types, Writes

LEMMA InsertTypes ==
    ASSUME Types, NEW r \in Runs, NEW initial \in RunStatus, NEW n \in Int, Inserts(r, initial, n)
    PROVE  /\ status' \in [Runs -> RunStatus] /\ attempt' \in [Runs -> Int]
           /\ \A x \in Runs : x # r => status'[x] = status[x]
           /\ status'[r] = initial
BY DEF Types, Inserts

LEMMA IdleType == Idle \in Session /\ Idle.at \notin RunSteps /\ Idle.at = "idle"
BY DEF Idle, Session, Steps, RunSteps, RunStatus, NoRun, NoRow

-------------------------------------------------------------------------------
(* The steps.                                                               *)

LEMMA BeginsKeeps ==
    ASSUME IInv, NEW a \in Sessions, Begins(a), UNCHANGED restarts
    PROVE  IInv'
<1>1. Types /\ NothingLeft /\ RunningIsAttended
  BY DEF IInv
<1>2. CASE \E r \in Runs : TriggerRun(a, r)
  <2>1. PICK r \in Runs : TriggerRun(a, r)
    BY <1>2
  <2>2. /\ Inserts(r, "pending", 1) /\ schedule # "deleted" /\ UNCHANGED <<schedule, registered, session>>
    BY <2>1 DEF TriggerRun
  <2>3. /\ status' \in [Runs -> RunStatus] /\ attempt' \in [Runs -> Int]
        /\ \A x \in Runs : x # r => status'[x] = status[x]
        /\ status'[r] = "pending"
    BY <1>1, <2>2, InsertTypes DEF RunStatus
  <2>4. Types'
    BY <1>1, <2>2, <2>3 DEF Types
  <2>5. RunningIsAttended'
    BY <1>1, <2>2, <2>3 DEF RunningIsAttended, WillFinish, At
  <2> QED
    BY <2>2, <2>4, <2>5 DEF IInv, NothingLeft
\* A row is loaded, the cron fires, or a change of the schedule begins.
<1>3. ASSUME NEW s \in Session, session' = [session EXCEPT ![a] = s], At(a, "idle"),
             s.at \notin {"refresh", "outcome"}, s.at \in RunSteps => s.run \in Runs,
             UNCHANGED <<schedule, status, attempt>>
      PROVE  IInv'
  <2>1. Types'
    BY <1>1, <1>3, SessionGoesOn DEF Types
  <2>2. RunningIsAttended'
    BY <1>1, <1>3, OthersAttend DEF WillFinish, At
  <2> QED
    BY <1>1, <1>3, <2>1, <2>2 DEF IInv, NothingLeft
<1>4. CASE \E r \in Runs : BeginExecute(a, r) \/ BeginOverride(a, r) \/ BeginRetry(a, r)
  <2>1. PICK r \in Runs, step \in {"mark", "completed", "failed", "clone"} : Loads(a, r, step)
    BY <1>4 DEF BeginExecute, BeginOverride, BeginRetry
  <2> DEFINE s == [at |-> step, run |-> r, seen |-> status[r]]
  <2>2. status[r] \in RunStatus
    BY <1>1 DEF Types
  <2>5. s \in Session
    BY <2>1, <2>2 DEF Session, Steps, RunSteps
  <2>3. session' = [session EXCEPT ![a] = s] /\ At(a, "idle") /\ UNCHANGED <<schedule, status, attempt>>
    BY <2>1 DEF Loads, Holds, rows
  <2>4. s.at = step /\ s.run = r
    OBVIOUS
  <2> HIDE DEF s
  <2> QED
    BY <1>3, <2>1, <2>3, <2>4, <2>5
<1>5. CASE CronFires(a)
  <2> DEFINE s == [session[a] EXCEPT !.at = "fired"]
  <2>1. s \in Session /\ s.at = "fired"
    BY <1>1 DEF Types, Session, Steps
  <2>2. session' = [session EXCEPT ![a] = s] /\ At(a, "idle") /\ UNCHANGED <<schedule, status, attempt>>
    BY <1>1, <1>5 DEF CronFires, Goes, rows, Types
  <2> HIDE DEF s
  <2> QED
    BY <1>3, <2>1, <2>2 DEF RunSteps
<1>6. CASE BeginToggle(a)
  <2>1. PICK op \in {"enabled", "disabled"} : Holds(a, op, NoRun, schedule)
    BY <1>6 DEF BeginToggle
  <2> DEFINE s == [at |-> op, run |-> NoRun, seen |-> schedule]
  <2>2. schedule \in ScheduleStatus
    BY <1>1 DEF Types
  <2>5. s \in Session
    BY <2>1, <2>2 DEF Session, Steps, RunSteps
  <2>3. session' = [session EXCEPT ![a] = s] /\ At(a, "idle") /\ UNCHANGED <<schedule, status, attempt>>
    BY <1>6, <2>1 DEF BeginToggle, Holds, rows
  <2>4. s.at = op
    OBVIOUS
  <2> HIDE DEF s
  <2> QED
    BY <1>3, <2>1, <2>3, <2>4, <2>5 DEF RunSteps
<1>7. CASE BeginDelete(a)
  <2> DEFINE s == [session[a] EXCEPT !.at = "drop"]
  <2>1. s \in Session /\ s.at = "drop"
    BY <1>1 DEF Types, Session, Steps
  <2>2. session' = [session EXCEPT ![a] = s] /\ At(a, "idle") /\ UNCHANGED <<schedule, status, attempt>>
    BY <1>1, <1>7 DEF BeginDelete, Goes, rows, Types
  <2> HIDE DEF s
  <2> QED
    BY <1>3, <2>1, <2>2 DEF RunSteps
<1> QED
  BY <1>2, <1>4, <1>5, <1>6, <1>7 DEF Begins

\* A write, or a read, of the session's own run.
LEMMA RunStepKeeps ==
    ASSUME IInv, NEW a \in Sessions, MarkRunning(a) \/ RefreshRun(a) \/ FinishRun(a) \/ Override(a),
           UNCHANGED restarts
    PROVE  IInv'
<1> DEFINE r == session[a].run
<1>1. Types /\ NothingLeft /\ RunningIsAttended
  BY DEF IInv
<1>2. session[a].at \in RunSteps /\ r \in Runs /\ status[r] # NoRow /\ UNCHANGED <<schedule, attempt>>
  <2>1. session[a].at \in RunSteps /\ status[r] # NoRow /\ UNCHANGED <<schedule, attempt>>
    BY DEF MarkRunning, RefreshRun, FinishRun, Override, At, RunSteps, Exists, rows
  <2> QED
    BY <1>1, <2>1 DEF Types
<1>3. schedule # "deleted"
  BY <1>1, <1>2 DEF NothingLeft
<1>4. NothingLeft'
  BY <1>2, <1>3 DEF NothingLeft
<1>5. session[a] \in Session
  BY <1>1 DEF Types
<1>6. CASE MarkRunning(a)
  <2> DEFINE s == [session[a] EXCEPT !.at = "refresh"]
  <2>1. At(a, "mark") /\ Writes(a, "running") /\ session' = [session EXCEPT ![a] = s]
    BY <1>1, <1>6 DEF MarkRunning, Goes, Types
  <2>2. s \in Session /\ s.at = "refresh" /\ s.run = r
    BY <1>5 DEF Session, Steps, RunSteps
  <2>3. /\ status' \in [Runs -> RunStatus]
        /\ \A x \in Runs : x # r => status'[x] = status[x]
    BY <1>1, <1>2, <2>1, WriteTypes DEF RunStatus
  <2> HIDE DEF s
  <2>4. Types'
    BY <1>1, <1>2, <2>1, <2>2, <2>3, SessionGoesOn DEF Types
  <2>5. \A x \in Runs : ~WillFinish(a, x)
    BY <2>1 DEF WillFinish, At
  <2>6. RunningIsAttended'
    BY <1>1, <2>1, <2>2, <2>3, <2>5, OthersAttend
  <2> QED
    BY <1>4, <2>4, <2>6 DEF IInv
<1>7. CASE RefreshRun(a)
  <2> DEFINE s == [at |-> "outcome", run |-> r, seen |-> status[r]]
  <2>1. At(a, "refresh") /\ status' = status /\ session' = [session EXCEPT ![a] = s]
    BY <1>7 DEF RefreshRun, Holds, rows
  <2>2. status[r] \in RunStatus
    BY <1>1, <1>2 DEF Types
  <2>3. s \in Session
    BY <1>2, <2>2 DEF Session, Steps, RunSteps
  <2>4. s.at = "outcome" /\ s.run = r /\ s.seen = status[r]
    OBVIOUS
  <2> HIDE DEF s
  <2>5. Types'
    BY <1>1, <1>2, <2>1, <2>3, <2>4, SessionGoesOn DEF Types
  <2>6. \A x \in Runs : WillFinish(a, x) => x = r
    BY DEF WillFinish
  <2>7. RunningIsAttended'
    BY <1>1, <2>1, <2>4, <2>6, OthersAttend
  <2> QED
    BY <1>4, <2>5, <2>7 DEF IInv
\* An outcome is written, or not, when the session has seen it already; then it has not
\* seen the run running.
<1>8. CASE FinishRun(a) \/ Override(a)
  <2>1. PICK new \in {"completed", "failed"} : Writes(a, new)
    BY <1>8 DEF FinishRun, Override, At
  <2>2. session' = [session EXCEPT ![a] = Idle] /\ ~At(a, "refresh")
    BY <1>8 DEF FinishRun, Override, Ends, At
  <2>3. /\ status' \in [Runs -> RunStatus]
        /\ \A x \in Runs : x # r => status'[x] = status[x]
        /\ status'[r] = IF session[a].seen = new THEN status[r] ELSE new
    BY <1>1, <1>2, <2>1, WriteTypes DEF RunStatus
  <2>4. Types'
    BY <1>1, <1>2, <2>2, <2>3, IdleType, SessionGoesOn DEF Types
  <2>5. ASSUME NEW x \in Runs, status'[x] = "running"
        PROVE  status[x] = "running" /\ ~WillFinish(a, x)
    BY <2>1, <2>2, <2>3, <2>5 DEF WillFinish, At
  <2>6. RunningIsAttended'
    BY <1>1, <2>2, <2>5, OthersAttend
  <2> QED
    BY <1>4, <2>4, <2>6 DEF IInv
<1> QED
  BY <1>6, <1>7, <1>8

\* A row is inserted for a schedule that is there; the session has it to mark, or ends.
LEMMA InsertingKeeps ==
    ASSUME IInv, NEW a \in Sessions, NEW r \in Runs, RetryRun(a, r) \/ CronTriggersRun(a, r),
           UNCHANGED restarts
    PROVE  IInv'
<1>1. Types /\ NothingLeft /\ RunningIsAttended
  BY DEF IInv
<1>2. \A x \in Runs : ~WillFinish(a, x)
  BY DEF RetryRun, CronTriggersRun, WillFinish, At
<1>3. schedule # "deleted" /\ UNCHANGED schedule
  BY DEF RetryRun, CronTriggersRun
<1>4. ASSUME NEW s \in Session, session' = [session EXCEPT ![a] = s], s.at \in RunSteps => s.run \in Runs,
             NEW initial \in {"pending", "retrying"}, NEW n \in Int, Inserts(r, initial, n)
      PROVE  IInv'
  <2>1. /\ status' \in [Runs -> RunStatus] /\ attempt' \in [Runs -> Int]
        /\ \A x \in Runs : x # r => status'[x] = status[x]
        /\ status'[r] = initial
    BY <1>1, <1>4, InsertTypes DEF RunStatus
  <2>2. Types'
    BY <1>1, <1>3, <1>4, <2>1, SessionGoesOn DEF Types
  <2>3. RunningIsAttended'
    BY <1>1, <1>2, <1>4, <2>1, OthersAttend
  <2> QED
    BY <1>3, <2>2, <2>3 DEF IInv, NothingLeft
<1>5. CASE RetryRun(a, r)
  <2>1. PICK n : n = attempt[session[a].run] /\ Inserts(r, "retrying", n + 1) /\ session' = [session EXCEPT ![a] = Idle]
    BY <1>5 DEF RetryRun, Ends
  <2>2. n \in Int
    <3>1. session[a].run \in Runs
      BY <1>1, <1>5 DEF RetryRun, Types, At, RunSteps
    <3> QED
      BY <1>1, <2>1, <3>1 DEF Types
  <2>3. n + 1 \in Int
    BY <2>2
  <2> DEFINE m == n + 1
  <2> HIDE DEF m
  <2>4. m \in Int /\ Inserts(r, "retrying", m)
    BY <2>1, <2>3 DEF m
  <2> QED
    BY <1>4, <2>1, <2>4, IdleType
<1>6. CASE CronTriggersRun(a, r)
  <2> DEFINE s == [at |-> "mark", run |-> r, seen |-> "pending"]
        n == 1
  <2>1. s \in Session /\ s.run \in Runs /\ n \in Int
    BY DEF Session, Steps, RunSteps, RunStatus
  <2>2. Inserts(r, "pending", n) /\ session' = [session EXCEPT ![a] = s]
    BY <1>6 DEF CronTriggersRun, Holds
  <2> HIDE DEF s, n
  <2> QED
    BY <1>4, <2>1, <2>2
<1> QED
  BY <1>5, <1>6

\* The session ends, or goes on with its change of the schedule or its firing; it does not
\* attend to a run that is running, and no row changes.
LEMMA OtherStepsKeep ==
    ASSUME IInv, NEW a \in Sessions, UNCHANGED restarts,
           \/ RowLost(a) \/ RetryRefused(a) \/ CronReadsSchedule(a) \/ CronFindsNoSchedule(a)
           \/ CommitToggle(a) \/ RefreshToggle(a) \/ ApplyToggle(a) \/ ToggleLost(a)
    PROVE  IInv'
<1>1. Types /\ NothingLeft /\ RunningIsAttended
  BY DEF IInv
<1>2. UNCHANGED <<status, attempt>>
  BY DEF RowLost, RetryRefused, CronReadsSchedule, CronFindsNoSchedule, CommitToggle, RefreshToggle,
     ApplyToggle, ToggleLost, rows
<1>3. \A r \in Runs : status[r] = "running" => ~WillFinish(a, r)
  BY DEF RowLost, RetryRefused, CronReadsSchedule, CronFindsNoSchedule, CommitToggle, RefreshToggle,
     ApplyToggle, ToggleLost, WillFinish, At, Exists, NoRow
<1>4. schedule' \in ScheduleStatus /\ (schedule' = "deleted" => schedule = "deleted")
  <2>1. CASE CommitToggle(a)
    BY <1>1, <2>1 DEF CommitToggle, At, Types, ScheduleStatus
  <2>2. CASE ~CommitToggle(a)
    BY <1>1, <2>2 DEF RowLost, RetryRefused, CronReadsSchedule, CronFindsNoSchedule, RefreshToggle,
     ApplyToggle, ToggleLost, Types
  <2> QED
    BY <2>1, <2>2
<1>5. ASSUME NEW s \in Session, session' = [session EXCEPT ![a] = s], s.at \notin RunSteps
      PROVE  IInv'
  <2>1. Types'
    BY <1>1, <1>2, <1>4, <1>5, SessionGoesOn DEF Types
  <2>2. RunningIsAttended'
    BY <1>1, <1>2, <1>3, <1>5, OthersAttend
  <2> QED
    BY <1>1, <1>2, <1>4, <2>1, <2>2 DEF IInv, NothingLeft
<1>6. CASE Ends(a)
  BY <1>5, <1>6, IdleType DEF Ends
<1>7. ASSUME NEW step \in {"create", "reload"}, Goes(a, step) PROVE IInv'
  <2> DEFINE s == [session[a] EXCEPT !.at = step]
  <2> session[a] \in Session
    BY <1>1 DEF Types
  <2>1. s \in Session /\ s.at = step
    BY DEF Session, Steps, RunSteps
  <2>2. session' = [session EXCEPT ![a] = s]
    BY <1>1, <1>7 DEF Goes, Types
  <2> HIDE DEF s
  <2> QED
    BY <1>5, <2>1, <2>2 DEF RunSteps
<1>8. CASE Holds(a, "apply", NoRun, schedule)
  <2> DEFINE s == [at |-> "apply", run |-> NoRun, seen |-> schedule]
  <2> schedule \in ScheduleStatus
    BY <1>1 DEF Types
  <2>1. s \in Session /\ s.at = "apply"
    BY DEF Session, Steps, RunSteps
  <2>2. session' = [session EXCEPT ![a] = s]
    BY <1>8 DEF Holds
  <2> HIDE DEF s
  <2> QED
    BY <1>5, <2>1, <2>2 DEF RunSteps
<1> QED
  BY <1>6, <1>7, <1>8 DEF RowLost, RetryRefused, CronReadsSchedule, CronFindsNoSchedule, CommitToggle,
     RefreshToggle, ApplyToggle, ToggleLost

LEMMA CommitDeleteKeeps ==
    ASSUME IInv, NEW a \in Sessions, CommitDelete(a), UNCHANGED restarts
    PROVE  IInv'
<1>1. Types
  BY DEF IInv
<1>2. /\ schedule' = "deleted" /\ status' = [r \in Runs |-> NoRow] /\ attempt' = attempt
      /\ session' = [session EXCEPT ![a] = Idle]
  BY DEF CommitDelete, Ends
<1>3. status' \in [Runs -> RunStatus] /\ \A r \in Runs : status'[r] = NoRow
  BY <1>2 DEF RunStatus
<1>4. Types'
  BY <1>1, <1>2, <1>3, IdleType, SessionGoesOn DEF Types, ScheduleStatus
<1> QED
  BY <1>3, <1>4 DEF IInv, NothingLeft, RunningIsAttended, NoRow

-------------------------------------------------------------------------------
(* The theorems.                                                            *)

LEMMA Initially == Init => IInv
  BY IdleType DEF Init, IInv, Types, NothingLeft, RunningIsAttended, RunStatus, ScheduleStatus, NoRow

LEMMA Inductive == IInv /\ [Next]_vars => IInv'
<1> SUFFICES ASSUME IInv, [Next]_vars PROVE IInv'
  OBVIOUS
<1>1. ASSUME NEW a \in Sessions, Begins(a), UNCHANGED restarts PROVE IInv'
  BY <1>1, BeginsKeeps
<1>2. ASSUME NEW a \in Sessions, Continues(a), UNCHANGED restarts PROVE IInv'
  BY <1>2, RunStepKeeps, InsertingKeeps, OtherStepsKeep, CommitDeleteKeeps DEF Continues
\* After a restart nobody promises anything.
<1>3. CASE Restart
  <2>1. restarts' = restarts + 1 /\ session' = [a \in Sessions |-> Idle] /\ UNCHANGED <<schedule, status, attempt>>
    BY <1>3 DEF Restart, rows
  <2>2. Types' /\ restarts' # 0
    BY <2>1, IdleType DEF IInv, Types
  <2> QED
    BY <2>1, <2>2 DEF IInv, NothingLeft, RunningIsAttended
<1>4. CASE UNCHANGED vars
  BY <1>4 DEF vars, IInv, Types, NothingLeft, RunningIsAttended, WillFinish, At
<1> QED
  BY <1>1, <1>2, <1>3, <1>4 DEF Next

LEMMA Always == Spec => []IInv
  BY Initially, Inductive, PTL DEF Spec

\* Until the process ends, whoever executes, completes, fails or retries a run at the
\* same time, a run that is running is in the hands of a session that will write its
\* outcome (execute_run, mark_run_running, mark_run_completed, mark_run_failed).
THEOREM RunningIsAttendedAlways == Spec => []RunningIsAttended
<1>1. IInv => RunningIsAttended
  BY DEF IInv
<1> QED
  BY <1>1, Always, PTL

\* A deleted schedule stays deleted and without runs, whatever was in flight when it was
\* deleted (delete_schedule).
THEOREM DeletedStaysDeletedAlways == Spec => DeletedStaysDeleted
<1>1. IInv /\ IInv' /\ [Next]_vars =>
         [schedule = "deleted" => schedule' = "deleted" /\ \A r \in Runs : status'[r] = NoRow]_vars
  <2> SUFFICES ASSUME IInv, IInv', Next, schedule = "deleted"
               PROVE  schedule' = "deleted" /\ \A r \in Runs : status'[r] = NoRow
    OBVIOUS
  <2>1. schedule' = "deleted"
    <3>1. ASSUME NEW a \in Sessions, Begins(a) \/ Continues(a) PROVE schedule' = "deleted"
      BY <3>1 DEF Begins, Continues, TriggerRun, BeginExecute, BeginOverride, BeginRetry, Loads, CronFires, BeginToggle,
         BeginDelete, MarkRunning, RefreshRun, FinishRun, Override, RowLost, RetryRefused, RetryRun,
         CronTriggersRun, CronReadsSchedule, CronFindsNoSchedule, CommitToggle, RefreshToggle, ApplyToggle,
         ToggleLost, CommitDelete
    <3>2. CASE Restart
      BY <3>2 DEF Restart
    <3> QED
      BY <3>1, <3>2 DEF Next
  <2> QED
    BY <2>1 DEF IInv, NothingLeft
<1> QED
  BY <1>1, Always, PTL DEF Spec, DeletedStaysDeleted
===============================================================================
