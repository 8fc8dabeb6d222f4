SPECIFICATION Spec
CONSTANTS
    Jobs = {j1, j2}
    STOP_TOKEN = STOP_TOKEN
    NoJob = NoJob
    WorkerCount = 2
    MaxStarts = 2
    MaxRetries = 1
    CancellableJobs = {j1, j2}
    StopModes <- AnyStop
    SwallowingJobs = {j1}
INVARIANTS TypeOK OneRunnerPerJob RetryIsAwaited JoinCountsWork WorkIsAccounted
PROPERTIES NoAttemptAfterCancel LifecyclePromise
CHECK_DEADLOCK FALSE
