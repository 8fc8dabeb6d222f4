SPECIFICATION FairSpec
CONSTANTS
    Jobs = {j1, j2}
    STOP_TOKEN = STOP_TOKEN
    NoJob = NoJob
    WorkerCount = 2
    MaxStarts = 1
    MaxRetries = 2
    CancellableJobs = {j1}
    StopModes <- AnyStop
    SwallowingJobs = {j1, j2}
PROPERTIES WorkEnds
CHECK_DEADLOCK FALSE
