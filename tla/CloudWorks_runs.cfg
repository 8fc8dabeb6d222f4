SPECIFICATION FairSpec
CONSTANTS
    Runs = {r1, r2}
    Sessions = {s1, s2}
    MaxRetries = 2
    Operations <- AllOperations
    MaxRestarts = 1
INVARIANTS RunningIsAttended
PROPERTIES DeletedStaysDeleted RunsEnd
CHECK_DEADLOCK FALSE
