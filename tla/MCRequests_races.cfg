SPECIFICATION ReqSpec
CONSTANTS
    TotalChunks = 3
    Requests = {r1, r2}
    WfClients = {w1, w2}
    WfStages = {g1, g2}
    WfTasks = {t1, t2}
    MaxWfRequests = 5
    BtClients = {k1, k2}
    Operations = {"o1", "o2"}
    MaxBtRequests = 3
    Rows <- MCRows
    ChunkSize = 2
    Mapping <- MCMapping
    Cancellers = {x1}
    a1 = a1
    a2 = a2
    b1 = b1
    Sockets = {a1, a2, b1}
    UserOf <- MCUserOf
    MaxPresenceEvents = 2
    Nodes = {"n1", "n2"}
    ScClients = {c1, c2}
    EventCap = 1
    MaxScRequests = 3
    MaxFaults = 1
    MaxExpiries = 1
    CcClients = {c1, c2}
    Chain <- MCChain
    Computed <- MCComputed
    MaxCcRequests = 4
INVARIANTS CompleteHasAllChunks WorkflowsAgree BulkWorkAddsUp PresenceFollowsSockets NodesAgree ServesWhatWasSet
CHECK_DEADLOCK FALSE
