SPECIFICATION FairSpecUnfolded
CONSTANTS
    w1 = w1
    w2 = w2
    Workers = {w1, w2}
    Cpus = {c1}
    QueueLimit = 2
    RamCapacity = 3
    Requests = {r1, r2}
    Jobs <- Tasks
    NoJob = NoJob
    ShardWorkers <- Replicated
    Kinds = {"GET", "PUT", "SEARCH"}
    Sizes = {1, 2}
INVARIANTS
    TypeOK
    BranchesArePlaced
    LiveIffAwaited
    IndexLogsOutcome
    WorkerTalliesBalance
    PrimaryFirst
PROPERTIES
    EveryRequestEnds
CHECK_DEADLOCK FALSE
