SPECIFICATION Spec
CONSTANTS
    w1 = w1
    w2 = w2
    Workers = {w1, w2}
    Cpus = {c1}
    QueueLimit = 3
    RamCapacity = 4
    Requests = {r1, r2}
    Jobs <- Tasks
    NoJob = NoJob
    ShardWorkers <- Distributed
    Kinds = {"GET", "SEARCH"}
    Sizes = {1}
SYMMETRY Symmetry
INVARIANTS
    CollationLast
CHECK_DEADLOCK FALSE
