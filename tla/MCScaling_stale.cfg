SPECIFICATION Spec
CONSTANTS
    Cpus = {c1, c2}
    QueueLimit = 3
    RamCapacity = 2
    Jobs = {r1, r2, r3}
    NoJob = NoJob
    MaxWorkers = 4
    InitialWorkers = 2
    ShardsPerWorker <- TwoIndices
    Targets <- SomeTargets
INVARIANTS
    NoStaleContinuation
