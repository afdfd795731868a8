SPECIFICATION FairSpec
CONSTANTS
    Cpus = {c1, c2}
    QueueLimit = 2
    RamCapacity = 2
    Jobs = {r1}
    NoJob = NoJob
    MaxWorkers = 5
    InitialWorkers = 2
    ShardsPerWorker <- TwoIndices
    Targets <- SomeTargets
INVARIANTS
    TypeOK
    RoutesAreReady
    FleetMatchesConfig
    SharesAreEven
PROPERTIES
    ScalingEnds
