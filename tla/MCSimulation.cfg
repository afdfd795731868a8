SPECIFICATION FairSpecUnfolded
CONSTANTS
    HashP = 7
    HashA = 3
    HashB = 2
    NumShards = 3
    Minute = 1
    Workloads <- SomeWorkloads
    SyntheticLoads <- SomeSyntheticLoads
    Rosters <- SomeRosters
    FirstDelays = {0, 1}
    Period = 2
    StopDelay = 2
    EndTime = 3
    Gaps = {1, 4}
    Documents = {5}
    Durations = {0, 1, 3}
    SpinUpDelay = 3
    ReadyTime = 0
    NumWorkers = 1
    HalfOcus = 2
    Horizon = 12
INVARIANTS
    TypeOK
    EventChains
    ArrivesAsFiled
    StopCutsOnlyLongWork
    ActionsAreTakenOnce
    OneScalingAtATime
    MetricsAddUp
    RoutesInRange
PROPERTIES
    SimulationEnds
CHECK_DEADLOCK FALSE
