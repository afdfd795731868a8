SPECIFICATION QueueFairSpec
CONSTANTS
    Cpus = {c1, c2}
    Jobs = {j1, j2, j3, j4, j5}
    NoJob = NoJob
    QueueLimit = 4
    RamCapacity = 4
    Sizes = {1}
INVARIANTS
    TypeOK
    PoolConsistent
    Accounting
    PendingIsPlaced
    RingHoldsLine
PROPERTIES
    AcceptedIsServed
    WaitQueueIsFifo
    CallsEnd
    ServerFairSpec
