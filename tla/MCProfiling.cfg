SPECIFICATION Spec
CONSTANTS
    Cpus = {c1}
    Jobs = {j1, j2}
    NoJob = NoJob
    QueueLimit = 2
    RamCapacity = 3
    Sizes = {1, 2}
    Durations = {1, 2}
    Births = {0, 1}
    Whole = 10
    BlueGreenUtil = 7
    Horizon = 3
SYMMETRY Symmetry
INVARIANTS
    TypeOK
    RamReportIsTrue
    CpuReportIsTrue
    ReportsFitWindow
CHECK_DEADLOCK FALSE
