CONSTANTS
    N = 2
    MaxBurst = 1
    Items = {0}
    SchedCap = 2
    MaxFileLen = 3
    SchedFiles <- MCSchedFiles
    MayShutDown = {"1", "2"}
SPECIFICATION FairSpec
INVARIANTS
    WholeFileScheduled
