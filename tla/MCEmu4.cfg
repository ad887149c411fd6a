CONSTANTS
    N = 3
    MaxBurst = 2
    Items = {0, 1}
    SchedCap = 5
    MaxFileLen = 5
    SchedFiles <- MCSchedFiles
    MayShutDown = {"1", "2"}
SPECIFICATION FairSpec
INVARIANTS
    QueueShown
    PrintedAsDrawn
    Synchronized
    UnreadCellsKept
    TurnsAligned
    IInv
PROPERTIES
    ImplementsFifo
    ScheduleEnds
