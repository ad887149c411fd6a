CONSTANTS
    Soldiers = {s1, s2, s3}
    MayBeKilled = {s1, s2}
    OpenMayFail = TRUE
    TimerOnHolderCpu = TRUE
SPECIFICATION FairSpec
INVARIANTS
    IInv
PROPERTIES
    WholeListSignalled
    AttachedSoldierReaped
    StationEnds
