CONSTANTS
    Soldiers = {s1, s2, s3}
    MayBeKilled = {}
    OpenMayFail = FALSE
    TimerOnHolderCpu = TRUE
SPECIFICATION FairSpec
PROPERTIES
    StationKilled
