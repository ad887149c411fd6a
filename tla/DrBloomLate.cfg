CONSTANTS
    Soldiers = {s1, s2, s3}
    MayBeKilled = {}
    OpenMayFail = FALSE
    TimerOnHolderCpu = FALSE
SPECIFICATION Spec
INVARIANTS
    EveryChildKilled
