CONSTANTS
    Soldiers = {s1, s2, s3}
    Unborn = {s3}
    MayDie = {s1}
    Testers = {"t1", "t2"}
    Others = {"o"}
    Va <- MCVa
    OtherVas = {5}
    W = 16
    PageOffset = 11
    Cuts = {1, 4}
    Readers = {r1, r2}
    Pages <- MCPages
    PmdPages = 2
    Space <- MCSpace
    Present <- MCPresent
    Pids = {1, 2}
    PidInputs = {1, 2, 3}
    UnitSize <- MCUnitSize
    PageSize = 2
    MaxShows = 2
    Cpus = 2
    FirstFaults <- MCFirstFaults
    Counts = {3}
    MaxFaults = 10
    Modules = {"ioctl_driver", "get_memstats", "get_pgfaults", "chardev"}
    Users = {u1, u2}
SPECIFICATION MCSpec
INVARIANTS
    TypeOK
    ListsSound
    LoneTesterUpdates
    AnswersAreTranslations
    AloneExact
    LonePieceTrue
    LifeSound
PROPERTIES
    ReadsEnd
