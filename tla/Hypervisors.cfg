CONSTANTS
    Programs <- MCPrograms
    MemSize = 4
    HostBase = 6
    W = 8
SPECIFICATION MCSpec
INVARIANTS
    TypeOK
    CallsAreCounted
    GuestFitsCpu
    ThreadsSound
PROPERTIES
    ImplementsHypercalls
    EndsAfterBoth
