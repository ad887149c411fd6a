CONSTANTS
    Programs <- MCPrograms
    MemSize = 4
    HostBase = 6
    W = 8
SPECIFICATION Spec
INVARIANTS
    ExitsAreCounted
