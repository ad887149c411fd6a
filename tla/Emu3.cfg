CONSTANTS
    Size = 3
    W = 7
    MayShutDown = {1, 2}
    MaxArrays = 12
SPECIFICATION FairSpec
INVARIANTS
    IInv
PROPERTIES
    ImplementsFifo
    EveryArrayConsumed
