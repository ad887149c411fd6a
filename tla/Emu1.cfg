CONSTANTS
    W = 3
    MayShutDown = {1, 2}
    MaxValues = 10
SPECIFICATION FairSpec
INVARIANTS
    IInv
PROPERTIES
    ImplementsFifo
    EveryNumberConsumed
