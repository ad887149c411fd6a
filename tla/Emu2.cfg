CONSTANTS
    W = 4
    MayShutDown = {1, 2}
    Burst = 3
    MaxRounds = 3
SPECIFICATION FairSpec
INVARIANTS
    IInv
    BurstConsumed
PROPERTIES
    ImplementsFifo
    EveryNumberConsumed
