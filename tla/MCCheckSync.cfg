CONSTANTS
    N = 4
    TIMES = 2
    Proc <- MCProc
    Cv <- MCCv
    Self <- MCSelf
    mutex <- MCMutex
    next <- MCNextSem
    NULL = NULL
    Sem <- MCSem
    InitialValue <- MCInitialValue
SPECIFICATION SyncSpec
INVARIANTS
    ForksHeldOnce
    HungryHasEatingNeighbour
    SignalsExact
PROPERTY
    EverybodyQuits
CHECK_DEADLOCK FALSE
