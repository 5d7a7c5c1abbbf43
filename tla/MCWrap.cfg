CONSTANTS
    MAX_PROCESS = 6
    MAX_PID = 7
    Proc = {init, u1, u2}
    initproc = init
    idleproc = idleproc
    NULL = NULL
    W = 8
    Priority = {0, 3}
SPECIFICATION WrapSpec
INVARIANTS
    PidUnique
    LeastFirst
PROPERTIES
    WalkEnds
    SpreadKept
    NobodyStarves
CHECK_DEADLOCK FALSE
