CONSTANTS
    Proc = {idle, init, u1, u2}
    idleproc = idle
    initproc = init
    NULL = NULL
    Killable = {u1, u2}
    MAX_TIME_SLICE = 2
    MAX_SLEEP = 2
SPECIFICATION FairSpec
PROPERTIES
    RunnableRuns
    SleepersWake
    KilledDiesOrWaits
    InitKeepsReaping
    WaitReturns
