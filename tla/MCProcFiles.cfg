CONSTANTS
    Proc = {idle, init, u1, u2, u3}
    idleproc = idle
    initproc = init
    NULL = NULL
    Killable = {init, u1, u2, u3}
    MAX_TIME_SLICE = 1
    MAX_SLEEP = 2
    f1 = f1
    f2 = f2
    FileProc = {init, f1, f2}
    hello = hello
    Regular = {hello}
    stdin = stdin
    Device = {stdin}
    root = root
    NENTRY = 3
    Requests <- MCRequests
    MAX_LOST = 1
SYMMETRY Symmetry
SPECIFICATION BothSpec
INVARIANTS
    RunQueueExact
    WaitStateExact
    NoLostChildWakeup
    FamilyTree
    TimersOwned
    InitLeavesLast
    InodeCountsExact
    SlotsExact
