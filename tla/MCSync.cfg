CONSTANTS
    p1 = p1
    p2 = p2
    p3 = p3
    s1 = s1
    s2 = s2
    Proc = {p1, p2, p3}
    Sem = {s1, s2}
    InitialValue <- MCInitialValue
    NULL = NULL
    MAX_VALUE = 2
    mutex = mutex
    next = next
    Cv = {c1, c2}
SPECIFICATION SyncSpec
INVARIANTS
    UnitsConserved
    WaitersExact
    OneActive
    CountsExact
PROPERTIES
    ImplementsFifo
    ImplementsHoare
    DownReturnsIfUps
CHECK_DEADLOCK FALSE
