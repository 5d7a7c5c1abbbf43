CONSTANTS
    Proc = {p1, p2, p3}
    NULL = NULL
    STDIN_BUFSIZE = 2
    MAX_LEN = 2
    MAX_KEYS = 5
SPECIFICATION FairSpec
INVARIANTS
    NothingLostInOrder
    SleepersExact
PROPERTY
    InputIsRead
CHECK_DEADLOCK FALSE
