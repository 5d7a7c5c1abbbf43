CONSTANTS
    N = 7
    MAX_ORDER = 4
    PAGES = 8
    Firsts = {0, 1, 3}
    NONE = NONE
    PAGE_UNITS = 5
    NPAGES = 3
    BIGBLOCK_UNITS = 2
    Proc = {p1, p2, p3}
    Va = {text, data}
    Writable = {data}
    Frame = {g1, g2, g3, g4}
    Value = {0, 1}
    MAX_REF = 5
    PGSIZE = 3
    WORD = 2
    USERBASE = 3
    USTACKTOP = 24
    USTACKSIZE = 9
    STACK_PAGES = 2
    Program <- MCProgram
    Kargv <- MCKargv
SYMMETRY Symmetry
SPECIFICATION Spec
INVARIANTS
    ListsExact
    ProgramLoaded
PROPERTIES
    ImplementsPool
    ImplementsPrivateMemory
CHECK_DEADLOCK FALSE
