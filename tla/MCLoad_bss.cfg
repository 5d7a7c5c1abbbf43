CONSTANTS
    PGSIZE = 3
    WORD = 2
    USERBASE = 3
    USTACKTOP = 24
    USTACKSIZE = 9
    STACK_PAGES = 2
    Program <- MCProgram
    Kargv <- MCKargv
SPECIFICATION Spec
INVARIANT
    BssEndsInPlace
CHECK_DEADLOCK FALSE
