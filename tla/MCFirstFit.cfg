CONSTANT
    N = 5
SPECIFICATION Spec
INVARIANT
    AllocatedIsUnlinked
CHECK_DEADLOCK FALSE
