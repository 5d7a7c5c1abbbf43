CONSTANTS
    File = {f1, f2}
    Desc = {d1, d2}
    NULL = NULL
    Block = {1, 2, 3}
    SFS_NDIRECT = 1
    SFS_BLK_NENTRY = 2
    SFS_BLKSIZE = 2
    SFS_MAX_FILE_SIZE = 5
    OpenFlags <- MCFlags
    MAX_LEN = 2
SYMMETRY Symmetry
SPECIFICATION Spec
INVARIANTS
    BlocksExact
    NoHoles
    RequestCovered
PROPERTY
    ClosedIsStored
