\* The cache under index gets, writes, splits and row reads of two indexes.
CONSTANTS
    Roots <- MCRoots
    Leaves <- MCLeaves
    Fresh <- MCFresh
    Rows <- MCRows
    CACHE_SIZE = 5
    CACHE_MIN = 1
    MAX_DELETE = 0
    SWEEP_INTERVAL = 2
    MaxVer = 2
SPECIFICATION Spec
INVARIANTS
    TypeOK
    CacheListConsistent
    DirtyWritesKept
    NoPoolWait
