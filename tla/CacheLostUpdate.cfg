\* Is every acknowledged leaf write readable after evictions?
CONSTANTS
    Roots <- MCRoots
    Leaves <- MCLeaves
    Fresh <- MCFresh
    Rows <- MCRows
    CACHE_SIZE = 5
    CACHE_MIN = 1
    MAX_DELETE = 0
    SWEEP_INTERVAL = 2
    MaxVer = 2
SPECIFICATION Spec
INVARIANT NoLostUpdate
