\* After a restart, does ClaimFreePage still hand out fresh ids only?
CONSTANTS
    MaxPages = 6
    GrowBy = 3
SPECIFICATION Spec
PROPERTY ClaimsFresh
CONSTRAINT TotalBound
