\* Sessions on a fresh file, six claims across two file growths, and
\* restarts: Start re-reads the header from page 0.
CONSTANTS
    MaxPages = 6
    GrowBy = 3
SPECIFICATION Spec
INVARIANTS
    TypeOK
    ClaimedWithinFile
PROPERTIES
    ClaimsFreshInSession
CONSTRAINT TotalBound
