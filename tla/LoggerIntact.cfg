\* An acknowledged log record is lost from its page buffer.
CONSTANTS
    BodyLen = 4
    PageSize = 5
    TrxSize = 2
    Threshold = 6
    Trxs = {1}
    VsChoices <- MCVsChoices
    MaxRecs = 4
    MaxLsn = 4
    FirstPage = 1
    IOFaults = FALSE
SPECIFICATION Spec
INVARIANT LogIntact
CHECK_DEADLOCK FALSE
