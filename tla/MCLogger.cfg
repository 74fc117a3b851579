\* The log writer with the dispatcher, the TruncateLogs goroutines and a
\* failing ClaimFreePage.  The dispatcher may stop sending and a panic ends
\* the process, so terminal states are expected.
CONSTANTS
    BodyLen = 4
    PageSize = 5
    TrxSize = 2
    Threshold = 6
    Trxs = {1}
    VsChoices <- MCVsChoices
    MaxRecs = 4
    MaxLsn = 4
    FirstPage = 1
    IOFaults = TRUE
SPECIFICATION Spec
INVARIANT TypeOK LogOrdered
PROPERTY WriterAnswers
CHECK_DEADLOCK FALSE
