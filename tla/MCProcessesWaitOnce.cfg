CONSTANTS
    MaxTid = 3
    MaxThreads = 3
    Codes <- MCCodes
    None = None
SPECIFICATION FairSpec
INVARIANT WaitOnce
\* Programs may stop making calls.
CHECK_DEADLOCK FALSE
