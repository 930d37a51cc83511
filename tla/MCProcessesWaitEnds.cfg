CONSTANTS
    MaxTid = 3
    MaxThreads = 3
    Codes <- MCCodes
    None = None
SPECIFICATION FairSpec
PROPERTY WaitEnds
\* Programs may stop making calls.
CHECK_DEADLOCK FALSE
