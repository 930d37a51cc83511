CONSTANTS
    MaxTid = 3
    MaxThreads = 3
    Codes <- MCCodes
    None = None
SPECIFICATION FairSpec
INVARIANT KilledGivesMinusOne
\* Programs may stop making calls.
CHECK_DEADLOCK FALSE
