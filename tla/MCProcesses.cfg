CONSTANTS
    MaxTid = 3
    MaxThreads = 3
    Codes <- MCCodes
    None = None
SPECIFICATION FairSpec
INVARIANTS
    ExecReportsLoad
    ParentAwaitsLoad
    NoStaleLoadSignal
    WaitMeansGone
PROPERTIES
    WaitStatusExplained
    ExecEnds
    MarkedWaitEnds
\* Programs may stop making calls, and a machine may be left with nothing to do.
CHECK_DEADLOCK FALSE
