CONSTANTS
    Threads = {t1, t2}
    Sectors = {0, 1, 2}
    Values = {0, 1}
    Zeros = 0
    Size = 2
    NoThread = NoThread
    Requests <- MCRequests
SPECIFICATION FairSpec
INVARIANTS
    TypeOK
    OneEntryPerSector
    CleanMatchesDisk
    CloseFlushesEverything
PROPERTIES
    StoreSpec
    LockIsReleased
\* The machine really stops when the power goes off.
CHECK_DEADLOCK FALSE
