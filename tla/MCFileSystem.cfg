CONSTANTS
    Procs = {"p", "q"}
    Names = {"a", "b"}
    LongNames = {"b"}
    Executable <- MCExecutable
    SectorCount = 12
    BLOCK_SECTOR_SIZE = 2
    DIRECT_INDEX_NUM = 1
    INDIRECT_INDEX_SECTOR_NUM = 1
    OFF_MAX = 9
    Sizes = {0, 3}
    Positions <- MCPositions
    DIR_ENTRY_SIZE = 2
    ROOT_ENTRIES = 0
    MaxCreates = 2
    MaxFd = 1
    Fds <- MCFds
    MaxMishaps = 1
SPECIFICATION Spec
CONSTRAINT MCAfterHalt
INVARIANTS
    SectorsOwnedOnce
    NoOtherLeaks
    CountsMatch
    DirectoryMatchesInodes
    BookkeepingAsserts
PROPERTIES
    OnlyEmptyWritesShorten
\* A panic, and a device that is full, stop the model.
CHECK_DEADLOCK FALSE
