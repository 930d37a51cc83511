CONSTANTS
    Procs = {"p", "q"}
    Names = {"a", "b"}
    LongNames = {"b"}
    Executable <- MCExecutable
    SectorCount = 11
    BLOCK_SECTOR_SIZE = 2
    DIRECT_INDEX_NUM = 1
    INDIRECT_INDEX_SECTOR_NUM = 1
    OFF_MAX = 9
    Sizes = {2}
    Positions = {3}
    DIR_ENTRY_SIZE = 2
    ROOT_ENTRIES = 0
    MaxCreates = 1
    MaxFd = 2
    Fds = {2}
    MaxMishaps = 0
SPECIFICATION Spec
PROPERTIES
    SecondCloseIsHarmless
\* A panic, and a device that is full, stop the model.
CHECK_DEADLOCK FALSE
