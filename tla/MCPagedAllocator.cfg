CONSTANTS
    PageSize = 4
    DefaultMem = 16
    MemSizes = {10}
    Sizes = {3, 4, 8}
    MaxPid = 4
SPECIFICATION Spec
PROPERTY KillReleasesPages
CHECK_DEADLOCK FALSE
