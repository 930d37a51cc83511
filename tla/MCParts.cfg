CONSTANTS
    DefaultMem = 7
    MemSizes = {0, 4}
    Sizes = {1, 2, 3}
    MaxPid = 7
    Pages = 5
    MaxRequests = 8
    Frames = {2, 3, 4}
    Tracks = 5
    MaxTracks = 4
    Printers = {p1, p2}
    Bytes = {0, 1}
    INTQ_BUFSIZE = 3
    MaxBytes = 6
    NoThread = NoThread
    Readers = {r1, r2, r3}
    Writers = {w1, w2}
    Nobody = Nobody
    Pids = {1, 2, 3}
    Kinds = {"disk", "tape"}
    resource <- MCresource
SPECIFICATION MCSpec
INVARIANTS
    MemoryTiled
    AtMostOneSeam
    ReplacementCorrect
    ArmCorrect
    BytesInOrder
    WaiterWillBeWoken
    WritersAlone
    BooksBalance
    AlwaysSafe
    CheckIsExact
\* An algorithm ends with its output, and so does main; a program may crash.
CHECK_DEADLOCK FALSE
