CONSTANTS
    Threads = {main, t1, t2}
    Main = main
    Locks = {a, b}
    Priorities <- MCPriorities
    Default = 1
    NewPriorities <- MCNewPriorities
    MaxDisturbances = 1
    NoThread = NoThread
    NoLock = NoLock
SYMMETRY Symmetry
SPECIFICATION Spec
INVARIANT AcquireIsSafe
\* Every thread may exit, and clients may deadlock on their locks.
CHECK_DEADLOCK FALSE
