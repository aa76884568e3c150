SPECIFICATION Spec
CONSTANTS
    l1 = l1
    l2 = l2
    NoLock = NoLock
    Locks <- MCLocks
    Programs <- MCNested
    MaxBranches = 2
    MaxFailures = 2
INVARIANT StopEndsPath
