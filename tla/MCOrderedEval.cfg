SPECIFICATION Spec
CONSTANTS
    l1 = l1
    l2 = l2
    NoLock = NoLock
    Locks <- MCLocks
    Programs <- MCPrograms
    MaxBranches = 2
    MaxFailures = 2
INVARIANT TypeOK
INVARIANT StatusIsEarned
INVARIANT StopEndsPath
INVARIANT OriginalIsolated
INVARIANT CountsAllDeliveries
INVARIANT ChainCoherent
INVARIANT ElseExclusive
 
PROPERTY Termination
