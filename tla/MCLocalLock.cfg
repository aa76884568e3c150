SPECIFICATION Spec
CONSTANTS
    p1 = p1
    p2 = p2
    p3 = p3
    Procs = {p1, p2, p3}
    Timeout <- MCTimeout
    Sleep = 2
INVARIANTS
    Exclusion
    MissingOnlyInRace
    WakesInTime
PROPERTIES
    WaitEnds
