SPECIFICATION Spec
CONSTANTS
    s1 = s1
    s2 = s2
    n1 = n1
    n2 = n2
    Absent = Absent
    Sinks <- MCSinks
    Names <- MCNames
    Platforms <- MCPlatforms
    Chunks = 2
    MaxAttempts = 2
INVARIANT VisibleIsComplete
INVARIANT FullIsDurable
INVARIANT TmpReleased
PROPERTY PublishedOnceWithoutReplacing
PROPERTY SinkContract
