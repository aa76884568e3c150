CONSTANTS
    w1 = w1
    w2 = w2
    w3 = w3
    NoWriter = NoWriter
    Writers <- MCWriters
    Chunks = 2
    Platform = "linux"
SPECIFICATION Spec
INVARIANT
    FaultFreePublishes
