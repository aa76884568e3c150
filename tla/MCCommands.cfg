SPECIFICATION Spec
CONSTANTS
    Cmds = {1, 2, 3}
    InputBlocks = 2
    OutputLimit = 1
    Timeout = 1
    MaxFaults = 1
    Daemonic = {1}
    MaxBackground = 2
    Scripts <- MCScripts
INVARIANTS
    GroupIsGone
    NoPartialOutput
    Supervised
PROPERTIES
    CommandEnds
