SPECIFICATION Spec
CONSTANTS
    NBlocks = 1
    CopyBlocks = 1
    RingCap = 3
    ReadMax = 2
    BaseDone = FALSE
    RootBlocks = {1}
    Env = {}
    MaxWrites = 2
    MaxRebuilds = 0
    MaxEvents = 0
INVARIANTS
    NoOrderingRace
