SPECIFICATION Spec
CONSTANTS
    NBlocks = 2
    CopyBlocks = 1
    RingCap = 1
    ReadMax = 1
    BaseDone = TRUE
    RootBlocks = {1, 2}
    Env = {"stop"}
    MaxWrites = 5
    MaxRebuilds = 0
    MaxEvents = 1
INVARIANTS
    InterruptedRedone
