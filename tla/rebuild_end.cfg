SPECIFICATION RFairSpec
CONSTANTS
    Procs = {r1, r2}
    NBlocks = 1
    CopyBlocks = 1
    RingCap = 0
    ReadMax = 1
    BaseDone = FALSE
    RootBlocks = {1}
    Env = {"stop", "crash"}
    MaxWrites = 1
    MaxRebuilds = 2
    MaxEvents = 1
PROPERTIES
    EndsClean
    ImplementsDaemon
    DeadShownStale
