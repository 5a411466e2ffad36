SPECIFICATION FairSpec
CONSTANTS
    NBlocks = 2
    CopyBlocks = 1
    RingCap = 1
    ReadMax = 1
    BaseDone = FALSE
    RootBlocks = {1}
    Env = {"crash", "stop", "ioerror", "point"}
    MaxWrites = 3
    MaxRebuilds = 1
    MaxEvents = 1
INVARIANTS
    BaseEndMeansCopied
    NothingForgotten
    CdpMeansRepaired
PROPERTIES
    BecomesIdle
