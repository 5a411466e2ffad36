SPECIFICATION Spec
CONSTANTS
    NBlocks = 3
    CopyBlocks = 2
    RingCap = 4
    ReadMax = 2
    BaseDone = FALSE
    RootBlocks = {1, 2}
    Env = {"stop", "badwrite", "point"}
    MaxWrites = 3
    MaxRebuilds = 1
    MaxEvents = 1
INVARIANTS
    DaemonTypeOK
    ReplicaCurrent
    
    NoRecordLost
