SPECIFICATION RSpec
CONSTANTS
    Procs = {r1}
    NBlocks = 2
    CopyBlocks = 1
    RingCap = 1
    ReadMax = 2
    BaseDone = TRUE
    RootBlocks = {1}
    Env = {"point"}
    MaxWrites = 3
    MaxRebuilds = 1
    MaxEvents = 0
INVARIANTS
    CopyOfOneMoment
    
    ReplicaCurrent
    NoRecordLost
