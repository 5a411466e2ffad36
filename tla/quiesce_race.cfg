SPECIFICATION RSpec
CONSTANTS
    Procs = {r1}
    NBlocks = 2
    CopyBlocks = 1
    RingCap = 2
    ReadMax = 2
    BaseDone = TRUE
    RootBlocks = {1, 2}
    Env = {}
    MaxWrites = 2
    MaxRebuilds = 1
    MaxEvents = 0
INVARIANTS
    QuiescedCopy
