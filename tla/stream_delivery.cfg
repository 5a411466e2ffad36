SPECIFICATION FairSpec
CONSTANTS
    b1 = b1
    b2 = b2
    f1 = f1
    f2 = f2
    none = none
    None = none
    RingSize = 12
    HdrSize = 2
    SectorSize = 1
    DevSectors = 2
    ChunkSectors = 1
    WordBits = 1
    Bios <- TwoBios
    Files <- TwoFiles
    NonBlock <- NoFiles
    Requests <- StreamRequests
    BufSizes = {3}
    Env = {"dtr", "signal", "ioerror"}
    MaxSubmits = 3
PROPERTIES
    ImplementsStream
