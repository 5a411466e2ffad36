SPECIFICATION IoSpec
CONSTANTS
    b1 = b1
    b2 = b2
    f1 = f1
    f2 = f2
    none = none
    None = none
    RingSize = 8
    HdrSize = 2
    SectorSize = 1
    DevSectors = 3
    ChunkSectors = 2
    WordBits = 1
    Bios <- TwoBios
    Files <- NoFiles
    NonBlock <- NoFiles
    Requests <- BitmapRequests
    BufSizes = {3}
    Env = {"clear"}
    MaxSubmits = 5
INVARIANTS
    BitmapCoversDrops
PROPERTIES
    IoNeverBlocks
