SPECIFICATION Spec
CONSTANTS
    b1 = b1
    b2 = b2
    f1 = f1
    f2 = f2
    none = none
    None = none
    RingSize = 12
    HdrSize = 2
    SectorSize = 1
    DevSectors = 1
    ChunkSectors = 1
    WordBits = 1
    Bios <- TwoBios
    Files <- OneFile
    NonBlock <- OneFile
    Requests <- RingRequests
    BufSizes = {4}
    Env = {"dtr", "efault"}
    MaxSubmits = 6
SYMMETRY Symmetry
INVARIANTS
    TypeOK
    IInv
    RingIntact
    CursorAtNext
    StreamFaithful
PROPERTIES
    EmptyRingAccepts
    LateEofComplete
