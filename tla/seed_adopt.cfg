SPECIFICATION Spec
CONSTANTS
    NChunks = 2
    Env = {"crash", "seedfail", "reboot", "rerun"}
    MaxWrites = 2
    MaxEvents = 2
INVARIANTS
    SeedTypeOK
    SeedCovered
    SeedPointKept
PROPERTIES
    WrittenOnce
