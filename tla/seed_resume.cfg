SPECIFICATION Spec
CONSTANTS
    NChunks = 2
    Env = {"reboot"}
    MaxWrites = 2
    MaxEvents = 1
INVARIANTS
    SeededThisBoot
