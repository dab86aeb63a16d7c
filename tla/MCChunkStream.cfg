SPECIFICATION Spec
CONSTANTS
    Formats <- MCFormats
    CountMod = 3
    MaxChunks = 3
    Loads <- MCLoads
INVARIANTS TypeOK InStep
CHECK_DEADLOCK FALSE
