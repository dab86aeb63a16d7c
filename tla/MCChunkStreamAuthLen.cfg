SPECIFICATION Spec
CONSTANTS
    Formats <- MCFormats
    CountMod = 3
    MaxChunks = 3
    Loads <- MCLoads
INVARIANT AnswersOpen
CHECK_DEADLOCK FALSE
