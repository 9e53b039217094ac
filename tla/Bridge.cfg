SPECIFICATION FairSpec
CONSTANTS
    Flags = {"f1", "f2"}
    Blocks <- MCBlocks
    MaxBlocks = 3
    MaxRounds = 2
    FinalCap = 4
    Timeouts = {"run", "idle"}
INVARIANTS
    NoProcessLeft
    TextIsShown
    SolvedIsStored
PROPERTIES
    RoundEnds
CHECK_DEADLOCK FALSE
