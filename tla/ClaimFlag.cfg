SPECIFICATION Spec
CONSTANTS
    Flags = {"f1", "f2"}
    Blocks <- MCBlocks
    MaxBlocks = 3
    MaxRounds = 2
    FinalCap = 4
    Timeouts = {"run", "idle"}
INVARIANTS
    NoFlagInvented
CHECK_DEADLOCK FALSE
