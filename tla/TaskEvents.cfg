SPECIFICATION FairSpec
CONSTANTS
    Writers = {"worker", "handler"}
    Fetches = {1, 2}
    SubCap = 1
    WireCap = 1
    MaxChanges = 4
    Unsampled = Unsampled
    NoFetch = NoFetch
INVARIANTS
    RefreshComing
PROPERTIES
    SettledIsShown
CHECK_DEADLOCK FALSE
