SPECIFICATION Spec
CONSTANTS
    Tasks = {t1, t2}
    Workers = {w1}
    QueueCap = 1
    Switchers = {s1, s2}
    Environments <- MCEnvironments
    Hosts <- MCHosts
    MaxRestarts = 1
    MaxMishaps = 1
    Mib = 4
    Automatic = Automatic
    NoInfo = NoInfo
    NoFormat = NoFormat
    NoTask = NoTask
    NotLaunched = NotLaunched
INVARIANTS
    RefusedNeverRuns
    RunHasProvider
    SelectionSurvives
    LimitsLeaveRoom
SYMMETRY Symmetry
CHECK_DEADLOCK FALSE
