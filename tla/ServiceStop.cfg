SPECIFICATION Spec
CONSTANTS
    t1 = t1  t2 = t2  w1 = w1  w2 = w2  s1 = s1  s2 = s2  c1 = c1
    Tasks = {t1}
    Workers = {w1, w2}
    Senders = {s1, s2}
    Closers = {c1}
    QueueCap = 2
    Rounds = 1
    Timeouts = TRUE
    Shutdowns = FALSE
    Faults = {"rm"}
    MaxRestarts = 0
    NoTask = NoTask
    NoMessage = NoMessage
    NoWorker = NoWorker
INVARIANTS
    TypeOK
    NoLeakedReservation
    RunningTaskOwned
    RegistryLive
SYMMETRY Sym
CHECK_DEADLOCK FALSE
