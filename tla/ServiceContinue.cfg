SPECIFICATION Spec
CONSTANTS
    t1 = t1  t2 = t2  w1 = w1  w2 = w2  s1 = s1  s2 = s2  c1 = c1
    Tasks = {t1, t2}
    Workers = {w1, w2}
    Senders = {s1, s2}
    Closers = {}
    QueueCap = 1
    Rounds = 1
    Timeouts = TRUE
    Shutdowns = FALSE
    Faults = {"exec", "run"}
    MaxRestarts = 0
    NoTask = NoTask
    NoMessage = NoMessage
    NoWorker = NoWorker
INVARIANTS
    OneRunPerTask
    RefusedMessageNotRun
    AcceptedMessageHeld
PROPERTIES
    RefinesLifecycle
SYMMETRY Sym
CHECK_DEADLOCK FALSE
