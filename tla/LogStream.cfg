SPECIFICATION Spec
CONSTANTS
    c1 = c1
    stdout = stdout  stderr = stderr
    Clients = {c1}
    Pipes = {stdout, stderr}
    Runner = Runner
    MaxBytes = 2
    Backups = 2
    SubCap = 1
    PipeCap = 1
    MaxLines = 4
    Sizes <- MCSizes
    MaxMishaps = 1
INVARIANTS
    TypeOK
    StoredIsTail
    OnlyOldestDropped
    FilesBounded
    ReadInOrder
    ReadIsWhole
    LiveIsLogged
    NeverHeldUp
SYMMETRY Sym
CHECK_DEADLOCK FALSE
