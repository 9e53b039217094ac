SPECIFICATION Spec
CONSTANTS
    MaxVersion = 5
    MaxDamage = 2
    MaxFailures = 2
    None = None
    Torn = Torn
    Mistyped = Mistyped
    Foreign = Foreign
INVARIANTS
    AckedSurvives
    DamageCostsOneChange
PROPERTIES
    TaskIsFound
CHECK_DEADLOCK FALSE
