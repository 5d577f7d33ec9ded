SPECIFICATION LiveSpec
CONSTANTS
    Steps = {a, b, c, p, z}
    a = a
    b = b
    c = c
    p = p
    z = z
    Deps <- Diamond
    Pivots = {p}
    MaxRetries = 3
CHECK_DEADLOCK FALSE
INVARIANTS
    TypeOK
    PivotIsFinal
    RunsAfterDependencies
    DependentsFirst
PROPERTY Ends
