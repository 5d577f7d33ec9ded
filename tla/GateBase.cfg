SPECIFICATION LiveSpec
CONSTANTS
    Calls = {c1, c2}
    ApiCalls = {c2}
    Adapters = {o1, o2}
    Terminals = {t1}
    Reloads = TRUE
    MaxCrashes = 1
CHECK_DEADLOCK FALSE
INVARIANTS
    TypeOK
    ApprovedMeansRan
    RunsOnlyByDecision
PROPERTY GateEnds
