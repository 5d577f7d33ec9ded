SPECIFICATION Spec
CONSTANTS
    Calls = {c1, c2}
    Bare = {}
    Procs = {p1, p2}
    MaxStarts = 2
    LateCommit = FALSE
    MayChild = TRUE
    Overlaps = TRUE
    Searches = {s1, s2}
    UserEdits = {e1}
    UserFiles = {f1}
    MaxIter = 1
    Branching = 1
    SearchesMeet = FALSE
    WorksOn = FALSE
    Detached = TRUE
    Editors = {"w1"}
    Drafts = {"d1", "d2"}
    Trials = {"t1", "t2"}
    MaxFailures = 1
    Tears = FALSE
    MaxInputs = 2
    MaxEscapes = 1
    MaxWire = 1
    Asks = TRUE
    Window = 4
    MaxTurns = 6
    MaxCrashes = 1
    Jobs = {"j1"}
    CogJobs = {"k1"}
    Echoes = {}
    Containers = {b1, b2}
    MaxWorkers = 1
    PoolSize = 1
    OldWaitFor = FALSE
    Looked <- Parts
SYMMETRY Symmetry
CHECK_DEADLOCK FALSE
INVARIANTS TurnsAreRecorded UserWorkKept PromptReturns HistoryIsKept JobsAreSound
