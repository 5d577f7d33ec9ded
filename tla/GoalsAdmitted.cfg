SPECIFICATION Spec
CONSTANTS
    Overlaps = FALSE
    MaxRuns = 2
    MaxCrashes = 1
    Keys = {k1}
    SkillNames = {"s1"}
    PluginNames = {"t1"}
    Remote = {"t1"}
    Servers = {"m1"}
    Kit = TRUE
    MaxChanges = 2
    Concepts = {n1, n2}
    Missed = {}
    Loops = {p1, p2}
    MaxTurns = 2
    MaxLoads = 1
    MaxPrunes = 1
    Consoles = {"w1", "w2"}
    Instructions = {i1}
    MaxProposals = 2
    MaxRecorded = 5
    MaxDecisions = 2
    Facts = {2, 3}
    Syntheses = {0, 1}
    Blocked = {1}
    Bad = {}
    Quorum = 2
    Runs = {"r1"}
    MaxCalls = 2
    MaxClusters = 2
    Providers = {"gemini"}
    Options = {"security", "paired"}
    MaxWrites = 3
    MaxKeys = 2
    Goals = {1}
    Trajectories = {11}
    Short = {}
    Titles = {"n", "m"}
    Managed = {"n"}
    Slug <- OneName
    Distils = TRUE
    MaxGoalTurns = 1
    MaxTicks = 2
    Commands = {"x1", "x2", "x3"}
    MaxPid = 4
    MaxKills = 1
    Patient = TRUE
    Mixes = FALSE
    Reuses = TRUE
    Indexers = {"w1"}
    Paths = {"a", "b"}
    Large = {3}
    Blank = {}
    MaxEdits = 3
    MaxFailures = 1
    LargeFiles = {}
    BlankFiles = {3}
    MaxCommands = 3
    None = None
    Looked = {"goal"}
CHECK_DEADLOCK FALSE
INVARIANT AdmittedIsRecorded
