SPECIFICATION LiveSpec
CONSTANTS
    Turns = {t1}
    Extracts = {e1}
    Adds = {a1}
    Manuals = {}
    Content <- Distinct
    Deleters = {d1}
    Archivable = {}
    MaxAttempts = 1
    MaxCrashes = 1
    MaxFaults = 0
    BodyHangs = TRUE
    CronRuns = FALSE
    Nobody = Nobody
CHECK_DEADLOCK FALSE
INVARIANTS
    TypeOK
    StoredIsDurable
    VectorsAfterRows
    DeletedStaysDeleted
PROPERTY EveryTaskEnds
