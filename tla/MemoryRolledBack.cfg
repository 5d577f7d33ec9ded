SPECIFICATION Spec
CONSTANTS
    Turns = {t1}
    Extracts = {}
    Adds = {a1}
    Manuals = {}
    Content <- Distinct
    Deleters = {}
    Archivable = {}
    MaxAttempts = 1
    MaxCrashes = 0
    MaxFaults = 0
    BodyHangs = FALSE
    CronRuns = FALSE
    Nobody = Nobody
CHECK_DEADLOCK FALSE
INVARIANT RolledBackStaysOut
