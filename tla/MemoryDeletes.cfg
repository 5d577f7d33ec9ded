SPECIFICATION LiveSpec
CONSTANTS
    Turns = {}
    Extracts = {}
    Adds = {a1}
    Manuals = {n1}
    Content <- Distinct
    Deleters = {d1}
    Archivable = {a1, n1}
    MaxAttempts = 1
    MaxCrashes = 1
    MaxFaults = 1
    BodyHangs = TRUE
    CronRuns = TRUE
    Nobody = Nobody
CHECK_DEADLOCK FALSE
PROPERTY EventuallyInSync
