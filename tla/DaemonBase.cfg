SPECIFICATION LiveSpec
CONSTANTS
    AutoGoals = {g1}
    ChatGoals = {g1}
    MaxFailures = 2
    MaxStarts = 2
    MaxDeaths = 1
    Survivors = {"worker"}
    Nobody = Nobody
CHECK_DEADLOCK FALSE
INVARIANTS TypeOK OneClaimPerStart GivenUpAfterStreak
PROPERTIES PendingIsClaimed FrozenIsKilled
