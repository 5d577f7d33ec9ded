SPECIFICATION Spec
CONSTANTS
    Looked <- Parts
    Requests = {"r1"}
    MaxEvents = 2
CHECK_DEADLOCK FALSE
INVARIANT StreamIsWhole
PROPERTIES EveryJobEnds HealthyIsClosed StreamEnds
