SPECIFICATION Spec
CONSTANTS
    Writers = {w1, w2}
    Txs = {t1, t2}
    Kids = {}
    K = 2
    QueueMax = 1
    MaxFailures = 2
    BodyHangs = FALSE
    CommitHangs = FALSE
    MayClose = TRUE
    Nobody = Nobody
    Stop = Stop
SYMMETRY ClientSymmetry
CHECK_DEADLOCK FALSE
INVARIANTS
    TypeOK
    LeaseIsolation
PROPERTIES
    ImplementsAtomicStore
    DeathAnswersTheQueue
