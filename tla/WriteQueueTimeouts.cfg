SPECIFICATION LiveSpec
CONSTANTS
    Writers = {w1, w2}
    Txs = {t1}
    Kids = {k1}
    K = 2
    QueueMax = 1
    MaxFailures = 2
    BodyHangs = TRUE
    CommitHangs = TRUE
    MayClose = FALSE
    Nobody = Nobody
    Stop = Stop
CHECK_DEADLOCK FALSE
INVARIANT AckedDurable
PROPERTY EveryoneAnswered
