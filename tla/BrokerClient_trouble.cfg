CONSTANTS
    Task = {t1, t2}
    MaxBatch = 2
    MaxBeats = 1
    MaxRestarts = 1
    Trouble = {"breaks", "rejects", "expires", "badBatch"}

SPECIFICATION FairSpec
CHECK_DEADLOCK FALSE
INVARIANTS
    TypeOK
    PullToken
    AckedMeansProcessed
    AtMostOncePerProcess
PROPERTIES
    LossEndsProcess
    AllProcessed
