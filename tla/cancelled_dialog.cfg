SPECIFICATION Spec
CONSTANTS
    t1 = t1
    t2 = t2
    t3 = t3
    NoTx = NoTx
    Tx = {t1, t2}
    Kind <- TextAndFile
    Polls = {p1}
    MissingChunkSize = FALSE
INVARIANTS
    StandbyIsIdle
CHECK_DEADLOCK FALSE
