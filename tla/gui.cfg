SPECIFICATION FairSpec
CONSTANTS
    t1 = t1
    t2 = t2
    t3 = t3
    NoTx = NoTx
    Tx = {t1, t2, t3}
    Kind <- EachKind
    Polls = {p1, p2}
    MissingChunkSize = FALSE
INVARIANTS
    TypeOK
    OneAtATime
    AnswerIsOnes
    DialogIsLive
    StatusIsTrue
    StatisticsAddUp
PROPERTIES
    QuestionIsShown
    WindowIsFreed
CHECK_DEADLOCK FALSE
