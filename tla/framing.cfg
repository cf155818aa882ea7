SPECIFICATION FairSpec
CONSTANTS
    Lengths <- FourItems
    Raw <- SecondItem
    PrefixLen = 4
INVARIANTS
    TypeOK
    WholeFrames
PROPERTIES
    FifoSpec
    ReceiverReturns
CHECK_DEADLOCK FALSE
