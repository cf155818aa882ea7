SPECIFICATION TuiFairSpec
CONSTANTS
    r1 = r1
    r2 = r2
    r3 = r3
    a1 = a1
    a2 = a2
    f1 = f1
    NoRun = NoRun
    Runs = {r1, r2}
    Apps = {a1, a2}
    Names = {f1}
    AppOf <- TwoApps
    Meta <- TextAndOther
    NameOf <- SameName
    Damaged <- NoDamage
    Chunks = 1
    HeaderChunks = 1
    Backlog = 1
    MaxStarts = 1
    NoChunkSize = {}
    ServerSkips = FALSE
    ClientSkips = {a2}
    HasPrompt = {a1, a2}
INVARIANTS
    InStep
    BlocksAreWhole
    WordsAreCurrent
PROPERTIES
    WordsOnScreen
    PayloadOnScreen
CHECK_DEADLOCK FALSE
