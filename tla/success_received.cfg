SPECIFICATION FairSpec
CONSTANTS
    r1 = r1
    r2 = r2
    r3 = r3
    a1 = a1
    a2 = a2
    f1 = f1
    NoRun = NoRun
    Runs = {r1, r2}
    Apps = {a1}
    Names = {f1}
    AppOf <- OneApp
    Meta <- TextAndFile
    NameOf <- SameName
    Damaged <- NoDamage
    Chunks = 2
    HeaderChunks = 1
    Backlog = 1
    MaxStarts = 1
    NoChunkSize = {}
    ServerSkips = FALSE
    ClientSkips = {}
    HasPrompt = {a1}
PROPERTIES
    SuccessIsReceived
CHECK_DEADLOCK FALSE
