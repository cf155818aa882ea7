SPECIFICATION FairSpec
CONSTANTS
    r1 = r1
    r2 = r2
    r3 = r3
    a1 = a1
    a2 = a2
    f1 = f1
    NoRun = NoRun
    Runs = {r1, r2}
    Apps = {a1, a2}
    Names = {f1}
    AppOf <- TwoApps
    Meta <- TextAndFile
    NameOf <- SameName
    Damaged <- VaultDamaged
    Chunks = 2
    HeaderChunks = 1
    Backlog = 1
    MaxStarts = 2
    NoChunkSize = {1}
    ServerSkips = TRUE
    ClientSkips = {a1}
    HasPrompt = {a1, a2}
INVARIANTS
    InStep
    RefusedNeverDelivered
PROPERTIES
    ContractSpec
    RunEnds
    ConnectionEnds
CHECK_DEADLOCK FALSE
