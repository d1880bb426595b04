SPECIFICATION FairSpec
CONSTANTS
    None = None
    u1 = u1
    tab1 = tab1
    tab2 = tab2
    m = m
    w1 = w1
    w2 = w2
    a1 = a1
    a2 = a2
    Uploads = {u1}
    Tabs = {tab1, tab2}
    Of <- OneFile
    Total <- ThreePieces
    Old <- Shorter
    ChunkPieces = 2
    DropAt = {"status", "ready", "chunk", "write", "marker", "rename"}
    MaxDrops = 1
    MaxRestarts = 1
    MaxFaults = 1
    Updates = {s1, s2}
    Versions = {1, 2, 3}
    Installed = {"master", "worker"}
    CliBeside = FALSE
    LeaveAt = {"fetch"}
    MaxSyncs = 1
    MaxClis = 1
    MaxLeft = 1
    MaxReboots = 1
    Master = m
    Order <- TwoNodes
    Selections = {{}, {w1}}
    Stalls = FALSE
    JobIds = {1, 2}
    MaxRequests = 1
    MaxChanges = 1
    MaxTroubles = 1
    Requests = {"run"}
    CrashInCopy = FALSE
    MaxIds = 4
    MaxDays = 1
    MaxSaves = 0
    MaxWrites = 1
    MaxBreaks = 1
    Members = {w1, w2}
    Addrs = {a1, a2, a3}
    Home <- AtHome
    Discover = TRUE
    TaskIds = {1, 2}
    MaxPasswords = 0
    MaxOutages = 2
INVARIANTS
    TypeOK
    PartIsPrefix
    
    OutcomesHold
PROPERTIES
    
    
    CatchesUp
    TransfersEnd
    LoopsComeThrough
