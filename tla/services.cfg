SPECIFICATION Spec
CONSTANTS
    None = None
    w1 = w1
    w2 = w2
    a1 = a1
    a2 = a2
    Scans = {sched, page}
    Clients = {page}
    Inodes = {i1}
    Chunk = 3
    DropAt = {"wait"}
    Beside = FALSE
    MaxLines = 2
    MaxGens = 1
    MaxSettings = 1
    MaxRestarts = 1
    Requests = {"restore"}
    CrashInCopy = FALSE
    MaxIds = 4
    MaxDays = 2
    MaxSaves = 1
    MaxWrites = 2
    MaxFaults = 1
    Workers = {w1, w2}
    Addrs = {a1, a2, a3}
    Home <- AtHome
    Discover = TRUE
    TaskIds = {1, 2}
    MaxChanges = 1
    MaxTroubles = 2
INVARIANTS
    TypeOK
    
    RunningIsReal
    
    OneRowPerAddress
PROPERTIES
    DataStaysKept
    
