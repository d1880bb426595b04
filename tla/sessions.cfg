SPECIFICATION FewSpec
CONSTANTS
    Reqs = {r1, r2, r3, r4}
    Texts = {t1, t2}
    Empty = Empty
    Absent = Absent
    None = None
    Names <- OneName
    Env = TRUE
    EditDuring <- Waiting
    RenameDuring <- Waiting
    MaxEdits = 1
    Fallible <- Steps
    MaxFaults = 1
    MaxCrashes = 1
    MaxDrops = 1
    Passwords = {p1, p2}
    Initial = p1
    MaxFailures = 2
    MaxActive = 2
    MaxRestarts = 1
SYMMETRY Symmetry
INVARIANTS
    TypesHold
    
    
    OldSessionsEnd
PROPERTIES
    NothingUnseenReplaced
