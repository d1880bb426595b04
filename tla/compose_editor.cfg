SPECIFICATION FewSpec
CONSTANTS
    Reqs = {r1, r2, r3}
    Texts = {t1, t2}
    Empty = Empty
    Absent = Absent
    None = None
    Names <- TwoNames
    Env = FALSE
    EditDuring <- Waiting
    RenameDuring <- Nowhere
    MaxEdits = 2
    Fallible <- OnDisk
    MaxFaults = 1
    MaxCrashes = 0
    MaxDrops = 1
SYMMETRY Symmetry
INVARIANTS
    TypeOK
    ComposeIsKept
    LatestIsLive
