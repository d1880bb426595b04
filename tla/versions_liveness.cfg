\* Every request ends, and one version is current; leftovers are deleted, no
\* step fails inside mark_current and nothing crashes.
CONSTANTS
    Reqs = {r1, r2, r3}
    None = None
    Ops = {"create", "update", "rollback", "delete", "orphan"}
    Bodies <- JarForm
    Fallible <- AllButMark
    MaxActive = 3
    MaxCrashes = 0
    MaxDrops = 1
    MaxFaults = 1
SPECIFICATION FairSpec
INVARIANTS OneCurrent
PROPERTIES EveryRequestEnds
