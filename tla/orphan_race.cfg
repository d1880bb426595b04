\* A leftover is deleted while an upgrade fills it.
CONSTANTS
    Reqs = {r1, r2, r3}
    None = None
    Ops = {"create", "update", "orphan"}
    Bodies <- JarForm
    Fallible = {}
    MaxActive = 2
    MaxCrashes = 0
    MaxDrops = 0
    MaxFaults = 0
SPECIFICATION Spec
SYMMETRY Symmetry
INVARIANTS RegisteredBackupsExist
