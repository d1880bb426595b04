\* A rollback goes on after its client left, beside the next request.
CONSTANTS
    Reqs = {r1, r2, r3}
    None = None
    Ops = {"create", "update", "rollback"}
    Bodies <- JarForm
    Fallible = {}
    MaxActive = 2
    MaxCrashes = 0
    MaxDrops = 1
    MaxFaults = 0
SPECIFICATION Spec
SYMMETRY Symmetry
INVARIANTS OneWriter
