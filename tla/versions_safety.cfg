\* Three requests, two at a time, a crash and a failed step.
CONSTANTS
    Reqs = {r1, r2, r3}
    None = None
    Ops = {"create", "create-compose", "update", "replace", "rollback", "edit", "delete"}
    Bodies <- TwoForms
    Fallible <- AnyStep
    MaxActive = 2
    MaxCrashes = 1
    MaxDrops = 0
    MaxFaults = 1
SPECIFICATION Spec
SYMMETRY Symmetry
INVARIANTS TypeOK OneWriter RegisteredBackupsExist BackupIsExact RestoredTreeStays
PROPERTIES UndoRecordedFirst StackComesBack HistorySpec
