CONSTANTS
    Paths = {p1}
    Contents = {c1}
    Deleted = Deleted
    Writers = {w1}
    Devices = {d1}
    OpIds = {}
    RestoreIds = {}
    NoOp = NoOp
    PlanIds = {g1}
    KeepVersions = 2
    Retention = 1
    MaxRevision = 4
    MaxClock = 2
SPECIFICATION Spec
SYMMETRY StoreSymmetry
INVARIANT
    SnapshotShowsNoDeletedFile
CHECK_DEADLOCK FALSE
