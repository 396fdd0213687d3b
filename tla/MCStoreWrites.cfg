\* One writer whose calls interleave with its own restores, under the same two
\* operation ids: every mutation of up to 3 revisions on 2 paths and 2 contents,
\* no garbage collection.
CONSTANTS
    Paths = {p1, p2}
    Contents = {c1, c2}
    Deleted = Deleted
    Writers = {w1}
    Devices = {}
    OpIds = {o1, o2}
    RestoreIds = {o1, o2}
    NoOp = NoOp
    PlanIds = {}
    KeepVersions = 1
    Retention = 1
    MaxRevision = 3
    MaxClock = 0
SPECIFICATION Spec
SYMMETRY StoreSymmetry
INVARIANTS
    TypeOK
    NoLostUpdate
    RetryReturnsOriginal
    RestoreFaithful
PROPERTIES
    ImplementsVersionedMap
CHECK_DEADLOCK FALSE
