\* One path, three revisions, two devices that pair, acknowledge and retire, one
\* plan that is built in three steps and executed at any later moment, and one
\* operation that is sent again.
CONSTANTS
    Paths = {p1}
    Contents = {c1}
    Deleted = Deleted
    Writers = {w1}
    Devices = {d1, d2}
    OpIds = {o1}
    RestoreIds = {}
    NoOp = NoOp
    PlanIds = {g1}
    KeepVersions = 1
    Retention = 1
    MaxRevision = 3
    MaxClock = 2
SPECIFICATION Spec
SYMMETRY StoreSymmetry
INVARIANTS
    CollectionSafe
    CurrentVersionRetained
    RetainedContentStored
PROPERTIES
    GCRemovesOnlySettled
    GCKeepsNewest
    LateRetriesAreHarmless
CONSTRAINT
    RetriesApart
CHECK_DEADLOCK FALSE
