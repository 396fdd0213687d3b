\* A vault of two files: renames, batches of deletions and partial scans, and their
\* recovery, on systems where adapter.rename refuses an existing destination.
CONSTANTS
    Paths = {p1, p2}
    Contents = {u1, u2, o1}
    UserContents = {u1, u2}
    OtherContents = {o1}
    Vaults = {{p1, p2}}
    Absent = Absent
    Unknown = Unknown
    InitialModes = {"merge"}
    PageSize = 3
    RenameOnto = {"refuses"}
    MaxUser = 2
    MaxOther = 1
    MaxFault = 1
    MaxCollect = 0
SPECIFICATION Spec
SYMMETRY EngineSymmetry
INVARIANTS
    NoSilentLoss
    CursorCovers
PROPERTIES
    DeletionsAreTheUsers
    NewerEventsKept
