\* Every edit, wherever it falls; no crash, no failed run, and adapter.rename
\* refuses an existing destination.
CONSTANTS
    Paths = {p1}
    Contents = {u1, u2, o1}
    UserContents = {u1, u2}
    OtherContents = {o1}
    Vaults = {{p1}}
    Absent = Absent
    Unknown = Unknown
    InitialModes = {"merge"}
    PageSize = 1
    RenameOnto = {"refuses"}
    MaxUser = 2
    MaxOther = 1
    MaxFault = 0
    MaxCollect = 0
SPECIFICATION Spec
SYMMETRY EngineSymmetry
INVARIANTS
    ConcurrentEditsKept
