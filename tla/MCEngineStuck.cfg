\* Two edits under fairness and nothing else, on systems where adapter.rename refuses
\* an existing destination.
CONSTANTS
    Paths = {p1}
    Contents = {u1, o1}
    UserContents = {u1}
    OtherContents = {o1}
    Vaults = {{p1}}
    Absent = Absent
    Unknown = Unknown
    InitialModes = {"merge"}
    PageSize = 1
    RenameOnto = {"refuses"}
    MaxUser = 2
    MaxOther = 0
    MaxFault = 0
    MaxCollect = 0
SPECIFICATION FairSpec
PROPERTIES
    Converges
