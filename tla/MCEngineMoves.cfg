\* Two paths under fairness: renames, deletions and edits, also while Obsidian is
\* closed, one crash or failed run, on systems where adapter.rename replaces.
CONSTANTS
    Paths = {p1, p2}
    Contents = {u1, o1}
    UserContents = {u1}
    OtherContents = {o1}
    Vaults = {{p1}, {p1, p2}}
    Absent = Absent
    Unknown = Unknown
    InitialModes = {"merge"}
    PageSize = 3
    RenameOnto = {"replaces"}
    MaxUser = 2
    MaxOther = 0
    MaxFault = 1
    MaxCollect = 0
SPECIFICATION FairSpec
PROPERTIES
    Converges
