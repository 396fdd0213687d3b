\* A vault of one path under fairness, empty or with a file, in every initial mode: two
\* edits of the user, a change of another device, a collected tombstone, one crash or
\* failed run, at any moment; adapter.rename replaces.
CONSTANTS
    Paths = {p1}
    Contents = {u1, o1}
    UserContents = {u1}
    OtherContents = {o1}
    Vaults = {{}, {p1}}
    Absent = Absent
    Unknown = Unknown
    InitialModes = {"merge", "remote", "local"}
    PageSize = 1
    RenameOnto = {"replaces"}
    MaxUser = 2
    MaxOther = 1
    MaxFault = 1
    MaxCollect = 1
SPECIFICATION FairSpec
INVARIANTS
    TypeOK
    NoSilentLoss
    CursorCovers
    AckIsSaved
    ConflictNeedsRival
    ArtifactsAreTracked
PROPERTIES
    ServerKeepsMap
    Converges
