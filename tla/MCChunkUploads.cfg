\* Two contents that share a chunk, one client, three revisions, one plan, one
\* lost connection or crash, one backup.
CONSTANTS
    Clients = {u1}
    Paths = {p1}
    x = x
    y = y
    a = a
    b = b
    Contents <- MCContents
    Deleted = Deleted
    Chunks <- MCChunks
    ChunksOf <- MCChunksOf
    KeepVersions = 1
    MaxRevision = 3
    MaxPlans = 1
    MaxFailures = 1
SPECIFICATION FairSpec
INVARIANTS
    TypeOK
    ManifestsWhole
    NoMissingChunk
    BackupComplete
PROPERTIES
    UploadsEnd
CHECK_DEADLOCK FALSE
