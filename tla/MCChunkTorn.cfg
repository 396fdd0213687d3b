\* The same without failures, for what the documentation says of current files.
CONSTANTS
    Clients = {u1}
    Paths = {p1}
    x = x
    y = y
    a = a
    b = b
    Contents <- MCContents
    Deleted = Deleted
    Chunks <- MCChunks
    ChunksOf <- MCChunksOf
    KeepVersions = 1
    MaxRevision = 3
    MaxPlans = 1
    MaxFailures = 0
SPECIFICATION Spec
INVARIANTS
    CurrentChunksKept
CHECK_DEADLOCK FALSE
