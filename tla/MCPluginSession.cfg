\* Two pairing codes, two devices and three tokens: two pairings and a rotation
\* at most, a reload or restart, and four things in all that the user begins or
\* that go wrong.  Two attempts stand for the code's three.
CONSTANTS
    MaxCodes = 2
    None = None
    Denied = Denied
    Attempts = 2
    MaxDevices = 2
    MaxTokens = 3
    MaxCalls = 3
    MaxLoads = 2
    MaxEvents = 4
SPECIFICATION FairSpec
INVARIANTS
    TypeOK
    OneLiveToken
    CodePairsOnce
    CredentialLives
    WorkIsConfirmed
    StateIsOfOnePairing
PROPERTIES
    InitialSyncEnds
CHECK_DEADLOCK FALSE
