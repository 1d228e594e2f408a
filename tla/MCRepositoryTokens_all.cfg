SPECIFICATION TokensSpec

CONSTANTS
    q1 = q1
    q2 = q2
    q3 = q3
    e1 = e1
    e2 = e2
    e3 = e3
    blob = blob
    stray = stray
    Requests <- MCThree
    Edits <- MCThreeEdits
    Blobs <- MCBlobs
    LockFiles = {}
    Config = Config
    Strays <- MCStrays
    Tokens <- MCTokens
    Faults = {}
    NoObject = NoObject
    Admins = TRUE

SYMMETRY CallSymmetry

CHECK_DEADLOCK FALSE

INVARIANTS
    NoBadBlobStays

PROPERTIES
    OnlyOlderCallsReopen
    OldTokensWearOut
