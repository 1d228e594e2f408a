SPECIFICATION StoreSpec

CONSTANTS
    q1 = q1
    q2 = q2
    q3 = q3
    blob = blob
    other = other
    lock = lock
    empty = empty
    reader = reader
    Requests <- MCRequests
    OldRequests <- MCOld
    Readers <- MCReaders
    Blobs <- MCBlobs
    LockFiles <- MCLocks
    Config = Config
    Strays <- MCStrays
    Empty = empty
    Page = 1
    Tokens <- MCWorm
    Faults = {"s3", "undo", "crash"}
    NoObject = NoObject

SYMMETRY StoreSymmetry

CHECK_DEADLOCK FALSE

INVARIANTS
    AcknowledgedIsStored
    ReadsAreHonest

PROPERTIES
    ImplementsWriteOnceStore
CONSTRAINT OwnOrStray
