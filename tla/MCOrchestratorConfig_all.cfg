SPECIFICATION ConfigSpec

CONSTANTS
    c1 = c1
    c2 = c2
    c3 = c3
    f1 = f1
    Calls <- MCThree
    Folders <- MCOneFolder
    Ops <- MCAllOps
    Crons = {"ok", "bad"}
    Faults = {"backend", "crash"}
    All = All
    Watcher = Watcher
    None = None

SYMMETRY CallsSymmetry

CHECK_DEADLOCK FALSE

INVARIANTS
    RowsAreReady
    JobsAreScheduled
    CreatedSchedulesTick

PROPERTIES
    ImmichKeepsItsRepository
    OnlyDeletionUnlinks
