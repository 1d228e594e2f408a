SPECIFICATION UsageSpec

CONSTANTS
    s1 = s1
    s2 = s2
    y1 = y1
    d1 = d1
    Repositories = {1, 2}
    Reports <- MCReports
    Syncs <- MCSyncs
    Readers <- MCReaders
    Limit = 1
    MaxTime = 2
    MaxSize = 2

SYMMETRY ReportSymmetry
CONSTRAINT Three

CHECK_DEADLOCK FALSE

INVARIANTS
    RowsAreOnRecord
    
    PagesMissOnlyTies
