SPECIFICATION FairSpec

CONSTANTS
    o1 = o1
    o2 = o2
    o3 = o3
    r1 = r1
    r2 = r2
    NoOp = NoOp
    Ops <- MCTwoOps
    Repos <- MCOneRepo
    CloudRepos <- MCCloud
    Kinds = {"backup", "prune", "forget", "restore", "restorePoint"}
    Faults = {}


INVARIANTS
    InterruptedRunsShow
    HistoryAgreesWithCaller

PROPERTIES
    ImplementsRunLedger
    EveryRunEnds
    EveryRequestIsAnswered
