SPECIFICATION SerialSpec

CONSTANTS
    o1 = o1
    o2 = o2
    o3 = o3
    r1 = r1
    r2 = r2
    NoOp = NoOp
    Ops <- MCOps
    Repos <- MCRepos
    CloudRepos <- MCCloud
    Kinds = {"backup", "prune", "forget"}
    Faults = {"log", "finalize", "boot"}

SYMMETRY OpSymmetry

INVARIANTS
    OneTaskPerRepository
    CancelReachesRunningTask
    
    

PROPERTIES
    ImplementsRepositoryMutex
