SPECIFICATION FairScheduleSpec

CONSTANTS
    t1 = t1
    t2 = t2
    s1 = s1
    m1 = m1
    r1 = r1
    r2 = r2
    NoOp = NoOp
    NoTick = NoTick
    Schedules <- MCSchedules
    Repos <- MCRepos
    CloudRepos <- MCCloud
    Ticks <- MCOneTick
    ScheduleOf <- MCOneScheduleOf
    Ops <- MCOneTickOpsAndOne
    Lists <- MCLists
    Kinds = {"backup","restorePoint"}
    Faults = {"replace","boot"}

PROPERTIES
    ImplementsTaskRunner
    TicksMoveOn

INVARIANTS
    CompleteRunsSucceeded
