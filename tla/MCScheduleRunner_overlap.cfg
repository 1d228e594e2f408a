SPECIFICATION ScheduleSpec

CONSTANTS
    t1 = t1
    t2 = t2
    s1 = s1
    m1 = m1
    r1 = r1
    r2 = r2
    NoOp = NoOp
    NoTick = NoTick
    Schedules <- MCSchedules
    Repos <- MCRepos
    CloudRepos <- MCCloud
    Ticks <- MCTicks
    ScheduleOf <- MCScheduleOf
    Ops <- MCTickOps
    Lists <- MCLists
    Kinds = {"backup"}
    Faults = {}

SYMMETRY TickSymmetry

INVARIANTS
    NoLeakedScheduleTask
    StatusAgreesWithHistory
    NoRepositoryIsSkipped

PROPERTIES
    CancelReachesTick
    CancelledScheduleStartsNothing
