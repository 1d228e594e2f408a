--------------------------- MODULE MCScheduleRunner ---------------------------
(* Instances of ScheduleRunner for TLC. *)
EXTENDS ScheduleRunner, TLC

CONSTANTS t1, t2, s1, m1, r1, r2

MCTicks == {t1, t2}
MCOneTick == {t1}
MCSchedules == {s1}
MCRepos == {r1, r2}
MCScheduleOf == [t \in MCTicks |-> s1]
MCOneScheduleOf == [t \in MCOneTick |-> s1]
MCLists == {<<>>, <<r1>>, <<r2, r1>>}
MCTickOps == MCTicks \X MCRepos
MCOneTickOpsAndOne == (MCOneTick \X MCRepos) \cup {m1}
MCCloud == {r1}

(* Ticks are interchangeable. *)
TickSymmetry == Permutations(MCTicks)
=============================================================================
