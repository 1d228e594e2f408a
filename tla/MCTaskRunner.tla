----------------------------- MODULE MCTaskRunner -----------------------------
(* Instances of TaskRunner for TLC. *)
EXTENDS TaskRunner, TLC

CONSTANTS o1, o2, o3, r1, r2

MCOps == {o1, o2, o3}
MCTwoOps == {o1, o2}
MCOneRepo == {r1}
MCRepos == {r1, r2}
MCCloud == {r1}

(* Requests are interchangeable; so are repositories with the same kind of *)
(* backend, but r1 and r2 do not have it.                                  *)
OpSymmetry == Permutations(MCOps)
=============================================================================
