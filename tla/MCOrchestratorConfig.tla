------------------------- MODULE MCOrchestratorConfig -------------------------
(* Instances of OrchestratorConfig for TLC. *)
EXTENDS OrchestratorConfig, TLC

CONSTANTS c1, c2, c3, f1

MCThree == {c1, c2, c3}
MCOneFolder == {f1}
MCAllOps == AllOps

CallsSymmetry == Permutations(Calls)
=============================================================================
