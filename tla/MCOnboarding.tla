----------------------------- MODULE MCOnboarding -----------------------------
(* Instances of Onboarding for TLC. *)
EXTENDS Onboarding, TLC

CONSTANTS t1, g1, g2

MCTabs == {t1}
MCFresh == {g1, g2}

(* Keys that the orchestrator makes are interchangeable. *)
KeySymmetry == Permutations(MCFresh)
=============================================================================
