-------------------------- MODULE MCRepositoryTokens --------------------------
(* Instances of RepositoryTokens for TLC. *)
EXTENDS RepositoryTokens, TLC

CONSTANTS q1, q2, q3, e1, e2, e3, blob, stray

MCThree == {q1, q2, q3}
MCThreeEdits == {e1, e2, e3}
MCBlobs == {blob}
MCStrays == {stray}
MCTokens == BOOLEAN

CallSymmetry == Permutations(Requests) \cup Permutations(Edits)
=============================================================================
