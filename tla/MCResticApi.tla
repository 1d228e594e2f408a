----------------------------- MODULE MCResticApi -----------------------------
(* Instances of ResticApi for TLC. *)
EXTENDS ResticApi, TLC

CONSTANTS q1, q2, q3, blob, other, lock, empty, reader

MCRequests == {q1, q2, q3}
MCOld == {q2, q3}
MCBlobs == {blob, other}
MCLocks == {lock}
MCStrays == {empty}
MCWorm == {TRUE}
MCReaders == {reader}

StoreSymmetry == Permutations(OldRequests) \cup Permutations(Requests \ OldRequests) \cup Permutations(Blobs)

(* A bound: what is uploaded is what belongs there, or the stray. *)
OwnOrStray == \A r \in Requests :
    req[r].body \in (IF req[r].key = Config THEN Blobs ELSE {req[r].key, empty}) \cup {NoObject}
=============================================================================
