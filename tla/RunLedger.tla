------------------------------- MODULE RunLedger -------------------------------
(***************************************************************************)
(* What runHistory promises its readers (the run list of a repository, the *)
(* log stream): a run is opened once, its status leaves Incomplete once,   *)
(* to a final one, and a sweep closes whatever is open as failed.          *)
(***************************************************************************)
CONSTANT Runs

VARIABLE row

Init == row = [r \in Runs |-> "none"]

Open(r) == row[r] = "none" /\ row' = [row EXCEPT ![r] = "Incomplete"]

Close(r) ==
    /\ row[r] = "Incomplete"
    /\ \E status \in {"Complete", "Failed"} : row' = [row EXCEPT ![r] = status]

CloseAll == row' = [r \in Runs |-> IF row[r] = "Incomplete" THEN "Failed" ELSE row[r]]

Next == (\E r \in Runs : Open(r) \/ Close(r)) \/ CloseAll

Spec == Init /\ [][Next]_row

=============================================================================
