---------------------------- MODULE WriteOnceStore ----------------------------
(***************************************************************************)
(* What a write-once repository promises: a place takes one content and    *)
(* keeps it; only the places that are meant to be cleared can be cleared.  *)
(***************************************************************************)
CONSTANTS Places, Clearable, Contents, Nothing

VARIABLE kept \* what each place holds for good

Init == kept = [p \in Places |-> Nothing]

Write(p, c) == kept[p] = Nothing /\ kept' = [kept EXCEPT ![p] = c]

Clear(p) == p \in Clearable /\ kept' = [kept EXCEPT ![p] = Nothing]

Next == \E p \in Places : Clear(p) \/ \E c \in Contents : Write(p, c)

Spec == Init /\ [][Next]_kept
=============================================================================
