--------------------------- MODULE MCCloudAccounts ---------------------------
(* Instances of CloudAccounts for TLC. *)
EXTENDS CloudAccounts

CONSTANTS person, other, tab1, device, c1, c2, a1, a2

MCPersons == {person, other}
MCTabs == {tab1}
MCDevices == {device}
MCCalls == {c1, c2}
MCOps == {a1, a2}
=============================================================================
