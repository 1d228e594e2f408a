---------------------------- MODULE MCCloudUsage ----------------------------
(* Instances of CloudUsage for TLC. *)
EXTENDS CloudUsage, TLC

CONSTANTS s1, s2, y1, d1

MCReports == {s1, s2}
MCSyncs == {y1}
MCReaders == {d1}

ReportSymmetry == Permutations(Reports)

Begun == Cardinality({s \in Reports : report[s].stage # "idle"})
    + Cardinality({y \in Syncs : sync[y].stage # "idle"})
    + Cardinality({d \in Readers : reader[d].stage # "idle"})

(* Bounds: reports are made of one repository, and of the reports, the     *)
(* worker and the reader three are made in all.                            *)
Three == (\A s \in Reports : report[s].of = Someone) /\ Begun <= 3
=============================================================================
