------------------------------ MODULE CloudUsage ------------------------------
(***************************************************************************)
(* The measures of repositories: what a device reports of its backups to   *)
(* yucca-api (a row of repositoryMetrics and an entry of its history, two  *)
(* statements), what the metrics worker reads from the object store (a row *)
(* and an entry, one transaction), and the readers that page through the   *)
(* history and through the list of repositories.                           *)
(*                                                                         *)
(* Simplifications.                                                        *)
(*  - The entries of the history are in the order of createdAt, and in     *)
(*    full: of the time only the millisecond is kept, which is what a      *)
(*    cursor can say.  Several entries can lie in one.                     *)
(*  - Repositories are numbers, in the order of their ids, and all have a  *)
(*    bucket, which outlives them.                                         *)
(*  - Durations and counts of objects go with what they are reported with. *)
(*  - Of the rows that were shown to a reader the set is kept, and which   *)
(*    of them were shown twice.                                            *)
(***************************************************************************)
EXTENDS Naturals, Sequences, FiniteSets

CONSTANTS
    Repositories, \* a set of numbers
    Reports,      \* the reports of devices, each made once
    Syncs,        \* the runs of the metrics worker
    Readers,
    Limit,        \* the size of a page
    MaxTime,      \* a bound: the last millisecond
    MaxSize       \* a bound: the largest size

ASSUME UsageAssumption ==
    /\ Repositories \subseteq Nat \ {0} /\ Repositories # {} /\ IsFiniteSet(Repositories)
    /\ Limit \in Nat \ {0} /\ MaxTime \in Nat \ {0} /\ MaxSize \in Nat \ {0}

VARIABLES
    time,    \* the millisecond
    exists,  \* the rows of repositories
    local,   \* the size that the device has for each repository (0: none)
    row,     \* repositoryMetrics (0: null)
    history, \* repositoryMetricsHistory
    meter,   \* repositoryMeter and repositoryMeterHistory
    crossed, \* the repositories of which a report came in before the last was done, or failed
    report, sync, reader

cloud == <<time, exists, local, row, history, meter, crossed>>
usageVars == <<cloud, report, sync, reader>>

Kinds == {"started", "ended", "success", "size"}

(* Variant: the end of a backup is not written with its success. *)
FieldsApart(kind) == {kind}

(* The fields of the row that a report sets. *)
Fields(kind) == IF kind = "success" THEN {"ended", "success"} ELSE {kind}
NoRow == [f \in Kinds |-> 0]
Values == 0 .. MaxTime \cup 0 .. MaxSize

Someone == CHOOSE p \in Repositories : TRUE
NoReport == [stage |-> "idle", of |-> Someone, kind |-> "size", value |-> 0]
NoSync == [stage |-> "idle", known |-> {}, left |-> {}, stats |-> [p \in Repositories |-> 0]]
NoReader == [stage |-> "idle", what |-> "list", of |-> Someone, cursor |-> 0, got |-> {},
             twice |-> {}, due |-> {}, tied |-> {}]

UsageTypeOK ==
    /\ time \in 1 .. MaxTime /\ exists \subseteq Repositories /\ crossed \subseteq Repositories
    /\ local \in [Repositories -> 0 .. MaxSize]
    /\ row \in [Repositories -> [Kinds -> Values]]
    /\ history \in Seq([of : Repositories, kind : Kinds, value : Values, ms : 1 .. MaxTime])
    /\ meter \in [Repositories -> [last : 0 .. MaxSize, log : Seq(1 .. MaxSize)]]
    /\ report \in [Reports -> [stage : {"idle", "stats", "save", "get", "write", "log", "done", "failed"},
                               of : Repositories, kind : Kinds, value : Values]]
    /\ sync \in [Syncs -> [stage : {"idle", "listed", "read", "done", "failed"},
                           known : SUBSET Repositories, left : SUBSET Repositories,
                           stats : [Repositories -> 0 .. MaxSize]]]
    /\ reader \in [Readers -> [stage : {"idle", "page", "done"}, what : {"history", "list"},
                               of : Repositories, cursor : Nat, got : SUBSET Nat,
                               twice : SUBSET Nat, due : SUBSET Nat, tied : SUBSET Nat]]

UsageInit ==
    /\ time = 1 /\ exists = Repositories /\ crossed = {}
    /\ local = [p \in Repositories |-> 0]
    /\ row = [p \in Repositories |-> NoRow] /\ history = <<>>
    /\ meter = [p \in Repositories |-> [last |-> 0, log |-> <<>>]]
    /\ report = [s \in Reports |-> NoReport]
    /\ sync = [y \in Syncs |-> NoSync]
    /\ reader = [d \in Readers |-> NoReader]

Tick == time < MaxTime /\ time' = time + 1
        /\ UNCHANGED <<exists, local, row, history, meter, crossed, report, sync, reader>>

-----------------------------------------------------------------------------
(* Reports. *)

UnderWay(p) == {s \in Reports : report[s].of = p /\ report[s].stage \notin {"idle", "done", "failed"}}

Advance(s, stage) == report' = [report EXCEPT ![s].stage = stage]

(* The device: updateLocalMetrics begins with the size, the others go      *)
(* right to the cloud.  Nothing keeps them in order.                       *)
BeginReport(s, p, kind) ==
    /\ report[s].stage = "idle"
    /\ report' = [report EXCEPT ![s].stage = IF kind = "size" THEN "stats" ELSE "get",
                                ![s].of = p, ![s].kind = kind]
    /\ crossed' = IF UnderWay(p) = {} THEN crossed ELSE crossed \cup {p}
    /\ UNCHANGED <<time, exists, local, row, history, meter, sync, reader>>

(* restic stats: any size, for backups go on and snapshots are deleted.    *)
ReadSize(s) ==
    /\ report[s].stage = "stats"
    /\ \E n \in 1 .. MaxSize :
          report' = [report EXCEPT ![s].stage = "save", ![s].value = n]
    /\ UNCHANGED <<cloud, sync, reader>>

SaveLocal(s) ==
    /\ report[s].stage = "save"
    /\ local' = [local EXCEPT ![report[s].of] = report[s].value]
    /\ Advance(s, "get")
    /\ UNCHANGED <<time, exists, row, history, meter, crossed, sync, reader>>

(* yucca-api: the row of the repository is read for its owner, and the     *)
(* time taken.                                                             *)
GetRepository(s) ==
    /\ report[s].stage = "get" /\ report[s].of \in exists
    /\ report' = [report EXCEPT ![s].stage = "write",
                                ![s].value = IF report[s].kind = "size" THEN @ ELSE time]
    /\ UNCHANGED <<cloud, sync, reader>>

(* save inserts the row or sets the given fields; the row refers to the    *)
(* repository.                                                             *)
WriteRow(s) ==
    /\ report[s].stage = "write" /\ report[s].of \in exists
    /\ row' = [row EXCEPT ![report[s].of] = [f \in Kinds |->
          IF f \in Fields(report[s].kind) THEN report[s].value ELSE @[f]]]
    /\ Advance(s, "log")
    /\ UNCHANGED <<time, exists, local, history, meter, crossed, sync, reader>>

(* Variant: the entry is that of the backup's start.                       *)
LogAsStart(s) ==
    /\ report[s].stage = "log" /\ report[s].of \in exists
    /\ history' = Append(history, [of |-> report[s].of, kind |-> "started",
                                   value |-> report[s].value, ms |-> time])
    /\ Advance(s, "done")
    /\ UNCHANGED <<time, exists, local, row, meter, crossed, sync, reader>>

(* The entry of the history: a statement of its own.                       *)
Log(s) ==
    /\ report[s].stage = "log" /\ report[s].of \in exists
    /\ history' = Append(history, [of |-> report[s].of, kind |-> report[s].kind,
                                   value |-> report[s].value, ms |-> time])
    /\ Advance(s, "done")
    /\ UNCHANGED <<time, exists, local, row, meter, crossed, sync, reader>>

(* A statement or a call fails, and the calls after it are not made.       *)
ReportFails(s) ==
    /\ report[s].stage \in {"stats", "save", "get", "write", "log"}
    /\ Advance(s, "failed")
    /\ crossed' = crossed \cup {report[s].of}
    /\ UNCHANGED <<time, exists, local, row, history, meter, sync, reader>>

Report(s) ==
    \/ \E p \in Repositories, kind \in Kinds : BeginReport(s, p, kind)
    \/ ReadSize(s) \/ SaveLocal(s)
    \/ GetRepository(s) \/ WriteRow(s) \/ Log(s) \/ ReportFails(s)

(* The rows that refer to a repository go with it.                         *)
DeleteRepository(p) ==
    /\ p \in exists
    /\ exists' = exists \ {p}
    /\ row' = [row EXCEPT ![p] = NoRow]
    /\ meter' = [meter EXCEPT ![p] = [last |-> 0, log |-> <<>>]]
    /\ UNCHANGED <<time, local, history, crossed, report, sync, reader>>

-----------------------------------------------------------------------------
(* The worker. *)

ListRepositories(y) ==
    /\ sync[y].stage = "idle"
    /\ sync' = [sync EXCEPT ![y].stage = "listed", ![y].known = exists]
    /\ UNCHANGED <<cloud, report, reader>>

GetBucketStats(y) ==
    /\ sync[y].stage = "listed"
    /\ \E stats \in [Repositories -> 1 .. MaxSize] :
          sync' = [sync EXCEPT ![y].stage = "read", ![y].left = Repositories, ![y].stats = stats]
    /\ UNCHANGED <<cloud, report, reader>>

(* One bucket after the other: the row and the entry in one transaction.   *)
Record(y) == \E p \in sync[y].left :
    /\ sync[y].stage = "read" /\ p \in sync[y].known \cap exists
    /\ meter' = [meter EXCEPT ![p] = [last |-> sync[y].stats[p], log |-> Append(@.log, sync[y].stats[p])]]
    /\ sync' = [sync EXCEPT ![y].left = @ \ {p}]
    /\ UNCHANGED <<time, exists, local, row, history, crossed, report, reader>>

SkipUnknown(y) == \E p \in sync[y].left \ sync[y].known :
    /\ sync[y].stage = "read"
    /\ sync' = [sync EXCEPT ![y].left = @ \ {p}]
    /\ UNCHANGED <<cloud, report, reader>>

(* A repository that was deleted since, or any other failure, ends the run *)
(* for all the buckets that are left.                                      *)
SyncFails(y) ==
    /\ sync[y].stage \in {"listed", "read"}
    /\ sync' = [sync EXCEPT ![y] = [NoSync EXCEPT !.stage = "failed"]]
    /\ UNCHANGED <<cloud, report, reader>>

SyncEnds(y) ==
    /\ sync[y].stage = "read" /\ sync[y].left = {}
    /\ sync' = [sync EXCEPT ![y] = [NoSync EXCEPT !.stage = "done"]]
    /\ UNCHANGED <<cloud, report, reader>>

Sync(y) ==
    \/ ListRepositories(y) \/ GetBucketStats(y)
    \/ Record(y) \/ SkipUnknown(y) \/ SyncFails(y) \/ SyncEnds(y)

-----------------------------------------------------------------------------
(* Readers.  A history is read from its newest entry on, the list of       *)
(* repositories from the least id on; the cursor is the millisecond, or    *)
(* the id, of the last row of the page before (0: none yet).               *)

Entries(p) == {i \in DOMAIN history : p \in exists /\ history[i].of = p}

Rows(what, p) == IF what = "history" THEN Entries(p) ELSE exists
All(d) == Rows(reader[d].what, reader[d].of)

StartReading(d, what, p) ==
    /\ reader[d].stage = "idle"
    /\ reader' = [reader EXCEPT ![d] = [NoReader EXCEPT
          !.stage = "page", !.what = what, !.of = p, !.due = Rows(what, p)]]
    /\ UNCHANGED <<cloud, report, sync>>

(* Variant: the cursor's own millisecond is read again.                    *)
AfterOrAt(d) == {i \in All(d) :
    \/ reader[d].cursor = 0
    \/ reader[d].what = "history" /\ history[i].ms <= reader[d].cursor
    \/ reader[d].what = "list" /\ i >= reader[d].cursor}

After(d) == {i \in All(d) :
    \/ reader[d].cursor = 0
    \/ reader[d].what = "history" /\ history[i].ms < reader[d].cursor
    \/ reader[d].what = "list" /\ i > reader[d].cursor}

Before(d, i, j) == IF reader[d].what = "history" THEN i > j ELSE i < j

(* The first Limit rows; one more is asked for, to see if there is one.    *)
Shown(d) == {i \in After(d) : Cardinality({j \in After(d) : Before(d, j, i)}) < Limit}

LastShown(d) == CHOOSE i \in Shown(d) : \A j \in Shown(d) \ {i} : Before(d, j, i)

(* The rows left for later pages that the cursor will pass over.           *)
PassedOver(d) == {i \in After(d) \ Shown(d) :
    reader[d].what = "history" /\ history[i].ms = history[LastShown(d)].ms}

(* The page is appended to what was shown before.                          *)
AddPage(d) == [reader[d] EXCEPT !.got = @ \cup Shown(d), !.twice = @ \cup (reader[d].got \cap Shown(d))]

LastPage(d) ==
    /\ reader[d].stage = "page" /\ Shown(d) = After(d)
    /\ reader' = [reader EXCEPT ![d] = [AddPage(d) EXCEPT !.stage = "done"]]
    /\ UNCHANGED <<cloud, report, sync>>

ReadPage(d) ==
    /\ reader[d].stage = "page" /\ Shown(d) # After(d)
    /\ reader' = [reader EXCEPT ![d] = [AddPage(d) EXCEPT
          !.cursor = IF reader[d].what = "history" THEN history[LastShown(d)].ms ELSE LastShown(d),
          !.tied = @ \cup PassedOver(d)]]
    /\ UNCHANGED <<cloud, report, sync>>

Reading(d) ==
    \/ \E what \in {"history", "list"}, p \in Repositories : StartReading(d, what, p)
    \/ ReadPage(d) \/ LastPage(d)

-----------------------------------------------------------------------------

UsageNext ==
    \/ Tick
    \/ \E p \in Repositories : DeleteRepository(p)
    \/ \E s \in Reports : Report(s)
    \/ \E y \in Syncs : Sync(y)
    \/ \E d \in Readers : Reading(d)

UsageSpec == UsageInit /\ [][UsageNext]_usageVars

-----------------------------------------------------------------------------
(* Properties. *)

(* What the row of a repository says has an entry in its history, or the   *)
(* report is between its two statements, or was cut off there; and the row *)
(* of the meter says what its last entry says, whichever of two runs of    *)
(* the worker wrote it.                                                    *)
RowsAreOnRecord == \A p \in exists :
    /\ \A f \in Kinds : row[p][f] # 0 =>
          \/ \E i \in Entries(p) : f \in Fields(history[i].kind) /\ history[i].value = row[p][f]
          \/ \E s \in Reports : /\ report[s].of = p /\ f \in Fields(report[s].kind)
                               /\ report[s].stage \in {"log", "failed"}
                               /\ report[s].value = row[p][f]
    /\ meter[p].last = IF meter[p].log = <<>> THEN 0 ELSE meter[p].log[Len(meter[p].log)]

(* Unless two reports of a repository were under way at once, or one       *)
(* failed, the device and the cloud have the same size for it when no      *)
(* report is under way, and the last success is not after the last backup. *)
UncrossedReportsAgree == \A p \in exists \ crossed :
    UnderWay(p) = {} =>
        /\ local[p] = row[p]["size"]
        /\ row[p]["success"] <= row[p]["ended"]

(* Who reads on to the last page gets every row once that was there when   *)
(* he began and is still there, whatever is added or deleted meanwhile;    *)
(* but of a history the entries are missing that lie in the millisecond of *)
(* the last one of a page.                                                 *)
PagesMissOnlyTies == \A d \in Readers :
    reader[d].stage = "done" =>
        /\ reader[d].twice = {}
        /\ (reader[d].due \cap All(d)) \ reader[d].got \subseteq reader[d].tied
=============================================================================
