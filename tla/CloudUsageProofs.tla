-------------------------- MODULE CloudUsageProofs --------------------------
(***************************************************************************)
(* Proofs about CloudUsage: the tables keep their types, what a row of     *)
(* measures says is on record, sizes agree unless reports cross, and who   *)
(* pages through a history misses ties only, for any repositories,         *)
(* reports, runs of the worker, readers and sizes of pages.                *)
(***************************************************************************)
EXTENDS CloudUsage, FiniteSetTheorems, SequenceTheorems, TLAPS

Entry == [of : Repositories, kind : Kinds, value : Values, ms : 1 .. MaxTime]
MeterRow == [last : 0 .. MaxSize, log : Seq(1 .. MaxSize)]
ReportRow == [stage : {"idle", "stats", "save", "get", "write", "log", "done", "failed"},
              of : Repositories, kind : Kinds, value : Values]
SyncRow == [stage : {"idle", "listed", "read", "done", "failed"},
            known : SUBSET Repositories, left : SUBSET Repositories,
            stats : [Repositories -> 0 .. MaxSize]]
ReaderRow == [stage : {"idle", "page", "done"}, what : {"history", "list"},
              of : Repositories, cursor : Nat, got : SUBSET Nat,
              twice : SUBSET Nat, due : SUBSET Nat, tied : SUBSET Nat]

-----------------------------------------------------------------------------
(* Finite sets of numbers have a least and a greatest member. *)

(* Every set of numbers has a least one.                                   *)
LEMMA LeastNumber ==
    ASSUME NEW T, T \subseteq Nat, T # {}
    PROVE  \E x \in T : \A y \in T : x <= y
<1>1. PICK x \in T : \A y \in T : ~ (<<y, x>> \in OpToRel(<, Nat))
    BY NatLessThanWellFounded, WFMin
<1>2. \A y \in T : ~ (y < x)
    BY <1>1 DEF OpToRel
<1> QED BY <1>2

(* Of bounded counts one is the greatest.                                  *)
LEMMA GreatestCount ==
    ASSUME NEW T, T # {}, NEW n \in Nat, NEW count \in [T -> 0 .. n]
    PROVE  \E x \in T : \A y \in T : count[y] <= count[x]
<1> DEFINE Rooms == {m \in Nat : \E x \in T : m = n - count[x]}
<1>1. \A x \in T : n - count[x] \in Nat
    OBVIOUS
<1>2. \A x \in T : n - count[x] \in Rooms
    BY <1>1
<1>3. PICK m \in Rooms : \A k \in Rooms : m <= k
    BY <1>2, LeastNumber
<1>4. PICK x \in T : m = n - count[x]
    BY <1>3
<1>5. ASSUME NEW y \in T PROVE count[y] <= count[x]
  <2>1. m <= n - count[y]
      BY <1>2, <1>3
  <2> HIDE DEF Rooms
  <2> QED BY <1>4, <2>1
<1> QED BY <1>5

(* A finite set of numbers has a greatest one: the one with the most       *)
(* members before it.                                                      *)
LEMMA GreatestNumber ==
    ASSUME NEW T, T \subseteq Nat, T # {}, IsFiniteSet(T)
    PROVE  \E x \in T : \A y \in T : y <= x
<1> DEFINE below(x) == {y \in T : y < x}
           count == [x \in T |-> Cardinality(below(x))]
<1>1. \A x \in T : below(x) \in SUBSET T
    OBVIOUS
<1>2. \A x \in T : IsFiniteSet(below(x)) /\ Cardinality(below(x)) <= Cardinality(T)
    BY <1>1, FS_Subset
<1>3. Cardinality(T) \in Nat
    BY FS_CardinalityType
<1>4. \A x \in T : Cardinality(below(x)) \in 0 .. Cardinality(T)
  <2> TAKE x \in T
  <2>1. Cardinality(below(x)) \in Nat
      BY <1>2, FS_CardinalityType
  <2>2. Cardinality(below(x)) <= Cardinality(T)
      BY <1>2
  <2> HIDE DEF below
  <2> QED BY <1>3, <2>1, <2>2
<1>5. count \in [T -> 0 .. Cardinality(T)]
    BY <1>4
<1>6. PICK x \in T : \A y \in T : count[y] <= count[x]
  <2> HIDE DEF count
  <2> QED BY <1>3, <1>5, GreatestCount
<1>7. \A y \in T : Cardinality(below(y)) <= Cardinality(below(x))
    BY <1>6
<1>8. ASSUME NEW y \in T, x < y PROVE FALSE
  <2>1. x \in Nat /\ y \in Nat
      OBVIOUS
  <2>2. \A z \in T : z < x => z < y
    <3> TAKE z \in T
    <3>1. z \in Nat
        OBVIOUS
    <3> QED BY <1>8, <2>1, <3>1
  <2>3. below(x) \in SUBSET below(y)
      BY <2>2
  <2>4. x \in below(y) /\ x \notin below(x)
      BY <1>8, <2>1
  <2>5. Cardinality(below(x)) <= Cardinality(below(y)) /\ below(x) # below(y)
    <3> HIDE DEF below
    <3> QED BY <2>3, <2>4, <1>2, FS_Subset
  <2>6. Cardinality(below(x)) = Cardinality(below(y))
    <3>1. Cardinality(below(y)) <= Cardinality(below(x))
        BY <1>7
    <3>2. Cardinality(below(x)) \in 0 .. Cardinality(T) /\ Cardinality(below(y)) \in 0 .. Cardinality(T)
        BY <1>4
    <3> HIDE DEF below
    <3> QED BY <1>3, <2>5, <3>1, <3>2
  <2> HIDE DEF below
  <2> QED BY <2>3, <2>5, <2>6, <1>2, FS_Subset
<1> QED
  <2>1. \A y \in T : ~(x < y)
      BY <1>8
  <2> QED BY <2>1

-----------------------------------------------------------------------------
(* Pages. *)

(* The rows a reader may still be shown are finitely many numbers.         *)
LEMMA AfterFinite ==
    ASSUME UsageTypeOK, NEW d \in Readers
    PROVE  After(d) \subseteq Nat /\ IsFiniteSet(After(d)) /\ Shown(d) \subseteq After(d)
<1>1. reader[d] \in ReaderRow
    BY DEF UsageTypeOK, ReaderRow
<1>2. reader[d].what \in {"history", "list"}
    BY <1>1 DEF ReaderRow
<1>3. CASE reader[d].what = "history"
  <2>1. history \in Seq(Entry)
      BY DEF UsageTypeOK, Entry
  <2>2. Len(history) \in Nat /\ DOMAIN history = 1 .. Len(history)
      BY <2>1, LenProperties
  <2>3. After(d) \in SUBSET (1 .. Len(history))
      BY <1>3, <2>2 DEF After, All, Rows, Entries
  <2>4. IsFiniteSet(1 .. Len(history))
      BY <2>2, FS_Interval
  <2>5. IsFiniteSet(After(d))
      BY <2>3, <2>4, FS_Subset
  <2> QED BY <2>2, <2>3, <2>5 DEF Shown
<1>4. CASE reader[d].what = "list"
  <2>1. After(d) \in SUBSET Repositories
      BY <1>4 DEF After, All, Rows, UsageTypeOK
  <2>2. IsFiniteSet(After(d))
      BY <2>1, FS_Subset, UsageAssumption
  <2> QED BY <2>1, <2>2, UsageAssumption DEF Shown
<1> QED BY <1>2, <1>3, <1>4

(* Whatever rows there are, one of them comes first, and one last.         *)
LEMMA FirstAndLast ==
    ASSUME UsageTypeOK, NEW d \in Readers, NEW T, T \subseteq After(d), T # {}
    PROVE  /\ \E i \in T : \A j \in T : ~Before(d, j, i)
           /\ \E i \in T : \A j \in T \ {i} : Before(d, j, i)
<1>1. T \subseteq Nat /\ IsFiniteSet(T)
  <2>1. T \in SUBSET After(d)
      OBVIOUS
  <2> QED BY <2>1, AfterFinite, FS_Subset
<1>2. PICK least \in T : \A j \in T : least <= j
    BY <1>1, LeastNumber
<1>3. PICK greatest \in T : \A j \in T : j <= greatest
    BY <1>1, GreatestNumber
<1>4. CASE reader[d].what = "history"
  <2>1. \A j \in T : ~Before(d, j, greatest)
      BY <1>1, <1>3, <1>4 DEF Before
  <2>2. \A j \in T \ {least} : Before(d, j, least)
      BY <1>1, <1>2, <1>4 DEF Before
  <2> QED BY <2>1, <2>2
<1>5. CASE reader[d].what # "history"
  <2>1. \A j \in T : ~Before(d, j, least)
      BY <1>1, <1>2, <1>5 DEF Before
  <2>2. \A j \in T \ {greatest} : Before(d, j, greatest)
      BY <1>1, <1>3, <1>5 DEF Before
  <2> QED BY <2>1, <2>2
<1> QED BY <1>4, <1>5

(* A page that is not the last one has a last row.                         *)
LEMMA PageHasLast ==
    ASSUME UsageTypeOK, NEW d \in Readers, Shown(d) # After(d)
    PROVE  /\ LastShown(d) \in Shown(d)
           /\ \A j \in Shown(d) \ {LastShown(d)} : Before(d, j, LastShown(d))
<1>1. Shown(d) \subseteq After(d) /\ After(d) # {}
    BY AfterFinite
<1>2. PICK i \in After(d) : \A j \in After(d) : ~Before(d, j, i)
    BY <1>1, FirstAndLast
<1>3. {j \in After(d) : Before(d, j, i)} = {}
    BY <1>2
<1>4. i \in Shown(d)
    BY <1>2, <1>3, FS_EmptySet, UsageAssumption DEF Shown
<1>5. \E k \in Shown(d) : \A j \in Shown(d) \ {k} : Before(d, j, k)
    BY <1>1, <1>4, FirstAndLast
<1> QED BY <1>5 DEF LastShown

(* The rows of a page come before those that are left.                     *)
LEMMA RestIsLater ==
    ASSUME UsageTypeOK, NEW d \in Readers, NEW i \in Shown(d), NEW j \in After(d) \ Shown(d)
    PROVE  Before(d, i, j)
<1> DEFINE ahead(k) == {l \in After(d) : Before(d, l, k)}
<1>1. After(d) \subseteq Nat /\ IsFiniteSet(After(d)) /\ Shown(d) \subseteq After(d)
    BY AfterFinite
<1>2. i \in Nat /\ j \in Nat /\ i # j
    BY <1>1
<1>3. SUFFICES ASSUME Before(d, j, i) PROVE FALSE
    BY <1>2 DEF Before
<1>4. ahead(j) \in SUBSET ahead(i) /\ ahead(i) \in SUBSET After(d)
    BY <1>1, <1>2, <1>3 DEF Before
<1>5. IsFiniteSet(ahead(i)) /\ IsFiniteSet(ahead(j)) /\ Cardinality(ahead(j)) <= Cardinality(ahead(i))
    BY <1>1, <1>4, FS_Subset
<1>6. Cardinality(ahead(i)) \in Nat /\ Cardinality(ahead(j)) \in Nat
    BY <1>5, FS_CardinalityType
<1>7. Cardinality(ahead(i)) < Limit
    BY DEF Shown
<1>8. ~(Cardinality(ahead(j)) < Limit)
    BY DEF Shown
<1> QED BY <1>5, <1>6, <1>7, <1>8, UsageAssumption

-----------------------------------------------------------------------------
(* Types. *)

(* The types, with the records by name. *)
LEMMA TypesByName ==
    UsageTypeOK <=>
        /\ time \in 1 .. MaxTime /\ exists \subseteq Repositories /\ crossed \subseteq Repositories
        /\ local \in [Repositories -> 0 .. MaxSize]
        /\ row \in [Repositories -> [Kinds -> Values]]
        /\ history \in Seq(Entry)
        /\ meter \in [Repositories -> MeterRow]
        /\ report \in [Reports -> ReportRow]
        /\ sync \in [Syncs -> SyncRow]
        /\ reader \in [Readers -> ReaderRow]
BY Zenon DEF UsageTypeOK, Entry, MeterRow, ReportRow, SyncRow, ReaderRow

(* The values that the tables begin with. *)
LEMMA FirstValues ==
    /\ Someone \in Repositories /\ NoRow \in [Kinds -> Values] /\ 0 \in Values
    /\ NoReport \in ReportRow /\ NoSync \in SyncRow /\ NoReader \in ReaderRow
    /\ [last |-> 0, log |-> <<>>] \in MeterRow
<1>1. Someone \in Repositories
    BY UsageAssumption DEF Someone
<1>2. 0 \in Values /\ 0 \in 0 .. MaxSize
    BY UsageAssumption DEF Values
<1>3. NoRow \in [Kinds -> Values]
    BY <1>2 DEF NoRow
<1>4. NoReport \in ReportRow
    BY <1>1, <1>2 DEF NoReport, ReportRow, Kinds
<1>5. NoSync \in SyncRow
    BY <1>2 DEF NoSync, SyncRow
<1>6. NoReader \in ReaderRow
    BY <1>1 DEF NoReader, ReaderRow
<1>7. <<>> \in Seq(1 .. MaxSize)
    BY EmptySeq
<1>8. [last |-> 0, log |-> <<>>] \in MeterRow
    BY <1>2, <1>7 DEF MeterRow
<1> QED BY <1>1, <1>2, <1>3, <1>4, <1>5, <1>6, <1>8

(* What is saved on a device, and what is read from the object store, is a *)
(* size.                                                                   *)
SizesRead ==
    /\ \A s \in Reports : report[s].stage = "save" => report[s].value \in 1 .. MaxSize
    /\ \A y \in Syncs : sync[y].stage = "read" => sync[y].stats \in [Repositories -> 1 .. MaxSize]

TypeInv == UsageTypeOK /\ SizesRead

(* The tables begin with their types. *)
LEMMA InitTypes == UsageInit => TypeInv
<1> SUFFICES ASSUME UsageInit PROVE TypeInv
    OBVIOUS
<1>1. UsageTypeOK
  <2> USE FirstValues DEF UsageInit
  <2>1. time \in 1 .. MaxTime /\ exists \subseteq Repositories /\ crossed \subseteq Repositories
      BY UsageAssumption
  <2>2. local \in [Repositories -> 0 .. MaxSize] /\ row \in [Repositories -> [Kinds -> Values]]
      BY UsageAssumption
  <2>3. history \in Seq(Entry)
      BY EmptySeq
  <2>4. meter \in [Repositories -> MeterRow]
      OBVIOUS
  <2>5. report \in [Reports -> ReportRow] /\ sync \in [Syncs -> SyncRow]
      OBVIOUS
  <2>6. reader \in [Readers -> ReaderRow]
      OBVIOUS
  <2> QED BY <2>1, <2>2, <2>3, <2>4, <2>5, <2>6, TypesByName, Zenon
<1>2. SizesRead
    BY DEF UsageInit, SizesRead, NoReport, NoSync
<1> QED BY <1>1, <1>2 DEF TypeInv

(* The types before a step, by name. *)
LEMMA TypesBefore ==
    ASSUME UsageTypeOK
    PROVE  /\ time \in 1 .. MaxTime /\ exists \subseteq Repositories /\ crossed \subseteq Repositories
           /\ local \in [Repositories -> 0 .. MaxSize]
           /\ row \in [Repositories -> [Kinds -> Values]]
           /\ history \in Seq(Entry)
           /\ meter \in [Repositories -> MeterRow]
           /\ report \in [Reports -> ReportRow]
           /\ sync \in [Syncs -> SyncRow]
           /\ reader \in [Readers -> ReaderRow]
BY TypesByName, Zenon

(* The same after it. *)
LEMMA TypesAfter ==
    ASSUME time' \in 1 .. MaxTime, exists' \subseteq Repositories, crossed' \subseteq Repositories,
           local' \in [Repositories -> 0 .. MaxSize],
           row' \in [Repositories -> [Kinds -> Values]],
           history' \in Seq(Entry),
           meter' \in [Repositories -> MeterRow],
           report' \in [Reports -> ReportRow],
           sync' \in [Syncs -> SyncRow],
           reader' \in [Readers -> ReaderRow]
    PROVE  UsageTypeOK'
BY Zenon DEF UsageTypeOK, Entry, MeterRow, ReportRow, SyncRow, ReaderRow

(* A report's own row changes, and no other. *)
LEMMA ReportStays ==
    ASSUME UsageTypeOK, NEW s \in Reports, Report(s)
    PROVE  /\ \A t \in Reports \ {s} : report'[t] = report[t]
           /\ time' = time /\ exists' = exists /\ meter' = meter
           /\ sync' = sync /\ reader' = reader
BY TypesBefore DEF Report, BeginReport, ReadSize, SaveLocal, GetRepository, WriteRow, Log,
   ReportFails, Advance, cloud

(* A report changes the tables within their types. *)
LEMMA ReportTypes ==
    ASSUME TypeInv, NEW s \in Reports, Report(s)
    PROVE  TypeInv'
<1>0. UsageTypeOK /\ SizesRead
    BY DEF TypeInv
<1>1. /\ time \in 1 .. MaxTime /\ exists \subseteq Repositories /\ crossed \subseteq Repositories
      /\ local \in [Repositories -> 0 .. MaxSize]
      /\ row \in [Repositories -> [Kinds -> Values]]
      /\ history \in Seq(Entry)
      /\ meter \in [Repositories -> MeterRow]
      /\ report \in [Reports -> ReportRow]
      /\ sync \in [Syncs -> SyncRow]
      /\ reader \in [Readers -> ReaderRow]
    BY <1>0, TypesBefore
<1>2. /\ report[s] \in ReportRow /\ report[s].of \in Repositories /\ report[s].kind \in Kinds
      /\ report[s].value \in Values
    BY <1>1 DEF ReportRow
<1>3. time \in Values /\ \A n \in 1 .. MaxSize : n \in Values
    BY <1>1, UsageAssumption DEF Values
<1>4. /\ \A t \in Reports \ {s} : report'[t] = report[t]
      /\ time' = time /\ exists' = exists /\ meter' = meter /\ sync' = sync /\ reader' = reader
    BY <1>0, ReportStays
<1>5. SUFFICES /\ crossed' \subseteq Repositories
               /\ local' \in [Repositories -> 0 .. MaxSize]
               /\ row' \in [Repositories -> [Kinds -> Values]]
               /\ history' \in Seq(Entry)
               /\ report' \in [Reports -> ReportRow]
               /\ report'[s].stage = "save" => report'[s].value \in 1 .. MaxSize
  <2>1. SUFFICES UsageTypeOK' /\ SizesRead'
      BY DEF TypeInv
  <2>2. UsageTypeOK'
      BY <1>1, <1>4, TypesAfter
  <2>3. SizesRead'
      BY <1>0, <1>4 DEF SizesRead
  <2> QED BY <2>2, <2>3
<1>6. CASE \E p \in Repositories, kind \in Kinds : BeginReport(s, p, kind)
  <2>1. PICK p \in Repositories, kind \in Kinds : BeginReport(s, p, kind)
      BY <1>6
  <2>2. report' \in [Reports -> ReportRow] /\ report'[s].stage # "save"
      BY <1>1, <1>2, <2>1 DEF BeginReport, ReportRow
  <2>3. crossed' \subseteq Repositories /\ local' = local /\ row' = row /\ history' = history
      BY <1>1, <2>1 DEF BeginReport
  <2> QED BY <1>1, <2>2, <2>3
<1>7. CASE ReadSize(s)
  <2>1. PICK n \in 1 .. MaxSize :
          report' = [report EXCEPT ![s].stage = "save", ![s].value = n]
      BY <1>7 DEF ReadSize
  <2>2. report' \in [Reports -> ReportRow] /\ report'[s].value = n
      BY <1>1, <1>2, <1>3, <2>1 DEF ReportRow
  <2>3. crossed' = crossed /\ local' = local /\ row' = row /\ history' = history
      BY <1>7 DEF ReadSize, cloud
  <2> QED BY <1>1, <2>2, <2>3
<1>8. CASE SaveLocal(s)
  <2>1. report' \in [Reports -> ReportRow] /\ report'[s].stage # "save"
      BY <1>1, <1>2, <1>8 DEF SaveLocal, Advance, ReportRow
  <2>2. report[s].value \in 1 .. MaxSize
      BY <1>0, <1>8 DEF SaveLocal, SizesRead
  <2>3. local' \in [Repositories -> 0 .. MaxSize]
      BY <1>1, <1>2, <1>8, <2>2, UsageAssumption DEF SaveLocal
  <2>4. crossed' = crossed /\ row' = row /\ history' = history
      BY <1>8 DEF SaveLocal
  <2> QED BY <1>1, <2>1, <2>3, <2>4
<1>9. CASE GetRepository(s)
  <2>1. (IF report[s].kind = "size" THEN report[s].value ELSE time) \in Values
      BY <1>2, <1>3
  <2>2. report' \in [Reports -> ReportRow] /\ report'[s].stage # "save"
      BY <1>1, <1>2, <1>9, <2>1 DEF GetRepository, ReportRow
  <2>3. crossed' = crossed /\ local' = local /\ row' = row /\ history' = history
      BY <1>9 DEF GetRepository, cloud
  <2> QED BY <1>1, <2>2, <2>3
<1>10. CASE WriteRow(s)
  <2>1. report' \in [Reports -> ReportRow] /\ report'[s].stage # "save"
      BY <1>1, <1>2, <1>10 DEF WriteRow, Advance, ReportRow
  <2>2. row[report[s].of] \in [Kinds -> Values]
      BY <1>1, <1>2
  <2>3. row' \in [Repositories -> [Kinds -> Values]]
      BY <1>1, <1>2, <1>10, <2>2 DEF WriteRow
  <2>4. crossed' = crossed /\ local' = local /\ history' = history
      BY <1>10 DEF WriteRow
  <2> QED BY <1>1, <2>1, <2>3, <2>4
<1>11. CASE Log(s)
  <2>1. report' \in [Reports -> ReportRow] /\ report'[s].stage # "save"
      BY <1>1, <1>2, <1>11 DEF Log, Advance, ReportRow
  <2>2. [of |-> report[s].of, kind |-> report[s].kind, value |-> report[s].value, ms |-> time] \in Entry
      BY <1>1, <1>2 DEF Entry
  <2>3. history' \in Seq(Entry)
      BY <1>1, <1>11, <2>2, AppendProperties DEF Log
  <2>4. crossed' = crossed /\ local' = local /\ row' = row
      BY <1>11 DEF Log
  <2> QED BY <1>1, <2>1, <2>3, <2>4
<1>12. CASE ReportFails(s)
  <2>1. report' \in [Reports -> ReportRow] /\ report'[s].stage # "save"
      BY <1>1, <1>2, <1>12 DEF ReportFails, Advance, ReportRow
  <2>2. crossed' \subseteq Repositories /\ local' = local /\ row' = row /\ history' = history
      BY <1>1, <1>2, <1>12 DEF ReportFails
  <2> QED BY <1>1, <2>1, <2>2
<1> QED BY <1>6, <1>7, <1>8, <1>9, <1>10, <1>11, <1>12 DEF Report


(* Time passes, and a repository is deleted. *)
LEMMA TickTypes == TypeInv /\ Tick => TypeInv'
<1> SUFFICES ASSUME TypeInv, Tick PROVE TypeInv'
    OBVIOUS
<1>1. UsageTypeOK /\ SizesRead
    BY DEF TypeInv
<1>2. time' \in 1 .. MaxTime
    BY <1>1, TypesBefore, UsageAssumption DEF Tick
<1>3. /\ exists' = exists /\ local' = local /\ row' = row /\ history' = history /\ meter' = meter
      /\ crossed' = crossed /\ report' = report /\ sync' = sync /\ reader' = reader
    BY DEF Tick
<1>4. UsageTypeOK'
    BY <1>1, <1>2, <1>3, TypesBefore, TypesAfter
<1> QED BY <1>1, <1>3, <1>4 DEF TypeInv, SizesRead

(* The deletion of a repository, with its rows, keeps the types.           *)
LEMMA DeleteTypes ==
    ASSUME TypeInv, NEW p \in Repositories, DeleteRepository(p)
    PROVE  TypeInv'
<1>1. UsageTypeOK /\ SizesRead
    BY DEF TypeInv
<1>2. /\ time' = time /\ local' = local /\ history' = history
      /\ crossed' = crossed /\ report' = report /\ sync' = sync /\ reader' = reader
    BY DEF DeleteRepository
<1>3. exists' \subseteq Repositories
    BY <1>1, TypesBefore DEF DeleteRepository
<1>4. row' \in [Repositories -> [Kinds -> Values]]
    BY <1>1, TypesBefore, FirstValues DEF DeleteRepository
<1>5. meter' \in [Repositories -> MeterRow]
    BY <1>1, TypesBefore, FirstValues DEF DeleteRepository
<1>6. UsageTypeOK'
    BY <1>1, <1>2, <1>3, <1>4, <1>5, TypesBefore, TypesAfter
<1> QED BY <1>1, <1>2, <1>6 DEF TypeInv, SizesRead

(* A run of the worker changes the tables within their types. *)
LEMMA SyncStays ==
    ASSUME UsageTypeOK, NEW y \in Syncs, Sync(y)
    PROVE  /\ \A z \in Syncs \ {y} : sync'[z] = sync[z]
           /\ time' = time /\ exists' = exists /\ local' = local /\ row' = row /\ history' = history
           /\ crossed' = crossed /\ report' = report /\ reader' = reader
BY TypesBefore DEF Sync, ListRepositories, GetBucketStats, Record, SkipUnknown, SyncFails, SyncEnds, cloud

(* A step of the metrics worker keeps the types.                           *)
LEMMA SyncTypes ==
    ASSUME TypeInv, NEW y \in Syncs, Sync(y)
    PROVE  TypeInv'
<1>0. UsageTypeOK /\ SizesRead
    BY DEF TypeInv
<1>1. /\ exists \subseteq Repositories /\ meter \in [Repositories -> MeterRow] /\ sync \in [Syncs -> SyncRow]
    BY <1>0, TypesBefore
<1>2. /\ sync[y] \in SyncRow /\ sync[y].known \subseteq Repositories /\ sync[y].left \subseteq Repositories
    BY <1>1 DEF SyncRow
<1>3. \A z \in Syncs \ {y} : sync'[z] = sync[z]
    BY <1>0, SyncStays
<1>4. SUFFICES /\ meter' \in [Repositories -> MeterRow]
               /\ sync' \in [Syncs -> SyncRow]
               /\ sync'[y].stage = "read" => sync'[y].stats \in [Repositories -> 1 .. MaxSize]
  <2>1. SUFFICES UsageTypeOK' /\ SizesRead'
      BY DEF TypeInv
  <2>2. UsageTypeOK'
      BY <1>0, SyncStays, TypesBefore, TypesAfter
  <2>3. report' = report
      BY <1>0, SyncStays
  <2>4. SizesRead'
      BY <1>0, <1>3, <2>3 DEF SizesRead
  <2> QED BY <2>2, <2>4
<1>5. CASE ListRepositories(y)
  <2>1. sync' \in [Syncs -> SyncRow] /\ sync'[y].stage # "read"
      BY <1>1, <1>2, <1>5 DEF ListRepositories, SyncRow
  <2>2. meter' = meter
      BY <1>5 DEF ListRepositories, cloud
  <2> QED BY <1>1, <2>1, <2>2
<1>6. CASE GetBucketStats(y)
  <2>1. PICK stats \in [Repositories -> 1 .. MaxSize] :
          sync' = [sync EXCEPT ![y].stage = "read", ![y].left = Repositories, ![y].stats = stats]
      BY <1>6 DEF GetBucketStats
  <2>2. stats \in [Repositories -> 0 .. MaxSize]
      BY UsageAssumption
  <2>3. sync' \in [Syncs -> SyncRow] /\ sync'[y].stats = stats
      BY <1>1, <1>2, <2>1, <2>2 DEF SyncRow
  <2>4. meter' = meter
      BY <1>6 DEF GetBucketStats, cloud
  <2> QED BY <1>1, <2>3, <2>4
<1>7. CASE Record(y)
  <2>1. PICK p \in sync[y].left :
          /\ sync[y].stage = "read" /\ p \in sync[y].known \cap exists
          /\ meter' = [meter EXCEPT ![p] = [last |-> sync[y].stats[p], log |-> Append(@.log, sync[y].stats[p])]]
          /\ sync' = [sync EXCEPT ![y].left = @ \ {p}]
      BY <1>7, Zenon DEF Record
  <2>2. sync[y].stats \in [Repositories -> 1 .. MaxSize] /\ p \in Repositories
      BY <1>0, <1>2, <2>1 DEF SizesRead
  <2>3. sync[y].stats[p] \in 1 .. MaxSize /\ sync[y].stats[p] \in 0 .. MaxSize
      BY <2>2, UsageAssumption
  <2>4. meter[p].log \in Seq(1 .. MaxSize)
      BY <1>1, <2>2 DEF MeterRow
  <2>5. Append(meter[p].log, sync[y].stats[p]) \in Seq(1 .. MaxSize)
      BY <2>3, <2>4, AppendProperties
  <2>6. [last |-> sync[y].stats[p], log |-> Append(meter[p].log, sync[y].stats[p])] \in MeterRow
      BY <2>3, <2>5 DEF MeterRow
  <2>7. meter' \in [Repositories -> MeterRow]
      BY <1>1, <2>1, <2>2, <2>6
  <2>8. sync' \in [Syncs -> SyncRow] /\ sync'[y].stats = sync[y].stats
      BY <1>1, <1>2, <2>1 DEF SyncRow
  <2> QED BY <2>2, <2>7, <2>8
<1>8. CASE SkipUnknown(y)
  <2>1. PICK p \in sync[y].left \ sync[y].known :
          sync[y].stage = "read" /\ sync' = [sync EXCEPT ![y].left = @ \ {p}]
      BY <1>8, Zenon DEF SkipUnknown
  <2>2. sync' \in [Syncs -> SyncRow] /\ sync'[y].stats = sync[y].stats
      BY <1>1, <1>2, <2>1 DEF SyncRow
  <2>3. meter' = meter
      BY <1>8 DEF SkipUnknown, cloud
  <2>4. sync[y].stats \in [Repositories -> 1 .. MaxSize]
      BY <1>0, <2>1 DEF SizesRead
  <2> QED BY <1>1, <2>2, <2>3, <2>4
<1>9. CASE SyncFails(y) \/ SyncEnds(y)
  <2>1. \A st \in {"failed", "done"} : [NoSync EXCEPT !.stage = st] \in SyncRow
      BY FirstValues DEF SyncRow
  <2>2. PICK st \in {"failed", "done"} : sync' = [sync EXCEPT ![y] = [NoSync EXCEPT !.stage = st]]
      BY <1>9 DEF SyncFails, SyncEnds
  <2>3. sync' \in [Syncs -> SyncRow] /\ sync'[y].stage = st
      BY <1>1, <2>1, <2>2, FirstValues DEF SyncRow
  <2>4. meter' = meter
      BY <1>9 DEF SyncFails, SyncEnds, cloud
  <2> QED BY <1>1, <2>3, <2>4
<1> QED BY <1>5, <1>6, <1>7, <1>8, <1>9 DEF Sync

(* What a reader is shown is numbers, and his cursor is one. *)
LEMMA NextCursor ==
    ASSUME UsageTypeOK, NEW d \in Readers, Shown(d) # After(d)
    PROVE  /\ LastShown(d) \in After(d) /\ LastShown(d) \in All(d) /\ LastShown(d) \in Nat \ {0}
           /\ reader[d].what = "history" =>
                /\ LastShown(d) \in DOMAIN history
                /\ history[LastShown(d)].ms \in 1 .. MaxTime
<1>1. reader[d] \in ReaderRow /\ reader[d].what \in {"history", "list"}
    BY TypesBefore DEF ReaderRow
<1>2. LastShown(d) \in After(d)
    BY PageHasLast DEF Shown
<1>3. LastShown(d) \in All(d)
    BY <1>2 DEF After
<1>4. history \in Seq(Entry)
    BY TypesBefore
<1>5. Len(history) \in Nat /\ DOMAIN history = 1 .. Len(history) /\ history \in [1 .. Len(history) -> Entry]
    BY <1>4, LenProperties
<1>6. CASE reader[d].what = "history"
  <2>1. LastShown(d) \in 1 .. Len(history)
      BY <1>3, <1>5, <1>6 DEF All, Rows, Entries
  <2>2. history[LastShown(d)] \in Entry
      BY <1>5, <2>1
  <2>3. history[LastShown(d)].ms \in 1 .. MaxTime
      BY <2>2 DEF Entry
  <2> QED BY <1>2, <1>3, <1>5, <2>1, <2>3
<1>7. CASE reader[d].what = "list"
  <2>1. LastShown(d) \in exists
      BY <1>3, <1>7 DEF All, Rows
  <2> QED BY <1>2, <1>3, <1>7, <2>1, TypesBefore, UsageAssumption
<1> QED BY <1>1, <1>6, <1>7

(* What a reader goes through is numbered: entries by their place in the   *)
(* history, repositories by their id.                                      *)
LEMMA RowsAreNumbers ==
    ASSUME UsageTypeOK, NEW what \in {"history", "list"}, NEW p \in Repositories
    PROVE  Rows(what, p) \subseteq Nat
<1>1. history \in Seq(Entry) /\ exists \subseteq Repositories
    BY TypesBefore
<1>2. DOMAIN history \subseteq Nat
    BY <1>1, LenProperties
<1> QED BY <1>1, <1>2, UsageAssumption DEF Rows, Entries

(* A step of a reader keeps the types.                                     *)
LEMMA ReaderTypes ==
    ASSUME TypeInv, NEW d \in Readers, Reading(d)
    PROVE  TypeInv'
<1>0. UsageTypeOK /\ SizesRead
    BY DEF TypeInv
<1>1. reader \in [Readers -> ReaderRow] /\ reader[d] \in ReaderRow
    BY <1>0, TypesBefore
<1>2. cloud' = cloud /\ report' = report /\ sync' = sync
    BY DEF Reading, StartReading, ReadPage, LastPage, cloud
<1>3. SUFFICES reader' \in [Readers -> ReaderRow]
  <2>1. UsageTypeOK'
      BY <1>0, <1>2, <1>3, TypesBefore, TypesAfter DEF cloud
  <2> QED BY <1>0, <1>2, <2>1 DEF TypeInv, SizesRead
<1>4. After(d) \subseteq Nat /\ Shown(d) \subseteq Nat
    BY <1>0, AfterFinite
<1>5. AddPage(d) \in ReaderRow
    BY <1>1, <1>4 DEF AddPage, ReaderRow
<1>6. ASSUME NEW what \in {"history", "list"}, NEW p \in Repositories, StartReading(d, what, p)
      PROVE  reader' \in [Readers -> ReaderRow]
  <2>1. Rows(what, p) \subseteq Nat
      BY <1>0, RowsAreNumbers
  <2>2. [NoReader EXCEPT !.stage = "page", !.what = what, !.of = p, !.due = Rows(what, p)] \in ReaderRow
      BY <2>1, FirstValues DEF ReaderRow
  <2> QED BY <1>1, <1>6, <2>2 DEF StartReading
<1>7. CASE ReadPage(d)
  <2> DEFINE next == IF reader[d].what = "history" THEN history[LastShown(d)].ms ELSE LastShown(d)
  <2>1. next \in Nat
      BY <1>0, <1>7, NextCursor, UsageAssumption DEF ReadPage
  <2>2. PassedOver(d) \subseteq Nat
      BY <1>4 DEF PassedOver
  <2>3. reader' = [reader EXCEPT ![d] = [AddPage(d) EXCEPT !.cursor = next, !.tied = @ \cup PassedOver(d)]]
      BY <1>7, Zenon DEF ReadPage
  <2> HIDE DEF next
  <2>4. [AddPage(d) EXCEPT !.cursor = next, !.tied = @ \cup PassedOver(d)] \in ReaderRow
      BY <1>5, <2>1, <2>2 DEF ReaderRow
  <2> QED BY <1>1, <2>3, <2>4
<1>8. CASE LastPage(d)
  <2>1. [AddPage(d) EXCEPT !.stage = "done"] \in ReaderRow
      BY <1>5 DEF ReaderRow
  <2> QED BY <1>1, <1>8, <2>1 DEF LastPage
<1> QED BY <1>6, <1>7, <1>8 DEF Reading

(* The tables keep their types. *)
LEMMA NextTypes == TypeInv /\ [UsageNext]_usageVars => TypeInv'
<1> SUFFICES ASSUME TypeInv, [UsageNext]_usageVars PROVE TypeInv'
    OBVIOUS
<1>1. CASE UNCHANGED usageVars
    BY <1>1 DEF usageVars, cloud, TypeInv, UsageTypeOK, SizesRead
<1> QED BY <1>1, TickTypes, DeleteTypes, ReportTypes, SyncTypes, ReaderTypes DEF UsageNext

(* The rows and histories of measures, and what reports, runs of the       *)
(* worker and readers know, have their types in every state.               *)
THEOREM UsageTypeCorrect == UsageSpec => []UsageTypeOK
<1>1. TypeInv => UsageTypeOK
    BY DEF TypeInv
<1> QED BY <1>1, InitTypes, NextTypes, PTL DEF UsageSpec

-----------------------------------------------------------------------------
(* What a step leaves of the history. *)

(* The history only grows, and what is new in it is dated now; repositories *)
(* are only deleted; and time does not go back.                            *)
LEMMA HistoryGrows ==
    ASSUME UsageTypeOK, [UsageNext]_usageVars
    PROVE  /\ exists' \subseteq exists /\ time <= time'
           /\ DOMAIN history \subseteq DOMAIN history'
           /\ \A i \in DOMAIN history : history'[i] = history[i]
           /\ \A i \in DOMAIN history' \ DOMAIN history :
                 history'[i].ms = time /\ \A j \in DOMAIN history : j < i
<1>1. history \in Seq(Entry) /\ time \in Nat
    BY TypesBefore, UsageAssumption
<1>2. Len(history) \in Nat /\ DOMAIN history = 1 .. Len(history)
    BY <1>1, LenProperties
<1>3. ASSUME history' = history, exists' \subseteq exists, time' = time \/ time' = time + 1
      PROVE  /\ exists' \subseteq exists /\ time <= time'
             /\ DOMAIN history \subseteq DOMAIN history'
             /\ \A i \in DOMAIN history : history'[i] = history[i]
             /\ DOMAIN history' \ DOMAIN history = {}
    BY <1>1, <1>3
<1>4. CASE UNCHANGED usageVars
    BY <1>3, <1>4 DEF usageVars, cloud
<1>5. CASE Tick
    BY <1>3, <1>5 DEF Tick
<1>6. CASE \E p \in Repositories : DeleteRepository(p)
    BY <1>3, <1>6 DEF DeleteRepository
<1>7. CASE \E y \in Syncs : Sync(y)
    BY <1>3, <1>7, SyncStays
<1>8. CASE \E d \in Readers : Reading(d)
  <2>1. UNCHANGED cloud
      BY <1>8 DEF Reading, StartReading, ReadPage, LastPage
  <2> QED BY <1>3, <2>1 DEF cloud
<1>9. ASSUME NEW s \in Reports, Report(s), ~Log(s)
      PROVE  history' = history /\ exists' = exists /\ time' = time
    BY <1>9 DEF Report, BeginReport, ReadSize, SaveLocal, GetRepository, WriteRow, ReportFails, cloud
<1>10. ASSUME NEW s \in Reports, Log(s)
       PROVE  /\ exists' = exists /\ time' = time
              /\ DOMAIN history \subseteq DOMAIN history'
              /\ \A i \in DOMAIN history : history'[i] = history[i]
              /\ \A i \in DOMAIN history' \ DOMAIN history :
                    history'[i].ms = time /\ \A j \in DOMAIN history : j < i
  <2> DEFINE e == [of |-> report[s].of, kind |-> report[s].kind, value |-> report[s].value, ms |-> time]
  <2>1. report[s] \in ReportRow /\ report[s].of \in Repositories
      BY TypesBefore DEF ReportRow
  <2>2. e \in Entry
      BY <2>1, TypesBefore DEF Entry, ReportRow
  <2>3. history' = Append(history, e) /\ e.ms = time
      BY <1>10 DEF Log
  <2> HIDE DEF e
  <2>4. /\ Len(history') = Len(history) + 1 /\ history'[Len(history) + 1] = e
        /\ \A i \in 1 .. Len(history) : history'[i] = history[i]
        /\ DOMAIN history' = 1 .. Len(history) + 1
      BY <1>1, <1>2, <2>2, <2>3, AppendProperties, LenProperties
  <2>5. exists' = exists /\ time' = time
      BY <1>10 DEF Log
  <2> QED BY <1>2, <2>3, <2>4, <2>5
<1>11. CASE \E s \in Reports : Report(s)
  <2>1. PICK s \in Reports : Report(s)
      BY <1>11
  <2>2. CASE Log(s)
      BY <1>1, <1>10, <2>2
  <2>3. CASE ~Log(s)
      BY <1>3, <1>9, <2>1, <2>3
  <2> QED BY <2>2, <2>3
<1> QED BY <1>4, <1>5, <1>6, <1>7, <1>8, <1>11 DEF UsageNext

(* The entries of a repository stay as long as it does.                    *)
LEMMA EntriesStay ==
    ASSUME UsageTypeOK, [UsageNext]_usageVars, NEW p \in exists'
    PROVE  /\ Entries(p) \subseteq Entries(p)'
           /\ \A i \in Entries(p) : history'[i] = history[i]
BY HistoryGrows DEF Entries

-----------------------------------------------------------------------------
(* What the rows say is on record. *)

(* A field of a row has its entry, or a report that had it written is at   *)
(* its end.                                                                *)
Entered(p, f) == \E i \in Entries(p) : f \in Fields(history[i].kind) /\ history[i].value = row[p][f]
Reported(p, f) == \E s \in Reports :
    /\ report[s].of = p /\ f \in Fields(report[s].kind)
    /\ report[s].stage \in {"log", "failed"} /\ report[s].value = row[p][f]
FieldOnRecord(p, f) == row[p][f] # 0 => Entered(p, f) \/ Reported(p, f)
MeterOnRecord(p) == meter[p].last = IF meter[p].log = <<>> THEN 0 ELSE meter[p].log[Len(meter[p].log)]

(* The property, in parts: each measure of each repository, and each       *)
(* meter.                                                                  *)
LEMMA RecordsByName ==
    RowsAreOnRecord <=> \A p \in exists : MeterOnRecord(p) /\ \A f \in Kinds : FieldOnRecord(p, f)
BY DEF RowsAreOnRecord, Entered, Reported, FieldOnRecord, MeterOnRecord

(* At first there are no rows. *)
LEMMA InitOnRecord == UsageInit => RowsAreOnRecord
<1> SUFFICES ASSUME UsageInit PROVE RowsAreOnRecord
    OBVIOUS
<1>1. \A p \in Repositories : \A f \in Kinds : row[p][f] = 0
    BY DEF UsageInit, NoRow
<1>2. \A p \in Repositories : meter[p].last = 0 /\ meter[p].log = <<>>
    BY DEF UsageInit
<1> QED BY <1>1, <1>2, RecordsByName DEF UsageInit, FieldOnRecord, MeterOnRecord

(* An entry says what the row says until the row is written again.         *)
LEMMA EnteredStays ==
    ASSUME UsageTypeOK, [UsageNext]_usageVars, NEW p \in exists', NEW f \in Kinds,
           row'[p][f] = row[p][f], Entered(p, f)
    PROVE  Entered(p, f)'
BY EntriesStay DEF Entered

(* A row that a report has written is on record until the report is done,  *)
(* and then its entry is.                                                  *)
LEMMA ReportedStays ==
    ASSUME UsageTypeOK, NEW s \in Reports, Report(s), NEW p \in exists', NEW f \in Kinds,
           row'[p][f] = row[p][f], Reported(p, f)
    PROVE  Entered(p, f)' \/ Reported(p, f)'
<1>1. \A t \in Reports \ {s} : report'[t] = report[t]
    BY ReportStays
<1>2. PICK t \in Reports :
          /\ report[t].of = p /\ f \in Fields(report[t].kind)
          /\ report[t].stage \in {"log", "failed"} /\ report[t].value = row[p][f]
    BY DEF Reported
<1>3. CASE t # s
    BY <1>1, <1>2, <1>3 DEF Reported
<1>4. CASE t = s /\ Log(s)
  <2> DEFINE e == [of |-> report[s].of, kind |-> report[s].kind, value |-> report[s].value, ms |-> time]
  <2>1. history \in Seq(Entry) /\ e \in Entry
      BY TypesBefore DEF Entry, ReportRow
  <2>2. history' = Append(history, e) /\ e.of = p /\ f \in Fields(e.kind) /\ e.value = row[p][f]
      BY <1>2, <1>4 DEF Log
  <2> HIDE DEF e
  <2>3. Len(history) + 1 \in DOMAIN history' /\ history'[Len(history) + 1] = e
      BY <2>1, <2>2, AppendProperties, LenProperties
  <2>4. Len(history) + 1 \in Entries(p)'
      BY <2>2, <2>3 DEF Entries
  <2> QED BY <2>2, <2>3, <2>4 DEF Entered
<1>5. CASE t = s /\ ~Log(s)
  <2>1. report[s].stage \in {"log", "failed"} /\ ReportFails(s)
      BY <1>2, <1>5 DEF Report, BeginReport, ReadSize, SaveLocal, GetRepository, WriteRow
  <2>2. report' = [report EXCEPT ![s].stage = "failed"] /\ report \in [Reports -> ReportRow]
      BY <2>1, TypesBefore DEF ReportFails, Advance
  <2>3. /\ report'[s].stage = "failed" /\ report'[s].of = report[s].of
        /\ report'[s].kind = report[s].kind /\ report'[s].value = report[s].value
      BY <2>2 DEF ReportRow
  <2> QED BY <1>2, <1>5, <2>3 DEF Reported
<1> QED BY <1>3, <1>4, <1>5

(* A report keeps the rows on record. *)
LEMMA ReportOnRecord ==
    ASSUME TypeInv, RowsAreOnRecord, NEW s \in Reports, Report(s)
    PROVE  RowsAreOnRecord'
<1>1. UsageTypeOK /\ [UsageNext]_usageVars
    BY DEF TypeInv, UsageNext
<1>2. exists' = exists /\ meter' = meter
    BY <1>1, ReportStays
<1>3. \A p \in exists : MeterOnRecord(p) /\ \A f \in Kinds : FieldOnRecord(p, f)
    BY RecordsByName
<1>4. ASSUME NEW p \in exists', NEW f \in Kinds PROVE FieldOnRecord(p, f)'
  <2>1. CASE row'[p][f] = row[p][f]
      BY <1>1, <1>2, <1>3, <2>1, EnteredStays, ReportedStays DEF FieldOnRecord
  <2>2. CASE row'[p][f] # row[p][f]
    <3>1. WriteRow(s)
        BY <2>2 DEF Report, BeginReport, ReadSize, SaveLocal, GetRepository, Log, ReportFails, cloud
    <3>2. row \in [Repositories -> [Kinds -> Values]] /\ report \in [Reports -> ReportRow] /\ p \in Repositories
        BY <1>1, <1>2, TypesBefore
    <3>3. p = report[s].of /\ f \in Fields(report[s].kind) /\ row'[p][f] = report[s].value
        BY <2>2, <3>1, <3>2 DEF WriteRow
    <3>4. report'[s] = [report[s] EXCEPT !.stage = "log"] /\ report[s] \in ReportRow
        BY <3>1, <3>2 DEF WriteRow, Advance
    <3>5. /\ report'[s].stage = "log" /\ report'[s].of = report[s].of
          /\ report'[s].kind = report[s].kind /\ report'[s].value = report[s].value
        BY <3>4 DEF ReportRow
    <3> QED BY <3>3, <3>5 DEF FieldOnRecord, Reported
  <2> QED BY <2>1, <2>2
<1>5. \A p \in exists' : MeterOnRecord(p)'
    BY <1>2, <1>3 DEF MeterOnRecord
<1> QED BY <1>4, <1>5, RecordsByName DEF RowsAreOnRecord, Entered, Reported, FieldOnRecord, MeterOnRecord

(* So does a deletion, which leaves nothing to be on record. *)
LEMMA DeleteOnRecord ==
    ASSUME TypeInv, RowsAreOnRecord, NEW q \in Repositories, DeleteRepository(q)
    PROVE  RowsAreOnRecord'
<1>1. UsageTypeOK /\ [UsageNext]_usageVars
    BY DEF TypeInv, UsageNext
<1>2. \A p \in exists : MeterOnRecord(p) /\ \A f \in Kinds : FieldOnRecord(p, f)
    BY RecordsByName
<1>3. exists' = exists \ {q} /\ report' = report
    BY DEF DeleteRepository
<1>4. ASSUME NEW p \in exists' PROVE row'[p] = row[p] /\ meter'[p] = meter[p]
    BY <1>1, <1>3, TypesBefore DEF DeleteRepository
<1>5. ASSUME NEW p \in exists', NEW f \in Kinds PROVE FieldOnRecord(p, f)'
    BY <1>1, <1>2, <1>3, <1>4, EnteredStays DEF FieldOnRecord, Reported
<1>6. \A p \in exists' : MeterOnRecord(p)'
    BY <1>2, <1>3, <1>4 DEF MeterOnRecord
<1> QED BY <1>5, <1>6, RecordsByName DEF RowsAreOnRecord, Entered, Reported, FieldOnRecord, MeterOnRecord

(* And a run of the worker, which writes the row with its entry. *)
LEMMA SyncOnRecord ==
    ASSUME TypeInv, RowsAreOnRecord, NEW y \in Syncs, Sync(y)
    PROVE  RowsAreOnRecord'
<1>1. UsageTypeOK /\ [UsageNext]_usageVars /\ SizesRead
    BY DEF TypeInv, UsageNext
<1>2. \A p \in exists : MeterOnRecord(p) /\ \A f \in Kinds : FieldOnRecord(p, f)
    BY RecordsByName
<1>3. exists' = exists /\ report' = report /\ row' = row
    BY <1>1, SyncStays
<1>4. ASSUME NEW p \in exists', NEW f \in Kinds PROVE FieldOnRecord(p, f)'
    BY <1>1, <1>2, <1>3, EnteredStays DEF FieldOnRecord, Reported
<1>5. CASE Record(y)
  <2>1. PICK q \in sync[y].left :
          /\ sync[y].stage = "read" /\ q \in sync[y].known \cap exists
          /\ meter' = [meter EXCEPT ![q] = [last |-> sync[y].stats[q], log |-> Append(@.log, sync[y].stats[q])]]
      BY <1>5, Zenon DEF Record
  <2>2. /\ meter \in [Repositories -> MeterRow] /\ q \in Repositories
        /\ sync[y].stats \in [Repositories -> 1 .. MaxSize]
      BY <1>1, <2>1, TypesBefore DEF SizesRead
  <2>3. meter[q].log \in Seq(1 .. MaxSize) /\ sync[y].stats[q] \in 1 .. MaxSize
      BY <2>2 DEF MeterRow
  <2> DEFINE log == Append(meter[q].log, sync[y].stats[q])
  <2>4. Len(log) \in Nat \ {0} /\ log[Len(log)] = sync[y].stats[q] /\ log # <<>>
      BY <2>3, AppendProperties, EmptySeq, LenProperties
  <2>5. meter'[q] = [last |-> sync[y].stats[q], log |-> log]
      BY <2>1, <2>2
  <2>6. MeterOnRecord(q)'
    <3> HIDE DEF log
    <3> QED BY <2>4, <2>5 DEF MeterOnRecord
  <2>7. \A p \in exists \ {q} : meter'[p] = meter[p]
      BY <1>1, <2>1, <2>2, TypesBefore
  <2>8. \A p \in exists' : MeterOnRecord(p)'
      BY <1>2, <1>3, <2>6, <2>7 DEF MeterOnRecord
  <2> QED BY <1>4, <2>8, RecordsByName DEF RowsAreOnRecord, Entered, Reported, FieldOnRecord, MeterOnRecord
<1>6. CASE ~Record(y)
  <2>1. meter' = meter
      BY <1>6 DEF Sync, ListRepositories, GetBucketStats, SkipUnknown, SyncFails, SyncEnds, cloud
  <2>2. \A p \in exists' : MeterOnRecord(p)'
      BY <1>2, <1>3, <2>1 DEF MeterOnRecord
  <2> QED BY <1>4, <2>2, RecordsByName DEF RowsAreOnRecord, Entered, Reported, FieldOnRecord, MeterOnRecord
<1> QED BY <1>5, <1>6

(* Time and readers leave the rows alone. *)
LEMMA NextOnRecord == TypeInv /\ RowsAreOnRecord /\ [UsageNext]_usageVars => RowsAreOnRecord'
<1> SUFFICES ASSUME TypeInv, RowsAreOnRecord, [UsageNext]_usageVars PROVE RowsAreOnRecord'
    OBVIOUS
<1>1. CASE UNCHANGED <<exists, row, history, meter, report>>
    BY <1>1 DEF RowsAreOnRecord, Entries
<1>2. CASE Tick
    BY <1>1, <1>2 DEF Tick
<1>3. CASE \E d \in Readers : Reading(d)
    BY <1>1, <1>3 DEF Reading, StartReading, ReadPage, LastPage, cloud
<1>4. CASE UNCHANGED usageVars
    BY <1>1, <1>4 DEF usageVars, cloud
<1> QED BY <1>2, <1>3, <1>4, ReportOnRecord, DeleteOnRecord, SyncOnRecord DEF UsageNext

(* Whatever a row of a repository's measures says was reported: there is   *)
(* an entry of it in the history, or the report got no further than the    *)
(* row; and the row of the meter says what its last entry says.            *)
THEOREM MeasuresAreOnRecord == UsageSpec => []RowsAreOnRecord
BY InitTypes, NextTypes, InitOnRecord, NextOnRecord, PTL DEF UsageSpec

-----------------------------------------------------------------------------
(* Sizes agree. *)

(* Before it sets anything, a report of a size has put it down on the      *)
(* device.                                                                 *)
Halfway(s) == report[s].kind = "size" /\ report[s].stage \in {"get", "write"}

SizesFirst == \A s \in Reports : report[s].stage \in {"stats", "save"} => report[s].kind = "size"

(* No success, and no time taken, is after now. *)
Timed(s) == report[s].stage = "write" /\ report[s].kind # "size"
NotAfterNow ==
    /\ \A p \in Repositories : row[p]["success"] <= time
    /\ \A s \in Reports : Timed(s) => report[s].value <= time

(* A repository whose reports have not crossed. *)
Agrees(p) ==
    /\ \A s, t \in UnderWay(p) : s = t
    /\ row[p]["success"] <= row[p]["ended"]
    /\ \A s \in UnderWay(p) : Halfway(s) => local[p] = report[s].value
    /\ (\A s \in UnderWay(p) : ~Halfway(s)) => local[p] = row[p]["size"]
    /\ \A s \in UnderWay(p) : Timed(s) => row[p]["success"] <= report[s].value

AgreeInv == SizesFirst /\ NotAfterNow /\ \A p \in exists \ crossed : Agrees(p)

(* At first nothing is reported. *)
LEMMA InitAgrees == UsageInit => AgreeInv
<1> SUFFICES ASSUME UsageInit PROVE AgreeInv
    OBVIOUS
<1>1. \A s \in Reports : report[s].stage = "idle"
    BY DEF UsageInit, NoReport
<1>2. \A p \in Repositories : local[p] = 0 /\ row[p] = NoRow /\ UnderWay(p) = {}
    BY <1>1 DEF UsageInit, UnderWay
<1>3. SizesFirst
    BY <1>1 DEF SizesFirst
<1>4. NotAfterNow
    BY <1>1, <1>2 DEF NotAfterNow, NoRow, Kinds, Timed, UsageInit
<1>5. \A p \in Repositories : Agrees(p)
    BY <1>2 DEF Agrees, NoRow, Kinds
<1> QED BY <1>3, <1>4, <1>5 DEF AgreeInv, UsageInit

(* How a report goes on. *)
LEMMA ReportMoves ==
    ASSUME UsageTypeOK, NEW s \in Reports, Report(s)
    PROVE  /\ report[s].stage # "idle" => report'[s].of = report[s].of /\ report'[s].kind = report[s].kind
           /\ report[s].stage = "idle" => UNCHANGED <<row, local>>
           /\ report'[s].stage = "save" => report[s].stage = "stats"
           /\ report'[s].stage = "stats" => report'[s].kind = "size"
           /\ report'[s].stage = "write" => GetRepository(s)
<1>1. report \in [Reports -> ReportRow] /\ report[s] \in ReportRow
    BY TypesBefore
<1>2. CASE \E q \in Repositories, kind \in Kinds : BeginReport(s, q, kind)
  <2>1. PICK q \in Repositories, kind \in Kinds : BeginReport(s, q, kind)
      BY <1>2
  <2>2. report'[s].stage = (IF kind = "size" THEN "stats" ELSE "get") /\ report'[s].kind = kind
      BY <1>1, <2>1 DEF BeginReport, ReportRow
  <2> QED BY <2>1, <2>2 DEF BeginReport
<1>3. CASE ReadSize(s)
    BY <1>1, <1>3 DEF ReadSize, ReportRow
<1>4. CASE GetRepository(s)
    BY <1>1, <1>4 DEF GetRepository, ReportRow
<1>5. ASSUME NEW stage \in {"get", "log", "done", "failed"}, Advance(s, stage)
      PROVE  /\ report'[s].of = report[s].of /\ report'[s].kind = report[s].kind
             /\ report'[s].stage = stage
    BY <1>1, <1>5 DEF Advance, ReportRow
<1>6. CASE SaveLocal(s)
    BY <1>5, <1>6 DEF SaveLocal
<1>7. CASE WriteRow(s)
    BY <1>5, <1>7 DEF WriteRow
<1>8. CASE Log(s)
    BY <1>5, <1>8 DEF Log
<1>9. CASE ReportFails(s)
    BY <1>5, <1>9 DEF ReportFails
<1> QED BY <1>2, <1>3, <1>4, <1>6, <1>7, <1>8, <1>9 DEF Report

(* A report gives a repository's row a time that it has taken. *)
LEMMA ReportNotAfterNow ==
    ASSUME TypeInv, SizesFirst, NotAfterNow, NEW s \in Reports, Report(s)
    PROVE  SizesFirst' /\ NotAfterNow'
<1>1. /\ UsageTypeOK /\ time \in Nat /\ report \in [Reports -> ReportRow]
      /\ row \in [Repositories -> [Kinds -> Values]]
    BY TypesBefore, UsageAssumption DEF TypeInv
<1>2. report[s] \in ReportRow /\ report[s].of \in Repositories /\ report[s].kind \in Kinds
    BY <1>1 DEF ReportRow
<1>3. time' = time /\ \A t \in Reports \ {s} : report'[t] = report[t]
    BY <1>1, ReportStays
<1>4. report'[s].stage \in {"stats", "save"} => report'[s].kind = "size"
    BY <1>1, ReportMoves DEF SizesFirst
<1>5. Timed(s)' => report'[s].value <= time
  <2> SUFFICES ASSUME Timed(s)' PROVE report'[s].value <= time
      OBVIOUS
  <2>1. report'[s].stage = "write" /\ report'[s].kind # "size"
      BY DEF Timed
  <2>2. GetRepository(s)
      BY <1>1, <2>1, ReportMoves
  <2>3. report'[s].value = time
      BY <1>1, <1>2, <2>1, <2>2 DEF GetRepository, ReportRow
  <2> QED BY <1>1, <2>3
<1>6. ASSUME NEW p \in Repositories PROVE row'[p]["success"] <= time
  <2>1. CASE WriteRow(s) /\ report[s].of = p /\ report[s].kind = "success"
    <3>1. row'[p]["success"] = report[s].value
        BY <1>1, <2>1 DEF WriteRow, Fields, Kinds
    <3>2. Timed(s)
        BY <2>1 DEF WriteRow, Timed
    <3> QED BY <3>1, <3>2 DEF NotAfterNow
  <2>2. CASE WriteRow(s) /\ ~(report[s].of = p /\ report[s].kind = "success")
    <3>1. row'[p]["success"] = row[p]["success"]
        BY <1>1, <1>2, <2>2 DEF WriteRow, Fields, Kinds
    <3> QED BY <3>1 DEF NotAfterNow
  <2>3. CASE ~WriteRow(s)
    <3>1. row' = row
        BY <2>3 DEF Report, BeginReport, ReadSize, SaveLocal, GetRepository, Log, ReportFails, cloud
    <3> QED BY <3>1 DEF NotAfterNow
  <2> QED BY <2>1, <2>2, <2>3
<1> QED BY <1>3, <1>4, <1>5, <1>6 DEF SizesFirst, NotAfterNow, Timed

(* A report leaves the repositories alone that it is not of. *)
LEMMA OthersAgree ==
    ASSUME TypeInv, NEW s \in Reports, Report(s), NEW p \in exists', p # report'[s].of, Agrees(p)
    PROVE  Agrees(p)'
<1>1. /\ UsageTypeOK /\ report \in [Reports -> ReportRow] /\ row \in [Repositories -> [Kinds -> Values]]
      /\ local \in [Repositories -> 0 .. MaxSize]
    BY TypesBefore DEF TypeInv
<1>2. report[s] \in ReportRow /\ exists' = exists /\ p \in Repositories
    BY <1>1, ReportStays, TypesBefore
<1>3. report[s].stage = "idle" \/ report[s].of # p
    BY <1>1, ReportMoves
<1>4. \A t \in Reports \ {s} : report'[t] = report[t]
    BY <1>1, ReportStays
<1>5. s \notin UnderWay(p) /\ s \notin UnderWay(p)'
    BY <1>3 DEF UnderWay
<1>6. UnderWay(p)' = UnderWay(p) /\ \A t \in UnderWay(p) : report'[t] = report[t]
    BY <1>4, <1>5 DEF UnderWay
<1>7. row'[p] = row[p] /\ local'[p] = local[p]
    BY <1>1, <1>2, <1>3 DEF Report, BeginReport, ReadSize, SaveLocal, GetRepository, WriteRow,
       Log, ReportFails, Advance, cloud
<1> QED BY <1>6, <1>7 DEF Agrees, Halfway, Timed

(* What is to be shown of the repository that the report is of. *)
LEMMA AgreesAfter ==
    ASSUME NEW s, NEW p, UnderWay(p)' \subseteq {s},
           row'[p]["success"] <= row'[p]["ended"],
           s \in UnderWay(p)' /\ Halfway(s)' => local'[p] = report'[s].value,
           ~(s \in UnderWay(p)' /\ Halfway(s)') => local'[p] = row'[p]["size"],
           s \in UnderWay(p)' /\ Timed(s)' => row'[p]["success"] <= report'[s].value
    PROVE  Agrees(p)'
BY DEF Agrees, Halfway, Timed, UnderWay

(* A report that no other crosses keeps the device and the cloud agreed.   *)
LEMMA OwnAgrees ==
    ASSUME TypeInv, AgreeInv, NEW s \in Reports, Report(s), NEW p \in exists',
           p = report'[s].of, p \notin crossed'
    PROVE  Agrees(p)'
<1>1. /\ UsageTypeOK /\ report \in [Reports -> ReportRow] /\ row \in [Repositories -> [Kinds -> Values]]
      /\ local \in [Repositories -> 0 .. MaxSize] /\ time \in Nat
    BY TypesBefore, UsageAssumption DEF TypeInv
<1>2. report[s] \in ReportRow /\ report[s].of \in Repositories /\ report[s].kind \in Kinds
    BY <1>1 DEF ReportRow
<1>3. exists' = exists /\ p \in Repositories /\ p \in exists /\ \A t \in Reports \ {s} : report'[t] = report[t]
    BY <1>1, ReportStays, TypesBefore
<1>4. p \notin crossed
    BY DEF Report, BeginReport, ReadSize, SaveLocal, GetRepository, WriteRow, Log, ReportFails, cloud
<1>5. Agrees(p) /\ SizesFirst /\ NotAfterNow
    BY <1>3, <1>4 DEF AgreeInv
<1>6. row[p]["success"] \in Nat /\ row[p]["ended"] \in Nat /\ row[p]["success"] <= row[p]["ended"]
  <2>1. row[p] \in [Kinds -> Values] /\ Values \subseteq Nat
      BY <1>1, <1>3, UsageAssumption DEF Values
  <2> QED BY <1>5, <2>1 DEF Agrees, Kinds
<1>7. CASE \E q \in Repositories, kind \in Kinds : BeginReport(s, q, kind)
  <2>1. PICK q \in Repositories, kind \in Kinds : BeginReport(s, q, kind)
      BY <1>7
  <2>2. q = p /\ report'[s].stage \in {"stats", "get"} /\ (report'[s].stage = "get" => report'[s].kind # "size")
      BY <1>1, <1>2, <2>1 DEF BeginReport, ReportRow
  <2>3. UnderWay(p) = {}
      BY <2>1, <2>2 DEF BeginReport
  <2>4. UnderWay(p)' \subseteq {s}
      BY <1>3, <2>3 DEF UnderWay
  <2>5. local'[p] = row'[p]["size"] /\ row' = row
      BY <1>5, <2>1, <2>3 DEF Agrees, BeginReport
  <2>6. ~Halfway(s)' /\ ~Timed(s)'
      BY <2>2 DEF Halfway, Timed
  <2> QED BY <1>6, <2>4, <2>5, <2>6, AgreesAfter
<1>8. CASE ~\E q \in Repositories, kind \in Kinds : BeginReport(s, q, kind)
  <2>1. ~ReportFails(s)
      BY <1>1, <1>2 DEF ReportFails, Advance, ReportRow
  <2>2. ReadSize(s) \/ SaveLocal(s) \/ GetRepository(s) \/ WriteRow(s) \/ Log(s)
      BY <1>8, <2>1 DEF Report
  <2>3. report[s].of = p /\ report'[s].kind = report[s].kind
      BY <1>1, <1>2, <2>2 DEF ReadSize, SaveLocal, GetRepository, WriteRow, Log, Advance, ReportRow
  <2>4. s \in UnderWay(p)
      BY <2>2, <2>3 DEF UnderWay, ReadSize, SaveLocal, GetRepository, WriteRow, Log
  <2>5. UnderWay(p) = {s} /\ UnderWay(p)' \subseteq {s}
      BY <1>3, <1>5, <2>4 DEF Agrees, UnderWay
  <2>6. /\ Halfway(s) => local[p] = report[s].value
        /\ ~Halfway(s) => local[p] = row[p]["size"]
        /\ Timed(s) => row[p]["success"] <= report[s].value
      BY <1>5, <2>5 DEF Agrees
  <2>7. CASE ReadSize(s)
    <3>1. report'[s].stage = "save" /\ row' = row /\ local' = local
        BY <1>1, <1>2, <2>7 DEF ReadSize, cloud, ReportRow
    <3>2. ~Halfway(s) /\ ~Halfway(s)' /\ ~Timed(s)'
        BY <2>7, <3>1 DEF ReadSize, Halfway, Timed
    <3> QED BY <1>6, <2>5, <2>6, <3>1, <3>2, AgreesAfter
  <2>8. CASE SaveLocal(s)
    <3>1. /\ report'[s].stage = "get" /\ report'[s].value = report[s].value /\ row' = row
          /\ local'[p] = report[s].value
        BY <1>1, <1>2, <1>3, <2>3, <2>8 DEF SaveLocal, Advance, ReportRow
    <3>2. report[s].kind = "size"
        BY <1>5, <2>8 DEF SaveLocal, SizesFirst
    <3>3. Halfway(s)' /\ ~Timed(s)' /\ s \in UnderWay(p)'
        BY <2>3, <3>1, <3>2 DEF Halfway, Timed, UnderWay
    <3> QED BY <1>6, <2>5, <3>1, <3>3, AgreesAfter
  <2>9. CASE GetRepository(s)
    <3>1. /\ report'[s].stage = "write" /\ row' = row /\ local' = local
          /\ report'[s].value = IF report[s].kind = "size" THEN report[s].value ELSE time
        BY <1>1, <1>2, <2>9 DEF GetRepository, cloud, ReportRow
    <3>2. (Halfway(s) <=> report[s].kind = "size") /\ (Halfway(s)' <=> report[s].kind = "size")
        BY <2>3, <2>9, <3>1 DEF GetRepository, Halfway
    <3>3. Timed(s)' => row[p]["success"] <= report'[s].value
        BY <1>3, <1>5, <2>3, <3>1 DEF NotAfterNow, Timed
    <3>4. s \in UnderWay(p)'
        BY <3>1 DEF UnderWay
    <3>5. local'[p] = IF Halfway(s)' THEN report'[s].value ELSE row'[p]["size"]
        BY <2>6, <3>1, <3>2
    <3> QED BY <1>6, <2>5, <3>1, <3>3, <3>4, <3>5, AgreesAfter
  <2>10. CASE WriteRow(s)
    <3>1. report'[s].stage = "log" /\ local' = local
        BY <1>1, <1>2, <2>10 DEF WriteRow, Advance, ReportRow
    <3>2. \A f \in Kinds : row'[p][f] = IF f \in Fields(report[s].kind) THEN report[s].value ELSE row[p][f]
        BY <1>1, <1>3, <2>3, <2>10 DEF WriteRow
    <3>3. ~Halfway(s)' /\ ~Timed(s)'
        BY <3>1 DEF Halfway, Timed
    <3>4. CASE report[s].kind = "size"
      <4>1. row'[p]["size"] = report[s].value /\ row'[p]["success"] = row[p]["success"]
            /\ row'[p]["ended"] = row[p]["ended"]
          BY <3>2, <3>4 DEF Fields, Kinds
      <4>2. local[p] = report[s].value
          BY <2>6, <2>10, <3>4 DEF Halfway, WriteRow
      <4> QED BY <1>6, <2>5, <3>1, <3>3, <4>1, <4>2, AgreesAfter
    <3>5. CASE report[s].kind # "size"
      <4>1. row[p]["success"] <= report[s].value /\ local[p] = row[p]["size"]
          BY <2>6, <2>10, <3>5 DEF Timed, Halfway, WriteRow
      <4>2. row'[p]["size"] = row[p]["size"]
          BY <3>2, <3>5 DEF Fields, Kinds
      <4>3. report[s].value \in Nat
        <5>1. report[s].value \in Values
            BY <1>2 DEF ReportRow
        <5> QED BY <5>1, UsageAssumption DEF Values
      <4>4. row'[p]["success"] <= row'[p]["ended"]
          BY <1>2, <1>6, <3>2, <3>5, <4>1, <4>3 DEF Fields, Kinds
      <4> QED BY <2>5, <3>1, <3>3, <4>1, <4>2, <4>4, AgreesAfter
    <3> QED BY <3>4, <3>5
  <2>11. CASE Log(s)
    <3>1. report'[s].stage = "done" /\ local' = local /\ row' = row
        BY <1>1, <1>2, <2>11 DEF Log, Advance, ReportRow
    <3>2. ~Halfway(s) /\ ~Halfway(s)' /\ ~Timed(s)'
        BY <2>11, <3>1 DEF Log, Halfway, Timed
    <3> QED BY <1>6, <2>5, <2>6, <3>1, <3>2, AgreesAfter
  <2> QED BY <2>2, <2>7, <2>8, <2>9, <2>10, <2>11
<1> QED BY <1>7, <1>8

(* Every step keeps them agreed. *)
LEMMA NextAgrees == TypeInv /\ AgreeInv /\ [UsageNext]_usageVars => AgreeInv'
<1> SUFFICES ASSUME TypeInv, AgreeInv, [UsageNext]_usageVars PROVE AgreeInv'
    OBVIOUS
<1>0. UsageTypeOK /\ time \in Nat
    BY TypesBefore, UsageAssumption DEF TypeInv
<1>1. ASSUME report' = report, row' = row, local' = local, crossed' = crossed, exists' = exists, time' = time
      PROVE  AgreeInv'
    BY <1>1 DEF AgreeInv, SizesFirst, NotAfterNow, Timed, Agrees, Halfway, UnderWay
<1>2. CASE UNCHANGED usageVars
    BY <1>1, <1>2 DEF usageVars, cloud
<1>3. CASE Tick
  <2>1. /\ report' = report /\ row' = row /\ local' = local /\ crossed' = crossed /\ exists' = exists
        /\ time' = time + 1
      BY <1>3 DEF Tick
  <2>2. \A p \in Repositories : row[p]["success"] \in Nat
    <3>1. row \in [Repositories -> [Kinds -> Values]] /\ Values \subseteq Nat /\ "success" \in Kinds
        BY <1>0, TypesBefore, UsageAssumption DEF Values, Kinds
    <3> QED BY <3>1
  <2>3. \A s \in Reports : report[s].value \in Nat
    <3>1. report \in [Reports -> ReportRow] /\ Values \subseteq Nat
        BY <1>0, TypesBefore, UsageAssumption DEF Values
    <3> QED BY <3>1 DEF ReportRow
  <2>4. NotAfterNow'
      BY <1>0, <2>1, <2>2, <2>3 DEF AgreeInv, NotAfterNow, Timed
  <2> QED BY <2>1, <2>4 DEF AgreeInv, SizesFirst, Agrees, Timed, Halfway, UnderWay
<1>4. ASSUME NEW q \in Repositories, DeleteRepository(q) PROVE AgreeInv'
  <2>1. report' = report /\ local' = local /\ crossed' = crossed /\ exists' = exists \ {q} /\ time' = time
      BY <1>4 DEF DeleteRepository
  <2>2. row' = [row EXCEPT ![q] = NoRow] /\ row \in [Repositories -> [Kinds -> Values]]
      BY <1>0, <1>4, TypesBefore DEF DeleteRepository
  <2>3. \A p \in Repositories : row'[p]["success"] = 0 \/ row'[p] = row[p]
      BY <2>2 DEF NoRow, Kinds
  <2>4. \A p \in exists' : row'[p] = row[p]
      BY <1>0, <2>1, <2>2, TypesBefore
  <2>5. NotAfterNow'
      BY <1>0, <2>1, <2>3 DEF AgreeInv, NotAfterNow, Timed
  <2>6. SizesFirst'
      BY <2>1 DEF AgreeInv, SizesFirst
  <2>7. \A p \in exists' \ crossed' : Agrees(p)'
      BY <2>1, <2>4 DEF AgreeInv, Agrees, Timed, Halfway, UnderWay
  <2> QED BY <2>5, <2>6, <2>7 DEF AgreeInv
<1>5. ASSUME NEW s \in Reports, Report(s) PROVE AgreeInv'
  <2>1. SizesFirst' /\ NotAfterNow'
      BY <1>5, ReportNotAfterNow DEF AgreeInv
  <2>2. exists' = exists /\ crossed \subseteq crossed'
    <3>1. crossed \subseteq crossed'
        BY <1>5 DEF Report, BeginReport, ReadSize, SaveLocal, GetRepository, WriteRow, Log, ReportFails, cloud
    <3> QED BY <1>0, <1>5, <3>1, ReportStays
  <2>3. ASSUME NEW p \in exists' \ crossed' PROVE Agrees(p)'
    <3>1. Agrees(p)
        BY <2>2, <2>3 DEF AgreeInv
    <3> QED BY <1>5, <2>3, <3>1, OthersAgree, OwnAgrees
  <2> QED BY <2>1, <2>3 DEF AgreeInv
<1>6. ASSUME NEW y \in Syncs, Sync(y) PROVE AgreeInv'
    BY <1>0, <1>1, <1>6, SyncStays
<1>7. ASSUME NEW d \in Readers, Reading(d) PROVE AgreeInv'
  <2>1. UNCHANGED <<cloud, report>>
      BY <1>7 DEF Reading, StartReading, ReadPage, LastPage
  <2> QED BY <1>1, <2>1 DEF cloud
<1> QED BY <1>2, <1>3, <1>4, <1>5, <1>6, <1>7 DEF UsageNext

(* The device and the cloud have the same size of a repository whose       *)
(* reports were made one after the other and whole, when none is under     *)
(* way; and its last success is not after its last backup.                 *)
THEOREM SizesAgree == UsageSpec => []UncrossedReportsAgree
<1>1. AgreeInv => UncrossedReportsAgree
    BY DEF AgreeInv, Agrees, UncrossedReportsAgree
<1> QED BY <1>1, InitTypes, NextTypes, InitAgrees, NextAgrees, PTL DEF UsageSpec

-----------------------------------------------------------------------------
(* Readers miss ties only. *)

(* The entries of the history are in the order of time. *)
InTime ==
    /\ \A i, j \in DOMAIN history : i <= j => history[i].ms <= history[j].ms
    /\ \A i \in DOMAIN history : history[i].ms <= time

(* What a reader has been shown lies before his cursor; what was due and   *)
(* was not shown lies behind it, or was passed over.                       *)
Seen(d) ==
    /\ reader[d].got \subseteq Nat
    /\ reader[d].cursor = 0 => reader[d].got = {}
    /\ \A i \in reader[d].got :
          IF reader[d].what = "history" THEN history[i].ms >= reader[d].cursor
                                        ELSE i <= reader[d].cursor

Missing(d) == (reader[d].due \cap All(d)) \ reader[d].got

ReaderOK(d) == reader[d].stage # "idle" =>
    /\ reader[d].twice = {}
    /\ reader[d].what = "history" => reader[d].due \subseteq DOMAIN history
                                     /\ reader[d].got \subseteq DOMAIN history
    /\ reader[d].stage = "page" => Seen(d) /\ Missing(d) \subseteq reader[d].tied \cup After(d)
    /\ reader[d].stage = "done" => Missing(d) \subseteq reader[d].tied

ReaderInv == InTime /\ \A d \in Readers : ReaderOK(d)

(* The milliseconds of entries are numbers. *)
LEMMA EntryTimes ==
    ASSUME UsageTypeOK
    PROVE  \A i \in DOMAIN history : i \in Nat /\ history[i].ms \in Nat \ {0}
<1>1. history \in Seq(Entry)
    BY TypesBefore
<1>2. Len(history) \in Nat /\ DOMAIN history = 1 .. Len(history) /\ history \in [1 .. Len(history) -> Entry]
    BY <1>1, LenProperties
<1>3. \A i \in DOMAIN history : history[i] \in Entry
    BY <1>2
<1> QED BY <1>2, <1>3, UsageAssumption DEF Entry

(* New entries are the latest. *)
LEMMA NextInTime == UsageTypeOK /\ UsageTypeOK' /\ InTime /\ [UsageNext]_usageVars => InTime'
<1> SUFFICES ASSUME UsageTypeOK, UsageTypeOK', InTime, [UsageNext]_usageVars PROVE InTime'
    OBVIOUS
<1>1. time \in Nat /\ time' \in Nat /\ time <= time'
    BY TypesBefore, HistoryGrows, UsageAssumption DEF UsageTypeOK
<1>2. \A i \in DOMAIN history : history'[i] = history[i] /\ history[i].ms \in Nat /\ i \in Nat
    BY HistoryGrows, EntryTimes
<1>3. \A i \in DOMAIN history' \ DOMAIN history : history'[i].ms = time
    BY HistoryGrows
<1>4. \A i \in DOMAIN history' \ DOMAIN history : \A j \in DOMAIN history : j < i
    BY HistoryGrows
<1>5. \A i \in DOMAIN history' : history'[i].ms <= time'
    BY <1>1, <1>2, <1>3 DEF InTime
<1>6. \A i \in DOMAIN history' : i \in Nat
  <2>1. history' \in Seq(Entry)
      BY Zenon DEF UsageTypeOK, Entry
  <2>2. DOMAIN history' = 1 .. Len(history') /\ Len(history') \in Nat
      BY <2>1, LenProperties
  <2> QED BY <2>2
<1>7. ASSUME NEW i \in DOMAIN history', NEW j \in DOMAIN history', i <= j
      PROVE  history'[i].ms <= history'[j].ms
  <2>1. CASE j \in DOMAIN history
    <3>1. i \in DOMAIN history
        BY <1>4, <1>6, <1>7, <2>1
    <3> QED BY <1>2, <1>7, <2>1, <3>1 DEF InTime
  <2>2. CASE j \notin DOMAIN history /\ i \in DOMAIN history
      BY <1>2, <1>3, <2>2 DEF InTime
  <2>3. CASE j \notin DOMAIN history /\ i \notin DOMAIN history
      BY <1>1, <1>3, <2>3
  <2> QED BY <2>1, <2>2, <2>3
<1> QED BY <1>5, <1>7 DEF InTime

(* What others do to the rows takes from a reader only what is deleted.    *)
LEMMA ReaderWaits ==
    ASSUME UsageTypeOK, [UsageNext]_usageVars, NEW d \in Readers, reader'[d] = reader[d], ReaderOK(d)
    PROVE  ReaderOK(d)'
<1> SUFFICES ASSUME reader[d].stage # "idle"
             PROVE  ReaderOK(d)'
    BY DEF ReaderOK
<1>1. reader[d].what \in {"history", "list"}
    BY TypesBefore DEF ReaderRow
<1>2. /\ exists' \subseteq exists /\ DOMAIN history \subseteq DOMAIN history'
      /\ \A i \in DOMAIN history : history'[i] = history[i]
    BY HistoryGrows
<1>3. ASSUME NEW i \in reader[d].due, i \in All(d)' PROVE i \in All(d)
  <2>1. CASE reader[d].what = "history"
    <3>1. i \in DOMAIN history
        BY <2>1 DEF ReaderOK
    <3> QED BY <1>2, <1>3, <2>1, <3>1 DEF All, Rows, Entries
  <2>2. CASE reader[d].what = "list"
      BY <1>2, <1>3, <2>2 DEF All, Rows
  <2> QED BY <1>1, <2>1, <2>2
<1>4. Missing(d)' \subseteq Missing(d)
    BY <1>3 DEF Missing
<1>5. ASSUME NEW i \in After(d), i \in All(d)' PROVE i \in After(d)'
  <2>1. reader[d].what = "history" => i \in DOMAIN history
      BY DEF After, All, Rows, Entries
  <2> QED BY <1>2, <1>5, <2>1 DEF After
<1>6. ASSUME Seen(d) PROVE Seen(d)'
  <2>1. reader[d].what = "history" => reader[d].got \subseteq DOMAIN history
      BY DEF ReaderOK
  <2> QED BY <1>2, <1>6, <2>1 DEF Seen
<1>7. ASSUME reader[d].stage = "page" PROVE Missing(d)' \subseteq reader[d].tied \cup After(d)'
  <2>1. Missing(d) \subseteq reader[d].tied \cup After(d) /\ Missing(d)' \subseteq All(d)'
      BY <1>7 DEF ReaderOK, Missing
  <2> QED BY <1>4, <1>5, <2>1
<1>8. reader[d].what = "history" => reader[d].due \subseteq DOMAIN history'
                                    /\ reader[d].got \subseteq DOMAIN history'
    BY <1>2 DEF ReaderOK
<1> QED BY <1>4, <1>6, <1>7, <1>8 DEF ReaderOK

(* Nothing is shown twice. *)
LEMMA NothingTwice ==
    ASSUME UsageTypeOK, NEW d \in Readers, Seen(d),
           reader[d].what = "history" => reader[d].got \subseteq DOMAIN history
    PROVE  reader[d].got \cap Shown(d) = {}
<1>1. /\ reader[d] \in ReaderRow /\ reader[d].what \in {"history", "list"} /\ reader[d].cursor \in Nat
      /\ reader[d].got \subseteq Nat
    BY TypesBefore DEF ReaderRow
<1>2. SUFFICES ASSUME NEW i \in reader[d].got, i \in After(d) PROVE FALSE
    BY AfterFinite
<1>3. reader[d].cursor # 0
    BY DEF Seen
<1>4. CASE reader[d].what = "history"
  <2>1. history[i].ms \in Nat
      BY <1>4, EntryTimes
  <2> QED BY <1>1, <1>2, <1>3, <1>4, <2>1 DEF Seen, After
<1>5. CASE reader[d].what = "list"
    BY <1>1, <1>2, <1>3, <1>5 DEF Seen, After
<1> QED BY <1>1, <1>4, <1>5

(* The rows of the page lie before the new cursor, the others behind it,   *)
(* but for ties.                                                           *)
LEMMA PageAndRest ==
    ASSUME UsageTypeOK, InTime, NEW d \in Readers, Shown(d) # After(d)
    PROVE  /\ reader[d].what = "history" =>
                 /\ \A i \in Shown(d) : history[i].ms >= history[LastShown(d)].ms
                 /\ \A i \in After(d) \ Shown(d) : history[i].ms <= history[LastShown(d)].ms
           /\ reader[d].what = "list" =>
                 /\ \A i \in Shown(d) : i <= LastShown(d)
                 /\ \A i \in After(d) \ Shown(d) : i > LastShown(d)
<1> DEFINE last == LastShown(d)
<1>1. /\ last \in Shown(d) /\ Shown(d) \subseteq After(d) /\ After(d) \subseteq Nat
      /\ \A i \in Shown(d) \ {last} : Before(d, i, last)
      /\ \A i \in After(d) \ Shown(d) : Before(d, last, i)
    BY PageHasLast, RestIsLater, AfterFinite
<1> HIDE DEF last
<1>2. CASE reader[d].what = "history"
  <2>1. After(d) \subseteq DOMAIN history
      BY <1>2 DEF After, All, Rows, Entries
  <2>2. \A i \in Shown(d) : i \in Nat /\ last <= i
      BY <1>1, <1>2 DEF Before
  <2>3. \A i \in After(d) \ Shown(d) : i <= last
      BY <1>1, <1>2 DEF Before
  <2>4. \A i \in Shown(d) : history[last].ms <= history[i].ms
      BY <1>1, <2>1, <2>2 DEF InTime
  <2>5. \A i \in After(d) \ Shown(d) : history[i].ms <= history[last].ms
      BY <1>1, <2>1, <2>3 DEF InTime
  <2>6. \A i \in After(d) : history[i].ms \in Nat
      BY <2>1, EntryTimes
  <2> QED BY <1>1, <1>2, <2>4, <2>5, <2>6 DEF last
<1>3. CASE reader[d].what = "list"
    BY <1>1, <1>3 DEF Before, last
<1> QED BY <1>2, <1>3

(* What a reading reader has after a step of his own. *)
LEMMA RowsStay ==
    ASSUME UNCHANGED cloud, NEW d, reader'[d].what = reader[d].what, reader'[d].of = reader[d].of
    PROVE  All(d)' = All(d)
BY DEF cloud, All, Rows, Entries

(* A reader who begins has read nothing, and nothing has been passed over. *)
LEMMA StartOK ==
    ASSUME UsageTypeOK, NEW d \in Readers, NEW what \in {"history", "list"}, NEW p \in Repositories,
           StartReading(d, what, p)
    PROVE  ReaderOK(d)'
<1>1. reader \in [Readers -> ReaderRow]
    BY TypesBefore
<1>2. /\ reader'[d].stage = "page" /\ reader'[d].what = what /\ reader'[d].of = p
      /\ reader'[d].due = Rows(what, p)
      /\ reader'[d].got = {} /\ reader'[d].twice = {} /\ reader'[d].cursor = 0
    BY <1>1 DEF StartReading, NoReader
<1>3. UNCHANGED cloud
    BY DEF StartReading
<1>4. All(d)' = Rows(what, p)
    BY <1>2, <1>3 DEF All, Rows, Entries, cloud
<1>5. After(d)' = All(d)'
    BY <1>2 DEF After
<1>6. Seen(d)'
    BY <1>2 DEF Seen
<1>7. what = "history" => Rows(what, p) \subseteq DOMAIN history'
    BY <1>3 DEF Rows, Entries, cloud
<1> QED BY <1>2, <1>4, <1>5, <1>6, <1>7 DEF ReaderOK, Missing

(* The last page gives the reader all that was left.                       *)
LEMMA LastPageOK ==
    ASSUME UsageTypeOK, NEW d \in Readers, LastPage(d), ReaderOK(d)
    PROVE  ReaderOK(d)'
<1>1. reader \in [Readers -> ReaderRow] /\ reader[d] \in ReaderRow
    BY TypesBefore
<1>2. /\ reader'[d].stage = "done" /\ reader'[d].what = reader[d].what /\ reader'[d].of = reader[d].of
      /\ reader'[d].due = reader[d].due /\ reader'[d].tied = reader[d].tied
      /\ reader'[d].got = reader[d].got \cup Shown(d)
      /\ reader'[d].twice = reader[d].twice \cup (reader[d].got \cap Shown(d))
    BY <1>1 DEF LastPage, AddPage, ReaderRow
<1>3. UNCHANGED cloud /\ Shown(d) = After(d) /\ reader[d].stage = "page"
    BY DEF LastPage
<1>4. reader'[d].twice = {}
    BY <1>2, <1>3, NothingTwice DEF ReaderOK
<1>5. Missing(d)' \subseteq Missing(d) \ After(d)
    BY <1>2, <1>3, RowsStay DEF Missing
<1>6. reader[d].what = "history" => Shown(d) \subseteq DOMAIN history
    BY DEF Shown, After, All, Rows, Entries
<1>7. history' = history
    BY <1>3 DEF cloud
<1> QED BY <1>2, <1>3, <1>4, <1>5, <1>6, <1>7 DEF ReaderOK

(* A page that is not the last gives the reader its rows, and passes over  *)
(* those of its last row's millisecond only.                               *)
LEMMA ReadPageOK ==
    ASSUME UsageTypeOK, InTime, NEW d \in Readers, ReadPage(d), ReaderOK(d)
    PROVE  ReaderOK(d)'
<1> DEFINE last == LastShown(d)
           next == IF reader[d].what = "history" THEN history[last].ms ELSE last
<1>1. /\ reader \in [Readers -> ReaderRow] /\ reader[d] \in ReaderRow
      /\ reader[d].what \in {"history", "list"} /\ reader[d].cursor \in Nat
    BY TypesBefore DEF ReaderRow
<1>2. /\ reader'[d].stage = reader[d].stage /\ reader'[d].what = reader[d].what
      /\ reader'[d].of = reader[d].of /\ reader'[d].due = reader[d].due
      /\ reader'[d].got = reader[d].got \cup Shown(d)
      /\ reader'[d].twice = reader[d].twice \cup (reader[d].got \cap Shown(d))
      /\ reader'[d].cursor = next /\ reader'[d].tied = reader[d].tied \cup PassedOver(d)
    BY <1>1 DEF ReadPage, AddPage, ReaderRow
<1>3. UNCHANGED cloud /\ Shown(d) # After(d) /\ reader[d].stage = "page"
    BY DEF ReadPage
<1>4. history' = history /\ All(d)' = All(d)
    BY <1>2, <1>3, RowsStay DEF cloud
<1>5. reader'[d].twice = {}
    BY <1>2, <1>3, NothingTwice DEF ReaderOK
<1>6. reader[d].what = "history" => After(d) \subseteq DOMAIN history
    BY DEF After, All, Rows, Entries
<1>7. Shown(d) \subseteq After(d) /\ After(d) \subseteq Nat /\ last \in After(d)
    BY <1>3, AfterFinite, NextCursor
<1>8. next # 0
    BY <1>3, NextCursor, UsageAssumption
<1>9. Seen(d) /\ Missing(d) \subseteq reader[d].tied \cup After(d)
    BY <1>3 DEF ReaderOK
<1>10. Seen(d)'
  <2>1. ASSUME NEW i \in reader[d].got
        PROVE  IF reader[d].what = "history" THEN history[i].ms >= next ELSE i <= next
    <3>1. reader[d].cursor # 0 /\ i \in Nat
        BY <1>9 DEF Seen
    <3>2. CASE reader[d].what = "history"
      <4>1. history[i].ms \in Nat /\ history[last].ms \in Nat
          BY <1>3, <1>6, <1>7, <3>2, EntryTimes DEF ReaderOK
      <4>2. history[i].ms >= reader[d].cursor /\ history[last].ms < reader[d].cursor
          BY <1>7, <1>9, <3>1, <3>2 DEF Seen, After
      <4> QED BY <1>1, <3>2, <4>1, <4>2
    <3>3. CASE reader[d].what = "list"
      <4>1. i <= reader[d].cursor /\ last > reader[d].cursor /\ last \in Nat
          BY <1>7, <1>9, <3>1, <3>3 DEF Seen, After
      <4> QED BY <1>1, <3>1, <3>3, <4>1
    <3> QED BY <1>1, <3>2, <3>3
  <2>2. ASSUME NEW i \in Shown(d)
        PROVE  IF reader[d].what = "history" THEN history[i].ms >= next ELSE i <= next
      BY <1>1, <1>3, PageAndRest
  <2>3. reader'[d].got \subseteq Nat
      BY <1>2, <1>7, <1>9 DEF Seen
  <2> HIDE DEF next
  <2> QED BY <1>2, <1>4, <1>8, <2>1, <2>2, <2>3 DEF Seen
<1>11. ASSUME NEW i \in Missing(d)' PROVE i \in reader'[d].tied \cup After(d)'
  <2>1. i \in Missing(d) /\ i \notin Shown(d) /\ i \in All(d)
      BY <1>2, <1>4 DEF Missing
  <2>2. CASE i \in reader[d].tied
      BY <1>2, <2>2
  <2>3. CASE i \in After(d) /\ reader[d].what = "history"
    <3>1. history[i].ms <= history[last].ms /\ history[i].ms \in Nat /\ history[last].ms \in Nat
        BY <1>3, <1>6, <1>7, <2>1, <2>3, PageAndRest, EntryTimes
    <3>2. CASE history[i].ms = history[last].ms
        BY <1>2, <2>1, <2>3, <3>2 DEF PassedOver
    <3>3. CASE history[i].ms < history[last].ms
        BY <1>2, <1>4, <2>1, <2>3, <3>3 DEF After
    <3> QED BY <3>1, <3>2, <3>3
  <2>4. CASE i \in After(d) /\ reader[d].what = "list"
    <3>1. i > last
        BY <1>3, <2>1, <2>4, PageAndRest
    <3> QED BY <1>2, <1>4, <2>1, <2>4, <3>1 DEF After
  <2> QED BY <1>1, <1>9, <2>1, <2>2, <2>3, <2>4
<1>12. Missing(d)' \subseteq reader'[d].tied \cup After(d)'
    BY <1>11
<1> QED BY <1>2, <1>3, <1>4, <1>5, <1>6, <1>7, <1>10, <1>12 DEF ReaderOK

(* Nobody has begun to read at first. *)
LEMMA InitReaders == UsageInit => ReaderInv
<1> SUFFICES ASSUME UsageInit PROVE ReaderInv
    OBVIOUS
<1>1. history = <<>> /\ DOMAIN history = {}
    BY DEF UsageInit
<1>2. \A d \in Readers : reader[d].stage = "idle"
    BY DEF UsageInit, NoReader
<1> QED BY <1>1, <1>2 DEF ReaderInv, ReaderOK, InTime

(* No step of anyone makes a reader miss more.                             *)
LEMMA NextReaders == TypeInv /\ TypeInv' /\ ReaderInv /\ [UsageNext]_usageVars => ReaderInv'
<1> SUFFICES ASSUME TypeInv, TypeInv', ReaderInv, [UsageNext]_usageVars PROVE ReaderInv'
    OBVIOUS
<1>1. UsageTypeOK /\ UsageTypeOK' /\ InTime
    BY DEF TypeInv, ReaderInv
<1>2. InTime'
    BY <1>1, NextInTime
<1>3. ASSUME NEW d \in Readers PROVE ReaderOK(d)'
  <2>1. ReaderOK(d)
      BY DEF ReaderInv
  <2>2. CASE reader'[d] = reader[d]
      BY <1>1, <2>1, <2>2, ReaderWaits
  <2>3. CASE reader'[d] # reader[d]
    <3>1. UsageNext /\ reader' # reader
        BY <2>3 DEF usageVars
    <3>2. \A s \in Reports : ~Report(s)
        BY <1>1, <3>1, ReportStays
    <3>3. \A y \in Syncs : ~Sync(y)
        BY <1>1, <3>1, SyncStays
    <3>4. PICK e \in Readers : Reading(e)
        BY <3>1, <3>2, <3>3 DEF UsageNext, Tick, DeleteRepository
    <3>5. d = e
        BY <2>3, <3>4, <1>1, TypesBefore DEF Reading, StartReading, ReadPage, LastPage
    <3> QED BY <1>1, <2>1, <3>4, <3>5, StartOK, ReadPageOK, LastPageOK DEF Reading
  <2> QED BY <2>2, <2>3
<1> QED BY <1>2, <1>3 DEF ReaderInv

(* Who reads on to the last page gets no row twice, and every row that was *)
(* there all the while, but for entries of the history that share the      *)
(* millisecond of the last one of a page.                                  *)
THEOREM ReadersMissOnlyTies == UsageSpec => []PagesMissOnlyTies
<1>1. ReaderInv => PagesMissOnlyTies
    BY DEF ReaderInv, ReaderOK, Missing, PagesMissOnlyTies
<1> QED BY <1>1, InitTypes, NextTypes, InitReaders, NextReaders, PTL DEF UsageSpec
=============================================================================
