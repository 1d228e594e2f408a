--------------------------- MODULE LiveViewsProofs ---------------------------
(***************************************************************************)
(* Proofs about what the browser shows.  LiveViews: the lists keep their   *)
(* types, lists of repositories and backends have no entry twice, and a    *)
(* list that is at rest shows the rows, for any kinds, changes, ids and    *)
(* components.  ImmichSettings: the form of the settings saves what was    *)
(* not touched as it was, for any tabs, saves, folders and libraries.      *)
(***************************************************************************)
EXTENDS LiveViews, ImmichSettings, SequenceTheorems, TLAPS

Happenings == {"create", "update", "delete"}
EventSet == [what : Happenings, id : Ids, version : Nat]
ChangeRow == [stage : {"idle", "written", "done"}, what : Happenings, id : Ids, version : Nat]
CacheRow == [loaded : BOOLEAN, list : List]
FetchRow == [stage : {"none", "asked", "answered"}, rows : [Ids -> Row]]

-----------------------------------------------------------------------------
(* Types. *)

(* The types, one by one: what the proofs below read off them.             *)
LEMMA TypesBefore ==
    ASSUME ViewsTypeOK
    PROVE  /\ kind \in Kinds /\ rows \in [Ids -> Row] /\ change \in [Changes -> ChangeRow]
           /\ wire \in Seq(EventSet)
           /\ socket \in {"off", "connecting", "on", "refused"} /\ open \in 0 .. MaxOpen
           /\ cache \in CacheRow /\ fetch \in FetchRow /\ excused \subseteq Ids /\ since \subseteq Ids
BY Zenon DEF ViewsTypeOK, ChangeRow, EventSet, CacheRow, FetchRow, Happenings

(* The same of the state after a step: what they must show.                *)
LEMMA TypesAfter ==
    ASSUME kind' \in Kinds, rows' \in [Ids -> Row], change' \in [Changes -> ChangeRow],
           wire' \in Seq(EventSet),
           socket' \in {"off", "connecting", "on", "refused"}, open' \in 0 .. MaxOpen,
           cache' \in CacheRow, fetch' \in FetchRow, excused' \subseteq Ids, since' \subseteq Ids
    PROVE  ViewsTypeOK'
BY Zenon DEF ViewsTypeOK, ChangeRow, EventSet, CacheRow, FetchRow, Happenings

(* The values that the page begins with. *)
LEMMA FirstValues ==
    /\ NoChange \in ChangeRow /\ Empty \in List /\ NoFetch \in FetchRow
    /\ \A b \in BOOLEAN : \A n \in Nat : [there |-> b, version |-> n] \in Row
<1>1. \A b \in BOOLEAN : \A n \in Nat : [there |-> b, version |-> n] \in Row
    BY DEF Row
<1>2. NoChange \in ChangeRow
    BY ViewsAssumption DEF NoChange, ChangeRow, Happenings
<1>3. Empty \in List
    BY DEF Empty, List
<1>4. NoFetch \in FetchRow
    BY <1>1 DEF NoFetch, FetchRow
<1> QED BY <1>1, <1>2, <1>3, <1>4

(* The page that was just opened is well typed.                            *)
LEMMA InitTypes == ViewsInit => ViewsTypeOK
<1> SUFFICES ASSUME ViewsInit PROVE ViewsTypeOK
    OBVIOUS
<1>1. rows \in [Ids -> Row]
    BY FirstValues DEF ViewsInit
<1>2. change \in [Changes -> ChangeRow]
    BY FirstValues DEF ViewsInit
<1>3. wire \in Seq(EventSet)
    BY EmptySeq DEF ViewsInit
<1>4. cache \in CacheRow /\ fetch \in FetchRow
    BY FirstValues DEF ViewsInit, CacheRow
<1>5. open \in 0 .. MaxOpen
    BY ViewsAssumption DEF ViewsInit
<1> QED BY <1>1, <1>2, <1>3, <1>4, <1>5, Zenon
    DEF ViewsInit, ViewsTypeOK, ChangeRow, EventSet, CacheRow, FetchRow, Happenings

(* The wire has an event more at its end, or one less at its front. *)
LEMMA WireTypes ==
    ASSUME ViewsTypeOK
    PROVE  Wired \subseteq EventSet
<1>1. wire \in Seq(EventSet)
    BY TypesBefore
<1> QED BY <1>1, LenProperties DEF Wired

(* An event that is published is the only new one on the wire.             *)
LEMMA WireGrows ==
    ASSUME ViewsTypeOK, NEW e \in EventSet, wire' = Append(wire, e)
    PROVE  wire' \in Seq(EventSet) /\ Wired' = Wired \cup {e}
<1>1. wire \in Seq(EventSet)
    BY TypesBefore
<1>2. /\ wire' \in Seq(EventSet) /\ Len(wire') = Len(wire) + 1 /\ wire'[Len(wire) + 1] = e
      /\ \A n \in 1 .. Len(wire) : wire'[n] = wire[n]
    BY <1>1, AppendProperties
<1>3. Len(wire) \in Nat /\ DOMAIN wire = 1 .. Len(wire) /\ DOMAIN wire' = 1 .. Len(wire')
    BY <1>1, <1>2, LenProperties
<1>4. ASSUME NEW x \in Wired' PROVE x \in Wired \cup {e}
  <2>1. PICK n \in DOMAIN wire' : x = wire'[n]
      BY DEF Wired
  <2>2. n \in 1 .. Len(wire) \/ n = Len(wire) + 1
      BY <1>2, <1>3
  <2> QED BY <1>2, <1>3, <2>1, <2>2 DEF Wired
<1>5. ASSUME NEW x \in Wired PROVE x \in Wired'
  <2>1. PICK n \in DOMAIN wire : x = wire[n]
      BY DEF Wired
  <2>2. n \in DOMAIN wire' /\ x = wire'[n]
      BY <1>2, <1>3, <2>1
  <2> QED BY <2>2 DEF Wired
<1>6. e \in Wired'
  <2>1. Len(wire) + 1 \in DOMAIN wire'
      BY <1>2, <1>3
  <2> QED BY <1>2, <2>1 DEF Wired
<1> QED BY <1>2, <1>4, <1>5, <1>6

(* An event that is delivered is the first on the wire, and the only one   *)
(* that leaves it.                                                         *)
LEMMA WireShrinks ==
    ASSUME ViewsTypeOK, wire # <<>>, wire' = Tail(wire)
    PROVE  /\ wire' \in Seq(EventSet) /\ Head(wire) \in EventSet
           /\ Wired = Wired' \cup {Head(wire)}
           /\ Wired' = {wire[n] : n \in {m \in DOMAIN wire : m > 1}}
<1>1. wire \in Seq(EventSet)
    BY TypesBefore
<1>2. /\ wire' \in Seq(EventSet) /\ Head(wire) \in EventSet /\ Len(wire') = Len(wire) - 1
      /\ \A n \in 1 .. Len(wire') : wire'[n] = wire[n + 1]
    BY <1>1, HeadTailProperties
<1>3. /\ Len(wire) \in Nat \ {0} /\ DOMAIN wire = 1 .. Len(wire) /\ DOMAIN wire' = 1 .. Len(wire')
      /\ Head(wire) = wire[1]
    BY <1>1, <1>2, LenProperties, EmptySeq
<1>4. ASSUME NEW x \in Wired' PROVE \E n \in DOMAIN wire : n > 1 /\ x = wire[n]
  <2>1. PICK n \in DOMAIN wire' : x = wire'[n]
      BY DEF Wired
  <2>2. n + 1 \in DOMAIN wire /\ n + 1 > 1 /\ x = wire[n + 1]
      BY <1>2, <1>3, <2>1
  <2> QED BY <2>2
<1>5. ASSUME NEW n \in DOMAIN wire, n > 1 PROVE wire[n] \in Wired'
  <2>1. n - 1 \in 1 .. Len(wire') /\ n - 1 + 1 = n
      BY <1>2, <1>3, <1>5
  <2>2. wire'[n - 1] = wire[n]
      BY <1>2, <2>1
  <2> QED BY <1>3, <2>1, <2>2 DEF Wired
<1>6. Wired' = {wire[n] : n \in {m \in DOMAIN wire : m > 1}}
    BY <1>4, <1>5
<1>7. \A n \in DOMAIN wire : n = 1 \/ n > 1
    BY <1>3
<1>8. Wired = Wired' \cup {Head(wire)}
    BY <1>3, <1>4, <1>5, <1>7 DEF Wired
<1> QED BY <1>2, <1>6, <1>8

(* What listeners make of a list is one. *)
LEMMA PatchTypes ==
    ASSUME NEW list \in List, NEW e \in EventSet
    PROVE  /\ Without(list, e.id) \in List /\ With(list, e) \in List /\ Replace(list, e) \in List
           /\ Patch(list, e) \in List /\ PatchAll(list, e) \in List
<1>1. e.id \in Ids /\ e.version \in Nat /\ e.what \in Happenings
    BY DEF EventSet
<1>2. ASSUME NEW l \in List
      PROVE  Without(l, e.id) \in List /\ With(l, e) \in List /\ Replace(l, e) \in List
  <2>1. l.shown \in [Ids -> SUBSET Nat] /\ l.twice \subseteq Ids
      BY DEF List
  <2>2. Without(l, e.id) \in List
      BY <1>1, <2>1 DEF Without, List
  <2>3. With(l, e) \in List
    <3>1. [l.shown EXCEPT ![e.id] = @ \cup {e.version}] \in [Ids -> SUBSET Nat]
        BY <1>1, <2>1
    <3>2. (IF l.shown[e.id] = {} THEN l.twice ELSE l.twice \cup {e.id}) \in SUBSET Ids
        BY <1>1, <2>1
    <3> QED BY <3>1, <3>2 DEF With, List
  <2>4. Replace(l, e) \in List
      BY <1>1, <2>1 DEF Replace, List
  <2> QED BY <2>2, <2>3, <2>4
<1>3. ASSUME NEW l \in List PROVE Patch(l, e) \in List
  <2>1. With(Empty, e) \in List
      BY <1>2, FirstValues
  <2>2. Add(l, e) \in List
      BY <1>2 DEF Add
  <2> QED BY <1>1, <1>2, <1>3, <2>1, <2>2 DEF Patch, Happenings
<1> QED BY <1>2, <1>3 DEF PatchAll

(* A change of a row, from its statement to its event, keeps the types.    *)
LEMMA ChangeTypes ==
    ASSUME ViewsTypeOK, NEW c \in Changes, Change(c)
    PROVE  ViewsTypeOK'
<1>1. /\ rows \in [Ids -> Row] /\ change \in [Changes -> ChangeRow] /\ change[c] \in ChangeRow
      /\ wire \in Seq(EventSet) /\ excused \subseteq Ids /\ since \subseteq Ids
    BY TypesBefore
<1>2. change[c].id \in Ids /\ change[c].version \in Nat /\ change[c].what \in Happenings
    BY <1>1 DEF ChangeRow
<1>3. \A es \in SUBSET EventSet : Lose(es) => excused' \subseteq Ids /\ since' \subseteq Ids
    BY <1>1 DEF Lose, Newer, EventSet
<1>4. \A v \in Nat : Event(c, v) \in EventSet
    BY <1>2 DEF Event, EventSet
<1>5. CASE Write(c)
  <2>1. PICK what \in Happenings, i \in Ids :
          /\ rows' = [rows EXCEPT ![i] = [there |-> what # "delete", version |-> @.version + 1]]
          /\ change' = [change EXCEPT ![c] = [stage |-> "written", what |-> what, id |-> i,
                                              version |-> rows[i].version + 1]]
      BY <1>5, Zenon DEF Write, Happenings
  <2>2. rows[i].version + 1 \in Nat
      BY <1>1 DEF Row
  <2>3. rows' \in [Ids -> Row]
      BY <1>1, <2>1, <2>2, FirstValues
  <2>4. change' \in [Changes -> ChangeRow]
      BY <1>1, <2>1, <2>2 DEF ChangeRow
  <2>5. UNCHANGED <<kind, wire, socket, open, cache, fetch, excused, since>>
      BY <1>5 DEF Write
  <2> QED BY <2>3, <2>4, <2>5, TypesBefore, TypesAfter
<1>6. CASE Publish(c)
  <2>1. PICK version \in {change[c].version, rows[change[c].id].version} :
          /\ change' = [change EXCEPT ![c].stage = "done"]
          /\ IF socket = "on"
             THEN wire' = Append(wire, Event(c, version)) /\ UNCHANGED <<excused, since>>
             ELSE Lose({Event(c, version)}) /\ UNCHANGED wire
      BY <1>6, Zenon DEF Publish
  <2>2. version \in Nat
      BY <1>1, <1>2 DEF Row
  <2>3. change' \in [Changes -> ChangeRow]
      BY <1>1, <2>1 DEF ChangeRow
  <2>4. wire' \in Seq(EventSet)
      BY <1>1, <1>4, <2>1, <2>2, WireGrows
  <2>5. excused' \subseteq Ids /\ since' \subseteq Ids
      BY <1>1, <1>3, <1>4, <2>1, <2>2
  <2>6. UNCHANGED <<kind, rows, socket, open, cache, fetch>>
      BY <1>6 DEF Publish
  <2> QED BY <2>3, <2>4, <2>5, <2>6, TypesBefore, TypesAfter
<1>7. CASE PublishFails(c)
  <2>1. change' \in [Changes -> ChangeRow]
      BY <1>1, <1>7 DEF PublishFails, ChangeRow
  <2>2. excused' \subseteq Ids /\ since' \subseteq Ids
      BY <1>2, <1>3, <1>4, <1>7 DEF PublishFails
  <2>3. UNCHANGED <<kind, rows, wire, socket, open, cache, fetch>>
      BY <1>7 DEF PublishFails
  <2> QED BY <2>1, <2>2, <2>3, TypesBefore, TypesAfter
<1> QED BY <1>5, <1>6, <1>7 DEF Change

(* The steps of the socket and of the query. *)
Other == \/ Connected \/ Disconnected \/ Mount \/ Unmount \/ Refetch \/ Answer
         \/ Store \/ FetchFails \/ Forget

(* The connection, the fetches and the components keep the types.          *)
LEMMA OtherTypes ==
    ASSUME ViewsTypeOK, Other
    PROVE  ViewsTypeOK'
<1>1. /\ kind \in Kinds /\ rows \in [Ids -> Row] /\ change \in [Changes -> ChangeRow]
      /\ wire \in Seq(EventSet) /\ excused \subseteq Ids /\ since \subseteq Ids
      /\ socket \in {"off", "connecting", "on", "refused"} /\ open \in 0 .. MaxOpen
      /\ cache \in CacheRow /\ fetch \in FetchRow
    BY TypesBefore
<1>2. Asked \in FetchRow
    BY <1>1 DEF Asked, FetchRow
<1>3. kind' = kind /\ rows' = rows /\ change' = change
    BY DEF Other, Connected, Disconnected, Mount, Unmount, Refetch, Answer, Store, FetchFails, Forget
<1>4. wire' \in Seq(EventSet)
    BY <1>1, EmptySeq DEF Other, Connected, Disconnected, Mount, Unmount, Refetch, Answer, Store, FetchFails, Forget
<1>5. socket' \in {"off", "connecting", "on", "refused"} /\ open' \in 0 .. MaxOpen
    BY <1>1, ViewsAssumption DEF Other, Connected, Disconnected, Mount, Unmount, Refetch, Answer, Store, FetchFails, Forget
<1>6. excused' \subseteq Ids /\ since' \subseteq Ids
  <2>1. CASE Disconnected
      BY <1>1, <2>1, WireTypes DEF Disconnected, Lose, Newer, EventSet
  <2>2. CASE ~Disconnected
      BY <1>1, <2>2 DEF Other, Connected, Mount, Unmount, Refetch, Answer, Store, FetchFails, Forget
  <2> QED BY <2>1, <2>2
<1>7. cache' \in CacheRow
  <2>1. CASE Store
    <3>1. fetch.rows \in [Ids -> Row]
        BY <1>1 DEF FetchRow
    <3>2. Listed(fetch.rows) \in List
        BY <3>1 DEF Listed, List, Row
    <3> QED BY <2>1, <3>2 DEF Store, CacheRow
  <2>2. CASE Forget
      BY <2>2, FirstValues DEF Forget, CacheRow
  <2>3. CASE ~Store /\ ~Forget
      BY <1>1, <2>3 DEF Other, Connected, Disconnected, Mount, Unmount, Refetch, Answer, FetchFails
  <2> QED BY <2>1, <2>2, <2>3
<1>8. fetch' \in FetchRow
  <2>1. CASE Answer
      BY <1>1, <2>1 DEF Answer, FetchRow
  <2>2. CASE ~Answer
      BY <1>1, <1>2, <2>2, FirstValues
      DEF Other, Connected, Disconnected, Mount, Unmount, Refetch, Store, FetchFails, Forget
  <2> QED BY <2>1, <2>2
<1> QED BY <1>1, <1>3, <1>4, <1>5, <1>6, <1>7, <1>8, TypesAfter

(* The delivery of an event keeps the types.                               *)
LEMMA EventTypes ==
    ASSUME ViewsTypeOK, DeliverRun \/ Deliver \/ DeliverUnheard \/ \E i \in Ids : RemoveSnapshot(i)
    PROVE  ViewsTypeOK'
<1>1. /\ kind \in Kinds /\ rows \in [Ids -> Row] /\ change \in [Changes -> ChangeRow]
      /\ wire \in Seq(EventSet) /\ excused \subseteq Ids /\ since \subseteq Ids
      /\ socket \in {"off", "connecting", "on", "refused"} /\ open \in 0 .. MaxOpen
      /\ cache \in CacheRow /\ fetch \in FetchRow
    BY TypesBefore
<1>2. kind' = kind /\ rows' = rows /\ change' = change /\ socket' = socket /\ open' = open
    BY DEF DeliverRun, Deliver, DeliverUnheard, RemoveSnapshot
<1>3. wire' \in Seq(EventSet) /\ (wire' # wire => Head(wire) \in EventSet)
    BY <1>1, WireShrinks DEF DeliverRun, Deliver, DeliverUnheard, RemoveSnapshot
<1>4. \A es \in SUBSET EventSet : Newer(es) \subseteq Ids
    BY DEF Newer, EventSet
<1>5. cache.list \in List /\ cache.loaded \in BOOLEAN
    BY <1>1 DEF CacheRow
<1>6. CASE DeliverRun
  <2>1. Head(wire) \in EventSet /\ Head(wire).id \in Ids
      BY <1>6, WireShrinks DEF DeliverRun, EventSet
  <2>2. Asked \in FetchRow
      BY <1>1 DEF Asked, FetchRow
  <2>3. fetch' \in FetchRow /\ since' \subseteq Ids
      BY <1>1, <1>4, <1>6, <2>1, <2>2 DEF DeliverRun, Invalidate
  <2>4. excused' \subseteq Ids /\ cache' = cache
      BY <1>1, <1>6, <2>1 DEF DeliverRun
  <2> QED BY <1>1, <1>2, <1>3, <2>3, <2>4, TypesAfter
<1>7. CASE Deliver
  <2>1. Head(wire) \in EventSet /\ Head(wire).id \in Ids
      BY <1>7, WireShrinks DEF Deliver, EventSet
  <2>2. PatchAll(cache.list, Head(wire)) \in List
      BY <1>5, <2>1, PatchTypes
  <2>3. cache' = [loaded |-> TRUE, list |-> PatchAll(cache.list, Head(wire))] \/ cache' = cache
      BY <1>7, Zenon DEF Deliver
  <2>4. cache' \in CacheRow
    <3>1. [loaded |-> TRUE, list |-> PatchAll(cache.list, Head(wire))] \in CacheRow
        BY <2>2 DEF CacheRow
    <3> QED BY <1>1, <2>3, <3>1, Zenon
  <2>5. excused' \subseteq Ids /\ since' \subseteq Ids /\ fetch' = fetch
      BY <1>1, <1>4, <1>7, <2>1 DEF Deliver
  <2> QED BY <1>1, <1>2, <1>3, <2>4, <2>5, TypesAfter
<1>8. CASE DeliverUnheard
  <2>1. Head(wire) \in EventSet /\ Head(wire).id \in Ids
      BY <1>8, WireShrinks DEF DeliverUnheard, EventSet
  <2>2. excused' \subseteq Ids /\ since' \subseteq Ids /\ cache' = cache /\ fetch' = fetch
      BY <1>1, <1>4, <1>8, <2>1 DEF DeliverUnheard, Lose
  <2> QED BY <1>1, <1>2, <1>3, <2>2, TypesAfter
<1>9. ASSUME NEW i \in Ids, RemoveSnapshot(i) PROVE ViewsTypeOK'
  <2>1. Without(cache.list, i) \in List
      BY <1>5 DEF Without, List
  <2>2. cache' \in CacheRow
      BY <1>1, <1>9, <2>1 DEF RemoveSnapshot, CacheRow
  <2>3. excused' = excused /\ since' = since /\ fetch' = fetch
      BY <1>9 DEF RemoveSnapshot
  <2> QED BY <1>1, <1>2, <1>3, <2>2, <2>3, TypesAfter
<1> QED BY <1>6, <1>7, <1>8, <1>9

(* Every step keeps the types.                                             *)
LEMMA NextTypes == ViewsTypeOK /\ [ViewsNext]_views => ViewsTypeOK'
<1> SUFFICES ASSUME ViewsTypeOK, [ViewsNext]_views PROVE ViewsTypeOK'
    OBVIOUS
<1>1. CASE UNCHANGED views
    BY <1>1 DEF views, ViewsTypeOK
<1> QED BY <1>1, ChangeTypes, OtherTypes, EventTypes DEF ViewsNext, Other

(* The table, the changes under way, the events on the wire, and what the  *)
(* browser has, have their types in every state.                           *)
THEOREM ViewsTypeCorrect == ViewsSpec => []ViewsTypeOK
BY InitTypes, NextTypes, PTL DEF ViewsSpec

-----------------------------------------------------------------------------
(* Nothing is listed twice. *)

(* Lists of repositories and backends have no entry twice, whatever comes  *)
(* first, the answer of a fetch or the event, and however many listen.     *)
THEOREM NothingListedTwice == ViewsSpec => []NoEntryTwice
<1>1. ViewsInit => NoEntryTwice
    BY DEF ViewsInit, NoEntryTwice, Empty
<1>2. ASSUME ViewsTypeOK, NoEntryTwice, [ViewsNext]_views
      PROVE  NoEntryTwice'
  <2>1. SUFFICES ASSUME kind \in {"repositories", "dashboard", "backends"}, cache.list.twice = {}
                 PROVE  cache'.list.twice = {}
    <3>1. kind' = kind
        BY <1>2 DEF ViewsNext, Change, Write, Publish, PublishFails, Connected, Disconnected, Mount, Unmount,
           Refetch, Answer, Store, FetchFails, Forget, DeliverRun, Deliver, DeliverUnheard, RemoveSnapshot, views
    <3> QED BY <1>2, <2>1, <3>1 DEF NoEntryTwice
  <2>2. CASE cache' = cache
      BY <2>1, <2>2
  <2>3. CASE Store
      BY <2>3 DEF Store, Listed
  <2>4. CASE Forget
      BY <2>4 DEF Forget, Empty
  <2>5. CASE Deliver
    <3>1. Head(wire) \in EventSet /\ cache.list \in List
        BY <1>2, <2>5, WireShrinks, TypesBefore DEF Deliver, CacheRow
    <3>2. ASSUME NEW list \in List, list.twice = {} PROVE Patch(list, Head(wire)).twice = {}
      <4>1. /\ Without(list, Head(wire).id).twice = {} /\ Replace(list, Head(wire)).twice = {}
            /\ Without(list, Head(wire).id).shown[Head(wire).id] = {}
          BY <3>1, <3>2 DEF Without, Replace, List, EventSet
      <4>2. With(Without(list, Head(wire).id), Head(wire)).twice = {}
          BY <4>1 DEF With
      <4>3. Add(list, Head(wire)).twice = {}
          BY <2>1, <4>2 DEF Add
      <4> QED BY <2>1, <3>1, <4>1, <4>3 DEF Patch, EventSet, Happenings
    <3>3. Patch(cache.list, Head(wire)) \in List
        BY <3>1, PatchTypes
    <3>4. PatchAll(cache.list, Head(wire)).twice = {}
        BY <2>1, <3>1, <3>2, <3>3 DEF PatchAll
    <3> QED BY <2>1, <2>5, <3>4 DEF Deliver
  <2>6. ASSUME NEW i \in Ids, RemoveSnapshot(i) PROVE FALSE
      BY <2>1, <2>6 DEF RemoveSnapshot
  <2> QED BY <1>2, <2>2, <2>3, <2>4, <2>5, <2>6 DEF ViewsNext, Change, Write, Publish, PublishFails, Connected,
        Disconnected, Mount, Unmount, Refetch, Answer, FetchFails, DeliverRun, DeliverUnheard, views
<1> QED BY <1>1, <1>2, InitTypes, NextTypes, PTL DEF ViewsSpec

-----------------------------------------------------------------------------
(* Lists show the rows. *)

(* The events that are to come: on the wire, or of changes that are        *)
(* written and not published.                                              *)
Outstanding == Wired \cup {Event(c, change[c].version) : c \in {d \in Changes : change[d].stage = "written"}}

RowsOK ==
    /\ \A i \in Ids : rows[i].there => rows[i].version > 0
    /\ kind = "integrations" => \A i \in Ids \ {1} : ~rows[i].there

(* An event is not newer than its row, and one that is as new tells        *)
(* whether it is there.                                                    *)
EventOK(e) ==
    /\ 0 < e.version /\ e.version <= rows[e.id].version
    /\ e.version = rows[e.id].version => (rows[e.id].there <=> e.what # "delete")
    /\ e.what = "create" => e.version = 1 \/ kind \in {"repositories", "dashboard", "backends"}
    /\ kind = "integrations" => e.what = "update" /\ e.id = 1

EventsOK == \A e \in Outstanding : EventOK(e)

ListOK == \A i \in Ids : cache.list.shown[i] \subseteq 1 .. rows[i].version

FetchOK == fetch.stage = "answered" => \A i \in Ids :
    /\ fetch.rows[i].version <= rows[i].version
    /\ fetch.rows[i].version = rows[i].version => fetch.rows[i].there = rows[i].there
    /\ fetch.rows[i].there => fetch.rows[i].version > 0

(* What a list should show of a row. *)
Truth(i) == IF rows[i].there THEN {rows[i].version} ELSE {}

(* A list without a row that is there will hear of its creation, and one   *)
(* that will hear no more of a row shows what it is.                       *)
Known(i) == cache.loaded /\ i \notin excused =>
    /\ rows[i].there /\ cache.list.shown[i] = {} => \E e \in Outstanding : e.id = i /\ e.what = "create"
    /\ (\A e \in Outstanding : e.id # i) => cache.list.shown[i] = Truth(i)

(* The same of the answer to a fetch, for the events that are newer.       *)
Answered(i) == fetch.stage = "answered" /\ i \notin since =>
    /\ rows[i].there /\ ~fetch.rows[i].there =>
          \E e \in Outstanding : e.id = i /\ e.what = "create" /\ e.version > fetch.rows[i].version
    /\ fetch.rows[i].version < rows[i].version =>
          \E e \in Outstanding : e.id = i /\ e.version > fetch.rows[i].version

ViewsInv ==
    /\ RowsOK /\ EventsOK /\ ListOK /\ FetchOK
    /\ \A i \in Ids : Known(i) /\ Answered(i)

(* At first nothing is under way and nothing is listed.                    *)
LEMMA InitViews == ViewsInit => ViewsInv
<1> SUFFICES ASSUME ViewsInit PROVE ViewsInv
    OBVIOUS
<1>1. Wired = {}
    BY DEF ViewsInit, Wired
<1>2. Outstanding = {}
    BY <1>1 DEF ViewsInit, Outstanding, NoChange
<1>3. RowsOK
  <2>1. ASSUME NEW i \in Ids PROVE (rows[i].there <=> i = 1) /\ (i = 1 => rows[i].version = 1)
      BY DEF ViewsInit
  <2> QED BY <2>1 DEF RowsOK
<1>4. ListOK
    BY DEF ViewsInit, ListOK, Empty
<1> QED BY <1>2, <1>3, <1>4 DEF ViewsInit, ViewsInv, EventsOK, FetchOK, Known, Answered, NoFetch

(* The events are of rows, and their versions are numbers. *)
LEMMA EventsAreOfRows ==
    ASSUME ViewsTypeOK
    PROVE  /\ Outstanding \subseteq EventSet
           /\ \A i \in Ids : rows[i] \in Row /\ rows[i].version \in Nat /\ rows[i].there \in BOOLEAN
           /\ \A i \in Ids : fetch.rows[i] \in Row /\ fetch.rows[i].version \in Nat
<1>1. change \in [Changes -> ChangeRow] /\ rows \in [Ids -> Row] /\ fetch.rows \in [Ids -> Row]
    BY TypesBefore DEF FetchRow
<1>2. \A c \in Changes : Event(c, change[c].version) \in EventSet
    BY <1>1 DEF Event, EventSet, ChangeRow
<1>3. Outstanding \subseteq EventSet
    BY <1>2, WireTypes DEF Outstanding
<1>4. \A i \in Ids : rows[i].version \in Nat /\ rows[i].there \in BOOLEAN /\ fetch.rows[i].version \in Nat
    BY <1>1 DEF Row
<1> QED BY <1>1, <1>3, <1>4

(* If what goes of the events is made up for by another, or excused, then  *)
(* a list that stays will be told as it was to be before.                  *)
LEMMA ListStays ==
    ASSUME rows' = rows, cache' = cache, excused \subseteq excused',
           \A e \in Outstanding : e.id \in excused' \/ \E f \in Outstanding' : f.id = e.id /\ f.what = e.what,
           NEW i, Known(i)
    PROVE  Known(i)'
<1> SUFFICES ASSUME cache.loaded, i \notin excused'
             PROVE  /\ rows[i].there /\ cache.list.shown[i] = {} =>
                          \E e \in Outstanding' : e.id = i /\ e.what = "create"
                    /\ (\A e \in Outstanding' : e.id # i) => cache.list.shown[i] = Truth(i)
    BY DEF Known, Truth
<1>1. \A e \in Outstanding : e.id = i => \E f \in Outstanding' : f.id = i /\ f.what = e.what
    OBVIOUS
<1> QED BY <1>1 DEF Known

(* An answer that is on its way stays as good as it was, if no event that  *)
(* is newer disappears unless a later one about the row is still to come   *)
(* or the row is noted.                                                    *)
LEMMA AnswerStays ==
    ASSUME ViewsTypeOK, rows' = rows, fetch' = fetch, since \subseteq since',
           \A e \in Outstanding : \/ fetch.stage = "answered" /\ e.version > fetch.rows[e.id].version =>
                                        e.id \in since'
                                  \/ \E f \in Outstanding' : /\ f.id = e.id /\ f.what = e.what
                                                             /\ f.version >= e.version,
           Outstanding' \subseteq EventSet,
           NEW i \in Ids, Answered(i)
    PROVE  Answered(i)'
<1> SUFFICES ASSUME fetch.stage = "answered", i \notin since'
             PROVE  /\ rows[i].there /\ ~fetch.rows[i].there =>
                          \E e \in Outstanding' : e.id = i /\ e.what = "create" /\ e.version > fetch.rows[i].version
                    /\ fetch.rows[i].version < rows[i].version =>
                          \E e \in Outstanding' : e.id = i /\ e.version > fetch.rows[i].version
    BY DEF Answered
<1>1. Outstanding \subseteq EventSet /\ fetch.rows[i].version \in Nat
    BY EventsAreOfRows
<1>2. ASSUME NEW e \in Outstanding, e.id = i, e.version > fetch.rows[i].version
      PROVE  \E f \in Outstanding' : f.id = i /\ f.what = e.what /\ f.version > fetch.rows[i].version
  <2>1. PICK f \in Outstanding' : f.id = e.id /\ f.what = e.what /\ f.version >= e.version
      BY <1>2
  <2>2. f.version \in Nat /\ e.version \in Nat
      BY <1>1 DEF EventSet
  <2> QED BY <1>1, <1>2, <2>1, <2>2
<1> QED BY <1>2 DEF Answered

(* A change writes a row: what is to come tells of it. *)
LEMMA WriteViews ==
    ASSUME ViewsTypeOK, ViewsInv, NEW c \in Changes, Write(c)
    PROVE  ViewsInv'
<1>1. PICK what \in Happenings, i \in Ids :
          /\ change[c].stage = "idle" /\ Possible(what, i)
          /\ rows' = [rows EXCEPT ![i] = [there |-> what # "delete", version |-> @.version + 1]]
          /\ change' = [change EXCEPT ![c] = [stage |-> "written", what |-> what, id |-> i,
                                              version |-> rows[i].version + 1]]
          /\ UNCHANGED <<kind, wire, socket, open, cache, fetch, excused, since>>
    BY Zenon DEF Write, Happenings
<1>2. /\ rows \in [Ids -> Row] /\ change \in [Changes -> ChangeRow] /\ Outstanding \subseteq EventSet
      /\ \A j \in Ids : /\ rows[j].version \in Nat /\ rows[j].there \in BOOLEAN
                         /\ fetch.rows[j].version \in Nat
    BY TypesBefore, EventsAreOfRows
<1>3. PICK e0 \in EventSet : e0 = [what |-> what, id |-> i, version |-> rows[i].version + 1]
  <2>1. rows[i].version + 1 \in Nat
      BY <1>2
  <2>2. [what |-> what, id |-> i, version |-> rows[i].version + 1] \in EventSet
      BY <2>1 DEF EventSet
  <2> QED BY <2>2, Zenon
<1>4. Outstanding' = Outstanding \cup {e0}
  <2>1. Wired' = Wired
      BY <1>1 DEF Wired
  <2>2. /\ change'[c].stage = "written" /\ Event(c, change[c].version)' = e0
        /\ \A d \in Changes \ {c} : change'[d] = change[d]
      BY <1>1, <1>2, <1>3 DEF Event
  <2>3. \A d \in Changes \ {c} : Event(d, change[d].version)' = Event(d, change[d].version)
      BY <2>2 DEF Event
  <2> QED BY <1>1, <2>1, <2>2, <2>3 DEF Outstanding
<1>5. /\ rows'[i].there <=> what # "delete"
      /\ rows'[i].version = rows[i].version + 1
      /\ \A j \in Ids \ {i} : rows'[j] = rows[j]
    BY <1>1, <1>2
<1>6. /\ RowsOK /\ EventsOK /\ ListOK /\ FetchOK
      /\ \A j \in Ids : Known(j) /\ Answered(j)
    BY DEF ViewsInv
<1>7. RowsOK'
  <2>1. kind = "integrations" => i = 1
      BY <1>1, <1>6 DEF Possible, RowsOK, Happenings
  <2> QED BY <1>1, <1>2, <1>5, <1>6, <2>1 DEF RowsOK
<1>8. EventsOK'
  <2>1. EventOK(e0)'
    <3>1. what = "create" => rows[i].version = 0 \/ kind \in {"repositories", "dashboard", "backends"}
        BY <1>1 DEF Possible
    <3>2. kind = "integrations" => what = "update" /\ i = 1
        BY <1>1, <1>6 DEF Possible, RowsOK, Happenings
    <3> QED BY <1>1, <1>2, <1>5, <1>3, <3>1, <3>2 DEF EventOK
  <2>2. ASSUME NEW e \in Outstanding PROVE EventOK(e)'
    <3>1. EventOK(e) /\ e.version \in Nat /\ e.id \in Ids
        BY <1>2, <1>6 DEF EventsOK, EventSet
    <3> QED BY <1>1, <1>2, <1>5, <3>1 DEF EventOK
  <2> QED BY <1>4, <2>1, <2>2 DEF EventsOK
<1>9. ListOK'
    BY <1>1, <1>2, <1>5, <1>6 DEF ListOK
<1>10. FetchOK'
    BY <1>1, <1>2, <1>5, <1>6 DEF FetchOK
<1>11. ASSUME NEW j \in Ids, j # i PROVE Known(j)' /\ Answered(j)'
  <2>1. rows'[j] = rows[j] /\ Outstanding \subseteq Outstanding' /\ Truth(j)' = Truth(j)
      BY <1>4, <1>5, <1>11 DEF Truth
  <2>2. Known(j) /\ Answered(j)
      BY <1>6
  <2> QED BY <1>1, <2>1, <2>2 DEF Known, Answered
<1>12. what = "update" => rows[i].there
    BY <1>1 DEF Possible
<1>13. e0 \in Outstanding' /\ e0.id = i /\ e0.what = what /\ e0.version = rows[i].version + 1
    BY <1>4, <1>3
<1>14. Known(i)'
  <2>1. ASSUME rows'[i].there, cache.loaded, i \notin excused, cache.list.shown[i] = {}
        PROVE  \E e \in Outstanding' : e.id = i /\ e.what = "create"
    <3>1. what = "create" \/ what = "update"
        BY <1>5, <2>1 DEF Happenings
    <3>2. CASE what = "create"
        BY <1>13, <3>2
    <3>3. CASE what = "update"
      <4>1. \E e \in Outstanding : e.id = i /\ e.what = "create"
          BY <1>6, <1>12, <2>1, <3>3 DEF Known
      <4> QED BY <1>4, <4>1
    <3> QED BY <3>1, <3>2, <3>3
  <2> QED BY <1>1, <1>13, <2>1 DEF Known
<1>15. Answered(i)'
  <2>1. FetchOK /\ Answered(i)
      BY <1>6
  <2>2. ASSUME fetch.stage = "answered" PROVE e0.version > fetch.rows[i].version
      BY <1>2, <1>13, <2>1, <2>2 DEF FetchOK
  <2>3. ASSUME fetch.stage = "answered", i \notin since, rows'[i].there, ~fetch.rows[i].there
        PROVE  \E e \in Outstanding' : e.id = i /\ e.what = "create" /\ e.version > fetch.rows[i].version
    <3>1. what = "create" \/ what = "update"
        BY <1>5, <2>3 DEF Happenings
    <3>2. CASE what = "create"
        BY <1>13, <2>2, <2>3, <3>2
    <3>3. CASE what = "update"
      <4>1. \E e \in Outstanding : e.id = i /\ e.what = "create" /\ e.version > fetch.rows[i].version
          BY <1>12, <2>1, <2>3, <3>3 DEF Answered
      <4> QED BY <1>4, <4>1
    <3> QED BY <3>1, <3>2, <3>3
  <2> QED BY <1>1, <1>13, <2>2, <2>3 DEF Answered
<1> QED BY <1>7, <1>8, <1>9, <1>10, <1>11, <1>14, <1>15 DEF ViewsInv

(* Events go on, or are lost and excused, while the rows and the list stay. *)
LEMMA EventsPass ==
    ASSUME ViewsTypeOK, ViewsInv, UNCHANGED <<kind, rows, cache>>, excused \subseteq excused',
           \/ fetch' = fetch /\ since \subseteq since'
           \/ fetch'.stage # "answered",
           Outstanding' \subseteq EventSet, \A f \in Outstanding' : EventOK(f),
           \A e \in Outstanding :
              \/ \E f \in Outstanding' : f.id = e.id /\ f.what = e.what /\ f.version >= e.version
              \/ /\ e.id \in excused'
                 /\ \/ fetch'.stage # "answered"
                    \/ fetch.stage = "answered" /\ e.version > fetch.rows[e.id].version => e.id \in since'
    PROVE  ViewsInv'
<1>1. /\ RowsOK /\ EventsOK /\ ListOK /\ FetchOK
      /\ \A i \in Ids : Known(i) /\ Answered(i)
    BY DEF ViewsInv
<1>2. RowsOK' /\ ListOK'
    BY <1>1 DEF RowsOK, ListOK
<1>3. EventsOK'
    BY DEF EventsOK, EventOK
<1>4. \A i \in Ids : Known(i)'
    BY <1>1, ListStays
<1>5. CASE fetch'.stage # "answered"
    BY <1>2, <1>3, <1>4, <1>5 DEF ViewsInv, FetchOK, Answered
<1>6. CASE fetch'.stage = "answered" /\ fetch' = fetch /\ since \subseteq since'
  <2>1. FetchOK'
      BY <1>1, <1>6 DEF FetchOK
  <2>2. \A i \in Ids : Answered(i)'
      BY <1>1, <1>6, AnswerStays
  <2> QED BY <1>2, <1>3, <1>4, <2>1, <2>2 DEF ViewsInv
<1> QED BY <1>5, <1>6

(* No event is newer than its row. *)
LEMMA EventsBefore ==
    ASSUME ViewsTypeOK, ViewsInv
    PROVE  \A e \in Outstanding : EventOK(e) /\ e \in EventSet /\ e.id \in Ids /\ e.version \in Nat
BY EventsAreOfRows DEF ViewsInv, EventsOK, EventSet

(* A change is published, and the event is on the wire, or it is lost.     *)
LEMMA PublishViews ==
    ASSUME ViewsTypeOK, ViewsInv, NEW c \in Changes, Publish(c)
    PROVE  ViewsInv'
<1>1. PICK version \in {change[c].version, rows[change[c].id].version} :
        /\ change[c].stage = "written"
        /\ version # change[c].version => /\ change[c].what = "update" /\ kind = "schedules"
                                          /\ rows[change[c].id].there
        /\ change' = [change EXCEPT ![c].stage = "done"]
        /\ IF socket = "on"
           THEN wire' = Append(wire, Event(c, version)) /\ UNCHANGED <<excused, since>>
           ELSE Lose({Event(c, version)}) /\ UNCHANGED wire
        /\ UNCHANGED <<kind, rows, socket, open, cache, fetch>>
    BY Zenon DEF Publish
<1>2. PICK e0 : e0 = Event(c, change[c].version)
    OBVIOUS
<1>3. PICK e1 : e1 = Event(c, version)
    OBVIOUS
<1>4. /\ change \in [Changes -> ChangeRow] /\ change[c] \in ChangeRow
      /\ change[c].id \in Ids /\ change[c].what \in Happenings /\ change[c].version \in Nat
    BY TypesBefore DEF ChangeRow
<1>5. e0 \in Outstanding
    BY <1>1, <1>2 DEF Outstanding
<1>6. /\ e0.id = change[c].id /\ e0.what = change[c].what /\ e0.version = change[c].version
      /\ e1.id = change[c].id /\ e1.what = change[c].what /\ e1.version = version
    BY <1>2, <1>3 DEF Event
<1>7. EventOK(e0) /\ rows[e0.id].version \in Nat
    BY <1>5, EventsBefore, EventsAreOfRows
<1>8. version \in Nat /\ version >= change[c].version /\ e1 \in EventSet
  <2>1. version \in Nat /\ version >= change[c].version
      BY <1>1, <1>4, <1>6, <1>7 DEF EventOK
  <2> QED BY <1>3, <1>4, <2>1 DEF EventSet, Event
<1>9. EventOK(e1)
    BY <1>1, <1>4, <1>6, <1>7 DEF EventOK
<1>10. Wired' = Wired \cup {e1} \/ Wired' = Wired
    BY <1>1, <1>3, <1>8, WireGrows DEF Wired
<1>11. /\ \A d \in Changes \ {c} : change'[d] = change[d]
       /\ change'[c].stage = "done"
    BY <1>1, <1>4 DEF ChangeRow
<1>12. \A d \in Changes \ {c} : Event(d, change[d].version)' = Event(d, change[d].version)
    BY <1>11 DEF Event
<1>13. Outstanding \subseteq Outstanding' \cup {e0} /\ Outstanding' \subseteq Outstanding \cup {e1}
    BY <1>2, <1>10, <1>11, <1>12 DEF Outstanding
<1>14. CASE socket = "on"
  <2>1. e1 \in Outstanding' /\ excused' = excused /\ since' = since
      BY <1>1, <1>3, <1>8, <1>14, WireGrows DEF Outstanding
  <2>2. \A e \in Outstanding :
           \E f \in Outstanding' : f.id = e.id /\ f.what = e.what /\ f.version >= e.version
      BY <1>6, <1>8, <1>13, <2>1, EventsBefore
  <2> QED BY <1>1, <1>8, <1>9, <1>13, <2>1, <2>2, EventsBefore, EventsPass
<1>15. CASE socket # "on"
  <2>1. /\ excused' = excused \cup {e1.id}
        /\ since' = since \cup Newer({e1})
      BY <1>1, <1>3, <1>15 DEF Lose
  <2>2. fetch.stage = "answered" /\ e0.version > fetch.rows[e0.id].version => e0.id \in since'
    <3>1. fetch.rows[e0.id].version \in Nat
        BY <1>4, <1>6, EventsAreOfRows
    <3> QED BY <1>4, <1>6, <1>8, <2>1, <3>1 DEF Newer
  <2>3. \A e \in Outstanding :
           \/ e \in Outstanding'
           \/ /\ e.id \in excused'
              /\ fetch.stage = "answered" /\ e.version > fetch.rows[e.id].version => e.id \in since'
      BY <1>6, <1>13, <2>1, <2>2
  <2>4. \A e \in Outstanding : e.version >= e.version
      BY EventsBefore
  <2> QED BY <1>1, <1>8, <1>9, <1>13, <2>1, <2>3, <2>4, EventsBefore, EventsPass
<1> QED BY <1>14, <1>15

(* It is not published. *)
LEMMA PublishFailsViews ==
    ASSUME ViewsTypeOK, ViewsInv, NEW c \in Changes, PublishFails(c)
    PROVE  ViewsInv'
<1>1. PICK e0 : e0 = Event(c, change[c].version)
    OBVIOUS
<1>2. /\ change \in [Changes -> ChangeRow] /\ change[c].stage = "written"
      /\ change' = [change EXCEPT ![c].stage = "done"]
      /\ excused' = excused \cup {e0.id} /\ since' = since \cup Newer({e0})
      /\ UNCHANGED <<kind, rows, wire, socket, open, cache, fetch>>
    BY <1>1, TypesBefore DEF PublishFails, Lose
<1>3. e0 \in Outstanding
    BY <1>1, <1>2 DEF Outstanding
<1>4. /\ \A d \in Changes \ {c} : change'[d] = change[d]
      /\ change'[c].stage = "done"
    BY <1>2 DEF ChangeRow
<1>5. \A d \in Changes \ {c} : Event(d, change[d].version)' = Event(d, change[d].version)
    BY <1>4 DEF Event
<1>6. Wired' = Wired
    BY <1>2 DEF Wired
<1>7. Outstanding \subseteq Outstanding' \cup {e0} /\ Outstanding' \subseteq Outstanding
    BY <1>1, <1>4, <1>5, <1>6 DEF Outstanding
<1>8. fetch.stage = "answered" /\ e0.version > fetch.rows[e0.id].version => e0.id \in since'
    BY <1>2 DEF Newer
<1>9. \A e \in Outstanding : e.version >= e.version
    BY EventsBefore
<1>10. \A e \in Outstanding :
           \/ e \in Outstanding'
           \/ /\ e.id \in excused'
              /\ fetch.stage = "answered" /\ e.version > fetch.rows[e.id].version => e.id \in since'
    BY <1>2, <1>7, <1>8
<1> QED BY <1>2, <1>7, <1>9, <1>10, EventsBefore, EventsPass

(* Some of the events on the wire are lost. *)
LEMMA WireLosses ==
    ASSUME ViewsTypeOK, ViewsInv, UNCHANGED <<kind, rows, change, cache>>, Wired' \subseteq Wired,
           excused \subseteq excused', \A e \in Wired \ Wired' : e.id \in excused',
           \/ fetch'.stage # "answered"
           \/ fetch' = fetch /\ since \cup Newer(Wired \ Wired') \subseteq since'
    PROVE  ViewsInv'
<1>1. \A d \in Changes : Event(d, change[d].version)' = Event(d, change[d].version)
    BY DEF Event
<1>2. Outstanding' \subseteq Outstanding /\ Outstanding \subseteq Outstanding' \cup (Wired \ Wired')
    BY <1>1 DEF Outstanding
<1>3. \A e \in Wired \ Wired' :
         \/ fetch'.stage # "answered"
         \/ fetch.stage = "answered" /\ e.version > fetch.rows[e.id].version => e.id \in since'
    BY DEF Newer
<1>4. \A e \in Outstanding : e.version >= e.version
    BY EventsBefore
<1>5. \A e \in Outstanding :
           \/ e \in Outstanding'
           \/ /\ e.id \in excused'
              /\ \/ fetch'.stage # "answered"
                 \/ fetch.stage = "answered" /\ e.version > fetch.rows[e.id].version => e.id \in since'
    BY <1>2, <1>3
<1>6. \A e \in Outstanding : \/ \E f \in Outstanding' : f.id = e.id /\ f.what = e.what /\ f.version >= e.version
           \/ /\ e.id \in excused'
              /\ \/ fetch'.stage # "answered"
                 \/ fetch.stage = "answered" /\ e.version > fetch.rows[e.id].version => e.id \in since'
    BY <1>4, <1>5
<1>7. (fetch' = fetch /\ since \subseteq since') \/ fetch'.stage # "answered"
    OBVIOUS
<1>8. Outstanding' \subseteq EventSet /\ \A f \in Outstanding' : EventOK(f)
    BY <1>2, EventsBefore
<1> QED BY <1>6, <1>7, <1>8, EventsPass

(* The socket and the query. *)
LEMMA OtherViews ==
    ASSUME ViewsTypeOK, ViewsInv, Other
    PROVE  ViewsInv'
<1>1. CASE Connected \/ Unmount \/ Mount \/ Refetch \/ FetchFails
  <2>1. UNCHANGED <<kind, rows, change, wire, cache, excused>>
      BY <1>1 DEF Connected, Unmount, Mount, Refetch, FetchFails
  <2>2. (fetch' = fetch /\ since' = since) \/ fetch'.stage # "answered"
    <3>1. Asked.stage # "answered"
        BY TypesBefore DEF Asked, FetchRow
    <3> QED BY <1>1, <3>1 DEF Connected, Unmount, Mount, Refetch, FetchFails, NoFetch
  <2>3. Wired' = Wired /\ Newer({}) = {}
      BY <2>1 DEF Wired, Newer
  <2> QED BY <2>1, <2>2, <2>3, WireLosses
<1>2. CASE Disconnected
  <2>1. UNCHANGED <<kind, rows, change, cache, fetch>> /\ wire' = <<>> /\ Lose(Wired)
      BY <1>2 DEF Disconnected
  <2>2. Wired' = {}
      BY <2>1 DEF Wired
  <2> QED BY <2>1, <2>2, WireLosses DEF Lose
<1>3. CASE Answer
  <2>1. /\ fetch' = [stage |-> "answered", rows |-> rows]
        /\ UNCHANGED <<kind, rows, change, wire, cache, excused>>
      BY <1>3 DEF Answer
  <2>2. Outstanding' = Outstanding /\ (\A e \in Outstanding : EventOK(e)' <=> EventOK(e))
      BY <2>1 DEF Outstanding, Wired, Event, EventOK
  <2>3. RowsOK' /\ EventsOK' /\ ListOK'
      BY <2>1, <2>2 DEF ViewsInv, RowsOK, EventsOK, ListOK
  <2>4. FetchOK'
      BY <2>1, EventsAreOfRows DEF ViewsInv, RowsOK, FetchOK
  <2>5. ASSUME NEW i \in Ids PROVE Known(i)' /\ Answered(i)'
    <3>1. Known(i)'
        BY <2>1, <2>2 DEF ViewsInv, Known, Truth
    <3>2. Answered(i)'
        BY <2>1, EventsAreOfRows DEF Answered
    <3> QED BY <3>1, <3>2
  <2> QED BY <2>3, <2>4, <2>5 DEF ViewsInv
<1>4. CASE Store
  <2>1. /\ fetch.stage = "answered" /\ fetch' = NoFetch
        /\ cache' = [loaded |-> TRUE, list |-> Listed(fetch.rows)] /\ excused' = since
        /\ UNCHANGED <<kind, rows, change, wire>>
      BY <1>4 DEF Store
  <2>2. Outstanding' = Outstanding /\ (\A e \in Outstanding : EventOK(e)' <=> EventOK(e))
      BY <2>1 DEF Outstanding, Wired, Event, EventOK
  <2>3. RowsOK' /\ EventsOK'
      BY <2>1, <2>2 DEF ViewsInv, RowsOK, EventsOK
  <2>4. \A i \in Ids : cache'.list.shown[i] = IF fetch.rows[i].there THEN {fetch.rows[i].version} ELSE {}
      BY <2>1 DEF Listed
  <2>5. FetchOK /\ \A i \in Ids : Answered(i)
      BY DEF ViewsInv
  <2>6. ListOK'
    <3>1. ASSUME NEW i \in Ids PROVE cache'.list.shown[i] \subseteq 1 .. rows[i].version
      <4>1. /\ fetch.rows[i].version \in Nat /\ rows[i].version \in Nat
            /\ fetch.rows[i].version <= rows[i].version
            /\ fetch.rows[i].there => fetch.rows[i].version > 0
          BY <2>1, <2>5, EventsAreOfRows DEF FetchOK
      <4>2. fetch.rows[i].there => fetch.rows[i].version \in 1 .. rows[i].version
          BY <4>1
      <4> QED BY <2>4, <4>2
    <3> QED BY <2>1, <3>1 DEF ListOK
  <2>7. ASSUME NEW i \in Ids, i \notin since
        PROVE  /\ rows[i].there /\ cache'.list.shown[i] = {} => \E e \in Outstanding : e.id = i /\ e.what = "create"
               /\ (\A e \in Outstanding : e.id # i) => cache'.list.shown[i] = Truth(i)
    <3>1. Answered(i) /\ fetch.rows[i].version <= rows[i].version
        BY <2>1, <2>5 DEF FetchOK
    <3>2. rows[i].there /\ cache'.list.shown[i] = {} => \E e \in Outstanding : e.id = i /\ e.what = "create"
        BY <2>1, <2>4, <2>7, <3>1 DEF Answered
    <3>3. ASSUME \A e \in Outstanding : e.id # i PROVE cache'.list.shown[i] = Truth(i)
      <4>1. fetch.rows[i].version = rows[i].version
          BY <2>1, <2>7, <3>1, <3>3, EventsAreOfRows DEF Answered
      <4>2. fetch.rows[i].there = rows[i].there
          BY <2>1, <2>5, <4>1 DEF FetchOK
      <4> QED BY <2>4, <4>1, <4>2 DEF Truth
    <3> QED BY <3>2, <3>3
  <2>8. \A i \in Ids : Known(i)'
      BY <2>1, <2>2, <2>7 DEF Known, Truth
  <2>9. FetchOK' /\ \A i \in Ids : Answered(i)'
      BY <2>1 DEF FetchOK, Answered, NoFetch
  <2> QED BY <2>3, <2>6, <2>8, <2>9 DEF ViewsInv
<1>5. CASE Forget
  <2>1. /\ cache' = [loaded |-> FALSE, list |-> Empty]
        /\ UNCHANGED <<kind, rows, change, wire, fetch, excused, since>>
      BY <1>5 DEF Forget
  <2>2. Outstanding' = Outstanding /\ (\A e \in Outstanding : EventOK(e)' <=> EventOK(e))
      BY <2>1 DEF Outstanding, Wired, Event, EventOK
  <2>3. RowsOK' /\ EventsOK' /\ FetchOK'
      BY <2>1, <2>2 DEF ViewsInv, RowsOK, EventsOK, FetchOK
  <2>4. ListOK'
      BY <2>1 DEF ListOK, Empty
  <2>5. \A i \in Ids : Known(i)' /\ Answered(i)'
      BY <2>1, <2>2 DEF ViewsInv, Known, Answered
  <2> QED BY <2>3, <2>4, <2>5 DEF ViewsInv
<1> QED BY <1>1, <1>2, <1>3, <1>4, <1>5 DEF Other

(* What listeners make of the entries of rows. *)
LEMMA PatchShown ==
    ASSUME NEW list \in List, NEW e \in EventSet
    PROVE  LET new == PatchAll(list, e).shown IN
           /\ kind = "integrations" => \A i \in Ids : new[i] = IF i = e.id THEN {e.version} ELSE {}
           /\ kind # "integrations" =>
                 /\ \A i \in Ids \ {e.id} : new[i] = list.shown[i]
                 /\ e.what = "create" => \/ new[e.id] = {e.version}
                                         \/ /\ kind \notin {"repositories", "dashboard", "backends"}
                                            /\ new[e.id] = list.shown[e.id] \cup {e.version}
                 /\ e.what = "update" => new[e.id] = IF list.shown[e.id] = {} THEN {} ELSE {e.version}
                 /\ e.what = "delete" => new[e.id] = {}
<1>1. e.id \in Ids /\ e.what \in Happenings
    BY DEF EventSet
<1>2. ASSUME NEW l \in List
      PROVE  /\ \A i \in Ids : With(Empty, e).shown[i] = IF i = e.id THEN {e.version} ELSE {}
             /\ \A i \in Ids \ {e.id} : /\ Without(l, e.id).shown[i] = l.shown[i]
                                        /\ With(l, e).shown[i] = l.shown[i]
                                        /\ Replace(l, e).shown[i] = l.shown[i]
             /\ Without(l, e.id).shown[e.id] = {}
             /\ With(l, e).shown[e.id] = l.shown[e.id] \cup {e.version}
             /\ Replace(l, e).shown[e.id] = IF l.shown[e.id] = {} THEN {} ELSE {e.version}
    BY <1>1 DEF List, With, Without, Replace, Empty
<1>3. ASSUME NEW l \in List
      PROVE  /\ kind = "integrations" => \A i \in Ids : Patch(l, e).shown[i] = IF i = e.id THEN {e.version} ELSE {}
             /\ kind # "integrations" =>
                   /\ \A i \in Ids \ {e.id} : Patch(l, e).shown[i] = l.shown[i]
                   /\ e.what = "create" =>
                         Patch(l, e).shown[e.id] = IF kind \in {"repositories", "dashboard", "backends"}
                                                   THEN {e.version} ELSE l.shown[e.id] \cup {e.version}
                   /\ e.what = "update" => Patch(l, e).shown[e.id] = IF l.shown[e.id] = {} THEN {} ELSE {e.version}
                   /\ e.what = "delete" => Patch(l, e).shown[e.id] = {}
  <2>1. Without(l, e.id) \in List
      BY <1>1, PatchTypes
  <2>2. kind \in {"repositories", "dashboard", "backends"} =>
           /\ \A i \in Ids \ {e.id} : Add(l, e).shown[i] = l.shown[i]
           /\ Add(l, e).shown[e.id] = {e.version}
      BY <1>2, <2>1 DEF Add
  <2>3. kind \notin {"repositories", "dashboard", "backends"} =>
           /\ \A i \in Ids \ {e.id} : Add(l, e).shown[i] = l.shown[i]
           /\ Add(l, e).shown[e.id] = l.shown[e.id] \cup {e.version}
      BY <1>2 DEF Add
  <2>4. kind = "integrations" => Patch(l, e) = With(Empty, e)
      BY DEF Patch
  <2>5. kind # "integrations" => Patch(l, e) = CASE e.what = "create" -> Add(l, e)
                                                 [] e.what = "update" -> Replace(l, e)
                                                 [] e.what = "delete" -> Without(l, e.id)
      BY DEF Patch
  <2>6. kind # "integrations" /\ e.what = "create" => Patch(l, e) = Add(l, e)
      BY <2>5
  <2>7. kind # "integrations" /\ e.what = "update" => Patch(l, e) = Replace(l, e)
      BY <2>5
  <2>8. kind # "integrations" /\ e.what = "delete" => Patch(l, e) = Without(l, e.id)
      BY <2>5
  <2>9. CASE kind = "integrations"
      BY <1>2, <2>4, <2>9
  <2>10. CASE kind # "integrations" /\ e.what = "create"
      BY <2>2, <2>3, <2>6, <2>10
  <2>11. CASE kind # "integrations" /\ e.what = "update"
    <3>1. PICK p \in List : p = Replace(l, e)
        BY PatchTypes
    <3>2. Patch(l, e) = p
        BY <2>7, <2>11, <3>1
    <3>3. \A i \in Ids \ {e.id} : p.shown[i] = l.shown[i]
        BY <1>2, <3>1
    <3>4. p.shown[e.id] = IF l.shown[e.id] = {} THEN {} ELSE {e.version}
        BY <1>2, <3>1, Zenon
    <3> QED BY <2>11, <3>2, <3>3, <3>4
  <2>12. CASE kind # "integrations" /\ e.what = "delete"
      BY <1>2, <2>8, <2>12
  <2> QED BY <1>1, <2>9, <2>10, <2>11, <2>12 DEF Happenings
<1>4. Patch(list, e) \in List
    BY PatchTypes
<1>5. CASE kind = "backends" /\ open > 1
  <2>1. PatchAll(list, e) = Patch(Patch(list, e), e)
      BY <1>5 DEF PatchAll
  <2>2. PICK once \in List : once = Patch(list, e)
      BY <1>4
  <2>3. PICK two \in List : two = Patch(once, e)
      BY PatchTypes
  <2>4. PatchAll(list, e).shown = two.shown
      BY <2>1, <2>2, <2>3
  <2>5. /\ \A i \in Ids \ {e.id} : once.shown[i] = list.shown[i]
        /\ e.what = "create" => once.shown[e.id] = {e.version}
        /\ e.what = "update" => once.shown[e.id] = IF list.shown[e.id] = {} THEN {} ELSE {e.version}
        /\ e.what = "delete" => once.shown[e.id] = {}
      BY <1>3, <1>5, <2>2
  <2>6. /\ \A i \in Ids \ {e.id} : two.shown[i] = once.shown[i]
        /\ e.what = "create" => two.shown[e.id] = {e.version}
        /\ e.what = "update" => two.shown[e.id] = IF once.shown[e.id] = {} THEN {} ELSE {e.version}
        /\ e.what = "delete" => two.shown[e.id] = {}
      BY <1>3, <1>5, <2>3
  <2>7. e.what = "update" => two.shown[e.id] = IF list.shown[e.id] = {} THEN {} ELSE {e.version}
    <3>1. CASE list.shown[e.id] = {}
        BY <2>5, <2>6, <3>1
    <3>2. CASE list.shown[e.id] # {}
        BY <2>5, <2>6, <3>2
    <3> QED BY <3>1, <3>2
  <2> QED BY <1>5, <2>4, <2>5, <2>6, <2>7
<1>6. CASE ~(kind = "backends" /\ open > 1)
  <2>1. PatchAll(list, e) = Patch(list, e)
      BY <1>6 DEF PatchAll
  <2>2. PICK once \in List : once = Patch(list, e)
      BY <1>4
  <2>3. PatchAll(list, e).shown = once.shown
      BY <2>1, <2>2
  <2>4. /\ kind = "integrations" => \A i \in Ids : once.shown[i] = IF i = e.id THEN {e.version} ELSE {}
        /\ kind # "integrations" =>
              /\ \A i \in Ids \ {e.id} : once.shown[i] = list.shown[i]
              /\ e.what = "create" => \/ once.shown[e.id] = {e.version}
                                      \/ /\ kind \notin {"repositories", "dashboard", "backends"}
                                         /\ once.shown[e.id] = list.shown[e.id] \cup {e.version}
              /\ e.what = "update" => once.shown[e.id] = IF list.shown[e.id] = {} THEN {} ELSE {e.version}
              /\ e.what = "delete" => once.shown[e.id] = {}
      BY <1>3, <2>2
  <2> QED BY <2>3, <2>4
<1> QED BY <1>5, <1>6

(* The completion of a run, and events that nobody listens to, are not     *)
(* patched into the list.                                                  *)
LEMMA UnpatchedViews ==
    ASSUME ViewsTypeOK, ViewsInv, DeliverRun \/ DeliverUnheard
    PROVE  ViewsInv'
<1>1. wire # <<>> /\ wire' = Tail(wire) /\ UNCHANGED <<kind, rows, change, cache>>
    BY DEF DeliverRun, DeliverUnheard
<1>2. PICK e \in EventSet : e = Head(wire)
    BY <1>1, WireShrinks
<1>3. Wired = Wired' \cup {e}
    BY <1>1, <1>2, WireShrinks
<1>4. excused' = excused \cup {e.id}
    BY <1>2 DEF DeliverRun, DeliverUnheard, Lose
<1>5. fetch' = Asked \/ (fetch' = fetch /\ since' = since \cup Newer({e}))
  <2>1. CASE DeliverRun
    <3>1. fetch' = Asked \/ (fetch' = fetch /\ since' = since \cup Newer({Head(wire)}))
        BY <2>1 DEF DeliverRun, Invalidate
    <3> QED BY <1>2, <3>1, Zenon
  <2>2. CASE DeliverUnheard
    <3>1. fetch' = fetch /\ since' = since \cup Newer({Head(wire)})
        BY <2>2 DEF DeliverUnheard, Lose
    <3> QED BY <1>2, <3>1, Zenon
  <2> QED BY <2>1, <2>2
<1>6. Newer(Wired \ Wired') \subseteq Newer({e})
    BY <1>3 DEF Newer
<1>7. Asked.stage # "answered"
    BY TypesBefore DEF Asked, FetchRow
<1>8. fetch'.stage # "answered" \/ (fetch' = fetch /\ since \cup Newer(Wired \ Wired') \subseteq since')
    BY <1>5, <1>6, <1>7
<1> QED BY <1>1, <1>3, <1>4, <1>8, WireLosses

(* A snapshot that is gone is taken from the list. *)
LEMMA RemoveViews ==
    ASSUME ViewsTypeOK, ViewsInv, NEW i \in Ids, RemoveSnapshot(i)
    PROVE  ViewsInv'
<1>1. /\ ~rows[i].there /\ cache' = [cache EXCEPT !.list = Without(@, i)]
      /\ UNCHANGED <<kind, rows, change, wire, fetch, excused, since>>
    BY DEF RemoveSnapshot
<1>2. Outstanding' = Outstanding /\ (\A e \in Outstanding : EventOK(e)' <=> EventOK(e))
    BY <1>1 DEF Outstanding, Wired, Event, EventOK
<1>3. RowsOK' /\ EventsOK' /\ FetchOK'
    BY <1>1, <1>2 DEF ViewsInv, RowsOK, EventsOK, FetchOK
<1>4. /\ cache'.loaded = cache.loaded /\ cache'.list.shown[i] = {}
      /\ \A j \in Ids \ {i} : cache'.list.shown[j] = cache.list.shown[j]
    BY <1>1, TypesBefore DEF CacheRow, List, Without
<1>5. ListOK'
    BY <1>1, <1>4 DEF ViewsInv, ListOK
<1>6. ASSUME NEW j \in Ids PROVE Known(j)' /\ Answered(j)'
  <2>1. Answered(j)'
      BY <1>1, <1>2 DEF ViewsInv, Answered
  <2>2. Truth(j)' = Truth(j) /\ Truth(i) = {}
      BY <1>1 DEF Truth
  <2>3. CASE j = i
      BY <1>1, <1>4, <2>1, <2>2, <2>3 DEF Known
  <2>4. CASE j # i
      BY <1>1, <1>2, <1>4, <2>1, <2>2, <2>4 DEF ViewsInv, Known
  <2> QED BY <2>3, <2>4
<1> QED BY <1>3, <1>5, <1>6 DEF ViewsInv

(* An event is patched into the list, by each of those that listen.        *)
LEMMA DeliverViews ==
    ASSUME ViewsTypeOK, ViewsInv, Deliver
    PROVE  ViewsInv'
<1>1. wire # <<>> /\ wire' = Tail(wire) /\ UNCHANGED <<kind, rows, change, fetch>>
    BY DEF Deliver
<1>2. PICK e \in EventSet : e = Head(wire)
    BY <1>1, WireShrinks
<1>3. /\ IF cache.loaded \/ kind = "integrations"
         THEN cache' = [loaded |-> TRUE, list |-> PatchAll(cache.list, e)]
         ELSE UNCHANGED cache
      /\ excused' = IF (e.version < rows[e.id].version /\ NoneLater(e)) \/ ~cache.loaded
                    THEN excused \cup {e.id} ELSE excused
      /\ since' = since \cup Newer({e})
    BY <1>2, Zenon DEF Deliver
<1>4. /\ Wired = Wired' \cup {e}
      /\ Wired' = {wire[n] : n \in {m \in DOMAIN wire : m > 1}}
    BY <1>1, <1>2, WireShrinks
<1>5. /\ Outstanding = Outstanding' \cup {e}
      /\ \A c \in Changes : change[c].stage = "written" => Event(c, change[c].version) \in Outstanding'
  <2>1. \A d \in Changes : Event(d, change[d].version)' = Event(d, change[d].version)
      BY <1>1 DEF Event
  <2> QED BY <1>1, <1>4, <2>1 DEF Outstanding
<1>6. /\ EventOK(e) /\ e.id \in Ids /\ e.version \in Nat /\ e.what \in Happenings
      /\ rows[e.id].version \in Nat /\ rows[e.id].there \in BOOLEAN
    BY <1>5, EventsBefore, EventsAreOfRows DEF EventSet
<1>7. /\ RowsOK /\ EventsOK /\ ListOK /\ FetchOK
      /\ \A i \in Ids : Known(i) /\ Answered(i)
    BY DEF ViewsInv
<1>8. RowsOK' /\ FetchOK'
    BY <1>1, <1>7 DEF RowsOK, FetchOK
<1>9. EventsOK'
    BY <1>1, <1>5, <1>7 DEF EventsOK, EventOK
<1>10. \A i \in Ids : Answered(i)'
  <2>1. fetch.stage = "answered" /\ e.version > fetch.rows[e.id].version => e.id \in since'
      BY <1>3 DEF Newer
  <2>2. \A f \in Outstanding : f.version >= f.version /\ f \in EventSet
      BY EventsBefore
  <2>3. \A f \in Outstanding : \/ fetch.stage = "answered" /\ f.version > fetch.rows[f.id].version => f.id \in since'
                               \/ \E g \in Outstanding' : g.id = f.id /\ g.what = f.what /\ g.version >= f.version
      BY <1>5, <2>1, <2>2
  <2>4. since \subseteq since' /\ Outstanding' \subseteq EventSet
      BY <1>3, <1>5, <2>2
  <2> QED BY <1>1, <1>7, <2>3, <2>4, AnswerStays
<1>11. CASE ~(cache.loaded \/ kind = "integrations")
  <2>1. cache' = cache /\ ~cache.loaded
      BY <1>3, <1>11
  <2>2. ListOK' /\ \A i \in Ids : Known(i)'
      BY <1>1, <1>7, <2>1 DEF ListOK, Known
  <2> QED BY <1>8, <1>9, <1>10, <2>2 DEF ViewsInv
<1>12. CASE cache.loaded \/ kind = "integrations"
  <2> DEFINE new == PatchAll(cache.list, e).shown
  <2>1. cache'.loaded = TRUE /\ cache'.list.shown = new
      BY <1>3, <1>12
  <2>2. cache.list \in List
      BY TypesBefore DEF CacheRow
  <2>3. kind = "integrations" => \A i \in Ids : new[i] = IF i = e.id THEN {e.version} ELSE {}
      BY <2>2, PatchShown
  <2>4. kind # "integrations" =>
           /\ \A i \in Ids \ {e.id} : new[i] = cache.list.shown[i]
           /\ e.what = "create" => \/ new[e.id] = {e.version}
                                   \/ /\ kind \notin {"repositories", "dashboard", "backends"}
                                      /\ new[e.id] = cache.list.shown[e.id] \cup {e.version}
           /\ e.what = "update" => new[e.id] = IF cache.list.shown[e.id] = {} THEN {} ELSE {e.version}
           /\ e.what = "delete" => new[e.id] = {}
      BY <2>2, PatchShown
  <2> HIDE DEF new
  <2>5. ASSUME NEW i \in Ids PROVE new[i] \subseteq 1 .. rows[i].version
    <3>1. e.version \in 1 .. rows[e.id].version
        BY <1>6 DEF EventOK
    <3>2. new[i] \subseteq cache.list.shown[i] \/ (i = e.id /\ new[i] \subseteq cache.list.shown[i] \cup {e.version})
      <4>1. CASE kind = "integrations"
          BY <2>3, <4>1
      <4>2. CASE kind # "integrations" /\ i # e.id
          BY <2>4, <4>2
      <4>3. CASE kind # "integrations" /\ i = e.id
          BY <1>6, <2>4, <4>3 DEF Happenings
      <4> QED BY <4>1, <4>2, <4>3
    <3> QED BY <1>7, <3>1, <3>2 DEF ListOK
  <2>6. ListOK'
      BY <1>1, <2>1, <2>5 DEF ListOK
  <2>7. ASSUME NEW i \in Ids, i \notin excused'
        PROVE  /\ rows[i].there /\ new[i] = {} => \E f \in Outstanding' : f.id = i /\ f.what = "create"
               /\ (\A f \in Outstanding' : f.id # i) => new[i] = Truth(i)
    <3>1. CASE i # e.id /\ kind = "integrations"
      <4>1. ~rows[i].there
          BY <1>6, <1>7, <3>1 DEF EventOK, RowsOK
      <4> QED BY <2>3, <3>1, <4>1 DEF Truth
    <3>2. CASE i # e.id /\ kind # "integrations"
      <4>1. new[i] = cache.list.shown[i] /\ cache.loaded /\ i \notin excused
          BY <1>3, <1>12, <2>4, <2>7, <3>2
      <4>2. \A f \in Outstanding : f.id = i => f \in Outstanding'
          BY <1>5, <3>2
      <4> QED BY <1>7, <4>1, <4>2 DEF Known
    <3>3. CASE i = e.id
      <4>1. cache.loaded /\ i \notin excused /\ ~(e.version < rows[i].version /\ NoneLater(e))
          BY <1>3, <1>6, <2>7, <3>3
      <4>2. rows[i].there /\ cache.list.shown[i] = {} =>
               \E f \in Outstanding : f.id = i /\ f.what = "create"
          BY <1>7, <4>1 DEF Known
      <4>3. NoneLater(e) => e.version = rows[i].version /\ (rows[i].there <=> e.what # "delete")
          BY <1>6, <3>3, <4>1 DEF EventOK
      <4>4. (\A f \in Outstanding' : f.id # i) => NoneLater(e)
        <5>1. ASSUME \A f \in Outstanding' : f.id # i PROVE ~Written(i)
            BY <1>5, <5>1 DEF Written, Event
        <5>2. ASSUME \A f \in Outstanding' : f.id # i, NEW n \in DOMAIN wire, n > 1 PROVE wire[n].id # i
            BY <1>4, <5>2 DEF Outstanding
        <5> QED BY <3>3, <5>1, <5>2 DEF NoneLater
      <4>5. CASE kind = "integrations"
        <5>1. new[i] = {e.version} /\ e.what = "update"
            BY <1>6, <2>3, <3>3, <4>5 DEF EventOK
        <5> QED BY <4>3, <4>4, <5>1 DEF Truth
      <4>6. CASE kind # "integrations" /\ e.what = "delete"
        <5>1. new[i] = {} /\ ~rows[i].there
            BY <2>4, <3>3, <4>3, <4>6 DEF NoneLater
        <5> QED BY <5>1 DEF Truth
      <4>7. CASE kind # "integrations" /\ e.what = "update"
        <5>1. new[i] = IF cache.list.shown[i] = {} THEN {} ELSE {e.version}
            BY <2>4, <3>3, <4>7
        <5>2. rows[i].there /\ new[i] = {} => \E f \in Outstanding' : f.id = i /\ f.what = "create"
            BY <1>5, <4>2, <4>7, <5>1
        <5> QED BY <4>3, <4>4, <4>7, <5>1, <5>2 DEF Truth
      <4>8. CASE kind # "integrations" /\ e.what = "create"
        <5>1. \/ new[i] = {e.version}
              \/ e.version = 1 /\ new[i] = cache.list.shown[i] \cup {e.version}
            BY <1>6, <2>4, <3>3, <4>8 DEF EventOK
        <5>2. new[i] # {}
            BY <5>1
        <5>3. e.version = 1 /\ e.version = rows[i].version => cache.list.shown[i] \subseteq {e.version}
            BY <1>7, <3>3 DEF ListOK
        <5> QED BY <4>3, <4>4, <4>8, <5>1, <5>2, <5>3 DEF Truth
      <4> QED BY <1>6, <4>5, <4>6, <4>7, <4>8 DEF Happenings
    <3> QED BY <3>1, <3>2, <3>3
  <2>8. \A i \in Ids : Known(i)'
    <3>1. \A i \in Ids : Truth(i)' = Truth(i)
        BY <1>1 DEF Truth
    <3> QED BY <1>1, <2>1, <2>7, <3>1 DEF Known
  <2> QED BY <1>8, <1>9, <1>10, <2>6, <2>8 DEF ViewsInv
<1> QED BY <1>11, <1>12

(* Every step preserves the invariant.                                     *)
LEMMA NextViews == ViewsTypeOK /\ ViewsInv /\ [ViewsNext]_views => ViewsInv'
<1> SUFFICES ASSUME ViewsTypeOK, ViewsInv, [ViewsNext]_views PROVE ViewsInv'
    OBVIOUS
<1>1. CASE UNCHANGED views
  <2>1. UNCHANGED <<kind, rows, change, wire, cache, fetch, excused, since>>
      BY <1>1 DEF views
  <2>2. Wired' = Wired /\ Newer({}) = {}
      BY <2>1 DEF Wired, Newer
  <2> QED BY <2>1, <2>2, WireLosses
<1> QED BY <1>1, WriteViews, PublishViews, PublishFailsViews, OtherViews, UnpatchedViews, DeliverViews, RemoveViews
    DEF ViewsNext, Change, Other

(* When no change, event or fetch is under way, a list that is loaded      *)
(* shows of every row what it is: unless the last event of the row was     *)
(* lost, overtaken by another, or overwritten by an older answer, and      *)
(* nothing was fetched after that.                                         *)
THEOREM ListsAtRestAreTrue == ViewsSpec => []ListsShowTheRows
<1>1. ViewsTypeOK /\ ViewsInv => ListsShowTheRows
  <2>1. SUFFICES ASSUME ViewsInv, wire = <<>>, cache.loaded, NEW i \in Ids \ excused, ~Written(i)
                 PROVE  cache.list.shown[i] = Truth(i)
      BY DEF ListsShowTheRows, Truth
  <2>2. Wired = {}
      BY <2>1 DEF Wired
  <2>3. \A e \in Outstanding : e.id # i
      BY <2>1, <2>2 DEF Outstanding, Written, Event
  <2> QED BY <2>1, <2>3 DEF ViewsInv, Known
<1> QED BY <1>1, InitTypes, NextTypes, InitViews, NextViews, PTL DEF ViewsSpec

-----------------------------------------------------------------------------
(* The settings form: what each of its parts keeps. *)

(* The parts of the assumption, for the provers.                           *)
LEMMA ValuesInUse ==
    /\ "60d" \in Policies /\ "never" \in Policies /\ "three" \in Crons
    /\ "sixfold" \in Crons => "daily" \in Crons
    /\ Backups \in Offered /\ Offered \subseteq Folders /\ Backups \in Folders
BY SettingsAssumption DEF SettingsAssumption, AllPolicies

(* What is not there or not known is none of the values.                   *)
LEMMA NothingElse ==
    /\ Unknown \notin Policies /\ Unset \notin Policies /\ Unknown \notin OnOffer
    /\ Unknown \notin Crons /\ Unset \notin Saves
    /\ \A s \in SUBSET Folders : s # Unset /\ s # Unknown
    /\ \A l \in LibraryChoices : l # Unset /\ l # Unknown
    /\ \A l \in SUBSET Libraries : l # Every
BY SettingsAssumption DEF SettingsAssumption, AllPolicies, LibraryChoices, OnOffer

(* What would be stored of a field that was not touched is what the form   *)
(* was filled with.                                                        *)
Keeps(r) ==
    \A f \in Fields \ r.touched :
        r.basis[f] = Unknown \/ Misshown(f, r.basis[f]) \/ r[f] = r.basis[f]

(* What a form goes on with until it is filled.                            *)
GoodForm(f) ==
    /\ f \in Forms
    /\ f.worm => "policy" \in f.touched
    /\ ~f.filled => f.folders \subseteq {Backups} /\ f.basis = Nowhere(Unknown)
                    /\ f.touched \subseteq {"policy"} /\ f.picked = {}
    /\ Keeps(Sent(f))

(* Folders and libraries are listed together, and the backups are there.   *)
GoodList(k) ==
    /\ k \in Bases
    /\ k.folders \notin {Unset, Unknown} =>
          k.folders \in SUBSET Folders /\ Backups \in k.folders /\ k.libraries \in LibraryChoices

GoodRequest(r) == r \in Requests /\ Keeps(r) /\ Backups \in r.folders

ManagedOK == managed \in {Unset} \cup Settings /\ DatabaseIsBackedUp

KnownOK == known \in [Tabs -> Bases] /\ \A t \in Tabs : GoodList(known[t])

FormsOK ==
    /\ form \in [Tabs -> {Unset} \cup Forms]
    /\ \A t \in Tabs : form[t] # Unset => GoodForm(form[t])

SentOK ==
    /\ sent \in [Saves -> {Unset} \cup Requests]
    /\ \A c \in Saves : sent[c] # Unset => GoodRequest(sent[c])

StageOK ==
    /\ stage \in [Saves -> {"idle", "sent", "first", "change", "saved", "failed"}]
    /\ \A c \in Saves : stage[c] \in {"sent", "first", "change"} => sent[c] # Unset
    /\ \A c \in Saves : stage[c] = "change" => managed # Unset

(* The inductive invariant.                                                *)
SettingsInv == ManagedOK /\ KnownOK /\ FormsOK /\ SentOK /\ StageOK

(* A record that is put together from two others.                          *)
LEMMA MixOf ==
    ASSUME NEW h, NEW g, NEW S
    PROVE  [f \in Fields |-> IF f \in S THEN h[f] ELSE g[f]]
           = [policy |-> IF "policy" \in S THEN h.policy ELSE g.policy,
              cron |-> IF "cron" \in S THEN h.cron ELSE g.cron,
              folders |-> IF "folders" \in S THEN h.folders ELSE g.folders,
              libraries |-> IF "libraries" \in S THEN h.libraries ELSE g.libraries]
BY DEF Fields

(* What the effect does for the libraries.                                 *)
LEMMA ChosenForm ==
    ASSUME NEW f \in Forms, NEW libraries \in LibraryChoices, NEW g,
           g = WithLibraries(f, libraries)
    PROVE  /\ g \in Forms
           /\ g.filled = f.filled /\ g.basis = f.basis /\ g.folders = f.folders
           /\ g.policy = f.policy /\ g.touched = f.touched /\ g.worm = f.worm
           /\ g.mode = f.mode /\ g.time = f.time /\ g.text = f.text
           /\ libraries = Every => g.which = "all"
           /\ libraries # Every /\ libraries = {} => g.which = "none"
           /\ libraries # Every /\ libraries # {} => g.which = "some" /\ g.picked = libraries
<1>1. CASE libraries = Every
  <2>1. g = [f EXCEPT !.which = "all"]
      BY <1>1, NothingElse DEF WithLibraries
  <2> QED BY <1>1, <2>1 DEF Forms
<1>2. CASE libraries # Every /\ libraries = {}
  <2>1. g = [f EXCEPT !.which = "none"]
      BY <1>2 DEF WithLibraries
  <2> QED BY <1>2, <2>1 DEF Forms
<1>3. CASE libraries # Every /\ libraries # {}
  <2>1. g = [f EXCEPT !.which = "some", !.picked = libraries] /\ libraries \in SUBSET Libraries
      BY <1>3 DEF WithLibraries, LibraryChoices
  <2> QED BY <1>3, <2>1 DEF Forms
<1> QED BY <1>1, <1>2, <1>3

(* And for the schedule.                                                   *)
LEMMA TimedForm ==
    ASSUME NEW f \in Forms, NEW cron \in {Unknown} \cup Crons, NEW g,
           g = WithSchedule(f, cron)
    PROVE  /\ g \in Forms
           /\ g.filled = f.filled /\ g.basis = f.basis /\ g.folders = f.folders
           /\ g.policy = f.policy /\ g.touched = f.touched /\ g.worm = f.worm
           /\ g.which = f.which /\ g.picked = f.picked
           /\ \/ cron = Unknown \/ cron = "sixfold"
              \/ (IF g.mode = "daily" THEN g.time ELSE g.text) = cron
<1>1. CASE cron = Unknown
    BY <1>1 DEF WithSchedule
<1>2. CASE cron # Unknown /\ ReadAsDaily(cron)
  <2>1. g = [f EXCEPT !.text = cron, !.mode = "daily", !.time = TimeIn(cron)]
      BY <1>2 DEF WithSchedule
  <2>2. TimeIn(cron) \in Crons /\ cron \in Crons /\ (cron = "sixfold" \/ TimeIn(cron) = cron)
      BY <1>2, ValuesInUse DEF TimeIn
  <2> DEFINE x == TimeIn(cron)
  <2>3. x \in Crons /\ cron \in Crons /\ g = [f EXCEPT !.text = cron, !.mode = "daily", !.time = x]
      BY <2>1, <2>2
  <2> HIDE DEF x
  <2>4. /\ g \in Forms /\ g.mode = "daily" /\ g.time = x
        /\ g.filled = f.filled /\ g.basis = f.basis /\ g.folders = f.folders
        /\ g.policy = f.policy /\ g.touched = f.touched /\ g.worm = f.worm
        /\ g.which = f.which /\ g.picked = f.picked
      BY <2>3 DEF Forms
  <2> QED BY <2>2, <2>4 DEF x
<1>3. CASE cron # Unknown /\ ~ReadAsDaily(cron)
  <2>1. g = [f EXCEPT !.text = cron, !.mode = "custom"]
      BY <1>3 DEF WithSchedule
  <2> QED BY <1>3, <2>1 DEF Forms
<1> QED BY <1>1, <1>2, <1>3

(* An empty form is good.                                                  *)
LEMMA BlankIsGood == GoodForm(Blank)
<1>1. Blank \in Forms
    BY ValuesInUse DEF Blank, Forms, Nowhere, Fields, Bases
<1>2. Keeps(Sent(Blank))
    BY DEF Keeps, Sent, Blank, Nowhere, Fields
<1> QED BY <1>1, <1>2 DEF GoodForm, Blank

(* The form sends what it was filled with, as long as it is not touched.   *)
LEMMA FillIsGood ==
    ASSUME NEW f, GoodForm(f), NEW k, GoodList(k)
    PROVE  GoodForm(Fill(f, k))
<1> DEFINE g == Fill(f, k)
           l == WithLibraries(f, k.libraries)
           s == WithSchedule(l, k.cron)
<1>1. CASE f.filled \/ k.folders = Unknown
    BY <1>1 DEF Fill
<1>2. CASE ~f.filled /\ k.folders # Unknown /\ k.folders = Unset
  <2>1. g = [f EXCEPT !.filled = TRUE, !.folders = f.folders \cup Offered, !.basis = Nowhere(Unknown)]
      BY <1>2 DEF Fill
  <2>2. f.folders \cup Offered \in SUBSET Folders /\ Nowhere(Unknown) \in Bases
      BY ValuesInUse DEF GoodForm, Forms, Nowhere, Bases
  <2>3. /\ g \in Forms /\ g.basis = Nowhere(Unknown)
        /\ g.touched = f.touched /\ g.worm = f.worm /\ g.filled
    <3> HIDE DEF g
    <3> QED BY <2>1, <2>2 DEF GoodForm, Forms
  <2>4. Keeps(Sent(g))
      BY <2>3 DEF Keeps, Sent, Nowhere, Fields
  <2> QED BY <2>3, <2>4 DEF GoodForm
<1>3. CASE ~f.filled /\ k.folders # Unknown /\ k.folders # Unset
  <2>1. k.folders \in SUBSET Folders /\ Backups \in k.folders /\ k.libraries \in LibraryChoices
        /\ k \in Bases
      BY <1>3 DEF GoodList
  <2>2. /\ l \in Forms /\ l.worm = f.worm /\ l.touched = f.touched /\ l.folders = f.folders
        /\ k.libraries = Every => l.which = "all"
        /\ k.libraries # Every /\ k.libraries = {} => l.which = "none"
        /\ k.libraries # Every /\ k.libraries # {} => l.which = "some" /\ l.picked = k.libraries
    <3> HIDE DEF l
    <3>1. l = WithLibraries(f, k.libraries)
        BY DEF l
    <3> QED BY <2>1, <3>1, ChosenForm DEF GoodForm
  <2>3. /\ s \in Forms /\ s.worm = l.worm /\ s.touched = l.touched /\ s.folders = l.folders
        /\ s.which = l.which /\ s.picked = l.picked
        /\ \/ k.cron = Unknown \/ k.cron = "sixfold"
           \/ (IF s.mode = "daily" THEN s.time ELSE s.text) = k.cron
    <3>1. k.cron \in {Unknown} \cup Crons /\ s = WithSchedule(l, k.cron)
        BY <2>1 DEF Bases
    <3> HIDE DEF s, l
    <3> QED BY <2>2, <3>1, TimedForm
  <2>5. g = [s EXCEPT !.filled = TRUE, !.basis = k, !.folders = s.folders \cup k.folders,
                      !.policy = ShownPolicy(k.policy),
                      !.touched = IF f.worm THEN s.touched ELSE s.touched \ {"policy"}]
      BY <1>3 DEF Fill
  <2>6. ShownPolicy(k.policy) \in Policies
    <3>1. k.policy = Unknown \/ k.policy \in Policies
        BY <2>1 DEF Bases
    <3>2. k.policy = Unknown => ShownPolicy(k.policy) = "never"
        BY NothingElse DEF ShownPolicy
    <3>3. k.policy # Unknown /\ k.policy \in OnOffer => ShownPolicy(k.policy) = k.policy
        BY DEF ShownPolicy
    <3>4. k.policy # Unknown /\ k.policy \notin OnOffer => ShownPolicy(k.policy) = "60d"
        BY DEF ShownPolicy
    <3> QED BY <3>1, <3>2, <3>3, <3>4, ValuesInUse
  <2>7. /\ s.folders \cup k.folders \in SUBSET Folders
        /\ (IF f.worm THEN s.touched ELSE s.touched \ {"policy"}) \in SUBSET Fields
      BY <2>1, <2>3 DEF Forms
  <2>8. /\ g \in Forms
        /\ g.worm = f.worm /\ g.filled /\ g.basis = k /\ g.policy = ShownPolicy(k.policy)
        /\ g.touched = IF f.worm THEN f.touched ELSE f.touched \ {"policy"}
        /\ g.folders = f.folders \cup k.folders
        /\ g.which = l.which /\ g.picked = l.picked
        /\ g.mode = s.mode /\ g.time = s.time /\ g.text = s.text
    <3>1. /\ s.worm = f.worm /\ s.touched = f.touched /\ s.folders = f.folders
          /\ s.which = l.which /\ s.picked = l.picked
        BY <2>2, <2>3
    <3> DEFINE p == ShownPolicy(k.policy)
               F == s.folders \cup k.folders
               T == IF f.worm THEN s.touched ELSE s.touched \ {"policy"}
    <3>2. /\ s \in Forms /\ p \in Policies /\ F \in SUBSET Folders /\ T \in SUBSET Fields /\ k \in Bases
          /\ g = [s EXCEPT !.filled = TRUE, !.basis = k, !.folders = F, !.policy = p, !.touched = T]
        BY <2>1, <2>3, <2>5, <2>6, <2>7
    <3>3. T = IF f.worm THEN f.touched ELSE f.touched \ {"policy"}
        BY <3>1
    <3>4. F = f.folders \cup k.folders
        BY <3>1
    <3> HIDE DEF s, l, g, p, F, T
    <3>5. /\ g \in Forms /\ g.filled /\ g.basis = k /\ g.policy = p
          /\ g.touched = T /\ g.folders = F
          /\ g.worm = s.worm /\ g.mode = s.mode /\ g.time = s.time /\ g.text = s.text
          /\ g.which = s.which /\ g.picked = s.picked
        BY <3>2 DEF Forms
    <3> QED BY <3>1, <3>3, <3>4, <3>5 DEF p
  <2>9. Keeps(Sent(g))
    <3> DEFINE r == Sent(g)
    <3>1. r.basis = k /\ r.touched = g.touched
        BY <2>8 DEF Sent
    <3>2. "policy" \in g.touched \/ k.policy = Unknown \/ k.policy \notin OnOffer
          \/ r.policy = k.policy
        BY <2>8 DEF GoodForm, Sent, ShownPolicy
    <3>3. k.cron = Unknown \/ k.cron = "sixfold" \/ r.cron = k.cron
        BY <2>3, <2>8 DEF Sent
    <3>4. r.folders = k.folders
        BY <1>3, <2>1, <2>8 DEF Sent, FoldersOf, GoodForm
    <3>5. r.libraries = k.libraries
        BY <2>2, <2>8 DEF Sent
    <3> QED BY <3>1, <3>2, <3>3, <3>4, <3>5 DEF Keeps, Fields, Misshown
  <2> QED BY <2>8, <2>9 DEF GoodForm
<1> QED BY <1>1, <1>2, <1>3

(* A request that differs in a field that is touched since.                *)
LEMMA KeepsOthers ==
    ASSUME NEW q, Keeps(q), NEW field, NEW r, r.basis = q.basis,
           r.touched = q.touched \cup {field}, \A x \in Fields \ {field} : r[x] = q[x]
    PROVE  Keeps(r)
BY Zenon DEF Keeps

(* A choice of the user changes the setting that it touches, and no other. *)
LEMMA EditIsGood ==
    ASSUME NEW f, GoodForm(f), NEW field \in Fields, f.filled \/ field = "policy",
           NEW e \in Edits(f, field), NEW g,
           g = [e EXCEPT !.touched = f.touched \cup {field}]
    PROVE  GoodForm(g)
<1> DEFINE T == f.touched \cup {field}
<1>1. f \in Forms /\ T \in SUBSET Fields /\ g = [e EXCEPT !.touched = T]
    BY DEF GoodForm, Forms
<1> HIDE DEF T
<1>2. CASE field = "policy"
  <2>1. \/ \E p \in Policies : e = [f EXCEPT !.policy = p]
        \/ e = [f EXCEPT !.worm = ~f.worm]
      BY <1>2 DEF Edits
  <2>2. /\ g \in Forms /\ g.touched = T /\ g.basis = f.basis /\ g.filled = f.filled
        /\ g.folders = f.folders /\ g.which = f.which /\ g.picked = f.picked
        /\ g.mode = f.mode /\ g.time = f.time /\ g.text = f.text
    <3>1. CASE \E p \in Policies : e = [f EXCEPT !.policy = p]
      <4>1. PICK p \in Policies : e = [f EXCEPT !.policy = p]
          BY <3>1
      <4> QED BY <1>1, <4>1 DEF Forms
    <3>2. CASE e = [f EXCEPT !.worm = ~f.worm]
        BY <1>1, <3>2 DEF Forms
    <3> QED BY <2>1, <3>1, <3>2
  <2>3. Sent(g).cron = Sent(f).cron /\ Sent(g).folders = Sent(f).folders /\ Sent(g).libraries = Sent(f).libraries
    <3>1. Sent(g).cron = Sent(f).cron
        BY <2>2 DEF Sent
    <3>2. FoldersOf(g) = FoldersOf(f)
        BY <2>2 DEF FoldersOf
    <3>3. Sent(g).folders = Sent(f).folders
        BY <3>2 DEF Sent
    <3>4. Sent(g).libraries = Sent(f).libraries
      <4>1. g.which \in {"all", "none", "some"}
          BY <2>2 DEF Forms
      <4> QED BY <2>2, <4>1 DEF Sent
    <3> QED BY <3>1, <3>2, <3>3, <3>4
  <2>4. Keeps(Sent(g))
    <3>1. Sent(g).basis = Sent(f).basis /\ Sent(g).touched = T /\ Sent(f).touched = f.touched
        BY <2>2 DEF Sent
    <3>2. \A x \in Fields \ {field} : Sent(g)[x] = Sent(f)[x]
        BY <1>2, <2>3 DEF Fields
    <3> QED BY <3>1, <3>2, KeepsOthers DEF GoodForm, T
  <2> QED BY <1>2, <2>2, <2>4 DEF GoodForm, T
<1>3. CASE field = "cron"
  <2>1. \/ \E m \in {"daily", "custom"} : e = [f EXCEPT !.mode = m]
        \/ \E x \in Crons : e = [f EXCEPT !.time = x]
        \/ \E x \in Crons : e = [f EXCEPT !.text = x]
      BY <1>3 DEF Edits
  <2>2. /\ g \in Forms /\ g.touched = T /\ g.basis = f.basis /\ g.filled = f.filled
        /\ g.folders = f.folders /\ g.which = f.which /\ g.picked = f.picked
        /\ g.policy = f.policy /\ g.worm = f.worm
    <3>1. CASE \E m \in {"daily", "custom"} : e = [f EXCEPT !.mode = m]
      <4>1. PICK m \in {"daily", "custom"} : e = [f EXCEPT !.mode = m]
          BY <3>1
      <4> QED BY <1>1, <4>1 DEF Forms
    <3>2. CASE \E x \in Crons : e = [f EXCEPT !.time = x]
      <4>1. PICK x \in Crons : e = [f EXCEPT !.time = x]
          BY <3>2
      <4> QED BY <1>1, <4>1 DEF Forms
    <3>3. CASE \E x \in Crons : e = [f EXCEPT !.text = x]
      <4>1. PICK x \in Crons : e = [f EXCEPT !.text = x]
          BY <3>3
      <4> QED BY <1>1, <4>1 DEF Forms
    <3> QED BY <2>1, <3>1, <3>2, <3>3
  <2>3. Sent(g).policy = Sent(f).policy /\ Sent(g).folders = Sent(f).folders /\ Sent(g).libraries = Sent(f).libraries
    <3>1. Sent(g).policy = Sent(f).policy
        BY <2>2 DEF Sent
    <3>2. FoldersOf(g) = FoldersOf(f)
        BY <2>2 DEF FoldersOf
    <3>3. Sent(g).folders = Sent(f).folders
        BY <3>2 DEF Sent
    <3>4. Sent(g).libraries = Sent(f).libraries
      <4>1. g.which \in {"all", "none", "some"}
          BY <2>2 DEF Forms
      <4> QED BY <2>2, <4>1 DEF Sent
    <3> QED BY <3>1, <3>2, <3>3, <3>4
  <2>4. Keeps(Sent(g))
    <3>1. Sent(g).basis = Sent(f).basis /\ Sent(g).touched = T /\ Sent(f).touched = f.touched
        BY <2>2 DEF Sent
    <3>2. \A x \in Fields \ {field} : Sent(g)[x] = Sent(f)[x]
        BY <1>3, <2>3 DEF Fields
    <3> QED BY <3>1, <3>2, KeepsOthers DEF GoodForm, T
  <2> QED BY <1>3, <2>2, <2>4 DEF GoodForm, T
<1>4. CASE field = "folders"
  <2>1. PICK F \in SUBSET Folders : e = [f EXCEPT !.folders = F]
    <3>1. PICK item \in Items :
             e = [f EXCEPT !.folders = IF item \cap Offered \subseteq f.folders
                                       THEN f.folders \ (item \cap Offered)
                                       ELSE f.folders \cup (item \cap Offered)]
        BY <1>4 DEF Edits
    <3> QED BY <1>1, <3>1, ValuesInUse DEF Forms
  <2>2. /\ g \in Forms /\ g.touched = T /\ g.basis = f.basis /\ g.filled = f.filled
        /\ g.which = f.which /\ g.picked = f.picked
        /\ g.mode = f.mode /\ g.time = f.time /\ g.text = f.text
        /\ g.policy = f.policy /\ g.worm = f.worm
      BY <1>1, <2>1 DEF Forms
  <2>3. Sent(g).policy = Sent(f).policy /\ Sent(g).cron = Sent(f).cron /\ Sent(g).libraries = Sent(f).libraries
    <3>1. Sent(g).policy = Sent(f).policy
        BY <2>2 DEF Sent
    <3>2. Sent(g).cron = Sent(f).cron
        BY <2>2 DEF Sent
    <3>3. Sent(g).libraries = Sent(f).libraries
      <4>1. g.which \in {"all", "none", "some"}
          BY <2>2 DEF Forms
      <4> QED BY <2>2, <4>1 DEF Sent
    <3> QED BY <3>1, <3>2, <3>3
  <2>4. Keeps(Sent(g))
    <3>1. Sent(g).basis = Sent(f).basis /\ Sent(g).touched = T /\ Sent(f).touched = f.touched
        BY <2>2 DEF Sent
    <3>2. \A x \in Fields \ {field} : Sent(g)[x] = Sent(f)[x]
        BY <1>4, <2>3 DEF Fields
    <3> QED BY <3>1, <3>2, KeepsOthers DEF GoodForm, T
  <2> QED BY <1>4, <2>2, <2>4 DEF GoodForm, T
<1>5. CASE field = "libraries"
  <2>1. \/ \E w \in {"all", "none", "some"} : e = [f EXCEPT !.which = w]
        \/ \E P \in SUBSET Libraries : e = [f EXCEPT !.picked = P]
    <3>1. CASE \E w \in {"all", "none", "some"} : e = [f EXCEPT !.which = w]
        BY <3>1
    <3>2. CASE \E l \in Libraries :
                  e = [f EXCEPT !.picked = IF l \in f.picked THEN f.picked \ {l} ELSE f.picked \cup {l}]
      <4>1. PICK l \in Libraries :
               e = [f EXCEPT !.picked = IF l \in f.picked THEN f.picked \ {l} ELSE f.picked \cup {l}]
          BY <3>2
      <4>2. (IF l \in f.picked THEN f.picked \ {l} ELSE f.picked \cup {l}) \in SUBSET Libraries
          BY <1>1 DEF Forms
      <4> QED BY <4>1, <4>2
    <3> QED BY <1>5, <3>1, <3>2 DEF Edits
  <2>2. /\ g \in Forms /\ g.touched = T /\ g.basis = f.basis /\ g.filled = f.filled
        /\ g.folders = f.folders
        /\ g.mode = f.mode /\ g.time = f.time /\ g.text = f.text
        /\ g.policy = f.policy /\ g.worm = f.worm
    <3>1. CASE \E w \in {"all", "none", "some"} : e = [f EXCEPT !.which = w]
      <4>1. PICK w \in {"all", "none", "some"} : e = [f EXCEPT !.which = w]
          BY <3>1
      <4> QED BY <1>1, <4>1 DEF Forms
    <3>2. CASE \E P \in SUBSET Libraries : e = [f EXCEPT !.picked = P]
      <4>1. PICK P \in SUBSET Libraries : e = [f EXCEPT !.picked = P]
          BY <3>2
      <4> QED BY <1>1, <4>1 DEF Forms
    <3> QED BY <2>1, <3>1, <3>2
  <2>3. Sent(g).policy = Sent(f).policy /\ Sent(g).cron = Sent(f).cron /\ Sent(g).folders = Sent(f).folders
    <3>1. Sent(g).policy = Sent(f).policy
        BY <2>2 DEF Sent
    <3>2. Sent(g).cron = Sent(f).cron
        BY <2>2 DEF Sent
    <3>3. FoldersOf(g) = FoldersOf(f)
        BY <2>2 DEF FoldersOf
    <3>4. Sent(g).folders = Sent(f).folders
        BY <3>3 DEF Sent
    <3> QED BY <3>1, <3>2, <3>3, <3>4
  <2>4. Keeps(Sent(g))
    <3>1. Sent(g).basis = Sent(f).basis /\ Sent(g).touched = T /\ Sent(f).touched = f.touched
        BY <2>2 DEF Sent
    <3>2. \A x \in Fields \ {field} : Sent(g)[x] = Sent(f)[x]
        BY <1>5, <2>3 DEF Fields
    <3> QED BY <3>1, <3>2, KeepsOthers DEF GoodForm, T
  <2> QED BY <1>5, <2>2, <2>4 DEF GoodForm, T
<1> QED BY <1>2, <1>3, <1>4, <1>5 DEF Fields

(* What a form sends is a request, and sending it leaves the form good.    *)
LEMMA SubmitIsGood ==
    ASSUME NEW f, GoodForm(f), NEW c \in {Unset} \cup Saves
    PROVE  /\ GoodRequest(Sent(f))
           /\ GoodForm([f EXCEPT !.pending = c, !.folders = FoldersOf(f)])
           /\ GoodForm([f EXCEPT !.pending = c])
<1>1. Sent(f) \in Requests
    BY ValuesInUse DEF Sent, Requests, FoldersOf, GoodForm, Forms, LibraryChoices
<1>2. GoodRequest(Sent(f))
    BY <1>1 DEF GoodRequest, GoodForm, Sent, FoldersOf
<1>3. ASSUME NEW F \in {f.folders, FoldersOf(f)}, NEW g \in Forms,
             g.touched = f.touched, g.basis = f.basis, g.filled = f.filled,
             g.folders = F, g.which = f.which, g.picked = f.picked,
             g.mode = f.mode, g.time = f.time, g.text = f.text,
             g.policy = f.policy, g.worm = f.worm
      PROVE  GoodForm(g)
  <2>1. FoldersOf(g) = FoldersOf(f)
      BY <1>3 DEF FoldersOf
  <2>2. Sent(g) = Sent(f)
      BY <1>3, <2>1 DEF Sent
  <2> QED BY <1>3, <2>2 DEF GoodForm, FoldersOf
<1>4. GoodForm([f EXCEPT !.pending = c, !.folders = FoldersOf(f)])
  <2> DEFINE F == FoldersOf(f)
             g == [f EXCEPT !.pending = c, !.folders = F]
  <2>1. F \in SUBSET Folders /\ f \in Forms
      BY ValuesInUse DEF FoldersOf, GoodForm, Forms
  <2> HIDE DEF F
  <2>2. g \in Forms /\ g.touched = f.touched /\ g.basis = f.basis /\ g.filled = f.filled
        /\ g.folders = F /\ g.which = f.which /\ g.picked = f.picked
        /\ g.mode = f.mode /\ g.time = f.time /\ g.text = f.text
        /\ g.policy = f.policy /\ g.worm = f.worm
      BY <2>1 DEF Forms
  <2> HIDE DEF g
  <2>3. GoodForm(g)
      BY <1>3, <2>2 DEF F
  <2> QED BY <2>3 DEF g, F
<1>5. GoodForm([f EXCEPT !.pending = c])
  <2> DEFINE g == [f EXCEPT !.pending = c]
  <2>1. f \in Forms
      BY DEF GoodForm
  <2>2. g \in Forms /\ g.touched = f.touched /\ g.basis = f.basis /\ g.filled = f.filled
        /\ g.folders = f.folders /\ g.which = f.which /\ g.picked = f.picked
        /\ g.mode = f.mode /\ g.time = f.time /\ g.text = f.text
        /\ g.policy = f.policy /\ g.worm = f.worm
      BY <2>1 DEF Forms
  <2> HIDE DEF g
  <2>3. GoodForm(g)
      BY <1>3, <2>2
  <2> QED BY <2>3 DEF g
<1> QED BY <1>2, <1>4, <1>5

-----------------------------------------------------------------------------
(* The settings form: the steps.                                           *)

(* One form changes.                                                       *)
LEMMA OneForm ==
    ASSUME FormsOK, NEW t \in Tabs, NEW f, f = Unset \/ GoodForm(f), SetForm(t, f)
    PROVE  FormsOK'
<1>1. f \in {Unset} \cup Forms
    BY DEF GoodForm
<1>2. form' \in [Tabs -> {Unset} \cup Forms]
    BY <1>1 DEF FormsOK, SetForm
<1>3. \A u \in Tabs : form'[u] = IF u = t THEN f ELSE form[u]
    BY DEF FormsOK, SetForm
<1> QED BY <1>2, <1>3 DEF FormsOK

(* Forms lose the call that they wait for.                                 *)
LEMMA FormsGoOn ==
    ASSUME FormsOK, form' \in [Tabs -> {Unset} \cup Forms],
           \A t \in Tabs : form'[t] \in {Unset, form[t], [form[t] EXCEPT !.pending = Unset]}
                           /\ (form[t] = Unset => form'[t] = Unset)
    PROVE  FormsOK'
<1>1. ASSUME NEW t \in Tabs, form'[t] # Unset PROVE GoodForm(form'[t])
  <2>1. form[t] # Unset /\ GoodForm(form[t])
      BY <1>1 DEF FormsOK
  <2>2. GoodForm([form[t] EXCEPT !.pending = Unset])
      BY <2>1, SubmitIsGood
  <2> QED BY <1>1, <2>1, <2>2
<1> QED BY <1>1 DEF FormsOK

(* The invariant holds at the start.                                       *)
LEMMA InitSettings == SettingsInit => SettingsInv
<1> SUFFICES ASSUME SettingsInit PROVE SettingsInv
    OBVIOUS
<1>1. GoodList(Nowhere(Unknown)) /\ Nowhere(Unknown) \in Bases
    BY DEF GoodList, Nowhere, Bases
<1>2. ManagedOK /\ FormsOK /\ SentOK /\ StageOK
    BY DEF SettingsInit, ManagedOK, DatabaseIsBackedUp, FormsOK, SentOK, StageOK
<1>3. KnownOK
    BY <1>1 DEF SettingsInit, KnownOK
<1> QED BY <1>2, <1>3 DEF SettingsInv

(* What the lists say is good.                                             *)
LEMMA ListingIsGood ==
    ASSUME ManagedOK PROVE GoodList(Listing)
<1>1. CASE managed = Unset
    BY <1>1 DEF Listing, GoodList, Bases
<1>2. CASE managed # Unset
  <2>1. managed \in Settings /\ Backups \in managed.folders /\ Listing = managed
      BY <1>2 DEF ManagedOK, DatabaseIsBackedUp, Listing
  <2> QED BY <2>1 DEF GoodList, Bases, Settings
<1> QED BY <1>1, <1>2

(* A list arrives, and may fill the form.                                  *)
LEMMA ArrivalSettings ==
    ASSUME SettingsInv, NEW t \in Tabs,
           NEW fields \in {{"folders", "libraries"}, {"policy"}, {"cron"}}, Arrives(t, fields)
    PROVE  SettingsInv'
<1> DEFINE k == [f \in Fields |-> IF f \in fields THEN Listing[f] ELSE known[t][f]]
<1>1. GoodList(Listing) /\ GoodList(known[t])
    BY ListingIsGood DEF SettingsInv, KnownOK
<1>2. k = [policy |-> IF "policy" \in fields THEN Listing.policy ELSE known[t].policy,
           cron |-> IF "cron" \in fields THEN Listing.cron ELSE known[t].cron,
           folders |-> IF "folders" \in fields THEN Listing.folders ELSE known[t].folders,
           libraries |-> IF "libraries" \in fields THEN Listing.libraries ELSE known[t].libraries]
    BY MixOf
<1>3. "folders" \in fields <=> "libraries" \in fields
    OBVIOUS
<1> HIDE DEF k
<1>4. GoodList(k)
    BY <1>1, <1>2, <1>3 DEF GoodList, Bases
<1>5. known' = [known EXCEPT ![t] = k] /\ UNCHANGED <<managed, sent, stage>>
      /\ SetForm(t, IF form[t] = Unset THEN Unset ELSE Fill(form[t], k))
    BY DEF Arrives, k
<1>6. form[t] # Unset => GoodForm(Fill(form[t], k))
    BY <1>4, FillIsGood DEF SettingsInv, FormsOK
<1>7. FormsOK'
  <2> DEFINE f == IF form[t] = Unset THEN Unset ELSE Fill(form[t], k)
  <2>1. f = Unset \/ GoodForm(f)
      BY <1>6
  <2> HIDE DEF f
  <2>2. SetForm(t, f)
      BY <1>5 DEF f
  <2> QED BY <2>1, <2>2, OneForm DEF SettingsInv
<1>8. KnownOK'
  <2>1. k \in Bases
      BY <1>4 DEF GoodList
  <2> QED BY <1>4, <1>5, <2>1 DEF SettingsInv, KnownOK
<1>9. ManagedOK' /\ SentOK' /\ StageOK'
    BY <1>5 DEF SettingsInv, ManagedOK, DatabaseIsBackedUp, SentOK, StageOK
<1> QED BY <1>7, <1>8, <1>9 DEF SettingsInv

(* A good request is sent.                                                 *)
LEMMA SendIsGood ==
    ASSUME SentOK, StageOK, NEW c \in Saves, NEW r, GoodRequest(r), Send(c, r), UNCHANGED managed
    PROVE  SentOK' /\ StageOK'
<1>1. r \in Requests /\ r # Unset
    BY UnsetAssumption DEF GoodRequest, UnsetAssumption
<1>2. SentOK'
    BY <1>1 DEF Send, SentOK
<1>3. StageOK'
    BY <1>1 DEF Send, SentOK, StageOK
<1> QED BY <1>2, <1>3

(* What a tab does keeps the invariant.                                    *)
LEMMA TabSettings ==
    ASSUME SettingsInv, NEW t \in Tabs, TabNext(t)
    PROVE  SettingsInv'
<1>1. CASE LearnIntegration(t) \/ LearnRepository(t) \/ LearnSchedule(t)
    BY <1>1, ArrivalSettings DEF LearnIntegration, LearnRepository, LearnSchedule
<1>2. CASE OpenForm(t) \/ CloseForm(t) \/ Edit(t)
  <2>1. UNCHANGED <<managed, known, sent, stage>>
      BY <1>2 DEF OpenForm, CloseForm, Edit
  <2>2. \E f : (f = Unset \/ GoodForm(f)) /\ SetForm(t, f)
    <3>1. CASE OpenForm(t)
      <4>1. GoodForm(Fill(Blank, known[t]))
          BY BlankIsGood, FillIsGood DEF SettingsInv, KnownOK
      <4> QED BY <3>1, <4>1 DEF OpenForm
    <3>2. CASE CloseForm(t)
        BY <3>2 DEF CloseForm
    <3>3. CASE Edit(t)
      <4>1. PICK field \in Fields :
               /\ form[t].filled \/ field = "policy"
               /\ \E e \in Edits(form[t], field) :
                     SetForm(t, [e EXCEPT !.touched = form[t].touched \cup {field}])
          BY <3>3 DEF Edit, Fields
      <4>2. PICK e \in Edits(form[t], field) :
               SetForm(t, [e EXCEPT !.touched = form[t].touched \cup {field}])
          BY <4>1
      <4>3. GoodForm(form[t])
          BY <3>3 DEF Edit, SettingsInv, FormsOK
      <4>4. GoodForm([e EXCEPT !.touched = form[t].touched \cup {field}])
          BY <4>1, <4>3, EditIsGood
      <4> QED BY <4>2, <4>4
    <3> QED BY <1>2, <3>1, <3>2, <3>3
  <2>3. FormsOK'
      BY <2>2, OneForm DEF SettingsInv
  <2> QED BY <2>1, <2>3
      DEF SettingsInv, ManagedOK, DatabaseIsBackedUp, KnownOK, SentOK, StageOK
<1>3. CASE Reload(t)
  <2>1. FormsOK'
      BY <1>3, OneForm DEF Reload, SettingsInv
  <2>2. GoodList(Nowhere(Unknown)) /\ Nowhere(Unknown) \in Bases
      BY DEF GoodList, Nowhere, Bases
  <2>3. KnownOK'
      BY <1>3, <2>2 DEF Reload, SettingsInv, KnownOK
  <2> QED BY <1>3, <2>1, <2>3
      DEF Reload, SettingsInv, ManagedOK, DatabaseIsBackedUp, SentOK, StageOK
<1>4. ASSUME NEW c \in Saves, Submit(t, c) PROVE SettingsInv'
  <2>1. GoodForm(form[t]) /\ Send(c, Sent(form[t])) /\ UNCHANGED <<managed, known>>
        /\ SetForm(t, [form[t] EXCEPT !.pending = c, !.folders = FoldersOf(form[t])])
      BY <1>4 DEF Submit, SettingsInv, FormsOK
  <2>2. GoodRequest(Sent(form[t]))
        /\ GoodForm([form[t] EXCEPT !.pending = c, !.folders = FoldersOf(form[t])])
      BY <2>1, SubmitIsGood
  <2>3. FormsOK'
      BY <2>1, <2>2, OneForm DEF SettingsInv
  <2>4. SentOK' /\ StageOK'
      BY <2>1, <2>2, SendIsGood DEF SettingsInv
  <2> QED BY <2>1, <2>3, <2>4 DEF SettingsInv, ManagedOK, DatabaseIsBackedUp, KnownOK
<1> QED BY <1>1, <1>2, <1>3, <1>4 DEF TabNext

(* What a call stores is well typed, and the backups are part of it.       *)
LEMMA StoredIsGood ==
    ASSUME SettingsInv, NEW c \in Saves, sent[c] # Unset
    PROVE  /\ Stored(c) \in Settings /\ Backups \in Stored(c).folders
           /\ managed # Unset =>
                 \A F \in {{"policy"}, {"policy", "cron"}, Fields} : \A m :
                    m = [f \in Fields |-> IF f \in F THEN Stored(c)[f] ELSE managed[f]] =>
                       m \in Settings /\ m # Unset /\ Backups \in m.folders
<1>1. sent[c] \in Requests /\ Backups \in sent[c].folders
    BY DEF SettingsInv, SentOK, GoodRequest
<1>2. managed # Unset => managed \in Settings /\ Backups \in managed.folders
    BY DEF SettingsInv, ManagedOK, DatabaseIsBackedUp
<1>3. Stored(c) \in Settings /\ Backups \in Stored(c).folders
  <2>1. (IF sent[c].policy # Unset THEN sent[c].policy
         ELSE IF managed = Unset THEN "60d" ELSE managed.policy) \in Policies
      BY <1>1, <1>2, ValuesInUse DEF Requests, Settings
  <2> QED BY <1>1, <2>1 DEF Stored, Requests, Settings
<1>4. ASSUME managed # Unset, NEW F \in {{"policy"}, {"policy", "cron"}, Fields}, NEW m,
             m = [f \in Fields |-> IF f \in F THEN Stored(c)[f] ELSE managed[f]]
      PROVE  m \in Settings /\ m # Unset /\ Backups \in m.folders
  <2> DEFINE s == Stored(c)
  <2> HIDE DEF s
  <2>1. s \in Settings /\ Backups \in s.folders
      BY <1>3 DEF s
  <2>2. m = [policy |-> IF "policy" \in F THEN s.policy ELSE managed.policy,
             cron |-> IF "cron" \in F THEN s.cron ELSE managed.cron,
             folders |-> IF "folders" \in F THEN s.folders ELSE managed.folders,
             libraries |-> IF "libraries" \in F THEN s.libraries ELSE managed.libraries]
      BY <1>4, MixOf DEF s
  <2>3. m \in Settings /\ Backups \in m.folders
      BY <1>2, <1>4, <2>1, <2>2 DEF Settings
  <2> QED BY <2>3, UnsetAssumption DEF UnsetAssumption
<1> QED BY <1>3, <1>4

(* A call ends.                                                            *)
LEMMA EndSettings ==
    ASSUME SettingsInv, NEW c \in Saves, NEW outcome \in {"saved", "failed"}, Ends(c, outcome),
           managed' \in {Unset} \cup Settings, managed # Unset => managed' # Unset,
           managed' # Unset => Backups \in managed'.folders
    PROVE  SettingsInv'
<1>1. ManagedOK'
    BY DEF ManagedOK, DatabaseIsBackedUp
<1>2. FormsOK'
  <2>1. ASSUME NEW t \in Tabs
        PROVE  /\ form'[t] \in {Unset, form[t], [form[t] EXCEPT !.pending = Unset]}
               /\ form[t] = Unset => form'[t] = Unset
               /\ form'[t] \in {Unset} \cup Forms
    <3>1. form[t] # Unset => [form[t] EXCEPT !.pending = Unset] \in Forms
        BY SubmitIsGood DEF SettingsInv, FormsOK, GoodForm
    <3>2. form[t] \in {Unset} \cup Forms
        BY DEF SettingsInv, FormsOK
    <3>3. form'[t] = IF form[t] = Unset \/ form[t].pending # c THEN form[t]
                     ELSE IF outcome = "saved" THEN Unset
                     ELSE [form[t] EXCEPT !.pending = Unset]
        BY DEF Ends
    <3> QED BY <3>1, <3>2, <3>3
  <2>2. form' \in [Tabs -> {Unset} \cup Forms]
    <3>1. form' = [t \in Tabs |-> form'[t]]
        BY DEF Ends
    <3> QED BY <2>1, <3>1
  <2> QED BY <2>1, <2>2, FormsGoOn DEF SettingsInv
<1>3. SentOK'
    BY DEF Ends, SettingsInv, SentOK
<1>4. StageOK'
    BY DEF Ends, SettingsInv, SentOK, StageOK
<1>5. KnownOK'
    BY DEF Ends, SettingsInv, KnownOK
<1> QED BY <1>1, <1>2, <1>3, <1>4, <1>5 DEF SettingsInv

(* What a save does keeps the invariant.                                   *)
LEMMA SaveSettings ==
    ASSUME SettingsInv, NEW c \in Saves, SaveNext(c)
    PROVE  SettingsInv'
<1>1. CASE SubmitDefaults(c)
  <2> DEFINE r == [policy |-> Unset, cron |-> "three", folders |-> Offered,
                   libraries |-> Every, basis |-> Nowhere(Unknown), touched |-> {}]
  <2>1. Nowhere(Unknown) \in Bases
      BY DEF Nowhere, Bases
  <2>2. r \in Requests /\ Backups \in r.folders
      BY <2>1, ValuesInUse DEF Requests, LibraryChoices
  <2>3. Keeps(r)
      BY DEF Keeps, Nowhere, Fields
  <2>4. GoodRequest(r)
      BY <2>2, <2>3 DEF GoodRequest
  <2>5. Send(c, r) /\ UNCHANGED <<managed, known, form>>
      BY <1>1 DEF SubmitDefaults
  <2> HIDE DEF r
  <2>6. SentOK' /\ StageOK'
      BY <2>4, <2>5, SendIsGood DEF SettingsInv
  <2> QED BY <2>5, <2>6 DEF SettingsInv, ManagedOK, DatabaseIsBackedUp, KnownOK, FormsOK
<1>2. CASE Begin(c)
  <2>1. StageOK'
      BY <1>2 DEF Begin, SettingsInv, StageOK
  <2> QED BY <1>2, <2>1
      DEF Begin, SettingsInv, ManagedOK, DatabaseIsBackedUp, KnownOK, FormsOK, SentOK
<1>3. CASE BackendFails(c)
    BY <1>3, EndSettings DEF BackendFails, SettingsInv, ManagedOK, DatabaseIsBackedUp
<1>4. CASE SaveFirst(c)
  <2>1. sent[c] # Unset
      BY <1>4 DEF SaveFirst, SettingsInv, StageOK
  <2>2. managed' \in {managed, Stored(c)}
      BY <1>4 DEF SaveFirst
  <2>3. Stored(c) \in Settings /\ Stored(c) # Unset /\ Backups \in Stored(c).folders
      BY <2>1, StoredIsGood, UnsetAssumption DEF UnsetAssumption
  <2>4. Ends(c, "failed") \/ Ends(c, "saved")
      BY <1>4 DEF SaveFirst
  <2>5. /\ managed' \in {Unset} \cup Settings /\ (managed # Unset => managed' # Unset)
        /\ (managed' # Unset => Backups \in managed'.folders)
      BY <2>2, <2>3 DEF SettingsInv, ManagedOK, DatabaseIsBackedUp
  <2> QED BY <2>4, <2>5, EndSettings
<1>5. CASE SaveChange(c)
  <2>1. sent[c] # Unset /\ managed # Unset
      BY <1>5 DEF SaveChange, SettingsInv, StageOK
  <2>2. \E F \in {{"policy", "cron"}, Fields} :
           managed' = [f \in Fields |-> IF f \in F THEN Stored(c)[f] ELSE managed[f]]
      BY <1>5 DEF SaveChange, Stores
  <2>3. managed' \in Settings /\ managed' # Unset /\ Backups \in managed'.folders
      BY <2>1, <2>2, StoredIsGood
  <2>4. Ends(c, "failed") \/ Ends(c, "saved")
      BY <1>5 DEF SaveChange
  <2> QED BY <2>3, <2>4, EndSettings
<1> QED BY <1>1, <1>2, <1>3, <1>4, <1>5 DEF SaveNext

(* Every step keeps the invariant.                                         *)
LEMMA NextSettings == SettingsInv /\ [SettingsNext]_settingsVars => SettingsInv'
<1> SUFFICES ASSUME SettingsInv, [SettingsNext]_settingsVars PROVE SettingsInv'
    OBVIOUS
<1>1. CASE Dies
  <2>1. managed' \in {Unset} \cup Settings /\ (managed # Unset => managed' # Unset)
        /\ (managed' # Unset => Backups \in managed'.folders)
    <3>1. CASE UNCHANGED managed
        BY <3>1 DEF SettingsInv, ManagedOK, DatabaseIsBackedUp
    <3>2. ASSUME NEW c \in Saves, NEW F \in {{"policy"}, {"policy", "cron"}, Fields},
                 stage[c] = "change", Stores(c, F)
          PROVE  <2>1!:
      <4>1. sent[c] # Unset /\ managed # Unset
          BY <3>2 DEF SettingsInv, StageOK
      <4> QED BY <3>2, <4>1, StoredIsGood DEF Stores
    <3>3. ASSUME NEW c \in Saves, stage[c] = "first", managed = Unset, managed' = Stored(c)
          PROVE  <2>1!:
      <4>1. sent[c] # Unset
          BY <3>3 DEF SettingsInv, StageOK
      <4> QED BY <3>3, <4>1, StoredIsGood
    <3> QED BY <1>1, <3>1, <3>2, <3>3 DEF Dies
  <2>2. FormsOK'
    <3>1. ASSUME NEW t \in Tabs
          PROVE  /\ form'[t] \in {Unset, [form[t] EXCEPT !.pending = Unset]}
                 /\ form[t] = Unset => form'[t] = Unset
                 /\ form'[t] \in {Unset} \cup Forms
      <4>1. form[t] # Unset => [form[t] EXCEPT !.pending = Unset] \in Forms
          BY SubmitIsGood DEF SettingsInv, FormsOK, GoodForm
      <4>2. form'[t] = IF form[t] = Unset THEN Unset ELSE [form[t] EXCEPT !.pending = Unset]
          BY <1>1 DEF Dies
      <4> QED BY <4>1, <4>2
    <3>2. form' \in [Tabs -> {Unset} \cup Forms]
      <4>1. form' = [t \in Tabs |-> form'[t]]
          BY <1>1 DEF Dies
      <4> QED BY <3>1, <4>1
    <3> QED BY <3>1, <3>2, FormsGoOn DEF SettingsInv
  <2>3. ManagedOK'
      BY <2>1 DEF ManagedOK, DatabaseIsBackedUp
  <2>4. SentOK' /\ KnownOK'
      BY <1>1 DEF Dies, SettingsInv, SentOK, KnownOK
  <2>5. StageOK'
      BY <1>1 DEF Dies, SettingsInv, StageOK
  <2> QED BY <2>2, <2>3, <2>4, <2>5 DEF SettingsInv
<1>2. CASE SetPolicy
  <2>1. managed \in Settings /\ Backups \in managed.folders
      BY <1>2 DEF SetPolicy, SettingsInv, ManagedOK, DatabaseIsBackedUp
  <2>2. managed' \in Settings /\ managed'.folders = managed.folders
      BY <1>2, <2>1 DEF SetPolicy, Settings
  <2>3. managed' # Unset
      BY <2>2, UnsetAssumption DEF UnsetAssumption
  <2>4. ManagedOK'
      BY <2>1, <2>2 DEF ManagedOK, DatabaseIsBackedUp
  <2>5. StageOK'
      BY <1>2, <2>3 DEF SetPolicy, SettingsInv, StageOK
  <2> QED BY <1>2, <2>4, <2>5 DEF SetPolicy, SettingsInv, KnownOK, FormsOK, SentOK
<1>3. CASE UNCHANGED settingsVars
    BY <1>3 DEF settingsVars, SettingsInv, ManagedOK, DatabaseIsBackedUp, KnownOK, FormsOK,
        SentOK, StageOK
<1> QED BY <1>1, <1>2, <1>3, TabSettings, SaveSettings DEF SettingsNext

(* A reachable state is well typed, with any number of tabs and saves.     *)
THEOREM SettingsTypeCorrect == SettingsSpec => []SettingsTypeOK
<1>1. SettingsInv => SettingsTypeOK
    BY DEF SettingsInv, ManagedOK, KnownOK, FormsOK, SentOK, StageOK, SettingsTypeOK
<1> QED BY <1>1, InitSettings, NextSettings, PTL DEF SettingsSpec

(* The folder of the database's backups is part of every stored            *)
(* integration, whichever forms and defaults were saved.                   *)
THEOREM DatabaseStaysBackedUp == SettingsSpec => []DatabaseIsBackedUp
<1>1. SettingsInv => DatabaseIsBackedUp
    BY DEF SettingsInv, ManagedOK
<1> QED BY <1>1, InitSettings, NextSettings, PTL DEF SettingsSpec

(* A field that the user did not touch would be stored as it is: unless it *)
(* was not there when the form was filled, has changed since, or cannot be *)
(* shown.                                                                  *)
THEOREM UntouchedFieldsShow == SettingsSpec => []UntouchedFieldsAreTrue
<1>1. SettingsInv => UntouchedFieldsAreTrue
  <2>1. SUFFICES ASSUME SettingsInv, managed # Unset, NEW t \in Tabs, form[t] # Unset,
                        NEW f \in Fields, f \notin form[t].touched, ~Misshown(f, managed[f]),
                        form[t].basis[f] = managed[f]
                 PROVE  Sent(form[t])[f] = managed[f]
      BY DEF UntouchedFieldsAreTrue
  <2>2. managed[f] # Unknown
    <3>1. managed \in Settings
        BY <2>1 DEF SettingsInv, ManagedOK
    <3> QED BY <3>1, NothingElse DEF Settings, Fields
  <2>3. Keeps(Sent(form[t]))
      BY <2>1 DEF SettingsInv, FormsOK, GoodForm
  <2>4. Sent(form[t]).touched = form[t].touched /\ Sent(form[t]).basis = form[t].basis
      BY DEF Sent
  <2> QED BY <2>1, <2>2, <2>3, <2>4 DEF Keeps
<1> QED BY <1>1, InitSettings, NextSettings, PTL DEF SettingsSpec

(* A save stores in place of a setting that was not touched what is there  *)
(* already, if the form was filled with that and can show it.              *)
LEMMA StoredIsKept ==
    ASSUME SettingsInv, NEW c \in Saves, sent[c] # Unset, managed # Unset, NEW f \in Fields,
           f \notin sent[c].touched, ~Misshown(f, managed[f]), sent[c].basis[f] = managed[f]
    PROVE  Stored(c)[f] = managed[f]
<1>1. managed[f] # Unknown /\ (f = "policy" => managed[f] # Unset)
  <2>1. managed \in Settings
      BY DEF SettingsInv, ManagedOK
  <2> QED BY <2>1, NothingElse DEF Settings, Fields
<1>2. sent[c][f] = managed[f]
    BY <1>1 DEF SettingsInv, SentOK, GoodRequest, Keeps
<1>3. CASE f = "policy"
    BY <1>1, <1>2, <1>3 DEF Stored
<1>4. CASE f # "policy"
    BY <1>2, <1>4 DEF Stored, Fields
<1> QED BY <1>3, <1>4

(* A stored setting changes only by a call about it, or by a save in whose *)
(* form it was touched, was out of date or could not be shown.             *)
THEOREM UntouchedAreKept == SettingsSpec => UntouchedSettingsStay
<1> DEFINE Excused(f) ==
              \/ f = "policy" /\ SetPolicy
              \/ \E c \in Saves :
                    /\ stage[c] = "change" /\ stage'[c] # "change"
                    /\ \/ f \in sent[c].touched \/ Misshown(f, managed[f])
                       \/ sent[c].basis[f] # managed[f]
           Stays == managed # Unset => \A f \in Fields : managed'[f] # managed[f] => Excused(f)
<1>1. SettingsInv /\ [SettingsNext]_settingsVars => Stays
  <2>1. SUFFICES ASSUME SettingsInv, [SettingsNext]_settingsVars, managed # Unset,
                        NEW f \in Fields, managed'[f] # managed[f]
                 PROVE  Excused(f)
      OBVIOUS
  <2>2. ASSUME NEW c \in Saves, NEW F \in SUBSET Fields, stage[c] = "change",
               stage'[c] # "change", Stores(c, F)
        PROVE  Excused(f)
    <3>1. Stored(c)[f] # managed[f]
        BY <2>1, <2>2 DEF Stores
    <3>2. sent[c] # Unset
        BY <2>1, <2>2 DEF SettingsInv, StageOK
    <3> QED BY <2>1, <2>2, <3>1, <3>2, StoredIsKept
  <2>3. CASE Dies
    <3>1. PICK c \in Saves, F \in {{"policy"}, {"policy", "cron"}, Fields} :
             stage[c] = "change" /\ Stores(c, F)
        BY <2>1, <2>3 DEF Dies
    <3>2. stage'[c] # "change" /\ F \in SUBSET Fields
        BY <2>3, <3>1 DEF Dies, Fields
    <3> QED BY <2>2, <3>1, <3>2
  <2>4. ASSUME NEW c \in Saves, SaveChange(c) PROVE Excused(f)
    <3>1. PICK F \in {{"policy", "cron"}, Fields} : stage[c] = "change" /\ Stores(c, F)
        BY <2>4 DEF SaveChange
    <3>2. stage'[c] # "change" /\ F \in SUBSET Fields
        BY <2>1, <2>4 DEF SaveChange, Ends, SettingsInv, StageOK, Fields
    <3> QED BY <2>2, <3>1, <3>2
  <2>5. CASE SetPolicy
    <3>1. f = "policy"
        BY <2>1, <2>5 DEF SetPolicy, SettingsInv, ManagedOK, Settings, Fields
    <3> QED BY <2>5, <3>1
  <2>6. ASSUME NEW t \in Tabs, TabNext(t) PROVE FALSE
      BY <2>1, <2>6 DEF TabNext, LearnIntegration, LearnRepository, LearnSchedule, Arrives,
          OpenForm, CloseForm, Reload, Edit, Submit
  <2>7. ASSUME NEW c \in Saves,
               SubmitDefaults(c) \/ Begin(c) \/ BackendFails(c) \/ SaveFirst(c)
        PROVE FALSE
      BY <2>1, <2>7 DEF SubmitDefaults, Begin, BackendFails, SaveFirst
  <2>8. CASE UNCHANGED settingsVars
      BY <2>1, <2>8 DEF settingsVars
  <2> QED BY <2>1, <2>3, <2>4, <2>5, <2>6, <2>7, <2>8 DEF SettingsNext, SaveNext
<1>2. SettingsInv /\ [SettingsNext]_settingsVars => [Stays]_settingsVars
    BY <1>1
<1> QED BY <1>2, InitSettings, NextSettings, PTL DEF SettingsSpec, UntouchedSettingsStay
=============================================================================
