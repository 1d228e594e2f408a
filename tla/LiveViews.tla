------------------------------- MODULE LiveViews -------------------------------
(***************************************************************************)
(* What a browser shows of the orchestrator: lists that it fetches, keeps  *)
(* in the cache of the query client, and patches with the events that the  *)
(* orchestrator publishes over a socket.                                   *)
(*                                                                         *)
(* Each behaviour is about one list, of the kind chosen at its start, in   *)
(* one browser.  A row or an entry of a list is a version, which counts    *)
(* the changes of the row: the fields that an update does not have are     *)
(* those that did not change.  The order of lists is left out: a list is   *)
(* the versions that it has of each row, and the rows of which it has more *)
(* than one entry.                                                         *)
(***************************************************************************)
EXTENDS Naturals, Sequences

CONSTANTS
    Kinds,   \* the kinds of lists that are looked at
    Changes, \* requests, runs and ticks that change rows, each once
    Ids,     \* the ids of rows, 1 of a row that is there from the beginning
    MaxOpen  \* a bound: the components that are mounted and show the list

ASSUME ViewsAssumption ==
    /\ Kinds \subseteq {"repositories", "dashboard", "backends", "schedules", "runs",
                        "integrations", "snapshots"}
    /\ Ids \subseteq Nat /\ 1 \in Ids /\ MaxOpen \in Nat

VARIABLES
    kind,
    rows,    \* the table (of snapshots: restic's repository)
    change,  \* the changes, from their write to their event
    wire,    \* the events on the way to the browser
    socket,  \* "off", "connecting", "on" or "refused"
    open,    \* how many mounted components listen
    cache,   \* the data of the query, and if there are any
    fetch,   \* the query's request, if it is fetching
    excused, \* the ids that the browser has no way to know well: their events were lost
    since    \* those of them that the answer under way does not have either

views == <<kind, rows, change, wire, socket, open, cache, fetch, excused, since>>

(* A list. *)
List == [shown : [Ids -> SUBSET Nat], twice : SUBSET Ids]
Empty == [shown |-> [i \in Ids |-> {}], twice |-> {}]

Row == [there : BOOLEAN, version : Nat]
NoChange == [stage |-> "idle", what |-> "update", id |-> 1, version |-> 0]
NoFetch == [stage |-> "none", rows |-> [i \in Ids |-> [there |-> FALSE, version |-> 0]]]

ViewsTypeOK ==
    /\ kind \in Kinds
    /\ rows \in [Ids -> Row]
    /\ change \in [Changes -> [stage : {"idle", "written", "done"}, what : {"create", "update", "delete"},
                               id : Ids, version : Nat]]
    /\ wire \in Seq([what : {"create", "update", "delete"}, id : Ids, version : Nat])
    /\ socket \in {"off", "connecting", "on", "refused"} /\ open \in 0 .. MaxOpen
    /\ cache \in [loaded : BOOLEAN, list : List]
    /\ fetch \in [stage : {"none", "asked", "answered"}, rows : [Ids -> Row]]
    /\ excused \subseteq Ids /\ since \subseteq Ids

ViewsInit ==
    /\ kind \in Kinds
    /\ rows = [i \in Ids |-> [there |-> i = 1, version |-> IF i = 1 THEN 1 ELSE 0]]
    /\ change = [c \in Changes |-> NoChange]
    /\ wire = <<>> /\ socket = "off" /\ open = 0
    /\ cache = [loaded |-> FALSE, list |-> Empty]
    /\ fetch = NoFetch
    /\ excused = {} /\ since = {}

-----------------------------------------------------------------------------
(* The orchestrator. *)

Written(i) == \E c \in Changes : change[c].id = i /\ change[c].stage = "written"

(* Which changes there are: a repository that is imported, and a backend   *)
(* that is logged into again, are created over what is there; runs are not *)
(* deleted, backends neither updated nor deleted; and the integrations are *)
(* one row.                                                                *)
Possible(what, i) ==
    /\ what = "create" => /\ rows[i].version = 0 \/ kind \in {"repositories", "dashboard", "backends"}
                          /\ kind # "integrations"
    /\ what = "update" => rows[i].there /\ kind \notin {"backends", "snapshots"}
    /\ what = "delete" => rows[i].there /\ kind \in {"repositories", "dashboard", "schedules", "snapshots"}

Write(c) == \E what \in {"create", "update", "delete"}, i \in Ids :
    /\ change[c].stage = "idle" /\ Possible(what, i)
    /\ rows' = [rows EXCEPT ![i] = [there |-> what # "delete", version |-> @.version + 1]]
    /\ change' = [change EXCEPT ![c] = [stage |-> "written", what |-> what, id |-> i,
                                        version |-> rows[i].version + 1]]
    /\ UNCHANGED <<kind, wire, socket, open, cache, fetch, excused, since>>

(* Events of es do not, or will not, count in the cache; the answer under  *)
(* way has what is not newer than it.                                      *)
Newer(es) == IF fetch.stage = "answered"
             THEN {e.id : e \in {f \in es : f.version > fetch.rows[f.id].version}}
             ELSE {}

Lose(es) == /\ excused' = excused \cup {e.id : e \in es}
            /\ since' = since \cup Newer(es)

Wired == {wire[n] : n \in DOMAIN wire}

Event(c, version) == [what |-> change[c].what, id |-> change[c].id, version |-> version]

(* publish: to the sockets that are connected.  What an update says was    *)
(* either written or read again after it.                                  *)
Publish(c) == \E version \in {change[c].version, rows[change[c].id].version} :
    /\ change[c].stage = "written"
    /\ version # change[c].version => /\ change[c].what = "update" /\ kind = "schedules"
                                      /\ rows[change[c].id].there
    /\ change' = [change EXCEPT ![c].stage = "done"]
    /\ IF socket = "on"
       THEN wire' = Append(wire, Event(c, version)) /\ UNCHANGED <<excused, since>>
       ELSE Lose({Event(c, version)}) /\ UNCHANGED wire
    /\ UNCHANGED <<kind, rows, socket, open, cache, fetch>>

(* What comes between the write and the event fails, or the process ends;  *)
(* forgetSnapshot, which keeps no run, publishes nothing of its own.       *)
PublishFails(c) ==
    /\ change[c].stage = "written"
    /\ change' = [change EXCEPT ![c].stage = "done"]
    /\ Lose({Event(c, change[c].version)})
    /\ UNCHANGED <<kind, rows, wire, socket, open, cache, fetch>>

Change(c) == Write(c) \/ Publish(c) \/ PublishFails(c)

-----------------------------------------------------------------------------
(* The socket of the browser. *)

Connected ==
    /\ socket = "connecting" /\ socket' = "on"
    /\ UNCHANGED <<kind, rows, change, wire, open, cache, fetch, excused, since>>

(* The connection breaks, and socket.io takes it up again; or the server   *)
(* does not find an administrator and ends it, or nobody has listened for  *)
(* a second, and it stays off.  What was under way is not sent again.      *)
Disconnected ==
    /\ socket = "on"
    /\ \/ socket' = "connecting"
       \/ socket' = "refused"
       \/ socket' = "off" /\ open = 0
    /\ wire' = <<>> /\ Lose(Wired)
    /\ UNCHANGED <<kind, rows, change, open, cache, fetch>>

-----------------------------------------------------------------------------
(* The query. *)

Asked == [fetch EXCEPT !.stage = "asked"]

(* A component is mounted: its data are taken for stale at once, and       *)
(* fetched unless a fetch is under way; its listeners are added.           *)
Mount ==
    /\ open < MaxOpen /\ open' = open + 1
    /\ socket' = IF socket = "on" THEN "on" ELSE "connecting"
    /\ fetch' = IF fetch.stage = "none" THEN Asked ELSE fetch
    /\ UNCHANGED <<kind, rows, change, wire, cache, excused, since>>

Unmount ==
    /\ open > 0 /\ open' = open - 1
    /\ UNCHANGED <<kind, rows, change, wire, socket, cache, fetch, excused, since>>

(* The window comes into focus, or the machine back to its network.        *)
Refetch ==
    /\ open > 0 /\ fetch.stage = "none" /\ fetch' = Asked
    /\ UNCHANGED <<kind, rows, change, wire, socket, open, cache, excused, since>>

Answer ==
    /\ fetch.stage = "asked"
    /\ fetch' = [stage |-> "answered", rows |-> rows] /\ since' = {}
    /\ UNCHANGED <<kind, rows, change, wire, socket, open, cache, excused>>

Listed(table) == [shown |-> [i \in Ids |-> IF table[i].there THEN {table[i].version} ELSE {}], twice |-> {}]

(* The answer replaces the data, and what events have made of them since.  *)
Store ==
    /\ fetch.stage = "answered"
    /\ cache' = [loaded |-> TRUE, list |-> Listed(fetch.rows)]
    /\ fetch' = NoFetch
    /\ excused' = since /\ since' = {}
    /\ UNCHANGED <<kind, rows, change, wire, socket, open>>

(* The requests of a fetch fail, the repeated ones too: the data stay.     *)
FetchFails ==
    /\ fetch.stage # "none" /\ fetch' = NoFetch /\ since' = {}
    /\ UNCHANGED <<kind, rows, change, wire, socket, open, cache, excused>>

(* Data that nobody has looked at for five minutes are dropped.            *)
Forget ==
    /\ open = 0 /\ cache.loaded /\ fetch.stage = "none"
    /\ cache' = [loaded |-> FALSE, list |-> Empty]
    /\ UNCHANGED <<kind, rows, change, wire, socket, open, fetch, excused, since>>

-----------------------------------------------------------------------------
(* Events. *)

Without(list, i) == [shown |-> [list.shown EXCEPT ![i] = {}], twice |-> list.twice \ {i}]

(* One more entry, whatever is there. *)
With(list, e) == [shown |-> [list.shown EXCEPT ![e.id] = @ \cup {e.version}],
                  twice |-> IF list.shown[e.id] = {} THEN list.twice ELSE list.twice \cup {e.id}]

(* Variant: a repository or backend is added as a schedule is.             *)
AddAsSchedule(list, e) == With(list, e)

(* Runs are added at the front, others at the end.                         *)
Add(list, e) ==
    With(IF kind \in {"repositories", "dashboard", "backends"} THEN Without(list, e.id) ELSE list, e)

(* Every entry of the row is replaced. *)
Replace(list, e) == [list EXCEPT !.shown[e.id] = IF @ = {} THEN {} ELSE {e.version}]

(* What one listener makes of the list; of the integrations there is one.  *)
Patch(list, e) ==
    IF kind = "integrations" THEN With(Empty, e)
    ELSE CASE e.what = "create" -> Add(list, e)
           [] e.what = "update" -> Replace(list, e)
           [] e.what = "delete" -> Without(list, e.id)

(* Both the list of backends and the dialogue of a login listen to the     *)
(* creation of a backend.                                                  *)
PatchAll(list, e) == IF kind = "backends" /\ open > 1 THEN Patch(Patch(list, e), e) ELSE Patch(list, e)

(* The dashboard does not listen to deletions.                             *)
Heard(e) == open > 0 /\ (kind = "dashboard" => e.what # "delete")

(* No later event of the row is to come that makes up for this one, as an  *)
(* update does not for a deletion.                                         *)
NoneLater(e) ==
    \/ e.what = "delete"
    \/ ~Written(e.id) /\ \A n \in DOMAIN wire : n > 1 => wire[n].id # e.id

(* Variant: a fetch that is under way is left to it.                       *)
InvalidateLate == fetch' = (IF fetch.stage = "none" THEN Asked ELSE fetch) /\ since' = {}

(* A run that is complete makes the snapshots stale: they are fetched      *)
(* again, and a fetch that is under way is given up, unless it is the      *)
(* first.                                                                  *)
Invalidate ==
    IF fetch.stage = "answered" /\ ~cache.loaded
    THEN UNCHANGED fetch /\ since' = since \cup Newer({Head(wire)})
    ELSE fetch' = Asked /\ since' = {}

DeliverRun ==
    /\ wire # <<>> /\ kind = "snapshots" /\ open > 0
    /\ wire' = Tail(wire) /\ excused' = excused \cup {Head(wire).id}
    /\ Invalidate
    /\ UNCHANGED <<kind, rows, change, socket, open, cache>>

Deliver ==
    LET e == Head(wire) IN
    /\ wire # <<>> /\ kind # "snapshots" /\ Heard(e)
    /\ wire' = Tail(wire)
    /\ IF cache.loaded \/ kind = "integrations"
       THEN cache' = [loaded |-> TRUE, list |-> PatchAll(cache.list, e)]
       ELSE UNCHANGED cache
    /\ excused' = IF (e.version < rows[e.id].version /\ NoneLater(e)) \/ ~cache.loaded
                  THEN excused \cup {e.id} ELSE excused
    /\ since' = since \cup Newer({e})
    /\ UNCHANGED <<kind, rows, change, socket, open, fetch>>

DeliverUnheard ==
    /\ wire # <<>> /\ ~Heard(Head(wire))
    /\ wire' = Tail(wire) /\ Lose({Head(wire)})
    /\ UNCHANGED <<kind, rows, change, socket, open, cache, fetch>>

(* A snapshot that this browser has had deleted.                           *)
RemoveSnapshot(i) ==
    /\ kind = "snapshots" /\ ~rows[i].there /\ cache.loaded
    /\ cache' = [cache EXCEPT !.list = Without(@, i)]
    /\ UNCHANGED <<kind, rows, change, wire, socket, open, fetch, excused, since>>

-----------------------------------------------------------------------------

ViewsNext ==
    \/ \E c \in Changes : Change(c)
    \/ Connected \/ Disconnected
    \/ Mount \/ Unmount \/ Refetch \/ Answer \/ Store \/ FetchFails \/ Forget
    \/ DeliverRun \/ Deliver \/ DeliverUnheard
    \/ \E i \in Ids : RemoveSnapshot(i)

ViewsSpec == ViewsInit /\ [][ViewsNext]_views

-----------------------------------------------------------------------------
(* Properties. *)

(* When no change, event or fetch is under way, a list that is loaded      *)
(* shows of every row what it is: unless the last event of the row was     *)
(* lost, overtaken by another, or overwritten by an older answer, and      *)
(* nothing was fetched after that.                                         *)
ListsShowTheRows ==
    wire = <<>> /\ fetch.stage = "none" /\ cache.loaded =>
        \A i \in Ids \ excused : ~Written(i) =>
            cache.list.shown[i] = IF rows[i].there THEN {rows[i].version} ELSE {}

(* Repositories and backends are in their lists once, whatever comes       *)
(* first, the answer of a fetch or the event, and however many listen.     *)
NoEntryTwice ==
    kind \in {"repositories", "dashboard", "backends"} => cache.list.twice = {}
=============================================================================
