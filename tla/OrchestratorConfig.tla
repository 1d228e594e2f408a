-------------------------- MODULE OrchestratorConfig --------------------------
(***************************************************************************)
(* What the orchestrator is told to back up: the rows of its database      *)
(* (repositories, paths, schedules, links, the Immich integration), the    *)
(* cron jobs that the process keeps beside them, and the restic            *)
(* repositories at the backends, under the calls of RepositoryService,     *)
(* ScheduleService and IntegrationsService.                                *)
(*                                                                         *)
(* SQLite answers at once (better-sqlite3), so that a call keeps the event *)
(* loop from one request to a backend or restic process to the next, and   *)
(* only there do others run.  But every statement is a transaction of its  *)
(* own, after which the process may die or the call fail.                  *)
(*                                                                         *)
(* Simplifications.                                                        *)
(*  - What a call creates has the call itself as its id, in place of a     *)
(*    random UUID; a remote id stands for the backend as well.             *)
(*  - Names, retention policies and the order within a schedule are left   *)
(*    out, as are the metrics and the history that are deleted with a row. *)
(*  - An update of a schedule changes one thing, and that of a repository   *)
(*    does not name a backend.                                             *)
(*  - Folders stand for Immich's data folders and libraries alike.         *)
(*  - A cron expression is one that the cron library accepts or not; the   *)
(*    schedule's own calls validate it, the integration's does not.        *)
(***************************************************************************)
EXTENDS Sequences, FiniteSets

CONSTANTS
    Calls,   \* the HTTP calls that will be made, each used once
    Folders, \* the folders that Immich may offer
    Ops,     \* the operations in use
    Crons,   \* the cron expressions that configureImmichIntegration is given
    Faults,  \* which failures can happen
    All,     \* the choice of whatever Immich offers
    Watcher, \* onModuleConfigUpdate
    None

AllOps == {"create", "update", "delete", "import", "reconfigure", "addSchedule",
           "relink", "retime", "pause", "removeSchedule", "configure"}

ASSUME ConfigAssumption ==
    /\ Ops \subseteq AllOps
    /\ Crons \subseteq {"ok", "bad"}
    /\ Faults \subseteq {"backend", "crash"}
    /\ None \notin Calls /\ Watcher \notin {None} \cup Calls
    /\ \A f \in SUBSET Folders : f # None /\ f # All
    /\ None \notin [cron : {"ok", "bad"}, paused : BOOLEAN]

VARIABLES
    remotes,     \* the restic repositories: "none", "empty" or "ready" (initialised)
    rows,        \* repositories: the remote of each local repository
    paths,       \* repositoryPaths
    scheds,      \* schedules
    links,       \* repositorySchedules: pairs of schedule and repository
    integration, \* repositoryIntegrationImmich, oldest row first
    jobs,        \* the cron jobs in the process
    boot,        \* "down", "ready" or "failed"
    offered,     \* the folders in the host's module configuration
    loop,        \* who keeps the event loop
    call,        \* what was asked for
    at,          \* where each call is
    seen,        \* configureImmichIntegration: the integration it found
    held,        \* and the folders it was offered
    reply        \* the answer

database == <<rows, paths, scheds, links, integration>>
process == <<jobs, boot, offered>>
request == <<call, seen, held>>
progress == <<loop, at, reply>>
configVars == <<remotes, database, process, request, progress>>

Choices == {All} \cup SUBSET Folders
Offers == {None} \cup SUBSET Folders
Schedule == [cron : {"ok", "bad"}, paused : BOOLEAN]

CallSet ==
    [op : {"create"}, want : SUBSET Folders]
    \cup [op : {"update"}, repo : Calls, want : SUBSET Folders]
    \cup [op : {"delete", "import", "reconfigure"}, repo : Calls]
    \cup [op : {"addSchedule"}, reps : SUBSET Calls]
    \cup [op : {"relink"}, sched : Calls, reps : SUBSET Calls]
    \cup [op : {"pause"}, sched : Calls, paused : BOOLEAN]
    \cup [op : {"retime", "removeSchedule"}, sched : Calls]
    \cup [op : {"configure"}, want : Choices]

External == {"remote", "init", "fetch", "keys", "name", "policy"}
Statements == {"insert", "repoint", "sync", "unpath", "unlink", "unrow", "schedule",
               "link", "relink", "row", "rejob", "upsert", "unschedule"}

ConfigTypeOK ==
    /\ remotes \in [Calls -> {"none", "empty", "ready"}]
    /\ rows \in [Calls -> {None} \cup Calls]
    /\ paths \in [Calls -> SUBSET Folders]
    /\ scheds \in [Calls -> {None} \cup Schedule]
    /\ links \subseteq Calls \X Calls
    /\ integration \in Seq([id : Calls, want : Choices])
    /\ jobs \in [Calls -> {None} \cup Schedule]
    /\ boot \in {"down", "ready", "failed"}
    /\ offered \in Offers
    /\ loop \in {None, Watcher} \cup Calls
    /\ call \in [Calls -> {None} \cup CallSet]
    /\ at \in [Calls -> External \cup Statements \cup {"idle", "done"}]
    /\ seen \in [Calls -> Calls \cup {None}]
    /\ held \in [Calls -> Offers]
    /\ reply \in [Calls -> {"none", "ok", "error"}]

ConfigInit ==
    /\ remotes = [c \in Calls |-> "none"]
    /\ rows = [c \in Calls |-> None]
    /\ paths = [c \in Calls |-> {}]
    /\ scheds = [c \in Calls |-> None]
    /\ links = {}
    /\ integration = <<>>
    /\ jobs = [c \in Calls |-> None]
    /\ boot = "down"
    /\ offered \in Offers
    /\ loop = None
    /\ call = [c \in Calls |-> None]
    /\ at = [c \in Calls |-> "idle"]
    /\ seen = [c \in Calls |-> None]
    /\ held = [c \in Calls |-> None]
    /\ reply = [c \in Calls |-> "none"]

-----------------------------------------------------------------------------
(* Whom a call is about. *)

Existing(c) == call[c].op = "configure" /\ seen[c] # None

Repo(c) ==
    CASE call[c].op \in {"update", "delete", "reconfigure"} -> call[c].repo
      [] Existing(c) -> seen[c]
      [] OTHER -> c

Sched(c) ==
    CASE call[c].op \in {"relink", "pause", "retime", "removeSchedule"} -> call[c].sched
      [] Existing(c) -> seen[c]
      [] OTHER -> c

Reps(c) == IF call[c].op = "configure" THEN {c} ELSE call[c].reps

(* The time in the request, for which a call has one use. *)
GivenCrons(c) == IF call[c].op = "configure" THEN Crons ELSE {"ok"}

Linked(s) == {l \in Calls : <<s, l>> \in links}

(* getImmichBackupPaths. *)
Chosen(want, offer) == IF want = All THEN offer ELSE want \cap offer

Target(c) ==
    IF call[c].op = "configure" THEN Chosen(call[c].want, held[c]) ELSE call[c].want

(* The integration that get() finds is the oldest. *)
Managed(s) == integration # <<>> /\ Head(integration).id = s

(* An id is known to a client once the call that makes it is under way.    *)
Known == {c \in Calls : at[c] # "idle"}

Refers(q) ==
    CASE q.op \in {"update", "delete", "import", "reconfigure"} -> {q.repo}
      [] q.op = "addSchedule" -> q.reps
      [] q.op = "relink" -> {q.sched} \cup q.reps
      [] q.op \in {"pause", "retime", "removeSchedule"} -> {q.sched}
      [] OTHER -> {}

-----------------------------------------------------------------------------
(* Control: a call runs on to its next statement, waits for something      *)
(* outside the process, or is answered.                                    *)

(* What only the call itself can see is gone with it.                      *)
Forget(S) ==
    /\ call' = [c \in Calls |-> IF c \in S THEN None ELSE call[c]]
    /\ seen' = [c \in Calls |-> IF c \in S THEN None ELSE seen[c]]
    /\ held' = [c \in Calls |-> IF c \in S THEN None ELSE held[c]]

MayRun(c) == boot # "down" /\ loop \in {None, c}

RunsOn(c, next) ==
    /\ at' = [at EXCEPT ![c] = next]
    /\ loop' = c
    /\ UNCHANGED <<reply, request>>

Awaits(c, what) ==
    /\ at' = [at EXCEPT ![c] = what]
    /\ loop' = None
    /\ UNCHANGED <<reply, request>>

(* What a call waited for has ended; it goes on when the loop is free.     *)
Ended(c, next) ==
    /\ at' = [at EXCEPT ![c] = next]
    /\ UNCHANGED <<loop, reply, request>>

Answer(c, status) ==
    /\ at' = [at EXCEPT ![c] = "done"]
    /\ reply' = [reply EXCEPT ![c] = status]
    /\ loop' = IF loop = c THEN None ELSE loop
    /\ Forget({c})

-----------------------------------------------------------------------------
(* The first segment of each handler. *)

(* The call runs up to its first statement or await.                       *)
Takes(c, q, next, keeps) ==
    /\ call' = [call EXCEPT ![c] = q]
    /\ at' = [at EXCEPT ![c] = next]
    /\ loop' = IF keeps THEN c ELSE None
    /\ UNCHANGED <<seen, held, reply>>

Refuses(c) == Answer(c, "error")

(* Variant: only the removal of the managed schedule is refused.           *)
GuardedRemoval(q) == q.op = "removeSchedule" /\ Managed(q.sched)

(* updateSchedule lets the managed schedule be paused, and nothing else.   *)
Guarded(q) == q.op \in {"relink", "retime", "removeSchedule"} /\ Managed(q.sched)

Dispatch(c, q) ==
    \/ q.op \in {"create", "reconfigure"} /\ Takes(c, q, "remote", FALSE)
    \/ q.op = "import" /\ Takes(c, q, "fetch", FALSE)
    \/ q.op = "update" /\ rows[q.repo] # None /\ Takes(c, q, "name", FALSE)
    \/ q.op = "update" /\ rows[q.repo] = None /\ Refuses(c)
    \/ q.op = "delete" /\ Takes(c, q, "unpath", TRUE)
    \/ q.op = "addSchedule" /\ Takes(c, q, "schedule", TRUE)
    \/ Guarded(q) /\ Refuses(c)
    \/ ~Guarded(q) /\ q.op = "relink" /\ Takes(c, q, "relink", TRUE)
    \/ ~Guarded(q) /\ q.op \in {"retime", "pause"} /\ Takes(c, q, "row", TRUE)
    \/ ~Guarded(q) /\ q.op = "removeSchedule" /\ Takes(c, q, "unschedule", TRUE)
    \/ q.op = "configure" /\ offered = None /\ Refuses(c)
    \/ /\ q.op = "configure" /\ offered # None
       /\ call' = [call EXCEPT ![c] = q]
       /\ held' = [held EXCEPT ![c] = offered]
       /\ seen' = [seen EXCEPT ![c] = IF integration = <<>> THEN None ELSE Head(integration).id]
       /\ at' = [at EXCEPT ![c] = IF integration = <<>> THEN "remote" ELSE "name"]
       /\ UNCHANGED <<loop, reply>>

Receive(c) ==
    /\ at[c] = "idle" /\ boot # "down" /\ loop = None
    /\ \E q \in {p \in CallSet : p.op \in Ops /\ Refers(p) \subseteq Known} : Dispatch(c, q)
    /\ UNCHANGED <<remotes, database, process>>

-----------------------------------------------------------------------------
(* Outside the process: the backend's API and restic. *)

CreateRemote(c) ==
    /\ at[c] = "remote"
    /\ remotes' = [remotes EXCEPT ![c] = "empty"]
    /\ Ended(c, "init")
    /\ UNCHANGED <<database, process>>

(* restic init, after the endpoint was fetched and the key derived.        *)
InitRemote(c) ==
    /\ at[c] = "init"
    /\ remotes' = [remotes EXCEPT ![c] = "ready"]
    /\ Ended(c, IF call[c].op = "reconfigure" THEN "repoint" ELSE "insert")
    /\ UNCHANGED <<database, process>>

(* An import asks for the remote, and lists its keys to see if it is ours. *)
Fetch(c) ==
    /\ at[c] = "fetch"
    /\ IF remotes[call[c].repo] = "none" THEN Answer(c, "error") ELSE Ended(c, "keys")
    /\ UNCHANGED <<remotes, database, process>>

(* Variant: the import goes on if the keys cannot be listed.               *)
ListKeysAnyway(c) ==
    /\ at[c] = "keys"
    /\ Ended(c, "insert")
    /\ UNCHANGED <<remotes, database, process>>

ListKeys(c) ==
    /\ at[c] = "keys"
    /\ IF remotes[call[c].repo] = "ready" THEN Ended(c, "insert") ELSE Answer(c, "error")
    /\ UNCHANGED <<remotes, database, process>>

(* updateRepository renames the remote, or reads it.                       *)
Rename(c) ==
    /\ \/ at[c] = "name" /\ Ended(c, IF call[c].op = "configure" THEN "row" ELSE "sync")
       \/ at[c] = "policy" /\ Ended(c, "schedule")
    /\ UNCHANGED <<remotes, database, process>>

(* Any of them fails, with or without effect.                              *)
ExternalFails(c) ==
    /\ "backend" \in Faults
    /\ \/ at[c] \in External /\ UNCHANGED remotes
       \/ at[c] = "remote" /\ remotes' = [remotes EXCEPT ![c] = "empty"]
       \/ at[c] = "init" /\ remotes' = [remotes EXCEPT ![c] = "ready"]
    /\ Answer(c, "error")
    /\ UNCHANGED <<database, process>>

-----------------------------------------------------------------------------
(* The statements about repositories. *)

Insert(c) ==
    /\ at[c] = "insert" /\ MayRun(c)
    /\ rows' = [rows EXCEPT ![c] = IF call[c].op = "import" THEN call[c].repo ELSE c]
    /\ \/ call[c].op = "create" /\ RunsOn(c, "sync")
       \/ call[c].op = "import" /\ Answer(c, "ok")
       \/ call[c].op = "configure" /\ Awaits(c, "policy")
       \/ call[c].op = "configure" /\ RunsOn(c, "schedule")
    /\ UNCHANGED <<remotes, paths, scheds, links, integration, process>>

(* reconfigureRepositoryPrimaryBackend: the row may be gone by now.        *)
Repoint(c) ==
    /\ at[c] = "repoint" /\ MayRun(c)
    /\ IF rows[Repo(c)] = None
       THEN Answer(c, "error") /\ UNCHANGED rows
       ELSE Answer(c, "ok") /\ rows' = [rows EXCEPT ![Repo(c)] = c]
    /\ UNCHANGED <<remotes, paths, scheds, links, integration, process>>

(* Paths that are no longer wanted are deleted one by one, then those that *)
(* are missing are added.                                                  *)
SyncOne(l, target) ==
    \/ \E p \in paths[l] \ target : paths' = [paths EXCEPT ![l] = @ \ {p}]
    \/ /\ paths[l] \subseteq target
       /\ \E p \in target \ paths[l] : paths' = [paths EXCEPT ![l] = @ \cup {p}]

SyncPaths(c) ==
    /\ at[c] = "sync" /\ MayRun(c)
    /\ \/ rows[Repo(c)] = None /\ Answer(c, "error") /\ UNCHANGED paths
       \/ rows[Repo(c)] # None /\ SyncOne(Repo(c), Target(c)) /\ RunsOn(c, "sync")
       \/ /\ rows[Repo(c)] # None /\ paths[Repo(c)] = Target(c)
          /\ Answer(c, "ok") /\ UNCHANGED paths
    /\ UNCHANGED <<remotes, rows, scheds, links, integration, process>>

(* RepositoryRepository.delete: five statements, of which the last meets   *)
(* the foreign key of the integration.                                     *)
DeletePaths(c) ==
    /\ at[c] = "unpath" /\ MayRun(c)
    /\ paths' = [paths EXCEPT ![Repo(c)] = {}]
    /\ RunsOn(c, "unlink")
    /\ UNCHANGED <<remotes, rows, scheds, links, integration, process>>

DeleteLinks(c) ==
    /\ at[c] = "unlink" /\ MayRun(c)
    /\ links' = {k \in links : k[2] # Repo(c)}
    /\ RunsOn(c, "unrow")
    /\ UNCHANGED <<remotes, rows, paths, scheds, integration, process>>

(* Variant: the foreign key is not enforced.                               *)
ReferencedByNone(id) == FALSE

Referenced(id) == \E i \in DOMAIN integration : integration[i].id = id

DeleteRow(c) ==
    /\ at[c] = "unrow" /\ MayRun(c)
    /\ IF Referenced(Repo(c))
       THEN Answer(c, "error") /\ UNCHANGED rows
       ELSE Answer(c, "ok") /\ rows' = [rows EXCEPT ![Repo(c)] = None]
    /\ UNCHANGED <<remotes, paths, scheds, links, integration, process>>

-----------------------------------------------------------------------------
(* The statements about schedules. *)

CreateSchedule(c) ==
    /\ at[c] = "schedule" /\ MayRun(c)
    /\ IF call[c].op = "configure" /\ rows[c] = None
       THEN Answer(c, "error") /\ UNCHANGED scheds
       ELSE /\ \E cron \in GivenCrons(c) :
                  scheds' = [scheds EXCEPT ![c] = [cron |-> cron, paused |-> FALSE]]
            /\ RunsOn(c, "link")
    /\ UNCHANGED <<remotes, rows, paths, links, integration, process>>

Link(c) ==
    /\ at[c] = "link" /\ MayRun(c)
    /\ \E l \in Reps(c) \ Linked(c) :
          IF rows[l] = None
          THEN Answer(c, "error") /\ UNCHANGED links
          ELSE links' = links \cup {<<c, l>>} /\ RunsOn(c, "link")
    /\ UNCHANGED <<remotes, rows, paths, scheds, integration, process>>

(* createCronJob: the library throws at an expression that it cannot read. *)
AddJob(c) ==
    /\ at[c] = "link" /\ MayRun(c)
    /\ Reps(c) \subseteq Linked(c)
    /\ IF scheds[c].cron = "bad"
       THEN Answer(c, "error") /\ UNCHANGED jobs
       ELSE /\ jobs' = [jobs EXCEPT ![c] = scheds[c]]
            /\ IF call[c].op = "configure" THEN RunsOn(c, "upsert") ELSE Answer(c, "ok")
    /\ UNCHANGED <<remotes, database, boot, offered>>

(* applyScheduleUpdate: new links, old links, the row, the job.            *)
Relink(c) ==
    /\ at[c] = "relink" /\ MayRun(c)
    /\ LET s == Sched(c) IN
       \/ \E l \in Reps(c) \ Linked(s) :
             IF rows[l] = None \/ scheds[s] = None
             THEN Answer(c, "error") /\ UNCHANGED links
             ELSE links' = links \cup {<<s, l>>} /\ RunsOn(c, "relink")
       \/ /\ Reps(c) \subseteq Linked(s)
          /\ \E l \in Linked(s) \ Reps(c) : links' = links \ {<<s, l>>}
          /\ RunsOn(c, "relink")
       \/ Reps(c) = Linked(s) /\ RunsOn(c, "row") /\ UNCHANGED links
    /\ UNCHANGED <<remotes, rows, paths, scheds, integration, process>>

(* The schedule as the request wants it. *)
Edits(c, s) ==
    CASE call[c].op \in {"configure", "retime"} ->
            {[s EXCEPT !.cron = cron] : cron \in GivenCrons(c)}
      [] call[c].op = "pause" -> {[s EXCEPT !.paused = call[c].paused]}
      [] OTHER -> {s}

UpdateRow(c) ==
    /\ at[c] = "row" /\ MayRun(c)
    /\ IF scheds[Sched(c)] = None
       THEN Answer(c, "error") /\ UNCHANGED scheds
       ELSE /\ \E e \in Edits(c, scheds[Sched(c)]) : scheds' = [scheds EXCEPT ![Sched(c)] = e]
            /\ RunsOn(c, "rejob")
    /\ UNCHANGED <<remotes, rows, paths, links, integration, process>>

(* Variant: the job gets its new time and runs on when it is paused.       *)
SetTimeOnly(s) == [scheds[s] EXCEPT !.paused = jobs[s].paused]

(* updateCronJob sets the time and stops or starts the job.                *)
JobOf(s) == scheds[s]

UpdateJob(c) ==
    /\ at[c] = "rejob" /\ MayRun(c)
    /\ IF jobs[Sched(c)] = None \/ scheds[Sched(c)].cron = "bad"
       THEN Answer(c, "error") /\ UNCHANGED jobs
       ELSE /\ jobs' = [jobs EXCEPT ![Sched(c)] = JobOf(Sched(c))]
            /\ IF call[c].op = "configure" THEN RunsOn(c, "upsert") ELSE Answer(c, "ok")
    /\ UNCHANGED <<remotes, database, boot, offered>>

(* removeSchedule: the links go with the row; without a job to remove the  *)
(* call fails afterwards.                                                  *)
RemoveSchedule(c) ==
    /\ at[c] = "unschedule" /\ MayRun(c)
    /\ LET s == Sched(c) IN
       IF Referenced(s)
       THEN Answer(c, "error") /\ UNCHANGED <<scheds, links, jobs>>
       ELSE /\ scheds' = [scheds EXCEPT ![s] = None]
            /\ links' = {k \in links : k[1] # s}
            /\ jobs' = [jobs EXCEPT ![s] = None]
            /\ Answer(c, IF jobs[s] = None THEN "error" ELSE "ok")
    /\ UNCHANGED <<remotes, rows, paths, integration, boot, offered>>

-----------------------------------------------------------------------------
(* The integration, and the process. *)

Upsert(c) ==
    /\ at[c] = "upsert" /\ MayRun(c)
    /\ integration' =
          IF Existing(c)
          THEN [i \in DOMAIN integration |->
                   IF integration[i].id = seen[c]
                   THEN [integration[i] EXCEPT !.want = call[c].want]
                   ELSE integration[i]]
          ELSE Append(integration, [id |-> c, want |-> call[c].want])
    /\ RunsOn(c, "sync")
    /\ UNCHANGED <<remotes, rows, paths, scheds, links, process>>

(* The host changes the module configuration, and onModuleConfigUpdate     *)
(* starts if Immich is (still) there and an integration configured.        *)
UpdateModuleConfig ==
    /\ boot # "down" /\ loop = None
    /\ offered' \in Offers
    /\ loop' = IF offered' # None /\ integration # <<>> THEN Watcher ELSE None
    /\ UNCHANGED <<remotes, database, jobs, boot, request, at, reply>>

FollowModuleConfig ==
    /\ loop = Watcher
    /\ LET first == Head(integration)
           target == Chosen(first.want, offered)
       IN \/ SyncOne(first.id, target) /\ UNCHANGED loop
          \/ paths[first.id] = target /\ loop' = None /\ UNCHANGED paths
    /\ UNCHANGED <<remotes, rows, scheds, links, integration, process, request, at, reply>>

(* Variant: the bootstrap makes no job for a paused schedule.              *)
StartActive ==
    /\ boot = "down"
    /\ jobs' = [s \in Calls |->
                  IF scheds[s] # None /\ ~scheds[s].paused THEN scheds[s] ELSE None]
    /\ boot' = "ready"
    /\ UNCHANGED <<remotes, database, offered, request, progress>>

(* onApplicationBootstrap, before any call is taken.  The rows are taken   *)
(* in turn, up to the first whose expression the cron library refuses.     *)
Start ==
    /\ boot = "down"
    /\ LET bad == {s \in Calls : scheds[s] # None /\ scheds[s].cron = "bad"} IN
       \E made \in SUBSET {s \in Calls : scheds[s] # None /\ s \notin bad} :
          /\ bad = {} => made = {s \in Calls : scheds[s] # None}
          /\ jobs' = [s \in Calls |-> IF s \in made THEN scheds[s] ELSE None]
          /\ boot' = IF bad = {} THEN "ready" ELSE "failed"
    /\ UNCHANGED <<remotes, database, offered, request, progress>>

(* The process dies, and with it the calls that are under way; the host    *)
(* may come back with another module configuration.                        *)
Crash ==
    /\ "crash" \in Faults
    /\ boot # "down"
    /\ boot' = "down"
    /\ jobs' = [c \in Calls |-> None]
    /\ offered' \in Offers
    /\ loop' = None
    /\ at' = [c \in Calls |-> IF at[c] = "idle" THEN "idle" ELSE "done"]
    /\ Forget(Calls)
    /\ UNCHANGED <<remotes, database, reply>>

Step(c) ==
    \/ CreateRemote(c) \/ InitRemote(c) \/ Fetch(c) \/ ListKeys(c) \/ Rename(c)
    \/ ExternalFails(c)
    \/ Insert(c) \/ Repoint(c) \/ SyncPaths(c)
    \/ DeletePaths(c) \/ DeleteLinks(c) \/ DeleteRow(c)
    \/ CreateSchedule(c) \/ Link(c) \/ AddJob(c)
    \/ Relink(c) \/ UpdateRow(c) \/ UpdateJob(c) \/ RemoveSchedule(c)
    \/ Upsert(c)

ConfigNext ==
    \/ \E c \in Calls : Receive(c) \/ Step(c)
    \/ UpdateModuleConfig \/ FollowModuleConfig
    \/ Start \/ Crash

ConfigSpec == ConfigInit /\ [][ConfigNext]_configVars

-----------------------------------------------------------------------------
(* Properties. *)

(* Every local repository points at a restic repository that has been      *)
(* initialised, whatever failed or died on the way (createRepository,      *)
(* importRepository and reconfigureRepositoryPrimaryBackend write the row  *)
(* last): a backup never meets a repository that it cannot open.           *)
RowsAreReady == \A l \in Calls : rows[l] # None => remotes[rows[l]] = "ready"

(* Whenever no call keeps the loop, a cron job is one of the table: its    *)
(* schedule exists, and has the same time and is paused exactly if the job *)
(* is stopped, unless the row's time cannot be read (then updateCronJob    *)
(* fails after the row was written).  So no schedule fires that has been   *)
(* removed or paused.                                                      *)
JobsAreScheduled ==
    loop = None => \A s \in Calls : jobs[s] # None =>
        scheds[s] # None /\ (scheds[s].cron = "ok" => jobs[s] = scheds[s])

(* A schedule whose creation was answered with success, by createSchedule  *)
(* or configureImmichIntegration, has its cron job as long as it exists,   *)
(* through edits, pauses, failures of other calls, crashes and restarts,   *)
(* unless the bootstrap has failed.                                        *)
CreatedSchedulesTick ==
    \A c \in Calls :
        reply[c] = "ok" /\ scheds[c] # None /\ boot = "ready" => jobs[c] # None

(* Once the integration is configured, the repository and the schedule it  *)
(* was given are its own for good, and neither is deleted (removeSchedule  *)
(* and the foreign keys refuse to).                                        *)
ImmichKeepsItsRepository ==
    [][integration # <<>> =>
          /\ integration' # <<>> /\ Head(integration').id = Head(integration).id
          /\ rows'[Head(integration).id] # None
          /\ scheds'[Head(integration).id] # None]_configVars

(* The managed schedule backs up the managed repository, and stops doing  *)
(* so only if someone asks for the deletion of the repository (which then  *)
(* fails, with the links already gone): updateSchedule refuses to.         *)
OnlyDeletionUnlinks ==
    [][integration # <<>> =>
          LET k == <<Head(integration).id, Head(integration).id>> IN
          k \in links => k \in links' \/ \E c \in Calls : DeleteLinks(c)]_configVars
=============================================================================
