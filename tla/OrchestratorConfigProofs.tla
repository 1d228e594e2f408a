---------------------- MODULE OrchestratorConfigProofs ----------------------
(***************************************************************************)
(* OrchestratorConfig for any number of calls and folders, and any         *)
(* failures.                                                               *)
(***************************************************************************)
EXTENDS OrchestratorConfig, SequenceTheorems, TLAPS

-----------------------------------------------------------------------------
(* What a call carries. *)

(* What a call consists of.                                                *)
LEMMA CallParts ==
    ASSUME NEW q \in CallSet
    PROVE  /\ q.op \in AllOps
           /\ q.op \in {"update", "delete", "import", "reconfigure"} => q.repo \in Calls
           /\ q.op \in {"create", "update"} => q.want \in SUBSET Folders
           /\ q.op = "addSchedule" => q.reps \in SUBSET Calls
           /\ q.op \in {"relink", "retime", "pause", "removeSchedule"} => q.sched \in Calls
           /\ q.op = "relink" => q.reps \in SUBSET Calls
           /\ q.op = "pause" => q.paused \in BOOLEAN
           /\ q.op = "configure" => q.want \in Choices
BY DEF CallSet, AllOps

(* The operations that may be at a statement or an await.                  *)
Doing(w) ==
    CASE w \in {"remote", "init"} -> {"create", "reconfigure", "configure"}
      [] w \in {"fetch", "keys"} -> {"import"}
      [] w = "name" -> {"update", "configure"}
      [] w = "insert" -> {"create", "import", "configure"}
      [] w = "repoint" -> {"reconfigure"}
      [] w = "sync" -> {"create", "update", "configure"}
      [] w \in {"unpath", "unlink", "unrow"} -> {"delete"}
      [] w \in {"schedule", "link"} -> {"addSchedule", "configure"}
      [] w = "relink" -> {"relink"}
      [] w \in {"row", "rejob"} -> {"relink", "retime", "pause", "configure"}
      [] w = "unschedule" -> {"removeSchedule"}
      [] OTHER -> {"configure"}

Places == External \cup Statements

(* The control state: types, and which call can be where.                  *)
ControlOK ==
    /\ loop \in {None, Watcher} \cup Calls
    /\ call \in [Calls -> {None} \cup CallSet]
    /\ at \in [Calls -> Places \cup {"idle", "done"}]
    /\ seen \in [Calls -> Calls \cup {None}]
    /\ held \in [Calls -> Offers]
    /\ reply \in [Calls -> {"none", "ok", "error"}]
    /\ \A c \in Calls :
          at[c] \in Places =>
              /\ call[c] \in CallSet
              /\ call[c].op \in Doing(at[c])
              /\ call[c].op = "configure" => held[c] # None

(* And the rest of the types.                                              *)
DataOK ==
    /\ remotes \in [Calls -> {"none", "empty", "ready"}]
    /\ rows \in [Calls -> {None} \cup Calls]
    /\ paths \in [Calls -> SUBSET Folders]
    /\ scheds \in [Calls -> {None} \cup Schedule]
    /\ links \subseteq Calls \X Calls
    /\ integration \in Seq([id : Calls, want : Choices])
    /\ jobs \in [Calls -> {None} \cup Schedule]
    /\ boot \in {"down", "ready", "failed"}
    /\ offered \in Offers

(* The integration that counts names a call and folders.                   *)
LEMMA HeadOK ==
    ASSUME DataOK, integration # <<>>
    PROVE  Head(integration).id \in Calls /\ Head(integration).want \in Choices
<1>. DEFINE R == [id : Calls, want : Choices]
<1>1. integration \in Seq(R)
  BY DEF DataOK
<1>. HIDE DEF R
<1>2. Head(integration) \in R
  BY <1>1, HeadTailProperties
<1>. QED BY <1>2 DEF R

(* The same, of the first row.                                             *)
LEMMA FirstOK ==
    ASSUME DataOK, integration # <<>>
    PROVE  integration[1] \in [id : Calls, want : Choices]
<1>. DEFINE R == [id : Calls, want : Choices]
<1>1. integration \in Seq(R)
  BY DEF DataOK
<1>. HIDE DEF R
<1>2. integration[1] \in R
  BY <1>1
<1>. QED BY <1>2 DEF R

(* A call that goes on, or awaits, stays well typed.                       *)
LEMMA RunsOnOK ==
    ASSUME ControlOK, NEW c \in Calls, NEW w \in Places, at[c] \in Places,
           call[c].op \in Doing(w),
           RunsOn(c, w) \/ Awaits(c, w) \/ Ended(c, w)
    PROVE  ControlOK'
BY DEF ControlOK, RunsOn, Awaits, Ended, request

(* So does one that is answered.                                           *)
LEMMA AnswerOK ==
    ASSUME ControlOK, NEW c \in Calls, NEW s \in {"ok", "error"}, Answer(c, s)
    PROVE  ControlOK'
BY DEF ControlOK, Answer, Forget, Offers, Places, External, Statements

(* So does one that begins.                                                *)
LEMMA TakesOK ==
    ASSUME ControlOK, NEW c \in Calls, NEW q \in CallSet, NEW w \in Places,
           NEW keeps \in BOOLEAN, q.op \in Doing(w), q.op # "configure",
           Takes(c, q, w, keeps)
    PROVE  ControlOK'
BY DEF ControlOK, Takes

(* Whatever call is received, the types are kept.                          *)
LEMMA ReceiveOK ==
    ASSUME ControlOK, DataOK, NEW c \in Calls, Receive(c)
    PROVE  ControlOK'
<1>1. PICK q \in CallSet : Dispatch(c, q)
  BY DEF Receive
<1>2. CASE q.op # "configure"
  <2>1. CASE Refuses(c)
    BY <2>1, AnswerOK DEF Refuses
  <2>2. CASE \E w \in Places, keeps \in BOOLEAN : q.op \in Doing(w) /\ Takes(c, q, w, keeps)
    BY <1>2, <2>2, TakesOK
  <2>3. CASE q.op \in {"create", "reconfigure", "import", "update"}
    <3>1. Refuses(c) \/ \E w \in {"remote", "fetch", "name"} : q.op \in Doing(w) /\ Takes(c, q, w, FALSE)
      BY <1>1, <2>3 DEF Dispatch, Guarded, Doing
    <3>. QED BY <2>1, <2>2, <3>1 DEF Places, External
  <2>4. CASE q.op \in {"delete", "addSchedule", "relink", "retime", "pause", "removeSchedule"}
    <3>1. \/ Refuses(c)
          \/ \E w \in {"unpath", "schedule", "relink", "row", "unschedule"} :
                q.op \in Doing(w) /\ Takes(c, q, w, TRUE)
      BY <1>1, <2>4 DEF Dispatch, Doing
    <3>. QED BY <2>1, <2>2, <3>1 DEF Places, Statements
  <2>. QED BY <1>1, <1>2, <2>3, <2>4 DEF Dispatch, Guarded
<1>3. CASE q.op = "configure"
  <2>1. CASE offered = None
    BY <1>1, <1>3, <2>1, AnswerOK DEF Dispatch, Refuses, Guarded
  <2>2. CASE offered # None
    <3>1. PICK w \in {"remote", "name"} : at' = [at EXCEPT ![c] = w]
      BY <1>1, <1>3, <2>2 DEF Dispatch, Guarded
    <3>2. PICK i \in Calls \cup {None} : seen' = [seen EXCEPT ![c] = i]
      BY <1>1, <1>3, <2>2, HeadOK DEF Dispatch, Guarded
    <3>3. /\ call' = [call EXCEPT ![c] = q] /\ held' = [held EXCEPT ![c] = offered]
          /\ UNCHANGED <<loop, reply>>
      BY <1>1, <1>3, <2>2 DEF Dispatch, Guarded
    <3>4. w \in Places /\ q.op \in Doing(w)
      BY <1>3 DEF Doing, Places, External
    <3>5. /\ at' \in [Calls -> Places \cup {"idle", "done"}] /\ seen' \in [Calls -> Calls \cup {None}]
          /\ call' \in [Calls -> {None} \cup CallSet] /\ held' \in [Calls -> Offers]
      BY <3>1, <3>2, <3>3, <3>4 DEF ControlOK, DataOK
    <3>6. ASSUME NEW d \in Calls, at'[d] \in Places
          PROVE  /\ call'[d] \in CallSet /\ call'[d].op \in Doing(at'[d])
                 /\ call'[d].op = "configure" => held'[d] # None
      <4>1. CASE d = c
        BY <2>2, <3>1, <3>3, <3>4, <4>1 DEF ControlOK
      <4>2. CASE d # c
        BY <3>1, <3>3, <3>6, <4>2 DEF ControlOK
      <4>. QED BY <4>1, <4>2
    <3>. QED
      BY <3>3, <3>5, <3>6 DEF ControlOK
  <2>. QED BY <2>1, <2>2
<1>. QED BY <1>2, <1>3

(* A step of a call keeps the types of the calls.                          *)
LEMMA StepControlOK ==
    ASSUME ControlOK, DataOK, NEW c \in Calls, Step(c)
    PROVE  ControlOK'
<1>. USE DEF Doing, Places, External, Statements
<1>0. at[c] \in Places => call[c].op \in Doing(at[c])
  BY DEF ControlOK
<1>1. CASE CreateRemote(c)
  BY <1>0, <1>1, RunsOnOK, AnswerOK DEF CreateRemote
<1>2. CASE InitRemote(c)
  BY <1>0, <1>2, RunsOnOK, AnswerOK DEF InitRemote
<1>3. CASE Fetch(c)
  BY <1>0, <1>3, RunsOnOK, AnswerOK DEF Fetch
<1>4. CASE ListKeys(c)
  BY <1>0, <1>4, RunsOnOK, AnswerOK DEF ListKeys
<1>5. CASE Rename(c)
  BY <1>0, <1>5, RunsOnOK, AnswerOK DEF Rename
<1>6. CASE ExternalFails(c)
  BY <1>0, <1>6, RunsOnOK, AnswerOK DEF ExternalFails
<1>7. CASE Insert(c)
  BY <1>0, <1>7, RunsOnOK, AnswerOK DEF Insert
<1>8. CASE Repoint(c)
  BY <1>0, <1>8, RunsOnOK, AnswerOK DEF Repoint
<1>9. CASE SyncPaths(c)
  BY <1>0, <1>9, RunsOnOK, AnswerOK DEF SyncPaths
<1>10. CASE DeletePaths(c)
  BY <1>0, <1>10, RunsOnOK, AnswerOK DEF DeletePaths
<1>11. CASE DeleteLinks(c)
  BY <1>0, <1>11, RunsOnOK, AnswerOK DEF DeleteLinks
<1>12. CASE DeleteRow(c)
  BY <1>0, <1>12, RunsOnOK, AnswerOK DEF DeleteRow
<1>13. CASE CreateSchedule(c)
  BY <1>0, <1>13, RunsOnOK, AnswerOK DEF CreateSchedule
<1>14. CASE Link(c)
  BY <1>0, <1>14, RunsOnOK, AnswerOK DEF Link
<1>15. CASE AddJob(c)
  BY <1>0, <1>15, RunsOnOK, AnswerOK DEF AddJob
<1>16. CASE Relink(c)
  BY <1>0, <1>16, RunsOnOK, AnswerOK DEF Relink
<1>17. CASE UpdateRow(c)
  BY <1>0, <1>17, RunsOnOK, AnswerOK DEF UpdateRow
<1>18. CASE UpdateJob(c)
  BY <1>0, <1>18, RunsOnOK, AnswerOK DEF UpdateJob
<1>19. CASE RemoveSchedule(c)
  BY <1>0, <1>19, RunsOnOK, AnswerOK DEF RemoveSchedule
<1>20. CASE Upsert(c)
  BY <1>0, <1>20, RunsOnOK, AnswerOK DEF Upsert
<1>. QED
  BY <1>1, <1>2, <1>3, <1>4, <1>5, <1>6, <1>7, <1>8, <1>9, <1>10, <1>11, <1>12, <1>13, <1>14,
     <1>15, <1>16, <1>17, <1>18, <1>19, <1>20 DEF Step

(* What a synchronisation wants is a set of folders.                       *)
LEMMA WantedFolders ==
    ASSUME ControlOK, NEW c \in Calls, at[c] = "sync"
    PROVE  Target(c) \in SUBSET Folders
<1>1. call[c] \in CallSet /\ call[c].op \in {"create", "update", "configure"}
  BY DEF ControlOK, Places, Statements, Doing
<1>2. call[c].op = "configure" => held[c] \in SUBSET Folders
  BY <1>1 DEF ControlOK, Places, Statements, Offers
<1>. QED
  BY <1>1, <1>2, CallParts DEF Target, Chosen, Choices

(* The repository and the schedule that a call is about have names.        *)
LEMMA Subjects ==
    ASSUME ControlOK, NEW c \in Calls, at[c] \in Places
    PROVE  /\ Repo(c) \in Calls
           /\ Sched(c) \in Calls
           /\ at[c] \in {"link", "relink"} => Reps(c) \subseteq Calls
           /\ call[c].op = "import" => call[c].repo \in Calls
<1>1. call[c] \in CallSet /\ call[c].op \in Doing(at[c]) /\ seen[c] \in Calls \cup {None}
  BY DEF ControlOK
<1>. QED
  BY <1>1, CallParts DEF Repo, Sched, Reps, Existing, Doing

(* What an update makes of a schedule is a schedule.                       *)
LEMMA EditsOK ==
    ASSUME ControlOK, NEW c \in Calls, at[c] = "row", NEW s \in Schedule
    PROVE  Edits(c, s) \subseteq Schedule
<1>1. call[c] \in CallSet
  BY DEF ControlOK, Places, Statements
<1>. QED
  BY <1>1, CallParts, ConfigAssumption DEF Edits, GivenCrons, Schedule

(* A path that is added or removed keeps the type of the paths.            *)
LEMMA SyncOneOK ==
    ASSUME DataOK, NEW l \in Calls, NEW t \in SUBSET Folders, SyncOne(l, t)
    PROVE  paths' \in [Calls -> SUBSET Folders]
<1>1. PICK new \in SUBSET Folders : paths' = [paths EXCEPT ![l] = new]
  <2>1. paths[l] \in SUBSET Folders
    BY DEF DataOK
  <2>2. CASE \E p \in paths[l] \ t : paths' = [paths EXCEPT ![l] = @ \ {p}]
    BY <2>1, <2>2
  <2>3. CASE \E p \in t \ paths[l] : paths' = [paths EXCEPT ![l] = @ \cup {p}]
    BY <2>1, <2>3
  <2>. QED BY <2>2, <2>3 DEF SyncOne
<1>. QED BY <1>1 DEF DataOK

(* The row of the integration keeps its type.                              *)
LEMMA UpsertOK ==
    ASSUME ControlOK, DataOK, NEW c \in Calls, Upsert(c)
    PROVE  integration' \in Seq([id : Calls, want : Choices])
<1>. DEFINE R == [id : Calls, want : Choices]
<1>1. call[c] \in CallSet /\ call[c].want \in Choices
  BY CallParts DEF Upsert, ControlOK, Places, Statements, Doing
<1>2. CASE Existing(c)
  <2>0. integration \in Seq(R)
    BY DEF DataOK
  <2>1. \A i \in 1 .. Len(integration) : integration[i] \in R
    <3>. HIDE DEF R
    <3>. QED BY <2>0
  <2>2. DOMAIN integration = 1 .. Len(integration) /\ Len(integration) \in Nat
    BY DEF DataOK
  <2>. QED BY <1>1, <1>2, <2>1, <2>2 DEF Upsert
<1>3. CASE ~Existing(c)
  BY <1>1, <1>3 DEF Upsert, DataOK
<1>. QED BY <1>2, <1>3

(* A step of a call keeps the types of the tables.                         *)
LEMMA StepDataOK ==
    ASSUME ControlOK, DataOK, NEW c \in Calls, Step(c)
    PROVE  DataOK'
<1>. USE DEF database, process
<1>0. at[c] \in Places => Repo(c) \in Calls /\ Sched(c) \in Calls
  BY Subjects
<1>1. CASE CreateRemote(c)
  BY <1>0, <1>1 DEF CreateRemote, DataOK, Places, External, Statements
<1>2. CASE InitRemote(c)
  BY <1>0, <1>2 DEF InitRemote, DataOK, Places, External, Statements
<1>3. CASE Fetch(c)
  BY <1>0, <1>3 DEF Fetch, DataOK, Places, External, Statements
<1>4. CASE ListKeys(c)
  BY <1>0, <1>4 DEF ListKeys, DataOK, Places, External, Statements
<1>5. CASE Rename(c)
  BY <1>0, <1>5 DEF Rename, DataOK, Places, External, Statements
<1>6. CASE ExternalFails(c)
  BY <1>0, <1>6 DEF ExternalFails, DataOK, Places, External, Statements
<1>7. CASE Insert(c)
  BY <1>0, <1>7, Subjects DEF Insert, DataOK, Places, External, Statements
<1>8. CASE Repoint(c)
  BY <1>0, <1>8 DEF Repoint, DataOK, Places, External, Statements
<1>9. CASE SyncPaths(c)
  BY <1>0, <1>9, WantedFolders, SyncOneOK DEF SyncPaths, DataOK, Places, External, Statements
<1>10. CASE DeletePaths(c)
  BY <1>0, <1>10 DEF DeletePaths, DataOK, Places, External, Statements
<1>11. CASE DeleteLinks(c)
  BY <1>0, <1>11 DEF DeleteLinks, DataOK, Places, External, Statements
<1>12. CASE DeleteRow(c)
  BY <1>0, <1>12 DEF DeleteRow, DataOK, Places, External, Statements
<1>13. CASE CreateSchedule(c)
  <2>1. \A cron \in GivenCrons(c) : [cron |-> cron, paused |-> FALSE] \in Schedule
    BY ConfigAssumption DEF GivenCrons, Schedule
  <2>. QED BY <1>13, <2>1 DEF CreateSchedule, DataOK
<1>14. CASE Link(c)
  BY <1>0, <1>14, Subjects DEF Link, DataOK, Places, External, Statements
<1>15. CASE AddJob(c)
  BY <1>0, <1>15 DEF AddJob, DataOK, Places, External, Statements
<1>16. CASE Relink(c)
  BY <1>0, <1>16, Subjects DEF Relink, DataOK, Places, External, Statements
<1>17. CASE UpdateRow(c)
  BY <1>0, <1>17, EditsOK DEF UpdateRow, DataOK, Places, External, Statements
<1>18. CASE UpdateJob(c)
  BY <1>0, <1>18 DEF UpdateJob, DataOK, Places, External, Statements, JobOf
<1>19. CASE RemoveSchedule(c)
  BY <1>0, <1>19 DEF RemoveSchedule, DataOK, Places, External, Statements
<1>20. CASE Upsert(c)
  BY <1>0, <1>20, UpsertOK DEF Upsert, DataOK, Places, External, Statements
<1>. QED
  BY <1>1, <1>2, <1>3, <1>4, <1>5, <1>6, <1>7, <1>8, <1>9, <1>10, <1>11, <1>12, <1>13, <1>14,
     <1>15, <1>16, <1>17, <1>18, <1>19, <1>20 DEF Step

(* The listener runs only while Immich is there and configured.            *)
WatcherOK == loop = Watcher => offered # None /\ integration # <<>>

ConfigInv == ControlOK /\ DataOK /\ WatcherOK

(* An empty database is well typed.                                        *)
LEMMA InitConfigInv == ConfigInit => ConfigInv
BY ConfigAssumption
DEF ConfigInit, ConfigInv, ControlOK, DataOK, WatcherOK, Offers, Places, External, Statements

(* A step of a call leaves the watcher of the host's configuration well    *)
(* typed.                                                                  *)
LEMMA StepWatcherOK ==
    ASSUME ConfigInv, NEW c \in Calls, Step(c)
    PROVE  WatcherOK'
<1>1. loop' = Watcher => loop = Watcher /\ UNCHANGED <<offered, integration>>
  BY ConfigAssumption
  DEF Step, CreateRemote, InitRemote, Fetch, ListKeys, Rename, ExternalFails, Insert,
      Repoint, SyncPaths, DeletePaths, DeleteLinks, DeleteRow, CreateSchedule, Link, AddJob,
      Relink, UpdateRow, UpdateJob, RemoveSchedule, Upsert, MayRun, RunsOn, Awaits, Ended,
      Answer, database, process
<1>. QED BY <1>1 DEF ConfigInv, WatcherOK

(* Following the host's configuration keeps the type of the paths.         *)
LEMMA FollowPathsOK ==
    ASSUME ConfigInv, FollowModuleConfig
    PROVE  paths' \in [Calls -> SUBSET Folders]
<1>1. Head(integration).id \in Calls /\ Head(integration).want \in Choices
  BY HeadOK DEF ConfigInv, WatcherOK, FollowModuleConfig
<1>2. Chosen(Head(integration).want, offered) \in SUBSET Folders
  BY <1>1 DEF ConfigInv, WatcherOK, DataOK, FollowModuleConfig, Chosen, Choices, Offers
<1>. QED
  BY <1>1, <1>2, SyncOneOK DEF FollowModuleConfig, ConfigInv, DataOK

(* Every step keeps the types.                                             *)
LEMMA ConfigInvNext == ConfigInv /\ [ConfigNext]_configVars => ConfigInv'
<1>. SUFFICES ASSUME ConfigInv, [ConfigNext]_configVars PROVE ConfigInv'
  OBVIOUS
<1>. USE DEF database, process, request, progress
<1>1. ASSUME NEW c \in Calls, Receive(c) PROVE ConfigInv'
  <2>1. ControlOK'
    BY <1>1, ReceiveOK DEF ConfigInv
  <2>2. loop' = Watcher => loop = Watcher
    BY <1>1, ConfigAssumption DEF Receive, Dispatch, Takes, Refuses, Answer
  <2>. QED
    BY <1>1, <2>1, <2>2 DEF ConfigInv, Receive, DataOK, WatcherOK
<1>2. ASSUME NEW c \in Calls, Step(c) PROVE ConfigInv'
  BY <1>2, StepControlOK, StepDataOK, StepWatcherOK DEF ConfigInv
<1>3. CASE UpdateModuleConfig
  BY <1>3, ConfigAssumption DEF UpdateModuleConfig, ConfigInv, ControlOK, DataOK, WatcherOK
<1>4. CASE FollowModuleConfig
  <2>1. paths' \in [Calls -> SUBSET Folders]
    BY <1>4, FollowPathsOK
  <2>. QED
    BY <1>4, <2>1 DEF FollowModuleConfig, ConfigInv, ControlOK, DataOK, WatcherOK
<1>5. CASE Start
  BY <1>5 DEF Start, ConfigInv, ControlOK, DataOK, WatcherOK
<1>6. CASE Crash
  BY <1>6, ConfigAssumption
  DEF Crash, Forget, ConfigInv, ControlOK, DataOK, WatcherOK, Offers, Places, External,
      Statements, Schedule
<1>7. CASE UNCHANGED configVars
  BY <1>7 DEF configVars, ConfigInv, ControlOK, DataOK, WatcherOK
<1>. QED
  BY <1>1, <1>2, <1>3, <1>4, <1>5, <1>6, <1>7 DEF ConfigNext

(* What the model keeps of the orchestrator's configuration is well typed  *)
(* in every reachable state.                                               *)
THEOREM ConfigTypeCorrect == ConfigSpec => []ConfigTypeOK
<1>1. ConfigInv => ConfigTypeOK
  BY DEF ConfigInv, ControlOK, DataOK, ConfigTypeOK, Places
<1>. QED BY <1>1, InitConfigInv, ConfigInvNext, PTL DEF ConfigSpec

-----------------------------------------------------------------------------
(* The strengthenings of the properties. *)

(* A remote is made by one call only, and is ready when its row is written.*)
Made(c) == IF call[c].op = "import" THEN call[c].repo ELSE c

RemotesOK ==
    /\ \A c \in Calls : at[c] \in {"idle", "remote"} => remotes[c] = "none"
    /\ \A c \in Calls : at[c] \in {"insert", "repoint"} => remotes[Made(c)] = "ready"
    /\ RowsAreReady

(* Between these statements the call keeps the loop.                       *)
Kept == {"link", "relink", "rejob", "upsert", "unschedule"}

(* What a call has made or checked is still there when it relies on it.    *)
KeptBy(c) ==
    /\ at[c] \in Kept => loop = c
    /\ at[c] = "link" =>
          scheds[c] # None /\ (call[c].op = "configure" => rows[c] # None)
    /\ at[c] = "upsert" /\ seen[c] = None => scheds[c] # None /\ rows[c] # None
    /\ at[c] \in {"name", "row", "rejob"} /\ call[c].op = "configure" => seen[c] # None
    /\ at[c] = "relink" => ~Managed(call[c].sched)

KeptOK == \A c \in Calls : KeptBy(c)

(* The foreign keys of the integration.                                    *)
KeysOK ==
    \A i \in DOMAIN integration :
        rows[integration[i].id] # None /\ scheds[integration[i].id] # None

(* A call makes its schedule once, and its job with it; only the call that *)
(* is about to change a job leaves it behind its row.                      *)
Scheduled == {"link", "upsert", "sync", "done"}

JobAgrees(s) ==
    jobs[s] # None =>
        /\ scheds[s] # None
        /\ \/ scheds[s].cron = "bad"
           \/ jobs[s] = scheds[s]
           \/ \E c \in Calls : at[c] = "rejob" /\ Sched(c) = s

JobMade(c) ==
    /\ reply[c] = "ok" \/ at[c] \in {"upsert", "sync"}
    /\ scheds[c] # None /\ boot = "ready"
    => jobs[c] # None

JobsOK ==
    \A c \in Calls :
        /\ at[c] \notin Scheduled => scheds[c] = None
        /\ reply[c] = "ok" => at[c] = "done"
        /\ JobAgrees(c)
        /\ JobMade(c)

-----------------------------------------------------------------------------
(* How a call moves. *)

(* No schedule is not a schedule.                                          *)
LEMMA NoneIsNoSchedule == None \notin Schedule
BY ConfigAssumption DEF Schedule

(* A step of c leaves the other calls where they are.                      *)
Others(c) ==
    \A d \in Calls \ {c} :
        /\ at'[d] = at[d] /\ call'[d] = call[d] /\ seen'[d] = seen[d]
        /\ reply'[d] = reply[d]
        /\ loop = d => loop' = d

(* The end of a statement concerns its own call only.                      *)
LEMMA EndedOn ==
    ASSUME ConfigInv, NEW c \in Calls, NEW w \in Places, Ended(c, w)
    PROVE  /\ Others(c)
           /\ at'[c] = w /\ call'[c] = call[c] /\ seen'[c] = seen[c]
           /\ reply'[c] = reply[c]
BY ConfigAssumption
DEF ConfigInv, ControlOK, Ended, RunsOn, Awaits, MayRun, Others, request

(* A call that runs on holds the event loop.                               *)
LEMMA MovesOn ==
    ASSUME ConfigInv, NEW c \in Calls, NEW w \in Places, MayRun(c), RunsOn(c, w)
    PROVE  /\ Others(c)
           /\ at'[c] = w /\ call'[c] = call[c] /\ seen'[c] = seen[c]
           /\ reply'[c] = reply[c]
           /\ loop' = c
BY ConfigAssumption
DEF ConfigInv, ControlOK, Ended, RunsOn, Awaits, MayRun, Others, request

(* A call that awaits lets go of it.                                       *)
LEMMA AwaitsOn ==
    ASSUME ConfigInv, NEW c \in Calls, NEW w \in Places, MayRun(c), Awaits(c, w)
    PROVE  /\ Others(c)
           /\ at'[c] = w /\ call'[c] = call[c] /\ seen'[c] = seen[c]
           /\ reply'[c] = reply[c]
BY ConfigAssumption
DEF ConfigInv, ControlOK, Ended, RunsOn, Awaits, MayRun, Others, request

(* A call that is answered is done, and concerns no other.                 *)
LEMMA Answers ==
    ASSUME ConfigInv, NEW c \in Calls, NEW s \in {"ok", "error"}, Answer(c, s)
    PROVE  Others(c) /\ at'[c] = "done" /\ reply'[c] = s
BY DEF ConfigInv, ControlOK, Answer, Forget, Others

(* A step of one call leaves the others where they are.                    *)
LEMMA StepOthers ==
    ASSUME ConfigInv, NEW c \in Calls, Step(c)
    PROVE  Others(c) /\ at[c] \in Places
<1>. USE DEF Places, External, Statements
<1>1. CASE CreateRemote(c)
  BY <1>1, EndedOn, MovesOn, AwaitsOn, Answers DEF CreateRemote
<1>2. CASE InitRemote(c)
  BY <1>2, EndedOn, MovesOn, AwaitsOn, Answers DEF InitRemote
<1>3. CASE Fetch(c)
  BY <1>3, EndedOn, MovesOn, AwaitsOn, Answers DEF Fetch
<1>4. CASE ListKeys(c)
  BY <1>4, EndedOn, MovesOn, AwaitsOn, Answers DEF ListKeys
<1>5. CASE Rename(c)
  BY <1>5, EndedOn, MovesOn, AwaitsOn, Answers DEF Rename
<1>6. CASE ExternalFails(c)
  BY <1>6, EndedOn, MovesOn, AwaitsOn, Answers DEF ExternalFails
<1>7. CASE Insert(c)
  BY <1>7, EndedOn, MovesOn, AwaitsOn, Answers DEF Insert
<1>8. CASE Repoint(c)
  BY <1>8, EndedOn, MovesOn, AwaitsOn, Answers DEF Repoint
<1>9. CASE SyncPaths(c)
  BY <1>9, EndedOn, MovesOn, AwaitsOn, Answers DEF SyncPaths
<1>10. CASE DeletePaths(c)
  BY <1>10, EndedOn, MovesOn, AwaitsOn, Answers DEF DeletePaths
<1>11. CASE DeleteLinks(c)
  BY <1>11, EndedOn, MovesOn, AwaitsOn, Answers DEF DeleteLinks
<1>12. CASE DeleteRow(c)
  BY <1>12, EndedOn, MovesOn, AwaitsOn, Answers DEF DeleteRow
<1>13. CASE CreateSchedule(c)
  BY <1>13, EndedOn, MovesOn, AwaitsOn, Answers DEF CreateSchedule
<1>14. CASE Link(c)
  BY <1>14, EndedOn, MovesOn, AwaitsOn, Answers DEF Link
<1>15. CASE AddJob(c)
  BY <1>15, EndedOn, MovesOn, AwaitsOn, Answers DEF AddJob
<1>16. CASE Relink(c)
  BY <1>16, EndedOn, MovesOn, AwaitsOn, Answers DEF Relink
<1>17. CASE UpdateRow(c)
  BY <1>17, EndedOn, MovesOn, AwaitsOn, Answers DEF UpdateRow
<1>18. CASE UpdateJob(c)
  BY <1>18, EndedOn, MovesOn, AwaitsOn, Answers DEF UpdateJob
<1>19. CASE RemoveSchedule(c)
  BY <1>19, EndedOn, MovesOn, AwaitsOn, Answers DEF RemoveSchedule
<1>20. CASE Upsert(c)
  BY <1>20, EndedOn, MovesOn, AwaitsOn, Answers DEF Upsert
<1>. QED
  BY <1>1, <1>2, <1>3, <1>4, <1>5, <1>6, <1>7, <1>8, <1>9, <1>10, <1>11, <1>12, <1>13, <1>14,
     <1>15, <1>16, <1>17, <1>18, <1>19, <1>20 DEF Step

-----------------------------------------------------------------------------
(* Rows point at repositories that are ready. *)

(* No repository is lost at a backend by a step that touches none.         *)
LEMMA QuietRemotes ==
    ASSUME ConfigInv, RemotesOK, NEW c \in Calls, Others(c),
           at'[c] \notin {"idle", "remote", "insert", "repoint"}, remotes' = remotes,
           \A l \in Calls : rows'[l] \in {rows[l], None}
    PROVE  RemotesOK'
BY DEF RemotesOK, RowsAreReady, Made, Others

(* A row that a call writes points at a repository that was initialised.   *)
LEMMA StepRemotesOK ==
    ASSUME ConfigInv, RemotesOK, NEW c \in Calls, Step(c)
    PROVE  RemotesOK'
<1>. USE DEF database, Places, External, Statements
<1>0. Others(c) /\ call[c].op \in Doing(at[c]) /\ Repo(c) \in Calls
  BY StepOthers, Subjects DEF ConfigInv, ControlOK
<1>1. CASE CreateRemote(c)
  <2>1. at'[c] = "init"
    BY <1>1, EndedOn DEF CreateRemote
  <2>. QED
    BY <1>0, <1>1, <2>1
    DEF CreateRemote, RemotesOK, RowsAreReady, Made, Others, ConfigInv, DataOK
<1>2. CASE InitRemote(c)
  <2>1. at'[c] \in {"repoint", "insert"} /\ call'[c] = call[c] /\ call[c].op # "import"
    BY <1>0, <1>2, EndedOn DEF InitRemote, Doing
  <2>. QED
    BY <1>0, <1>2, <2>1
    DEF InitRemote, RemotesOK, RowsAreReady, Made, Others, ConfigInv, DataOK
<1>3. CASE ListKeys(c)
  <2>1. CASE remotes[call[c].repo] = "ready"
    <3>1. at'[c] = "insert" /\ call'[c] = call[c] /\ call[c].op = "import"
      BY <1>0, <1>3, <2>1, EndedOn DEF ListKeys, Doing
    <3>2. remotes' = remotes /\ rows' = rows /\ remotes[Made(c)'] = "ready"
      BY <1>3, <2>1, <3>1 DEF ListKeys, database, Made
    <3>3. RowsAreReady'
      BY <1>0, <3>2 DEF RemotesOK, RowsAreReady
    <3>4. \A d \in Calls : at'[d] \in {"insert", "repoint"} => remotes'[Made(d)'] = "ready"
      BY <1>0, <3>2 DEF RemotesOK, Made, Others
    <3>5. \A d \in Calls : at'[d] \in {"idle", "remote"} => remotes'[d] = "none"
      BY <1>0, <3>1, <3>2 DEF RemotesOK, Others
    <3>. QED
      BY <3>3, <3>4, <3>5 DEF RemotesOK
  <2>2. CASE remotes[call[c].repo] # "ready"
    BY <1>0, <1>3, <2>2, Answers, QuietRemotes DEF ListKeys
  <2>. QED BY <2>1, <2>2
<1>4. CASE ExternalFails(c)
  <2>1. at'[c] = "done"
    BY <1>4, Answers DEF ExternalFails
  <2>2. CASE UNCHANGED remotes
    BY <1>0, <1>4, <2>1, <2>2, QuietRemotes DEF ExternalFails
  <2>3. CASE at[c] = "remote" /\ remotes' = [remotes EXCEPT ![c] = "empty"]
    BY <1>0, <1>4, <2>1, <2>3
    DEF ExternalFails, RemotesOK, RowsAreReady, Made, Others, ConfigInv, DataOK
  <2>4. CASE at[c] = "init" /\ remotes' = [remotes EXCEPT ![c] = "ready"]
    <3>1. \A d \in Calls : remotes[d] = "ready" => remotes'[d] = "ready"
      BY <2>4 DEF ConfigInv, DataOK
    <3>2. \A d \in Calls \ {c} : remotes'[d] = remotes[d]
      BY <2>4
    <3>3. rows' = rows
      BY <1>4 DEF ExternalFails, database
    <3>4. RowsAreReady'
      BY <1>0, <3>1, <3>3 DEF RemotesOK, RowsAreReady, ConfigInv, DataOK
    <3>5. \A d \in Calls : at'[d] \in {"insert", "repoint"} => remotes'[Made(d)'] = "ready"
      <4> SUFFICES ASSUME NEW d \in Calls, at'[d] \in {"insert", "repoint"}
                   PROVE  remotes'[Made(d)'] = "ready"
        OBVIOUS
      <4>1. d # c /\ at'[d] = at[d] /\ call'[d] = call[d] /\ remotes[Made(d)] = "ready"
        BY <1>0, <2>1 DEF Others, RemotesOK
      <4>2. Made(d) \in Calls
        <5>1. at[d] \in Places
          BY <4>1 DEF Places, Statements
        <5>2. call[d] \in CallSet
          BY <5>1 DEF ConfigInv, ControlOK
        <5>. QED BY <5>2, CallParts DEF Made
      <4>. QED BY <3>1, <4>1, <4>2 DEF Made
    <3>6. \A d \in Calls : at'[d] \in {"idle", "remote"} => remotes'[d] = "none"
      BY <1>0, <2>1, <3>2 DEF RemotesOK, Others
    <3>. QED
      BY <3>4, <3>5, <3>6 DEF RemotesOK
  <2>. QED BY <1>4, <2>2, <2>3, <2>4 DEF ExternalFails
<1>5. CASE Insert(c)
  <2>1. at'[c] \in {"sync", "done", "policy", "schedule"}
    BY <1>5, MovesOn, AwaitsOn, Answers DEF Insert
  <2>2. rows' = [rows EXCEPT ![c] = Made(c)] /\ UNCHANGED remotes
    BY <1>5 DEF Insert, Made
  <2>3. remotes[Made(c)] = "ready"
    BY <1>5 DEF Insert, RemotesOK
  <2>4. RowsAreReady'
    BY <2>2, <2>3 DEF RemotesOK, RowsAreReady, ConfigInv, DataOK
  <2>. QED
    BY <1>0, <2>1, <2>2, <2>4 DEF RemotesOK, Made, Others
<1>6. CASE Repoint(c)
  <2>1. at'[c] = "done" /\ call[c].op = "reconfigure"
    BY <1>0, <1>6, Answers DEF Repoint, Doing
  <2>2. CASE UNCHANGED rows
    BY <1>0, <1>6, <2>1, <2>2, QuietRemotes DEF Repoint
  <2>3. CASE rows' = [rows EXCEPT ![Repo(c)] = c]
    <3>1. remotes[c] = "ready" /\ UNCHANGED remotes
      BY <1>6, <2>1 DEF Repoint, RemotesOK, Made
    <3>2. RowsAreReady'
      BY <2>3, <3>1 DEF RemotesOK, RowsAreReady, ConfigInv, DataOK
    <3>. QED
      BY <1>0, <2>1, <3>1, <3>2 DEF RemotesOK, Made, Others
  <2>. QED BY <1>6, <2>2, <2>3 DEF Repoint
<1>7. CASE DeleteRow(c)
  <2>1. at'[c] = "done"
    BY <1>7, Answers DEF DeleteRow
  <2>. QED
    BY <1>0, <1>7, <2>1, QuietRemotes DEF DeleteRow, ConfigInv, DataOK
<1>8. CASE Fetch(c)
  <2>1. at'[c] \notin {"idle", "remote", "insert", "repoint"}
    BY <1>8, EndedOn, MovesOn, AwaitsOn, Answers DEF Fetch
  <2>. QED BY <1>0, <1>8, <2>1, QuietRemotes DEF Fetch
<1>9. CASE Rename(c)
  <2>1. at'[c] \notin {"idle", "remote", "insert", "repoint"}
    BY <1>9, EndedOn, MovesOn, AwaitsOn, Answers DEF Rename
  <2>. QED BY <1>0, <1>9, <2>1, QuietRemotes DEF Rename
<1>10. CASE SyncPaths(c)
  <2>1. at'[c] \notin {"idle", "remote", "insert", "repoint"}
    BY <1>10, EndedOn, MovesOn, AwaitsOn, Answers DEF SyncPaths
  <2>. QED BY <1>0, <1>10, <2>1, QuietRemotes DEF SyncPaths
<1>11. CASE DeletePaths(c)
  <2>1. at'[c] \notin {"idle", "remote", "insert", "repoint"}
    BY <1>11, EndedOn, MovesOn, AwaitsOn, Answers DEF DeletePaths
  <2>. QED BY <1>0, <1>11, <2>1, QuietRemotes DEF DeletePaths
<1>12. CASE DeleteLinks(c)
  <2>1. at'[c] \notin {"idle", "remote", "insert", "repoint"}
    BY <1>12, EndedOn, MovesOn, AwaitsOn, Answers DEF DeleteLinks
  <2>. QED BY <1>0, <1>12, <2>1, QuietRemotes DEF DeleteLinks
<1>13. CASE CreateSchedule(c)
  <2>1. at'[c] \notin {"idle", "remote", "insert", "repoint"}
    BY <1>13, EndedOn, MovesOn, AwaitsOn, Answers DEF CreateSchedule
  <2>. QED BY <1>0, <1>13, <2>1, QuietRemotes DEF CreateSchedule
<1>14. CASE Link(c)
  <2>1. at'[c] \notin {"idle", "remote", "insert", "repoint"}
    BY <1>14, EndedOn, MovesOn, AwaitsOn, Answers DEF Link
  <2>. QED BY <1>0, <1>14, <2>1, QuietRemotes DEF Link
<1>15. CASE AddJob(c)
  <2>1. at'[c] \notin {"idle", "remote", "insert", "repoint"}
    BY <1>15, EndedOn, MovesOn, AwaitsOn, Answers DEF AddJob
  <2>. QED BY <1>0, <1>15, <2>1, QuietRemotes DEF AddJob
<1>16. CASE Relink(c)
  <2>1. at'[c] \notin {"idle", "remote", "insert", "repoint"}
    BY <1>16, EndedOn, MovesOn, AwaitsOn, Answers DEF Relink
  <2>. QED BY <1>0, <1>16, <2>1, QuietRemotes DEF Relink
<1>17. CASE UpdateRow(c)
  <2>1. at'[c] \notin {"idle", "remote", "insert", "repoint"}
    BY <1>17, EndedOn, MovesOn, AwaitsOn, Answers DEF UpdateRow
  <2>. QED BY <1>0, <1>17, <2>1, QuietRemotes DEF UpdateRow
<1>18. CASE UpdateJob(c)
  <2>1. at'[c] \notin {"idle", "remote", "insert", "repoint"}
    BY <1>18, EndedOn, MovesOn, AwaitsOn, Answers DEF UpdateJob
  <2>. QED BY <1>0, <1>18, <2>1, QuietRemotes DEF UpdateJob
<1>19. CASE RemoveSchedule(c)
  <2>1. at'[c] \notin {"idle", "remote", "insert", "repoint"}
    BY <1>19, EndedOn, MovesOn, AwaitsOn, Answers DEF RemoveSchedule
  <2>. QED BY <1>0, <1>19, <2>1, QuietRemotes DEF RemoveSchedule
<1>20. CASE Upsert(c)
  <2>1. at'[c] \notin {"idle", "remote", "insert", "repoint"}
    BY <1>20, EndedOn, MovesOn, AwaitsOn, Answers DEF Upsert
  <2>. QED BY <1>0, <1>20, <2>1, QuietRemotes DEF Upsert
<1>. QED
  BY <1>1, <1>2, <1>3, <1>4, <1>5, <1>6, <1>7, <1>8, <1>9, <1>10, <1>11, <1>12, <1>13, <1>14,
     <1>15, <1>16, <1>17, <1>18, <1>19, <1>20 DEF Step

(* Every step keeps the rows ready.                                        *)
LEMMA RemotesNext ==
    ASSUME ConfigInv, RemotesOK, [ConfigNext]_configVars
    PROVE  RemotesOK'
<1>. USE DEF database, process, request, progress
<1>1. ASSUME NEW c \in Calls, Receive(c) PROVE RemotesOK'
  <2>1. at[c] = "idle" /\ UNCHANGED <<remotes, rows>>
    BY <1>1 DEF Receive
  <2>2. at'[c] \notin {"idle", "insert", "repoint"} /\ Others(c)
    BY <1>1, ConfigAssumption
    DEF Receive, Dispatch, Takes, Refuses, Answer, Forget, Others, ConfigInv, ControlOK
  <2>. QED BY <2>1, <2>2 DEF RemotesOK, RowsAreReady, Made, Others
<1>2. ASSUME NEW c \in Calls, Step(c) PROVE RemotesOK'
  BY <1>2, StepRemotesOK
<1>3. CASE Crash
  BY <1>3 DEF Crash, Forget, RemotesOK, RowsAreReady, Made, ConfigInv, ControlOK
<1>4. CASE UpdateModuleConfig \/ FollowModuleConfig \/ Start \/ UNCHANGED configVars
  <2>1. UNCHANGED <<remotes, rows, at, call>>
    BY <1>4 DEF UpdateModuleConfig, FollowModuleConfig, Start, configVars
  <2>. QED BY <2>1 DEF RemotesOK, RowsAreReady, Made
<1>. QED BY <1>1, <1>2, <1>3, <1>4 DEF ConfigNext

(* A local repository always points at a restic repository that has been   *)
(* initialised, through any failures and crashes.                          *)
THEOREM RowsStayReady == ConfigSpec => []RowsAreReady
<1>1. ConfigInit => RemotesOK
  BY DEF ConfigInit, RemotesOK, RowsAreReady
<1>2. RemotesOK => RowsAreReady
  BY DEF RemotesOK
<1>3. ConfigInv /\ RemotesOK /\ [ConfigNext]_configVars => (ConfigInv /\ RemotesOK)'
  BY ConfigInvNext, RemotesNext
<1>. QED BY <1>1, <1>2, <1>3, InitConfigInv, PTL DEF ConfigSpec

-----------------------------------------------------------------------------
(* What the calls rely on, and the foreign keys. *)

(* What the other calls hold stays, while one call writes.                 *)
LEMMA OthersKeep ==
    ASSUME ConfigInv, KeptOK, NEW c \in Calls, Others(c),
           UNCHANGED <<rows, scheds, integration>> \/ loop \in {None, c}
    PROVE  \A d \in Calls \ {c} : KeptBy(d)'
<1>. SUFFICES ASSUME NEW d \in Calls \ {c} PROVE KeptBy(d)'
  OBVIOUS
<1>1. KeptBy(d) /\ at'[d] = at[d] /\ call'[d] = call[d] /\ seen'[d] = seen[d]
      /\ (loop = d => loop' = d)
  BY DEF KeptOK, Others
<1>2. CASE UNCHANGED <<rows, scheds, integration>>
  BY <1>1, <1>2 DEF KeptBy, Managed
<1>3. CASE loop \in {None, c}
  BY <1>1, <1>3, ConfigAssumption DEF KeptBy, Kept
<1>. QED BY <1>2, <1>3

(* What a call has read and relies on stays true until it writes.          *)
LEMMA StepKept ==
    ASSUME ConfigInv, KeptOK, NEW c \in Calls, Step(c)
    PROVE  KeptOK'
<1>. USE DEF database, process, Places, External, Statements
<1>0. Others(c) /\ call[c].op \in Doing(at[c]) /\ KeptBy(c)
  BY StepOthers DEF ConfigInv, ControlOK, KeptOK
<1>1. \A d \in Calls \ {c} : KeptBy(d)'
  <2>1. UNCHANGED <<rows, scheds, integration>> \/ loop \in {None, c}
    BY DEF Step, CreateRemote, InitRemote, Fetch, ListKeys, Rename, ExternalFails, Insert,
           Repoint, SyncPaths, DeletePaths, DeleteLinks, DeleteRow, CreateSchedule, Link,
           AddJob, Relink, UpdateRow, UpdateJob, RemoveSchedule, Upsert, MayRun
  <2>. QED BY <1>0, <2>1, OthersKeep
<1>2. CASE CreateRemote(c)
  <2>1. at'[c] \notin Kept \cup {"name", "row"}
    BY <1>2, EndedOn DEF CreateRemote, Kept
  <2>. QED BY <1>1, <2>1 DEF KeptOK, KeptBy, Kept
<1>3. CASE InitRemote(c)
  <2>1. at'[c] \notin Kept \cup {"name", "row"}
    BY <1>3, EndedOn DEF InitRemote, Kept
  <2>. QED BY <1>1, <2>1 DEF KeptOK, KeptBy, Kept
<1>4. CASE Fetch(c)
  <2>1. at'[c] \notin Kept \cup {"name", "row"}
    BY <1>4, EndedOn, Answers DEF Fetch, Kept
  <2>. QED BY <1>1, <2>1 DEF KeptOK, KeptBy, Kept
<1>5. CASE ListKeys(c)
  <2>1. at'[c] \notin Kept \cup {"name", "row"}
    BY <1>5, EndedOn, Answers DEF ListKeys, Kept
  <2>. QED BY <1>1, <2>1 DEF KeptOK, KeptBy, Kept
<1>6. CASE ExternalFails(c)
  <2>1. at'[c] \notin Kept \cup {"name", "row"}
    BY <1>6, Answers DEF ExternalFails, Kept
  <2>. QED BY <1>1, <2>1 DEF KeptOK, KeptBy, Kept
<1>7. CASE Insert(c)
  <2>1. at'[c] \notin Kept \cup {"name", "row"}
    BY <1>7, MovesOn, AwaitsOn, Answers DEF Insert, Kept
  <2>. QED BY <1>1, <2>1 DEF KeptOK, KeptBy, Kept
<1>8. CASE Repoint(c)
  <2>1. at'[c] \notin Kept \cup {"name", "row"}
    BY <1>8, Answers DEF Repoint, Kept
  <2>. QED BY <1>1, <2>1 DEF KeptOK, KeptBy, Kept
<1>9. CASE SyncPaths(c)
  <2>1. at'[c] \notin Kept \cup {"name", "row"}
    BY <1>9, MovesOn, Answers DEF SyncPaths, Kept
  <2>. QED BY <1>1, <2>1 DEF KeptOK, KeptBy, Kept
<1>10. CASE DeletePaths(c)
  <2>1. at'[c] \notin Kept \cup {"name", "row"}
    BY <1>10, MovesOn DEF DeletePaths, Kept
  <2>. QED BY <1>1, <2>1 DEF KeptOK, KeptBy, Kept
<1>11. CASE DeleteLinks(c)
  <2>1. at'[c] \notin Kept \cup {"name", "row"}
    BY <1>11, MovesOn DEF DeleteLinks, Kept
  <2>. QED BY <1>1, <2>1 DEF KeptOK, KeptBy, Kept
<1>12. CASE DeleteRow(c)
  <2>1. at'[c] \notin Kept \cup {"name", "row"}
    BY <1>12, Answers DEF DeleteRow, Kept
  <2>. QED BY <1>1, <2>1 DEF KeptOK, KeptBy, Kept
<1>13. CASE RemoveSchedule(c)
  <2>1. at'[c] \notin Kept \cup {"name", "row"}
    BY <1>13, Answers DEF RemoveSchedule, Kept
  <2>. QED BY <1>1, <2>1 DEF KeptOK, KeptBy, Kept
<1>14. CASE Upsert(c)
  <2>1. at'[c] \notin Kept \cup {"name", "row"}
    BY <1>14, MovesOn DEF Upsert, Kept
  <2>. QED BY <1>1, <2>1 DEF KeptOK, KeptBy, Kept
<1>15. CASE Rename(c)
  <2>1. /\ at'[c] \in {"row", "sync", "schedule"} /\ call'[c] = call[c] /\ seen'[c] = seen[c]
        /\ at'[c] = "row" => at[c] = "name"
    BY <1>15, EndedOn DEF Rename
  <2>. QED BY <1>0, <1>1, <2>1 DEF KeptOK, KeptBy, Kept
<1>16. CASE CreateSchedule(c)
  <2>1. CASE call[c].op = "configure" /\ rows[c] = None
    BY <1>1, <1>16, <2>1, Answers DEF CreateSchedule, KeptOK, KeptBy, Kept
  <2>2. CASE ~(call[c].op = "configure" /\ rows[c] = None)
    <3>1. at'[c] = "link" /\ call'[c] = call[c] /\ loop' = c /\ rows' = rows
      BY <1>16, <2>2, MovesOn DEF CreateSchedule
    <3>2. scheds'[c] # None
      <4>1. PICK cron \in GivenCrons(c) :
               scheds' = [scheds EXCEPT ![c] = [cron |-> cron, paused |-> FALSE]]
        BY <1>16, <2>2 DEF CreateSchedule
      <4>2. [cron |-> cron, paused |-> FALSE] \in Schedule
        BY <4>1, ConfigAssumption DEF GivenCrons, Schedule
      <4>. QED BY <4>1, <4>2, NoneIsNoSchedule DEF ConfigInv, DataOK
    <3>. QED BY <1>1, <2>2, <3>1, <3>2 DEF KeptOK, KeptBy, Kept
  <2>. QED BY <2>1, <2>2
<1>17. CASE Link(c)
  <2>1. /\ UNCHANGED <<scheds, rows>>
        /\ \/ at'[c] = "done"
           \/ at'[c] = "link" /\ at[c] = "link" /\ call'[c] = call[c] /\ loop' = c
    BY <1>17, MovesOn, Answers DEF Link
  <2>. QED BY <1>0, <1>1, <2>1 DEF KeptOK, KeptBy, Kept
<1>18. CASE AddJob(c)
  <2>1. /\ UNCHANGED <<scheds, rows>> /\ at[c] = "link"
        /\ \/ at'[c] = "done"
           \/ at'[c] = "upsert" /\ call[c].op = "configure" /\ loop' = c
    BY <1>18, MovesOn, Answers DEF AddJob
  <2>. QED BY <1>0, <1>1, <2>1 DEF KeptOK, KeptBy, Kept
<1>19. CASE Relink(c)
  <2>1. /\ UNCHANGED integration /\ at[c] = "relink" /\ call[c].op = "relink"
        /\ \/ at'[c] = "done"
           \/ at'[c] \in {"relink", "row"} /\ call'[c] = call[c] /\ loop' = c
    BY <1>0, <1>19, MovesOn, Answers DEF Relink, Doing
  <2>. QED BY <1>0, <1>1, <2>1 DEF KeptOK, KeptBy, Kept, Managed
<1>20. CASE UpdateRow(c)
  <2>1. \/ at'[c] = "done"
        \/ /\ at'[c] = "rejob" /\ at[c] = "row" /\ loop' = c
           /\ call'[c] = call[c] /\ seen'[c] = seen[c]
    BY <1>20, MovesOn, Answers DEF UpdateRow
  <2>. QED BY <1>0, <1>1, <2>1 DEF KeptOK, KeptBy, Kept
<1>21. CASE UpdateJob(c)
  <2>1. \/ at'[c] = "done"
        \/ /\ at'[c] = "upsert" /\ at[c] = "rejob" /\ loop' = c
           /\ call[c].op = "configure" /\ seen'[c] = seen[c]
    BY <1>21, MovesOn, Answers DEF UpdateJob
  <2>. QED BY <1>0, <1>1, <2>1 DEF KeptOK, KeptBy, Kept
<1>. QED
  BY <1>2, <1>3, <1>4, <1>5, <1>6, <1>7, <1>8, <1>9, <1>10, <1>11, <1>12, <1>13, <1>14,
     <1>15, <1>16, <1>17, <1>18, <1>19, <1>20, <1>21 DEF Step

(* The foreign keys hold after every statement.                            *)
LEMMA StepKeys ==
    ASSUME ConfigInv, KeptOK, KeysOK, NEW c \in Calls, Step(c)
    PROVE  KeysOK'
<1>. USE DEF database, process
<1>0. /\ Repo(c) \in Calls /\ Sched(c) \in Calls /\ call[c] \in CallSet
      /\ call[c].op = "import" => call[c].repo \in Calls
      /\ None \notin Calls /\ None \notin Schedule
  BY StepOthers, Subjects, NoneIsNoSchedule, ConfigAssumption DEF ConfigInv, ControlOK
<1>1. \A i \in DOMAIN integration : integration[i].id \in Calls
  <2>. DEFINE R == [id : Calls, want : Choices]
  <2>1. integration \in Seq(R)
    BY DEF ConfigInv, DataOK
  <2>2. \A i \in DOMAIN integration : integration[i] \in R
    <3>. HIDE DEF R
    <3>. QED BY <2>1
  <2>. QED BY <2>2
<1>2. CASE /\ UNCHANGED integration
           /\ \A l \in Calls : rows[l] # None => rows'[l] # None \/ ~Referenced(l)
           /\ \A l \in Calls : scheds[l] # None => scheds'[l] # None \/ ~Referenced(l)
  BY <1>1, <1>2 DEF KeysOK, Referenced
<1>3. CASE Insert(c)
  BY <1>0, <1>2, <1>3 DEF Insert, ConfigInv, DataOK
<1>4. CASE Repoint(c)
  BY <1>0, <1>2, <1>4 DEF Repoint, ConfigInv, DataOK
<1>5. CASE DeleteRow(c)
  BY <1>0, <1>2, <1>5 DEF DeleteRow, ConfigInv, DataOK
<1>6. CASE CreateSchedule(c)
  <2>1. \A cron \in GivenCrons(c) : [cron |-> cron, paused |-> FALSE] \in Schedule
    BY ConfigAssumption DEF GivenCrons, Schedule
  <2>. QED BY <1>0, <1>2, <1>6, <2>1 DEF CreateSchedule, ConfigInv, DataOK
<1>7. CASE UpdateRow(c)
  <2>1. scheds[Sched(c)] # None => Edits(c, scheds[Sched(c)]) \subseteq Schedule
    BY <1>0, <1>7, EditsOK DEF UpdateRow, ConfigInv, DataOK
  <2>. QED BY <1>0, <1>2, <1>7, <2>1 DEF UpdateRow, ConfigInv, DataOK
<1>8. CASE RemoveSchedule(c)
  BY <1>0, <1>2, <1>8 DEF RemoveSchedule, ConfigInv, DataOK
<1>9. CASE Upsert(c)
  <2>1. UNCHANGED <<rows, scheds>>
    BY <1>9 DEF Upsert
  <2>2. CASE Existing(c)
    BY <1>9, <2>1, <2>2 DEF Upsert, KeysOK
  <2>3. CASE ~Existing(c)
    <3>1. scheds[c] # None /\ rows[c] # None
      <4>1. call[c].op = "configure" /\ at[c] = "upsert"
        BY <1>9 DEF Upsert, ConfigInv, ControlOK, Doing, Places, External, Statements
      <4>. QED BY <2>3, <4>1 DEF Existing, KeptOK, KeptBy
    <3>2. integration' = Append(integration, [id |-> c, want |-> call[c].want])
      BY <1>9, <2>3 DEF Upsert
    <3>. QED BY <2>1, <3>1, <3>2 DEF KeysOK, ConfigInv, DataOK
  <2>. QED BY <2>2, <2>3
<1>10. CASE UNCHANGED <<rows, scheds, integration>>
  BY <1>10 DEF KeysOK
<1>11. \/ UNCHANGED <<rows, scheds, integration>>
       \/ Insert(c) \/ Repoint(c) \/ DeleteRow(c) \/ CreateSchedule(c) \/ UpdateRow(c)
       \/ RemoveSchedule(c) \/ Upsert(c)
  BY DEF Step, CreateRemote, InitRemote, Fetch, ListKeys, Rename, ExternalFails, SyncPaths,
         DeletePaths, DeleteLinks, Link, AddJob, Relink, UpdateJob
<1>. QED
  BY <1>3, <1>4, <1>5, <1>6, <1>7, <1>8, <1>9, <1>10, <1>11

HeldInv == ConfigInv /\ KeptOK /\ KeysOK

(* All this holds of an empty database.                                    *)
LEMMA InitHeldInv == ConfigInit => HeldInv
BY InitConfigInv DEF HeldInv, ConfigInit, KeptOK, KeptBy, KeysOK, Kept

(* Every step preserves it.                                                *)
LEMMA HeldInvNext ==
    ASSUME HeldInv, [ConfigNext]_configVars
    PROVE  HeldInv'
<1>. USE DEF database, process, request, progress
<1>0. ConfigInv' /\ ConfigInv
  BY ConfigInvNext DEF HeldInv
<1>1. ASSUME NEW c \in Calls, Receive(c) PROVE KeptOK' /\ KeysOK'
  <2>1. /\ UNCHANGED <<rows, scheds, integration>> /\ loop = None
        /\ at[c] = "idle"
    BY <1>1 DEF Receive
  <2>2. Others(c)
    BY <1>0, <1>1, ConfigAssumption
    DEF Receive, Dispatch, Takes, Refuses, Answer, Forget, Others, ConfigInv, ControlOK
  <2>3. \A d \in Calls \ {c} : KeptBy(d)'
    BY <1>0, <2>1, <2>2, OthersKeep DEF HeldInv
  <2>4. KeptBy(c)'
    <3>1. PICK q \in CallSet : Dispatch(c, q)
      BY <1>1 DEF Receive
    <3>2. CASE at'[c] = "done"
      BY <3>2 DEF KeptBy, Kept
    <3>3. CASE q.op # "configure" /\ at'[c] # "done"
      <4>1. /\ call'[c] = q
            /\ at'[c] \in {"relink", "unschedule"} => loop' = c
            /\ at'[c] \notin {"link", "rejob", "upsert"}
            /\ at'[c] = "relink" => ~Guarded(q) /\ q.op = "relink"
        BY <1>0, <3>1, <3>3
        DEF Dispatch, Takes, Refuses, Answer, ConfigInv, ControlOK
      <4>. QED BY <2>1, <3>3, <4>1 DEF KeptBy, Kept, Guarded, Managed
    <3>4. CASE q.op = "configure" /\ at'[c] # "done"
      <4>1. /\ at'[c] \in {"remote", "name"}
            /\ at'[c] = "name" => integration # <<>> /\ seen'[c] = Head(integration).id
        BY <1>0, <3>1, <3>4 DEF Dispatch, Refuses, Answer, Guarded, ConfigInv, ControlOK
      <4>. QED BY <1>0, <4>1, HeadOK, ConfigAssumption DEF KeptBy, Kept, ConfigInv
    <3>. QED BY <3>2, <3>3, <3>4
  <2>. QED BY <2>1, <2>3, <2>4 DEF KeptOK, KeysOK, HeldInv
<1>2. ASSUME NEW c \in Calls, Step(c) PROVE KeptOK' /\ KeysOK'
  BY <1>2, StepKept, StepKeys DEF HeldInv
<1>3. CASE Crash
  BY <1>0, <1>3 DEF Crash, Forget, HeldInv, KeptOK, KeptBy, KeysOK, Kept, ConfigInv, ControlOK
<1>4. CASE UpdateModuleConfig \/ FollowModuleConfig \/ Start \/ UNCHANGED configVars
  <2>1. UNCHANGED <<rows, scheds, integration, at, call, seen>>
    BY <1>4 DEF UpdateModuleConfig, FollowModuleConfig, Start, configVars
  <2>2. \A d \in Calls : loop = d => loop' = d
    BY <1>4, ConfigAssumption DEF UpdateModuleConfig, FollowModuleConfig, Start, configVars
  <2>3. ASSUME NEW d \in Calls PROVE KeptBy(d)'
    <3>1. KeptBy(d)
      BY DEF HeldInv, KeptOK
    <3>. QED BY <2>1, <2>2, <3>1 DEF KeptBy, Managed
  <2>4. KeysOK'
    BY <2>1 DEF HeldInv, KeysOK
  <2>. QED BY <1>0, <2>3, <2>4 DEF KeptOK, HeldInv
<1>. QED
  BY <1>0, <1>1, <1>2, <1>3, <1>4 DEF ConfigNext, HeldInv

(* The managed repository and schedule are never deleted, nor exchanged    *)
(* for others.                                                             *)
THEOREM ImmichIsKept == ConfigSpec => ImmichKeepsItsRepository
<1>1. ASSUME HeldInv, HeldInv', [ConfigNext]_configVars, integration # <<>>
      PROVE  /\ integration' # <<>> /\ Head(integration').id = Head(integration).id
             /\ rows'[Head(integration).id] # None
             /\ scheds'[Head(integration).id] # None
  <2>1. integration' # <<>> /\ Head(integration').id = Head(integration).id
    <3>1. CASE UNCHANGED integration
      BY <1>1, <3>1
    <3>2. ASSUME NEW c \in Calls, Upsert(c)
          PROVE  integration' # <<>> /\ Head(integration').id = Head(integration).id
      <4>1. 1 \in DOMAIN integration /\ DOMAIN integration = 1 .. Len(integration)
        BY <1>1 DEF HeldInv, ConfigInv, DataOK
      <4>2. CASE Existing(c)
        <5>1. /\ integration' \in Seq([id : Calls, want : Choices])
             /\ DOMAIN integration' = DOMAIN integration
          BY <1>1, <3>2, <4>2 DEF Upsert, HeldInv, ConfigInv, DataOK
        <5>2. integration'[1].id = integration[1].id
          <6>1. integration[1] \in [id : Calls, want : Choices]
            BY <4>1, FirstOK, <1>1 DEF HeldInv, ConfigInv
          <6>. QED BY <3>2, <4>1, <4>2, <6>1 DEF Upsert
        <5>3. integration' # <<>> /\ Head(integration') = integration'[1]
              /\ Head(integration) = integration[1]
          BY <1>1, <4>1, <5>1 DEF HeldInv, ConfigInv, DataOK
        <5>. QED BY <5>2, <5>3
      <4>3. CASE ~Existing(c)
        BY <1>1, <3>2, <4>1, <4>3 DEF Upsert, HeldInv, ConfigInv, DataOK
      <4>. QED BY <4>2, <4>3
    <3>3. UNCHANGED integration \/ \E c \in Calls : Upsert(c)
      BY <1>1
      DEF ConfigNext, Receive, Step, CreateRemote, InitRemote, Fetch, ListKeys, Rename,
          ExternalFails, SyncPaths, DeletePaths, DeleteLinks, Link, AddJob, Relink, UpdateJob,
          Insert, Repoint, DeleteRow, CreateSchedule, UpdateRow, RemoveSchedule,
          UpdateModuleConfig, FollowModuleConfig, Start, Crash, configVars, database
    <3>. QED BY <3>1, <3>2, <3>3
  <2>2. 1 \in DOMAIN integration' /\ Head(integration') = integration'[1]
    BY <1>1, <2>1 DEF HeldInv, ConfigInv, DataOK
  <2>. QED BY <1>1, <2>1, <2>2 DEF HeldInv, KeysOK
<1>2. HeldInv /\ [ConfigNext]_configVars => HeldInv'
  BY HeldInvNext
<1>. QED BY <1>1, <1>2, InitHeldInv, PTL DEF ConfigSpec, ImmichKeepsItsRepository

(* The managed schedule backs up the managed repository until someone asks *)
(* for the deletion of the repository.                                     *)
THEOREM ImmichStaysLinked == ConfigSpec => OnlyDeletionUnlinks
<1>1. ASSUME HeldInv, [ConfigNext]_configVars, integration # <<>>,
             NEW k, k = <<Head(integration).id, Head(integration).id>>, k \in links
      PROVE  k \in links' \/ \E c \in Calls : DeleteLinks(c)
  <2>. DEFINE h == Head(integration).id
  <2>1. h \in Calls /\ Managed(h) /\ Referenced(h)
    <3>1. h = integration[1].id /\ 1 \in DOMAIN integration
      BY <1>1 DEF HeldInv, ConfigInv, DataOK
    <3>. QED BY <1>1, <3>1, HeadOK DEF HeldInv, ConfigInv, Managed, Referenced
  <2>2. CASE links \subseteq links'
    BY <1>1, <2>2
  <2>3. ASSUME NEW c \in Calls, Relink(c) PROVE k \in links'
    <3>1. call[c].op = "relink" /\ KeptBy(c)
      BY <1>1, <2>3
      DEF Relink, HeldInv, KeptOK, ConfigInv, ControlOK, Doing, Places, External, Statements
    <3>2. Sched(c) # h
      BY <2>1, <2>3, <3>1 DEF Relink, KeptBy, Sched, Existing, Managed
    <3>. QED BY <1>1, <2>3, <3>2 DEF Relink
  <2>4. ASSUME NEW c \in Calls, RemoveSchedule(c) PROVE k \in links'
    BY <1>1, <2>1, <2>4 DEF RemoveSchedule
  <2>5. \/ links \subseteq links'
        \/ \E c \in Calls : Relink(c) \/ RemoveSchedule(c) \/ DeleteLinks(c)
    BY <1>1
    DEF ConfigNext, Receive, Step, CreateRemote, InitRemote, Fetch, ListKeys, Rename,
        ExternalFails, SyncPaths, DeletePaths, Link, AddJob, UpdateJob, Insert, Repoint,
        DeleteRow, CreateSchedule, UpdateRow, Upsert, UpdateModuleConfig, FollowModuleConfig,
        Start, Crash, configVars, database
  <2>. QED BY <2>2, <2>3, <2>4, <2>5
<1>2. HeldInv /\ [ConfigNext]_configVars => HeldInv'
  BY HeldInvNext
<1>3. ASSUME HeldInv, [ConfigNext]_configVars
      PROVE  integration # <<>> =>
                LET k == <<Head(integration).id, Head(integration).id>> IN
                k \in links => k \in links' \/ \E c \in Calls : DeleteLinks(c)
  BY <1>1, <1>3
<1>. QED BY <1>2, <1>3, InitHeldInv, PTL DEF ConfigSpec, OnlyDeletionUnlinks

-----------------------------------------------------------------------------
(* The cron jobs follow the table. *)

(* A step that touches neither schedules nor jobs leaves them in step.     *)
LEMMA QuietJobs ==
    ASSUME HeldInv, JobsOK, NEW c \in Calls, Others(c), at[c] \in Places,
           UNCHANGED <<scheds, jobs, boot>>, at[c] # "rejob",
           at[c] \in Scheduled => at'[c] \in Scheduled,
           reply'[c] = "ok" => at'[c] = "done",
           at[c] = "link" => at'[c] \notin {"upsert", "sync"} /\ reply'[c] # "ok"
    PROVE  JobsOK'
<1>1. ASSUME NEW d \in Calls
      PROVE  /\ at'[d] \notin Scheduled => scheds'[d] = None
             /\ reply'[d] = "ok" => at'[d] = "done"
  BY <1>1 DEF JobsOK, Others
<1>2. ASSUME NEW d \in Calls PROVE JobAgrees(d)'
  <2>1. JobAgrees(d)
    BY DEF JobsOK
  <2>2. \A e \in Calls : at[e] = "rejob" => at'[e] = "rejob" /\ Sched(e)' = Sched(e)
    BY DEF Others, Sched, Existing
  <2>. QED BY <2>1, <2>2 DEF JobAgrees
<1>3. ASSUME NEW d \in Calls PROVE JobMade(d)'
  BY DEF JobsOK, JobMade, Others, Scheduled, Places, External, Statements
<1>. QED BY <1>1, <1>2, <1>3 DEF JobsOK

(* A step of a call leaves schedules and jobs in step, or is on its way    *)
(* to.                                                                     *)
LEMMA StepJobsOK ==
    ASSUME HeldInv, JobsOK, NEW c \in Calls, Step(c)
    PROVE  JobsOK'
<1>. USE DEF database, process, Places, External, Statements, Scheduled
<1>0. /\ Others(c) /\ ConfigInv /\ KeptBy(c) /\ reply[c] # "ok"
      /\ Sched(c) \in Calls /\ call[c].op \in Doing(at[c])
      /\ at[c] \notin Scheduled => scheds[c] = None
  BY StepOthers, Subjects DEF HeldInv, KeptOK, JobsOK, ConfigInv, ControlOK
<1>1. CASE CreateRemote(c)
  BY <1>0, <1>1, EndedOn, QuietJobs DEF CreateRemote
<1>2. CASE InitRemote(c)
  BY <1>0, <1>2, EndedOn, QuietJobs DEF InitRemote
<1>3. CASE Fetch(c)
  BY <1>0, <1>3, EndedOn, Answers, QuietJobs DEF Fetch
<1>4. CASE ListKeys(c)
  BY <1>0, <1>4, EndedOn, Answers, QuietJobs DEF ListKeys
<1>5. CASE Rename(c)
  BY <1>0, <1>5, EndedOn, QuietJobs DEF Rename
<1>6. CASE ExternalFails(c)
  BY <1>0, <1>6, Answers, QuietJobs DEF ExternalFails
<1>7. CASE Insert(c)
  BY <1>0, <1>7, MovesOn, AwaitsOn, Answers, QuietJobs DEF Insert
<1>8. CASE Repoint(c)
  BY <1>0, <1>8, Answers, QuietJobs DEF Repoint
<1>9. CASE SyncPaths(c)
  BY <1>0, <1>9, MovesOn, Answers, QuietJobs DEF SyncPaths
<1>10. CASE DeletePaths(c)
  BY <1>0, <1>10, MovesOn, QuietJobs DEF DeletePaths
<1>11. CASE DeleteLinks(c)
  BY <1>0, <1>11, MovesOn, QuietJobs DEF DeleteLinks
<1>12. CASE DeleteRow(c)
  BY <1>0, <1>12, Answers, QuietJobs DEF DeleteRow
<1>13. CASE Link(c)
  BY <1>0, <1>13, MovesOn, Answers, QuietJobs DEF Link
<1>14. CASE Relink(c)
  BY <1>0, <1>14, MovesOn, Answers, QuietJobs DEF Relink
<1>15. CASE Upsert(c)
  BY <1>0, <1>15, MovesOn, QuietJobs DEF Upsert
<1>16. CASE CreateSchedule(c)
  <2>1. CASE call[c].op = "configure" /\ rows[c] = None
    BY <1>0, <1>16, <2>1, Answers, QuietJobs DEF CreateSchedule
  <2>2. CASE ~(call[c].op = "configure" /\ rows[c] = None)
    <3>1. at'[c] = "link" /\ reply'[c] = reply[c] /\ UNCHANGED <<jobs, boot>>
      BY <1>0, <1>16, <2>2, MovesOn DEF CreateSchedule
    <3>2. PICK new : scheds' = [scheds EXCEPT ![c] = new] /\ scheds[c] = None /\ jobs[c] = None
      BY <1>0, <1>16, <2>2 DEF CreateSchedule, JobsOK, JobAgrees
    <3>3. ASSUME NEW d \in Calls PROVE JobAgrees(d)'
      <4>1. JobAgrees(d) /\ at[c] # "rejob"
        BY <1>16 DEF JobsOK, CreateSchedule
      <4>2. \A e \in Calls : at[e] = "rejob" => at'[e] = "rejob" /\ Sched(e)' = Sched(e)
        BY <1>0, <4>1 DEF Others, Sched, Existing
      <4>. QED BY <3>1, <3>2, <4>1, <4>2 DEF JobAgrees, ConfigInv, DataOK
    <3>4. ASSUME NEW d \in Calls PROVE JobMade(d)'
      BY <1>0, <3>1, <3>2 DEF JobsOK, JobMade, Others, ConfigInv, DataOK
    <3>. QED BY <1>0, <3>1, <3>2, <3>3, <3>4 DEF JobsOK, Others, ConfigInv, DataOK
  <2>. QED BY <2>1, <2>2
<1>17. CASE AddJob(c)
  <2>1. CASE scheds[c].cron = "bad"
    BY <1>0, <1>17, <2>1, Answers, QuietJobs DEF AddJob
  <2>2. CASE scheds[c].cron # "bad"
    <3>1. /\ at[c] = "link" /\ at'[c] \in {"upsert", "done"}
          /\ (reply'[c] = "ok" => at'[c] = "done")
          /\ UNCHANGED <<scheds, boot>> /\ jobs' = [jobs EXCEPT ![c] = scheds[c]]
          /\ scheds[c] # None
      BY <1>0, <1>17, <2>2, MovesOn, Answers DEF AddJob, KeptBy
    <3>2. ASSUME NEW d \in Calls PROVE JobAgrees(d)'
      <4>1. JobAgrees(d)
        BY DEF JobsOK
      <4>2. \A e \in Calls : at[e] = "rejob" => at'[e] = "rejob" /\ Sched(e)' = Sched(e)
        BY <1>0, <3>1 DEF Others, Sched, Existing
      <4>. QED BY <3>1, <4>1, <4>2 DEF JobAgrees, ConfigInv, DataOK
    <3>3. ASSUME NEW d \in Calls PROVE JobMade(d)'
      BY <1>0, <3>1 DEF JobsOK, JobMade, Others, ConfigInv, DataOK
    <3>. QED BY <1>0, <3>1, <3>2, <3>3 DEF JobsOK, Others
  <2>. QED BY <2>1, <2>2
<1>18. CASE UpdateRow(c)
  <2>1. CASE scheds[Sched(c)] = None
    BY <1>0, <1>18, <2>1, Answers, QuietJobs DEF UpdateRow
  <2>2. CASE scheds[Sched(c)] # None
    <3>1. /\ at[c] = "row" /\ at'[c] = "rejob" /\ reply'[c] = reply[c]
          /\ Sched(c)' = Sched(c) /\ UNCHANGED <<jobs, boot>>
      BY <1>0, <1>18, <2>2, MovesOn DEF UpdateRow, Sched, Existing
    <3>2. PICK new \in Schedule : scheds' = [scheds EXCEPT ![Sched(c)] = new]
      <4>1. Edits(c, scheds[Sched(c)]) \subseteq Schedule
        BY <1>0, <1>18, <2>2, EditsOK DEF UpdateRow, ConfigInv, DataOK
      <4>. QED BY <1>18, <2>2, <4>1 DEF UpdateRow
    <3>3. \A d \in Calls : scheds'[d] = None <=> scheds[d] = None
      BY <1>0, <2>2, <3>2, NoneIsNoSchedule DEF ConfigInv, DataOK
    <3>4. ASSUME NEW d \in Calls PROVE JobAgrees(d)'
      <4>1. JobAgrees(d)
        BY DEF JobsOK
      <4>2. \A e \in Calls : at[e] = "rejob" => at'[e] = "rejob" /\ Sched(e)' = Sched(e)
        BY <1>0, <3>1 DEF Others, Sched, Existing
      <4>3. CASE d = Sched(c)
        BY <3>1, <3>3, <4>1, <4>3 DEF JobAgrees
      <4>4. CASE d # Sched(c)
        BY <3>1, <3>2, <4>1, <4>2, <4>4 DEF JobAgrees, ConfigInv, DataOK
      <4>. QED BY <4>3, <4>4
    <3>5. ASSUME NEW d \in Calls PROVE JobMade(d)'
      BY <1>0, <3>1, <3>3 DEF JobsOK, JobMade, Others
    <3>. QED BY <1>0, <3>1, <3>3, <3>4, <3>5 DEF JobsOK, Others
  <2>. QED BY <2>1, <2>2
<1>19. CASE UpdateJob(c)
  <2>1. /\ at[c] = "rejob" /\ at'[c] \in {"upsert", "done"}
        /\ (reply'[c] = "ok" => at'[c] = "done")
        /\ UNCHANGED <<scheds, boot>> /\ scheds[c] = None
    BY <1>0, <1>19, MovesOn, Answers DEF UpdateJob
  <2>2. \A e \in Calls \ {c} : at[e] = "rejob" => at'[e] = "rejob" /\ Sched(e)' = Sched(e)
    BY <1>0 DEF Others, Sched, Existing
  <2>3. PICK s \in Calls : s = Sched(c)
    BY <1>0
  <2>4. /\ \A d \in Calls \ {s} : jobs'[d] = jobs[d]
        /\ jobs[s] # None => scheds[s] # None
        /\ \/ jobs'[s] = jobs[s] /\ (jobs[s] = None \/ scheds[s].cron = "bad")
           \/ jobs'[s] = scheds[s] /\ jobs[s] # None
    BY <1>0, <1>19, <2>3 DEF UpdateJob, JobOf, JobsOK, JobAgrees, ConfigInv, DataOK
  <2>5. JobAgrees(s)'
    BY <2>1, <2>4 DEF JobAgrees
  <2>6. ASSUME NEW d \in Calls, d # s PROVE JobAgrees(d)'
    <3>1. JobAgrees(d) /\ jobs'[d] = jobs[d]
      BY <2>4, <2>6 DEF JobsOK
    <3>. QED BY <2>1, <2>2, <2>3, <2>6, <3>1 DEF JobAgrees
  <2>7. \A d \in Calls : jobs[d] # None => jobs'[d] # None
    BY <2>4
  <2>8. ASSUME NEW d \in Calls PROVE JobMade(d)'
    BY <1>0, <2>1, <2>7 DEF JobsOK, JobMade, Others
  <2>9. \A d \in Calls : JobAgrees(d)'
    BY <2>5, <2>6
  <2>10. ASSUME NEW d \in Calls
         PROVE  /\ at'[d] \notin Scheduled => scheds'[d] = None
                /\ (reply'[d] = "ok" => at'[d] = "done")
    BY <1>0, <2>1 DEF JobsOK, Others
  <2>. QED BY <2>8, <2>9, <2>10 DEF JobsOK
<1>20. CASE RemoveSchedule(c)
  <2>1. at[c] = "unschedule" /\ at'[c] = "done"
    BY <1>0, <1>20, Answers DEF RemoveSchedule
  <2>2. CASE UNCHANGED <<scheds, jobs>>
    BY <1>0, <1>20, <2>1, <2>2, QuietJobs DEF RemoveSchedule
  <2>3. CASE /\ scheds' = [scheds EXCEPT ![Sched(c)] = None]
             /\ jobs' = [jobs EXCEPT ![Sched(c)] = None]
    <3>1. \A d \in Calls : \/ scheds'[d] = None /\ jobs'[d] = None
                           \/ scheds'[d] = scheds[d] /\ jobs'[d] = jobs[d]
      BY <1>0, <2>3 DEF ConfigInv, DataOK
    <3>2. \A e \in Calls : at[e] = "rejob" => at'[e] = "rejob" /\ Sched(e)' = Sched(e)
      BY <1>0, <2>1 DEF Others, Sched, Existing
    <3>3. ASSUME NEW d \in Calls PROVE JobAgrees(d)' /\ JobMade(d)'
      <4>1. JobAgrees(d) /\ JobMade(d) /\ (d = c => scheds[d] = None) /\ boot' = boot
        BY <1>0, <1>20, <2>1 DEF JobsOK, RemoveSchedule
      <4>2. JobAgrees(d)'
        BY <3>1, <3>2, <4>1 DEF JobAgrees
      <4>. QED BY <1>0, <2>1, <3>1, <4>1, <4>2 DEF JobMade, Others
    <3>. QED BY <1>0, <2>1, <3>1, <3>3 DEF JobsOK, Others
  <2>. QED BY <1>20, <2>2, <2>3 DEF RemoveSchedule
<1>. QED
  BY <1>1, <1>2, <1>3, <1>4, <1>5, <1>6, <1>7, <1>8, <1>9, <1>10, <1>11, <1>12, <1>13, <1>14,
     <1>15, <1>16, <1>17, <1>18, <1>19, <1>20 DEF Step

(* The bootstrap makes the jobs anew, and no job outlives the process.     *)
LEMMA BootJobsOK ==
    ASSUME HeldInv, JobsOK, Start \/ Crash
    PROVE  JobsOK'
<1>. USE DEF database, progress
<1>1. CASE Start
  <2>1. /\ UNCHANGED <<scheds, at, reply>>
        /\ \A d \in Calls : jobs'[d] # None => jobs'[d] = scheds[d]
        /\ boot' = "ready" => \A d \in Calls : jobs'[d] = scheds[d]
    BY <1>1 DEF Start
  <2>2. ASSUME NEW d \in Calls PROVE JobAgrees(d)' /\ JobMade(d)'
    BY <2>1 DEF JobAgrees, JobMade
  <2>. QED BY <2>1, <2>2 DEF JobsOK
<1>2. CASE Crash
  <2>1. /\ UNCHANGED <<scheds, reply>> /\ boot' = "down"
        /\ \A d \in Calls : jobs'[d] = None
        /\ \A d \in Calls : at'[d] = IF at[d] = "idle" THEN "idle" ELSE "done"
    BY <1>2 DEF Crash
  <2>. QED BY <2>1 DEF JobsOK, JobAgrees, JobMade, Scheduled
<1>. QED BY <1>1, <1>2

(* Every step keeps them so.                                               *)
LEMMA JobsOKNext ==
    ASSUME HeldInv, JobsOK, [ConfigNext]_configVars
    PROVE  JobsOK'
<1>. USE DEF database, process, request, progress
<1>1. ASSUME NEW c \in Calls, Receive(c) PROVE JobsOK'
  <2>1. /\ ConfigInv /\ at[c] = "idle" /\ UNCHANGED <<scheds, jobs, boot>>
        /\ scheds[c] = None /\ reply[c] # "ok"
    BY <1>1 DEF Receive, HeldInv, JobsOK, Scheduled
  <2>2. Others(c) /\ at'[c] \notin {"rejob", "upsert", "sync"} /\ reply'[c] # "ok"
    BY <1>1, <2>1, ConfigAssumption
    DEF Receive, Dispatch, Takes, Refuses, Answer, Forget, Others, ConfigInv, ControlOK
  <2>3. \A e \in Calls : at[e] = "rejob" => at'[e] = "rejob" /\ Sched(e)' = Sched(e)
    BY <2>1, <2>2 DEF Others, Sched, Existing
  <2>4. ASSUME NEW d \in Calls PROVE JobAgrees(d)' /\ JobMade(d)'
    <3>1. JobAgrees(d) /\ JobMade(d)
      BY DEF JobsOK
    <3>. QED BY <2>1, <2>2, <2>3, <3>1 DEF JobAgrees, JobMade, Others
  <2>. QED BY <2>1, <2>2, <2>4 DEF JobsOK, Others
<1>2. ASSUME NEW c \in Calls, Step(c) PROVE JobsOK'
  BY <1>2, StepJobsOK
<1>3. CASE UpdateModuleConfig \/ FollowModuleConfig \/ UNCHANGED configVars
  <2>1. UNCHANGED <<scheds, jobs, boot, at, reply, call, seen>>
    BY <1>3 DEF UpdateModuleConfig, FollowModuleConfig, configVars
  <2>2. ASSUME NEW d \in Calls PROVE JobAgrees(d)' /\ JobMade(d)'
    <3>1. JobAgrees(d) /\ JobMade(d)
      BY DEF JobsOK
    <3>. QED BY <2>1, <3>1 DEF JobAgrees, JobMade, Sched, Existing
  <2>. QED BY <2>1, <2>2 DEF JobsOK
<1>. QED
  BY <1>1, <1>2, <1>3, BootJobsOK DEF ConfigNext

(* It holds in every reachable state.                                      *)
LEMMA AllJobsOK == ConfigSpec => [](HeldInv /\ JobsOK)
<1>1. ConfigInit => HeldInv /\ JobsOK
  BY InitHeldInv DEF ConfigInit, JobsOK, JobAgrees, JobMade, Scheduled
<1>2. HeldInv /\ JobsOK /\ [ConfigNext]_configVars => (HeldInv /\ JobsOK)'
  BY HeldInvNext, JobsOKNext
<1>. QED BY <1>1, <1>2, PTL DEF ConfigSpec

(* Whenever no call keeps the loop, no cron job is left of a schedule that *)
(* was removed, nor runs at another time or in spite of a pause.           *)
THEOREM JobsFollowTable == ConfigSpec => []JobsAreScheduled
<1>1. HeldInv /\ JobsOK => JobsAreScheduled
  <2>. SUFFICES ASSUME HeldInv, JobsOK, loop = None, NEW s \in Calls, jobs[s] # None
       PROVE  scheds[s] # None /\ (scheds[s].cron = "ok" => jobs[s] = scheds[s])
    BY DEF JobsAreScheduled
  <2>1. \A c \in Calls : at[c] # "rejob"
    BY ConfigAssumption DEF HeldInv, KeptOK, KeptBy, Kept
  <2>. QED BY <2>1 DEF JobsOK, JobAgrees
<1>. QED BY <1>1, AllJobsOK, PTL

(* A schedule whose creation was answered with success has its cron job as *)
(* long as it exists and the bootstrap succeeds, through edits, failures   *)
(* of other calls and restarts.                                            *)
THEOREM SchedulesTick == ConfigSpec => []CreatedSchedulesTick
<1>1. JobsOK => CreatedSchedulesTick
  BY DEF JobsOK, JobMade, CreatedSchedulesTick
<1>. QED BY <1>1, AllJobsOK, PTL

===============================================================================
