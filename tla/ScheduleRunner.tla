---------------------------- MODULE ScheduleRunner ----------------------------
(***************************************************************************)
(* ScheduleService.runSchedule, the function a cron job calls at each      *)
(* tick, on top of the task engine: a tick reads the list of repositories  *)
(* of its schedule, registers a task of its own, and backs the             *)
(* repositories up one after the other, through createBackup.              *)
(*                                                                         *)
(* The jobs are made without waitForCompletion, so a tick may find an      *)
(* earlier one of the same schedule still at work.  Requests by users and  *)
(* every behaviour of the task engine, crashes included, go on meanwhile.  *)
(*                                                                         *)
(* The backup of repository r by tick t is the request <<t, r>>; a         *)
(* repository is in a schedule at most once.  The schedules table is not   *)
(* part of the state: a tick finds any of Lists there, or no schedule.     *)
(* A process without the lock of moduleConfig makes no ticks.              *)
(***************************************************************************)
EXTENDS TaskRunner, Sequences

CONSTANTS
    Ticks,      \* the ticks that will happen
    Schedules,  \* the schedules
    ScheduleOf, \* the schedule of each tick
    Lists,      \* what repositories a schedule may have, in their order
    NoTick      \* an empty entry of the task registry

ASSUME ScheduleAssumption ==
    /\ Ticks \X Repos \subseteq Ops
    /\ ScheduleOf \in [Ticks -> Schedules]
    /\ Lists \subseteq Seq(Repos)
    /\ NoTick \notin Ticks

VARIABLES
    tick,      \* where each tick is
    todo,      \* the repositories it has not finished, the current one first
    status,    \* its scheduleStatus
    entry,     \* the tick that wrote the schedule's entry in activeTasks
    cancelled  \* the ticks whose AbortController has fired

tickVars == <<tick, todo, status, entry, cancelled>>
scheduleVars == <<vars, tickVars>>

Backup(t) == <<t, Head(todo[t])>>
Manual == Ops \ (Ticks \X Repos)

(* A tick that "died" has thrown out of runSchedule. *)
TickPlaces == {"idle", "reading", "backup", "finishing", "done", "died", "lost"}
AtWork == {"reading", "backup", "finishing"}

TickTypeOK ==
    /\ tick \in [Ticks -> TickPlaces]
    /\ todo \in [Ticks -> Seq(Repos)]
    /\ status \in [Ticks -> [Repos -> Statuses \cup {"none"}]]
    /\ entry \in [Schedules -> Ticks \cup {NoTick}]
    /\ cancelled \subseteq Ticks

ScheduleInit ==
    /\ Init
    /\ \A t \in Ticks, r \in Repos : kind[<<t, r>>] = "backup" /\ repo[<<t, r>>] = r
    /\ tick = [t \in Ticks |-> "idle"]
    /\ todo = [t \in Ticks |-> <<>>]
    /\ status = [t \in Ticks |-> [r \in Repos |-> "none"]]
    /\ entry = [s \in Schedules |-> NoTick]
    /\ cancelled = {}

-----------------------------------------------------------------------------
(* The tick. *)

TickGoto(t, place) == tick' = [tick EXCEPT ![t] = place]

(* The loop is left, endTask deletes the entry whoever wrote it, and       *)
(* lastFinished is saved.                                                  *)
LeaveLoop(t) ==
    /\ TickGoto(t, "finishing")
    /\ entry' = [entry EXCEPT ![ScheduleOf[t]] = NoTick]
    /\ UNCHANGED vars

(* Variant: the backup is made without the admission check. *)
NextBackupUnchecked(t, list) ==
    /\ TickGoto(t, "backup")
    /\ pc[<<t, Head(list)>>] = "idle"
    /\ Goto(<<t, Head(list)>>, "preparing")
    /\ UNCHANGED <<up, kind, repo, call, task, aborted, result, row, locks>>

(* createBackup runs up to its own first await. *)
NextBackup(t, list) ==
    /\ TickGoto(t, "backup")
    /\ Request(<<t, Head(list)>>)

(* Variants: the loop does not look at the signal; it stops at a failure;  *)
(* a cancelled loop returns without its endTask; endTask in every pass.    *)
LoopIgnoringSignal(t, list) ==
    /\ todo' = [todo EXCEPT ![t] = list]
    /\ \/ list = <<>> /\ LeaveLoop(t)
       \/ list # <<>> /\ NextBackup(t, list) /\ UNCHANGED entry
LoopUpToFailure(t, list) ==
    /\ todo' = [todo EXCEPT ![t] = list]
    /\ \/ /\ list = <<>> \/ t \in cancelled \/ result[Backup(t)] = "rejected"
          /\ LeaveLoop(t)
       \/ /\ list # <<>> /\ t \notin cancelled /\ result[Backup(t)] # "rejected"
          /\ NextBackup(t, list)
          /\ UNCHANGED entry
LoopReturning(t, list) ==
    /\ todo' = [todo EXCEPT ![t] = list]
    /\ \/ list = <<>> /\ LeaveLoop(t)
       \/ /\ list # <<>> /\ t \in cancelled
          /\ TickGoto(t, "finishing")
          /\ UNCHANGED <<vars, entry>>
       \/ /\ list # <<>> /\ t \notin cancelled
          /\ NextBackup(t, list)
          /\ UNCHANGED entry

LoopEndingEach(t, list) ==
    /\ todo' = [todo EXCEPT ![t] = list]
    /\ \/ /\ list = <<>> \/ t \in cancelled
          /\ LeaveLoop(t)
       \/ /\ list # <<>> /\ t \notin cancelled
          /\ NextBackup(t, list)
          /\ entry' = [entry EXCEPT ![ScheduleOf[t]] = NoTick]

(* From the head of the loop, with these repositories to go. *)
Loop(t, list) ==
    /\ todo' = [todo EXCEPT ![t] = list]
    /\ \/ /\ list = <<>> \/ t \in cancelled
          /\ LeaveLoop(t)
       \/ /\ list # <<>> /\ t \notin cancelled
          /\ NextBackup(t, list)
          /\ UNCHANGED entry

(* The cron job fires, whatever earlier ticks are doing. *)
Fire(t) ==
    /\ up
    /\ tick[t] = "idle"
    /\ TickGoto(t, "reading")
    /\ UNCHANGED <<vars, todo, status, entry, cancelled>>

(* The schedule is read, lastRun saved, and the tick registered over any   *)
(* entry there is; the first pass of the loop follows at once.             *)
Read(t) ==
    /\ tick[t] = "reading"
    /\ \E list \in Lists :
          \/ /\ list = <<>>
             /\ TickGoto(t, "done")
             /\ UNCHANGED <<vars, todo, status, entry>>
          \/ /\ list # <<>>
             /\ entry' = [entry EXCEPT ![ScheduleOf[t]] = t]
             /\ todo' = [todo EXCEPT ![t] = list]
             /\ status' = [status EXCEPT ![t] =
                   [r \in Repos |-> IF \E i \in DOMAIN list : list[i] = r
                                    THEN "Incomplete" ELSE "none"]]
             /\ NextBackup(t, list)
    /\ UNCHANGED cancelled

(* The schedule has been removed, or the database fails. *)
ReadFails(t) ==
    /\ tick[t] = "reading"
    /\ TickGoto(t, "died")
    /\ UNCHANGED <<vars, todo, status, entry, cancelled>>

(* Variants: the failure of the task is not told from its success, or not  *)
(* caught.                                                                 *)
HearSuccess(t) ==
    /\ tick[t] = "backup"
    /\ result[Backup(t)] # "pending"
    /\ status' = [status EXCEPT ![t][Head(todo[t])] = "Complete"]
    /\ Loop(t, Tail(todo[t]))
    /\ UNCHANGED cancelled
HearFulfilled(t) ==
    /\ tick[t] = "backup"
    /\ result[Backup(t)] = "fulfilled"
    /\ entry[ScheduleOf[t]] # NoTick
    /\ status' = [status EXCEPT ![t][Head(todo[t])] = "Complete"]
    /\ Loop(t, Tail(todo[t]))
    /\ UNCHANGED cancelled

(* createBackup has thrown, or the promise of its task has settled.  The   *)
(* status is noted and updateTask called.                                  *)
Hear(t) ==
    /\ tick[t] = "backup"
    /\ result[Backup(t)] # "pending"
    /\ entry[ScheduleOf[t]] # NoTick
    /\ status' = [status EXCEPT ![t][Head(todo[t])] =
          IF result[Backup(t)] = "fulfilled" THEN "Complete" ELSE "Failed"]
    /\ Loop(t, Tail(todo[t]))
    /\ UNCHANGED cancelled

(* updateTask finds no entry and throws, in the try and again in the       *)
(* catch: the tick ends there, and its remaining repositories with it.     *)
HearFails(t) ==
    /\ tick[t] = "backup"
    /\ result[Backup(t)] # "pending"
    /\ entry[ScheduleOf[t]] = NoTick
    /\ status' = [status EXCEPT ![t][Head(todo[t])] = "Failed"]
    /\ TickGoto(t, "died")
    /\ UNCHANGED <<vars, todo, entry, cancelled>>

(* lastFinished is saved, or the schedule has been removed. *)
Finished(t) ==
    /\ tick[t] = "finishing"
    /\ \E place \in {"done", "died"} : TickGoto(t, place)
    /\ UNCHANGED <<vars, todo, status, entry, cancelled>>

(* cancelTask on the schedule.  The signal of a tick is that of the caller *)
(* of its backup; the listeners that its earlier backups left on it have   *)
(* no one to tell.                                                         *)
CancelSchedule(s) ==
    /\ entry[s] # NoTick
    /\ cancelled' = cancelled \cup {entry[s]}
    /\ LET o == Backup(entry[s])
       IN \/ Signal(o)
          \/ pc[o] \notin Running /\ UNCHANGED vars
    /\ UNCHANGED <<tick, todo, status, entry>>

(* The controllers are gone with their ticks. *)
CrashTicks ==
    /\ Crash
    /\ tick' = [t \in Ticks |-> IF tick[t] \in AtWork THEN "lost" ELSE tick[t]]
    /\ entry' = [s \in Schedules |-> NoTick]
    /\ UNCHANGED <<todo, status, cancelled>>

-----------------------------------------------------------------------------

TickStep(t) ==
    \/ Read(t) \/ ReadFails(t) \/ Hear(t) \/ HearFails(t) \/ Finished(t)

(* The task engine's own steps, and the requests of users. *)
EngineStep ==
    /\ \/ \E o \in Ops : Step(o)
       \/ \E o \in Manual : Request(o)
       \/ \E s \in Slots : Cancel(s)
       \/ Restart
    /\ UNCHANGED tickVars

ScheduleNext ==
    \/ \E t \in Ticks : Fire(t) \/ TickStep(t)
    \/ \E s \in Schedules : CancelSchedule(s)
    \/ EngineStep
    \/ CrashTicks

ScheduleSpec == ScheduleInit /\ [][ScheduleNext]_scheduleVars

(* Every await of a tick ends if what it waits for does. *)
TickFairness ==
    /\ \A t \in Ticks : WF_scheduleVars(TickStep(t))
    /\ \A o \in Ops : WF_scheduleVars(Step(o) /\ UNCHANGED tickVars)
    /\ WF_scheduleVars(Restart /\ UNCHANGED tickVars)

FairScheduleSpec == ScheduleSpec /\ TickFairness

-----------------------------------------------------------------------------
(* Properties of every behaviour. *)

(* The entry of a schedule is that of a tick at work in its loop: however  *)
(* ticks overlap, fail or are cancelled, none leaves an entry behind that  *)
(* would show the schedule as running for ever.                            *)
NoLeakedScheduleTask ==
    \A s \in Schedules : entry[s] # NoTick =>
        tick[entry[s]] = "backup" /\ ScheduleOf[entry[s]] = s

(* A tick backs its repositories up one at a time: no backup of it is      *)
(* under way but the one that it waits for.                                *)
OneBackupPerTick ==
    \A t \in Ticks, r \in Repos :
        pc[<<t, r>>] \in Admitting \cup Running =>
            tick[t] = "backup" /\ r = Head(todo[t])

(* scheduleStatus, kept in memory by the schedule, and runHistory, kept in *)
(* the database by the backup, tell the same of a backup that is over.     *)
StatusAgreesWithHistory ==
    \A t \in Ticks, r \in Repos :
        pc[<<t, r>>] = "done" /\ status[t][r] \in {"Complete", "Failed"} /\ tick[t] # "died"
            => row[<<t, r>>] = status[t][r]

(* A tick that was not cancelled and comes to its end has been through all *)
(* its repositories, whichever of them were refused or failed.             *)
NoRepositoryIsSkipped ==
    \A t \in Ticks, r \in Repos :
        tick[t] \in {"finishing", "done"} /\ t \notin cancelled
            => status[t][r] # "Incomplete"

(* Once a schedule is cancelled, no step of any actor starts another       *)
(* backup for that tick.                                                   *)
CancelledScheduleStartsNothing ==
    [][\A t \in cancelled, r \in Repos :
          pc[<<t, r>>] = "idle" => pc'[<<t, r>>] = "idle"]_scheduleVars

(* A tick at work loses its entry in activeTasks, and with it the          *)
(* cancellation and the next updateTask, only to another tick of its       *)
(* schedule: one that registers itself over it, or that ends first.        *)
CancelReachesTick ==
    [][\A t \in Ticks :
          LET s == ScheduleOf[t]
          IN tick[t] = "backup" /\ tick'[t] = "backup" /\ entry[s] = t =>
                \/ entry'[s] = t
                \/ \E u \in Ticks \ {t} : ScheduleOf[u] = s /\ TickStep(u)]_scheduleVars

(* The task engine, driven by schedules, behaves as specified alone. *)
ImplementsTaskRunner == Spec

(* Progress. *)

(* A tick that waits for a backup goes on to the next repository or to its *)
(* end.                                                                    *)
TicksMoveOn ==
    \A t \in Ticks, r \in Repos :
        tick[t] = "backup" /\ Head(todo[t]) = r ~>
            tick[t] # "backup" \/ Head(todo[t]) # r

=============================================================================
