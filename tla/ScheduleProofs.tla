---------------------------- MODULE ScheduleProofs ----------------------------
(***************************************************************************)
(* Schedules on the task engine, for any number of ticks, overlapping or   *)
(* not: they drive the engine as it expects to be driven, so that all that *)
(* is proved of TaskRunner holds under them; a tick has one backup under   *)
(* way at a time, goes through all its repositories unless it is cancelled *)
(* or dies, and notes of each what the history says.                       *)
(***************************************************************************)
EXTENDS ScheduleRunner, TaskRunnerProofs, SequenceTheorems

USE DEF Goto, TickGoto

(* The requests that belong to ticks. *)
TickRequests ==
    \A t \in Ticks, r \in Repos : kind[<<t, r>>] = "backup" /\ repo[<<t, r>>] = r

(* A tick that waits for a backup has a repository to wait for. *)
WaitsForSome == \A t \in Ticks : tick[t] = "backup" => todo[t] # <<>>

ScheduleInv ==
    /\ TypeOK
    /\ TickTypeOK
    /\ AnsweredIsOver
    /\ TickRequests
    /\ WaitsForSome
    /\ NoLeakedScheduleTask
    /\ OneBackupPerTick

-----------------------------------------------------------------------------

(* A backup of a tick is named by the tick and the repository.             *)
LEMMA TickOps == \A t \in Ticks, r \in Repos : <<t, r>> \in Ops
BY ScheduleAssumption

(* A tick in its loop is at the first repository of its list.              *)
LEMMA BackupIsOp ==
    ASSUME ScheduleInv, NEW t \in Ticks, tick[t] = "backup"
    PROVE  /\ Head(todo[t]) \in Repos
           /\ Tail(todo[t]) \in Seq(Repos)
           /\ Backup(t) = <<t, Head(todo[t])>>
           /\ Backup(t) \in Ops
BY TickOps, HeadTailProperties DEF ScheduleInv, TickTypeOK, WaitsForSome, Backup

(* The end of a pass of the loop: what a list of repositories to go leads  *)
(* to.                                                                     *)
LEMMA LoopEffect ==
    ASSUME ScheduleInv, NEW t \in Ticks, tick[t] = "backup",
           NEW list \in Seq(Repos), Loop(t, list)
    PROVE  /\ todo' = [todo EXCEPT ![t] = list]
           /\ \/ /\ tick' = [tick EXCEPT ![t] = "finishing"]
                 /\ entry' = [entry EXCEPT ![ScheduleOf[t]] = NoTick]
                 /\ UNCHANGED vars
              \/ /\ tick' = [tick EXCEPT ![t] = "backup"]
                 /\ entry' = entry
                 /\ list # <<>> /\ Head(list) \in Repos
                 /\ Request(<<t, Head(list)>>)
BY HeadTailProperties DEF Loop, LeaveLoop, NextBackup

(* When the backup of a tick has ended, the tick goes on to the next       *)
(* repository, with a request, or to its end.                              *)
LEMMA HearEffect ==
    ASSUME ScheduleInv, NEW t \in Ticks, Hear(t)
    PROVE  /\ tick[t] = "backup" /\ result[Backup(t)] # "pending"
           /\ \E list \in Seq(Repos) :
                 /\ todo' = [todo EXCEPT ![t] = list]
                 /\ \/ /\ tick' = [tick EXCEPT ![t] = "finishing"]
                       /\ entry' = [entry EXCEPT ![ScheduleOf[t]] = NoTick]
                       /\ UNCHANGED vars
                    \/ /\ tick' = [tick EXCEPT ![t] = "backup"]
                       /\ entry' = entry
                       /\ list # <<>> /\ Head(list) \in Repos
                       /\ Request(<<t, Head(list)>>)
<1>1. tick[t] = "backup" /\ result[Backup(t)] # "pending" /\ Loop(t, Tail(todo[t]))
    BY DEF Hear
<1>2. Tail(todo[t]) \in Seq(Repos)
    BY <1>1, BackupIsOp
<1> QED
    BY <1>1, <1>2, LoopEffect

(* Every step of a schedule is one of the engine, or none. *)
LEMMA ScheduleStepIsEngineStep ==
    ASSUME ScheduleInv, [ScheduleNext]_scheduleVars
    PROVE  [Next]_vars
<1>1. ASSUME NEW t \in Ticks, Fire(t) \/ ReadFails(t) \/ HearFails(t) \/ Finished(t)
      PROVE  UNCHANGED vars
    BY <1>1 DEF Fire, ReadFails, HearFails, Finished
<1>2. ASSUME NEW t \in Ticks, Read(t)
      PROVE  [Next]_vars
    <2>1. PICK list \in Lists : \/ UNCHANGED vars
                                \/ list # <<>> /\ NextBackup(t, list)
        BY <1>2 DEF Read
    <2>2. list # <<>> => Head(list) \in Repos
        BY ScheduleAssumption, HeadTailProperties
    <2> QED
        BY <2>1, <2>2, TickOps DEF NextBackup, Next
<1>3. ASSUME NEW t \in Ticks, Hear(t)
      PROVE  [Next]_vars
    BY <1>3, HearEffect, TickOps DEF Next
<1>4. ASSUME NEW s \in Schedules, CancelSchedule(s)
      PROVE  [Next]_vars
    <2>1. entry[s] \in Ticks /\ tick[entry[s]] = "backup"
        BY <1>4 DEF CancelSchedule, ScheduleInv, TickTypeOK, NoLeakedScheduleTask
    <2>2. Backup(entry[s]) \in Ops
        BY <2>1, BackupIsOp
    <2> QED
        BY <1>4, <2>2 DEF CancelSchedule, Next
<1>5. CASE EngineStep
    BY <1>5 DEF EngineStep, Manual, Next
<1>6. CASE CrashTicks
    BY <1>6 DEF CrashTicks, Next
<1>7. CASE UNCHANGED scheduleVars
    BY <1>7 DEF scheduleVars
<1> QED
    BY <1>1, <1>2, <1>3, <1>4, <1>5, <1>6, <1>7 DEF ScheduleNext, TickStep

(* The engine never exchanges what was asked for.                          *)
LEMMA NextKeepsRequests ==
    ASSUME TypeOK, [Next]_vars
    PROVE  kind' = kind /\ repo' = repo
<1>1. ASSUME NEW o \in Ops, Request(o) \/ Step(o) PROVE kind' = kind /\ repo' = repo
    BY <1>1, StepFrame
<1> QED
    BY <1>1 DEF Next, Cancel, Signal, Crash, Restart, vars

-----------------------------------------------------------------------------
(* Types. *)

(* At first no tick has fired.                                             *)
LEMMA InitTickType == ScheduleInit => TickTypeOK
<1> SUFFICES ASSUME ScheduleInit PROVE TickTypeOK
    OBVIOUS
<1>1. <<>> \in Seq(Repos)
    BY EmptySeq
<1> QED
    BY <1>1 DEF ScheduleInit, TickTypeOK, TickPlaces

(* Every step keeps the types of the ticks.                                *)
LEMMA TickTypeNext ==
    ASSUME ScheduleInv, [ScheduleNext]_scheduleVars
    PROVE  TickTypeOK'
<1> USE DEF ScheduleInv, TickTypeOK, TickPlaces
<1>0. \A t \in Ticks : ScheduleOf[t] \in Schedules
    BY ScheduleAssumption
<1>1. ASSUME NEW t \in Ticks, Fire(t) \/ ReadFails(t) \/ Finished(t)
      PROVE  TickTypeOK'
    BY <1>1 DEF Fire, ReadFails, Finished
<1>2. ASSUME NEW t \in Ticks, Read(t)
      PROVE  TickTypeOK'
    <2>1. CASE /\ tick' = [tick EXCEPT ![t] = "done"]
               /\ UNCHANGED <<todo, status, entry>>
        BY <1>2, <2>1 DEF Read
    <2>2. ASSUME NEW list \in Lists,
                 entry' = [entry EXCEPT ![ScheduleOf[t]] = t],
                 todo' = [todo EXCEPT ![t] = list],
                 status' = [status EXCEPT ![t] =
                    [r \in Repos |-> IF \E i \in DOMAIN list : list[i] = r
                                     THEN "Incomplete" ELSE "none"]],
                 tick' = [tick EXCEPT ![t] = "backup"]
          PROVE  TickTypeOK'
        <3> DEFINE new == [r \in Repos |-> IF \E i \in DOMAIN list : list[i] = r
                                           THEN "Incomplete" ELSE "none"]
        <3>1. new \in [Repos -> Statuses \cup {"none"}]
            BY DEF Statuses
        <3>2. status' = [status EXCEPT ![t] = new]
            BY <2>2
        <3>3. status' \in [Ticks -> [Repos -> Statuses \cup {"none"}]]
            <4> HIDE DEF new
            <4> QED
                BY <3>1, <3>2
        <3>4. list \in Seq(Repos) /\ cancelled' = cancelled
            BY <1>2, ScheduleAssumption DEF Read
        <3> QED
            BY <1>0, <2>2, <3>3, <3>4
    <2> QED
        BY <1>2, <2>1, <2>2 DEF Read, NextBackup
<1>3. ASSUME NEW t \in Ticks, Hear(t) \/ HearFails(t)
      PROVE  TickTypeOK'
    <2>1. tick[t] = "backup"
        BY <1>3 DEF Hear, HearFails
    <2>2. Head(todo[t]) \in Repos /\ Tail(todo[t]) \in Seq(Repos)
        BY <2>1, BackupIsOp
    <2>3. status' \in [Ticks -> [Repos -> Statuses \cup {"none"}]]
        <3>1. PICK new \in Statuses :
                 status' = [status EXCEPT ![t][Head(todo[t])] = new]
            BY <1>3 DEF Hear, HearFails, Statuses
        <3> QED
            BY <2>2, <3>1
    <2>4. /\ tick' \in [Ticks -> TickPlaces]
          /\ todo' \in [Ticks -> Seq(Repos)]
          /\ entry' \in [Schedules -> Ticks \cup {NoTick}]
        <3>1. CASE HearFails(t)
            BY <3>1 DEF HearFails
        <3>2. CASE Hear(t)
            <4>1. PICK list \in Seq(Repos) :
                     /\ todo' = [todo EXCEPT ![t] = list]
                     /\ tick' \in {[tick EXCEPT ![t] = "finishing"], [tick EXCEPT ![t] = "backup"]}
                     /\ entry' \in {[entry EXCEPT ![ScheduleOf[t]] = NoTick], entry}
                BY <3>2, HearEffect
            <4>2. tick' \in [Ticks -> TickPlaces] /\ todo' \in [Ticks -> Seq(Repos)]
                BY <4>1 DEF TickPlaces, AtWork
            <4>3. entry' \in [Schedules -> Ticks \cup {NoTick}]
                BY <1>0, <4>1
            <4> QED
                BY <4>2, <4>3
        <3> QED
            BY <1>3, <3>1, <3>2
    <2> QED
        BY <1>3, <2>3, <2>4 DEF Hear, HearFails
<1>4. ASSUME NEW s \in Schedules, CancelSchedule(s)
      PROVE  TickTypeOK'
    BY <1>4 DEF CancelSchedule
<1>5. CASE EngineStep
    BY <1>5 DEF EngineStep, tickVars
<1>6. CASE CrashTicks
    BY <1>6 DEF CrashTicks
<1>7. CASE UNCHANGED scheduleVars
    BY <1>7 DEF scheduleVars, tickVars
<1> QED
    BY <1>1, <1>2, <1>3, <1>4, <1>5, <1>6, <1>7 DEF ScheduleNext, TickStep

-----------------------------------------------------------------------------
(* The entries of schedules, and the backups of ticks. *)

(* A tick in its loop waits for a backup that was asked for, and no tick   *)
(* at its end has an entry.                                                *)
LEMMA WaitsAndEntries ==
    ASSUME ScheduleInv, [ScheduleNext]_scheduleVars
    PROVE  WaitsForSome' /\ NoLeakedScheduleTask'
<1> USE DEF ScheduleInv, TickTypeOK, WaitsForSome, NoLeakedScheduleTask
<1>0. \A t \in Ticks : ScheduleOf[t] \in Schedules
    BY ScheduleAssumption
<1>1. ASSUME NEW t \in Ticks, Fire(t) \/ ReadFails(t) \/ Finished(t)
      PROVE  WaitsForSome' /\ NoLeakedScheduleTask'
    BY <1>1 DEF Fire, ReadFails, Finished
<1>2. ASSUME NEW t \in Ticks, Read(t)
      PROVE  WaitsForSome' /\ NoLeakedScheduleTask'
    <2>1. tick[t] = "reading" /\ entry' \in {entry, [entry EXCEPT ![ScheduleOf[t]] = t]}
        BY <1>2 DEF Read, NextBackup
    <2>2. PICK list \in Lists :
             \/ tick' = [tick EXCEPT ![t] = "done"] /\ UNCHANGED <<todo, entry>>
             \/ /\ tick' = [tick EXCEPT ![t] = "backup"]
                /\ todo' = [todo EXCEPT ![t] = list]
                /\ entry' = [entry EXCEPT ![ScheduleOf[t]] = t]
                /\ list # <<>>
        BY <1>2 DEF Read, NextBackup
    <2>3. CASE tick' = [tick EXCEPT ![t] = "done"] /\ UNCHANGED <<todo, entry>>
        BY <2>1, <2>3
    <2>4. CASE /\ tick' = [tick EXCEPT ![t] = "backup"]
               /\ todo' = [todo EXCEPT ![t] = list]
               /\ entry' = [entry EXCEPT ![ScheduleOf[t]] = t]
               /\ list # <<>>
        <3>1. WaitsForSome'
            BY <2>4
        <3>2. NoLeakedScheduleTask'
            BY <1>0, <2>1, <2>4
        <3> QED
            BY <3>1, <3>2
    <2> QED
        BY <2>2, <2>3, <2>4
<1>3. ASSUME NEW t \in Ticks, Hear(t)
      PROVE  WaitsForSome' /\ NoLeakedScheduleTask'
    <2>1. tick[t] = "backup"
        BY <1>3, HearEffect
    <2>2. PICK list \in Seq(Repos) :
             /\ todo' = [todo EXCEPT ![t] = list]
             /\ \/ /\ tick' = [tick EXCEPT ![t] = "finishing"]
                   /\ entry' = [entry EXCEPT ![ScheduleOf[t]] = NoTick]
                \/ /\ tick' = [tick EXCEPT ![t] = "backup"]
                   /\ entry' = entry
                   /\ list # <<>>
        BY <1>3, HearEffect
    <2>3. CASE /\ tick' = [tick EXCEPT ![t] = "finishing"]
               /\ entry' = [entry EXCEPT ![ScheduleOf[t]] = NoTick]
        BY <1>0, <2>1, <2>2, <2>3
    <2>4. CASE /\ tick' = [tick EXCEPT ![t] = "backup"]
               /\ entry' = entry
               /\ list # <<>>
        BY <2>1, <2>2, <2>4
    <2> QED
        BY <2>2, <2>3, <2>4
<1>4. ASSUME NEW t \in Ticks, HearFails(t)
      PROVE  WaitsForSome' /\ NoLeakedScheduleTask'
    BY <1>0, <1>4 DEF HearFails
<1>5. ASSUME NEW s \in Schedules, CancelSchedule(s)
      PROVE  WaitsForSome' /\ NoLeakedScheduleTask'
    BY <1>5 DEF CancelSchedule
<1>6. CASE EngineStep
    BY <1>6 DEF EngineStep, tickVars
<1>7. CASE CrashTicks
    BY <1>7 DEF CrashTicks, AtWork
<1>8. CASE UNCHANGED scheduleVars
    BY <1>8 DEF scheduleVars, tickVars
<1> QED
    BY <1>1, <1>2, <1>3, <1>4, <1>5, <1>6, <1>7, <1>8 DEF ScheduleNext, TickStep

(* No request of this tick is being served. *)
Quiet(t) == \A r \in Repos : pc[<<t, r>>] \notin Active

(* A tick asks for the next backup only when the last has ended.           *)
LEMMA OneBackupNext ==
    ASSUME ScheduleInv, [ScheduleNext]_scheduleVars
    PROVE  OneBackupPerTick'
<1> USE DEF ScheduleInv, TickTypeOK, OneBackupPerTick, Active
<1>1. ASSUME NEW t \in Ticks, Fire(t) \/ ReadFails(t) \/ Finished(t)
      PROVE  OneBackupPerTick'
    BY <1>1 DEF Fire, ReadFails, Finished, vars
<1>2. ASSUME NEW t \in Ticks, NEW list \in Seq(Repos), list # <<>>, Quiet(t),
             Request(<<t, Head(list)>>),
             tick' = [tick EXCEPT ![t] = "backup"], todo' = [todo EXCEPT ![t] = list]
      PROVE  OneBackupPerTick'
    <2>1. Head(list) \in Repos
        BY <1>2, HeadTailProperties
    <2>2. \A o \in Ops \ {<<t, Head(list)>>} : pc'[o] = pc[o]
        BY <1>2, <2>1, TickOps, StepFrame
    <2>3. SUFFICES ASSUME NEW u \in Ticks, NEW r \in Repos, pc'[<<u, r>>] \in Active
                   PROVE  tick'[u] = "backup" /\ r = Head(todo'[u])
        OBVIOUS
    <2>4. CASE u = t
        BY <1>2, <2>2, <2>3, <2>4, TickOps DEF Quiet
    <2>5. CASE u # t
        <3>1. pc'[<<u, r>>] = pc[<<u, r>>]
            BY <2>2, <2>5, TickOps
        <3> QED
            BY <1>2, <2>3, <2>5, <3>1
    <2> QED
        BY <2>4, <2>5
<1>3. ASSUME NEW t \in Ticks, Quiet(t), UNCHANGED vars,
             \A u \in Ticks \ {t} : tick'[u] = tick[u] /\ todo'[u] = todo[u]
      PROVE  OneBackupPerTick'
    BY <1>3 DEF Quiet, vars
<1>4. ASSUME NEW t \in Ticks, Read(t)
      PROVE  OneBackupPerTick'
    <2>1. Quiet(t)
        BY <1>4 DEF Read, Quiet
    <2>2. PICK list \in Lists :
              \/ tick' = [tick EXCEPT ![t] = "done"] /\ UNCHANGED <<vars, todo>>
              \/ /\ list # <<>>
                 /\ todo' = [todo EXCEPT ![t] = list]
                 /\ tick' = [tick EXCEPT ![t] = "backup"]
                 /\ Request(<<t, Head(list)>>)
        BY <1>4 DEF Read, NextBackup
    <2>3. list \in Seq(Repos)
        BY ScheduleAssumption
    <2> QED
        BY <1>2, <1>3, <2>1, <2>2, <2>3
<1>5. ASSUME NEW t \in Ticks, Hear(t) \/ HearFails(t)
      PROVE  OneBackupPerTick'
    <2>1. tick[t] = "backup" /\ result[Backup(t)] # "pending"
        BY <1>5 DEF Hear, HearFails
    <2>2. Quiet(t)
        BY <2>1, BackupIsOp DEF Quiet, AnsweredIsOver
    <2>3. CASE HearFails(t)
        BY <1>3, <2>2, <2>3 DEF HearFails
    <2>4. CASE Hear(t)
        <3>1. PICK list \in Seq(Repos) :
                 /\ todo' = [todo EXCEPT ![t] = list]
                 /\ \/ tick' = [tick EXCEPT ![t] = "finishing"] /\ UNCHANGED vars
                    \/ /\ tick' = [tick EXCEPT ![t] = "backup"]
                       /\ list # <<>>
                       /\ Request(<<t, Head(list)>>)
            BY <2>4, HearEffect
        <3>2. CASE UNCHANGED vars
            BY <1>3, <2>2, <3>1, <3>2
        <3>3. CASE /\ tick' = [tick EXCEPT ![t] = "backup"]
                   /\ list # <<>>
                   /\ Request(<<t, Head(list)>>)
            BY <1>2, <2>2, <3>1, <3>3
        <3> QED
            BY <3>1, <3>2, <3>3
    <2> QED
        BY <1>5, <2>3, <2>4
<1>6. ASSUME NEW s \in Schedules, CancelSchedule(s)
      PROVE  OneBackupPerTick'
    BY <1>6 DEF CancelSchedule, Signal, vars
<1>7. CASE EngineStep
    <2>1. UNCHANGED <<tick, todo>>
        BY <1>7 DEF EngineStep, tickVars
    <2>2. \A t \in Ticks, r \in Repos :
             pc'[<<t, r>>] \in Active => pc[<<t, r>>] \in Active
        <3>1. ASSUME NEW o \in Ops, Step(o)
              PROVE  \A p \in Ops : pc'[p] \in Active => pc[p] \in Active
            BY <3>1, StepActive, StepFrame
        <3>2. ASSUME NEW o \in Manual, Request(o)
              PROVE  \A t \in Ticks, r \in Repos : pc'[<<t, r>>] = pc[<<t, r>>]
            <4>1. o \in Ops /\ \A t \in Ticks, r \in Repos : <<t, r>> # o
                BY DEF Manual
            <4> QED
                BY <3>2, <4>1, StepFrame, TickOps
        <3>3. CASE Restart \/ \E s \in Slots : Cancel(s)
            BY <3>3 DEF Restart, Cancel
        <3> QED
            BY <1>7, <3>1, <3>2, <3>3, TickOps DEF EngineStep
    <2> QED
        BY <2>1, <2>2
<1>8. CASE CrashTicks
    <2>1. \A o \in Ops : pc'[o] \notin Active
        BY <1>8 DEF CrashTicks, TypeOK, Crash, InFlight, Admitting, Running, Over
    <2> QED
        BY <2>1, TickOps
<1>9. CASE UNCHANGED scheduleVars
    BY <1>9 DEF scheduleVars, tickVars, vars
<1> QED
    BY <1>1, <1>4, <1>5, <1>6, <1>7, <1>8, <1>9 DEF ScheduleNext, TickStep

-----------------------------------------------------------------------------

(* The invariant of the ticks holds in every reachable state.              *)
LEMMA ScheduleInvHolds == ScheduleSpec => []ScheduleInv
<1>1. ScheduleInit => ScheduleInv
    <2> SUFFICES ASSUME ScheduleInit PROVE ScheduleInv
        OBVIOUS
    <2>1. TypeOK /\ TickTypeOK
        BY InitType, InitTickType DEF ScheduleInit
    <2>2. AnsweredIsOver
        BY DEF ScheduleInit, Init, AnsweredIsOver
    <2>3. TickRequests
        BY DEF ScheduleInit, TickRequests
    <2>4. WaitsForSome /\ NoLeakedScheduleTask
        BY DEF ScheduleInit, WaitsForSome, NoLeakedScheduleTask
    <2>5. OneBackupPerTick
        BY TickOps DEF ScheduleInit, Init, OneBackupPerTick, Admitting, Running
    <2> QED
        BY <2>1, <2>2, <2>3, <2>4, <2>5 DEF ScheduleInv
<1>2. ScheduleInv /\ [ScheduleNext]_scheduleVars => ScheduleInv'
    <2> SUFFICES ASSUME ScheduleInv, [ScheduleNext]_scheduleVars PROVE ScheduleInv'
        OBVIOUS
    <2>1. [Next]_vars
        BY ScheduleStepIsEngineStep
    <2>2. TypeOK' /\ AnsweredIsOver'
        BY <2>1, NextType, NextAnswered DEF ScheduleInv
    <2>3. TickRequests'
        BY <2>1, NextKeepsRequests DEF ScheduleInv, TickRequests
    <2> QED
        BY <2>2, <2>3, TickTypeNext, WaitsAndEntries, OneBackupNext DEF ScheduleInv
<1> QED
    BY <1>1, <1>2, PTL DEF ScheduleSpec

(* Under schedules and users together the task engine does only what       *)
(* TaskRunner specifies, so what is proved of TaskRunner holds there too.  *)
THEOREM SchedulesDriveTheEngine == ScheduleSpec => ImplementsTaskRunner
<1>1. ScheduleInit => Init
    BY DEF ScheduleInit
<1>2. ScheduleInv /\ [ScheduleNext]_scheduleVars => [Next]_vars
    BY ScheduleStepIsEngineStep
<1> QED
    BY <1>1, <1>2, ScheduleInvHolds, PTL DEF ScheduleSpec, ImplementsTaskRunner, Spec

(* However ticks of a schedule overlap, fail or are cancelled, none leaves *)
(* its entry in the registry behind.                                       *)
THEOREM ScheduleTasksNeverLeak == ScheduleSpec => []NoLeakedScheduleTask
<1>1. ScheduleInv => NoLeakedScheduleTask
    BY DEF ScheduleInv
<1> QED
    BY <1>1, ScheduleInvHolds, PTL

(* A tick has one backup under way at a time, the one it waits for.        *)
THEOREM TicksBackUpOneByOne == ScheduleSpec => []OneBackupPerTick
<1>1. ScheduleInv => OneBackupPerTick
    BY DEF ScheduleInv
<1> QED
    BY <1>1, ScheduleInvHolds, PTL

-----------------------------------------------------------------------------
(* What a tick tells of its backups.                                       *)

(* What is still Incomplete is still to be done, unless the loop was left  *)
(* early; a tick that has not read its schedule was not cancelled.         *)
TickStatus(t) ==
    /\ t \in cancelled => tick[t] \notin {"idle", "reading"}
    /\ tick[t] \in {"idle", "reading"} => status[t] = [r \in Repos |-> "none"]
    /\ tick[t] = "backup" => \A r \in Repos :
          status[t][r] = "Incomplete" => \E i \in DOMAIN todo[t] : todo[t][i] = r
    /\ tick[t] \in {"finishing", "done"} /\ t \notin cancelled =>
          \A r \in Repos : status[t][r] # "Incomplete"

StatusInv == \A t \in Ticks : TickStatus(t)

(* A status that is noted is the answer that was heard.                    *)
Heard(t, r) ==
    tick[t] # "died" /\ status[t][r] \in {"Complete", "Failed"} =>
        /\ result[<<t, r>>] # "pending"
        /\ status[t][r] = IF result[<<t, r>>] = "fulfilled" THEN "Complete" ELSE "Failed"

HeardInv == \A t \in Ticks, r \in Repos : Heard(t, r)

(* The head of a list leaves the rest to do.                               *)
LEMMA AllButHead ==
    ASSUME NEW list \in Seq(Repos), NEW i \in DOMAIN list, list[i] # Head(list)
    PROVE  list # <<>> /\ \E j \in DOMAIN Tail(list) : Tail(list)[j] = list[i]
<1>1. Len(list) \in Nat /\ DOMAIN list = 1 .. Len(list) /\ i \in 1 .. Len(list)
    BY LenProperties
<1>2. list # <<>>
    BY <1>1, EmptySeq
<1>3. /\ Head(list) = list[1]
      /\ Len(Tail(list)) = Len(list) - 1
      /\ \A j \in 1 .. Len(Tail(list)) : Tail(list)[j] = list[j + 1]
      /\ DOMAIN Tail(list) = 1 .. Len(Tail(list))
    BY <1>2, HeadTailProperties, LenProperties
<1>4. i # 1 /\ i - 1 \in DOMAIN Tail(list) /\ Tail(list)[i - 1] = list[i]
    BY <1>1, <1>3
<1> QED
    BY <1>2, <1>4

(* What a pass of the loop that hears an answer does.                      *)
LEMMA HearStatus ==
    ASSUME ScheduleInv, NEW t \in Ticks, Hear(t)
    PROVE  /\ tick[t] = "backup"
           /\ result[Backup(t)] # "pending"
           /\ cancelled' = cancelled
           /\ todo' = [todo EXCEPT ![t] = Tail(todo[t])]
           /\ status' = [status EXCEPT ![t][Head(todo[t])] =
                 IF result[Backup(t)] = "fulfilled" THEN "Complete" ELSE "Failed"]
           /\ \/ /\ Tail(todo[t]) = <<>> \/ t \in cancelled
                 /\ tick' = [tick EXCEPT ![t] = "finishing"]
                 /\ UNCHANGED vars
              \/ /\ Tail(todo[t]) # <<>> /\ t \notin cancelled
                 /\ tick' = [tick EXCEPT ![t] = "backup"]
                 /\ Request(<<t, Head(Tail(todo[t]))>>)
BY DEF Hear, Loop, LeaveLoop, NextBackup

(* A tick that has read its schedule has nothing to do, or marks each      *)
(* repository and asks for the first backup.                               *)
LEMMA ReadStatus ==
    ASSUME NEW t \in Ticks, Read(t)
    PROVE  /\ tick[t] = "reading"
           /\ cancelled' = cancelled
           /\ \E list \in Lists :
                \/ /\ tick' = [tick EXCEPT ![t] = "done"]
                   /\ UNCHANGED <<vars, todo, status, entry>>
                \/ /\ tick' = [tick EXCEPT ![t] = "backup"]
                   /\ todo' = [todo EXCEPT ![t] = list]
                   /\ status' = [status EXCEPT ![t] =
                        [r \in Repos |-> IF \E i \in DOMAIN list : list[i] = r
                                         THEN "Incomplete" ELSE "none"]]
                   /\ list # <<>>
                   /\ Request(<<t, Head(list)>>)
BY DEF Read, NextBackup

(* A tick that a step leaves alone keeps what is said of it.               *)
LEMMA StatusStays ==
    ASSUME NEW u \in Ticks, TickStatus(u), tick'[u] = tick[u], todo'[u] = todo[u],
           status'[u] = status[u], u \in cancelled' => u \in cancelled \/ tick[u] = "backup",
           cancelled \subseteq cancelled'
    PROVE  TickStatus(u)'
BY DEF TickStatus

(* The end of a backup keeps the marks of its tick in order.               *)
LEMMA HearKeepsStatus ==
    ASSUME ScheduleInv, StatusInv, NEW t \in Ticks, Hear(t)
    PROVE  TickStatus(t)'
<1>1. /\ tick[t] = "backup" /\ cancelled' = cancelled
      /\ todo' = [todo EXCEPT ![t] = Tail(todo[t])]
      /\ \/ /\ Tail(todo[t]) = <<>> \/ t \in cancelled
            /\ tick' = [tick EXCEPT ![t] = "finishing"]
         \/ tick' = [tick EXCEPT ![t] = "backup"]
    BY HearStatus
<1>2. PICK new \in {"Complete", "Failed"} :
         status' = [status EXCEPT ![t][Head(todo[t])] = new]
    BY HearStatus
<1>3. /\ tick \in [Ticks -> TickPlaces] /\ todo \in [Ticks -> Seq(Repos)]
      /\ status \in [Ticks -> [Repos -> Statuses \cup {"none"}]]
    BY DEF ScheduleInv, TickTypeOK
<1>4. ASSUME NEW r \in Repos, status'[t][r] = "Incomplete"
      PROVE  \E j \in DOMAIN Tail(todo[t]) : Tail(todo[t])[j] = r
    <2>1. Head(todo[t]) \in Repos
        BY <1>1, BackupIsOp
    <2>2. r # Head(todo[t]) /\ status[t][r] = "Incomplete"
        BY <1>2, <1>3, <1>4, <2>1
    <2>3. PICK i \in DOMAIN todo[t] : todo[t][i] = r
        BY <1>1, <2>2 DEF StatusInv, TickStatus
    <2> QED
        BY <1>3, <2>2, <2>3, AllButHead
<1>5. todo'[t] = Tail(todo[t])
    BY <1>1, <1>3
<1>6. CASE tick'[t] = "backup"
    BY <1>4, <1>5, <1>6 DEF TickStatus
<1>7. CASE tick'[t] = "finishing" /\ (Tail(todo[t]) = <<>> \/ t \in cancelled)
    <2>1. Tail(todo[t]) = <<>> => \A r \in Repos : status'[t][r] # "Incomplete"
        BY <1>4
    <2>2. t \notin cancelled' => \A r \in Repos : status'[t][r] # "Incomplete"
        BY <1>1, <1>7, <2>1
    <2> QED
        BY <1>7, <2>2 DEF TickStatus
<1>8. tick'[t] = "backup" \/ (tick'[t] = "finishing" /\ (Tail(todo[t]) = <<>> \/ t \in cancelled))
    BY <1>1, <1>3
<1> QED
    BY <1>6, <1>7, <1>8

(* So does the reading of the schedule.                                    *)
LEMMA ReadKeepsStatus ==
    ASSUME ScheduleInv, StatusInv, NEW t \in Ticks, Read(t)
    PROVE  TickStatus(t)'
<1>1. tick[t] = "reading" /\ t \notin cancelled' /\ status[t] = [r \in Repos |-> "none"]
    BY ReadStatus DEF StatusInv, TickStatus
<1>2. tick \in [Ticks -> TickPlaces] /\ todo \in [Ticks -> Seq(Repos)] /\ DOMAIN status = Ticks
    BY DEF ScheduleInv, TickTypeOK
<1>3. PICK list \in Lists :
         \/ tick' = [tick EXCEPT ![t] = "done"] /\ UNCHANGED status
         \/ /\ tick' = [tick EXCEPT ![t] = "backup"]
            /\ todo' = [todo EXCEPT ![t] = list]
            /\ status' = [status EXCEPT ![t] =
                 [r \in Repos |-> IF \E i \in DOMAIN list : list[i] = r
                                  THEN "Incomplete" ELSE "none"]]
    BY ReadStatus
<1>4. CASE tick'[t] = "done" /\ status'[t] = status[t]
    BY <1>1, <1>4 DEF TickStatus
<1>5. CASE /\ tick'[t] = "backup" /\ todo'[t] = list
           /\ status'[t] = [r \in Repos |-> IF \E i \in DOMAIN list : list[i] = r
                                            THEN "Incomplete" ELSE "none"]
    BY <1>1, <1>5 DEF TickStatus
<1> QED
    BY <1>2, <1>3, <1>4, <1>5

(* A pass of the loop of one tick leaves the others alone.                 *)
LEMMA OthersStay ==
    ASSUME ScheduleInv, NEW t \in Ticks, Read(t) \/ Hear(t), NEW u \in Ticks, u # t
    PROVE  /\ tick'[u] = tick[u] /\ todo'[u] = todo[u] /\ status'[u] = status[u]
           /\ cancelled' = cancelled
<1>0. /\ tick \in [Ticks -> TickPlaces] /\ todo \in [Ticks -> Seq(Repos)]
      /\ status \in [Ticks -> [Repos -> Statuses \cup {"none"}]]
    BY DEF ScheduleInv, TickTypeOK
<1>1. CASE Read(t)
    <2>1. /\ tick' \in {[tick EXCEPT ![t] = "done"], [tick EXCEPT ![t] = "backup"]}
          /\ cancelled' = cancelled
        BY <1>1, ReadStatus
    <2>2. PICK list \in Lists :
             \/ UNCHANGED <<todo, status>>
             \/ /\ todo' = [todo EXCEPT ![t] = list]
                /\ status' = [status EXCEPT ![t] =
                     [r \in Repos |-> IF \E i \in DOMAIN list : list[i] = r
                                      THEN "Incomplete" ELSE "none"]]
        BY <1>1, ReadStatus
    <2> QED
        BY <1>0, <2>1, <2>2
<1>2. CASE Hear(t)
    <2>1. /\ tick' \in {[tick EXCEPT ![t] = "finishing"], [tick EXCEPT ![t] = "backup"]}
          /\ todo' = [todo EXCEPT ![t] = Tail(todo[t])]
          /\ cancelled' = cancelled
        BY <1>2, HearStatus
    <2>2. PICK new \in {"Complete", "Failed"} :
             status' = [status EXCEPT ![t][Head(todo[t])] = new]
        BY <1>2, HearStatus
    <2> QED
        BY <1>0, <2>1, <2>2
<1> QED
    BY <1>1, <1>2

(* Every step keeps the marks of every tick in order.                      *)
LEMMA StatusNext ==
    ASSUME ScheduleInv, StatusInv, [ScheduleNext]_scheduleVars
    PROVE  StatusInv'
<1>0. /\ tick \in [Ticks -> TickPlaces] /\ todo \in [Ticks -> Seq(Repos)]
      /\ status \in [Ticks -> [Repos -> Statuses \cup {"none"}]]
    BY DEF ScheduleInv, TickTypeOK
<1>1. SUFFICES ASSUME NEW u \in Ticks PROVE TickStatus(u)'
    BY DEF StatusInv
<1>u. TickStatus(u)
    BY DEF StatusInv
<1>2. ASSUME NEW t \in Ticks, Fire(t) \/ ReadFails(t) \/ Finished(t)
      PROVE  TickStatus(u)'
    <2>1. /\ UNCHANGED <<todo, status, cancelled>>
          /\ \A v \in Ticks \ {t} : tick'[v] = tick[v]
          /\ \/ tick[t] = "idle" /\ tick'[t] = "reading"
             \/ tick[t] \in {"reading", "finishing"} /\ tick'[t] = "died"
             \/ tick[t] = "finishing" /\ tick'[t] = "done"
        BY <1>0, <1>2 DEF Fire, ReadFails, Finished
    <2> QED
        BY <1>u, <2>1 DEF TickStatus
<1>3. ASSUME NEW t \in Ticks, Read(t)
      PROVE  TickStatus(u)'
    <2>1. CASE u = t
        BY <1>3, <2>1, ReadKeepsStatus
    <2>2. CASE u # t
        <3>1. tick'[u] = tick[u] /\ todo'[u] = todo[u] /\ status'[u] = status[u] /\ cancelled' = cancelled
            BY <1>3, <2>2, OthersStay
        <3> QED
            BY <1>u, <3>1, StatusStays
    <2> QED
        BY <2>1, <2>2
<1>4. ASSUME NEW t \in Ticks, Hear(t)
      PROVE  TickStatus(u)'
    <2>1. CASE u = t
        BY <1>4, <2>1, HearKeepsStatus
    <2>2. CASE u # t
        <3>1. tick'[u] = tick[u] /\ todo'[u] = todo[u] /\ status'[u] = status[u] /\ cancelled' = cancelled
            BY <1>4, <2>2, OthersStay
        <3> QED
            BY <1>u, <3>1, StatusStays
    <2> QED
        BY <2>1, <2>2
<1>5. ASSUME NEW t \in Ticks, HearFails(t)
      PROVE  TickStatus(u)'
    <2>1. /\ tick' = [tick EXCEPT ![t] = "died"] /\ tick[t] = "backup"
          /\ UNCHANGED <<todo, cancelled>>
          /\ \A v \in Ticks \ {t} : status'[v] = status[v]
        BY <1>0, <1>5 DEF HearFails
    <2>2. CASE u = t
        BY <1>0, <1>u, <2>1, <2>2 DEF TickStatus
    <2>3. CASE u # t
        BY <1>0, <1>u, <2>1, <2>3, StatusStays
    <2> QED
        BY <2>2, <2>3
<1>6. ASSUME NEW s \in Schedules, CancelSchedule(s)
      PROVE  TickStatus(u)'
    <2>1. tick[entry[s]] = "backup" /\ entry[s] \in Ticks
        BY <1>6 DEF CancelSchedule, NoLeakedScheduleTask, ScheduleInv, TickTypeOK
    <2>2. UNCHANGED <<tick, todo, status>> /\ cancelled' = cancelled \cup {entry[s]}
        BY <1>6 DEF CancelSchedule
    <2> QED
        BY <1>u, <2>1, <2>2, StatusStays
<1>7. CASE EngineStep
    BY <1>7, <1>u, StatusStays DEF EngineStep, tickVars
<1>8. CASE CrashTicks
    <2>1. /\ UNCHANGED <<todo, status, cancelled>>
          /\ tick'[u] = tick[u] \/ tick'[u] = "lost"
        BY <1>0, <1>8 DEF CrashTicks
    <2> QED
        BY <1>u, <2>1 DEF TickStatus
<1>9. CASE UNCHANGED scheduleVars
    BY <1>9, <1>u, StatusStays DEF scheduleVars, tickVars
<1> QED
    BY <1>2, <1>3, <1>4, <1>5, <1>6, <1>7, <1>8, <1>9 DEF ScheduleNext, TickStep

(* The marks are in order in every reachable state.                        *)
LEMMA StatusAlways == ScheduleSpec => []StatusInv
<1>1. ScheduleInit => StatusInv
    BY DEF ScheduleInit, StatusInv, TickStatus
<1> QED
    BY <1>1, StatusNext, ScheduleInvHolds, PTL DEF ScheduleSpec

(* A tick that nobody cancels goes through all its repositories, however   *)
(* they end, or dies with an error, or with the process.                   *)
THEOREM NoneIsSkipped == ScheduleSpec => []NoRepositoryIsSkipped
<1>1. StatusInv => NoRepositoryIsSkipped
    BY DEF StatusInv, TickStatus, NoRepositoryIsSkipped
<1> QED
    BY <1>1, StatusAlways, PTL

(* Whoever makes the step, a cancelled tick begins no backup.              *)
THEOREM CancelStopsTheTick == ScheduleSpec => CancelledScheduleStartsNothing
<1>1. ASSUME ScheduleInv, StatusInv, ScheduleNext,
             NEW u \in cancelled, NEW r \in Repos, pc[<<u, r>>] = "idle"
      PROVE  pc'[<<u, r>>] = "idle"
    <2> USE DEF ScheduleInv, TickTypeOK
    <2>u. u \in Ticks /\ <<u, r>> \in Ops
        BY <1>1, TickOps
    <2>1. ASSUME NEW t \in Ticks, Fire(t) \/ ReadFails(t) \/ Finished(t) \/ HearFails(t)
          PROVE  pc' = pc
        BY <2>1 DEF Fire, ReadFails, Finished, HearFails, vars
    <2>2. ASSUME NEW o \in Ops, Request(o), o # <<u, r>>
          PROVE  pc'[<<u, r>>] = "idle"
        BY <1>1, <2>2, <2>u, StepFrame
    <2>3. ASSUME NEW t \in Ticks, Read(t)
          PROVE  pc'[<<u, r>>] = "idle"
        <3>1. t # u
            BY <2>3, <1>1, ReadStatus DEF StatusInv, TickStatus
        <3>2. PICK list \in Lists : UNCHANGED vars \/ (list # <<>> /\ Request(<<t, Head(list)>>))
            BY <2>3, ReadStatus
        <3>3. list # <<>> => Head(list) \in Repos
            BY ScheduleAssumption, HeadTailProperties
        <3> QED
            BY <1>1, <2>2, <3>1, <3>2, <3>3, TickOps DEF vars
    <2>4. ASSUME NEW t \in Ticks, Hear(t)
          PROVE  pc'[<<u, r>>] = "idle"
        <3>1. CASE UNCHANGED vars
            BY <1>1, <3>1 DEF vars
        <3>2. CASE t \notin cancelled /\ Tail(todo[t]) # <<>> /\ Request(<<t, Head(Tail(todo[t]))>>)
            <4>0. tick[t] = "backup"
                BY <2>4 DEF Hear
            <4>1. Tail(todo[t]) \in Seq(Repos)
                BY <1>1, <4>0, BackupIsOp
            <4>2. Head(Tail(todo[t])) \in Repos
                BY <3>2, <4>1, HeadTailProperties
            <4> QED
                <5>1. t # u /\ <<t, Head(Tail(todo[t]))>> \in Ops
                    BY <1>1, <3>2, <4>2, TickOps
                <5> QED
                    BY <2>2, <3>2, <5>1
        <3>3. \/ UNCHANGED vars
              \/ t \notin cancelled /\ Tail(todo[t]) # <<>> /\ Request(<<t, Head(Tail(todo[t]))>>)
            <4> HIDE DEF ScheduleInv
            <4> QED
                BY <1>1, <2>4, HearStatus
        <3> QED
            BY <3>1, <3>2, <3>3
    <2>5. ASSUME NEW s \in Schedules, CancelSchedule(s)
          PROVE  pc' = pc
        BY <2>5 DEF CancelSchedule, Signal, vars
    <2>6. CASE EngineStep
        <3>1. ASSUME NEW o \in Ops, Step(o) PROVE pc'[<<u, r>>] = "idle"
            <4>1. pc[o] # "idle"
                BY <3>1 DEF Step, Prepare, PrepareFails, OpenLog, LogFails, Ready, ReadyFails, Unlock,
                   UnlockFails, Begin, BeginFails, Work, WorkFails, ReadPolicy, Replace, ReplaceFails,
                   Reboot, Finalize, FinalizeFails, Closing
            <4> QED
                BY <1>1, <2>u, <3>1, <4>1, StepFrame
        <3>2. ASSUME NEW o \in Manual, Request(o) PROVE pc'[<<u, r>>] = "idle"
            BY <2>2, <2>u, <3>2 DEF Manual
        <3>3. CASE Restart \/ \E s \in Slots : Cancel(s)
            BY <1>1, <3>3 DEF Restart, Cancel
        <3> QED
            BY <2>6, <3>1, <3>2, <3>3 DEF EngineStep
    <2>7. CASE CrashTicks
        BY <1>1, <2>7, <2>u DEF CrashTicks, Crash, InFlight, Admitting, Running, Closing
    <2> QED
        BY <1>1, <2>1, <2>3, <2>4, <2>5, <2>6, <2>7 DEF ScheduleNext, TickStep
<1>2. ScheduleInv /\ StatusInv /\ [ScheduleNext]_scheduleVars =>
          [\A t \in cancelled, r \in Repos :
              pc[<<t, r>>] = "idle" => pc'[<<t, r>>] = "idle"]_scheduleVars
    BY <1>1
<1> QED
    BY <1>2, ScheduleInvHolds, StatusAlways, PTL DEF ScheduleSpec, CancelledScheduleStartsNothing

(* The entry of a tick at work goes only to another tick of its schedule.  *)
THEOREM CancelFindsTheTick == ScheduleSpec => CancelReachesTick
<1> DEFINE Kept ==
        \A t \in Ticks :
            LET s == ScheduleOf[t]
            IN tick[t] = "backup" /\ tick'[t] = "backup" /\ entry[s] = t =>
                  \/ entry'[s] = t
                  \/ \E u \in Ticks \ {t} : ScheduleOf[u] = s /\ TickStep(u)
<1>1. ASSUME ScheduleInv, ScheduleNext PROVE Kept
    <2> USE DEF ScheduleInv, TickTypeOK
    <2>0. \A t \in Ticks : ScheduleOf[t] \in Schedules
        BY ScheduleAssumption
    <2>1. SUFFICES ASSUME NEW t \in Ticks, tick[t] = "backup", tick'[t] = "backup",
                          entry[ScheduleOf[t]] = t, entry'[ScheduleOf[t]] # t
                   PROVE  \E u \in Ticks \ {t} : ScheduleOf[u] = ScheduleOf[t] /\ TickStep(u)
        OBVIOUS
    <2>2. ASSUME NEW u \in Ticks, Fire(u) \/ ReadFails(u) \/ Finished(u) \/ HearFails(u)
          PROVE  FALSE
        BY <2>1, <2>2 DEF Fire, ReadFails, Finished, HearFails
    <2>3. ASSUME NEW u \in Ticks, Read(u) \/ Hear(u)
          PROVE  u # t /\ ScheduleOf[u] = ScheduleOf[t]
        <3>1. \/ tick[u] = "reading" /\ entry' = [entry EXCEPT ![ScheduleOf[u]] = u]
              \/ tick'[u] = "finishing" /\ entry' = [entry EXCEPT ![ScheduleOf[u]] = NoTick]
              \/ entry' = entry
            <4>1. CASE Read(u)
                BY <4>1 DEF Read
            <4>2. CASE Hear(u)
                BY <1>1, <4>2 DEF Hear, Loop, LeaveLoop
            <4> QED
                BY <2>3, <4>1, <4>2
        <3>2. ScheduleOf[u] = ScheduleOf[t]
            <4> SUFFICES ASSUME ScheduleOf[u] # ScheduleOf[t] PROVE entry'[ScheduleOf[t]] = entry[ScheduleOf[t]]
                BY <2>1
            <4> QED
                BY <1>1, <2>0, <3>1
        <3>3. u # t
            BY <2>1, <3>1
        <3> QED
            BY <3>2, <3>3
    <2>4. CASE (\E s \in Schedules : CancelSchedule(s)) \/ EngineStep
        BY <2>1, <2>4 DEF CancelSchedule, EngineStep, tickVars
    <2>5. CASE CrashTicks
        BY <2>1, <2>5 DEF CrashTicks, AtWork
    <2> QED
        BY <1>1, <2>2, <2>3, <2>4, <2>5 DEF ScheduleNext, TickStep
<1>2. ScheduleInv /\ [ScheduleNext]_scheduleVars => [Kept]_scheduleVars
    BY <1>1
<1> QED
    BY <1>2, ScheduleInvHolds, PTL DEF ScheduleSpec, CancelReachesTick

-----------------------------------------------------------------------------
(* Two histories that agree.                                               *)

(* An answer, once given, stays.                                           *)
LEMMA AnswersStay ==
    ASSUME TypeOK, AnsweredIsOver, [Next]_vars, NEW p \in Ops, result[p] # "pending"
    PROVE  result'[p] = result[p]
<1>1. ASSUME NEW o \in Ops, Request(o) \/ Step(o)
      PROVE  result'[p] = result[p]
    <2>1. CASE o # p
        BY <1>1, <2>1, StepFrame
    <2>2. CASE o = p
        <3>1. pc[p] \notin Active \cup {"idle"}
            BY DEF AnsweredIsOver
        <3>2. Finalize(p) \/ FinalizeFails(p)
            BY <1>1, <2>2, <3>1 DEF Active, Admitting, Running, Request, Step, Prepare, PrepareFails,
               OpenLog, LogFails, Ready, ReadyFails, Unlock, UnlockFails, Begin, BeginFails, Work,
               WorkFails, ReadPolicy, Replace, ReplaceFails, Reboot
        <3> QED
            BY <3>2 DEF Finalize, FinalizeFails
    <2> QED
        BY <2>1, <2>2
<1> QED
    BY <1>1 DEF Next, Signal, Cancel, Crash, Restart, vars

(* A mark stays the answer that was heard of the backup.                   *)
LEMMA HeardNext ==
    ASSUME ScheduleInv, HeardInv, [ScheduleNext]_scheduleVars
    PROVE  HeardInv'
<1>t. /\ tick \in [Ticks -> TickPlaces]
      /\ status \in [Ticks -> [Repos -> Statuses \cup {"none"}]]
    BY DEF ScheduleInv, TickTypeOK
<1>0. \A o \in Ops : result[o] # "pending" => result'[o] = result[o]
    BY ScheduleStepIsEngineStep, AnswersStay DEF ScheduleInv
<1>1. ASSUME NEW t \in Ticks, NEW r \in Repos,
             tick'[t] # "died" /\ status'[t][r] \in {"Complete", "Failed"} =>
                 tick[t] # "died" /\ status'[t][r] = status[t][r]
      PROVE  Heard(t, r)'
    <2>1. <<t, r>> \in Ops /\ Heard(t, r)
        BY TickOps DEF HeardInv
    <2> QED
        BY <1>0, <1>1, <2>1 DEF Heard
<1>2. ASSUME UNCHANGED status, \A t \in Ticks : tick[t] = "died" => tick'[t] = "died"
      PROVE  HeardInv'
    BY <1>1, <1>2 DEF HeardInv
<1>3. ASSUME NEW t \in Ticks, Fire(t) \/ ReadFails(t) \/ Finished(t)
      PROVE  HeardInv'
    BY <1>t, <1>2, <1>3 DEF Fire, ReadFails, Finished
<1>4. ASSUME NEW t \in Ticks, Read(t)
      PROVE  HeardInv'
    <2>1. /\ \A u \in Ticks : tick[u] = "died" => tick'[u] = "died"
          /\ \E list \in Lists :
                \/ UNCHANGED status
                \/ status' = [status EXCEPT ![t] =
                        [r \in Repos |-> IF \E i \in DOMAIN list : list[i] = r
                                         THEN "Incomplete" ELSE "none"]]
        BY <1>t, <1>4, ReadStatus
    <2>2. \A u \in Ticks, r \in Repos :
             status'[u][r] \in {"Complete", "Failed"} => status'[u][r] = status[u][r]
        BY <1>t, <2>1
    <2> QED
        BY <1>1, <2>1, <2>2 DEF HeardInv
<1>5. ASSUME NEW t \in Ticks, Hear(t)
      PROVE  HeardInv'
    <2>1. tick[t] = "backup" /\ result[Backup(t)] # "pending"
        BY <1>5, HearStatus
    <2>2. status' = [status EXCEPT ![t][Head(todo[t])] =
                IF result[Backup(t)] = "fulfilled" THEN "Complete" ELSE "Failed"]
        BY <1>5, HearStatus
    <2>3. \A u \in Ticks : tick[u] = "died" => tick'[u] = "died"
        BY <1>t, <1>5, HearStatus
    <2>4. Head(todo[t]) \in Repos /\ Backup(t) = <<t, Head(todo[t])>> /\ Backup(t) \in Ops
        BY <2>1, BackupIsOp
    <2>5. ASSUME NEW u \in Ticks, NEW r \in Repos PROVE Heard(u, r)'
        <3>1. CASE u = t /\ r = Head(todo[t])
            <4>1. result'[<<u, r>>] = result[<<u, r>>] /\ result[<<u, r>>] # "pending"
                BY <1>0, <2>1, <2>4, <3>1
            <4>2. status'[u][r] = IF result[<<u, r>>] = "fulfilled" THEN "Complete" ELSE "Failed"
                BY <1>t, <2>2, <2>4, <3>1
            <4> QED
                BY <4>1, <4>2 DEF Heard
        <3>2. CASE u # t \/ r # Head(todo[t])
            <4>1. status'[u][r] = status[u][r]
                BY <1>t, <2>2, <2>4, <3>2
            <4> QED
                BY <1>1, <2>3, <4>1
        <3> QED
            BY <3>1, <3>2
    <2> QED
        BY <2>5 DEF HeardInv
<1>6. ASSUME NEW t \in Ticks, HearFails(t)
      PROVE  HeardInv'
    <2>1. /\ tick' = [tick EXCEPT ![t] = "died"] /\ tick[t] = "backup"
          /\ \A u \in Ticks \ {t} : status'[u] = status[u]
        BY <1>t, <1>6 DEF HearFails
    <2>2. ASSUME NEW u \in Ticks, NEW r \in Repos PROVE Heard(u, r)'
        BY <1>t, <1>1, <2>1
    <2> QED
        BY <2>2 DEF HeardInv
<1>7. ASSUME NEW s \in Schedules, CancelSchedule(s)
      PROVE  HeardInv'
    BY <1>2, <1>7 DEF CancelSchedule
<1>8. CASE EngineStep
    BY <1>2, <1>8 DEF EngineStep, tickVars
<1>9. CASE CrashTicks
    BY <1>t, <1>2, <1>9 DEF CrashTicks, AtWork
<1>10. CASE UNCHANGED scheduleVars
    BY <1>2, <1>10 DEF scheduleVars, tickVars
<1> QED
    BY <1>3, <1>4, <1>5, <1>6, <1>7, <1>8, <1>9, <1>10 DEF ScheduleNext, TickStep

(* That holds in every reachable state.                                    *)
LEMMA HeardAlways == ScheduleSpec => []HeardInv
<1>1. ScheduleInit => HeardInv
    BY DEF ScheduleInit, HeardInv, Heard
<1> QED
    BY <1>1, HeardNext, ScheduleInvHolds, PTL DEF ScheduleSpec

(* Without restored databases and failed UPDATEs of runHistory, what the   *)
(* schedule shows in memory and what the history shows are the same.       *)
THEOREM BothHistoriesAgree ==
    ASSUME "finalize" \notin Faults, "restorePoint" \notin Kinds
    PROVE  ScheduleSpec => []StatusAgreesWithHistory
<1> DEFINE Asked == \A o \in Ops : kind[o] \in Kinds
<1>1. ScheduleInit => Asked
    BY DEF ScheduleInit, Init
<1>2. ScheduleInv /\ Asked /\ [ScheduleNext]_scheduleVars => Asked'
    BY ScheduleStepIsEngineStep, NextKeepsRequests DEF ScheduleInv
<1>3. ScheduleInv /\ HeardInv /\ HistoryInv /\ Asked => StatusAgreesWithHistory
    <2> SUFFICES ASSUME ScheduleInv, HeardInv, HistoryInv, Asked,
                        NEW t \in Ticks, NEW r \in Repos, pc[<<t, r>>] = "done",
                        status[t][r] \in {"Complete", "Failed"}, tick[t] # "died"
                 PROVE  row[<<t, r>>] = status[t][r]
        BY DEF StatusAgreesWithHistory
    <2>1. NoRestore /\ <<t, r>> \in Ops
        BY TickOps DEF NoRestore
    <2>2. kind[<<t, r>>] \in Recorded
        BY DEF ScheduleInv, TickRequests, Recorded
    <2>3. EndsOK(<<t, r>>)
        BY <2>1 DEF HistoryInv
    <2> QED
        BY <2>2, <2>3 DEF EndsOK, HeardInv, Heard
<1>4. ScheduleSpec => []HistoryInv
    BY SchedulesDriveTheEngine, HistoryAlways, PTL DEF ImplementsTaskRunner
<1>5. ScheduleSpec => []Asked
    BY <1>1, <1>2, ScheduleInvHolds, PTL DEF ScheduleSpec
<1> QED
    BY <1>3, <1>4, <1>5, ScheduleInvHolds, HeardAlways, PTL

=============================================================================
