------------------------------ MODULE TaskRunner ------------------------------
(***************************************************************************)
(* The task engine of the orchestration API: the five operations of        *)
(* RepositoryService that drive restic (createBackup, pruneRepository,     *)
(* forgetSnapshot, restoreSnapshot, restoreFromPoint), the in-memory       *)
(* registry of running tasks (RunningTasksRepository), the run history in  *)
(* SQLite (RunHistoryRepository), the locks restic keeps in the repository *)
(* itself, cancellation, process crashes and the bootstrap that follows.   *)
(*                                                                         *)
(* An operation is a coroutine: it runs without interruption between two   *)
(* awaits, and any other coroutine may run while it waits.  One action is  *)
(* one such segment.  An element of Ops is one request, used once.         *)
(*                                                                         *)
(* Simplifications.                                                        *)
(*  - activeTasks and controllers always change together and are one map;  *)
(*    its value is the operation that wrote the entry, which stands for    *)
(*    the entry's type and logId and for the entry's AbortController.      *)
(*  - Operations are requested for a repository that exists; one that is   *)
(*    deleted meanwhile is a failure of the awaits that read it.           *)
(*  - The background task updateLocalMetrics and the telemetry and event   *)
(*    publications change none of this state and are left out.             *)
(*  - A restic process does not outlive the Node process that spawned it.  *)
(***************************************************************************)
CONSTANTS
    Ops,        \* the requests that will be made
    Repos,      \* local repositories, each with its remote
    CloudRepos, \* those whose backend wants to be told of a backup's start
    Kinds,      \* the kinds of request that are made
    Faults,     \* which of the rarer failures can happen
    NoOp        \* an empty entry of the task registry

AllKinds == {"backup", "prune", "forget", "restore", "restorePoint"}
AllFaults == {"log", "finalize", "replace", "boot"}

ASSUME ConstantsAssumption ==
    /\ CloudRepos \subseteq Repos
    /\ Kinds \subseteq AllKinds
    /\ Faults \subseteq AllFaults
    /\ NoOp \notin Ops

VARIABLES
    up,       \* is the process running
    pc,       \* where each operation is
    kind,     \* what was requested
    repo,     \* the repository it was requested for
    call,     \* the restic call it makes or is about to make
    task,     \* activeTasks and controllers: the owner of each entry
    aborted,  \* the running operations whose AbortController has fired
    result,   \* what a caller that awaits the operation and its task sees
    row,      \* the status of the operation's row in runHistory
    locks     \* the locks in the restic repositories, with who took them

vars == <<up, pc, kind, repo, call, task, aborted, result, row, locks>>

-----------------------------------------------------------------------------
(* The operations, as data. *)

(* Variant: forgetSnapshot without its admission check. *)
GuardedExceptForget == {"backup", "prune"}

(* The kinds that begin with canStart. *)
Guarded == {"backup", "prune", "forget"}

(* Variant: forgetSnapshot without its unlockAll. *)
UnlockingExceptForget == {"backup", "prune"}

(* The kinds that call unlockAll between startTask and their first call. *)
Unlocking == {"backup", "prune", "forget"}

(* The kinds that createLog gives a row of runHistory; restoreFromPoint    *)
(* writes an ephemeral log, forgetSnapshot none.                           *)
Recorded == {"backup", "prune", "restore"}

FirstCall(k) ==
    CASE k = "backup" -> "backup"
      [] k = "prune"  -> "forgetByPolicy"
      [] k = "forget" -> "forget"
      [] OTHER        -> "restore"

Calls == {"none", "backup", "forgetByPolicy", "prune", "forget", "restore",
          "restoreState"}

(* The calls for which restic takes an exclusive lock on the repository.   *)
Exclusive == {"forgetByPolicy", "prune", "forget"}
Locks == [holder : Ops, exclusive : BOOLEAN]
Lock(o) == [holder |-> o, exclusive |-> call[o] \in Exclusive]

(* restoreFromPoint registers its task under the id of the remote, the     *)
(* other operations under the local id.                                    *)
Slots == Repos \X {"local", "remote"}
Slot(o) == <<repo[o], IF kind[o] = "restorePoint" THEN "remote" ELSE "local">>

Statuses == {"Incomplete", "Complete", "Failed"}

(* Between the admission check and startTask. *)
Admitting == {"preparing", "logging", "announcing", "resolving"}
(* Between startTask and endTask. *)
Running == {"unlocking", "calling", "working", "policy", "replacing", "booting"}
(* endTask done, the row of runHistory still to be finalised. *)
Closing == {"completing", "failing"}
(* Nothing more happens; "stuck" is a request that is never answered.      *)
Over == {"idle", "refused", "done", "stuck", "lost"}

InFlight == Admitting \cup Running \cup Closing

TypeOK ==
    /\ up \in BOOLEAN
    /\ pc \in [Ops -> InFlight \cup Over]
    /\ kind \in [Ops -> AllKinds]
    /\ repo \in [Ops -> Repos]
    /\ call \in [Ops -> Calls]
    /\ task \in [Slots -> Ops \cup {NoOp}]
    /\ aborted \subseteq Ops
    /\ result \in [Ops -> {"pending", "fulfilled", "rejected"}]
    /\ row \in [Ops -> Statuses \cup {"none"}]
    /\ locks \subseteq Locks

Init ==
    /\ up = TRUE
    /\ pc = [o \in Ops |-> "idle"]
    /\ kind \in [Ops -> Kinds]
    /\ repo \in [Ops -> Repos]
    /\ call = [o \in Ops |-> "none"]
    /\ task = [s \in Slots |-> NoOp]
    /\ aborted = {}
    /\ result = [o \in Ops |-> "pending"]
    /\ row = [o \in Ops |-> "none"]
    /\ locks = {}

-----------------------------------------------------------------------------
(* RunningTasksRepository. *)

Goto(o, label) == pc' = [pc EXCEPT ![o] = label]

(* Variants: no check; a check of the id that restoreFromPoint uses. *)
CanAlwaysStart(s) == TRUE
CanStartByRemote(s) == task[<<s[1], "remote">>] = NoOp

CanStart(s) == task[s] = NoOp

(* startTask writes the entry whoever holds it, with a fresh controller.   *)
StartTask(o) ==
    /\ task' = [task EXCEPT ![Slot(o)] = o]
    /\ call' = [call EXCEPT ![o] = FirstCall(kind[o])]
    /\ Goto(o, IF kind[o] \in Unlocking THEN "unlocking" ELSE "calling")

(* endTask deletes the entry whoever wrote it. *)
EndTask(o) == task' = [task EXCEPT ![Slot(o)] = NoOp]

-----------------------------------------------------------------------------
(* RunHistoryRepository. *)

(* An UPDATE of a row that is no longer there changes nothing. *)
Record(o, status) ==
    row' = IF row[o] = "none" THEN row ELSE [row EXCEPT ![o] = status]

(* Variants: nothing is swept, or everything is.                           *)
SweepNothing == UNCHANGED row
SweepAll == row' = [o \in Ops |-> IF row[o] = "none" THEN "none" ELSE "Failed"]

(* markIncompleteAsFailed, over every row there is. *)
Sweep == row' = [o \in Ops |-> IF row[o] = "Incomplete" THEN "Failed" ELSE row[o]]

(* Variants: an error that is swallowed; one that nobody finalises.        *)
SettleSwallowing(o, ok) ==
    /\ result' = [result EXCEPT ![o] = IF ok THEN "fulfilled" ELSE "rejected"]
    /\ Goto(o, IF kind[o] \notin Recorded THEN "done" ELSE "completing")
SettleUncaught(o, ok) ==
    /\ result' = [result EXCEPT ![o] = IF ok THEN "fulfilled" ELSE "rejected"]
    /\ Goto(o, IF kind[o] \in Recorded /\ ok THEN "completing" ELSE "done")

(* The function given to createLog has settled: the callback settles the   *)
(* task promise, and finalize is the next await.                           *)
Settle(o, ok) ==
    /\ result' = [result EXCEPT ![o] = IF ok THEN "fulfilled" ELSE "rejected"]
    /\ Goto(o, IF kind[o] \notin Recorded THEN "done"
               ELSE IF ok THEN "completing" ELSE "failing")

(* The finally block and what follows it without an await; nothing uses    *)
(* the call's parameters and signal any more.                              *)
Finish(o, ok) ==
    /\ EndTask(o)
    /\ Settle(o, ok)
    /\ call' = [call EXCEPT ![o] = "none"]
    /\ aborted' = aborted \ {o}

-----------------------------------------------------------------------------
(* From the request to startTask. *)

(* The admission check.  A restore makes none.  A refused request throws   *)
(* BadRequestException('Task already running!').                           *)
Request(o) ==
    /\ up
    /\ pc[o] = "idle"
    /\ \/ /\ kind[o] \in Guarded
          /\ CanStart(Slot(o))
          /\ Goto(o, "preparing")
          /\ UNCHANGED result
       \/ /\ kind[o] \in Guarded
          /\ ~CanStart(Slot(o))
          /\ Goto(o, "refused")
          /\ result' = [result EXCEPT ![o] = "rejected"]
       \/ /\ kind[o] \notin Guarded
          /\ Goto(o, "logging")
          /\ UNCHANGED result
    /\ UNCHANGED <<up, kind, repo, call, task, aborted, row, locks>>

(* The awaits that read the repository, its backend, its key, and the      *)
(* paths to back up or the retention policy.                               *)
Prepare(o) ==
    /\ pc[o] = "preparing"
    /\ IF kind[o] = "forget"
       THEN StartTask(o)
       ELSE Goto(o, "logging") /\ UNCHANGED <<task, call>>
    /\ UNCHANGED <<up, kind, repo, aborted, result, row, locks>>

(* Variant: the error is thrown where nothing answers the request. *)
PrepareHangs(o) ==
    /\ pc[o] = "preparing"
    /\ Goto(o, "stuck")
    /\ UNCHANGED <<up, kind, repo, call, task, aborted, result, row, locks>>

(* One of them fails, or there are no paths, or there is no policy. *)
PrepareFails(o) ==
    /\ pc[o] = "preparing"
    /\ Goto(o, "refused")
    /\ result' = [result EXCEPT ![o] = "rejected"]
    /\ UNCHANGED <<up, kind, repo, call, task, aborted, row, locks>>

(* submitMetricBackupStart is awaited between the reply and startTask.     *)
Announces(o) == kind[o] = "backup" /\ repo[o] \in CloudRepos

(* createLog has its directory and its row, and calls the function, which  *)
(* replies to the request and runs to its first await.                     *)
OpenLog(o) ==
    /\ pc[o] = "logging"
    /\ row' = IF kind[o] \in Recorded THEN [row EXCEPT ![o] = "Incomplete"] ELSE row
    /\ \/ /\ Announces(o)
          /\ Goto(o, "announcing")
          /\ UNCHANGED <<task, call>>
       \/ /\ kind[o] \in Guarded
          /\ ~Announces(o)
          /\ StartTask(o)
       \/ /\ kind[o] \notin Guarded
          /\ Goto(o, "resolving")
          /\ UNCHANGED <<task, call>>
    /\ UNCHANGED <<up, kind, repo, aborted, result, locks>>

(* The directory or the row cannot be made.  The callback gets the error,  *)
(* but the function that replies to the request is never called.           *)
LogFails(o) ==
    /\ "log" \in Faults
    /\ pc[o] = "logging"
    /\ Goto(o, "stuck")
    /\ UNCHANGED <<up, kind, repo, call, task, aborted, result, row, locks>>

(* The last await before startTask: submitMetricBackupStart for a backup,  *)
(* getResticParameters for a restore.                                      *)
Ready(o) ==
    /\ pc[o] \in {"announcing", "resolving"}
    /\ StartTask(o)
    /\ UNCHANGED <<up, kind, repo, aborted, result, row, locks>>

ReadyFails(o) ==
    /\ pc[o] \in {"announcing", "resolving"}
    /\ Settle(o, FALSE)
    /\ UNCHANGED <<up, kind, repo, call, task, aborted, row, locks>>

-----------------------------------------------------------------------------
(* Between startTask and endTask: the restic calls. *)

(* Variant: the locks of every repository. *)
UnlockEverything(o) ==
    /\ pc[o] = "unlocking"
    /\ Goto(o, "calling")
    /\ locks' = {}
    /\ UNCHANGED <<up, kind, repo, call, task, aborted, result, row>>

(* unlockAll removes every lock on the repository, its holder alive or not. *)
Unlock(o) ==
    /\ pc[o] = "unlocking"
    /\ Goto(o, "calling")
    /\ locks' = {l \in locks : repo[l.holder] # repo[o]}
    /\ UNCHANGED <<up, kind, repo, call, task, aborted, result, row>>

UnlockFails(o) ==
    /\ pc[o] = "unlocking"
    /\ Finish(o, FALSE)
    /\ UNCHANGED <<up, kind, repo, row, locks>>

(* restic refuses to run against an exclusive lock, and to take one        *)
(* against any lock.                                                       *)
Conflict(o) ==
    \E l \in locks : repo[l.holder] = repo[o] /\ (l.exclusive \/ Lock(o).exclusive)

(* The process starts and takes its lock. *)
Begin(o) ==
    /\ pc[o] = "calling"
    /\ o \notin aborted
    /\ ~Conflict(o)
    /\ Goto(o, "working")
    /\ locks' = locks \cup {Lock(o)}
    /\ UNCHANGED <<up, kind, repo, call, task, aborted, result, row>>

(* It was cancelled before it started, or finds the repository locked. *)
BeginFails(o) ==
    /\ pc[o] = "calling"
    /\ o \in aborted \/ Conflict(o)
    /\ Finish(o, FALSE)
    /\ UNCHANGED <<up, kind, repo, row, locks>>

NextCall(o, c) ==
    /\ Goto(o, "calling")
    /\ call' = [call EXCEPT ![o] = c]
    /\ UNCHANGED <<task, result, aborted>>

Await(o, label) == Goto(o, label) /\ UNCHANGED <<call, task, result, aborted>>

(* The call returns, its lock removed. *)
Work(o) ==
    /\ pc[o] = "working"
    /\ locks' = locks \ {Lock(o)}
    /\ \/ call[o] = "backup" /\ Await(o, "policy")
       \/ call[o] = "forgetByPolicy" /\ NextCall(o, "prune")
       \/ call[o] \in {"prune", "forget", "restore"} /\ Finish(o, TRUE)
       \/ /\ call[o] = "restore"           \* yuccaConfig was given
          /\ kind[o] = "restorePoint"
          /\ NextCall(o, "restoreState")
       \/ call[o] = "restoreState" /\ Await(o, "replacing")
    /\ UNCHANGED <<up, kind, repo, row>>

(* The call fails or is killed; its lock may stay behind. *)
WorkFails(o) ==
    /\ pc[o] = "working"
    /\ Finish(o, FALSE)
    /\ \/ locks' = locks \ {Lock(o)}
       \/ UNCHANGED locks
    /\ UNCHANGED <<up, kind, repo, row>>

(* After a backup: is there a retention policy now, or a repository? *)
ReadPolicy(o) ==
    /\ pc[o] = "policy"
    /\ \/ NextCall(o, "forgetByPolicy")
       \/ \E ok \in BOOLEAN : Finish(o, ok)
    /\ UNCHANGED <<up, kind, repo, row, locks>>

(* What a copy of the database taken earlier may hold of a row. *)
Earlier(status) ==
    CASE status = "none"       -> {"none"}
      [] status = "Incomplete" -> {"none", "Incomplete"}
      [] OTHER                 -> {"none", "Incomplete", status}

(* restoreFrom: every table is emptied and filled from the restored file. *)
Replace(o) ==
    /\ pc[o] = "replacing"
    /\ row' \in [Ops -> Statuses \cup {"none"}]
    /\ \A p \in Ops : row'[p] \in Earlier(row[p])
    /\ Await(o, "booting")
    /\ UNCHANGED <<up, kind, repo, locks>>

(* It stops on the way: runHistory is untouched, emptied or replaced. *)
ReplaceFails(o) ==
    /\ pc[o] = "replacing"
    /\ \/ UNCHANGED row
       \/ /\ "replace" \in Faults
          /\ row' \in [Ops -> Statuses \cup {"none"}]
          /\ \/ \A p \in Ops : row'[p] = "none"
             \/ \A p \in Ops : row'[p] \in Earlier(row[p])
    /\ Finish(o, FALSE)
    /\ UNCHANGED <<up, kind, repo, locks>>

(* onApplicationBootstrap, in a process that other operations share.  Its  *)
(* errors are caught inside: the restore succeeds either way.              *)
Reboot(o) ==
    /\ pc[o] = "booting"
    /\ Sweep \/ ("boot" \in Faults /\ UNCHANGED row)
    /\ Finish(o, TRUE)
    /\ UNCHANGED <<up, kind, repo, locks>>

-----------------------------------------------------------------------------
(* The end of a recorded run: finalize. *)

Finalize(o) ==
    /\ pc[o] \in Closing
    /\ Record(o, IF pc[o] = "completing" THEN "Complete" ELSE "Failed")
    /\ Goto(o, "done")
    /\ UNCHANGED <<up, kind, repo, call, task, aborted, result, locks>>

(* The UPDATE throws: the catch handler writes Failed; if that throws too, *)
(* nobody is left to write anything.                                       *)
FinalizeFails(o) ==
    /\ "finalize" \in Faults
    /\ pc[o] \in Closing
    /\ Goto(o, IF pc[o] = "completing" THEN "failing" ELSE "done")
    /\ UNCHANGED <<up, kind, repo, call, task, aborted, result, row, locks>>

-----------------------------------------------------------------------------
(* The rest of the world. *)

(* cancelTask; with no entry it answers 404 and does nothing. *)
Cancel(s) ==
    /\ task[s] # NoOp
    /\ aborted' = aborted \cup {task[s]}
    /\ UNCHANGED <<up, pc, kind, repo, call, task, result, row, locks>>

(* The signal that the caller of createBackup or pruneRepository passed    *)
(* fires: only a task that startTask has already linked to it hears of it. *)
Signal(o) ==
    /\ kind[o] \in {"backup", "prune"}
    /\ pc[o] \in Running
    /\ aborted' = aborted \cup {o}
    /\ UNCHANGED <<up, pc, kind, repo, call, task, result, row, locks>>

(* The process dies with all it holds in memory; the database and the      *)
(* locks in the repositories stay.                                         *)
Crash ==
    /\ up
    /\ up' = FALSE
    /\ pc' = [o \in Ops |-> IF pc[o] \in InFlight \cup {"stuck"} THEN "lost" ELSE pc[o]]
    /\ task' = [s \in Slots |-> NoOp]
    /\ call' = [o \in Ops |-> "none"]
    /\ aborted' = {}
    /\ UNCHANGED <<kind, repo, result, row, locks>>

(* onApplicationBootstrap; a failure is caught and only noted. *)
Restart ==
    /\ ~up
    /\ up' = TRUE
    /\ Sweep \/ ("boot" \in Faults /\ UNCHANGED row)
    /\ UNCHANGED <<pc, kind, repo, call, task, aborted, result, locks>>

-----------------------------------------------------------------------------

(* Every step of an operation that has been requested. *)
Step(o) ==
    \/ Prepare(o) \/ PrepareFails(o)
    \/ OpenLog(o) \/ LogFails(o)
    \/ Ready(o)   \/ ReadyFails(o)
    \/ Unlock(o)  \/ UnlockFails(o)
    \/ Begin(o)   \/ BeginFails(o)
    \/ Work(o)    \/ WorkFails(o)
    \/ ReadPolicy(o)
    \/ Replace(o) \/ ReplaceFails(o)
    \/ Reboot(o)
    \/ Finalize(o) \/ FinalizeFails(o)

Next ==
    \/ \E o \in Ops : Request(o) \/ Step(o) \/ Signal(o)
    \/ \E s \in Slots : Cancel(s)
    \/ Crash
    \/ Restart

Spec == Init /\ [][Next]_vars

(* Every await of an operation ends (restic, the database and the backend  *)
(* answer or fail), and the process is started again after a crash.        *)
Fairness ==
    /\ \A o \in Ops : WF_vars(Step(o))
    /\ WF_vars(Restart)

FairSpec == Spec /\ Fairness

-----------------------------------------------------------------------------
(* Requests that do not overlap.                                           *)
(*                                                                         *)
(* canStart and startTask are awaits apart, and a request that comes in    *)
(* between finds no entry.  Callers that leave a repository alone until    *)
(* the operation they asked for is registered, and that make no restores,  *)
(* behave as SerialSpec.                                                   *)

Opening(r) == \E p \in Ops : repo[p] = r /\ pc[p] \in Admitting

RequestSerial(o) == ~Opening(repo[o]) /\ Request(o)

SerialNext ==
    \/ \E o \in Ops : RequestSerial(o) \/ Step(o) \/ Signal(o)
    \/ \E s \in Slots : Cancel(s)
    \/ Crash
    \/ Restart

SerialSpec == Init /\ [][SerialNext]_vars

-----------------------------------------------------------------------------
(* Properties of every behaviour. *)

(* An entry of activeTasks always belongs to an operation that is between  *)
(* its startTask and its endTask: whichever way operations overlap, fail,  *)
(* are cancelled or overwrite each other, no entry is left behind that     *)
(* would keep its repository refusing tasks for ever.                      *)
NoLeakedTask ==
    \A s \in Slots : task[s] # NoOp =>
        /\ pc[task[s]] \in Running
        /\ Slot(task[s]) = s

(* A run that the history calls Complete did succeed: not one that failed, *)
(* was cancelled in a restic call or was interrupted, whatever was swept,  *)
(* restored or could not be written in between.                            *)
CompleteRunsSucceeded ==
    \A o \in Ops : row[o] = "Complete" => result[o] = "fulfilled"

(* The requests leave the database alone. *)
NoRestore == \A o \in Ops : kind[o] # "restorePoint"

(* Without a database restore, a recorded operation has its row, still     *)
(* Incomplete, as long as it may touch the repository, so that a process   *)
(* that dies leaves a row for markIncompleteAsFailed to find, and after    *)
(* the bootstrap no interrupted run looks as if it were running.           *)
InterruptedRunsShow ==
    NoRestore => \A o \in Ops : kind[o] \in Recorded =>
        /\ pc[o] \in Running \cup Closing => row[o] = "Incomplete"
        /\ pc[o] = "lost" /\ up => row[o] # "Incomplete"

(* The history and the caller (a schedule that counts its failures) are    *)
(* told the same about a run that has come to its end.                     *)
HistoryAgreesWithCaller ==
    NoRestore => \A o \in Ops : pc[o] = "done" /\ kind[o] \in Recorded =>
        row[o] = IF result[o] = "fulfilled" THEN "Complete" ELSE "Failed"

(* Without a database restore, runHistory is the ledger its readers take   *)
(* it for: no step, of whichever operation, and no bootstrap, rewrites how *)
(* a run ended, opens a run twice or ends one that was not open.           *)
Ledger == INSTANCE RunLedger WITH Runs <- Ops,
                                  row <- IF NoRestore THEN row ELSE [o \in Ops |-> "none"]
ImplementsRunLedger == Ledger!Spec

-----------------------------------------------------------------------------
(* Properties of requests that do not overlap. *)

(* One task per repository: no two operations that make the admission      *)
(* check are between startTask and endTask on the same repository, which   *)
(* is what 'Task already running!' is there for.                           *)
OneTaskPerRepository ==
    \A o, p \in Ops :
        /\ pc[o] \in Running /\ kind[o] \in Guarded
        /\ pc[p] \in Running /\ kind[p] \in Guarded
        /\ repo[o] = repo[p]
        => o = p

(* The entry of activeTasks is the operation that is running, so that a    *)
(* cancellation reaches the one the user sees, and never answers 404.      *)
CancelReachesRunningTask ==
    \A o \in Ops : pc[o] \in Running => task[Slot(o)] = o

(* A restic process at work always holds its lock: the unlockAll of one    *)
(* task never takes the lock of another that is alive.                     *)
LiveLocksSurvive == \A o \in Ops : pc[o] = "working" => Lock(o) \in locks

(* No admitted task ever fails because its repository is locked: all the   *)
(* locks it could find were left by dead processes, and are removed first. *)
StaleLocksNeverBlock ==
    \A o \in Ops : pc[o] = "calling" /\ kind[o] \in Guarded => ~Conflict(o)

(* The registry and the restic processes together keep the promise of a    *)
(* mutex: each repository has one holder, only the holder works on it, and *)
(* it is given up before it is taken.                                      *)
Mutex == INSTANCE RepositoryMutex
             WITH holder <- [r \in Repos |-> task[<<r, "local">>]],
                  busy <- {o \in Ops : pc[o] = "working"}
ImplementsRepositoryMutex == Mutex!Spec

-----------------------------------------------------------------------------
(* Progress. *)

(* Every row of runHistory leaves the status Incomplete, by the end of its *)
(* run or by the bootstrap after a crash.                                  *)
EveryRunEnds == \A o \in Ops : row[o] = "Incomplete" ~> row[o] # "Incomplete"

(* Every request is answered in the end (or its connection is lost).       *)
EveryRequestIsAnswered ==
    \A o \in Ops : pc[o] \in {"preparing", "logging"} ~>
                   pc[o] \notin {"preparing", "logging", "stuck"}

=============================================================================
