--------------------------- MODULE TaskRunnerProofs ---------------------------
(***************************************************************************)
(* Proofs about TaskRunner, for every set of requests, repositories, kinds *)
(* and faults.                                                             *)
(***************************************************************************)
EXTENDS TaskRunner, TLAPS

USE DEF Goto

-----------------------------------------------------------------------------
(* Types. *)

(* The key under which an operation registers is one of the registry's. *)
LEMMA SlotType == TypeOK => \A o \in Ops : Slot(o) \in Slots
BY DEF TypeOK, Slot, Slots

(* Every kind of operation has a first await.                              *)
LEMMA FirstCallType == \A k \in AllKinds : FirstCall(k) \in Calls
BY DEF AllKinds, FirstCall, Calls

(* Every operation has a lock.                                             *)
LEMMA LockType == \A o \in Ops : Lock(o) \in Locks
BY DEF Lock, Locks

(* The states of a run before a given one are states of a run.             *)
LEMMA EarlierType ==
    \A s \in Statuses \cup {"none"} : Earlier(s) \subseteq Statuses \cup {"none"}
BY DEF Statuses, Earlier

(* The engine is well typed at first.                                      *)
LEMMA InitType == Init => TypeOK
<1> SUFFICES ASSUME Init PROVE TypeOK
    OBVIOUS
<1>1. Kinds \subseteq AllKinds
    BY ConstantsAssumption
<1> QED
    BY <1>1 DEF Init, TypeOK, InFlight, Over, Calls, Slots

(* A request keeps the types.                                              *)
LEMMA RequestType ==
    ASSUME TypeOK, NEW o \in Ops, Request(o)
    PROVE  TypeOK'
BY DEF TypeOK, Request, InFlight, Admitting, Over

(* A step of an operation keeps the types.                                 *)
LEMMA StepType ==
    ASSUME TypeOK, NEW o \in Ops, Step(o)
    PROVE  TypeOK'
<1> USE DEF InFlight, Admitting, Running, Closing, Over
<1>0. /\ Slot(o) \in Slots
      /\ FirstCall(kind[o]) \in Calls
    BY SlotType, FirstCallType DEF TypeOK
<1>1. CASE Prepare(o)
    BY <1>0, <1>1 DEF TypeOK, Prepare, StartTask
<1>2. CASE PrepareFails(o)
    BY <1>2 DEF TypeOK, PrepareFails
<1>3. CASE OpenLog(o)
    BY <1>0, <1>3 DEF TypeOK, OpenLog, StartTask, Statuses
<1>4. CASE LogFails(o)
    BY <1>4 DEF TypeOK, LogFails
<1>5. CASE Ready(o)
    BY <1>0, <1>5 DEF TypeOK, Ready, StartTask
<1>6. CASE ReadyFails(o)
    BY <1>6 DEF TypeOK, ReadyFails, Settle
<1>7. CASE Unlock(o)
    BY <1>7 DEF TypeOK, Unlock
<1>8. CASE UnlockFails(o)
    BY <1>0, <1>8 DEF TypeOK, UnlockFails, Finish, EndTask, Settle, Calls
<1>9. CASE Begin(o)
    BY <1>9, LockType DEF TypeOK, Begin
<1>10. CASE BeginFails(o)
    BY <1>0, <1>10 DEF TypeOK, BeginFails, Finish, EndTask, Settle, Calls
<1>11. CASE Work(o)
    BY <1>0, <1>11 DEF TypeOK, Work, Await, NextCall, Finish, EndTask, Settle, Calls
<1>12. CASE WorkFails(o)
    BY <1>0, <1>12 DEF TypeOK, WorkFails, Finish, EndTask, Settle, Calls
<1>13. CASE ReadPolicy(o)
    BY <1>0, <1>13 DEF TypeOK, ReadPolicy, NextCall, Finish, EndTask, Settle, Calls
<1>14. CASE Replace(o)
    BY <1>14 DEF TypeOK, Replace, Await
<1>15. CASE ReplaceFails(o)
    BY <1>0, <1>15 DEF TypeOK, ReplaceFails, Finish, EndTask, Settle, Calls
<1>16. CASE Reboot(o)
    BY <1>0, <1>16 DEF TypeOK, Reboot, Sweep, Statuses, Finish, EndTask, Settle, Calls
<1>17. CASE Finalize(o)
    BY <1>17 DEF TypeOK, Finalize, Record, Statuses
<1>18. CASE FinalizeFails(o)
    BY <1>18 DEF TypeOK, FinalizeFails
<1> QED
    BY <1>1, <1>2, <1>3, <1>4, <1>5, <1>6, <1>7, <1>8, <1>9, <1>10, <1>11, <1>12,
       <1>13, <1>14, <1>15, <1>16, <1>17, <1>18 DEF Step

(* Every step keeps the types.                                             *)
LEMMA NextType == TypeOK /\ [Next]_vars => TypeOK'
<1> SUFFICES ASSUME TypeOK, [Next]_vars PROVE TypeOK'
    OBVIOUS
<1>1. ASSUME NEW o \in Ops, Request(o) \/ Step(o) PROVE TypeOK'
    BY <1>1, RequestType, StepType
<1>2. ASSUME NEW s \in Slots, Cancel(s) PROVE TypeOK'
    BY <1>2 DEF TypeOK, Cancel
<1>3. CASE Crash
    BY <1>3 DEF TypeOK, Crash, InFlight, Over, Calls
<1>4. CASE Restart
    BY <1>4 DEF TypeOK, Restart, Sweep, Statuses
<1>5. CASE UNCHANGED vars
    BY <1>5 DEF TypeOK, vars
<1>6. ASSUME NEW o \in Ops, Signal(o) PROVE TypeOK'
    BY <1>6 DEF TypeOK, Signal
<1> QED
    BY <1>1, <1>2, <1>3, <1>4, <1>5, <1>6 DEF Next

(* Every variable keeps its type. *)
THEOREM TypeCorrect == Spec => []TypeOK
BY InitType, NextType, PTL DEF Spec

-----------------------------------------------------------------------------
(* What every step of an operation leaves alone. *)

(* An operation's step moves only its own program counter, and neither the *)
(* requests nor the other entries of the registry.                         *)
LEMMA StepFrame ==
    ASSUME TypeOK, NEW o \in Ops, Request(o) \/ Step(o)
    PROVE  /\ up' = up /\ kind' = kind /\ repo' = repo
           /\ aborted' \subseteq aborted
           /\ \A p \in Ops \ {o} : /\ pc'[p] = pc[p]
                                   /\ call'[p] = call[p]
                                   /\ result'[p] = result[p]
           /\ \A s \in Slots \ {Slot(o)} : task'[s] = task[s]
<1> USE DEF TypeOK
<1>1. CASE Request(o)
    BY <1>1 DEF Request
<1>2. CASE Prepare(o)
    BY <1>2 DEF Prepare, StartTask
<1>3. CASE PrepareFails(o)
    BY <1>3 DEF PrepareFails
<1>4. CASE OpenLog(o)
    BY <1>4 DEF OpenLog, StartTask
<1>5. CASE LogFails(o)
    BY <1>5 DEF LogFails
<1>6. CASE Ready(o)
    BY <1>6 DEF Ready, StartTask
<1>7. CASE ReadyFails(o)
    BY <1>7 DEF ReadyFails, Settle
<1>8. CASE Unlock(o)
    BY <1>8 DEF Unlock
<1>9. CASE UnlockFails(o)
    BY <1>9 DEF UnlockFails, Finish, EndTask, Settle
<1>10. CASE Begin(o)
    BY <1>10 DEF Begin
<1>11. CASE BeginFails(o)
    BY <1>11 DEF BeginFails, Finish, EndTask, Settle
<1>12. CASE Work(o)
    BY <1>12 DEF Work, Await, NextCall, Finish, EndTask, Settle
<1>13. CASE WorkFails(o)
    BY <1>13 DEF WorkFails, Finish, EndTask, Settle
<1>14. CASE ReadPolicy(o)
    BY <1>14 DEF ReadPolicy, NextCall, Finish, EndTask, Settle
<1>15. CASE Replace(o)
    BY <1>15 DEF Replace, Await
<1>16. CASE ReplaceFails(o)
    BY <1>16 DEF ReplaceFails, Finish, EndTask, Settle
<1>17. CASE Reboot(o)
    BY <1>17 DEF Reboot, Finish, EndTask, Settle
<1>18. CASE Finalize(o)
    BY <1>18 DEF Finalize
<1>19. CASE FinalizeFails(o)
    BY <1>19 DEF FinalizeFails
<1> QED
    BY <1>1, <1>2, <1>3, <1>4, <1>5, <1>6, <1>7, <1>8, <1>9, <1>10, <1>11, <1>12,
       <1>13, <1>14, <1>15, <1>16, <1>17, <1>18, <1>19 DEF Step

(* How an operation enters, stays in and leaves the part of its code that  *)
(* the try and finally enclose, and what happens to its entry.             *)
LEMMA StepEntry ==
    ASSUME TypeOK, NEW o \in Ops, Request(o) \/ Step(o)
    PROVE  \/ pc'[o] \in Running /\ pc[o] \notin Running /\ task'[Slot(o)] = o
           \/ /\ pc'[o] \in Running <=> pc[o] \in Running
              /\ task'[Slot(o)] = task[Slot(o)]
           \/ pc[o] \in Running /\ pc'[o] \notin Running /\ task'[Slot(o)] = NoOp
<1> USE DEF TypeOK, Running
<1>0. Slot(o) \in Slots
    BY SlotType
<1>1. CASE Request(o)
    BY <1>1 DEF Request
<1>2. CASE Prepare(o)
    BY <1>0, <1>2 DEF Prepare, StartTask
<1>3. CASE PrepareFails(o)
    BY <1>3 DEF PrepareFails
<1>4. CASE OpenLog(o)
    BY <1>0, <1>4 DEF OpenLog, StartTask
<1>5. CASE LogFails(o)
    BY <1>5 DEF LogFails
<1>6. CASE Ready(o)
    BY <1>0, <1>6 DEF Ready, StartTask
<1>7. CASE ReadyFails(o)
    BY <1>7 DEF ReadyFails, Settle
<1>8. CASE Unlock(o)
    BY <1>8 DEF Unlock
<1>9. CASE UnlockFails(o)
    BY <1>0, <1>9 DEF UnlockFails, Finish, EndTask, Settle
<1>10. CASE Begin(o)
    BY <1>10 DEF Begin
<1>11. CASE BeginFails(o)
    BY <1>0, <1>11 DEF BeginFails, Finish, EndTask, Settle
<1>12. CASE Work(o)
    BY <1>0, <1>12 DEF Work, Await, NextCall, Finish, EndTask, Settle
<1>13. CASE WorkFails(o)
    BY <1>0, <1>13 DEF WorkFails, Finish, EndTask, Settle
<1>14. CASE ReadPolicy(o)
    BY <1>0, <1>14 DEF ReadPolicy, NextCall, Finish, EndTask, Settle
<1>15. CASE Replace(o)
    BY <1>15 DEF Replace, Await
<1>16. CASE ReplaceFails(o)
    BY <1>0, <1>16 DEF ReplaceFails, Finish, EndTask, Settle
<1>17. CASE Reboot(o)
    BY <1>0, <1>17 DEF Reboot, Finish, EndTask, Settle
<1>18. CASE Finalize(o)
    BY <1>18 DEF Finalize, Closing
<1>19. CASE FinalizeFails(o)
    BY <1>19 DEF FinalizeFails, Closing
<1> QED
    BY <1>1, <1>2, <1>3, <1>4, <1>5, <1>6, <1>7, <1>8, <1>9, <1>10, <1>11, <1>12,
       <1>13, <1>14, <1>15, <1>16, <1>17, <1>18, <1>19 DEF Step

-----------------------------------------------------------------------------
(* The registry holds no entry of a task that has ended. *)

(* No step leaves an entry to an operation that is over.                   *)
LEMMA NextNoLeak == TypeOK /\ NoLeakedTask /\ [Next]_vars => NoLeakedTask'
<1> SUFFICES ASSUME TypeOK, NoLeakedTask, [Next]_vars PROVE NoLeakedTask'
    OBVIOUS
<1>1. ASSUME NEW o \in Ops, Request(o) \/ Step(o) PROVE NoLeakedTask'
    <2> SUFFICES ASSUME NEW s \in Slots, task'[s] # NoOp
                 PROVE  pc'[task'[s]] \in Running /\ Slot(task'[s]) = s
        BY <1>1, StepFrame DEF NoLeakedTask, Slot
    <2>1. CASE task'[s] = o /\ pc'[o] \in Running /\ s = Slot(o)
        BY <2>1
    <2>2. CASE /\ task'[s] = task[s]
               /\ s = Slot(o) => (pc'[o] \in Running <=> pc[o] \in Running)
        <3>1. task[s] \in Ops /\ pc[task[s]] \in Running /\ Slot(task[s]) = s
            BY <2>2 DEF TypeOK, NoLeakedTask
        <3>2. pc'[task[s]] \in Running
            BY <2>2, <3>1, <1>1, StepFrame
        <3> QED
            BY <2>2, <3>1, <3>2
    <2> QED
        BY <2>1, <2>2, <1>1, StepFrame, StepEntry
<1>2. ASSUME NEW s \in Slots, Cancel(s) PROVE NoLeakedTask'
    BY <1>2 DEF NoLeakedTask, Cancel, Slot
<1>3. CASE Crash
    BY <1>3 DEF NoLeakedTask, Crash
<1>4. CASE Restart
    BY <1>4 DEF NoLeakedTask, Restart, Slot
<1>5. CASE UNCHANGED vars
    BY <1>5 DEF NoLeakedTask, vars, Slot
<1>6. ASSUME NEW o \in Ops, Signal(o) PROVE NoLeakedTask'
    BY <1>6 DEF NoLeakedTask, Signal, Slot
<1> QED
    BY <1>1, <1>2, <1>3, <1>4, <1>5, <1>6 DEF Next

(* No behaviour leaves an entry behind: a repository that refuses a task   *)
(* because of activeTasks has one running.                                 *)
THEOREM TasksNeverLeak == Spec => []NoLeakedTask
<1>1. Init => NoLeakedTask
    BY DEF Init, NoLeakedTask
<1> QED
    BY <1>1, NextNoLeak, TypeCorrect, PTL DEF Spec

-----------------------------------------------------------------------------
(* A run recorded Complete has succeeded. *)

(* The invariant, strengthened: a row becomes Complete only as its         *)
(* operation's last step, after which neither can change to deny it.       *)
CompleteIsFinal ==
    \A o \in Ops :
        /\ row[o] = "Complete" => pc[o] = "done" /\ result[o] = "fulfilled"
        /\ pc[o] = "completing" => result[o] = "fulfilled"

(* No step makes another operation's row Complete, whichever of the rows   *)
(* it rewrites.                                                            *)
LEMMA OthersNotCompleted ==
    ASSUME TypeOK, NEW o \in Ops, Request(o) \/ Step(o),
           NEW p \in Ops, p # o, row'[p] = "Complete"
    PROVE  row[p] = "Complete"
<1> USE DEF TypeOK
<1>1. CASE row' = row
    BY <1>1
<1>2. CASE OpenLog(o)
    BY <1>2 DEF OpenLog
<1>3. CASE Replace(o)
    BY <1>3 DEF Replace, Earlier
<1>4. CASE ReplaceFails(o)
    BY <1>4 DEF ReplaceFails, Earlier
<1>5. CASE Reboot(o)
    BY <1>5 DEF Reboot, Sweep
<1>6. CASE Finalize(o)
    BY <1>6 DEF Finalize, Record
<1>7. \/ row' = row \/ OpenLog(o) \/ Replace(o) \/ ReplaceFails(o) \/ Reboot(o)
      \/ Finalize(o)
    BY DEF Step, Request, Prepare, PrepareFails, LogFails, Ready, ReadyFails, Unlock,
           UnlockFails, Begin, BeginFails, Work, WorkFails, ReadPolicy, FinalizeFails
<1> QED
    BY <1>1, <1>2, <1>3, <1>4, <1>5, <1>6, <1>7

(* An operation writes Complete to its row only with its promise           *)
(* fulfilled.                                                              *)
LEMMA StepOwnRow ==
    ASSUME TypeOK, CompleteIsFinal, NEW o \in Ops, Request(o) \/ Step(o)
    PROVE  /\ row'[o] = "Complete" => pc'[o] = "done" /\ result'[o] = "fulfilled"
           /\ pc'[o] = "completing" => result'[o] = "fulfilled"
<1> USE DEF TypeOK, CompleteIsFinal
<1>1. CASE Request(o)
    BY <1>1 DEF Request
<1>2. CASE Prepare(o)
    BY <1>2 DEF Prepare, StartTask
<1>3. CASE PrepareFails(o)
    BY <1>3 DEF PrepareFails
<1>4. CASE OpenLog(o)
    BY <1>4 DEF OpenLog, StartTask
<1>5. CASE LogFails(o)
    BY <1>5 DEF LogFails
<1>6. CASE Ready(o)
    BY <1>6 DEF Ready, StartTask
<1>7. CASE ReadyFails(o)
    BY <1>7 DEF ReadyFails, Settle
<1>8. CASE Unlock(o)
    BY <1>8 DEF Unlock
<1>9. CASE UnlockFails(o)
    BY <1>9 DEF UnlockFails, Finish, Settle
<1>10. CASE Begin(o)
    BY <1>10 DEF Begin
<1>11. CASE BeginFails(o)
    BY <1>11 DEF BeginFails, Finish, Settle
<1>12. CASE Work(o)
    BY <1>12 DEF Work, Await, NextCall, Finish, Settle
<1>13. CASE WorkFails(o)
    BY <1>13 DEF WorkFails, Finish, Settle
<1>14. CASE ReadPolicy(o)
    BY <1>14 DEF ReadPolicy, NextCall, Finish, Settle
<1>15. CASE Replace(o)
    BY <1>15 DEF Replace, Await, Earlier
<1>16. CASE ReplaceFails(o)
    BY <1>16 DEF ReplaceFails, Finish, Settle, Earlier
<1>17. CASE Reboot(o)
    BY <1>17 DEF Reboot, Sweep, Finish, Settle
<1>18. CASE Finalize(o)
    BY <1>18 DEF Finalize, Record, Closing
<1>19. CASE FinalizeFails(o)
    BY <1>19 DEF FinalizeFails, Closing
<1> QED
    BY <1>1, <1>2, <1>3, <1>4, <1>5, <1>6, <1>7, <1>8, <1>9, <1>10, <1>11, <1>12,
       <1>13, <1>14, <1>15, <1>16, <1>17, <1>18, <1>19 DEF Step

(* No step of anyone else changes that.                                    *)
LEMMA NextComplete == TypeOK /\ CompleteIsFinal /\ [Next]_vars => CompleteIsFinal'
<1> SUFFICES ASSUME TypeOK, CompleteIsFinal, [Next]_vars PROVE CompleteIsFinal'
    OBVIOUS
<1>1. ASSUME NEW o \in Ops, Request(o) \/ Step(o) PROVE CompleteIsFinal'
    BY <1>1, StepOwnRow, OthersNotCompleted, StepFrame DEF CompleteIsFinal
<1>2. ASSUME NEW s \in Slots, Cancel(s) PROVE CompleteIsFinal'
    BY <1>2 DEF CompleteIsFinal, Cancel
<1>3. ASSUME NEW o \in Ops, Signal(o) PROVE CompleteIsFinal'
    BY <1>3 DEF CompleteIsFinal, Signal
<1>4. CASE Crash
    BY <1>4 DEF TypeOK, CompleteIsFinal, Crash, InFlight, Admitting, Running, Closing
<1>5. CASE Restart
    BY <1>5 DEF TypeOK, CompleteIsFinal, Restart, Sweep
<1>6. CASE UNCHANGED vars
    BY <1>6 DEF CompleteIsFinal, vars
<1> QED
    BY <1>1, <1>2, <1>3, <1>4, <1>5, <1>6 DEF Next

(* Through failures to write, sweeps, crashes and restored databases, a    *)
(* run is never recorded Complete that did not fulfil its promise.         *)
THEOREM CompleteMeansSuccess == Spec => []CompleteRunsSucceeded
<1>1. Init => CompleteIsFinal
    BY DEF Init, CompleteIsFinal
<1>2. CompleteIsFinal => CompleteRunsSucceeded
    BY DEF CompleteIsFinal, CompleteRunsSucceeded
<1> QED
    BY <1>1, <1>2, NextComplete, TypeCorrect, PTL DEF Spec

-----------------------------------------------------------------------------
(* What a caller may rely on. *)

Active == Admitting \cup Running

(* A step of an operation does not admit it again. *)
LEMMA StepActive ==
    ASSUME TypeOK, NEW o \in Ops, Step(o)
    PROVE  pc'[o] \in Active => pc[o] \in Active
<1> USE DEF TypeOK, Active, Admitting, Running
<1>1. CASE pc[o] \in Active
    BY <1>1
<1>2. CASE Finalize(o)
    BY <1>2 DEF Finalize
<1>3. CASE FinalizeFails(o)
    BY <1>3 DEF FinalizeFails
<1>4. pc[o] \in Active \/ Finalize(o) \/ FinalizeFails(o)
    BY DEF Step, Prepare, PrepareFails, OpenLog, LogFails, Ready, ReadyFails, Unlock,
           UnlockFails, Begin, BeginFails, Work, WorkFails, ReadPolicy, Replace,
           ReplaceFails, Reboot
<1> QED
    BY <1>1, <1>2, <1>3, <1>4

(* An operation whose caller has its answer touches the repository no      *)
(* more.                                                                   *)
AnsweredIsOver ==
    \A o \in Ops : result[o] # "pending" => pc[o] \notin Active \cup {"idle"}

(* An operation that has answered is over.                                 *)
LEMMA StepAnswers ==
    ASSUME TypeOK, AnsweredIsOver, NEW o \in Ops, Request(o) \/ Step(o)
    PROVE  result'[o] # "pending" => pc'[o] \notin Active \cup {"idle"}
<1> USE DEF TypeOK, AnsweredIsOver, Active, Admitting, Running
<1>1. CASE Request(o)
    BY <1>1 DEF Request
<1>2. CASE Prepare(o)
    BY <1>2 DEF Prepare
<1>3. CASE PrepareFails(o)
    BY <1>3 DEF PrepareFails
<1>4. CASE OpenLog(o)
    BY <1>4 DEF OpenLog
<1>5. CASE LogFails(o)
    BY <1>5 DEF LogFails
<1>6. CASE Ready(o)
    BY <1>6 DEF Ready
<1>7. CASE ReadyFails(o)
    BY <1>7 DEF ReadyFails, Settle
<1>8. CASE Unlock(o)
    BY <1>8 DEF Unlock
<1>9. CASE UnlockFails(o)
    BY <1>9 DEF UnlockFails, Finish, Settle
<1>10. CASE Begin(o)
    BY <1>10 DEF Begin
<1>11. CASE BeginFails(o)
    BY <1>11 DEF BeginFails, Finish, Settle
<1>12. CASE Work(o)
    BY <1>12 DEF Work, Await, NextCall, Finish, Settle
<1>13. CASE WorkFails(o)
    BY <1>13 DEF WorkFails, Finish, Settle
<1>14. CASE ReadPolicy(o)
    BY <1>14 DEF ReadPolicy, NextCall, Finish, Settle
<1>15. CASE Replace(o)
    BY <1>15 DEF Replace, Await
<1>16. CASE ReplaceFails(o)
    BY <1>16 DEF ReplaceFails, Finish, Settle
<1>17. CASE Reboot(o)
    BY <1>17 DEF Reboot, Finish, Settle
<1>18. CASE Finalize(o)
    BY <1>18 DEF Finalize
<1>19. CASE FinalizeFails(o)
    BY <1>19 DEF FinalizeFails
<1> QED
    BY <1>1, <1>2, <1>3, <1>4, <1>5, <1>6, <1>7, <1>8, <1>9, <1>10, <1>11, <1>12,
       <1>13, <1>14, <1>15, <1>16, <1>17, <1>18, <1>19 DEF Step

(* That stays so in every step.                                            *)
LEMMA NextAnswered == TypeOK /\ AnsweredIsOver /\ [Next]_vars => AnsweredIsOver'
<1> SUFFICES ASSUME TypeOK, AnsweredIsOver, [Next]_vars PROVE AnsweredIsOver'
    OBVIOUS
<1>1. ASSUME NEW o \in Ops, Request(o) \/ Step(o) PROVE AnsweredIsOver'
    BY <1>1, StepAnswers, StepFrame DEF AnsweredIsOver
<1>2. ASSUME NEW s \in Slots, Cancel(s) PROVE AnsweredIsOver'
    BY <1>2 DEF AnsweredIsOver, Cancel
<1>3. ASSUME NEW o \in Ops, Signal(o) PROVE AnsweredIsOver'
    BY <1>3 DEF AnsweredIsOver, Signal
<1>4. CASE Crash
    BY <1>4 DEF TypeOK, AnsweredIsOver, Crash, InFlight, Active, Admitting, Running, Over
<1>5. CASE Restart
    BY <1>5 DEF AnsweredIsOver, Restart
<1>6. CASE UNCHANGED vars
    BY <1>6 DEF AnsweredIsOver, vars
<1> QED
    BY <1>1, <1>2, <1>3, <1>4, <1>5, <1>6 DEF Next

(* And holds in every reachable state.                                     *)
LEMMA Answered == Spec => []AnsweredIsOver
<1>1. Init => AnsweredIsOver
    BY DEF Init, AnsweredIsOver
<1> QED
    BY <1>1, NextAnswered, TypeCorrect, PTL DEF Spec

-----------------------------------------------------------------------------
(* The history, of behaviours that do not restore the database.            *)

(* A row is opened when its operation leaves the log behind, and closed    *)
(* when the operation is: at its end, or by the bootstrap once its process *)
(* is dead.                                                                *)
RowOK(o) ==
    /\ pc[o] \notin {"replacing", "booting"} /\ call[o] # "restoreState"
    /\ pc[o] \in Closing => kind[o] \in Recorded
    /\ pc[o] \in {"idle", "preparing", "logging"} => row[o] = "none"
    /\ pc[o] \in {"announcing", "resolving"} \cup Running \cup Closing /\ kind[o] \in Recorded
           => row[o] = "Incomplete"
    /\ ~up => pc[o] \notin InFlight

(* Where the bootstrap's sweep does not fail, it finds every run that was  *)
(* interrupted; and where finalize does not, it says how a run ended.      *)
EndsOK(o) ==
    /\ "boot" \notin Faults /\ pc[o] = "lost" /\ up => row[o] # "Incomplete"
    /\ pc[o] = "completing" => result[o] = "fulfilled"
    /\ "finalize" \notin Faults /\ pc[o] = "failing" => result[o] = "rejected"
    /\ "finalize" \notin Faults /\ pc[o] = "done" /\ kind[o] \in Recorded
           => row[o] = IF result[o] = "fulfilled" THEN "Complete" ELSE "Failed"

HistoryInv == NoRestore => \A o \in Ops : RowOK(o) /\ EndsOK(o)

(* What a step of an operation does to the rows.                           *)
LEMMA StepRows ==
    ASSUME TypeOK, NoRestore, NEW o \in Ops, RowOK(o), Request(o) \/ Step(o)
    PROVE  \/ row' = row
           \/ pc[o] = "logging" /\ row' = [row EXCEPT ![o] = "Incomplete"]
           \/ /\ pc[o] \in Closing
              /\ row' = [row EXCEPT ![o] = IF pc[o] = "completing" THEN "Complete" ELSE "Failed"]
<1>1. CASE OpenLog(o)
    BY <1>1 DEF OpenLog
<1>2. CASE Finalize(o)
    BY <1>2 DEF Finalize, Record
<1>3. ~Replace(o) /\ ~ReplaceFails(o) /\ ~Reboot(o)
    BY DEF RowOK, Replace, ReplaceFails, Reboot
<1> QED
    BY <1>1, <1>2, <1>3 DEF Step, Request, Prepare, PrepareFails, LogFails, Ready, ReadyFails, Unlock,
       UnlockFails, Begin, BeginFails, Work, WorkFails, ReadPolicy, FinalizeFails

(* An operation leaves its own row as it should be.                        *)
LEMMA StepOwnHistory ==
    ASSUME TypeOK, NoRestore, NEW o \in Ops, RowOK(o), EndsOK(o), up, Request(o) \/ Step(o)
    PROVE  RowOK(o)' /\ EndsOK(o)'
<1> USE DEF TypeOK, RowOK, EndsOK, Running, Closing
<1>0. up' = up /\ kind' = kind /\ kind[o] # "restorePoint" /\ FirstCall(kind[o]) # "restoreState"
    BY StepFrame DEF NoRestore, FirstCall
<1>1. CASE Request(o)
    BY <1>0, <1>1 DEF Request
<1>2. CASE Prepare(o)
    BY <1>0, <1>2 DEF Prepare, StartTask, Recorded
<1>3. CASE PrepareFails(o)
    BY <1>0, <1>3 DEF PrepareFails
<1>4. CASE OpenLog(o)
    BY <1>0, <1>4 DEF OpenLog, StartTask
<1>5. CASE LogFails(o)
    BY <1>0, <1>5 DEF LogFails
<1>6. CASE Ready(o)
    BY <1>0, <1>6 DEF Ready, StartTask
<1>7. CASE ReadyFails(o)
    BY <1>0, <1>7 DEF ReadyFails, Settle
<1>8. CASE Unlock(o)
    BY <1>0, <1>8 DEF Unlock
<1>9. CASE UnlockFails(o)
    BY <1>0, <1>9 DEF UnlockFails, Finish, Settle
<1>10. CASE Begin(o)
    BY <1>0, <1>10 DEF Begin
<1>11. CASE BeginFails(o)
    BY <1>0, <1>11 DEF BeginFails, Finish, Settle
<1>12. CASE Work(o)
    BY <1>0, <1>12 DEF Work, Await, NextCall, Finish, Settle
<1>13. CASE WorkFails(o)
    BY <1>0, <1>13 DEF WorkFails, Finish, Settle
<1>14. CASE ReadPolicy(o)
    BY <1>0, <1>14 DEF ReadPolicy, NextCall, Finish, Settle
<1>15. CASE Finalize(o)
    BY <1>0, <1>15 DEF Finalize, Record
<1>16. CASE FinalizeFails(o)
    BY <1>0, <1>16 DEF FinalizeFails
<1>17. ~Replace(o) /\ ~ReplaceFails(o) /\ ~Reboot(o)
    BY DEF Replace, ReplaceFails, Reboot
<1> QED
    BY <1>1, <1>2, <1>3, <1>4, <1>5, <1>6, <1>7, <1>8, <1>9, <1>10, <1>11, <1>12,
       <1>13, <1>14, <1>15, <1>16, <1>17 DEF Step

(* Nothing steps but the requests when the process is down.                *)
LEMMA StepIsUp ==
    ASSUME TypeOK, NEW o \in Ops, RowOK(o), Request(o) \/ Step(o)
    PROVE  up
BY DEF TypeOK, RowOK, InFlight, Admitting, Running, Closing, Step, Request, Prepare, PrepareFails, OpenLog,
       LogFails, Ready, ReadyFails, Unlock, UnlockFails, Begin, BeginFails, Work, WorkFails, ReadPolicy,
       Replace, ReplaceFails, Reboot, Finalize, FinalizeFails

(* Every step preserves what is known of the history.                      *)
LEMMA NextHistory == TypeOK /\ HistoryInv /\ [Next]_vars => HistoryInv'
<1> SUFFICES ASSUME TypeOK, HistoryInv, [Next]_vars, NoRestore', NEW p \in Ops
             PROVE  RowOK(p)' /\ EndsOK(p)'
    BY DEF HistoryInv
<1>k. kind' = kind
    BY StepFrame DEF Next, Cancel, Signal, Crash, Restart, vars
<1>0. NoRestore /\ RowOK(p) /\ EndsOK(p)
    BY <1>k DEF NoRestore, HistoryInv
<1>1. ASSUME NEW o \in Ops, Request(o) \/ Step(o) PROVE RowOK(p)' /\ EndsOK(p)'
  <2>0. RowOK(o) /\ EndsOK(o) /\ up
      BY <1>0, <1>1, StepIsUp DEF HistoryInv
  <2>1. CASE p = o
      BY <2>0, <2>1, <1>0, <1>1, StepOwnHistory
  <2>2. CASE p # o
    <3>1. row'[p] = row[p]
        BY <2>0, <2>2, <1>0, <1>1, StepRows DEF TypeOK
    <3>2. pc'[p] = pc[p] /\ call'[p] = call[p] /\ result'[p] = result[p] /\ up' = up /\ kind' = kind
        BY <2>2, <1>1, StepFrame
    <3> QED BY <3>1, <3>2, <1>0 DEF RowOK, EndsOK
  <2> QED BY <2>1, <2>2
<1>2. ASSUME NEW s \in Slots, Cancel(s) PROVE RowOK(p)' /\ EndsOK(p)'
    BY <1>0, <1>2 DEF RowOK, EndsOK, Cancel
<1>3. ASSUME NEW o \in Ops, Signal(o) PROVE RowOK(p)' /\ EndsOK(p)'
    BY <1>0, <1>3 DEF RowOK, EndsOK, Signal
<1>4. CASE Crash
    BY <1>0, <1>4 DEF TypeOK, RowOK, EndsOK, Crash, InFlight, Admitting, Running, Closing, Over
<1>5. CASE Restart
    BY <1>0, <1>5 DEF TypeOK, RowOK, EndsOK, Restart, Sweep, InFlight, Admitting, Running, Closing, Statuses
<1>6. CASE UNCHANGED vars
    BY <1>0, <1>6 DEF RowOK, EndsOK, vars
<1> QED
    BY <1>1, <1>2, <1>3, <1>4, <1>5, <1>6 DEF Next

(* That holds in every reachable state.                                    *)
LEMMA HistoryAlways == Spec => []HistoryInv
<1>1. Init => HistoryInv
    BY DEF Init, HistoryInv, RowOK, EndsOK, Running, Closing, InFlight, Admitting
<1> QED
    BY <1>1, NextHistory, TypeCorrect, PTL DEF Spec

(* If the bootstrap's sweep does not fail, a run is Incomplete in the      *)
(* history as long as it may touch its repository, and no longer than      *)
(* until the bootstrap if its process dies.                                *)
THEOREM InterruptedRunsAreFound ==
    ASSUME "boot" \notin Faults
    PROVE  Spec => []InterruptedRunsShow
<1>1. HistoryInv => InterruptedRunsShow
    BY DEF HistoryInv, RowOK, EndsOK, InterruptedRunsShow
<1> QED
    BY <1>1, HistoryAlways, PTL

(* If finalize does not fail, the history and the caller are told the same *)
(* of a run.                                                               *)
THEOREM CallerAndHistoryAgree ==
    ASSUME "finalize" \notin Faults
    PROVE  Spec => []HistoryAgreesWithCaller
<1>1. HistoryInv => HistoryAgreesWithCaller
    BY DEF HistoryInv, EndsOK, HistoryAgreesWithCaller
<1> QED
    BY <1>1, HistoryAlways, PTL

(* Whatever fails, runHistory is a ledger: a run is opened once and closed *)
(* once.                                                                   *)
THEOREM HistoryIsLedger == Spec => ImplementsRunLedger
<1> DEFINE shown == IF NoRestore THEN row ELSE [o \in Ops |-> "none"]
<1>1. Init => Ledger!Init
    BY DEF Init, Ledger!Init
<1>2. ASSUME TypeOK, HistoryInv, [Next]_vars PROVE [Ledger!Next]_shown
  <2>k. kind' = kind
      BY <1>2, StepFrame DEF Next, Cancel, Signal, Crash, Restart, vars
  <2>1. CASE ~NoRestore
      BY <2>1, <2>k DEF NoRestore
  <2>2. CASE NoRestore
    <3>0. shown = row /\ shown' = row' /\ NoRestore'
        BY <2>2, <2>k DEF NoRestore
    <3>1. ASSUME NEW o \in Ops, Request(o) \/ Step(o) PROVE [Ledger!Next]_shown
      <4>0. RowOK(o)
          BY <1>2, <2>2 DEF HistoryInv
      <4>1. CASE row' = row
          BY <4>1, <3>0
      <4>2. CASE pc[o] = "logging" /\ row' = [row EXCEPT ![o] = "Incomplete"]
        <5>1. Ledger!Open(o)
            BY <4>0, <4>2, <3>0 DEF RowOK, Ledger!Open
        <5> QED BY <5>1 DEF Ledger!Next
      <4>3. CASE /\ pc[o] \in Closing
                 /\ row' = [row EXCEPT ![o] = IF pc[o] = "completing" THEN "Complete" ELSE "Failed"]
        <5>1. row[o] = "Incomplete"
            BY <4>0, <4>3 DEF RowOK
        <5>2. Ledger!Close(o)
            BY <5>1, <4>3, <3>0 DEF Ledger!Close
        <5> QED BY <5>2 DEF Ledger!Next
      <4> QED BY <4>0, <4>1, <4>2, <4>3, <3>1, <1>2, <2>2, StepRows
    <3>2. CASE Restart
      <4>1. CASE row' = row
          BY <4>1, <3>0
      <4>2. CASE Sweep
        <5>1. Ledger!CloseAll
            BY <4>2, <3>0 DEF Sweep, Ledger!CloseAll
        <5> QED BY <5>1 DEF Ledger!Next
      <4> QED BY <3>2, <4>1, <4>2 DEF Restart
    <3>3. CASE row' = row
        BY <3>3, <3>0
    <3> QED BY <1>2, <3>1, <3>2, <3>3 DEF Next, Cancel, Signal, Crash, vars
  <2> QED BY <2>1, <2>2
<1> QED
    BY <1>1, <1>2, HistoryAlways, TypeCorrect, PTL DEF Spec, ImplementsRunLedger, Ledger!Spec

-----------------------------------------------------------------------------
(* Requests that do not overlap: the registry and restic's locks together  *)
(* are a mutex per repository, whatever crashes and whichever locks dead   *)
(* processes leave behind, as long as only the operations that make the    *)
(* admission check are requested.                                          *)

(* The argument.  A request is admitted if nobody is in the window before  *)
(* startTask and no entry is registered; as an operation that runs always  *)
(* owns its entry, at most one is between its admission and its endTask.   *)
(* So unlockAll finds only locks of the dead, and until the operation ends *)
(* no lock but its own appears in its repository.                          *)
OnlyGuarded ==
    \A o \in Ops : /\ kind[o] \in Guarded
                   /\ pc[o] \notin {"resolving", "replacing", "booting"}
                   /\ call[o] # "restoreState"

OneActive ==
    \A o, p \in Ops :
        pc[o] \in Active /\ pc[p] \in Active /\ repo[o] = repo[p] => o = p

OwnLockOnly ==
    \A o \in Ops :
        /\ pc[o] = "working" => Lock(o) \in locks
        /\ pc[o] = "working" =>
              \A l \in locks : repo[l.holder] = repo[o] => l = Lock(o)
        /\ pc[o] \in {"calling", "policy"} =>
              \A l \in locks : repo[l.holder] # repo[o]

MutexInv ==
    /\ TypeOK
    /\ NoLeakedTask
    /\ OnlyGuarded
    /\ OneActive
    /\ CancelReachesRunningTask
    /\ OwnLockOnly

-----------------------------------------------------------------------------

(* Operations admitted one after the other take no other steps.            *)
LEMMA SerialIsNext == SerialNext => Next
BY DEF SerialNext, Next, RequestSerial

(* A guarded operation has the slot of its repository.                     *)
LEMMA GuardedSlot ==
    ASSUME OnlyGuarded, NEW o \in Ops
    PROVE  Slot(o) = <<repo[o], "local">>
BY DEF OnlyGuarded, Slot, Guarded

(* What becomes of the operation that moves. *)
LEMMA StepGuarded ==
    ASSUME TypeOK, OnlyGuarded, NEW o \in Ops, Step(o)
    PROVE  /\ pc'[o] \in Active => pc[o] \in Active
           /\ pc'[o] \notin {"resolving", "replacing", "booting"}
           /\ call'[o] # "restoreState"
<1> USE DEF TypeOK, OnlyGuarded, Guarded, Active, Admitting, Running
<1>1. CASE Prepare(o)
    BY <1>1 DEF Prepare, StartTask, FirstCall
<1>2. CASE PrepareFails(o)
    BY <1>2 DEF PrepareFails
<1>3. CASE OpenLog(o)
    BY <1>3 DEF OpenLog, StartTask, FirstCall
<1>4. CASE LogFails(o)
    BY <1>4 DEF LogFails
<1>5. CASE Ready(o)
    BY <1>5 DEF Ready, StartTask, FirstCall
<1>6. CASE ReadyFails(o)
    BY <1>6 DEF ReadyFails, Settle
<1>7. CASE Unlock(o)
    BY <1>7 DEF Unlock
<1>8. CASE UnlockFails(o)
    BY <1>8 DEF UnlockFails, Finish, Settle
<1>9. CASE Begin(o)
    BY <1>9 DEF Begin
<1>10. CASE BeginFails(o)
    BY <1>10 DEF BeginFails, Finish, Settle
<1>11. CASE Work(o)
    BY <1>11 DEF Work, Await, NextCall, Finish, Settle
<1>12. CASE WorkFails(o)
    BY <1>12 DEF WorkFails, Finish, Settle
<1>13. CASE ReadPolicy(o)
    BY <1>13 DEF ReadPolicy, NextCall, Finish, Settle
<1>14. CASE Replace(o) \/ ReplaceFails(o) \/ Reboot(o)
    BY <1>14 DEF Replace, ReplaceFails, Reboot
<1>15. CASE Finalize(o)
    BY <1>15 DEF Finalize
<1>16. CASE FinalizeFails(o)
    BY <1>16 DEF FinalizeFails
<1> QED
    BY <1>1, <1>2, <1>3, <1>4, <1>5, <1>6, <1>7, <1>8, <1>9, <1>10, <1>11, <1>12,
       <1>13, <1>14, <1>15, <1>16 DEF Step

(* What becomes of the locks. *)
LEMMA StepLocks ==
    ASSUME TypeOK, OnlyGuarded, NEW o \in Ops, Step(o)
    PROVE  \/ /\ locks' = locks
              /\ pc'[o] # "working"
              /\ pc'[o] \in {"calling", "policy"} => pc[o] = "policy"
           \/ /\ pc[o] = "unlocking" /\ pc'[o] = "calling"
              /\ locks' = {l \in locks : repo[l.holder] # repo[o]}
           \/ /\ pc[o] = "calling" /\ pc'[o] = "working" /\ call'[o] = call[o]
              /\ locks' = locks \cup {Lock(o)}
           \/ /\ pc[o] = "working" /\ pc'[o] # "working"
              /\ locks' = locks \ {Lock(o)}
<1> USE DEF TypeOK, OnlyGuarded, Guarded
<1>1. CASE Prepare(o)
    BY <1>1 DEF Prepare, StartTask, Unlocking
<1>2. CASE PrepareFails(o)
    BY <1>2 DEF PrepareFails
<1>3. CASE OpenLog(o)
    BY <1>3 DEF OpenLog, StartTask, Unlocking
<1>4. CASE LogFails(o)
    BY <1>4 DEF LogFails
<1>5. CASE Ready(o)
    BY <1>5 DEF Ready, StartTask, Unlocking
<1>6. CASE ReadyFails(o)
    BY <1>6 DEF ReadyFails, Settle
<1>7. CASE Unlock(o)
    BY <1>7 DEF Unlock
<1>8. CASE UnlockFails(o)
    BY <1>8 DEF UnlockFails, Finish, Settle
<1>9. CASE Begin(o)
    BY <1>9 DEF Begin
<1>10. CASE BeginFails(o)
    BY <1>10 DEF BeginFails, Finish, Settle
<1>11. CASE Work(o)
    BY <1>11 DEF Work, Await, NextCall, Finish, Settle
<1>12. CASE WorkFails(o)
    BY <1>12 DEF WorkFails, Finish, Settle
<1>13. CASE ReadPolicy(o)
    BY <1>13 DEF ReadPolicy, NextCall, Finish, Settle
<1>14. CASE Replace(o) \/ ReplaceFails(o) \/ Reboot(o)
    BY <1>14 DEF Replace, ReplaceFails, Reboot
<1>15. CASE Finalize(o)
    BY <1>15 DEF Finalize
<1>16. CASE FinalizeFails(o)
    BY <1>16 DEF FinalizeFails, Closing
<1> QED
    BY <1>1, <1>2, <1>3, <1>4, <1>5, <1>6, <1>7, <1>8, <1>9, <1>10, <1>11, <1>12,
       <1>13, <1>14, <1>15, <1>16 DEF Step

-----------------------------------------------------------------------------
(* A request. *)

(* A request that finds no other task preserves the exclusion.             *)
LEMMA RequestKeepsMutex ==
    ASSUME MutexInv, NEW o \in Ops, RequestSerial(o)
    PROVE  OnlyGuarded' /\ OneActive' /\ CancelReachesRunningTask' /\ OwnLockOnly'
<1>0. Request(o) /\ ~Opening(repo[o])
    BY DEF RequestSerial
<1> USE DEF MutexInv, TypeOK
<1>1. OnlyGuarded'
    BY <1>0 DEF OnlyGuarded, Request
<1>2. OneActive'
    <2>1. SUFFICES ASSUME pc'[o] \in Active, NEW p \in Ops, p # o, pc[p] \in Active,
                          repo[p] = repo[o]
                   PROVE  FALSE
        BY <1>0 DEF OneActive, Request
    <2>2. CanStart(Slot(o))
        BY <1>0, <2>1 DEF Request, OnlyGuarded, Active, Admitting, Running
    <2>3. pc[p] \in Running
        BY <1>0, <2>1 DEF Opening, Active
    <2>4. task[Slot(p)] = p /\ Slot(p) = Slot(o)
        BY <2>1, <2>3, GuardedSlot DEF CancelReachesRunningTask
    <2> QED
        BY <2>2, <2>4, ConstantsAssumption DEF CanStart
<1>3. CancelReachesRunningTask'
    BY <1>0 DEF CancelReachesRunningTask, Request, Running, Slot
<1>4. OwnLockOnly'
    BY <1>0 DEF OwnLockOnly, Request, Lock
<1> QED
    BY <1>1, <1>2, <1>3, <1>4

-----------------------------------------------------------------------------
(* A step of an operation. *)

(* A step of an operation preserves it.                                    *)
LEMMA StepKeepsMutex ==
    ASSUME MutexInv, NEW o \in Ops, Step(o)
    PROVE  OnlyGuarded' /\ OneActive' /\ CancelReachesRunningTask' /\ OwnLockOnly'
<1> USE DEF MutexInv
<1>1. OnlyGuarded'
    BY StepGuarded, StepFrame DEF OnlyGuarded
<1>2. OneActive'
    BY StepGuarded, StepFrame DEF OneActive
<1>3. CancelReachesRunningTask'
    <2> SUFFICES ASSUME NEW p \in Ops, pc'[p] \in Running
                 PROVE  task'[Slot(p)] = p
        BY StepFrame DEF CancelReachesRunningTask, Slot
    <2>1. CASE p = o
        BY <2>1, StepEntry DEF CancelReachesRunningTask
    <2>2. CASE p # o
        <3>1. pc[p] \in Running /\ task[Slot(p)] = p
            BY <2>2, StepFrame DEF CancelReachesRunningTask
        <3>2. CASE Slot(p) = Slot(o)
            <4>1. repo[p] = repo[o]
                BY <3>2, GuardedSlot
            <4>2. pc[o] \notin Active
                BY <4>1, <2>2, <3>1 DEF OneActive, Active
            <4>3. pc'[o] \notin Running /\ pc[o] \notin Running
                BY <4>2, StepGuarded DEF Active
            <4>4. task'[Slot(o)] = task[Slot(o)]
                BY <4>3, StepEntry
            <4> QED
                BY <4>4, <3>1, <3>2
        <3>3. CASE Slot(p) # Slot(o)
            BY <3>1, <3>3, StepFrame, SlotType
        <3> QED
            BY <3>2, <3>3
    <2> QED
        BY <2>1, <2>2
<1>4. OwnLockOnly'
    <2> SUFFICES ASSUME NEW p \in Ops
                 PROVE  /\ pc'[p] = "working" => Lock(p)' \in locks'
                        /\ pc'[p] = "working" =>
                              \A l \in locks' : repo[l.holder] = repo[p] => l = Lock(p)'
                        /\ pc'[p] \in {"calling", "policy"} =>
                              \A l \in locks' : repo[l.holder] # repo[p]
        BY StepFrame DEF OwnLockOnly
    <2>1. CASE p = o
        <3>1. CASE /\ locks' = locks
                   /\ pc'[o] # "working"
                   /\ pc'[o] \in {"calling", "policy"} => pc[o] = "policy"
            BY <2>1, <3>1 DEF OwnLockOnly
        <3>2. CASE /\ pc'[o] = "calling"
                   /\ locks' = {l \in locks : repo[l.holder] # repo[o]}
            BY <2>1, <3>2
        <3>3. CASE /\ pc[o] = "calling" /\ pc'[o] = "working" /\ call'[o] = call[o]
                   /\ locks' = locks \cup {Lock(o)}
            <4>1. Lock(o)' = Lock(o)
                BY <3>3 DEF Lock
            <4> QED
                BY <2>1, <3>3, <4>1 DEF OwnLockOnly
        <3>4. CASE /\ pc[o] = "working" /\ pc'[o] # "working"
                   /\ locks' = locks \ {Lock(o)}
            BY <2>1, <3>4 DEF OwnLockOnly
        <3> QED
            BY <3>1, <3>2, <3>3, <3>4, StepLocks
    <2>2. CASE p # o
        <3>1. pc'[p] = pc[p] /\ Lock(p)' = Lock(p)
            BY <2>2, StepFrame DEF Lock
        <3>2. pc[p] \in Running /\ pc[o] \in Running => repo[o] # repo[p]
            BY <2>2 DEF OneActive, Active
        <3>3. Lock(o) # Lock(p) /\ Lock(o).holder = o
            BY <2>2 DEF Lock
        <3> QED
            BY <3>1, <3>2, <3>3, StepLocks DEF OwnLockOnly, Running, Lock
    <2> QED
        BY <2>1, <2>2
<1> QED
    BY <1>1, <1>2, <1>3, <1>4

-----------------------------------------------------------------------------

(* At first no task is registered.                                         *)
LEMMA InitMutex == Kinds \subseteq Guarded /\ Init => MutexInv
<1> SUFFICES ASSUME Kinds \subseteq Guarded, Init PROVE MutexInv
    OBVIOUS
<1>1. TypeOK
    BY InitType
<1>2. NoLeakedTask /\ OnlyGuarded /\ OneActive /\ CancelReachesRunningTask /\ OwnLockOnly
    BY DEF Init, NoLeakedTask, OnlyGuarded, OneActive, CancelReachesRunningTask,
           OwnLockOnly, Active, Admitting, Running
<1> QED
    BY <1>1, <1>2 DEF MutexInv

(* Every step preserves the exclusion.                                     *)
LEMMA NextMutex == MutexInv /\ [SerialNext]_vars => MutexInv'
<1> SUFFICES ASSUME MutexInv, [SerialNext]_vars PROVE MutexInv'
    OBVIOUS
<1> USE DEF MutexInv
<1>1. TypeOK' /\ NoLeakedTask'
    BY SerialIsNext, NextType, NextNoLeak
<1>2. ASSUME NEW o \in Ops, RequestSerial(o) \/ Step(o)
      PROVE  OnlyGuarded' /\ OneActive' /\ CancelReachesRunningTask' /\ OwnLockOnly'
    BY <1>2, RequestKeepsMutex, StepKeepsMutex
<1>3. CASE Crash
    <2>1. \A o \in Ops : pc'[o] \notin Active /\ pc'[o] \notin {"calling", "working", "policy"}
        BY <1>3 DEF TypeOK, Crash, InFlight, Active, Admitting, Running, Closing, Over
    <2>2. OneActive' /\ CancelReachesRunningTask' /\ OwnLockOnly'
        BY <2>1 DEF OneActive, CancelReachesRunningTask, OwnLockOnly, Active
    <2>3. OnlyGuarded'
        BY <1>3 DEF TypeOK, OnlyGuarded, Crash
    <2> QED
        BY <1>1, <2>2, <2>3
<1>4. CASE Restart \/ (\E s \in Slots : Cancel(s)) \/ (\E o \in Ops : Signal(o)) \/ UNCHANGED vars
    <2>1. UNCHANGED <<pc, kind, repo, call, task, locks>>
        BY <1>4 DEF Restart, Cancel, Signal, vars
    <2>2. OnlyGuarded' /\ OneActive'
        BY <2>1 DEF OnlyGuarded, OneActive
    <2>3. CancelReachesRunningTask' /\ OwnLockOnly'
        BY <2>1 DEF CancelReachesRunningTask, OwnLockOnly, Slot, Lock
    <2> QED
        BY <1>1, <2>2, <2>3
<1> QED
    BY <1>1, <1>2, <1>3, <1>4 DEF SerialNext

(* It holds in every reachable state.                                      *)
LEMMA MutexInvHolds == Kinds \subseteq Guarded /\ SerialSpec => []MutexInv
<1>1. Kinds \subseteq Guarded /\ Init => MutexInv
    BY InitMutex
<1> QED
    BY <1>1, NextMutex, PTL DEF SerialSpec

(* If requests for one repository do not meet in the window before         *)
(* startTask, then among backups, prunes and forgets at most one at a time *)
(* is between its startTask and its endTask on a repository.               *)
THEOREM OneTask == Kinds \subseteq Guarded /\ SerialSpec => []OneTaskPerRepository
<1>1. MutexInv => OneTaskPerRepository
    BY DEF MutexInv, OneActive, OneTaskPerRepository, Active
<1> QED
    BY <1>1, MutexInvHolds, PTL

(* Then, too, the registry's entry is always the operation that runs.      *)
THEOREM CancelReaches ==
    Kinds \subseteq Guarded /\ SerialSpec => []CancelReachesRunningTask
<1>1. MutexInv => CancelReachesRunningTask
    BY DEF MutexInv
<1> QED
    BY <1>1, MutexInvHolds, PTL

(* unlockAll never takes the lock of a restic process that is alive.       *)
THEOREM LiveLocksAreKept == Kinds \subseteq Guarded /\ SerialSpec => []LiveLocksSurvive
<1>1. MutexInv => LiveLocksSurvive
    BY DEF MutexInv, OwnLockOnly, LiveLocksSurvive
<1> QED
    BY <1>1, MutexInvHolds, PTL

(* And an admitted operation never finds its repository locked, whatever   *)
(* locks crashed processes have left in it.                                *)
THEOREM StaleLocksAreRemoved ==
    Kinds \subseteq Guarded /\ SerialSpec => []StaleLocksNeverBlock
<1>1. MutexInv => StaleLocksNeverBlock
    BY DEF MutexInv, OwnLockOnly, StaleLocksNeverBlock, Conflict
<1> QED
    BY <1>1, MutexInvHolds, PTL

-----------------------------------------------------------------------------
(* The refinement. *)

Holder == [r \in Repos |-> task[<<r, "local">>]]
Busy == {o \in Ops : pc[o] = "working"}

(* How a step of an operation looks to the mutex. *)
LEMMA StepOnMutex ==
    ASSUME MutexInv, NEW o \in Ops, RequestSerial(o) \/ Step(o)
    PROVE  Mutex!Next \/ (Holder' = Holder /\ Busy' = Busy)
<1> DEFINE s == Slot(o)
           r == repo[o]
<1> USE DEF MutexInv
<1>0. /\ r \in Repos /\ s = <<r, "local">> /\ s \in Slots
      /\ Request(o) \/ Step(o)
    BY GuardedSlot, SlotType DEF TypeOK, RequestSerial
<1>1. /\ task \in [Slots -> Ops \cup {NoOp}] /\ task' \in [Slots -> Ops \cup {NoOp}]
      /\ \A q \in Repos \ {r} : Holder'[q] = Holder[q]
      /\ Holder[r] = task[s] /\ Holder'[r] = task'[s]
    <2>1. TypeOK'
        BY <1>0, RequestType, StepType
    <2>2. \A q \in Repos \ {r} : <<q, "local">> \in Slots \ {s}
        BY <1>0 DEF Slots
    <2> QED
        BY <1>0, <2>1, <2>2, StepFrame DEF TypeOK, Holder
<1>2. Busy' \ {o} = Busy \ {o}
    BY <1>0, StepFrame DEF Busy
<1>3. o \in Busy <=> pc[o] = "working"
    BY DEF Busy
<1>4. o \in Busy' <=> pc'[o] = "working"
    BY DEF Busy
<1>5. CASE pc'[o] \in Running /\ pc[o] \notin Running /\ task'[s] = o
    <2>1. task[s] = NoOp
        <3>1. SUFFICES ASSUME task[s] # NoOp PROVE FALSE
            OBVIOUS
        <3>2. PICK p \in Ops : p = task[s] /\ pc[p] \in Running /\ Slot(p) = s
            BY <1>0, <1>1, <3>1 DEF NoLeakedTask
        <3>3. repo[p] = repo[o]
            BY <1>0, <3>2, GuardedSlot
        <3>4. Step(o)
            BY <1>0, <1>5 DEF Request, TypeOK, Running
        <3>5. pc[o] \in Active
            BY <1>5, <3>4, StepGuarded DEF Active
        <3> QED
            BY <1>5, <3>2, <3>3, <3>5 DEF OneActive, Active
    <2>2. pc[o] # "working" /\ pc'[o] # "working"
        <3>1. Step(o)
            BY <1>0, <1>5 DEF Request, TypeOK, Running
        <3> QED
            BY <1>5, <3>1, StepLocks DEF Running
    <2>3. Busy' = Busy
        BY <1>2, <1>3, <1>4, <2>2
    <2>4. Holder' = [Holder EXCEPT ![r] = o]
        BY <1>0, <1>1, <1>5 DEF Holder
    <2>5. Mutex!Acquire(r, o)
        BY <1>0, <1>1, <2>1, <2>3, <2>4 DEF Mutex!Acquire, Holder, Busy
    <2> QED
        BY <1>0, <2>5 DEF Mutex!Next
<1>6. CASE /\ pc'[o] \in Running <=> pc[o] \in Running
           /\ task'[s] = task[s]
    <2>1. Holder' = Holder
        BY <1>1, <1>6 DEF Holder
    <2>2. CASE pc[o] = "working" <=> pc'[o] = "working"
        BY <1>2, <1>3, <1>4, <2>1, <2>2
    <2>3. CASE pc[o] # "working" /\ pc'[o] = "working"
        <3>1. Holder[r] = o /\ Busy' = Busy \cup {o}
            BY <1>0, <1>1, <1>2, <1>3, <1>4, <1>6, <2>3
               DEF CancelReachesRunningTask, Running
        <3>2. Mutex!BeginWork(r, o)
            BY <2>1, <3>1 DEF Mutex!BeginWork, Holder, Busy
        <3> QED
            BY <1>0, <3>2 DEF Mutex!Next
    <2>4. CASE pc[o] = "working" /\ pc'[o] # "working"
        <3>1. Holder[r] = o /\ Busy' = Busy \ {o}
            BY <1>0, <1>1, <1>2, <1>3, <1>4, <2>4 DEF CancelReachesRunningTask, Running
        <3>2. Mutex!EndWork(r, o)
            BY <2>1, <3>1 DEF Mutex!EndWork, Holder, Busy
        <3> QED
            BY <1>0, <3>2 DEF Mutex!Next
    <2> QED
        BY <2>2, <2>3, <2>4
<1>7. CASE pc[o] \in Running /\ pc'[o] \notin Running /\ task'[s] = NoOp
    <2>1. Holder[r] = o
        BY <1>0, <1>1, <1>7 DEF CancelReachesRunningTask
    <2>2. Holder' = [Holder EXCEPT ![r] = NoOp]
        BY <1>0, <1>1, <1>7 DEF Holder
    <2>3. Busy' = Busy \ {o}
        BY <1>2, <1>4, <1>7 DEF Running
    <2>4. Mutex!Release(r, o)
        BY <2>1, <2>2, <2>3 DEF Mutex!Release, Holder, Busy
    <2> QED
        BY <1>0, <2>4 DEF Mutex!Next
<1> QED
    BY <1>0, <1>5, <1>6, <1>7, StepEntry

(* The registry with restic's processes implements the mutex.              *)
THEOREM RegistryIsMutex ==
    Kinds \subseteq Guarded /\ SerialSpec => ImplementsRepositoryMutex
<1>1. Init => Mutex!Init
    BY DEF Init, Mutex!Init, Slots
<1>2. MutexInv /\ [SerialNext]_vars => [Mutex!Next]_<<Holder, Busy>>
    <2> SUFFICES ASSUME MutexInv, [SerialNext]_vars
                 PROVE  Mutex!Next \/ (Holder' = Holder /\ Busy' = Busy)
        OBVIOUS
    <2>1. ASSUME NEW o \in Ops, RequestSerial(o) \/ Step(o)
          PROVE  Mutex!Next \/ (Holder' = Holder /\ Busy' = Busy)
        BY <2>1, StepOnMutex
    <2>2. CASE Crash
        <3>1. \A o \in Ops : pc'[o] # "working"
            BY <2>2 DEF MutexInv, TypeOK, Crash, InFlight, Running, Over
        <3>2. Mutex!Reset
            BY <2>2, <3>1 DEF Crash, Mutex!Reset, Mutex!Init, Slots
        <3> QED
            BY <3>2 DEF Mutex!Next
    <2>3. CASE Restart \/ (\E s \in Slots : Cancel(s)) \/ (\E o \in Ops : Signal(o)) \/ UNCHANGED vars
        BY <2>3 DEF Restart, Cancel, Signal, vars, Holder, Busy
    <2> QED
        BY <2>1, <2>2, <2>3 DEF SerialNext
<1> QED
    BY <1>1, <1>2, MutexInvHolds, PTL
       DEF SerialSpec, ImplementsRepositoryMutex, Mutex!Spec, Holder, Busy
=============================================================================
