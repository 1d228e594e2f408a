---------------------------- MODULE RepositoryMutex ----------------------------
(***************************************************************************)
(* What the task registry promises the repositories: a repository has one  *)
(* holder at a time, only the holder of a repository works on it, and no   *)
(* one takes a repository over from a holder that has not let go of it.    *)
(***************************************************************************)
CONSTANTS Ops, Repos, NoOp

VARIABLES holder, \* who holds each repository
          busy    \* the operations that are at work in theirs

Init == holder = [r \in Repos |-> NoOp] /\ busy = {}

Acquire(r, o) ==
    /\ holder[r] = NoOp
    /\ holder' = [holder EXCEPT ![r] = o]
    /\ UNCHANGED busy

BeginWork(r, o) == holder[r] = o /\ busy' = busy \cup {o} /\ UNCHANGED holder

EndWork(r, o) == holder[r] = o /\ busy' = busy \ {o} /\ UNCHANGED holder

(* Letting go ends the work. *)
Release(r, o) ==
    /\ holder[r] = o
    /\ holder' = [holder EXCEPT ![r] = NoOp]
    /\ busy' = busy \ {o}

(* All holders disappear at once. *)
Reset == Init'

Next ==
    \/ \E r \in Repos, o \in Ops :
          Acquire(r, o) \/ BeginWork(r, o) \/ EndWork(r, o) \/ Release(r, o)
    \/ Reset

Spec == Init /\ [][Next]_<<holder, busy>>
=============================================================================
