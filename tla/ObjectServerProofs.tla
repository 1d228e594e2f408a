-------------------------- MODULE ObjectServerProofs --------------------------
(***************************************************************************)
(* michael for any number of requests and keys.  Types; no bad blob stays  *)
(* behind if no call to S3 fails; with write-once tokens the repository is *)
(* a write-once store, whatever fails, as long as the SDK repeats no       *)
(* deletion that had its effect.  The same of michael and restic-api       *)
(* together, and of the readings of both; and of a repository that is made *)
(* write-only, once its old tokens have worn out.                          *)
(***************************************************************************)
EXTENDS ResticApi, RepositoryTokens, TLAPS

USE DEF Store, Call, Answer

(* What a request consists of.                                             *)
LEMMA RequestParts ==
    ASSUME NEW q \in RequestSet
    PROVE  /\ q.op \in {"create", "save", "delete"}
           /\ q.key \in Keys
           /\ q.body \in Bodies \cup {NoObject}
           /\ q.worm \in BOOLEAN
           /\ q.op = "save" => q.body \in Bodies
BY DEF RequestSet, Keys

-----------------------------------------------------------------------------
(* Types. *)

(* A server that was never used is well typed.                             *)
LEMMA UnusedType == bucket \in BOOLEAN /\ Unused => ServerTypeOK
<1> SUFFICES ASSUME bucket \in BOOLEAN, Unused PROVE ServerTypeOK
    OBVIOUS
<1>1. NoRequest \in RequestSet
    BY DEF NoRequest, RequestSet
<1>2. meter \in Int /\ objects \in [Keys -> Bodies \cup {NoObject}]
    BY DEF Unused
<1>3. req \in [Requests -> RequestSet]
    BY <1>1 DEF Unused
<1>4. at \in [Requests -> AtS3 \cup {"idle", "done"}] /\ reply \in [Requests -> Replies]
    BY DEF Unused, Replies
<1> QED
    BY <1>2, <1>3, <1>4 DEF ServerTypeOK

(* michael is well typed at first.                                         *)
LEMMA InitServerType == ServerInit => ServerTypeOK
BY UnusedType DEF ServerInit

(* A step of michael for a request with any token, whoever issued it.      *)
AnyTokenNext ==
    RetryingNext \/ \E r \in Requests, q \in RequestSet : ReceiveRequest(r, q)

(* A step that may be repeated is a step with some token.                  *)
LEMMA ServerStepAnyToken == RetryingNext => AnyTokenNext
BY DEF AnyTokenNext

(* Every step keeps the types, whatever the tokens.                        *)
LEMMA ServerTypeNext ==
    ASSUME ServerTypeOK, [AnyTokenNext]_serverVars
    PROVE  ServerTypeOK'
<1> USE DEF ServerTypeOK, AtS3, Replies
<1>1. ASSUME NEW r \in Requests, NEW q \in RequestSet, ReceiveRequest(r, q)
      PROVE  ServerTypeOK'
    <2>2. req' \in [Requests -> RequestSet] /\ UNCHANGED <<bucket, objects, meter>>
        BY <1>1 DEF ReceiveRequest
    <2>3. /\ at' \in [Requests -> AtS3 \cup {"idle", "done"}]
          /\ reply' \in [Requests -> Replies]
        BY <1>1 DEF ReceiveRequest
    <2> QED
        BY <2>2, <2>3
<1>2. ASSUME NEW r \in Requests, Handle(r)
      PROVE  ServerTypeOK'
    <2>1. req[r].key \in Keys /\ req[r].body \in Bodies \cup {NoObject}
        BY RequestParts
    <2>2. CASE Check(r) \/ Make(r) \/ HeadObject(r)
        BY <2>2 DEF Check, Make, HeadObject
    <2>3. CASE UndoFails(r) \/ PutRefused(r)
        BY <2>3 DEF UndoFails, PutRefused
    <2>4. CASE Put(r)
        BY <2>1, <2>4 DEF Put, Stored
    <2>5. CASE PutFails(r)
        BY <2>1, <2>5 DEF PutFails
    <2>6. CASE Undo(r) \/ Delete(r)
        BY <2>1, <2>6 DEF Undo, Delete
    <2>7. CASE CallFails(r)
        <3>1. bucket' \in BOOLEAN
            BY <2>7 DEF CallFails
        <3>2. objects' \in [Keys -> Bodies \cup {NoObject}]
            BY <2>1, <2>7 DEF CallFails
        <3> QED
            BY <2>7, <3>1, <3>2 DEF CallFails
    <2> QED
        BY <1>2, <2>2, <2>3, <2>4, <2>5, <2>6, <2>7 DEF Handle
<1>3. CASE ServerCrash
    BY <1>3 DEF ServerCrash
<1>4. CASE UNCHANGED serverVars
    BY <1>4 DEF serverVars
<1>5. ASSUME NEW r \in Requests, UndoRetried(r)
      PROVE  ServerTypeOK'
    <2>1. req[r].key \in Keys
        BY RequestParts
    <2> QED
        BY <1>5, <2>1 DEF UndoRetried
<1> QED
    BY <1>1, <1>2, <1>3, <1>4, <1>5 DEF ServerNext, RetryingNext, AnyTokenNext, Receive

(* Every reachable state of the handlers and the bucket is well typed,     *)
(* whatever fails.                                                         *)
THEOREM ServerTypeCorrect == ServerSpec => []ServerTypeOK
<1>1. ServerTypeOK /\ [ServerNext]_serverVars => ServerTypeOK'
    BY ServerTypeNext, ServerStepAnyToken DEF RetryingNext
<1> QED
    BY InitServerType, <1>1, PTL DEF ServerSpec

-----------------------------------------------------------------------------
(* Bad blobs, for any tokens. *)

(* A server that was never used has no bad blob.                           *)
LEMMA NoBadBlobAtFirst == Unused => NoBadBlobStays
BY ServerAssumption DEF Unused, NoBadBlobStays, Named, Keys

(* No step leaves a bad blob behind, if deletions work and the process     *)
(* lives.                                                                  *)
LEMMA NoBadBlobNext ==
    ASSUME ServerTypeOK, NoBadBlobStays, [AnyTokenNext]_serverVars,
           Faults \cap {"s3", "undo", "crash"} = {}
    PROVE  NoBadBlobStays'
<1> USE DEF ServerTypeOK, NoBadBlobStays
<1>0. Named \subseteq Keys /\ Config \notin Named
    BY ServerAssumption DEF Named, Keys, Bodies
<1>1. ASSUME NEW r \in Requests, NEW q \in RequestSet, ReceiveRequest(r, q)
      PROVE  NoBadBlobStays'
    BY <1>1 DEF ReceiveRequest
<1>2. ASSUME NEW r \in Requests, Check(r) \/ Make(r) \/ HeadObject(r) \/ PutRefused(r)
      PROVE  NoBadBlobStays'
    BY <1>2 DEF Check, Make, HeadObject, PutRefused
<1>3. ASSUME NEW r \in Requests, Put(r)
      PROVE  NoBadBlobStays'
    <2>1. req[r].key \in Named => objects[req[r].key] = NoObject
        BY <1>0, <1>3 DEF Put, Conditional
    <2>2. req[r].key \in Named /\ req[r].body # req[r].key => at' = [at EXCEPT ![r] = "undo"]
        BY <1>0, <1>3 DEF Put, Stored, Mismatch
    <2>3. SUFFICES ASSUME NEW k \in Named, objects'[k] \notin {NoObject, k}
                   PROVE  \E s \in Requests : /\ at'[s] = "undo" /\ req'[s].key = k
                                              /\ req'[s].body = objects'[k]
        OBVIOUS
    <2>4. CASE k = req[r].key
        BY <1>0, <1>3, <2>2, <2>3, <2>4 DEF Put
    <2>5. CASE k # req[r].key
        BY <1>0, <1>3, <2>3, <2>5 DEF Put, Stored
    <2> QED
        BY <2>4, <2>5
<1>4. ASSUME NEW r \in Requests, PutFails(r)
      PROVE  NoBadBlobStays'
    BY <1>4 DEF PutFails
<1>5. ASSUME NEW r \in Requests, Undo(r) \/ UndoRetried(r) \/ Delete(r)
      PROVE  NoBadBlobStays'
    BY <1>0, <1>5 DEF Undo, UndoRetried, Delete
<1>6. CASE UNCHANGED serverVars
    BY <1>6 DEF serverVars
<1> QED
    BY <1>1, <1>2, <1>3, <1>4, <1>5, <1>6
    DEF AnyTokenNext, RetryingNext, ServerNext, Receive, Handle, UndoFails, CallFails, ServerCrash

(* PutObject deletes what does not match its name: if no call to S3 fails  *)
(* and the process lives, no such object outlives the request that stored  *)
(* it, for any tokens, however requests for one key meet, and even if the  *)
(* SDK repeats the deletion.                                               *)
THEOREM BadBlobsGo ==
    ASSUME Faults \cap {"s3", "undo", "crash"} = {}
    PROVE  RetryingSpec => []NoBadBlobStays
<1>1. ServerInit => NoBadBlobStays
    BY NoBadBlobAtFirst DEF ServerInit
<1>2. ServerTypeOK /\ [RetryingNext]_serverVars => ServerTypeOK'
    BY ServerTypeNext, ServerStepAnyToken
<1>3. ServerTypeOK /\ NoBadBlobStays /\ [RetryingNext]_serverVars => NoBadBlobStays'
    BY NoBadBlobNext, ServerStepAnyToken
<1> QED
    BY <1>1, <1>2, <1>3, InitServerType, PTL DEF RetryingSpec

-----------------------------------------------------------------------------
(* Write-once tokens. *)

(* Requests that change what is stored carry such a token. *)
WormRequests == \A r \in Requests :
    at[r] # "idle" => req[r].worm \/ req[r].op = "create"

SavesOnly == \A r \in Requests :
    at[r] \in AtS3 => (req[r].op = "save" <=> at[r] \in {"put", "undo"})

(* Deletions that have got past the test of the flag are of locks. *)
LocksOnly == \A r \in Requests : at[r] \in {"head", "delete"} => req[r].key \in LockFiles

(* Only requests that are over are answered, and a save with 200 only if   *)
(* the content matched.                                                    *)
Answered == \A r \in Requests :
    /\ reply[r] # "none" => at[r] = "done"
    /\ reply[r] = "ok" /\ req[r].op = "save" => ~Mismatch(req[r])

WormInv ==
    /\ ServerTypeOK
    /\ WormRequests
    /\ SavesOnly
    /\ LocksOnly
    /\ UndoesItsOwn
    /\ Answered
    /\ AcknowledgedIsStored

(* The invariant of the write-once requests holds at first.                *)
LEMMA InitWorm == ServerInit => WormInv
BY InitServerType DEF ServerInit, Unused, WormInv, WormRequests, SavesOnly, LocksOnly,
    UndoesItsOwn, Answered, AcknowledgedIsStored, AtS3

(* The steps that leave the objects alone, but for the request's place. *)
LEMMA WormQuiet ==
    ASSUME WormInv, NEW r \in Requests, UNCHANGED <<objects, req>>,
           at[r] \in AtS3, ServerTypeOK',
           \/ /\ at' = [at EXCEPT ![r] = "done"]
              /\ \E status \in Replies \ {"ok"} : reply' = [reply EXCEPT ![r] = status]
           \/ /\ at' = [at EXCEPT ![r] = "done"] /\ req[r].op # "save"
              /\ reply' = [reply EXCEPT ![r] = "ok"]
           \/ /\ at[r] = "check" /\ at' = [at EXCEPT ![r] = "make"]
              /\ reply' = reply
           \/ /\ at[r] = "head" /\ at' = [at EXCEPT ![r] = "delete"]
              /\ reply' = reply
    PROVE  WormInv'
<1> USE DEF WormInv, ServerTypeOK
<1>1. WormRequests' /\ SavesOnly' /\ LocksOnly'
    BY DEF WormRequests, SavesOnly, LocksOnly, AtS3
<1>2. UndoesItsOwn'
    BY DEF UndoesItsOwn
<1>3. Answered'
    BY DEF Answered, Mismatch, AtS3
<1>4. \A s \in Requests : req[s].op = "save" /\ reply'[s] = "ok" => reply[s] = "ok"
    OBVIOUS
<1>5. AcknowledgedIsStored'
    BY <1>4 DEF AcknowledgedIsStored
<1> QED
    BY <1>1, <1>2, <1>3, <1>5

(* An object is stored under a key that had none, or deleted. *)
LEMMA WormStore ==
    ASSUME WormInv, NEW r \in Requests, at[r] = "put", ServerTypeOK', Tokens \subseteq {TRUE},
           objects[req[r].key] = NoObject,
           objects' = [objects EXCEPT ![req[r].key] = req[r].body], req' = req,
           \/ /\ Mismatch(req[r]) /\ at' = [at EXCEPT ![r] = "undo"] /\ reply' = reply
           \/ /\ ~Mismatch(req[r]) /\ at' = [at EXCEPT ![r] = "done"]
              /\ reply' = [reply EXCEPT ![r] = "ok"]
           \/ /\ at' = [at EXCEPT ![r] = "done"]
              /\ reply' = [reply EXCEPT ![r] = "error"]
    PROVE  WormInv'
<1> USE DEF WormInv, ServerTypeOK
<1>0. /\ req[r].key \in Keys /\ req[r].op = "save"
      /\ req[r].body \in Bodies /\ req[r].body # NoObject
    BY RequestParts, ServerAssumption DEF SavesOnly
<1>1. WormRequests' /\ SavesOnly' /\ LocksOnly'
    BY <1>0 DEF WormRequests, SavesOnly, LocksOnly, AtS3
<1>2. \A s \in Requests : at[s] = "undo" /\ req[s].key \in Blobs => req[s].key # req[r].key
    BY RequestParts, ServerAssumption DEF UndoesItsOwn, SavesOnly
<1>3. UndoesItsOwn'
    <2>1. Mismatch(req[r]) => req[r].key \in Named /\ req[r].body # req[r].key
        BY <1>0 DEF Mismatch, Keys
    <2>2. \A s \in Requests : req[s].key \in Blobs => req[s].key \in Keys
        BY DEF Keys, Named
    <2> QED
        BY <1>0, <1>2, <2>1, <2>2 DEF UndoesItsOwn
<1>4. \A s \in Requests : /\ req[s].op = "save" /\ reply[s] = "ok"
                          /\ req[s].key \notin LockFiles
                          => req[s].key # req[r].key
    BY RequestParts, ServerAssumption DEF AcknowledgedIsStored
<1>5. Answered'
    <2>1. ~Mismatch(req[r])' <=> ~Mismatch(req[r])
        BY DEF Mismatch
    <2> QED
        BY <2>1 DEF Answered, Mismatch
<1>6. AcknowledgedIsStored'
    <2> SUFFICES ASSUME NEW s \in Requests, req[s].op = "save", reply'[s] = "ok",
                        req[s].key \notin LockFiles
                 PROVE  objects'[req[s].key] = req[s].body
        BY DEF AcknowledgedIsStored
    <2>1. CASE s = r
        BY <1>0, <2>1
    <2>2. CASE s # r
        <3>1. reply[s] = "ok" /\ req[s].key # req[r].key /\ req[s].key \in Keys
            BY <1>4, <2>2, RequestParts
        <3> QED
            BY <3>1 DEF AcknowledgedIsStored
    <2> QED
        BY <2>1, <2>2
<1> QED
    BY <1>1, <1>3, <1>5, <1>6

(* An object is deleted that no one else counts on. *)
LEMMA WormErase ==
    ASSUME WormInv, NEW r \in Requests, at[r] \in {"undo", "delete"}, ServerTypeOK',
           objects' = [objects EXCEPT ![req[r].key] = NoObject], req' = req,
           at' = [at EXCEPT ![r] = "done"],
           \/ \E status \in {"mismatch", "error"} : reply' = [reply EXCEPT ![r] = status]
           \/ /\ at[r] = "delete" /\ req[r].op # "save"
              /\ reply' = [reply EXCEPT ![r] = "ok"]
    PROVE  WormInv'
<1> USE DEF WormInv, ServerTypeOK
<1>1. WormRequests' /\ SavesOnly' /\ LocksOnly' /\ Answered'
    BY DEF WormRequests, SavesOnly, LocksOnly, Answered, Mismatch, AtS3
<1>2. \A s \in Requests \ {r} : at[s] = "undo" /\ req[s].key \in Blobs => req[s].key # req[r].key
    BY ServerAssumption DEF UndoesItsOwn, LocksOnly
<1>3. UndoesItsOwn'
    BY <1>2, RequestParts DEF UndoesItsOwn
<1>4. \A s \in Requests : /\ req[s].op = "save" /\ reply[s] = "ok"
                          /\ req[s].key \notin LockFiles
                          => req[s].key # req[r].key
    <2>1. CASE at[r] = "delete"
        BY <2>1 DEF LocksOnly
    <2>2. CASE at[r] = "undo"
        BY <2>2, ServerAssumption
        DEF AcknowledgedIsStored, UndoesItsOwn, Answered, Mismatch, Named, Bodies
    <2> QED
        BY <2>1, <2>2
<1>5. AcknowledgedIsStored'
    <2> SUFFICES ASSUME NEW s \in Requests, req[s].op = "save", reply'[s] = "ok",
                        req[s].key \notin LockFiles
                 PROVE  objects'[req[s].key] = req[s].body
        BY DEF AcknowledgedIsStored
    <2>1. reply[s] = "ok" /\ req[s].key # req[r].key /\ req[s].key \in Keys
        BY <1>4, RequestParts
    <2> QED
        BY <2>1 DEF AcknowledgedIsStored
<1> QED
    BY <1>1, <1>3, <1>5

(* It is preserved by every step of michael with write-once tokens.        *)
LEMMA WormNext ==
    ASSUME WormInv, [ServerNext]_serverVars, Tokens \subseteq {TRUE}
    PROVE  WormInv'
<1>0. ServerTypeOK'
    BY ServerTypeNext, ServerStepAnyToken DEF WormInv, RetryingNext
<1>1. ASSUME NEW r \in Requests, Receive(r)
      PROVE  WormInv'
    <2>1. PICK q \in RequestSet : q.worm \in Tokens /\ ReceiveRequest(r, q)
        BY <1>1 DEF Receive
    <2> USE <2>1, <1>0 DEF WormInv, ServerTypeOK
    <2>2. /\ at[r] = "idle" /\ q.worm /\ reply[r] = "none"
          /\ req' = [req EXCEPT ![r] = q] /\ objects' = objects
        BY DEF ReceiveRequest, Answered
    <2>3. \/ at' = [at EXCEPT ![r] = "check"] /\ reply' = reply /\ q.op = "create"
          \/ at' = [at EXCEPT ![r] = "put"] /\ reply' = reply /\ q.op = "save"
          \/ /\ at' = [at EXCEPT ![r] = "head"] /\ reply' = reply
             /\ q.op = "delete" /\ q.key \in LockFiles
          \/ at' = [at EXCEPT ![r] = "done"] /\ reply' = [reply EXCEPT ![r] = "forbidden"]
        BY <2>2 DEF ReceiveRequest, Protected
    <2>4. WormRequests' /\ SavesOnly' /\ LocksOnly'
        BY <2>2, <2>3 DEF WormRequests, SavesOnly, LocksOnly, AtS3
    <2>5. UndoesItsOwn'
        BY <2>2, <2>3 DEF UndoesItsOwn
    <2>6. Answered' /\ AcknowledgedIsStored'
        <3>1. \A s \in Requests : reply'[s] \notin {"none", "forbidden"} =>
                                     s # r /\ reply'[s] = reply[s] /\ req'[s] = req[s]
            BY <2>2, <2>3
        <3>2. \A s \in Requests : reply'[s] # "none" => at'[s] = "done"
            BY <2>2, <2>3 DEF Answered
        <3> QED
            BY <2>2, <3>1, <3>2 DEF Answered, AcknowledgedIsStored, Mismatch
    <2> QED
        BY <2>4, <2>5, <2>6
<1>2. ASSUME NEW r \in Requests, Handle(r)
      PROVE  WormInv'
    <2> USE <1>0
    <2>0. at[r] \in AtS3 => (req[r].op = "save" <=> at[r] \in {"put", "undo"})
        BY DEF WormInv, SavesOnly
    <2>1. CASE Check(r) \/ Make(r) \/ HeadObject(r)
        BY <2>0, <2>1, WormQuiet DEF Check, Make, HeadObject, AtS3, Replies
    <2>2. CASE PutRefused(r) \/ UndoFails(r)
        BY <2>2, WormQuiet DEF PutRefused, UndoFails, AtS3, Replies
    <2>3. CASE (Put(r) \/ PutFails(r)) /\ objects' # objects
        <3>1. Conditional(req[r])
            BY <2>3 DEF Put, PutFails, Conditional, WormInv, WormRequests, SavesOnly, AtS3
        <3>2. CASE Put(r)
            BY <3>1, <3>2, WormStore DEF Put, Stored
        <3>3. CASE PutFails(r)
            BY <2>3, <3>1, <3>3, WormStore DEF PutFails
        <3> QED
            BY <2>3, <3>2, <3>3
    <2>4. CASE Put(r) /\ objects' = objects
        <3>1. req[r].key \in Keys /\ req[r].op = "save" /\ req[r].body \in Bodies
            BY <2>4, RequestParts DEF Put, WormInv, ServerTypeOK, SavesOnly, AtS3
        <3>2. Conditional(req[r])
            BY <2>4 DEF Put, Conditional, WormInv, WormRequests, SavesOnly, AtS3
        <3> QED
            BY <2>4, <3>1, <3>2, ServerAssumption DEF Put, WormInv, ServerTypeOK
    <2>5. CASE PutFails(r) /\ objects' = objects
        BY <2>5, WormQuiet DEF PutFails, AtS3, Replies
    <2>6. CASE Undo(r)
        BY <2>6, WormErase DEF Undo, Replies
    <2>7. CASE Delete(r)
        BY <2>0, <2>7, WormErase DEF Delete, Replies, AtS3
    <2>8. CASE CallFails(r) /\ objects' = objects
        BY <2>8, WormQuiet DEF CallFails, AtS3, Replies
    <2>9. CASE CallFails(r) /\ objects' # objects
        BY <2>9, WormErase DEF CallFails, Replies
    <2> QED
        BY <1>2, <2>1, <2>2, <2>3, <2>4, <2>5, <2>6, <2>7, <2>8, <2>9
        DEF Handle
<1>3. CASE ServerCrash
    <2> USE <1>0, <1>3 DEF WormInv, ServerTypeOK, ServerCrash
    <2>1. WormRequests' /\ SavesOnly' /\ LocksOnly' /\ UndoesItsOwn'
        BY DEF WormRequests, SavesOnly, LocksOnly, UndoesItsOwn, AtS3
    <2>2. Answered' /\ AcknowledgedIsStored'
        BY DEF Answered, AcknowledgedIsStored, Mismatch
    <2> QED
        BY <2>1, <2>2
<1>4. CASE UNCHANGED serverVars
    <2> USE <1>0, <1>4 DEF WormInv, ServerTypeOK, serverVars
    <2>1. WormRequests' /\ SavesOnly' /\ LocksOnly' /\ UndoesItsOwn'
        BY DEF WormRequests, SavesOnly, LocksOnly, UndoesItsOwn, AtS3
    <2>2. Answered' /\ AcknowledgedIsStored'
        BY DEF Answered, AcknowledgedIsStored, Mismatch
    <2> QED
        BY <2>1, <2>2
<1> QED
    BY <1>1, <1>2, <1>3, <1>4 DEF ServerNext

(* With write-once tokens, a save answered with 200 is kept for good: no   *)
(* upload, deletion, failure or crash takes it away.  (The SDK is taken    *)
(* not to repeat a deletion that had its effect.)                          *)
THEOREM AcknowledgedIsKept ==
    ASSUME Tokens \subseteq {TRUE}
    PROVE  ServerSpec => []AcknowledgedIsStored
<1>1. WormInv /\ [ServerNext]_serverVars => WormInv'
    BY WormNext
<1>2. WormInv => AcknowledgedIsStored
    BY DEF WormInv
<1> QED
    BY InitWorm, <1>1, <1>2, PTL DEF ServerSpec

-----------------------------------------------------------------------------
(* The write-once store. *)

(* To store an object where none is, is a write of the write-once store.   *)
LEMMA StoreIsWrite ==
    ASSUME ServerTypeOK, NEW k \in Keys, NEW b \in Bodies, objects[k] = NoObject,
           objects' = [objects EXCEPT ![k] = b]
    PROVE  [Repository!Next]_Kept
<1>1. Kept[k] = NoObject
    BY DEF Kept
<1>2. CASE k # Config /\ b # k
    <2>1. Kept' = Kept
        BY <1>2 DEF Kept, ServerTypeOK
    <2> QED
        BY <2>1
<1>3. CASE k = Config \/ b = k
    <2>1. Kept' = [Kept EXCEPT ![k] = b]
        BY <1>3 DEF Kept, ServerTypeOK
    <2>2. Repository!Write(k, b)
        BY <1>1, <2>1 DEF Repository!Write
    <2> QED
        BY <2>2 DEF Repository!Next
<1> QED
    BY <1>2, <1>3

(* To remove a lock, or a blob that does not match its name, changes       *)
(* nothing of what the write-once store keeps.                             *)
LEMMA EraseIsClear ==
    ASSUME ServerTypeOK, NEW k \in Keys,
           k \in LockFiles \/ (k \in Blobs /\ objects[k] # k),
           objects' = [objects EXCEPT ![k] = NoObject]
    PROVE  [Repository!Next]_Kept
<1>1. Kept' = [Kept EXCEPT ![k] = NoObject]
    BY DEF Kept, ServerTypeOK
<1>2. CASE k \in LockFiles
    BY <1>1, <1>2 DEF Repository!Next, Repository!Clear
<1>3. CASE k \in Blobs /\ objects[k] # k
    <2>1. Kept[k] = NoObject
        BY <1>3, ServerAssumption DEF Kept, Bodies, Named
    <2>2. Kept' = Kept
        BY <1>1, <2>1 DEF Kept
    <2> QED
        BY <2>2
<1> QED
    BY <1>2, <1>3

(* Every step of michael is one of the write-once store, or none.          *)
LEMMA StepIsStoreStep ==
    ASSUME WormInv, [ServerNext]_serverVars, Tokens \subseteq {TRUE}
    PROVE  [Repository!Next]_Kept
<1>1. CASE UNCHANGED objects
    BY <1>1 DEF Kept
<1>2. CASE objects' # objects
    <2>1. PICK r \in Requests : Put(r) \/ PutFails(r) \/ Undo(r) \/ Delete(r) \/ CallFails(r)
        BY <1>2 DEF ServerNext, Receive, ReceiveRequest, Handle, Check, Make, HeadObject,
                    PutRefused, UndoFails, ServerCrash, serverVars
    <2>2. req[r].key \in Keys
        BY RequestParts DEF WormInv, ServerTypeOK
    <2>3. CASE Put(r) \/ PutFails(r)
        <3>1. req[r].op = "save" /\ req[r].body \in Bodies /\ Conditional(req[r])
            BY <2>3, RequestParts DEF Put, PutFails, Conditional, WormInv, ServerTypeOK,
                                      WormRequests, SavesOnly, AtS3
        <3>2. /\ objects[req[r].key] = NoObject
              /\ objects' = [objects EXCEPT ![req[r].key] = req[r].body]
            BY <1>2, <2>3, <3>1 DEF Put, PutFails
        <3> QED
            BY <2>2, <3>1, <3>2, StoreIsWrite DEF WormInv
    <2>4. CASE Undo(r) \/ Delete(r) \/ CallFails(r)
        <3>1. objects' = [objects EXCEPT ![req[r].key] = NoObject]
            BY <1>2, <2>4 DEF Undo, Delete, CallFails
        <3>2. at[r] \in {"undo", "delete"}
            BY <1>2, <2>4 DEF Undo, Delete, CallFails
        <3>3. \/ req[r].key \in LockFiles
              \/ req[r].key \in Blobs /\ objects[req[r].key] # req[r].key
            BY <3>2 DEF WormInv, UndoesItsOwn, LocksOnly, Named
        <3> QED
            BY <2>2, <3>1, <3>3, EraseIsClear DEF WormInv
    <2> QED
        BY <2>1, <2>3, <2>4
<1> QED
    BY <1>1, <1>2

(* With write-once tokens, and under the same assumption, the repository   *)
(* is a write-once store of the configuration and of the blobs with the    *)
(* right content.                                                          *)
THEOREM ServerIsWriteOnce ==
    ASSUME Tokens \subseteq {TRUE}
    PROVE  ServerSpec => ImplementsWriteOnceStore
<1>1. ServerInit => Repository!Init
    BY DEF ServerInit, Unused, Repository!Init, Kept
<1>2. WormInv /\ [ServerNext]_serverVars => WormInv'
    BY WormNext
<1>3. WormInv /\ [ServerNext]_serverVars => [Repository!Next]_Kept
    BY StepIsStoreStep
<1> QED
    BY InitWorm, <1>1, <1>2, <1>3, PTL
    DEF ServerSpec, ImplementsWriteOnceStore, Repository!Spec

-----------------------------------------------------------------------------
(* With write-once tokens, for any number of requests to either server,    *)
(* blobs and contents: what one of the servers acknowledged is kept, both  *)
(* together are a write-once store, and the reading operations of both     *)
(* tell of it.                                                             *)

(* Steps. *)

(* The steps of restic-api that are not michael's too.                     *)
ApiOwn(r) ==
    \/ ApiPut(r) \/ ApiUndo(r) \/ ApiHead(r) \/ ApiDelete(r)
    \/ at[r] = "put" /\ Answer(r, "mismatch") /\ UNCHANGED <<bucket, objects, meter, req>>

(* A step of the two servers is michael's, restic-api's own, or the death  *)
(* of one of them.                                                         *)
LEMMA StepKinds ==
    ASSUME [StoreNext]_storeVars
    PROVE  \/ [ServerNext]_serverVars
           \/ \E r \in Requests : ApiOwn(r)
           \/ Crash(OldRequests) \/ Crash(Requests \ OldRequests)
<1>1. OldRequests \subseteq Requests
    BY ReadersAssumption
<1>2. ASSUME NEW r \in Requests \ OldRequests, Michael(r) PROVE ServerNext
    BY <1>2 DEF Michael, ServerNext
<1>3. ASSUME NEW r \in OldRequests, ApiReceive(r) \/ ApiHandle(r) PROVE ServerNext \/ ApiOwn(r)
    BY <1>1, <1>3 DEF ApiReceive, ApiHandle, ApiCreate, ApiPutFails, ApiCallFails, ApiOwn, ServerNext, Handle
<1>4. ASSUME NEW d \in Readers, Reading(d) PROVE UNCHANGED serverVars
    BY <1>4 DEF Reading, ReceiveRead, ReadOne, List, ReadFails, AnswerRead
<1>5. CASE UNCHANGED storeVars
    BY <1>5 DEF storeVars
<1> QED
    BY <1>1, <1>2, <1>3, <1>4, <1>5 DEF StoreNext

-----------------------------------------------------------------------------
(* The stored objects. *)

(* The steps that only restic-api has keep the types.                      *)
LEMMA ApiType ==
    ASSUME ServerTypeOK, NEW r \in Requests, ApiOwn(r)
    PROVE  ServerTypeOK'
<1>1. req[r].key \in Keys /\ (req[r].op = "save" => req[r].body \in Bodies) /\ req[r].body \in Bodies \cup {NoObject}
    BY RequestParts DEF ServerTypeOK
<1>2. at' \in [Requests -> AtS3 \cup {"idle", "done"}] /\ reply' \in [Requests -> Replies]
    BY DEF ServerTypeOK, ApiOwn, ApiPut, ApiUndo, ApiHead, ApiDelete, AtS3, Replies
<1>3. objects' \in [Keys -> Bodies \cup {NoObject}]
    BY <1>1 DEF ServerTypeOK, ApiOwn, ApiPut, ApiUndo, ApiHead, ApiDelete
<1> QED
    BY <1>2, <1>3 DEF ServerTypeOK, ApiOwn, ApiPut, ApiUndo, ApiHead, ApiDelete

(* The death of a process keeps the types.                                 *)
LEMMA CrashType ==
    ASSUME ServerTypeOK, NEW dying, Crash(dying)
    PROVE  ServerTypeOK'
<1>1. at' \in [Requests -> AtS3 \cup {"idle", "done"}]
    BY DEF ServerTypeOK, Crash
<1>2. meter' = meter \/ meter' = 0
    BY DEF Crash
<1>3. meter' \in Int
    BY <1>2 DEF ServerTypeOK
<1> QED
    BY <1>1, <1>3 DEF ServerTypeOK, Crash

(* restic-api's own steps preserve the invariant of the write-once         *)
(* requests.                                                               *)
LEMMA ApiWorm ==
    ASSUME WormInv, NEW r \in Requests, ApiOwn(r), Tokens \subseteq {TRUE}
    PROVE  WormInv'
<1>0. ServerTypeOK'
    BY ApiType DEF WormInv
<1>1. at[r] \in AtS3 => (req[r].op = "save" <=> at[r] \in {"put", "undo"})
    BY DEF WormInv, SavesOnly
<1>2. CASE ApiPut(r)
    <2>1. Conditional(req[r])
        BY <1>2 DEF ApiPut, Conditional, WormInv, WormRequests, SavesOnly, AtS3
    <2>2. CASE objects[req[r].key] # NoObject
        BY <1>0, <1>2, <2>1, <2>2, WormQuiet DEF ApiPut, AtS3, Replies
    <2>3. CASE objects[req[r].key] = NoObject
        BY <1>0, <1>2, <2>3, WormStore DEF ApiPut
    <2> QED
        BY <2>2, <2>3
<1>3. CASE ApiUndo(r) /\ objects' = objects
    BY <1>0, <1>3, WormQuiet DEF ApiUndo, AtS3, Replies
<1>4. CASE ApiUndo(r) /\ objects' # objects
    BY <1>0, <1>4, WormErase DEF ApiUndo
<1>5. CASE ApiHead(r)
    BY <1>0, <1>5, WormQuiet DEF ApiHead, AtS3, Replies
<1>6. CASE ApiDelete(r)
    BY <1>0, <1>1, <1>6, WormErase DEF ApiDelete, AtS3
<1>7. CASE at[r] = "put" /\ Answer(r, "mismatch") /\ UNCHANGED <<bucket, objects, meter, req>>
    BY <1>0, <1>7, WormQuiet DEF AtS3, Replies
<1> QED
    BY <1>2, <1>3, <1>4, <1>5, <1>6, <1>7 DEF ApiOwn

(* So does the death of either process.                                    *)
LEMMA CrashWorm ==
    ASSUME WormInv, NEW dying, Crash(dying)
    PROVE  WormInv'
<1> USE CrashType DEF WormInv, ServerTypeOK, Crash
<1>1. WormRequests' /\ SavesOnly' /\ LocksOnly' /\ UndoesItsOwn'
    BY DEF WormRequests, SavesOnly, LocksOnly, UndoesItsOwn, AtS3
<1>2. Answered' /\ AcknowledgedIsStored'
    BY DEF Answered, AcknowledgedIsStored, Mismatch
<1> QED
    BY <1>1, <1>2

(* So does every step of the two servers.                                  *)
LEMMA StoreWorm ==
    ASSUME WormInv, [StoreNext]_storeVars, Tokens \subseteq {TRUE}
    PROVE  WormInv'
BY StepKinds, WormNext, ApiWorm, CrashWorm

(* restic-api's own steps are steps of the write-once store, or none.      *)
LEMMA ApiStore ==
    ASSUME WormInv, NEW r \in Requests, ApiOwn(r), Tokens \subseteq {TRUE}
    PROVE  [Repository!Next]_Kept
<1>1. CASE UNCHANGED objects
    BY <1>1 DEF Kept
<1>2. CASE objects' # objects
    <2>1. req[r].key \in Keys
        BY RequestParts DEF WormInv, ServerTypeOK
    <2>2. CASE ApiPut(r)
        <3>1. req[r].body \in Bodies /\ Conditional(req[r])
            BY <2>2, RequestParts DEF ApiPut, Conditional, WormInv, ServerTypeOK, WormRequests, SavesOnly, AtS3
        <3>2. /\ objects[req[r].key] = NoObject
              /\ objects' = [objects EXCEPT ![req[r].key] = req[r].body]
            BY <1>2, <2>2, <3>1 DEF ApiPut
        <3> QED
            BY <2>1, <3>1, <3>2, StoreIsWrite DEF WormInv
    <2>3. CASE ApiUndo(r) \/ ApiDelete(r)
        <3>1. objects' = [objects EXCEPT ![req[r].key] = NoObject] /\ at[r] \in {"undo", "delete"}
            BY <1>2, <2>3 DEF ApiUndo, ApiDelete
        <3>2. req[r].key \in LockFiles \/ (req[r].key \in Blobs /\ objects[req[r].key] # req[r].key)
            BY <3>1 DEF WormInv, UndoesItsOwn, LocksOnly, Named
        <3> QED
            BY <2>1, <3>1, <3>2, EraseIsClear DEF WormInv
    <2> QED
        BY <1>2, <2>2, <2>3 DEF ApiOwn, ApiHead
<1> QED
    BY <1>1, <1>2

(* So is every step of the two servers.                                    *)
LEMMA StoreStep ==
    ASSUME WormInv, [StoreNext]_storeVars, Tokens \subseteq {TRUE}
    PROVE  [Repository!Next]_Kept
<1>1. ASSUME NEW dying, Crash(dying) PROVE [Repository!Next]_Kept
    BY <1>1 DEF Crash, Kept
<1> QED
    BY <1>1, StepKinds, StepIsStoreStep, ApiStore

(* With write-once tokens, a save that either server answered with 200 is  *)
(* kept, through any steps of both.                                        *)
THEOREM AcknowledgedByEither ==
    ASSUME Tokens \subseteq {TRUE}
    PROVE  StoreSpec => []AcknowledgedIsStored
<1>1. StoreInit => WormInv
    BY InitWorm DEF StoreInit
<1>2. WormInv /\ [StoreNext]_storeVars => WormInv'
    BY StoreWorm
<1>3. WormInv => AcknowledgedIsStored
    BY DEF WormInv
<1> QED
    BY <1>1, <1>2, <1>3, PTL DEF StoreSpec

(* With write-once tokens, both servers together are a write-once store.   *)
THEOREM BothAreWriteOnce ==
    ASSUME Tokens \subseteq {TRUE}
    PROVE  StoreSpec => ImplementsWriteOnceStore
<1>1. StoreInit => WormInv /\ Repository!Init
    BY InitWorm DEF StoreInit, ServerInit, Unused, Repository!Init, Kept
<1>2. WormInv /\ [StoreNext]_storeVars => WormInv'
    BY StoreWorm
<1>3. WormInv /\ [StoreNext]_storeVars => [Repository!Next]_Kept
    BY StoreStep
<1> QED
    BY <1>1, <1>2, <1>3, PTL DEF StoreSpec, ImplementsWriteOnceStore, Repository!Spec

-----------------------------------------------------------------------------
(* The reading operations. *)

Sound(x) == x.due \subseteq x.keys /\ (x.stage = "done" => Honest(x))

ReadsInv ==
    /\ WormInv
    /\ stored \in Int /\ read \in [Readers -> ReadSet]
    /\ \A d \in Readers : read[d].due \subseteq Acknowledged /\ Sound(read[d])

(* Once stored and acknowledged, always so.                                *)
LEMMA AcknowledgedStays ==
    ASSUME WormInv, WormInv', [StoreNext]_storeVars
    PROVE  Acknowledged \subseteq Acknowledged'
<1>1. ASSUME NEW r \in Requests, reply[r] = "ok" PROVE reply'[r] = "ok" /\ req'[r] = req[r]
    <2>1. at[r] = "done"
        BY <1>1 DEF WormInv, Answered
    <2>2. CASE [ServerNext]_serverVars
        <3>1. ASSUME NEW s \in Requests, Receive(s) PROVE reply'[r] = reply[r] /\ req'[r] = req[r]
            BY <2>1, <3>1 DEF Receive, ReceiveRequest, WormInv, ServerTypeOK
        <3>2. ASSUME NEW s \in Requests, Handle(s) PROVE reply'[r] = reply[r] /\ req' = req
            <4>1. at[s] \in AtS3
                BY <3>2 DEF Handle, Check, Make, PutRefused, Put, PutFails, Undo, UndoFails, HeadObject, Delete,
                            CallFails, AtS3
            <4>2. req' = req /\ (reply' = reply \/ \E status : reply' = [reply EXCEPT ![s] = status])
                BY <3>2 DEF Handle, Check, Make, PutRefused, Put, Stored, PutFails, Undo, UndoFails, HeadObject,
                            Delete, CallFails
            <4> QED
                BY <2>1, <4>1, <4>2 DEF AtS3, WormInv, ServerTypeOK
        <3> QED
            BY <1>1, <2>2, <3>1, <3>2 DEF ServerNext, ServerCrash, serverVars
    <2>3. CASE \E s \in Requests : ApiOwn(s)
        BY <1>1, <2>1, <2>3 DEF ApiOwn, ApiPut, ApiUndo, ApiHead, ApiDelete, WormInv, ServerTypeOK
    <2>4. CASE \E dying : Crash(dying)
        BY <1>1, <2>4 DEF Crash
    <2> QED
        BY <2>2, <2>3, <2>4, StepKinds
<1> QED
    BY <1>1 DEF Acknowledged

(* What was acknowledged can be read.                                      *)
LEMMA AcknowledgedIsThere ==
    ASSUME WormInv, NEW k \in Acknowledged
    PROVE  objects[k] # NoObject
<1>1. PICK r \in Requests : req[r].op = "save" /\ reply[r] = "ok" /\ req[r].key = k /\ k \notin LockFiles
    BY DEF Acknowledged
<1>2. req[r].body \in Bodies /\ objects[k] = req[r].body
    BY <1>1, RequestParts DEF WormInv, ServerTypeOK, AcknowledgedIsStored
<1> QED
    BY <1>2, ServerAssumption

(* What a reading request must show is there when it looks.                *)
LEMMA DueIsPresent ==
    ASSUME ReadsInv, NEW d \in Readers
    PROVE  read[d].due \subseteq Present(d)
BY AcknowledgedIsThere DEF ReadsInv, Sound, Present

(* The answer to a reading request, of which nothing else is remembered.   *)
LEMMA AnswerSound ==
    ASSUME ReadsInv, NEW d \in Readers, NEW status \in {"ok", "missing", "error", "malformed"},
           NEW got \in SUBSET Keys, NEW lost \in BOOLEAN, AnswerRead(d, status, got, lost),
           ~lost => \/ read[d].due \subseteq got
                    \/ status = "ok" /\ read[d].how = "list" /\ Cardinality(got) = Page
                    \/ status = "malformed"
    PROVE  \E x \in ReadSet : x.due = read[d].due /\ Sound(x) /\ read' = [read EXCEPT ![d] = x]
<1> DEFINE x == [read[d] EXCEPT !.stage = "done", !.answer = status, !.got = got, !.lost = lost]
<1>1. read[d] \in ReadSet
    BY DEF ReadsInv
<1>2. /\ x \in ReadSet /\ x.stage = "done" /\ x.answer = status /\ x.got = got /\ x.lost = lost
      /\ x.due = read[d].due /\ x.how = read[d].how /\ x.keys = read[d].keys
    BY <1>1 DEF ReadSet
<1>3. read' = [read EXCEPT ![d] = x]
    BY DEF AnswerRead
<1> HIDE DEF x
<1>4. Sound(x)
    BY <1>2 DEF Sound, Honest, ReadsInv
<1> QED
    BY <1>2, <1>3, <1>4

(* A step of a reading request leaves it owing what was acknowledged when  *)
(* it began, and its answer honest.                                        *)
LEMMA ReadingSound ==
    ASSUME ReadsInv, NEW d \in Readers, Reading(d)
    PROVE  \E x \in ReadSet : /\ x.due \subseteq Acknowledged \/ x.due = read[d].due
                              /\ Sound(x) /\ read' = [read EXCEPT ![d] = x]
<1>1. read[d].keys \in SUBSET Keys /\ Present(d) \in SUBSET Keys /\ read[d].due \subseteq read[d].keys
    BY DEF ReadsInv, ReadSet, Present, Sound
<1>2. ASSUME NEW api \in BOOLEAN, NEW how \in {"head", "get", "list"},
             NEW keys \in {{k} : k \in Keys} \cup {Blobs, LockFiles}, ReceiveRead(d, api, how, keys)
      PROVE  \E x \in ReadSet : x.due \subseteq Acknowledged /\ Sound(x) /\ read' = [read EXCEPT ![d] = x]
    <2> DEFINE x == [NoRead EXCEPT !.stage = "asked", !.api = api, !.how = how, !.keys = keys,
                                   !.due = Acknowledged \cap keys]
    <2>1. keys \subseteq Keys
        BY DEF Keys, Named
    <2>2. x \in ReadSet /\ x.stage = "asked" /\ x.keys = keys /\ x.due = Acknowledged \cap keys
        BY <2>1 DEF ReadSet, NoRead
    <2>3. read' = [read EXCEPT ![d] = x]
        BY <1>2 DEF ReceiveRead
    <2> HIDE DEF x
    <2> QED
        BY <2>2, <2>3 DEF Sound
<1>3. CASE ReadFails(d)
    BY <1>3, AnswerSound DEF ReadFails, Missing
<1>4. CASE ReadOne(d)
    <2>1. CASE Present(d) = {}
        BY <1>4, <2>1, AnswerSound, DueIsPresent DEF ReadOne, Missing
    <2>2. CASE Present(d) # {}
        BY <1>1, <1>4, <2>2, AnswerSound DEF ReadOne
    <2> QED
        BY <2>1, <2>2
<1>5. CASE List(d)
    <2>1. PICK page \in FirstPage(d) :
             \/ AnswerRead(d, "malformed", {}, FALSE)
             \/ AnswerRead(d, "ok", page, FALSE)
        BY <1>5 DEF List
    <2>2. page \in SUBSET Keys /\ (page = Present(d) \/ Cardinality(page) = Page) /\ read[d].how = "list"
        BY <1>1, <1>5, <2>1 DEF FirstPage, List
    <2>3. CASE AnswerRead(d, "malformed", {}, FALSE)
        BY <2>3, AnswerSound
    <2>4. CASE AnswerRead(d, "ok", page, FALSE)
        BY <2>2, <2>4, AnswerSound, DueIsPresent
    <2> QED
        BY <2>1, <2>3, <2>4
<1> QED
    BY <1>2, <1>3, <1>4, <1>5 DEF Reading

(* The death of a process ends reading requests without an answer.         *)
LEMMA CrashedReads ==
    ASSUME ReadsInv, NEW dying, Crash(dying)
    PROVE  read' \in [Readers -> ReadSet] /\ \A d \in Readers : read'[d].due = read[d].due /\ Sound(read'[d])
<1>1. ASSUME NEW d \in Readers
      PROVE  LET x == [read[d] EXCEPT !.stage = "done", !.lost = TRUE]
             IN  x \in ReadSet /\ x.due = read[d].due /\ Sound(x)
    <2> DEFINE x == [read[d] EXCEPT !.stage = "done", !.lost = TRUE]
    <2>1. read[d] \in ReadSet /\ Sound(read[d])
        BY DEF ReadsInv
    <2>2. /\ x \in ReadSet /\ x.stage = "done" /\ x.lost = TRUE
          /\ x.due = read[d].due /\ x.keys = read[d].keys
        BY <2>1 DEF ReadSet
    <2> HIDE DEF x
    <2>3. Sound(x)
        BY <2>1, <2>2 DEF Sound, Honest
    <2> QED
        BY <2>2, <2>3 DEF x
<1> QED
    BY <1>1 DEF Crash, ReadsInv

(* Who changes the meter of restic-api, and who the reads.                 *)
LEMMA MeterStep ==
    ASSUME [StoreNext]_storeVars
    PROVE  /\ stored' \in {stored, stored + 1, stored - 1, 0}
           /\ \/ UNCHANGED read
              \/ \E d \in Readers : Reading(d)
              \/ \E dying : Crash(dying)
<1>1. ASSUME NEW r \in Requests, Michael(r) \/ ApiReceive(r)
      PROVE  UNCHANGED <<stored, read>>
    BY <1>1 DEF Michael, ApiReceive
<1>2. ASSUME NEW r \in Requests, ApiHandle(r)
      PROVE  stored' \in {stored, stored + 1, stored - 1, 0} /\ UNCHANGED read
    <2>1. CASE ApiCreate(r) \/ ApiPutFails(r) \/ ApiUndo(r) \/ ApiHead(r) \/ ApiCallFails(r)
        BY <2>1 DEF ApiCreate, ApiPutFails, ApiUndo, ApiHead, ApiCallFails
    <2>2. CASE ApiPut(r) \/ ApiDelete(r)
        BY <2>2 DEF ApiPut, ApiDelete
    <2> QED
        BY <1>2, <2>1, <2>2 DEF ApiHandle
<1>3. ASSUME NEW d \in Readers, Reading(d)
      PROVE  UNCHANGED stored
    BY <1>3 DEF Reading, ReceiveRead, AnswerRead, ReadOne, List, ReadFails
<1>4. ASSUME NEW dying, Crash(dying)
      PROVE  stored' \in {stored, 0}
    BY <1>4 DEF Crash
<1>5. CASE UNCHANGED storeVars
    BY <1>5 DEF storeVars
<1> QED
    BY <1>1, <1>2, <1>3, <1>4, <1>5, ReadersAssumption DEF StoreNext

(* Every step preserves the invariant of the reading requests.             *)
LEMMA ReadsNext ==
    ASSUME ReadsInv, [StoreNext]_storeVars, Tokens \subseteq {TRUE}
    PROVE  ReadsInv'
<1>1. WormInv' /\ Acknowledged \subseteq Acknowledged'
    BY StoreWorm, AcknowledgedStays DEF ReadsInv
<1>2. stored' \in Int
    <2>1. stored' \in {stored, stored + 1, stored - 1, 0}
        BY MeterStep
    <2> QED
        BY <2>1 DEF ReadsInv
<1>3. CASE UNCHANGED read
    BY <1>1, <1>2, <1>3 DEF ReadsInv
<1>4. CASE \E d \in Readers : Reading(d)
    <2>1. PICK d \in Readers, x \in ReadSet :
             x.due \subseteq Acknowledged /\ Sound(x) /\ read' = [read EXCEPT ![d] = x]
        BY <1>4, ReadingSound DEF ReadsInv
    <2> QED
        BY <1>1, <1>2, <2>1 DEF ReadsInv
<1>5. CASE \E dying : Crash(dying)
    BY <1>1, <1>2, <1>5, CrashedReads DEF ReadsInv
<1> QED
    BY <1>3, <1>4, <1>5, MeterStep

(* At first nothing is read, and nothing acknowledged.                     *)
LEMMA InitReads == StoreInit => ReadsInv
<1> SUFFICES ASSUME StoreInit PROVE ReadsInv
    OBVIOUS
<1>1. NoRead \in ReadSet /\ NoRead.due = {} /\ Sound(NoRead)
    BY DEF NoRead, ReadSet, Sound
<1> QED
    BY <1>1, InitWorm DEF StoreInit, ReadsInv

(* With write-once tokens, every reachable state is well typed.            *)
THEOREM StoreTypeCorrect ==
    ASSUME Tokens \subseteq {TRUE}
    PROVE  StoreSpec => []StoreTypeOK
<1>1. ReadsInv /\ [StoreNext]_storeVars => ReadsInv'
    BY ReadsNext
<1>2. ReadsInv => StoreTypeOK
    BY DEF ReadsInv, WormInv, StoreTypeOK
<1> QED
    BY InitReads, <1>1, <1>2, PTL DEF StoreSpec

(* With write-once tokens, what either server acknowledged is in the       *)
(* answer of every later reading request to either, unless a listing is    *)
(* cut at a page, restic-api refuses it, or S3 fails.                      *)
THEOREM EitherReadsBoth ==
    ASSUME Tokens \subseteq {TRUE}
    PROVE  StoreSpec => []ReadsAreHonest
<1>1. ReadsInv /\ [StoreNext]_storeVars => ReadsInv'
    BY ReadsNext
<1>2. ReadsInv => ReadsAreHonest
    BY DEF ReadsInv, Sound, ReadsAreHonest
<1> QED
    BY InitReads, <1>1, <1>2, PTL DEF StoreSpec

-----------------------------------------------------------------------------
(* The write-only flag of a repository, and the tokens that carry it.      *)

(* A request that has got past the test of its token may delete.           *)
Unprotected == \A r \in Requests : at[r] \in {"head", "delete"} => ~Protected(req[r])

(* A call that read a write-only row and was not refused will not open it. *)
SeenIsKept ==
    \A e \in Edits : stage[e] = "checked" /\ seen[e] => edit[e] \in {"url", "enable"}

TokensInv ==
    /\ TokensTypeOK
    /\ SavesOnly
    /\ Unprotected
    /\ SeenIsKept

(* Only saves upload and undo, and only a request that may delete gets     *)
(* past the test of its token; every step keeps that so.                   *)
LEMMA PassesNext ==
    ASSUME ServerTypeOK, SavesOnly, Unprotected, [AnyTokenNext]_serverVars
    PROVE  SavesOnly' /\ Unprotected'
<1> USE DEF ServerTypeOK, SavesOnly, Unprotected, AtS3
<1>1. ASSUME NEW r \in Requests, NEW q \in RequestSet, ReceiveRequest(r, q)
      PROVE  SavesOnly' /\ Unprotected'
    <2>1. req' = [req EXCEPT ![r] = q] /\ at[r] = "idle"
        BY <1>1 DEF ReceiveRequest
    <2>2. \/ at' = [at EXCEPT ![r] = "check"] /\ q.op = "create"
          \/ at' = [at EXCEPT ![r] = "put"] /\ q.op = "save"
          \/ at' = [at EXCEPT ![r] = "done"]
          \/ at' = [at EXCEPT ![r] = "head"] /\ q.op = "delete" /\ ~Protected(q)
        BY <1>1 DEF ReceiveRequest
    <2> QED
        BY <2>1, <2>2
<1>2. ASSUME NEW r \in Requests, req' = req,
             \/ at' = at
             \/ at' = [at EXCEPT ![r] = "done"]
             \/ at[r] = "check" /\ at' = [at EXCEPT ![r] = "make"]
             \/ at[r] = "put" /\ at' = [at EXCEPT ![r] = "undo"]
             \/ at[r] = "head" /\ at' = [at EXCEPT ![r] = "delete"]
      PROVE  SavesOnly' /\ Unprotected'
    BY <1>2
<1>3. ASSUME NEW r \in Requests, Handle(r) \/ UndoRetried(r)
      PROVE  SavesOnly' /\ Unprotected'
    <2>1. CASE Check(r) \/ Make(r) \/ HeadObject(r) \/ PutRefused(r) \/ PutFails(r)
        BY <1>2, <2>1 DEF Check, Make, HeadObject, PutRefused, PutFails
    <2>2. CASE Put(r)
        BY <1>2, <2>2 DEF Put, Stored
    <2>3. CASE Undo(r) \/ UndoFails(r) \/ UndoRetried(r) \/ Delete(r) \/ CallFails(r)
        BY <1>2, <2>3 DEF Undo, UndoFails, UndoRetried, Delete, CallFails
    <2> QED
        BY <1>3, <2>1, <2>2, <2>3 DEF Handle
<1>4. CASE ServerCrash
    BY <1>4 DEF ServerCrash
<1>5. CASE UNCHANGED serverVars
    BY <1>5 DEF serverVars
<1> QED
    BY <1>1, <1>3, <1>4, <1>5 DEF AnyTokenNext, RetryingNext, ServerNext, Receive

(* The invariant of the tokens holds at first.                             *)
LEMMA InitTokens == TokensInit => TokensInv
<1> SUFFICES ASSUME TokensInit PROVE TokensInv
    OBVIOUS
<1>1. ServerTypeOK
    BY UnusedType DEF TokensInit
<1>2. SavesOnly /\ Unprotected
    BY DEF TokensInit, Unused, SavesOnly, Unprotected, AtS3
<1>3. SeenIsKept
    BY DEF TokensInit, SeenIsKept
<1> QED
    BY <1>1, <1>2, <1>3 DEF TokensInit, TokensInv, TokensTypeOK, Flags

(* The calls of the cloud and its administrator keep the types.            *)
LEMMA CloudTypes ==
    ASSUME TokensTypeOK, CloudStep
    PROVE  TokensTypeOK'
<1> USE DEF TokensTypeOK
<1>1. ServerTypeOK'
    BY DEF CloudStep, serverVars, ServerTypeOK
<1>2. ASSUME NEW e \in Edits, ReadRow(e) \/ WriteRow(e) \/ Sign(e)
      PROVE  TokensTypeOK'
    BY <1>1, <1>2 DEF ReadRow, WriteRow, Sign, Advance, Written, Flags
<1>3. CASE AdminUpdate
    BY <1>1, <1>3 DEF AdminUpdate
<1>4. ASSUME NEW w \in BOOLEAN, Expire(w)
      PROVE  TokensTypeOK'
    BY <1>1, <1>4 DEF Expire
<1> QED
    BY <1>2, <1>3, <1>4 DEF CloudStep

(* With the tokens that the cloud signs, michael still takes only steps    *)
(* that some token allows.                                                 *)
LEMMA ServerStepIsAnyToken == ServerStep => AnyTokenNext
BY DEF ServerStep, Use, AnyTokenNext, RetryingNext, ServerNext

(* Every step preserves the invariant of the tokens.                       *)
LEMMA TokensNextInv ==
    ASSUME TokensInv, [TokensNext]_tokenVars
    PROVE  TokensInv'
<1> USE DEF TokensInv
<1>1. CASE CloudStep
    <2>1. SavesOnly' /\ Unprotected'
        BY <1>1 DEF CloudStep, serverVars, SavesOnly, Unprotected
    <2>2. SeenIsKept'
        <3>1. ASSUME NEW e \in Edits, ReadRow(e)
              PROVE  SeenIsKept'
            BY <3>1 DEF ReadRow, Refused, Advance, SeenIsKept, TokensTypeOK, EditSet
        <3>2. ASSUME NEW e \in Edits, WriteRow(e) \/ Sign(e)
              PROVE  SeenIsKept'
            BY <3>2 DEF WriteRow, Sign, Advance, SeenIsKept, TokensTypeOK
        <3>3. CASE UNCHANGED <<edit, stage, seen>>
            BY <3>3 DEF SeenIsKept
        <3> QED
            BY <1>1, <3>1, <3>2, <3>3 DEF CloudStep, AdminUpdate, Expire
    <2> QED
        BY <1>1, <2>1, <2>2, CloudTypes
<1>2. CASE ServerStep
    <2>1. ServerTypeOK' /\ SavesOnly' /\ Unprotected'
        BY <1>2, ServerStepIsAnyToken, ServerTypeNext, PassesNext DEF TokensTypeOK
    <2> QED
        BY <1>2, <2>1 DEF ServerStep, cloudVars, TokensTypeOK, SeenIsKept
<1>3. CASE UNCHANGED tokenVars
    <2>1. ServerTypeOK' /\ SavesOnly' /\ Unprotected'
        BY <1>3, ServerTypeNext, PassesNext DEF tokenVars, TokensTypeOK
    <2> QED
        BY <1>3, <2>1 DEF tokenVars, cloudVars, TokensTypeOK, SeenIsKept
<1> QED
    BY <1>1, <1>2, <1>3 DEF TokensNext

(* However the calls of the cloud API meet each other and the requests of  *)
(* restic, what the rows, the tokens and the requests hold is well typed.  *)
THEOREM TokensTypeCorrect == TokensSpec => []TokensTypeOK
<1>1. TokensInv => TokensTypeOK
    BY DEF TokensInv
<1> QED
    BY <1>1, InitTokens, TokensNextInv, PTL DEF TokensSpec

(* michael takes either token, and undoes what does not match its name,    *)
(* whatever becomes of the flag of the repository meanwhile.               *)
THEOREM BadBlobsGoWithAnyToken ==
    ASSUME Faults \cap {"s3", "undo", "crash"} = {}
    PROVE  TokensSpec => []NoBadBlobStays
<1>1. TokensInit => NoBadBlobStays
    BY NoBadBlobAtFirst DEF TokensInit
<1>2. TokensInv /\ NoBadBlobStays /\ [TokensNext]_tokenVars => NoBadBlobStays'
    BY NoBadBlobNext, ServerStepIsAnyToken
    DEF TokensInv, TokensTypeOK, TokensNext, CloudStep, tokenVars
<1> QED
    BY <1>1, <1>2, InitTokens, TokensNextInv, PTL DEF TokensSpec

(* A write-only repository is opened again, or deleted, by administrators  *)
(* and by calls that read its row while it was writable, and by no others. *)
THEOREM OlderCallsReopen == TokensSpec => OnlyOlderCallsReopen
<1>1. ASSUME TokensInv, [TokensNext]_tokenVars, row = "worm", row' # "worm"
      PROVE  AdminUpdate \/ \E e \in Edits : ~seen[e] /\ WriteRow(e)
    <2>1. AdminUpdate \/ \E e \in Edits : WriteRow(e)
        BY <1>1 DEF TokensNext, CloudStep, ServerStep, ReadRow, Sign, Expire, cloudVars, tokenVars
    <2>2. ASSUME NEW e \in Edits, WriteRow(e)
          PROVE  ~seen[e]
        BY <1>1, <2>2 DEF WriteRow, Written, TokensInv, SeenIsKept
    <2> QED
        BY <2>1, <2>2
<1> QED
    BY <1>1, InitTokens, TokensNextInv, PTL DEF TokensSpec, OnlyOlderCallsReopen

(* Once the old tokens have worn out, requests store where there is        *)
(* nothing, and erase what is bad, or a lock.                              *)
LEMMA WornStore ==
    ASSUME TokensInv, UndoesItsOwn, NEW r \in Requests, req[r].worm,
           Put(r) \/ PutFails(r)
    PROVE  UndoesItsOwn' /\ KeptStays
<1> USE DEF TokensInv, TokensTypeOK, ServerTypeOK
<1>0. at[r] = "put" /\ req' = req
    BY DEF Put, PutFails
<1>1. /\ req[r].key \in Keys /\ req[r].op = "save" /\ Conditional(req[r])
      /\ req[r].body \in Bodies /\ req[r].body # NoObject
    BY <1>0, RequestParts, ServerAssumption DEF SavesOnly, AtS3, Conditional
<1>2. \A s \in Requests : req[s].key \in Keys
    BY RequestParts
<1>3. CASE objects' = objects
    <2>1. objects[req[r].key] = NoObject => ~Put(r)
        BY <1>1, <1>3 DEF Put
    <2>2. at' = [at EXCEPT ![r] = "done"]
        BY <1>1, <2>1 DEF Put, PutFails
    <2> QED
        BY <1>0, <1>3, <2>2 DEF UndoesItsOwn, KeptStays, Kept
<1>4. CASE objects' # objects
    <2>1. /\ objects[req[r].key] = NoObject
          /\ objects' = [objects EXCEPT ![req[r].key] = req[r].body]
        BY <1>1, <1>4 DEF Put, PutFails
    <2>2. \/ at' = [at EXCEPT ![r] = "undo"] /\ Mismatch(req[r])
          \/ at' = [at EXCEPT ![r] = "done"]
        BY DEF Put, PutFails, Stored
    <2>3. \A s \in Requests : at[s] = "undo" /\ req[s].key \in Blobs => req[s].key # req[r].key
        BY <2>1, RequestParts, ServerAssumption DEF UndoesItsOwn, SavesOnly, AtS3
    <2>4. Mismatch(req[r]) => req[r].key \in Named /\ req[r].body # req[r].key
        BY <1>1 DEF Mismatch, Keys
    <2>5. UndoesItsOwn'
        BY <1>0, <1>1, <1>2, <2>1, <2>2, <2>3, <2>4 DEF UndoesItsOwn
    <2>6. KeptStays
        BY <1>1, <2>1 DEF KeptStays, Kept
    <2> QED
        BY <2>5, <2>6
<1> QED
    BY <1>3, <1>4

(* Once the old tokens are worn out, a request removes no more than the    *)
(* bad blob that it stored itself.                                         *)
LEMMA WornErase ==
    ASSUME TokensInv, UndoesItsOwn, NEW r \in Requests, req[r].worm,
           Undo(r) \/ Delete(r) \/ CallFails(r)
    PROVE  UndoesItsOwn' /\ KeptStays
<1> USE DEF TokensInv, TokensTypeOK, ServerTypeOK
<1>0. /\ req' = req /\ at' = [at EXCEPT ![r] = "done"]
      /\ \A s \in Requests : req[s].key \in Keys
    BY RequestParts DEF Undo, Delete, CallFails
<1>1. CASE objects' = objects
    BY <1>0, <1>1 DEF UndoesItsOwn, KeptStays, Kept
<1>2. CASE objects' # objects
    <2>1. /\ objects' = [objects EXCEPT ![req[r].key] = NoObject]
          /\ at[r] \in {"undo", "delete"}
        BY <1>2 DEF Undo, Delete, CallFails
    <2>2. at[r] = "delete" => req[r].key \in LockFiles
        BY DEF Unprotected, Protected
    <2>3. \A s \in Requests \ {r} : at[s] = "undo" /\ req[s].key \in Blobs => req[s].key # req[r].key
        BY <2>1, <2>2, ServerAssumption DEF UndoesItsOwn
    <2>4. UndoesItsOwn'
        BY <1>0, <2>1, <2>3 DEF UndoesItsOwn
    <2>5. req[r].key \notin LockFiles => Kept[req[r].key] = NoObject
        BY <1>0, <2>1, <2>2, ServerAssumption DEF Kept, UndoesItsOwn, Named, Bodies
    <2>6. KeptStays
        BY <1>0, <2>1, <2>5 DEF KeptStays, Kept
    <2> QED
        BY <2>4, <2>6
<1> QED
    BY <1>1, <1>2

(* Once the old tokens are worn out, no request is admitted with one.      *)
LEMMA WornHandle ==
    ASSUME TokensInv, WornOut, NEW r \in Requests, Handle(r), UNCHANGED cloudVars
    PROVE  WornOut' /\ KeptStays
<1>1. at[r] \in AtS3 /\ req' = req
    BY DEF Handle, Check, Make, PutRefused, Put, PutFails, Undo, UndoFails, HeadObject,
           Delete, CallFails, AtS3
<1>2. /\ req[r].worm
      /\ \A s \in Requests : at'[s] \in AtS3 => at[s] \in AtS3
    <2>1. \E a : at' = [at EXCEPT ![r] = a]
        BY DEF Handle, Check, Make, PutRefused, Put, Stored, PutFails, Undo, UndoFails, HeadObject,
               Delete, CallFails
    <2> QED
        BY <1>1, <2>1 DEF WornOut, TokensInv, TokensTypeOK, ServerTypeOK
<1>3. UndoesItsOwn' /\ KeptStays
    <2>1. CASE Put(r) \/ PutFails(r)
        BY <1>2, <2>1, WornStore DEF WornOut
    <2>2. CASE Undo(r) \/ Delete(r) \/ CallFails(r)
        BY <1>2, <2>2, WornErase DEF WornOut
    <2>3. CASE Check(r) \/ Make(r) \/ PutRefused(r) \/ UndoFails(r) \/ HeadObject(r)
        <3>1. UNCHANGED <<objects, req>>
            BY <2>3 DEF Check, Make, PutRefused, UndoFails, HeadObject
        <3>2. \A s \in Requests : at'[s] = "undo" => at[s] = "undo"
            BY <2>3 DEF Check, Make, PutRefused, UndoFails, HeadObject,
                        TokensInv, TokensTypeOK, ServerTypeOK
        <3> QED
            BY <3>1, <3>2 DEF WornOut, UndoesItsOwn, KeptStays, Kept
    <2> QED
        BY <2>1, <2>2, <2>3 DEF Handle
<1> QED
    BY <1>1, <1>2, <1>3 DEF WornOut, cloudVars

(* What a repository holds when its old tokens and the requests and calls  *)
(* of the time before have gone, it holds for good, whatever fails, until  *)
(* an administrator changes the flag or the SDK repeats an undo.           *)
THEOREM WornOutIsWriteOnce == TokensSpec => OldTokensWearOut
<1>1. ASSUME TokensInv, WornOut, CloudStep, ~AdminUpdate
      PROVE  WornOut' /\ KeptStays
    <2>1. KeptStays
        BY <1>1 DEF CloudStep, serverVars, KeptStays, Kept
    <2>2. \A r \in Requests : at'[r] \in AtS3 => req'[r].worm
        BY <1>1 DEF CloudStep, serverVars, WornOut
    <2>3. UndoesItsOwn'
        BY <1>1 DEF CloudStep, serverVars, WornOut, UndoesItsOwn
    <2>4. ASSUME NEW e \in Edits, ReadRow(e) \/ WriteRow(e) \/ Sign(e)
          PROVE  /\ row' = "worm" /\ issued' \subseteq {TRUE}
                 /\ \A f \in Edits : stage'[f] = "checked" =>
                       seen'[f] /\ edit'[f] \in {"url", "enable"}
        <3>1. CASE ReadRow(e)
            <4>1. row = "worm" /\ UNCHANGED <<row, issued, edit>>
                BY <1>1, <3>1 DEF ReadRow, WornOut
            <4>2. CASE Refused(e)
                <5>1. stage' = [stage EXCEPT ![e] = "over"] /\ UNCHANGED seen
                    BY <3>1, <4>2 DEF ReadRow, Advance
                <5> QED
                    BY <1>1, <4>1, <5>1 DEF WornOut, TokensInv, TokensTypeOK
            <4>3. CASE ~Refused(e)
                <5>1. /\ stage' = [stage EXCEPT ![e] = "checked"]
                      /\ seen' = [seen EXCEPT ![e] = TRUE]
                    BY <3>1, <4>1, <4>3 DEF ReadRow, Advance
                <5>2. edit[e] \in {"url", "enable"}
                    BY <1>1, <4>1, <4>3 DEF Refused, TokensInv, TokensTypeOK, EditSet
                <5> QED
                    BY <1>1, <4>1, <5>1, <5>2 DEF WornOut, TokensInv, TokensTypeOK
            <4> QED
                BY <4>2, <4>3
        <3>2. CASE WriteRow(e)
            <4>1. edit[e] = "enable" /\ row' = "worm"
                BY <1>1, <3>2 DEF WriteRow, Written, WornOut
            <4>2. stage' = [stage EXCEPT ![e] = "over"] /\ UNCHANGED <<issued, edit, seen>>
                BY <3>2 DEF WriteRow, Advance
            <4> QED
                BY <1>1, <4>1, <4>2 DEF WornOut, TokensInv, TokensTypeOK
        <3>3. CASE Sign(e)
            BY <1>1, <3>3 DEF Sign, Advance, WornOut, TokensInv, TokensTypeOK
        <3> QED
            BY <2>4, <3>1, <3>2, <3>3
    <2>5. ASSUME NEW w \in BOOLEAN, Expire(w)
          PROVE  WornOut'
        BY <1>1, <2>2, <2>3, <2>5 DEF Expire, WornOut
    <2> QED
        BY <1>1, <2>1, <2>2, <2>3, <2>4, <2>5 DEF CloudStep, WornOut
<1>2. ASSUME TokensInv, WornOut, NEW r \in Requests, Use(r), UNCHANGED cloudVars
      PROVE  WornOut' /\ KeptStays
    <2>1. PICK q \in RequestSet : q.worm \in issued /\ ReceiveRequest(r, q)
        BY <1>2 DEF Use
    <2>2. /\ at[r] = "idle" /\ q.worm /\ req' = [req EXCEPT ![r] = q] /\ objects' = objects
          /\ \A s \in Requests \ {r} : at'[s] = at[s]
          /\ at'[r] # "undo"
        BY <1>2, <2>1 DEF ReceiveRequest, WornOut, TokensInv, TokensTypeOK, ServerTypeOK
    <2>3. \A s \in Requests : at'[s] \in AtS3 => req'[s].worm
        BY <1>2, <2>2 DEF WornOut, TokensInv, TokensTypeOK, ServerTypeOK
    <2>4. UndoesItsOwn'
        BY <1>2, <2>2 DEF WornOut, UndoesItsOwn, TokensInv, TokensTypeOK, ServerTypeOK
    <2> QED
        BY <1>2, <2>2, <2>3, <2>4 DEF WornOut, cloudVars, KeptStays, Kept
<1>3. ASSUME TokensInv, WornOut, [TokensNext]_tokenVars, ~AdminUpdate,
             ~(\E r \in Requests : UndoRetried(r))
      PROVE  WornOut' /\ KeptStays
    <2>1. CASE UNCHANGED tokenVars
        BY <1>3, <2>1 DEF tokenVars, serverVars, cloudVars, WornOut, UndoesItsOwn, KeptStays, Kept
    <2> QED
        BY <1>1, <1>2, <1>3, <2>1, WornHandle DEF TokensNext, ServerStep
<1> QED
    BY <1>3, InitTokens, TokensNextInv, PTL DEF TokensSpec, OldTokensWearOut
=============================================================================
