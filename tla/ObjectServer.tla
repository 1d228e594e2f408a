----------------------------- MODULE ObjectServer -----------------------------
(***************************************************************************)
(* michael, the server between restic and S3: the handlers that change a   *)
(* repository (createRepository, saveConfig, deleteConfig, saveBlob,       *)
(* deleteBlob), each a goroutine that makes one or more calls to S3, with  *)
(* any others between two calls.                                           *)
(*                                                                         *)
(* Simplifications.                                                        *)
(*  - One repository: the token names it, and every call goes to its       *)
(*    bucket.                                                              *)
(*  - A blob is saved under the hash of its content, so the content that   *)
(*    belongs under a key is written as the key itself.                    *)
(*  - Objects have the size 1, so that the meter of stored bytes counts    *)
(*    objects.                                                             *)
(*  - The types data, index, keys and snapshots are handled alike, and are *)
(*    one set of keys.                                                     *)
(*  - Reads change nothing and are left out, as are the counters of        *)
(*    traffic.                                                             *)
(***************************************************************************)
EXTENDS Integers

CONSTANTS
    Requests,  \* the HTTP requests that will be made, each used once
    Blobs,     \* the keys of blobs that are not locks
    LockFiles, \* the keys of locks
    Config,    \* the key of the configuration
    Strays,    \* contents that belong under no key
    Tokens,    \* the values of writeOnce in the tokens in use
    Faults,    \* which failures can happen
    NoObject

AllFaults == {"s3",    \* a call to S3 fails, with or without effect
              "undo",  \* the deletion of a bad blob fails
              "crash"} \* the process dies and is started again

Named == Blobs \cup LockFiles
Keys == Named \cup {Config}
Bodies == Named \cup Strays

ASSUME ServerAssumption ==
    /\ Config \notin Bodies
    /\ NoObject \notin Bodies \cup {Config}
    /\ Blobs \cap LockFiles = {}
    /\ Tokens \subseteq BOOLEAN
    /\ Faults \subseteq AllFaults

VARIABLES
    bucket,  \* does the bucket exist
    objects, \* the object under each key
    meter,   \* blobs.stored_bytes
    req,     \* what was requested
    at,      \* the call to S3 that a request makes next
    reply    \* the answer it got

serverVars == <<bucket, objects, meter, req, at, reply>>

RequestSet ==
    [op : {"save"}, key : Keys, body : Bodies, worm : BOOLEAN]
    \cup [op : {"delete"}, key : Keys, body : {NoObject}, worm : BOOLEAN]
    \cup [op : {"create"}, key : {Config}, body : {NoObject}, worm : BOOLEAN]

NoRequest == [op |-> "create", key |-> Config, body |-> NoObject, worm |-> FALSE]

AtS3 == {"check", "make", "put", "undo", "head", "delete"}
Replies == {"none", "ok", "conflict", "exists", "mismatch", "forbidden", "error"}

ServerTypeOK ==
    /\ bucket \in BOOLEAN
    /\ objects \in [Keys -> Bodies \cup {NoObject}]
    /\ meter \in Int
    /\ req \in [Requests -> RequestSet]
    /\ at \in [Requests -> AtS3 \cup {"idle", "done"}]
    /\ reply \in [Requests -> Replies]

(* An empty server, before any request. *)
Unused ==
    /\ objects = [k \in Keys |-> NoObject]
    /\ meter = 0
    /\ req = [r \in Requests |-> NoRequest]
    /\ at = [r \in Requests |-> "idle"]
    /\ reply = [r \in Requests |-> "none"]

ServerInit == bucket = FALSE /\ Unused

Store(k, b) == objects' = [objects EXCEPT ![k] = b]
Call(r, call) == at' = [at EXCEPT ![r] = call] /\ UNCHANGED reply
Answer(r, status) ==
    /\ at' = [at EXCEPT ![r] = "done"]
    /\ reply' = [reply EXCEPT ![r] = status]

-----------------------------------------------------------------------------

(* Variant: deleteConfig without the test of the flag.                     *)
ProtectedExceptConfig(q) == q.worm /\ q.key \in Blobs

(* A deletion that the token does not permit: locks are exempt.            *)
Protected(q) == q.worm /\ q.key \notin LockFiles

(* Authentication is done; the handler runs up to its first call to S3.    *)
ReceiveRequest(r, q) ==
    /\ at[r] = "idle"
    /\ req' = [req EXCEPT ![r] = q]
    /\ \/ q.op = "create" /\ Call(r, "check")
       \/ q.op = "save" /\ Call(r, "put")
       \/ q.op = "delete" /\ Protected(q) /\ Answer(r, "forbidden")
       \/ q.op = "delete" /\ ~Protected(q) /\ Call(r, "head")
    /\ UNCHANGED <<bucket, objects, meter>>

Receive(r) ==
    \E q \in RequestSet : q.worm \in Tokens /\ ReceiveRequest(r, q)

(* CheckBucket and CreateBucket.  S3 refuses to create a bucket twice.     *)
Check(r) ==
    /\ at[r] = "check"
    /\ IF bucket THEN Answer(r, "conflict") ELSE Call(r, "make")
    /\ UNCHANGED <<bucket, objects, meter, req>>

Make(r) ==
    /\ at[r] = "make"
    /\ bucket' = TRUE
    /\ Answer(r, IF bucket THEN "error" ELSE "ok")
    /\ UNCHANGED <<objects, meter, req>>

(* Variant: saveConfig ignores the flag of the token.                      *)
ConditionalForBlobs(q) == q.key # Config

(* IfNoneMatch: the object is stored only if there is none.                *)
Conditional(q) == q.key # Config \/ q.worm

(* The hash of what was uploaded is not the name.                          *)
Mismatch(q) == q.key # Config /\ q.body # q.key

PutRefused(r) ==
    /\ at[r] = "put"
    /\ Conditional(req[r]) /\ objects[req[r].key] # NoObject
    /\ Answer(r, "exists")
    /\ UNCHANGED <<bucket, objects, meter, req>>

(* Variant: a mismatch is answered but the object left.                    *)
StoredUnchecked(r) ==
    IF Mismatch(req[r])
    THEN Answer(r, "mismatch") /\ UNCHANGED meter
    ELSE Answer(r, "ok") /\ meter' = meter + 1

(* The object is there: PutObject compares the hash, saveBlob counts.      *)
Stored(r) ==
    IF Mismatch(req[r])
    THEN Call(r, "undo") /\ UNCHANGED meter
    ELSE Answer(r, "ok") /\ meter' = meter + 1

Put(r) ==
    /\ at[r] = "put"
    /\ bucket
    /\ Conditional(req[r]) => objects[req[r].key] = NoObject
    /\ Store(req[r].key, req[r].body)
    /\ Stored(r)
    /\ UNCHANGED <<bucket, req>>

(* PutObject fails: there is no bucket, or S3 or the connection to it      *)
(* fails, before or after the object is stored.                            *)
PutFails(r) ==
    /\ at[r] = "put"
    /\ \/ (~bucket \/ "s3" \in Faults) /\ UNCHANGED objects
       \/ /\ "s3" \in Faults /\ bucket
          /\ Conditional(req[r]) => objects[req[r].key] = NoObject
          /\ Store(req[r].key, req[r].body)
    /\ Answer(r, "error")
    /\ UNCHANGED <<bucket, meter, req>>

(* The bad blob is deleted again.                                          *)
Undo(r) ==
    /\ at[r] = "undo"
    /\ Store(req[r].key, NoObject)
    /\ Answer(r, "mismatch")
    /\ UNCHANGED <<bucket, meter, req>>

(* The error of that deletion is dropped: S3 fails, or the client has gone *)
(* and taken the context of the call with it.                              *)
UndoFails(r) ==
    /\ at[r] = "undo" /\ "undo" \in Faults
    /\ Answer(r, "mismatch")
    /\ UNCHANGED <<bucket, objects, meter, req>>

(* Its reply is lost, and the SDK makes the call again.                    *)
UndoRetried(r) ==
    /\ at[r] = "undo"
    /\ Store(req[r].key, NoObject)
    /\ UNCHANGED <<bucket, meter, req, at, reply>>

HeadObject(r) ==
    /\ at[r] = "head"
    /\ IF objects[req[r].key] = NoObject THEN Answer(r, "error") ELSE Call(r, "delete")
    /\ UNCHANGED <<bucket, objects, meter, req>>

(* S3 deletes what is not there without complaint.                         *)
Delete(r) ==
    /\ at[r] = "delete"
    /\ Store(req[r].key, NoObject)
    /\ meter' = meter - 1
    /\ Answer(r, "ok")
    /\ UNCHANGED <<bucket, req>>

(* The calls that fail without or with effect.                             *)
CallFails(r) ==
    /\ "s3" \in Faults
    /\ \/ at[r] \in {"check", "head"} /\ UNCHANGED <<bucket, objects>>
       \/ at[r] = "make" /\ bucket' \in {bucket, TRUE} /\ UNCHANGED objects
       \/ /\ at[r] = "delete" /\ UNCHANGED bucket
          /\ UNCHANGED objects \/ Store(req[r].key, NoObject)
    /\ Answer(r, "error")
    /\ UNCHANGED <<meter, req>>

(* The requests under way are never answered, and the meter starts anew.   *)
ServerCrash ==
    /\ "crash" \in Faults
    /\ at' = [r \in Requests |-> IF at[r] \in AtS3 THEN "done" ELSE at[r]]
    /\ meter' = 0
    /\ UNCHANGED <<bucket, objects, req, reply>>

Handle(r) ==
    \/ Check(r) \/ Make(r)
    \/ PutRefused(r) \/ Put(r) \/ PutFails(r)
    \/ Undo(r) \/ UndoFails(r)
    \/ HeadObject(r) \/ Delete(r) \/ CallFails(r)

ServerNext ==
    \/ \E r \in Requests : Receive(r) \/ Handle(r)
    \/ ServerCrash

ServerSpec == ServerInit /\ [][ServerNext]_serverVars

(* The same with an SDK that may repeat the undo of an upload.             *)
RetryingNext == ServerNext \/ \E r \in Requests : UndoRetried(r)

RetryingSpec == ServerInit /\ [][RetryingNext]_serverVars

-----------------------------------------------------------------------------
(* Properties. *)

(* A blob whose content is not what its name says is there only while the  *)
(* request that stored it is about to delete it (PutObject checks the hash *)
(* after the upload): however uploads and deletions of one key meet, none  *)
(* stays behind, where it could neither be replaced nor, in a write-once   *)
(* repository, deleted.                                                    *)
NoBadBlobStays ==
    \A k \in Named : objects[k] \notin {NoObject, k} =>
        \E r \in Requests : at[r] = "undo" /\ req[r].key = k /\ req[r].body = objects[k]

(* Who is about to delete a bad blob finds it as it was stored, and is the *)
(* only one.                                                               *)
UndoesItsOwn == \A r \in Requests :
    at[r] = "undo" =>
        /\ req[r].key \in Named /\ req[r].body # req[r].key
        /\ req[r].key \in Blobs =>
              /\ objects[req[r].key] = req[r].body
              /\ \A s \in Requests \ {r} : at[s] = "undo" => req[s].key # req[r].key

(* A saved blob or configuration whose request was answered with 200 is in *)
(* the repository for good, whatever other requests do: uploads of the     *)
(* same key, right or wrong, deletions, failures and crashes.  (For tokens *)
(* with writeOnce.)                                                        *)
AcknowledgedIsStored ==
    \A r \in Requests :
        req[r].op = "save" /\ reply[r] = "ok" /\ req[r].key \notin LockFiles =>
            objects[req[r].key] = req[r].body

(* With write-once tokens the repository is a write-once store of the      *)
(* configuration and of the blobs with the right content, of which only    *)
(* locks can be removed.                                                   *)
Kept == [k \in Keys |-> IF k # Config /\ objects[k] # k THEN NoObject ELSE objects[k]]

Repository == INSTANCE WriteOnceStore WITH
    Places <- Keys, Clearable <- LockFiles, Contents <- Bodies,
    Nothing <- NoObject, kept <- Kept

ImplementsWriteOnceStore == Repository!Spec
=============================================================================
