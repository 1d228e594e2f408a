------------------------------- MODULE ResticApi -------------------------------
(***************************************************************************)
(* restic-api, the server that michael replaces, beside michael on the     *)
(* same buckets, and the reading operations of both.  A request goes to    *)
(* one of the two; nothing but S3 lies between them.                       *)
(*                                                                         *)
(* The simplifications of ObjectServer hold here, and a reading operation  *)
(* makes one call to S3.  The keys of a listing are cut at a page by S3;   *)
(* which keys the first page holds is left open.  A client that leaves in  *)
(* the middle of an upload leaves a handler that waits for ever: a request *)
(* that takes no further step.                                             *)
(***************************************************************************)
EXTENDS ObjectServer, FiniteSets

CONSTANTS
    OldRequests, \* the requests that restic-api gets; michael gets the others
    Readers,     \* the reading requests, each used once
    Empty,       \* the stray content without a byte
    Page         \* how many keys a listing holds at most

ASSUME ReadersAssumption ==
    /\ OldRequests \subseteq Requests
    /\ Empty \in Strays
    /\ Page \in Nat \ {0}

VARIABLES
    stored, \* blobs.stored_bytes of restic-api
    read    \* the reading requests

storeVars == <<serverVars, stored, read>>

(* api: does restic-api serve it; due: what had been acknowledged when it  *)
(* came; lost: S3 failed it.                                               *)
ReadSet ==
    [stage : {"idle", "asked", "done"}, api : BOOLEAN, how : {"head", "get", "list"},
     keys : SUBSET Keys, due : SUBSET Keys, got : SUBSET Keys, lost : BOOLEAN,
     answer : {"none", "ok", "missing", "error", "malformed"}]

NoRead == [stage |-> "idle", api |-> FALSE, how |-> "head", keys |-> {}, due |-> {},
           got |-> {}, lost |-> FALSE, answer |-> "none"]

StoreTypeOK == ServerTypeOK /\ stored \in Int /\ read \in [Readers -> ReadSet]

StoreInit == ServerInit /\ stored = 0 /\ read = [d \in Readers |-> NoRead]

-----------------------------------------------------------------------------
(* restic-api's handlers. *)

(* The guard checks the token and the path, and the handler runs up to its *)
(* first call to S3.                                                       *)
ApiReceive(r) == Receive(r) /\ UNCHANGED <<stored, read>>

ApiCreate(r) == (Check(r) \/ Make(r)) /\ UNCHANGED <<stored, read>>

(* putObject compares the hash when the upload is done, and what was       *)
(* stored is counted.                                                      *)
ApiPut(r) ==
    /\ at[r] = "put" /\ bucket
    /\ IF Conditional(req[r]) /\ objects[req[r].key] # NoObject
       THEN Answer(r, "exists") /\ UNCHANGED <<objects, stored>>
       ELSE /\ Store(req[r].key, req[r].body)
            /\ IF Mismatch(req[r])
               THEN Call(r, "undo") /\ UNCHANGED stored
               ELSE Answer(r, "ok") /\ stored' = stored + 1
    /\ UNCHANGED <<bucket, meter, req, read>>

(* The upload fails, or S3 finds that a body was damaged on the way.       *)
ApiPutFails(r) ==
    /\ \/ PutFails(r)
       \/ /\ "s3" \in Faults /\ at[r] = "put" /\ req[r].key # Config
          /\ Answer(r, "mismatch")
          /\ UNCHANGED <<bucket, objects, meter, req>>
    /\ UNCHANGED <<stored, read>>

(* The bad blob is deleted; unlike michael's, the failure of that is told. *)
ApiUndo(r) ==
    /\ at[r] = "undo"
    /\ \/ Store(req[r].key, NoObject) /\ Answer(r, "mismatch")
       \/ /\ "undo" \in Faults
          /\ Store(req[r].key, NoObject) \/ UNCHANGED objects
          /\ Answer(r, "error")
    /\ UNCHANGED <<bucket, meter, req, stored, read>>

(* An object without a byte has no ContentLength to lower the meter by.    *)
ApiHead(r) ==
    /\ at[r] = "head"
    /\ IF objects[req[r].key] \in {NoObject, Empty} THEN Answer(r, "error") ELSE Call(r, "delete")
    /\ UNCHANGED <<bucket, objects, meter, req, stored, read>>

ApiDelete(r) ==
    /\ at[r] = "delete"
    /\ Store(req[r].key, NoObject)
    /\ stored' = stored - 1
    /\ Answer(r, "ok")
    /\ UNCHANGED <<bucket, meter, req, read>>

ApiCallFails(r) == CallFails(r) /\ UNCHANGED <<stored, read>>

ApiHandle(r) ==
    \/ ApiCreate(r)
    \/ ApiPut(r) \/ ApiPutFails(r) \/ ApiUndo(r)
    \/ ApiHead(r) \/ ApiDelete(r) \/ ApiCallFails(r)

-----------------------------------------------------------------------------
(* The reading operations of both servers. *)

Acknowledged == {k \in Keys \ LockFiles :
    \E r \in Requests : req[r].op = "save" /\ reply[r] = "ok" /\ req[r].key = k}

ReceiveRead(d, api, how, keys) ==
    /\ read[d].stage = "idle"
    /\ how = "list" <=> keys \in {Blobs, LockFiles}
    /\ read' = [read EXCEPT ![d] = [NoRead EXCEPT
          !.stage = "asked", !.api = api, !.how = how, !.keys = keys,
          !.due = Acknowledged \cap keys]]
    /\ UNCHANGED <<serverVars, stored>>

AnswerRead(d, status, got, lost) ==
    /\ read' = [read EXCEPT ![d] = [@ EXCEPT !.stage = "done", !.answer = status, !.got = got, !.lost = lost]]
    /\ UNCHANGED <<serverVars, stored>>

Present(d) == {k \in read[d].keys : objects[k] # NoObject}

(* HeadObject or GetObject: of a head, whatever goes wrong is 404.         *)
Missing(d) == IF read[d].how = "head" THEN "missing" ELSE "error"

ReadOne(d) ==
    /\ read[d].stage = "asked" /\ read[d].how # "list"
    /\ IF Present(d) = {} THEN AnswerRead(d, Missing(d), {}, FALSE)
                          ELSE AnswerRead(d, "ok", read[d].keys, FALSE)

(* ListObjectsV2: one page, and nothing tells the client that it is one.   *)
FirstPage(d) == {page \in SUBSET Present(d) :
    IF Cardinality(Present(d)) <= Page THEN page = Present(d) ELSE Cardinality(page) = Page}

(* restic-api refuses a listing in which an object has no size.            *)
Sizeless(d, page) == read[d].api /\ \E k \in page : objects[k] = Empty

List(d) ==
    /\ read[d].stage = "asked" /\ read[d].how = "list"
    /\ \E page \in FirstPage(d) :
          IF Sizeless(d, page) THEN AnswerRead(d, "malformed", {}, FALSE)
                               ELSE AnswerRead(d, "ok", page, FALSE)

ReadFails(d) ==
    /\ "s3" \in Faults /\ read[d].stage = "asked"
    /\ AnswerRead(d, Missing(d), {}, TRUE)

Reading(d) ==
    \/ \E api \in BOOLEAN, how \in {"head", "get", "list"},
          keys \in {{k} : k \in Keys} \cup {Blobs, LockFiles} : ReceiveRead(d, api, how, keys)
    \/ ReadOne(d) \/ List(d) \/ ReadFails(d)

-----------------------------------------------------------------------------
(* One of the servers dies with the requests it is serving and its meter.  *)
Crash(requests) ==
    /\ "crash" \in Faults
    /\ at' = [r \in Requests |-> IF r \in requests /\ at[r] \in AtS3 THEN "done" ELSE at[r]]
    /\ read' = [d \in Readers |->
          IF read[d].stage = "asked" /\ (read[d].api <=> requests = OldRequests)
          THEN [read[d] EXCEPT !.stage = "done", !.lost = TRUE] ELSE read[d]]
    /\ IF requests = OldRequests THEN stored' = 0 /\ UNCHANGED meter
                                 ELSE meter' = 0 /\ UNCHANGED stored
    /\ UNCHANGED <<bucket, objects, req, reply>>

Michael(r) == (Receive(r) \/ Handle(r)) /\ UNCHANGED <<stored, read>>

StoreNext ==
    \/ \E r \in Requests \ OldRequests : Michael(r)
    \/ \E r \in OldRequests : ApiReceive(r) \/ ApiHandle(r)
    \/ \E d \in Readers : Reading(d)
    \/ Crash(OldRequests) \/ Crash(Requests \ OldRequests)

StoreSpec == StoreInit /\ [][StoreNext]_storeVars

-----------------------------------------------------------------------------
(* Properties.  ObjectServer's AcknowledgedIsStored and                    *)
(* ImplementsWriteOnceStore are checked of the two servers together.       *)

Honest(x) == ~x.lost =>
    \/ x.due \subseteq x.got
    \/ x.answer = "ok" /\ x.how = "list" /\ Cardinality(x.got) = Page
    \/ x.answer = "malformed"

(* What the server said it had stored, whichever of the two it was, is in  *)
(* the answer of every later reading request to either, but for a listing  *)
(* that is cut at a page, one that restic-api refuses, and an answer that  *)
(* S3 failed.  (For tokens with writeOnce.)                                *)
ReadsAreHonest == \A d \in Readers : read[d].stage = "done" => Honest(read[d])
=============================================================================
