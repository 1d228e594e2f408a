--------------------------- MODULE RepositoryTokens ---------------------------
(***************************************************************************)
(* The write-only flag of a repository, from the row in the cloud API's    *)
(* database (RepositoryService of yucca-api and of yucca-admin-api), by    *)
(* way of the token that createUrl signs, to the requests that restic      *)
(* makes of michael with that token.                                       *)
(*                                                                         *)
(* Every call of the cloud API reads the row first and acts after an       *)
(* await; calls overlap, on one or several instances of the API.  A token  *)
(* carries the flag as it was when the row was read, and is good until it  *)
(* expires.                                                                *)
(***************************************************************************)
EXTENDS ObjectServer

CONSTANTS
    Edits,  \* the calls of the cloud API that will be made, each used once
    Admins  \* do administrators change the flag

ASSUME TokenAssumption == Admins \in BOOLEAN

VARIABLES
    row,    \* the repository's row: "worm", "plain" (writable), or "deleted"
    issued, \* the flags in the tokens that are in use
    edit,   \* what each call wants
    stage,  \* how far it is
    seen    \* the flag it read

cloudVars == <<row, issued, edit, stage, seen>>
tokenVars == <<serverVars, cloudVars>>

Flags == {"plain", "worm"}
EditSet == {"url", "enable", "disable", "delete"}

TokensTypeOK ==
    /\ ServerTypeOK
    /\ row \in Flags \cup {"deleted"}
    /\ issued \subseteq BOOLEAN
    /\ edit \in [Edits -> EditSet]
    /\ stage \in [Edits -> {"idle", "checked", "over"}]
    /\ seen \in [Edits -> BOOLEAN]

(* The repository has been created, in the database and by restic init.    *)
TokensInit ==
    /\ bucket = TRUE /\ Unused
    /\ row \in Flags
    /\ issued = {}
    /\ edit \in [Edits -> EditSet]
    /\ stage = [e \in Edits |-> "idle"]
    /\ seen = [e \in Edits |-> FALSE]

Advance(e, s) == stage' = [stage EXCEPT ![e] = s]

(* Variant: update without its refusal.                                    *)
RefusedOnlyDelete(e) == row = "worm" /\ edit[e] = "delete"

(* A write-only repository is neither opened again nor deleted.            *)
Refused(e) == row = "worm" /\ edit[e] \in {"disable", "delete"}

(* The row is read (and found to be the user's), and the call refused or   *)
(* not.                                                                    *)
ReadRow(e) ==
    /\ stage[e] = "idle"
    /\ IF row = "deleted" \/ Refused(e)
       THEN Advance(e, "over") /\ UNCHANGED seen
       ELSE Advance(e, "checked") /\ seen' = [seen EXCEPT ![e] = row = "worm"]
    /\ UNCHANGED <<row, issued, edit>>

(* What the call leaves in the row. *)
Written(want) ==
    CASE want = "enable" -> "worm" [] want = "disable" -> "plain" [] OTHER -> "deleted"

(* The update or the deletion of the row, with no condition but its id.    *)
WriteRow(e) ==
    /\ stage[e] = "checked" /\ edit[e] # "url"
    /\ row' = IF row = "deleted" THEN row ELSE Written(edit[e])
    /\ Advance(e, "over")
    /\ UNCHANGED <<issued, edit, seen>>

(* Variant: every token says that it may delete.                           *)
SignPlain(e) ==
    /\ stage[e] = "checked" /\ edit[e] = "url"
    /\ issued' = issued \cup {FALSE}
    /\ Advance(e, "over")
    /\ UNCHANGED <<row, edit, seen>>

(* createUrl signs a token.                                                *)
Sign(e) ==
    /\ stage[e] = "checked" /\ edit[e] = "url"
    /\ issued' = issued \cup {seen[e]}
    /\ Advance(e, "over")
    /\ UNCHANGED <<row, edit, seen>>

(* An administrator sets the flag either way.                              *)
AdminUpdate ==
    /\ Admins /\ row # "deleted"
    /\ row' \in Flags
    /\ UNCHANGED <<issued, edit, stage, seen>>

(* The last token with this flag expires.                                  *)
Expire(w) ==
    /\ w \in issued
    /\ issued' = issued \ {w}
    /\ UNCHANGED <<row, edit, stage, seen>>

(* michael looks at the token when a request arrives, and at nothing else. *)
Use(r) == \E q \in RequestSet : q.worm \in issued /\ ReceiveRequest(r, q)

CloudStep ==
    /\ \/ \E e \in Edits : ReadRow(e) \/ WriteRow(e) \/ Sign(e)
       \/ AdminUpdate
       \/ \E w \in BOOLEAN : Expire(w)
    /\ UNCHANGED serverVars

ServerStep ==
    /\ \E r \in Requests : Use(r) \/ Handle(r) \/ UndoRetried(r)
    /\ UNCHANGED cloudVars

TokensNext == CloudStep \/ ServerStep

TokensSpec == TokensInit /\ [][TokensNext]_tokenVars

-----------------------------------------------------------------------------
(* Properties. *)

(* update and delete refuse to open or delete a write-only repository, but *)
(* test the row they read.  What the code does keep: once a repository is  *)
(* write-only, only an administrator opens it again, or a call that read   *)
(* the row before it was.                                                  *)
OnlyOlderCallsReopen ==
    [][row = "worm" /\ row' # "worm" =>
          AdminUpdate \/ \E e \in Edits : ~seen[e] /\ WriteRow(e)]_tokenVars

(* The repository is write-only, and what is left of the time before has   *)
(* worn out: the tokens without the flag, the requests made with them, the *)
(* calls that read the row, and the blobs that two uploads are undoing.    *)
WornOut ==
    /\ row = "worm"
    /\ issued \subseteq {TRUE}
    /\ \A e \in Edits : stage[e] = "checked" => seen[e] /\ edit[e] \in {"url", "enable"}
    /\ \A r \in Requests : at[r] \in AtS3 => req[r].worm
    /\ UndoesItsOwn

KeptStays ==
    \A k \in Keys \ LockFiles : Kept[k] # NoObject => Kept'[k] = Kept[k]

(* A repository that is made write-only keeps what it holds from the       *)
(* moment when its old tokens have expired and the requests under way are  *)
(* done; it stays so until an administrator changes the flag, or the SDK   *)
(* repeats an undo that has had its effect and may yet delete what another *)
(* stored.  (The flag itself does not bind michael, which sees only        *)
(* tokens.)                                                                *)
OldTokensWearOut ==
    [][WornOut => \/ WornOut' /\ KeptStays
                  \/ AdminUpdate
                  \/ \E r \in Requests : UndoRetried(r)]_tokenVars
=============================================================================
