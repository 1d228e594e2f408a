---------------------------- MODULE CloudAccounts ----------------------------
(***************************************************************************)
(* Accounts and sessions of the cloud: yucca-api (logins with a redirect   *)
(* or with a device code, authenticated calls, logout) and yucca-admin-api *)
(* (disabling, enabling and deleting accounts, ending sessions), two       *)
(* processes on one database.  One statement is one step, and between two  *)
(* statements of a call every other call may run.                          *)
(*                                                                         *)
(* Simplifications.                                                        *)
(*  - A login makes at most one session, which is named after it.  Its     *)
(*    access token is that name, and does not expire in the database.      *)
(*  - The redirecting logins are made in one browser, which sends both     *)
(*    cookies of a login or neither.                                       *)
(*  - Names and addresses are left out; that an address is taken is one of *)
(*    the failures of a statement.                                         *)
(*  - Of a user's calls two are modelled, creating a repository and        *)
(*    logging out; the others are those of RepositoryTokens.               *)
(***************************************************************************)
EXTENDS Naturals, Sequences, FiniteSets

CONSTANTS
    Persons,   \* who can sign in: the subs of the identity provider
    MaxUsers,  \* a bound: how many rows of users are ever made
    CodeLogins, DeviceLogins,
    Calls,     \* the calls that users make, each used once
    AdminOps,  \* the calls that administrators make, each used once
    None

Ids == 1 .. MaxUsers \* of rows of users, in the order of their creation
Logins == CodeLogins \cup DeviceLogins

ASSUME AccountsAssumption ==
    /\ None \notin Persons \cup Ids \cup Logins
    /\ CodeLogins \cap DeviceLogins = {}
    /\ MaxUsers \in Nat

VARIABLES
    sub,      \* the rows of users: the person of each id
    disabled, \* the ids whose row says disabled
    made,     \* how many rows of users have been made
    session,  \* the rows of sessions: the user id of each login's
    owner,    \* the rows of repositories: the user id, by the call that created it
    cookie,   \* the login whose state and verifier the browser holds
    login, call, op \* the logins, users' calls and administrators' calls

tables == <<sub, disabled, made, session, owner>>
accountVars == <<tables, cookie, login, call, op>>

LoginStages == {"idle", "away", "granted", "update", "create", "session", "answer", "done", "failed"}
AccountsTypeOK ==
    /\ sub \in [Ids -> Persons \cup {None}]
    /\ disabled \subseteq Ids /\ made \in 0 .. MaxUsers
    /\ session \in [Logins -> Ids \cup {None}]
    /\ owner \in [Calls -> Ids \cup {None}]
    /\ cookie \in CodeLogins \cup {None}
    /\ login \in [Logins -> [stage : LoginStages, who : Persons \cup {None}, user : Ids \cup {None},
                             sent : Seq({"START", "SUCCESS", "FAILURE"})]]
    /\ call \in [Calls -> [stage : {"idle", "handler", "done", "refused"}, what : {"create", "logout"},
                           user : Ids \cup {None}, login : Logins \cup {None}]]
    /\ op \in [AdminOps -> [stage : {"idle", "write", "done", "refused"},
                            what : {"disable", "enable", "delete", "end"}, user : Ids \cup {None},
                            ended : SUBSET Logins, late : SUBSET Logins, undone : BOOLEAN]]

AccountsInit ==
    /\ sub = [i \in Ids |-> None] /\ disabled = {} /\ made = 0
    /\ session = [l \in Logins |-> None]
    /\ owner = [c \in Calls |-> None]
    /\ cookie = None
    /\ login = [l \in Logins |-> [stage |-> "idle", who |-> None, user |-> None, sent |-> <<>>]]
    /\ call = [c \in Calls |-> [stage |-> "idle", what |-> "create", user |-> None, login |-> None]]
    /\ op = [a \in AdminOps |-> [stage |-> "idle", what |-> "enable", user |-> None,
                                 ended |-> {}, late |-> {}, undone |-> FALSE]]

SessionsOf(i) == {l \in Logins : session[l] = i}
Row(p) == {i \in Ids : sub[i] = p}

-----------------------------------------------------------------------------
(* Logins. *)

Enter(l, stage) == login' = [login EXCEPT ![l].stage = stage]

(* A login by device code tells its stream what became of it and ends it.  *)
Send(l, stage, message) ==
    login' = [login EXCEPT ![l] = [@ EXCEPT
        !.stage = stage, !.sent = IF l \in DeviceLogins THEN Append(login[l].sent, message) ELSE login[l].sent]]

(* Variant: the stream is left as it is. *)
FailUnsent(l) == Enter(l, "failed")

Fail(l) == Send(l, "failed", "FAILURE")

(* The browser is sent to the identity provider, with the cookies of this  *)
(* login in the place of those of an earlier one.                          *)
Authorize(l) ==
    /\ l \in CodeLogins /\ login[l].stage = "idle"
    /\ cookie' = l
    /\ Enter(l, "away")
    /\ UNCHANGED <<tables, call, op>>

(* It comes back, with an error or without the cookies that fit (another   *)
(* login has replaced or cleared them), or as somebody.                    *)
Callback(l) ==
    /\ l \in CodeLogins /\ login[l].stage = "away"
    /\ \/ Fail(l)
       \/ cookie = l /\ \E p \in Persons :
             login' = [login EXCEPT ![l] = [@ EXCEPT !.stage = "granted", !.who = p]]
    /\ UNCHANGED <<tables, cookie, call, op>>

StartDeviceFlow(l) ==
    /\ l \in DeviceLogins /\ login[l].stage = "idle"
    /\ Send(l, "away", "START") \/ Fail(l)
    /\ UNCHANGED <<tables, cookie, call, op>>

(* Polling ends: the code was confirmed by somebody, or has expired.       *)
DeviceAnswer(l) ==
    /\ l \in DeviceLogins /\ login[l].stage = "away"
    /\ \/ Fail(l)
       \/ \E p \in Persons : login' = [login EXCEPT ![l] = [@ EXCEPT !.stage = "granted", !.who = p]]
    /\ UNCHANGED <<tables, cookie, call, op>>

(* Variant: the flag is not looked at.                                     *)
GetBySubUntested(l) ==
    /\ login[l].stage = "granted"
    /\ IF Row(login[l].who) = {} THEN Enter(l, "create")
       ELSE \E i \in Row(login[l].who) : login' = [login EXCEPT ![l] = [@ EXCEPT !.stage = "update", !.user = i]]
    /\ UNCHANGED <<tables, cookie, call, op>>

(* getOrCreateUser reads the row of the sub and looks at its flag.         *)
GetBySub(l) ==
    /\ login[l].stage = "granted"
    /\ IF Row(login[l].who) = {} THEN Enter(l, "create")
       ELSE \E i \in Row(login[l].who) :
              IF i \in disabled THEN Fail(l)
              ELSE login' = [login EXCEPT ![l] = [@ EXCEPT !.stage = "update", !.user = i]]
    /\ UNCHANGED <<tables, cookie, call, op>>

(* The name and the address are written; there may be no row any more.     *)
UpdateUser(l) ==
    /\ login[l].stage = "update"
    /\ Enter(l, "session")
    /\ UNCHANGED <<tables, cookie, call, op>>

(* The sub is unique: of two first logins of a person the second fails.    *)
CreateUser(l) ==
    /\ login[l].stage = "create"
    /\ \/ /\ Row(login[l].who) # {} /\ Fail(l) /\ UNCHANGED <<sub, made>>
       \/ /\ Row(login[l].who) = {}
          /\ made < MaxUsers /\ made' = made + 1
          /\ sub' = [sub EXCEPT ![made + 1] = login[l].who]
          /\ login' = [login EXCEPT ![l] = [@ EXCEPT !.stage = "session", !.user = made + 1]]
    /\ UNCHANGED <<disabled, session, owner, cookie, call, op>>

(* Variant: a session for a row that may be gone. *)
CreateSessionAnyway(l) ==
    /\ login[l].stage = "session"
    /\ Enter(l, "answer") /\ session' = [session EXCEPT ![l] = login[l].user]
    /\ UNCHANGED <<sub, disabled, made, owner, cookie, call, op>>

(* A session refers to a user: none is made for a row that is gone.        *)
CreateSession(l) ==
    /\ login[l].stage = "session"
    /\ IF sub[login[l].user] = None
       THEN Fail(l) /\ UNCHANGED session
       ELSE Enter(l, "answer") /\ session' = [session EXCEPT ![l] = login[l].user]
    /\ UNCHANGED <<sub, disabled, made, owner, cookie, call, op>>

(* The answer carries the token, and clears the cookies of whatever login  *)
(* they belong to by now.                                                  *)
AnswerLogin(l) ==
    /\ login[l].stage = "answer"
    /\ Send(l, "done", "SUCCESS")
    /\ cookie' = IF l \in CodeLogins THEN None ELSE cookie
    /\ UNCHANGED <<tables, call, op>>

(* A call to the identity provider or a statement fails.                   *)
LoginFails(l) ==
    /\ login[l].stage \in {"granted", "update", "create", "session"}
    /\ Fail(l)
    /\ UNCHANGED <<tables, cookie, call, op>>

LoginStep(l) ==
    \/ Callback(l) \/ DeviceAnswer(l)
    \/ GetBySub(l) \/ UpdateUser(l) \/ CreateUser(l) \/ CreateSession(l)
    \/ AnswerLogin(l) \/ LoginFails(l)

-----------------------------------------------------------------------------
(* Calls of users. *)

(* The guard joins the session with a user that is not disabled.           *)
Valid(l) == session[l] # None /\ session[l] \notin disabled

Authenticate(c) ==
    /\ call[c].stage = "idle"
    /\ \E l \in Logins, what \in {"create", "logout"} :
          /\ login[l].stage = "done"
          /\ call' = [call EXCEPT ![c] =
                [stage |-> IF Valid(l) THEN "handler" ELSE "refused", what |-> what,
                 user |-> session[l], login |-> l]]
    /\ UNCHANGED <<tables, cookie, login, op>>

(* A repository refers to a user, too.                                     *)
CreateRepository(c) ==
    /\ call[c].stage = "handler" /\ call[c].what = "create"
    /\ IF sub[call[c].user] = None
       THEN call' = [call EXCEPT ![c].stage = "refused"] /\ UNCHANGED owner
       ELSE /\ owner' = [owner EXCEPT ![c] = call[c].user]
            /\ call' = [call EXCEPT ![c].stage = "done"]
    /\ UNCHANGED <<sub, disabled, made, session, cookie, login, op>>

Logout(c) ==
    /\ call[c].stage = "handler" /\ call[c].what = "logout"
    /\ session' = [session EXCEPT ![call[c].login] = None]
    /\ call' = [call EXCEPT ![c].stage = "done"]
    /\ UNCHANGED <<sub, disabled, made, owner, cookie, login, op>>

-----------------------------------------------------------------------------
(* Calls of administrators.  ended: the sessions that a call has deleted;  *)
(* late: the logins past the test of the flag when it was set; undone: the *)
(* account has been enabled since.                                         *)

Unless(s) == [l \in Logins |-> IF l \in s THEN None ELSE session[l]]

(* The guard asks the identity provider whose access token it is; if it is *)
(* nobody's, that is all.                                                  *)
AdminRefused(a) ==
    /\ op[a].stage = "idle"
    /\ op' = [op EXCEPT ![a].stage = "refused"]
    /\ UNCHANGED <<tables, cookie, login, call>>

(* update: the sessions are deleted first, and the flag is set after that. *)
DisableDeletes(a, i) ==
    /\ op[a].stage = "idle" /\ sub[i] # None
    /\ session' = Unless(SessionsOf(i))
    /\ op' = [op EXCEPT ![a] = [@ EXCEPT !.stage = "write", !.what = "disable", !.user = i,
                                         !.ended = SessionsOf(i)]]
    /\ UNCHANGED <<sub, disabled, made, owner, cookie, login, call>>

DisableWrites(a) ==
    /\ op[a].stage = "write" /\ op[a].what = "disable"
    /\ disabled' = IF sub[op[a].user] = None THEN disabled ELSE disabled \cup {op[a].user}
    /\ op' = [op EXCEPT ![a] = [@ EXCEPT
          !.stage = "done", !.late = {l \in Logins : login[l].user = op[a].user}]]
    /\ UNCHANGED <<sub, made, session, owner, cookie, login, call>>

Enable(a, i) ==
    /\ op[a].stage = "idle" /\ sub[i] # None
    /\ disabled' = disabled \ {i}
    /\ op' = [b \in AdminOps |->
          IF b = a THEN [op[a] EXCEPT !.stage = "done", !.what = "enable", !.user = i]
          ELSE IF op[b].user = i THEN [op[b] EXCEPT !.undone = (op[b].stage = "done")] ELSE op[b]]
    /\ UNCHANGED <<sub, made, session, owner, cookie, login, call>>

(* delete: refused of an owner of repositories ...                         *)
HasRepositories(i) == \E c \in Calls : owner[c] = i

DeleteTests(a, i) ==
    /\ op[a].stage = "idle" /\ sub[i] # None
    /\ op' = [op EXCEPT ![a] = [@ EXCEPT !.stage = IF HasRepositories(i) THEN "refused" ELSE "write",
                                         !.what = "delete", !.user = i]]
    /\ UNCHANGED <<tables, cookie, login, call>>

(* ... which the database does again when the row is deleted, with its     *)
(* sessions.                                                               *)
DeleteWrites(a) ==
    /\ op[a].stage = "write" /\ op[a].what = "delete"
    /\ IF HasRepositories(op[a].user)
       THEN op' = [op EXCEPT ![a].stage = "refused"] /\ UNCHANGED <<sub, disabled, session>>
       ELSE /\ sub' = [sub EXCEPT ![op[a].user] = None]
            /\ disabled' = disabled \ {op[a].user}
            /\ session' = Unless(SessionsOf(op[a].user))
            /\ op' = [op EXCEPT ![a].stage = "done"]
    /\ UNCHANGED <<made, owner, cookie, login, call>>

(* One session of a user is ended, or all of them.                         *)
EndSessions(a, i) ==
    /\ op[a].stage = "idle" /\ sub[i] # None
    /\ \E ended \in {SessionsOf(i)} \cup {{l} : l \in SessionsOf(i)} :
          /\ session' = Unless(ended)
          /\ op' = [op EXCEPT ![a] = [@ EXCEPT !.stage = "done", !.what = "end", !.user = i, !.ended = ended]]
    /\ UNCHANGED <<sub, disabled, made, owner, cookie, login, call>>

AdminCall(a) ==
    \/ AdminRefused(a)
    \/ \E i \in Ids : DisableDeletes(a, i) \/ Enable(a, i) \/ DeleteTests(a, i) \/ EndSessions(a, i)
    \/ DisableWrites(a) \/ DeleteWrites(a)

AccountsNext ==
    \/ \E l \in Logins : Authorize(l) \/ StartDeviceFlow(l) \/ LoginStep(l)
    \/ \E c \in Calls : Authenticate(c) \/ CreateRepository(c) \/ Logout(c)
    \/ \E a \in AdminOps : AdminCall(a)

(* The servers go on with what has begun, and a device code expires.       *)
AccountsFairness == \A l \in DeviceLogins : WF_accountVars(LoginStep(l))

AccountsSpec == AccountsInit /\ [][AccountsNext]_accountVars /\ AccountsFairness

-----------------------------------------------------------------------------
(* Properties. *)

(* What a call that disables an account or ends sessions has deleted does  *)
(* not come back; and until the account is enabled again no session of it  *)
(* is there, not even one that is of no use yet and would be after that,   *)
(* but those of logins that were past the test of the flag when it was     *)
(* set.                                                                    *)
DisabledIsLoggedOut == \A a \in AdminOps :
    /\ \A l \in op[a].ended : session[l] = None
    /\ op[a].what = "disable" /\ op[a].stage = "done" /\ ~op[a].undone =>
          SessionsOf(op[a].user) \subseteq op[a].late

(* However first logins, deletions of accounts and new logins of the same  *)
(* person meet: a person has one account, a session leads to the account   *)
(* of who signed in, and a repository to an account that exists.           *)
AccountsAreTheirs ==
    /\ \A p \in Persons : Cardinality(Row(p)) <= 1
    /\ \A l \in Logins : session[l] # None => sub[session[l]] = login[l].who
    /\ \A c \in Calls : owner[c] # None => sub[owner[c]] # None

(* The stream of a login by device code ends: with SUCCESS if a session    *)
(* was made for it, else with FAILURE.                                     *)
DeviceStreamsEnd == \A l \in DeviceLogins :
    login[l].stage # "idle" ~>
        /\ login[l].stage \in {"done", "failed"}
        /\ login[l].sent \in {<<"FAILURE">>, <<"START", "FAILURE">>, <<"START", "SUCCESS">>}
=============================================================================
