------------------------ MODULE CloudAccountsProofs ------------------------
(***************************************************************************)
(* Proofs about CloudAccounts: the tables keep their types, accounts,      *)
(* sessions and repositories go together, and a disabled account stays     *)
(* logged out, for any persons, logins, calls and administrators.          *)
(***************************************************************************)
EXTENDS CloudAccounts, FiniteSetTheorems, TLAPS

LoginRows == [stage : LoginStages, who : Persons \cup {None}, user : Ids \cup {None},
              sent : Seq({"START", "SUCCESS", "FAILURE"})]
CallRows == [stage : {"idle", "handler", "done", "refused"}, what : {"create", "logout"},
             user : Ids \cup {None}, login : Logins \cup {None}]
OpRows == [stage : {"idle", "write", "done", "refused"},
           what : {"disable", "enable", "delete", "end"}, user : Ids \cup {None},
           ended : SUBSET Logins, late : SUBSET Logins, undone : BOOLEAN]

-----------------------------------------------------------------------------
(* Types. *)

(* The tables begin with their types.                                      *)
LEMMA InitTypes == AccountsInit => AccountsTypeOK
<1> SUFFICES ASSUME AccountsInit PROVE AccountsTypeOK
    OBVIOUS
<1> USE AccountsAssumption DEF AccountsInit
<1>1. sub \in [Ids -> Persons \cup {None}] /\ disabled \subseteq Ids /\ made \in 0 .. MaxUsers
    OBVIOUS
<1>2. session \in [Logins -> Ids \cup {None}] /\ owner \in [Calls -> Ids \cup {None}]
    OBVIOUS
<1>3. cookie \in CodeLogins \cup {None}
    OBVIOUS
<1>4. login \in [Logins -> LoginRows]
  <2>1. <<>> \in Seq({"START", "SUCCESS", "FAILURE"})
      OBVIOUS
  <2>2. [stage |-> "idle", who |-> None, user |-> None, sent |-> <<>>] \in LoginRows
      BY <2>1 DEF LoginRows, LoginStages
  <2> QED BY <2>2, Zenon
<1>5. call \in [Calls -> CallRows]
    BY DEF CallRows
<1>6. op \in [AdminOps -> OpRows]
    BY DEF OpRows
<1> QED BY <1>1, <1>2, <1>3, <1>4, <1>5, <1>6 DEF AccountsTypeOK, LoginRows, CallRows, OpRows

(* A login that moves on, with or without a message to its stream, stays   *)
(* a login.                                                                *)
LEMMA SendType ==
    ASSUME AccountsTypeOK, NEW l \in Logins, NEW stage \in LoginStages,
           NEW message \in {"START", "SUCCESS", "FAILURE"}, Send(l, stage, message)
    PROVE  login' \in [Logins -> LoginRows]
<1>1. login \in [Logins -> LoginRows] /\ login[l] \in LoginRows
    BY DEF AccountsTypeOK, LoginRows
<1>2. login[l].sent \in Seq({"START", "SUCCESS", "FAILURE"})
    BY <1>1 DEF LoginRows
<1>3. Append(login[l].sent, message) \in Seq({"START", "SUCCESS", "FAILURE"})
    BY <1>2
<1> DEFINE sent == IF l \in DeviceLogins THEN Append(login[l].sent, message) ELSE login[l].sent
<1>4. sent \in Seq({"START", "SUCCESS", "FAILURE"})
    BY <1>2, <1>3
<1> HIDE DEF sent
<1>5. [login[l] EXCEPT !.stage = stage, !.sent = sent] \in LoginRows
    BY <1>1, <1>4 DEF LoginRows
<1>6. login' = [login EXCEPT ![l] = [login[l] EXCEPT !.stage = stage, !.sent = sent]]
    BY <1>1 DEF Send, sent
<1> QED BY <1>1, <1>5, <1>6

(* A login that moves to another stage keeps its row's type.               *)
LEMMA EnterType ==
    ASSUME AccountsTypeOK, NEW l \in Logins, NEW stage \in LoginStages, Enter(l, stage)
    PROVE  login' \in [Logins -> LoginRows]
<1>1. login \in [Logins -> LoginRows]
    BY DEF AccountsTypeOK, LoginRows
<1>2. [login[l] EXCEPT !.stage = stage] \in LoginRows
    BY <1>1 DEF LoginRows
<1> QED BY <1>1, <1>2 DEF Enter

(* A login that fails keeps its row's type.                                *)
LEMMA FailType ==
    ASSUME AccountsTypeOK, NEW l \in Logins, Fail(l)
    PROVE  login' \in [Logins -> LoginRows]
BY SendType DEF Fail, LoginStages

(* A step of a login keeps the types.                                      *)
LEMMA LoginTypes ==
    ASSUME AccountsTypeOK, NEW l \in Logins,
           Authorize(l) \/ StartDeviceFlow(l) \/ LoginStep(l)
    PROVE  AccountsTypeOK'
<1> USE AccountsAssumption DEF tables
<1>0. /\ login \in [Logins -> LoginRows] /\ login[l] \in LoginRows
      /\ CodeLogins \subseteq Logins /\ DeviceLogins \subseteq Logins
    BY DEF AccountsTypeOK, LoginRows, Logins
<1>a. ASSUME login' \in [Logins -> LoginRows], UNCHANGED <<tables, call, op>>,
             cookie' \in CodeLogins \cup {None}
      PROVE  AccountsTypeOK'
    BY <1>a DEF AccountsTypeOK, LoginRows
<1>b. cookie \in CodeLogins \cup {None}
    BY DEF AccountsTypeOK
<1>c. ASSUME login' \in [Logins -> LoginRows], sub' \in [Ids -> Persons \cup {None}],
             made' \in 0 .. MaxUsers, UNCHANGED <<disabled, session, owner, cookie, call, op>>
      PROVE  AccountsTypeOK'
    BY <1>c DEF AccountsTypeOK, LoginRows
<1>1. CASE Authorize(l)
    BY <1>1, <1>a, EnterType DEF Authorize, LoginStages
<1>2. CASE StartDeviceFlow(l)
    BY <1>2, <1>a, <1>b, SendType, FailType DEF StartDeviceFlow, LoginStages
<1>3. ASSUME NEW p \in Persons, login' = [login EXCEPT ![l] = [@ EXCEPT !.stage = "granted", !.who = p]]
      PROVE  login' \in [Logins -> LoginRows]
  <2>1. [login[l] EXCEPT !.stage = "granted", !.who = p] \in LoginRows
      BY <1>0 DEF LoginRows, LoginStages
  <2> QED BY <2>1, <1>3, <1>0
<1>4. CASE Callback(l)
    BY <1>4, <1>3, <1>a, <1>b, FailType DEF Callback
<1>5. CASE DeviceAnswer(l)
    BY <1>5, <1>3, <1>a, <1>b, FailType DEF DeviceAnswer
<1>6. ASSUME NEW i \in Ids, NEW stage \in LoginStages,
             login' = [login EXCEPT ![l] = [@ EXCEPT !.stage = stage, !.user = i]]
      PROVE  login' \in [Logins -> LoginRows]
  <2>1. [login[l] EXCEPT !.stage = stage, !.user = i] \in LoginRows
      BY <1>0 DEF LoginRows, LoginStages
  <2> QED BY <2>1, <1>6, <1>0
<1>7. CASE GetBySub(l)
  <2>1. CASE Enter(l, "create")
      BY <2>1, <1>7, <1>a, <1>b, EnterType DEF GetBySub, LoginStages
  <2>2. CASE Fail(l)
      BY <2>2, <1>7, <1>a, <1>b, FailType DEF GetBySub
  <2>3. ASSUME NEW i \in Ids, login' = [login EXCEPT ![l] = [@ EXCEPT !.stage = "update", !.user = i]]
        PROVE  AccountsTypeOK'
      BY <2>3, <1>6, <1>7, <1>a, <1>b DEF GetBySub, LoginStages
  <2> QED BY <2>1, <2>2, <2>3, <1>7 DEF GetBySub, Row
<1>8. CASE UpdateUser(l)
    BY <1>8, <1>a, <1>b, EnterType DEF UpdateUser, LoginStages
<1>9. CASE CreateUser(l)
  <2>1. CASE Row(login[l].who) # {}
    <3>1. login' \in [Logins -> LoginRows]
        BY <2>1, <1>9, FailType DEF CreateUser
    <3> QED BY <3>1, <2>1, <1>9, <1>a, <1>b DEF CreateUser
  <2>2. CASE Row(login[l].who) = {}
    <3>0. /\ made < MaxUsers /\ made' = made + 1
          /\ sub' = [sub EXCEPT ![made + 1] = login[l].who]
          /\ login' = [login EXCEPT ![l] = [@ EXCEPT !.stage = "session", !.user = made + 1]]
        BY <1>9, <2>2, Zenon DEF CreateUser
    <3>1. sub \in [Ids -> Persons \cup {None}] /\ made \in 0 .. MaxUsers
        BY DEF AccountsTypeOK
    <3>2. made + 1 \in Ids /\ made' \in 0 .. MaxUsers
        BY <3>0, <3>1 DEF Ids
    <3>3. sub' \in [Ids -> Persons \cup {None}] /\ made' \in 0 .. MaxUsers
      <4>1. login[l].who \in Persons \cup {None}
          BY <1>0 DEF LoginRows
      <4> QED BY <3>0, <3>1, <3>2, <4>1
    <3>5. login' \in [Logins -> LoginRows]
        BY <3>0, <3>2, <1>6 DEF LoginStages
    <3>4. UNCHANGED <<disabled, session, owner, cookie, call, op>>
        BY <1>9 DEF CreateUser
    <3> QED BY <3>3, <3>4, <3>5, <1>c
  <2> QED BY <2>1, <2>2
<1>10. CASE CreateSession(l)
  <2>1. login' \in [Logins -> LoginRows]
      BY <1>10, EnterType, FailType DEF CreateSession, LoginStages
  <2>2. session' \in [Logins -> Ids \cup {None}]
      BY <1>10, <1>0 DEF CreateSession, AccountsTypeOK, LoginRows
  <2> QED BY <2>1, <2>2, <1>10 DEF CreateSession, AccountsTypeOK, LoginRows
<1>11. CASE AnswerLogin(l)
    BY <1>11, <1>a, <1>b, SendType DEF AnswerLogin, LoginStages
<1>12. CASE LoginFails(l)
    BY <1>12, <1>a, <1>b, FailType DEF LoginFails
<1> QED BY <1>1, <1>2, <1>4, <1>5, <1>7, <1>8, <1>9, <1>10, <1>11, <1>12 DEF LoginStep

(* A step of a user's call keeps the types.                                *)
LEMMA CallTypes ==
    ASSUME AccountsTypeOK, NEW c \in Calls,
           Authenticate(c) \/ CreateRepository(c) \/ Logout(c)
    PROVE  AccountsTypeOK'
<1> USE AccountsAssumption DEF tables
<1>0. call \in [Calls -> CallRows] /\ call[c] \in CallRows /\ session \in [Logins -> Ids \cup {None}]
    BY DEF AccountsTypeOK, CallRows
<1>1. CASE Authenticate(c)
  <2>1. PICK l \in Logins, what \in {"create", "logout"} :
            call' = [call EXCEPT ![c] =
                [stage |-> IF Valid(l) THEN "handler" ELSE "refused", what |-> what,
                 user |-> session[l], login |-> l]]
      BY <1>1 DEF Authenticate
  <2>2. [stage |-> IF Valid(l) THEN "handler" ELSE "refused", what |-> what,
         user |-> session[l], login |-> l] \in CallRows
      BY <1>0 DEF CallRows
  <2>3. call' \in [Calls -> CallRows]
      BY <2>1, <2>2, <1>0
  <2> QED BY <2>3, <1>1 DEF Authenticate, AccountsTypeOK, CallRows
<1>2. ASSUME NEW stage \in {"done", "refused"}, call' = [call EXCEPT ![c].stage = stage]
      PROVE  call' \in [Calls -> CallRows]
  <2>1. [call[c] EXCEPT !.stage = stage] \in CallRows
      BY <1>0 DEF CallRows
  <2> QED BY <1>2, <2>1, <1>0
<1>3. CASE CreateRepository(c)
  <2>1. call' \in [Calls -> CallRows]
      BY <1>3, <1>2 DEF CreateRepository
  <2>2. owner' \in [Calls -> Ids \cup {None}]
      BY <1>3, <1>0 DEF CreateRepository, AccountsTypeOK, CallRows
  <2> QED BY <2>1, <2>2, <1>3 DEF CreateRepository, AccountsTypeOK, CallRows
<1>4. CASE Logout(c)
  <2>1. call' \in [Calls -> CallRows]
      BY <1>4, <1>2 DEF Logout
  <2>2. session' \in [Logins -> Ids \cup {None}]
      BY <1>4, <1>0 DEF Logout
  <2> QED BY <2>1, <2>2, <1>4 DEF Logout, AccountsTypeOK, CallRows
<1> QED BY <1>1, <1>3, <1>4

(* A step of an administrator's call keeps the types.                      *)
LEMMA OpTypes ==
    ASSUME AccountsTypeOK, NEW a \in AdminOps, AdminCall(a),
           op[a].stage = "write" => op[a].user # None
    PROVE  AccountsTypeOK'
<1> USE AccountsAssumption DEF tables
<1>0. /\ op \in [AdminOps -> OpRows] /\ op[a] \in OpRows
      /\ session \in [Logins -> Ids \cup {None}] /\ disabled \subseteq Ids
    BY DEF AccountsTypeOK, OpRows
<1>u. ASSUME NEW s PROVE Unless(s) \in [Logins -> Ids \cup {None}]
    BY <1>0 DEF Unless
<1>s. ASSUME NEW i PROVE SessionsOf(i) \subseteq Logins
    BY DEF SessionsOf
<1>a. ASSUME op' \in [AdminOps -> OpRows], session' \in [Logins -> Ids \cup {None}],
             sub' \in [Ids -> Persons \cup {None}], disabled' \subseteq Ids,
             UNCHANGED <<made, owner, cookie, login, call>>
      PROVE  AccountsTypeOK'
    BY <1>a DEF AccountsTypeOK, OpRows
<1>b. sub \in [Ids -> Persons \cup {None}]
    BY DEF AccountsTypeOK
<1>1. ASSUME NEW stage \in {"done", "refused"}, op' = [op EXCEPT ![a].stage = stage]
      PROVE  op' \in [AdminOps -> OpRows]
  <2>1. [op[a] EXCEPT !.stage = stage] \in OpRows
      BY <1>0 DEF OpRows
  <2> QED BY <2>1, <1>1, <1>0
<1>2. CASE AdminRefused(a)
    BY <1>2, <1>1, <1>0, <1>a, <1>b DEF AdminRefused
<1>3. ASSUME NEW i \in Ids, DisableDeletes(a, i) PROVE AccountsTypeOK'
  <2>1. [op[a] EXCEPT !.stage = "write", !.what = "disable", !.user = i, !.ended = SessionsOf(i)] \in OpRows
      BY <1>0, <1>s DEF OpRows
  <2>2. op' \in [AdminOps -> OpRows]
      BY <2>1, <1>3, <1>0 DEF DisableDeletes
  <2> QED BY <2>2, <1>3, <1>0, <1>a, <1>b, <1>u DEF DisableDeletes
<1>4. CASE DisableWrites(a)
  <2> DEFINE late == {l \in Logins : login[l].user = op[a].user}
  <2>1. [op[a] EXCEPT !.stage = "done", !.late = late] \in OpRows
      BY <1>0 DEF OpRows
  <2>2. op' \in [AdminOps -> OpRows]
      BY <2>1, <1>4, <1>0 DEF DisableWrites
  <2>3. op[a].user \in Ids
      BY <1>0, <1>4 DEF OpRows, DisableWrites
  <2>4. disabled' \subseteq Ids
      BY <2>3, <1>4, <1>0, <1>b DEF DisableWrites
  <2> QED BY <2>2, <2>4, <1>4, <1>0, <1>a, <1>b DEF DisableWrites
<1>5. ASSUME NEW i \in Ids, Enable(a, i) PROVE AccountsTypeOK'
  <2>1. ASSUME NEW b \in AdminOps
        PROVE  /\ [op[a] EXCEPT !.stage = "done", !.what = "enable", !.user = i] \in OpRows
               /\ [op[b] EXCEPT !.undone = (op[b].stage = "done")] \in OpRows
               /\ op[b] \in OpRows
      BY <1>0 DEF OpRows
  <2>2. op' \in [AdminOps -> OpRows]
      BY <2>1, <1>5 DEF Enable
  <2> QED BY <2>2, <1>5, <1>0, <1>a, <1>b DEF Enable
<1>6. ASSUME NEW i \in Ids, DeleteTests(a, i) PROVE AccountsTypeOK'
  <2>1. [op[a] EXCEPT !.stage = IF HasRepositories(i) THEN "refused" ELSE "write",
                      !.what = "delete", !.user = i] \in OpRows
      BY <1>0 DEF OpRows
  <2>2. op' \in [AdminOps -> OpRows]
      BY <2>1, <1>6, <1>0 DEF DeleteTests
  <2> QED BY <2>2, <1>6, <1>0, <1>a, <1>b DEF DeleteTests
<1>7. CASE DeleteWrites(a)
  <2>1. op' \in [AdminOps -> OpRows]
      BY <1>7, <1>1 DEF DeleteWrites
  <2>2. sub' \in [Ids -> Persons \cup {None}]
      BY <1>7, <1>b DEF DeleteWrites
  <2> QED BY <2>1, <2>2, <1>7, <1>0, <1>a, <1>u DEF DeleteWrites
<1>8. ASSUME NEW i \in Ids, EndSessions(a, i) PROVE AccountsTypeOK'
  <2>1. PICK ended \in {SessionsOf(i)} \cup {{l} : l \in SessionsOf(i)} :
          /\ session' = Unless(ended)
          /\ op' = [op EXCEPT ![a] = [@ EXCEPT !.stage = "done", !.what = "end", !.user = i, !.ended = ended]]
      BY <1>8 DEF EndSessions
  <2>2. ended \subseteq Logins
      BY <1>s
  <2>3. [op[a] EXCEPT !.stage = "done", !.what = "end", !.user = i, !.ended = ended] \in OpRows
      BY <2>2, <1>0 DEF OpRows
  <2>4. op' \in [AdminOps -> OpRows]
      BY <2>3, <2>1, <1>0
  <2> QED BY <2>1, <2>4, <1>8, <1>0, <1>a, <1>b, <1>u DEF EndSessions
<1> QED BY <1>2, <1>3, <1>4, <1>5, <1>6, <1>7, <1>8 DEF AdminCall

-----------------------------------------------------------------------------
(* The inductive invariant. *)

(* One row of a person at a time, and none of an id that is yet to come.   *)
Rows ==
    /\ \A i \in Ids : sub[i] # None => i <= made
    /\ \A i, j \in Ids : sub[i] = sub[j] /\ sub[i] # None => i = j

(* A login knows who signed in, and then whose account that is, unless the *)
(* account was deleted; it has no session before the statement for it.     *)
LoginOK(l) ==
    /\ login[l].stage \notin {"idle", "away", "failed"} => login[l].who \in Persons
    /\ login[l].stage \in {"update", "session"} => login[l].user # None
    /\ login[l].user # None =>
          /\ login[l].stage \notin {"idle", "away", "granted", "create"}
          /\ login[l].user <= made /\ sub[login[l].user] \in {login[l].who, None}
    /\ session[l] # None =>
          /\ login[l].stage \in {"answer", "done"}
          /\ session[l] = login[l].user /\ sub[session[l]] = login[l].who

CallOK(c) ==
    /\ call[c].stage = "handler" => call[c].user # None /\ call[c].login # None
    /\ owner[c] # None => sub[owner[c]] # None

(* A session that was ended is not made again; and an account stays        *)
(* disabled, or is gone, so that no login comes to it later.               *)
OpOK(a) ==
    /\ op[a].stage = "write" => op[a].user # None /\ op[a].user <= made
    /\ \A l \in op[a].ended : session[l] = None /\ login[l].stage \in {"answer", "done"}
    /\ op[a].what = "disable" /\ op[a].stage = "done" /\ ~op[a].undone =>
          /\ op[a].user # None /\ op[a].user <= made
          /\ op[a].user \in disabled \/ sub[op[a].user] = None
          /\ \A l \in Logins : login[l].user = op[a].user => l \in op[a].late

AccountsInv ==
    /\ AccountsTypeOK /\ Rows
    /\ \A l \in Logins : LoginOK(l)
    /\ \A c \in Calls : CallOK(c)
    /\ \A a \in AdminOps : OpOK(a)

-----------------------------------------------------------------------------
(* Every step keeps the types.                                             *)
LEMMA StepTypes == AccountsInv /\ [AccountsNext]_accountVars => AccountsTypeOK'
<1> SUFFICES ASSUME AccountsInv, [AccountsNext]_accountVars PROVE AccountsTypeOK'
    OBVIOUS
<1>0. AccountsTypeOK /\ \A a \in AdminOps : op[a].stage = "write" => op[a].user # None
    BY DEF AccountsInv, OpOK
<1>1. CASE UNCHANGED accountVars
    BY <1>0, <1>1 DEF AccountsTypeOK, accountVars, tables
<1> QED BY <1>0, <1>1, LoginTypes, CallTypes, OpTypes DEF AccountsNext

(* The invariant holds at the start.                                       *)
LEMMA InitInv == AccountsInit => AccountsInv
<1> SUFFICES ASSUME AccountsInit PROVE AccountsInv
    OBVIOUS
<1>1. AccountsTypeOK
    BY InitTypes
<1>2. Rows /\ \A c \in Calls : CallOK(c)
    BY DEF AccountsInit, Rows, CallOK
<1>3. (\A l \in Logins : LoginOK(l)) /\ (\A a \in AdminOps : OpOK(a))
    BY DEF AccountsInit, LoginOK, OpOK
<1> QED BY <1>1, <1>2, <1>3 DEF AccountsInv

(* What a login does to its own row, the tables left alone, disturbs       *)
(* nothing if it keeps to LoginOK, does not leave its last stages, and     *)
(* comes to no account that is disabled or gone.                           *)
LEMMA LoginMoves ==
    ASSUME AccountsInv, AccountsTypeOK', NEW l \in Logins, UNCHANGED <<tables, call, op>>,
           \A m \in Logins \ {l} : login'[m] = login[m],
           LoginOK(l)',
           login[l].stage \in {"answer", "done"} => login'[l].stage \in {"answer", "done"},
           \/ login'[l].user = login[l].user
           \/ login'[l].user \notin disabled /\ sub[login'[l].user] # None
    PROVE  AccountsInv'
<1> USE DEF tables
<1>1. Rows' /\ \A c \in Calls : CallOK(c)'
    BY DEF AccountsInv, Rows, CallOK
<1>2. \A m \in Logins : LoginOK(m)'
    BY DEF AccountsInv, LoginOK
<1>3. ASSUME NEW a \in AdminOps PROVE OpOK(a)'
  <2>0. OpOK(a) /\ op[a] \in OpRows
      BY DEF AccountsInv, AccountsTypeOK, OpRows
  <2>1. ASSUME NEW m \in op[a].ended PROVE session[m] = None /\ login'[m].stage \in {"answer", "done"}
    <3>1. m \in Logins
        BY <2>0 DEF OpRows
    <3> QED BY <3>1, <2>0 DEF OpOK
  <2>2. ASSUME op[a].what = "disable" /\ op[a].stage = "done" /\ ~op[a].undone,
               NEW m \in Logins, login'[m].user = op[a].user
        PROVE  m \in op[a].late
      BY <2>0, <2>2 DEF OpOK
  <2> QED BY <2>0, <2>1, <2>2 DEF OpOK
<1> QED BY <1>1, <1>2, <1>3 DEF AccountsInv

(* A login that has no session yet may always fail.                        *)
LEMMA FailMoves ==
    ASSUME AccountsInv, AccountsTypeOK', NEW l \in Logins, UNCHANGED <<tables, call, op>>,
           Fail(l), login[l].stage \notin {"answer", "done"}
    PROVE  AccountsInv'
<1>0. login \in [Logins -> LoginRows] /\ LoginOK(l)
    BY DEF AccountsInv, AccountsTypeOK, LoginRows
<1>1. /\ \A m \in Logins \ {l} : login'[m] = login[m]
      /\ login'[l].stage = "failed" /\ login'[l].who = login[l].who /\ login'[l].user = login[l].user
    BY <1>0 DEF Fail, Send, LoginRows
<1>2. LoginOK(l)'
    BY <1>0, <1>1 DEF LoginOK, tables
<1> QED BY <1>1, <1>2, LoginMoves

(* A step of a login keeps the invariant.                                  *)
LEMMA LoginKeeps ==
    ASSUME AccountsInv, AccountsTypeOK', NEW l \in Logins,
           Authorize(l) \/ StartDeviceFlow(l) \/ LoginStep(l)
    PROVE  AccountsInv'
<1> USE AccountsAssumption DEF tables
<1>0. /\ login \in [Logins -> LoginRows] /\ LoginOK(l) /\ login[l] \in LoginRows /\ Rows
      /\ session \in [Logins -> Ids \cup {None}] /\ sub \in [Ids -> Persons \cup {None}] /\ made \in 0 .. MaxUsers
    BY DEF AccountsInv, AccountsTypeOK, LoginRows
<1>e. ASSUME NEW stage \in LoginStages, Enter(l, stage) \/ \E message : Send(l, stage, message)
      PROVE  /\ \A m \in Logins \ {l} : login'[m] = login[m]
             /\ login'[l].stage = stage /\ login'[l].who = login[l].who /\ login'[l].user = login[l].user
  <2>1. CASE Enter(l, stage)
      BY <2>1, <1>0 DEF Enter, LoginRows
  <2>2. ASSUME NEW message, Send(l, stage, message)
        PROVE  /\ \A m \in Logins \ {l} : login'[m] = login[m]
               /\ login'[l].stage = stage /\ login'[l].who = login[l].who /\ login'[l].user = login[l].user
    <3> DEFINE sent == IF l \in DeviceLogins THEN Append(login[l].sent, message) ELSE login[l].sent
    <3>1. login' = [login EXCEPT ![l] = [login[l] EXCEPT !.stage = stage, !.sent = sent]]
        BY <2>2, <1>0 DEF Send
    <3> HIDE DEF sent
    <3> QED BY <3>1, <1>0 DEF LoginRows
  <2> QED BY <1>e, <2>1, <2>2
<1>1. CASE Authorize(l)
  <2>1. LoginOK(l)'
      BY <1>0, <1>1, <1>e DEF Authorize, LoginOK, LoginStages
  <2> QED BY <2>1, <1>1, <1>e, LoginMoves DEF Authorize, LoginStages
<1>2. CASE StartDeviceFlow(l)
  <2>1. CASE Fail(l)
      BY <2>1, <1>2, FailMoves DEF StartDeviceFlow
  <2>2. CASE Send(l, "away", "START")
    <3>1. LoginOK(l)'
        BY <2>2, <1>0, <1>2, <1>e DEF StartDeviceFlow, LoginOK, LoginStages
    <3> QED BY <3>1, <2>2, <1>2, <1>e, LoginMoves DEF StartDeviceFlow, LoginStages
  <2> QED BY <1>2, <2>1, <2>2 DEF StartDeviceFlow
<1>3. ASSUME NEW p \in Persons, login[l].stage = "away", UNCHANGED <<tables, call, op>>,
             login' = [login EXCEPT ![l] = [@ EXCEPT !.stage = "granted", !.who = p]]
      PROVE  AccountsInv'
  <2>1. /\ \A m \in Logins \ {l} : login'[m] = login[m]
        /\ login'[l].stage = "granted" /\ login'[l].who = p /\ login'[l].user = login[l].user
      BY <1>0, <1>3 DEF LoginRows
  <2>2. LoginOK(l)'
      BY <2>1, <1>0, <1>3 DEF LoginOK
  <2> QED BY <2>1, <2>2, <1>3, LoginMoves
<1>4. CASE Callback(l)
    BY <1>4, <1>3, FailMoves DEF Callback
<1>5. CASE DeviceAnswer(l)
    BY <1>5, <1>3, FailMoves DEF DeviceAnswer
<1>7. CASE GetBySub(l)
  <2>0. login[l].stage = "granted" /\ login[l].who \in Persons /\ session[l] = None
      BY <1>0, <1>7 DEF GetBySub, LoginOK
  <2>1. CASE Enter(l, "create")
    <3>1. LoginOK(l)'
        BY <2>0, <2>1, <1>0, <1>7, <1>e DEF GetBySub, LoginOK, LoginStages
    <3> QED BY <3>1, <2>0, <2>1, <1>7, <1>e, LoginMoves DEF GetBySub, LoginStages
  <2>2. CASE Fail(l)
      BY <2>2, <1>7, FailMoves DEF GetBySub
  <2>3. ASSUME NEW i \in Row(login[l].who), i \notin disabled,
               login' = [login EXCEPT ![l] = [@ EXCEPT !.stage = "update", !.user = i]]
        PROVE  AccountsInv'
    <3>1. /\ \A m \in Logins \ {l} : login'[m] = login[m]
          /\ login'[l].stage = "update" /\ login'[l].who = login[l].who /\ login'[l].user = i
        BY <1>0, <2>3 DEF LoginRows
    <3>2. i \in Ids /\ sub[i] = login[l].who /\ sub[i] # None /\ i # None /\ i <= made
        BY <2>0, <1>0 DEF Row, Rows
    <3>3. LoginOK(l)'
        BY <3>1, <3>2, <2>0, <1>7 DEF GetBySub, LoginOK
    <3> QED BY <3>1, <3>2, <3>3, <2>0, <2>3, <1>7, LoginMoves DEF GetBySub
  <2> QED BY <2>1, <2>2, <2>3, <1>7 DEF GetBySub
<1>8. CASE UpdateUser(l)
  <2>1. LoginOK(l)'
      BY <1>0, <1>8, <1>e DEF UpdateUser, LoginOK, LoginStages
  <2> QED BY <2>1, <1>8, <1>e, LoginMoves DEF UpdateUser, LoginStages
<1>9. CASE CreateUser(l)
  <2>1. CASE Row(login[l].who) # {}
      BY <2>1, <1>9, FailMoves DEF CreateUser
  <2>2. CASE Row(login[l].who) = {}
    <3> DEFINE i == made + 1
    <3>1. /\ i \in Ids /\ made' = i /\ sub' = [sub EXCEPT ![i] = login[l].who] /\ sub[i] = None
          /\ login[l].stage = "create" /\ login[l].who \in Persons /\ session[l] = None
          /\ UNCHANGED <<disabled, session, owner, call, op>>
        BY <1>0, <1>9, <2>2 DEF CreateUser, Rows, LoginOK, Ids
    <3>2. login' = [login EXCEPT ![l] = [@ EXCEPT !.stage = "session", !.user = i]]
        BY <1>9, <2>2 DEF CreateUser
    <3>3. /\ \A m \in Logins \ {l} : login'[m] = login[m]
          /\ login'[l].stage = "session" /\ login'[l].who = login[l].who /\ login'[l].user = i
        BY <1>0, <3>2 DEF LoginRows
    <3>4. \A j \in Ids : j <= made => sub'[j] = sub[j]
        BY <3>1, <1>0 DEF Ids
    <3>5. Rows'
      <4>1. \A j \in Ids : j # i => sub'[j] = sub[j] /\ sub[j] # login[l].who
          BY <3>1, <1>0, <2>2 DEF Row
      <4>2. sub'[i] = login[l].who
          BY <3>1, <1>0
      <4>3. \A j \in Ids : sub'[j] # None => j <= made'
          BY <3>1, <4>1, <1>0 DEF Rows, Ids
      <4>4. \A j, k \in Ids : sub'[j] = sub'[k] /\ sub'[j] # None => j = k
          BY <4>1, <4>2, <1>0 DEF Rows
      <4> QED BY <4>3, <4>4 DEF Rows
    <3>6. \A m \in Logins : LoginOK(m)'
      <4>1. LoginOK(l)'
          BY <3>1, <3>3, <1>0 DEF LoginOK, Ids
      <4>2. ASSUME NEW m \in Logins \ {l} PROVE LoginOK(m)'
        <5>1. LoginOK(m) /\ login[m].user \in Ids \cup {None} /\ session[m] \in Ids \cup {None}
            BY <1>0 DEF AccountsInv, LoginRows
        <5>2. login'[m] = login[m] /\ session'[m] = session[m] /\ made' = made + 1 /\ made \in Nat
            BY <3>1, <3>3, <1>0
        <5>3. CASE login[m].user = None
            BY <5>1, <5>2, <5>3 DEF LoginOK
        <5>4. CASE login[m].user # None
          <6>1. login[m].user \in Ids /\ login[m].user <= made /\ sub'[login[m].user] = sub[login[m].user]
              BY <5>1, <5>4, <3>4 DEF LoginOK
          <6>2. login[m].user <= made'
              BY <6>1, <5>2 DEF Ids
          <6> QED BY <5>1, <5>2, <6>1, <6>2 DEF LoginOK
        <5> QED BY <5>3, <5>4
      <4> QED BY <4>1, <4>2
    <3>7. ASSUME NEW c \in Calls PROVE CallOK(c)'
      <4>1. CallOK(c) /\ owner[c] \in Ids \cup {None}
          BY DEF AccountsInv, AccountsTypeOK
      <4>2. owner[c] # None => sub'[owner[c]] # None
          BY <4>1, <3>1, <1>0 DEF CallOK
      <4> QED BY <4>1, <4>2, <3>1 DEF CallOK
    <3>8. ASSUME NEW a \in AdminOps PROVE OpOK(a)'
      <4>0. OpOK(a) /\ op[a] \in OpRows /\ op'[a] = op[a] /\ made' = made + 1 /\ made \in Nat
          BY <1>0, <3>1 DEF AccountsInv, AccountsTypeOK, OpRows
      <4>1. op[a].user # None /\ op[a].user <= made => op[a].user <= made' /\ op[a].user # i
                                                      /\ sub'[op[a].user] = sub[op[a].user]
          BY <4>0, <3>4 DEF OpRows, Ids
      <4>2. ASSUME NEW m \in op[a].ended PROVE session'[m] = None /\ login'[m].stage \in {"answer", "done"}
        <5>1. m \in Logins /\ session[m] = None /\ login[m].stage \in {"answer", "done"}
            BY <4>0 DEF OpRows, OpOK
        <5> QED BY <5>1, <3>1, <3>3
      <4>3. ASSUME op[a].what = "disable" /\ op[a].stage = "done" /\ ~op[a].undone
            PROVE  /\ op[a].user # None /\ op[a].user <= made'
                   /\ op[a].user \in disabled' \/ sub'[op[a].user] = None
                   /\ \A m \in Logins : login'[m].user = op[a].user => m \in op[a].late
          BY <4>0, <4>1, <4>3, <3>1, <3>3 DEF OpOK
      <4> QED BY <4>0, <4>1, <4>2, <4>3 DEF OpOK
    <3> QED BY <3>5, <3>6, <3>7, <3>8 DEF AccountsInv
  <2> QED BY <2>1, <2>2
<1>10. CASE CreateSession(l)
  <2>0. login[l].stage = "session" /\ login[l].user \in Ids /\ login[l].who \in Persons
      BY <1>0, <1>10 DEF CreateSession, LoginOK, LoginRows
  <2>1. CASE sub[login[l].user] = None
      BY <2>0, <2>1, <1>10, FailMoves DEF CreateSession
  <2>2. CASE sub[login[l].user] # None
    <3>1. /\ \A m \in Logins \ {l} : login'[m] = login[m] /\ session'[m] = session[m]
          /\ login'[l].stage = "answer" /\ login'[l].who = login[l].who /\ login'[l].user = login[l].user
          /\ session'[l] = login[l].user /\ UNCHANGED <<sub, disabled, made, owner, call, op>>
        BY <2>2, <1>0, <1>10, <1>e DEF CreateSession, LoginStages
    <3>2. \A m \in Logins : LoginOK(m)'
        BY <3>1, <2>0, <2>2, <1>0 DEF AccountsInv, LoginOK
    <3>3. Rows' /\ \A c \in Calls : CallOK(c)'
        BY <3>1 DEF AccountsInv, Rows, CallOK
    <3>4. ASSUME NEW a \in AdminOps PROVE OpOK(a)'
      <4>0. OpOK(a) /\ op[a] \in OpRows
          BY DEF AccountsInv, AccountsTypeOK, OpRows
      <4>1. ASSUME NEW m \in op[a].ended PROVE session'[m] = None /\ login'[m].stage \in {"answer", "done"}
        <5>1. m \in Logins /\ session[m] = None /\ login[m].stage \in {"answer", "done"}
            BY <4>0 DEF OpRows, OpOK
        <5> QED BY <5>1, <3>1, <2>0
      <4> QED BY <4>0, <4>1, <3>1 DEF OpOK
    <3> QED BY <3>2, <3>3, <3>4 DEF AccountsInv
  <2> QED BY <2>1, <2>2
<1>11. CASE AnswerLogin(l)
  <2>1. LoginOK(l)'
      BY <1>0, <1>11, <1>e DEF AnswerLogin, LoginOK, LoginStages
  <2> QED BY <2>1, <1>11, <1>e, LoginMoves DEF AnswerLogin, LoginStages
<1>12. CASE LoginFails(l)
    BY <1>12, FailMoves DEF LoginFails
<1> QED BY <1>1, <1>2, <1>4, <1>5, <1>7, <1>8, <1>9, <1>10, <1>11, <1>12 DEF LoginStep

(* A step of a user's call keeps the invariant.                            *)
LEMMA CallKeeps ==
    ASSUME AccountsInv, AccountsTypeOK', NEW c \in Calls,
           Authenticate(c) \/ CreateRepository(c) \/ Logout(c)
    PROVE  AccountsInv'
<1> USE AccountsAssumption DEF tables
<1>0. /\ call \in [Calls -> CallRows] /\ CallOK(c) /\ call[c] \in CallRows /\ Rows
      /\ session \in [Logins -> Ids \cup {None}] /\ owner \in [Calls -> Ids \cup {None}]
    BY DEF AccountsInv, AccountsTypeOK, CallRows
<1>1. Rows'
    BY <1>0 DEF Authenticate, CreateRepository, Logout, Rows
<1>2. \A l \in Logins : session'[l] \in {session[l], None}
    BY <1>0 DEF Authenticate, CreateRepository, Logout
<1>3. UNCHANGED <<login, sub, disabled, made, op>>
    BY DEF Authenticate, CreateRepository, Logout
<1>4. \A l \in Logins : LoginOK(l)'
    BY <1>2, <1>3 DEF AccountsInv, LoginOK
<1>5. ASSUME NEW a \in AdminOps PROVE OpOK(a)'
  <2>1. OpOK(a) /\ op[a] \in OpRows
      BY DEF AccountsInv, AccountsTypeOK, OpRows
  <2>2. \A m \in op[a].ended : session'[m] = None /\ login[m].stage \in {"answer", "done"}
      BY <2>1, <1>2 DEF OpOK, OpRows
  <2> QED BY <2>1, <2>2, <1>3 DEF OpOK
<1>6. ASSUME NEW d \in Calls PROVE CallOK(d)'
  <2>0. CallOK(d) /\ call[d] \in CallRows
      BY <1>0 DEF AccountsInv
  <2>1. CASE Authenticate(c)
    <3>1. PICK l \in Logins, what \in {"create", "logout"} :
              call' = [call EXCEPT ![c] =
                  [stage |-> IF Valid(l) THEN "handler" ELSE "refused", what |-> what,
                   user |-> session[l], login |-> l]]
        BY <2>1 DEF Authenticate
    <3>2. call'[d] = call[d] \/ (call'[d].login = l /\ (call'[d].stage = "handler" => call'[d].user # None))
        BY <3>1, <1>0 DEF Valid
    <3>3. l # None
        BY DEF Logins
    <3> QED BY <2>0, <2>1, <3>2, <3>3 DEF Authenticate, CallOK
  <2>2. CASE CreateRepository(c)
    <3>1. call'[d] = call[d] \/ (d = c /\ call'[d].stage # "handler")
        BY <2>2, <1>0 DEF CreateRepository, CallRows
    <3>2. owner'[d] = owner[d] \/ sub[owner'[d]] # None
        BY <2>2, <1>0 DEF CreateRepository
    <3> QED BY <2>0, <2>2, <3>1, <3>2 DEF CreateRepository, CallOK
  <2>3. CASE Logout(c)
    <3>1. call'[d] = call[d] \/ (d = c /\ call'[d].stage # "handler")
        BY <2>3, <1>0 DEF Logout, CallRows
    <3> QED BY <2>0, <2>3, <3>1 DEF Logout, CallOK
  <2> QED BY <2>1, <2>2, <2>3
<1> QED BY <1>1, <1>4, <1>5, <1>6 DEF AccountsInv

(* A step of an administrator's call keeps the invariant: what it ends it  *)
(* finds in the rows, and an account it disables is out of the reach of    *)
(* the logins that come later.                                             *)
LEMMA OpKeeps ==
    ASSUME AccountsInv, AccountsTypeOK', NEW a \in AdminOps, AdminCall(a)
    PROVE  AccountsInv'
<1> USE AccountsAssumption DEF tables
<1>0. /\ op \in [AdminOps -> OpRows] /\ OpOK(a) /\ op[a] \in OpRows /\ Rows
      /\ session \in [Logins -> Ids \cup {None}] /\ owner \in [Calls -> Ids \cup {None}]
      /\ sub \in [Ids -> Persons \cup {None}] /\ made \in 0 .. MaxUsers
  <2>1. AccountsTypeOK /\ OpOK(a) /\ Rows
      BY DEF AccountsInv
  <2>2. op \in [AdminOps -> OpRows] /\ op[a] \in OpRows
      BY <2>1 DEF AccountsTypeOK, OpRows
  <2> QED BY <2>1, <2>2 DEF AccountsTypeOK
<1>f. UNCHANGED <<made, owner, login, call>>
  <2>1. ASSUME NEW i \in Ids, \/ DisableDeletes(a, i) \/ Enable(a, i)
                              \/ DeleteTests(a, i) \/ EndSessions(a, i)
        PROVE  UNCHANGED <<made, owner, login, call>>
      BY <2>1 DEF DisableDeletes, Enable, DeleteTests, EndSessions
  <2>2. CASE AdminRefused(a) \/ DisableWrites(a) \/ DeleteWrites(a)
      BY <2>2 DEF AdminRefused, DisableWrites, DeleteWrites
  <2> QED BY <2>1, <2>2 DEF AdminCall
<1>s. ASSUME NEW i PROVE \A l \in SessionsOf(i) : l \in Logins /\ session[l] = i
    BY DEF SessionsOf
<1>e. ASSUME NEW i \in Ids
      PROVE  \A l \in SessionsOf(i) : l \in Logins /\ login[l].stage \in {"answer", "done"}
  <2>1. \A l \in SessionsOf(i) : l \in Logins /\ session[l] = i /\ i # None
      BY <1>s DEF Ids
  <2> QED BY <2>1 DEF AccountsInv, LoginOK
(* Sessions may go, and nothing else of a login's or a user's matters.     *)
<1>a. ASSUME sub' = sub, \A l \in Logins : session'[l] \in {session[l], None}
      PROVE  Rows' /\ (\A l \in Logins : LoginOK(l)') /\ (\A c \in Calls : CallOK(c)')
  <2>1. Rows'
      BY <1>a, <1>f, <1>0 DEF Rows
  <2>2. \A l \in Logins : LoginOK(l)'
      BY <1>a, <1>f DEF AccountsInv, LoginOK
  <2>3. \A c \in Calls : CallOK(c)'
      BY <1>a, <1>f DEF AccountsInv, CallOK
  <2> QED BY <2>1, <2>2, <2>3
(* So do the calls that are not at work, unless an account is enabled.     *)
<1>b. ASSUME NEW b \in AdminOps, op'[b] = op[b],
             \A l \in Logins : session'[l] \in {session[l], None},
             \A i \in Ids : i \in disabled \/ sub[i] = None => i \in disabled' \/ sub'[i] = None
      PROVE  OpOK(b)'
  <2>1. OpOK(b) /\ op[b] \in OpRows
      BY <1>0 DEF AccountsInv
  <2>2. \A m \in op[b].ended : session'[m] = None /\ login[m].stage \in {"answer", "done"}
      BY <2>1, <1>b DEF OpOK, OpRows
  <2>3. op[b].user # None /\ (op[b].user \in disabled \/ sub[op[b].user] = None)
            => op[b].user \in disabled' \/ sub'[op[b].user] = None
      BY <2>1, <1>b DEF OpRows
  <2> QED BY <2>1, <2>2, <2>3, <1>b, <1>f DEF OpOK
<1>1. CASE AdminRefused(a)
  <2>1. OpOK(a)'
    <3>1. op'[a].stage = "refused" /\ op'[a].ended = op[a].ended
        BY <1>1, <1>0 DEF AdminRefused, OpRows
    <3> QED BY <3>1, <1>1, <1>0 DEF AdminRefused, OpOK
  <2>2. \A b \in AdminOps \ {a} : op'[b] = op[b]
      BY <1>1, <1>0 DEF AdminRefused
  <2>3. \A b \in AdminOps : OpOK(b)'
      BY <2>1, <2>2, <1>1, <1>b DEF AdminRefused
  <2> QED BY <2>3, <1>1, <1>a DEF AdminRefused, AccountsInv
<1>2. ASSUME NEW i \in Ids, DisableDeletes(a, i) PROVE AccountsInv'
  <2>1. /\ op'[a].stage = "write" /\ op'[a].user = i /\ op'[a].ended = SessionsOf(i)
        /\ \A b \in AdminOps \ {a} : op'[b] = op[b]
        /\ session' = Unless(SessionsOf(i)) /\ UNCHANGED <<sub, disabled>>
      BY <1>2, <1>0 DEF DisableDeletes, OpRows
  <2>2. i # None /\ i <= made
      BY <1>2, <1>0 DEF DisableDeletes, Rows, Ids
  <2>3. \A l \in Logins : session'[l] \in {session[l], None} /\ (l \in SessionsOf(i) => session'[l] = None)
      BY <2>1 DEF Unless
  <2>4. OpOK(a)'
      BY <2>1, <2>2, <2>3, <1>e, <1>f DEF OpOK
  <2>5. \A b \in AdminOps : OpOK(b)'
      BY <2>1, <2>3, <2>4, <1>b
  <2> QED BY <2>1, <2>3, <2>5, <1>a DEF AccountsInv
<1>3. CASE DisableWrites(a)
  <2> DEFINE late == {l \in Logins : login[l].user = op[a].user}
  <2>1. /\ op'[a].stage = "done" /\ op'[a].user = op[a].user /\ op'[a].ended = op[a].ended
        /\ op'[a].late = late
        /\ \A b \in AdminOps \ {a} : op'[b] = op[b]
        /\ UNCHANGED <<sub, session>> /\ disabled \subseteq disabled'
        /\ op[a].user \in disabled' \/ sub[op[a].user] = None
      BY <1>3, <1>0 DEF DisableWrites, OpRows
  <2>2. op[a].user # None /\ op[a].user <= made
      BY <1>3, <1>0 DEF DisableWrites, OpOK
  <2>3. OpOK(a)'
      BY <2>1, <2>2, <1>f, <1>0 DEF OpOK
  <2>4. \A b \in AdminOps : OpOK(b)'
      BY <2>1, <2>3, <1>b
  <2> QED BY <2>1, <2>4, <1>a DEF AccountsInv
<1>4. ASSUME NEW i \in Ids, Enable(a, i) PROVE AccountsInv'
  <2>1. UNCHANGED <<sub, session>> /\ disabled' = disabled \ {i}
      BY <1>4 DEF Enable
  <2>2. /\ op'[a].stage = "done" /\ op'[a].what = "enable" /\ op'[a].ended = op[a].ended
        /\ op[a].ended \subseteq Logins
      BY <1>4, <1>0 DEF Enable, OpRows
  <2>3. OpOK(a)'
      BY <2>1, <2>2, <1>f, <1>0 DEF OpOK
  <2>4. ASSUME NEW b \in AdminOps \ {a} PROVE OpOK(b)'
    <3>0. OpOK(b) /\ op[b] \in OpRows
        BY <1>0 DEF AccountsInv
    <3>1. CASE op[b].user = i
      <4>1. /\ op'[b].stage = op[b].stage /\ op'[b].user = i /\ op'[b].ended = op[b].ended
            /\ op'[b].stage = "done" => op'[b].undone
          BY <3>0, <3>1, <1>4 DEF Enable, OpRows
      <4> QED BY <4>1, <3>0, <3>1, <2>1, <1>f DEF OpOK
    <3>2. CASE op[b].user # i
      <4>1. op'[b] = op[b]
          BY <3>2, <1>4 DEF Enable
      <4> QED BY <4>1, <3>0, <3>2, <2>1, <1>f DEF OpOK
    <3> QED BY <3>1, <3>2
  <2> QED BY <2>1, <2>3, <2>4, <1>a DEF AccountsInv
<1>5. ASSUME NEW i \in Ids, DeleteTests(a, i) PROVE AccountsInv'
  <2>1. /\ op'[a].stage \in {"refused", "write"} /\ op'[a].user = i /\ op'[a].ended = op[a].ended
        /\ \A b \in AdminOps \ {a} : op'[b] = op[b]
        /\ UNCHANGED <<sub, session, disabled>>
      BY <1>5, <1>0 DEF DeleteTests, OpRows
  <2>2. i # None /\ i <= made
      BY <1>5, <1>0 DEF DeleteTests, Rows, Ids
  <2>3. OpOK(a)'
      BY <2>1, <2>2, <1>0, <1>f DEF OpOK
  <2>4. \A b \in AdminOps : OpOK(b)'
      BY <2>1, <2>3, <1>b
  <2> QED BY <2>1, <2>4, <1>a DEF AccountsInv
<1>6. CASE DeleteWrites(a)
  <2>0. op[a].user \in Ids /\ op[a].user # None /\ op[a].stage = "write"
      BY <1>6, <1>0 DEF DeleteWrites, OpOK, OpRows
  <2>1. CASE HasRepositories(op[a].user)
    <3>1. /\ op'[a].stage = "refused" /\ op'[a].ended = op[a].ended
          /\ \A b \in AdminOps \ {a} : op'[b] = op[b]
          /\ UNCHANGED <<sub, session, disabled>>
        BY <2>1, <1>6, <1>0 DEF DeleteWrites, OpRows
    <3>2. OpOK(a)'
        BY <3>1, <1>0, <1>f DEF OpOK
    <3>3. \A b \in AdminOps : OpOK(b)'
        BY <3>1, <3>2, <1>b
    <3> QED BY <3>1, <3>3, <1>a DEF AccountsInv
  <2>2. CASE ~HasRepositories(op[a].user)
    <3> DEFINE i == op[a].user
    <3>1. /\ op'[a].stage = "done" /\ op'[a].what = "delete" /\ op'[a].ended = op[a].ended
          /\ \A b \in AdminOps \ {a} : op'[b] = op[b]
          /\ session' = Unless(SessionsOf(i)) /\ disabled' = disabled \ {i}
          /\ sub'[i] = None /\ \A j \in Ids \ {i} : sub'[j] = sub[j]
        BY <2>0, <2>2, <1>6, <1>0 DEF DeleteWrites, OpRows
    <3>2. \A l \in Logins : session'[l] \in {session[l], None} /\ session'[l] # i
        BY <2>0, <3>1 DEF Unless, SessionsOf
    <3>3. Rows'
      <4>1. \A j \in Ids : sub'[j] \in {sub[j], None}
          BY <3>1
      <4>2. \A j \in Ids : sub'[j] # None => j <= made'
          BY <4>1, <1>0, <1>f DEF Rows
      <4>3. \A j, k \in Ids : sub'[j] = sub'[k] /\ sub'[j] # None => j = k
          BY <4>1, <1>0 DEF Rows
      <4> QED BY <4>2, <4>3 DEF Rows
    <3>4. ASSUME NEW l \in Logins PROVE LoginOK(l)'
      <4>1. LoginOK(l) /\ login[l].user \in Ids \cup {None} /\ session[l] \in Ids \cup {None}
          BY <1>0 DEF AccountsInv, AccountsTypeOK
      <4>2. login[l].user # None => sub'[login[l].user] \in {login[l].who, None}
          BY <4>1, <3>1 DEF LoginOK
      <4>3. session'[l] # None => session'[l] = session[l] /\ sub'[session[l]] = sub[session[l]]
          BY <4>1, <3>1, <3>2
      <4> QED BY <4>1, <4>2, <4>3, <1>f DEF LoginOK
    <3>5. ASSUME NEW c \in Calls PROVE CallOK(c)'
      <4>1. CallOK(c) /\ owner[c] # i /\ owner[c] \in Ids \cup {None}
          BY <2>2, <1>0 DEF AccountsInv, HasRepositories
      <4> QED BY <4>1, <3>1, <1>f DEF CallOK
    <3>6. \A j \in Ids : j \in disabled \/ sub[j] = None => j \in disabled' \/ sub'[j] = None
        BY <3>1
    <3>7. \A b \in AdminOps \ {a} : OpOK(b)'
        BY <3>1, <3>2, <3>6, <1>b
    <3>8. OpOK(a)'
      <4>1. \A m \in op[a].ended : session'[m] = None /\ login[m].stage \in {"answer", "done"}
          BY <3>2, <1>0 DEF OpOK, OpRows
      <4> QED BY <4>1, <3>1, <1>f DEF OpOK
    <3> QED BY <3>3, <3>4, <3>5, <3>7, <3>8 DEF AccountsInv
  <2> QED BY <2>1, <2>2
<1>7. ASSUME NEW i \in Ids, EndSessions(a, i) PROVE AccountsInv'
  <2>1. PICK ended \in {SessionsOf(i)} \cup {{l} : l \in SessionsOf(i)} :
          /\ session' = Unless(ended)
          /\ op' = [op EXCEPT ![a] = [@ EXCEPT !.stage = "done", !.what = "end", !.user = i, !.ended = ended]]
      BY <1>7 DEF EndSessions
  <2>2. ended \subseteq SessionsOf(i)
      OBVIOUS
  <2>3. /\ op'[a].stage = "done" /\ op'[a].what = "end" /\ op'[a].ended = ended
        /\ \A b \in AdminOps \ {a} : op'[b] = op[b]
      BY <2>1, <1>0 DEF OpRows
  <2>4. UNCHANGED <<sub, disabled>>
      BY <1>7 DEF EndSessions
  <2>5. \A l \in Logins : session'[l] \in {session[l], None} /\ (l \in ended => session'[l] = None)
      BY <2>1 DEF Unless
  <2>6. OpOK(a)'
      BY <2>2, <2>3, <2>5, <1>e, <1>f DEF OpOK
  <2>7. \A b \in AdminOps : OpOK(b)'
      BY <2>3, <2>4, <2>5, <2>6, <1>b
  <2> QED BY <2>4, <2>5, <2>7, <1>a DEF AccountsInv
<1> QED BY <1>1, <1>2, <1>3, <1>4, <1>5, <1>6, <1>7 DEF AdminCall

(* The invariant is inductive.                                             *)
LEMMA StepInv == AccountsInv /\ [AccountsNext]_accountVars => AccountsInv'
<1> SUFFICES ASSUME AccountsInv, [AccountsNext]_accountVars PROVE AccountsInv'
    OBVIOUS
<1>1. AccountsTypeOK'
    BY StepTypes
<1>2. CASE UNCHANGED accountVars
    BY <1>1, <1>2 DEF AccountsInv, Rows, LoginOK, CallOK, OpOK, accountVars, tables
<1> QED BY <1>1, <1>2, LoginKeeps, CallKeeps, OpKeeps DEF AccountsNext

(* The inductive invariant holds in every reachable state.                 *)
LEMMA InvAlways == AccountsSpec => []AccountsInv
BY InitInv, StepInv, PTL DEF AccountsSpec

-----------------------------------------------------------------------------
(* Theorems. *)

(* The tables of users, sessions and repositories, the logins and the      *)
(* calls keep their types.                                                 *)
THEOREM AccountsTypeCorrect == AccountsSpec => []AccountsTypeOK
<1>1. AccountsInv => AccountsTypeOK
    BY DEF AccountsInv
<1> QED BY <1>1, InvAlways, PTL

(* However logins, deletions and first logins of a person meet in the      *)
(* statements of getOrCreateUser, session.service and the administrators'  *)
(* user.service: a person has one account, a session leads to the account  *)
(* of who signed in, and a repository to an account that exists.           *)
THEOREM AccountsGoTogether == AccountsSpec => []AccountsAreTheirs
<1>1. ASSUME AccountsInv, NEW p \in Persons PROVE Cardinality(Row(p)) <= 1
  <2>1. CASE Row(p) = {}
      BY <2>1, FS_EmptySet
  <2>2. CASE Row(p) # {}
    <3>1. PICK i \in Row(p) : TRUE
        BY <2>2
    <3>2. Row(p) = {i}
      <4>1. p # None
          BY AccountsAssumption
      <4>2. i \in Ids /\ sub[i] = p
          BY <3>1 DEF Row
      <4> QED BY <4>1, <4>2, <1>1 DEF Row, AccountsInv, Rows
    <3> QED BY <3>2, FS_Singleton
  <2> QED BY <2>1, <2>2
<1>2. AccountsInv => AccountsAreTheirs
    BY <1>1 DEF AccountsInv, LoginOK, CallOK, AccountsAreTheirs
<1> QED BY <1>2, InvAlways, PTL

(* The sessions that an administrator's call has deleted do not come back, *)
(* and an account that is disabled gets no session until it is enabled but *)
(* those of logins past the test of the flag.                              *)
THEOREM DisablingLogsOut == AccountsSpec => []DisabledIsLoggedOut
<1>1. ASSUME AccountsInv, NEW a \in AdminOps,
             op[a].what = "disable" /\ op[a].stage = "done" /\ ~op[a].undone
      PROVE  SessionsOf(op[a].user) \subseteq op[a].late
  <2>1. ASSUME NEW l \in SessionsOf(op[a].user) PROVE l \in op[a].late
    <3>1. l \in Logins /\ session[l] = op[a].user /\ op[a].user # None
        BY <1>1 DEF SessionsOf, AccountsInv, OpOK
    <3>2. login[l].user = op[a].user
        BY <3>1, <1>1 DEF AccountsInv, LoginOK
    <3> QED BY <3>1, <3>2, <1>1 DEF AccountsInv, OpOK
  <2> QED BY <2>1
<1>2. AccountsInv => DisabledIsLoggedOut
    BY <1>1 DEF AccountsInv, OpOK, DisabledIsLoggedOut
<1> QED BY <1>2, InvAlways, PTL
=============================================================================
