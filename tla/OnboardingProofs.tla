--------------------------- MODULE OnboardingProofs ---------------------------
(***************************************************************************)
(* For any number of tabs and keys: the state of the flows is well typed,  *)
(* and the user has the key of every backup.                               *)
(***************************************************************************)
EXTENDS Onboarding, SequenceTheorems, TLAPS

(* What a flow shows only once the key is confirmed; what is no step of it. *)
After == {"backup-service", "backup-confirm", "backup-create", "schedule-create", "restore-point", "key-reimport"}
Outside == {"closed", "loading", "error", "finished"}

-----------------------------------------------------------------------------
(* Types. *)

TabSet == [flow : {"gate", "setup", "restore"}, stage : Stages, status : SUBSET Facts,
           code : Keys \cup {NoKey}, answer : {"none", "asked"} \cup Keys,
           dialog : {"none", "login", "local", "restore"}, socket : BOOLEAN,
           chosen : Keys \cup {NoKey}, errors : BOOLEAN]
RestoreSet == {NoRestore} \cup [stage : {"opening", "running", "replaced", "failing"}, key : Keys]
EventSet == {"BackendCreate", "DeviceFlowFailure"} \cup Keys

ServerType ==
    /\ boot \in {"not-ready", "ready", "error"} /\ key \in Keys \cup {NoKey}
    /\ flags \subseteq Flags /\ backends \subseteq {"cloud", "local"}
    /\ local \subseteq Keys /\ remote \subseteq Keys /\ schedule \in BOOLEAN
    /\ known \subseteq Keys /\ unkept \subseteq Keys /\ deaf \subseteq Tabs

TabType ==
    /\ login \in [Tabs -> {"none", "waiting", "saved", "failed"}]
    /\ restore \in [Tabs -> RestoreSet]
    /\ tab \in [Tabs -> TabSet]
    /\ wire \in [Tabs -> Seq(EventSet)]

(* The types of the server and of the tabs, apart.                         *)
LEMMA TypeParts == /\ OnboardingTypeOK <=> ServerType /\ TabType
                   /\ OnboardingTypeOK' <=> ServerType' /\ TabType'
BY DEF OnboardingTypeOK, ServerType, TabType, TabSet, RestoreSet, EventSet

(* Every flow begins with a dialogue.                                      *)
LEMMA FirstIsStage == ASSUME NEW flow, NEW facts PROVE First(flow, facts) \in Stages \ {"closed", "loading", "error"}
BY DEF First, Stages

(* Where a flow resumes is a dialogue too.                                 *)
LEMMA LandingIsStage == ASSUME NEW flow PROVE Landing(flow) \in Stages
BY FirstIsStage DEF Landing, Stages

(* No flow begins after the key if the key is not confirmed.               *)
LEMMA FirstAfterKey == ASSUME NEW flow, NEW facts, First(flow, facts) \in After PROVE "key" \in facts
BY DEF First, After

(* A flow resumes after the key only if the key is confirmed.              *)
LEMMA LandingAfterKey == ASSUME NEW flow, Landing(flow) \in After PROVE "key" \in Status
BY FirstAfterKey DEF Landing, After

(* The status has only the facts that there are.                           *)
LEMMA StatusIsFacts == OnboardingTypeOK => Status \subseteq Facts
BY DEF Status, OnboardingTypeOK, Facts, Flags

(* One tab shows something else.                                           *)
LEMMA TabUpdate ==
    ASSUME TabType, NEW t \in Tabs, NEW x \in TabSet, tab' = [tab EXCEPT ![t] = x],
           UNCHANGED <<login, restore, wire>>
    PROVE  TabType'
BY DEF TabType

(* One field of what a tab shows.                                          *)
LEMMA Fields ==
    ASSUME NEW x \in TabSet
    PROVE  /\ \A s \in Stages : [x EXCEPT !.stage = s] \in TabSet
           /\ \A a \in {"none", "asked"} \cup Keys : [x EXCEPT !.answer = a] \in TabSet
           /\ \A d \in {"none", "login", "local", "restore"} : [x EXCEPT !.dialog = d] \in TabSet
           /\ \A b \in BOOLEAN : [x EXCEPT !.errors = b] \in TabSet /\ [x EXCEPT !.socket = b] \in TabSet
BY DEF TabSet

(* A tab that changes alone keeps the types of all.                        *)
LEMMA TabTo ==
    ASSUME TabType, NEW t \in Tabs, NEW x \in TabSet, tab' = [tab EXCEPT ![t] = x]
    PROVE  tab' \in [Tabs -> TabSet]
BY DEF TabType

(* Going to another dialogue keeps the types.                              *)
LEMMA GotoType ==
    ASSUME TabType, NEW t \in Tabs, NEW s \in Stages, Goto(t, s), UNCHANGED <<login, restore, wire>>
    PROVE  TabType'
<1>1. tab[t] \in TabSet
    BY DEF TabType
<1>2. [tab[t] EXCEPT !.stage = s] \in TabSet
    BY <1>1, Fields
<1> QED
    BY <1>2, TabUpdate DEF Goto

(* A new installation is well typed.                                       *)
LEMMA InitType == OnboardingInit => OnboardingTypeOK
<1> SUFFICES ASSUME OnboardingInit PROVE ServerType /\ TabType
    BY TypeParts
<1>1. ServerType
    BY DEF OnboardingInit, ServerType, Keys
<1>2. Closed \in TabSet /\ NoRestore \in RestoreSet
    BY DEF Closed, TabSet, RestoreSet, Stages
<1>3. TabType
    BY <1>2 DEF OnboardingInit, TabType
<1> QED
    BY <1>1, <1>3

(* The sets that the fields of what a tab shows are in.                    *)
LEMMA TabParts ==
    ASSUME TabType, NEW t \in Tabs
    PROVE  /\ tab[t] \in TabSet
           /\ tab[t].stage \in Stages /\ tab[t].answer \in {"none", "asked"} \cup Keys
           /\ tab[t].code \in Keys \cup {NoKey} /\ tab[t].socket \in BOOLEAN
           /\ restore[t] \in RestoreSet /\ (restore[t].stage # "none" => restore[t].key \in Keys)
BY DEF TabType, TabSet, RestoreSet, NoRestore

(* A dialogue goes on, and nothing else changes.                           *)
LEMMA FlowType ==
    ASSUME ServerType, TabType, NEW t \in Tabs,
           \/ Open(t) \/ Close(t) \/ ReadKey(t) \/ ReadKeyFails(t) \/ KeyArrives(t)
           \/ Welcome(t) \/ SeeKey(t) \/ OpenLocal(t) \/ Customize(t)
    PROVE  ServerType' /\ TabType'
<1>1. CASE Open(t)
    <2>1. PICK flow \in {"gate", "setup", "restore"} :
             tab' = [tab EXCEPT ![t] = [Closed EXCEPT !.flow = flow, !.stage = "loading", !.socket = tab[t].socket]]
        BY <1>1, OnboardingAssumption DEF Open
    <2>2. [Closed EXCEPT !.flow = flow, !.stage = "loading", !.socket = tab[t].socket] \in TabSet
        BY TabParts DEF TabSet, Stages, Closed
    <2> QED
        BY <1>1, <2>1, <2>2, TabUpdate DEF Open, ServerType, server
<1>2. CASE Close(t)
    <2>1. Closed \in TabSet
        BY DEF Closed, TabSet, Stages
    <2>2. TabType'
        BY <1>2, <2>1 DEF Close, TabType
    <2> QED
        BY <1>2, <2>2 DEF Close, ServerType, server
<1>3. CASE ReadKey(t)
    <2>1. [tab[t] EXCEPT !.answer = key] \in TabSet
        BY <1>3, TabParts, Fields DEF ReadKey, ServerType
    <2> QED
        BY <1>3, <2>1, TabUpdate DEF ReadKey, ServerType, server
<1>4. CASE ReadKeyFails(t)
    <2>1. [tab[t] EXCEPT !.answer = "none"] \in TabSet
        BY TabParts, Fields
    <2> QED
        BY <1>4, <2>1, TabUpdate DEF ReadKeyFails, ServerType, server
<1>5. CASE KeyArrives(t)
    <2>1. [tab[t] EXCEPT !.code = tab[t].answer, !.answer = "none"] \in TabSet
        BY <1>5, TabParts DEF KeyArrives, TabSet
    <2> QED
        BY <1>5, <2>1, TabUpdate DEF KeyArrives, ServerType, server
<1>6. ASSUME NEW s \in Stages, NEW from, Click(t, from, s)
      PROVE  ServerType' /\ TabType'
    BY <1>6, GotoType DEF Click, ServerType, server
<1>7. CASE Welcome(t) \/ SeeKey(t) \/ Customize(t)
    BY <1>6, <1>7 DEF Welcome, SeeKey, Customize, Stages
<1>8. CASE OpenLocal(t)
    <2>1. [tab[t] EXCEPT !.dialog = "local"] \in TabSet
        BY TabParts, Fields
    <2> QED
        BY <1>8, <2>1, TabUpdate DEF OpenLocal, Dialog, ServerType, server
<1> QED
    BY <1>1, <1>2, <1>3, <1>4, <1>5, <1>7, <1>8

(* Loading the status keeps the types.                                     *)
LEMMA LoadType == ASSUME ServerType, TabType, NEW t \in Tabs, Load(t) PROVE ServerType' /\ TabType'
<1>1. Status \in SUBSET Facts
    BY StatusIsFacts, TypeParts
<1>2. PICK s \in Stages :
         tab' = [tab EXCEPT ![t] = [@ EXCEPT !.stage = s, !.status = Status,
                                             !.answer = IF s = "welcome" THEN "asked" ELSE "none"]]
    BY LandingIsStage DEF Load
<1>3. [tab[t] EXCEPT !.stage = s, !.status = Status,
                     !.answer = IF s = "welcome" THEN "asked" ELSE "none"] \in TabSet
    BY <1>1, TabParts DEF TabSet
<1> QED
    BY <1>2, <1>3, TabUpdate DEF Load, ServerType, server

(* The dialogues of the key keep the types.                                *)
LEMMA KeyType ==
    ASSUME ServerType, TabType, NEW t \in Tabs,
           EnableTelemetry(t) \/ ConfirmKey(t) \/ ImportKey(t) \/ ReimportKey(t)
    PROVE  ServerType' /\ TabType'
<1>1. AfterKey(t) \in Stages
    BY DEF AfterKey, Stages
<1>2. CASE EnableTelemetry(t)
    <2>1. PICK s \in Stages : Goto(t, s)
        BY <1>2, FirstIsStage DEF EnableTelemetry, Stages
    <2>2. TabType'
        BY <1>2, <2>1, GotoType DEF EnableTelemetry
    <2> QED
        BY <1>2, <2>2 DEF EnableTelemetry, ServerType, Flags
<1>3. CASE ConfirmKey(t)
    <2>1. TabType'
        BY <1>1, <1>3, GotoType DEF ConfirmKey
    <2> QED
        BY <1>3, <2>1, TabParts DEF ConfirmKey, ServerType, Flags
<1>4. CASE ImportKey(t)
    <2>1. PICK typed \in known \cup {Typo} :
             /\ key' = typed /\ unkept' = unkept \cup ({typed} \ known)
             /\ flags' \in {flags, flags \cup {"key"}}
             /\ \/ tab' = [tab EXCEPT ![t] = [@ EXCEPT !.code = typed, !.stage = "key-save"]]
                \/ Goto(t, "key-confirm") \/ Goto(t, AfterKey(t)) \/ UNCHANGED tab
        BY <1>4 DEF ImportKey
    <2>2. typed \in Keys
        BY DEF ServerType, Keys
    <2>3. [tab[t] EXCEPT !.code = typed, !.stage = "key-save"] \in TabSet
        <3>1. tab[t] \in TabSet /\ "key-save" \in Stages
            BY TabParts DEF Stages
        <3>2. [tab[t] EXCEPT !.code = typed] \in TabSet
            BY <2>2, <3>1 DEF TabSet
        <3> QED
            BY <3>1, <3>2, Fields
    <2>4. UNCHANGED <<login, restore, wire>>
        BY <1>4 DEF ImportKey
    <2>5. "key-confirm" \in Stages
        BY DEF Stages
    <2>6. ASSUME Goto(t, "key-confirm") \/ Goto(t, AfterKey(t)) PROVE TabType'
        BY <1>1, <2>4, <2>5, <2>6, GotoType
    <2>7. ASSUME UNCHANGED tab PROVE TabType'
        BY <2>4, <2>7 DEF TabType
    <2>8. ASSUME tab' = [tab EXCEPT ![t] = [@ EXCEPT !.code = typed, !.stage = "key-save"]] PROVE TabType'
        BY <2>3, <2>4, <2>8, TabUpdate
    <2>9. TabType'
        BY <2>1, <2>6, <2>7, <2>8
    <2> QED
        BY <1>4, <2>1, <2>2, <2>9 DEF ImportKey, ServerType, Flags
<1>5. CASE ReimportKey(t)
    <2>1. TabType'
        BY <1>5, GotoType DEF ReimportKey, Stages
    <2> QED
        BY <1>5, <2>1 DEF ReimportKey, ServerType, Keys
<1> QED
    BY <1>2, <1>3, <1>4, <1>5

(* A published event is on the wires of tabs that listen.                  *)
LEMMA PublishedType ==
    ASSUME ServerType, TabType, NEW e \in EventSet, NEW dialogs, Publish(e, dialogs)
    PROVE  wire' \in [Tabs -> Seq(EventSet)] /\ deaf' \subseteq Tabs
BY DEF Publish, Waiting, TabType, ServerType

(* The login, and the choice of a folder, keep the types.                  *)
LEMMA LoginType ==
    ASSUME ServerType, TabType, NEW t \in Tabs,
           \/ StartLogin(t) \/ Approved(t) \/ LoggedIn(t) \/ LoginFails(t) \/ LoginBreaks(t)
           \/ CreateLocal(t) \/ CancelDialog(t)
    PROVE  ServerType' /\ TabType'
<1>1. CASE StartLogin(t)
    <2>1. [tab[t] EXCEPT !.dialog = "login"] \in TabSet
        BY TabParts, Fields
    <2>2. TabType'
        BY <1>1, <2>1 DEF StartLogin, Dialog, TabType
    <2> QED
        BY <1>1, <2>2 DEF StartLogin, ServerType, server
<1>2. CASE Approved(t)
    BY <1>2 DEF Approved, ServerType, TabType
<1>3. CASE LoggedIn(t) \/ LoginFails(t)
    <2>1. wire' \in [Tabs -> Seq(EventSet)] /\ deaf' \subseteq Tabs
        BY <1>3, PublishedType DEF LoggedIn, LoginFails, EventSet
    <2> QED
        BY <1>3, <2>1 DEF LoggedIn, LoginFails, ServerType, TabType, server
<1>4. CASE LoginBreaks(t)
    BY <1>4 DEF LoginBreaks, ServerType, TabType, server
<1>5. CASE CreateLocal(t)
    <2>1. wire' \in [Tabs -> Seq(EventSet)] /\ deaf' \subseteq Tabs
        BY <1>5, PublishedType DEF CreateLocal, EventSet
    <2>2. PICK s \in Stages : s = AfterService(t)
        BY DEF AfterService, Stages
    <2>3. [tab[t] EXCEPT !.dialog = "none", !.stage = s] \in TabSet
        BY TabParts DEF TabSet
    <2>4. tab' \in [Tabs -> TabSet]
        BY <1>5, <2>2, <2>3, TabTo DEF CreateLocal
    <2>5. TabType'
        BY <1>5, <2>1, <2>4 DEF CreateLocal, TabType
    <2> QED
        BY <1>5, <2>1, <2>5 DEF CreateLocal, ServerType
<1>6. CASE CancelDialog(t)
    <2>1. "finished" \in Stages /\ tab[t].stage \in Stages
        BY TabParts DEF Stages
    <2> DEFINE s == IF tab[t].dialog = "restore" THEN "finished" ELSE tab[t].stage
    <2>2. s \in Stages /\ tab' = [tab EXCEPT ![t] = [@ EXCEPT !.dialog = "none", !.stage = s]]
        BY <1>6, <2>1 DEF CancelDialog
    <2> HIDE DEF s
    <2>3. [tab[t] EXCEPT !.dialog = "none", !.stage = s] \in TabSet
        BY <2>2, TabParts DEF TabSet
    <2>4. tab' \in [Tabs -> TabSet]
        BY <2>2, <2>3, TabTo
    <2>5. TabType'
        BY <1>6, <2>4 DEF CancelDialog, TabType
    <2> QED
        BY <1>6, <2>5 DEF CancelDialog, ServerType, server
<1> QED
    BY <1>1, <1>2, <1>3, <1>4, <1>5, <1>6

(* The first backup, and its schedule, keep the types.                     *)
LEMMA BackupType ==
    ASSUME ServerType, TabType, NEW t \in Tabs, CreateBackup(t) \/ Skip(t) \/ CreateSchedule(t)
    PROVE  ServerType' /\ TabType'
<1>1. TabType'
    BY GotoType DEF CreateBackup, Skip, CreateSchedule, Done, Stages
<1>2. CASE CreateBackup(t)
    BY <1>1, <1>2 DEF CreateBackup, ServerType, Flags
<1>3. CASE Skip(t)
    BY <1>1, <1>3 DEF Skip, ServerType, Flags
<1>4. CASE CreateSchedule(t)
    BY <1>1, <1>4 DEF CreateSchedule, ServerType
<1> QED
    BY <1>2, <1>3, <1>4

(* The event of a task's end keeps the types of the wires.                 *)
LEMMA TaskEndType ==
    ASSUME ServerType, TabType, NEW k \in Keys, TaskEnd(k)
    PROVE  wire' \in [Tabs -> Seq(EventSet)] /\ deaf' \subseteq Tabs
BY DEF TaskEnd, EventSet, Waiting, ServerType, TabType

(* A restore that moves on keeps its type.                                 *)
LEMMA RestoresType ==
    ASSUME TabType, NEW t \in Tabs, NEW s \in {"running", "replaced", "failing"}, Restores(t, s),
           restore[t].stage # "none"
    PROVE  restore' \in [Tabs -> RestoreSet]
<1>1. restore[t] \in [stage : {"opening", "running", "replaced", "failing"}, key : Keys]
    BY TabParts DEF RestoreSet, NoRestore
<1>2. [restore[t] EXCEPT !.stage = s] \in RestoreSet
    BY <1>1 DEF RestoreSet
<1> QED
    BY <1>2 DEF Restores, TabType

(* The restore and its dialogue keep the types.                            *)
LEMMA RestoreType ==
    ASSUME ServerType, TabType, NEW t \in Tabs,
           \/ StartRestore(t) \/ BeginRestore(t) \/ BeginRestoreFails(t) \/ ReplaceState(t)
           \/ EndRestore(t) \/ FailRestore(t) \/ ReportItem(t) \/ WriteError(t)
    PROVE  ServerType' /\ TabType'
<1>7. ASSUME ShowsErrors(t) PROVE tab' \in [Tabs -> TabSet]
    <2>1. PICK b \in BOOLEAN : b = (tab[t].dialog = "restore")
        OBVIOUS
    <2>2. tab' = [tab EXCEPT ![t] = [tab[t] EXCEPT !.errors = b]]
        BY <1>7, <2>1 DEF ShowsErrors
    <2> QED
        BY <2>2, TabParts, Fields, TabTo
<1>8. restore[t].stage \in {"running", "replaced", "opening"} => restore[t].key \in Keys
    BY TabParts
<1>9. NoRestore \in RestoreSet
    BY DEF RestoreSet
<1>1. CASE StartRestore(t)
    <2>1. [tab[t] EXCEPT !.dialog = "restore", !.chosen = key, !.errors = FALSE] \in TabSet
        <3>1. tab[t] \in TabSet /\ key \in Keys \cup {NoKey}
            BY TabParts DEF ServerType
        <3>2. [tab[t] EXCEPT !.dialog = "restore"] \in TabSet
            BY <3>1, Fields
        <3>3. [tab[t] EXCEPT !.dialog = "restore", !.chosen = key] \in TabSet
            BY <3>1, <3>2 DEF TabSet
        <3> QED
            BY <3>3, Fields
    <2>2. tab' \in [Tabs -> TabSet]
        BY <1>1, <2>1, TabTo DEF StartRestore
    <2>3. [stage |-> "opening", key |-> key] \in RestoreSet
        BY <1>1 DEF StartRestore, RestoreSet, ServerType
    <2>4. TabType'
        BY <1>1, <2>2, <2>3 DEF StartRestore, TabType
    <2> QED
        BY <1>1, <2>4 DEF StartRestore, ServerType, server
<1>2. CASE BeginRestore(t) \/ BeginRestoreFails(t)
    <2>1. TabType'
        BY <1>2, RestoresType DEF BeginRestore, BeginRestoreFails, TabType
    <2> QED
        BY <1>2, <2>1 DEF BeginRestore, BeginRestoreFails, ServerType, server
<1>3. CASE ReplaceState(t)
    <2>1. TabType'
        BY <1>3, RestoresType DEF ReplaceState, TabType
    <2> QED
        BY <1>3, <2>1, TabParts DEF ReplaceState, ServerType, Flags
<1>4. CASE EndRestore(t)
    <2>1. wire' \in [Tabs -> Seq(EventSet)] /\ deaf' \subseteq Tabs
        BY <1>4, <1>8, TaskEndType DEF EndRestore
    <2>2. TabType'
        BY <1>4, <1>9, <2>1 DEF EndRestore, TabType
    <2> QED
        BY <1>4, <2>1, <2>2 DEF EndRestore, ServerType, server
<1>5. CASE FailRestore(t)
    <2>1. wire' \in [Tabs -> Seq(EventSet)] /\ deaf' \subseteq Tabs
        BY <1>5, <1>8, TaskEndType DEF FailRestore
    <2>2. TabType'
        BY <1>5, <2>1, RestoresType DEF FailRestore, TabType
    <2> QED
        BY <1>5, <2>1, <2>2 DEF FailRestore, ServerType, server
<1>6. CASE ReportItem(t)
    <2>1. TabType'
        BY <1>6, <1>7 DEF ReportItem, TabType
    <2> QED
        BY <1>6, <2>1 DEF ReportItem, ServerType, server
<1>10. CASE WriteError(t)
    <2>1. TabType'
        BY <1>7, <1>9, <1>10 DEF WriteError, TabType
    <2> QED
        BY <1>10, <2>1 DEF WriteError, ServerType, server
<1> QED
    BY <1>1, <1>2, <1>3, <1>4, <1>5, <1>6, <1>10

(* The connection comes and goes within the types.                         *)
LEMMA SocketType ==
    ASSUME ServerType, TabType, NEW t \in Tabs, Connect(t) \/ Disconnect(t)
    PROVE  ServerType' /\ TabType'
<1>1. /\ [tab[t] EXCEPT !.socket = TRUE] \in TabSet
      /\ [tab[t] EXCEPT !.socket = FALSE] \in TabSet
    BY TabParts, Fields
<1>2. CASE Connect(t)
    BY <1>1, <1>2, TabUpdate DEF Connect, ServerType, server
<1>3. CASE Disconnect(t)
    <2>1. tab' \in [Tabs -> TabSet]
        BY <1>1, <1>3, TabTo DEF Disconnect
    <2>2. TabType'
        BY <1>3, <2>1 DEF Disconnect, TabType
    <2> QED
        BY <1>3, <2>2 DEF Disconnect, ServerType, server
<1> QED
    BY <1>2, <1>3

(* What a tab shows once it has heard of an event.                         *)
LEMMA DeliveredType ==
    ASSUME TabType, NEW t \in Tabs, Deliver(t)
    PROVE  \E x \in TabSet : tab' = [tab EXCEPT ![t] = x]
<1>1. {AfterService(t), "finished"} \subseteq Stages
    BY DEF AfterService, Stages
<1>2. \A s \in Stages : [tab[t] EXCEPT !.dialog = "none", !.stage = s] \in TabSet
    BY TabParts DEF TabSet
<1>3. tab[t] \in TabSet /\ [tab[t] EXCEPT !.dialog = "none"] \in TabSet
    BY TabParts, Fields
<1>4. PICK e : tab' = [tab EXCEPT ![t] =
          CASE e = "DeviceFlowFailure" -> [@ EXCEPT !.dialog = "none"]
            [] e = "BackendCreate" -> [@ EXCEPT !.dialog = "none", !.stage = AfterService(t)]
            [] OTHER -> IF tab[t].errors THEN @ ELSE [@ EXCEPT !.dialog = "none", !.stage = "finished"]]
    BY DEF Deliver
<1>5. CASE e = "DeviceFlowFailure"
    BY <1>3, <1>4, <1>5
<1>6. CASE e = "BackendCreate"
    BY <1>1, <1>2, <1>4, <1>6
<1>7. CASE e \notin {"DeviceFlowFailure", "BackendCreate"}
    <2>1. tab' = [tab EXCEPT ![t] = IF tab[t].errors THEN @ ELSE [@ EXCEPT !.dialog = "none", !.stage = "finished"]]
        BY <1>4, <1>7
    <2> QED
        BY <1>1, <1>2, <1>3, <2>1
<1> QED
    BY <1>5, <1>6, <1>7

(* The delivery of an event keeps the types.                               *)
LEMMA DeliverType ==
    ASSUME ServerType, TabType, NEW t \in Tabs, Deliver(t)
    PROVE  ServerType' /\ TabType'
<1>1. tab' \in [Tabs -> TabSet]
    BY DeliveredType, TabTo
<1>2. wire[t] \in Seq(EventSet) /\ wire[t] # <<>> => Tail(wire[t]) \in Seq(EventSet)
    OBVIOUS
<1>3. wire' \in [Tabs -> Seq(EventSet)]
    BY <1>2 DEF Deliver, TabType
<1>4. TabType'
    BY <1>1, <1>3 DEF Deliver, TabType
<1> QED
    BY <1>4 DEF Deliver, ServerType, server

(* A start and a crash of the orchestrator keep the types.                 *)
LEMMA LifeType ==
    ASSUME ServerType, TabType, Bootstrap \/ Crash
    PROVE  ServerType' /\ TabType'
<1>1. CASE Bootstrap
    <2>1. key' \in Keys \cup {NoKey}
        BY <1>1 DEF Bootstrap, BootKey, ServerType, Keys
    <2> QED
        BY <1>1, <2>1 DEF Bootstrap, ServerType, TabType
<1>2. CASE Crash
    <2>1. \A t \in Tabs : [tab[t] EXCEPT !.socket = FALSE, !.answer = IF @ = "asked" THEN "none" ELSE @] \in TabSet
        BY TabParts DEF TabSet
    <2>2. NoRestore \in RestoreSet
        BY DEF RestoreSet
    <2>3. tab' \in [Tabs -> TabSet]
        BY <1>2, <2>1, Zenon DEF Crash
    <2>4. restore' \in [Tabs -> RestoreSet]
        BY <1>2, <2>2, Zenon DEF Crash
    <2>5. <<>> \in Seq(EventSet)
        OBVIOUS
    <2>6. wire' \in [Tabs -> Seq(EventSet)]
        BY <1>2, <2>5, Zenon DEF Crash
    <2>7. login' \in [Tabs -> {"none", "waiting", "saved", "failed"}]
        BY <1>2 DEF Crash
    <2>8. TabType'
        BY <2>3, <2>4, <2>6, <2>7 DEF TabType
    <2> QED
        BY <1>2, <2>8 DEF Crash, Waiting, ServerType
<1> QED
    BY <1>1, <1>2

(* What other browsers do keeps the types.                                 *)
LEMMA ElsewhereType ==
    ASSUME ServerType, TabType, Elsewhere
    PROVE  ServerType' /\ TabType'
<1>1. CASE ImportElsewhere
    BY <1>1 DEF ImportElsewhere, ServerType, TabType, Keys
<1>2. CASE LocalElsewhere
    <2>1. wire' \in [Tabs -> Seq(EventSet)] /\ deaf' \subseteq Tabs
        BY <1>2, PublishedType DEF LocalElsewhere, EventSet
    <2> QED
        BY <1>2, <2>1 DEF LocalElsewhere, ServerType, TabType
<1>3. CASE TaskEndElsewhere
    <2>1. wire' \in [Tabs -> Seq(EventSet)] /\ deaf' \subseteq Tabs
        BY <1>3, TaskEndType DEF TaskEndElsewhere, ServerType
    <2> QED
        BY <1>3, <2>1 DEF TaskEndElsewhere, ServerType, TabType, server
<1> QED
    BY <1>1, <1>2, <1>3 DEF Elsewhere

(* Every step keeps the types.                                             *)
LEMMA TypeNext == OnboardingTypeOK /\ [OnboardingNext]_onboarding => OnboardingTypeOK'
<1> SUFFICES ASSUME ServerType, TabType, [OnboardingNext]_onboarding PROVE ServerType' /\ TabType'
    BY TypeParts
<1>1. ASSUME NEW t \in Tabs, Step(t) PROVE ServerType' /\ TabType'
    BY <1>1, FlowType, LoadType, KeyType, LoginType, BackupType, RestoreType, SocketType, DeliverType DEF Step
<1>2. CASE UNCHANGED onboarding
    BY <1>2 DEF onboarding, server, ServerType, TabType
<1> QED
    BY <1>1, <1>2, LifeType, ElsewhereType DEF OnboardingNext

(* The state is always of its type.                                        *)
THEOREM StateIsTyped == OnboardingSpec => []OnboardingTypeOK
BY InitType, TypeNext, PTL DEF OnboardingSpec

-----------------------------------------------------------------------------
(* The keys. *)

Kept == known \cup unkept

ServerKeys ==
    /\ boot = "ready" => key # NoKey
    /\ "key" \in flags => key \in Kept
    /\ local \subseteq Kept

(* What a tab shows is a step of a flow only once there is a key, and one  *)
(* that follows the key only once the key is confirmed.                    *)
StageOK(t) ==
    /\ tab[t].stage \notin Outside => key # NoKey
    /\ tab[t].stage \in After \/ "key" \in tab[t].status => "key" \in flags
    /\ tab[t].dialog # "none" => tab[t].stage \in After
    /\ wire[t] # <<>> => tab[t].dialog \in {"login", "restore"}

(* A code that was read is the key, unless the key was replaced since.     *)
CodeOK(t) == \A k \in {tab[t].code, tab[t].answer} \cap Keys : key # NoKey /\ (key = k \/ key \in Kept)

RestoreOK(t) == restore[t].stage # "none" => restore[t].key \in Kept

TabOK(t) == StageOK(t) /\ CodeOK(t) /\ RestoreOK(t)

KeysInv == OnboardingTypeOK /\ ServerKeys /\ \A t \in Tabs : TabOK(t)

(* What every step does: no key is lost, and a key is replaced only by one *)
(* that the user has.                                                      *)
Grows ==
    /\ Kept \subseteq Kept'
    /\ "key" \in flags => "key" \in flags'
    /\ key # NoKey => key' # NoKey /\ (key' = key \/ key' \in Kept')

(* No key is not a key.                                                    *)
LEMMA NoKeyIsNone == NoKey \notin Keys
BY OnboardingAssumption DEF Keys

(* What a tab's dialogue tells stays true, if the tab stays where it is    *)
(* and the server's flags only grow.                                       *)
LEMMA StageKeeps ==
    ASSUME NEW t, StageOK(t), Grows,
           tab'[t].status \in {tab[t].status, {}},
           tab'[t].stage \notin Outside => tab[t].stage \notin Outside,
           tab'[t].stage \in After => tab[t].stage \in After \/ "key" \in flags',
           tab'[t].dialog # "none" => tab'[t].stage \in After,
           wire'[t] # <<>> => tab'[t].dialog \in {"login", "restore"}
    PROVE  StageOK(t)'
BY DEF StageOK, Grows

(* The code that a tab shows stays a known one, if it changes only to the  *)
(* key.                                                                    *)
LEMMA CodeKeeps ==
    ASSUME NEW t, CodeOK(t), Grows,
           {tab'[t].code, tab'[t].answer} \cap Keys \subseteq {tab[t].code, tab[t].answer, key, key'}
    PROVE  CodeOK(t)'
BY NoKeyIsNone DEF CodeOK, Grows

(* A restore stays one of a kept key, if it goes on with the same.         *)
LEMMA RestoreKeeps ==
    ASSUME NEW t, RestoreOK(t), Grows,
           \/ restore'[t].stage = "none"
           \/ restore[t].stage # "none" /\ restore'[t].key = restore[t].key
           \/ restore'[t].key \in Kept'
    PROVE  RestoreOK(t)'
BY DEF RestoreOK, Grows

(* A tab that a step does not act in, though an event may be sent to it.   *)
Quiet(u) ==
    /\ tab'[u] = tab[u] /\ restore'[u] = restore[u]
    /\ wire'[u] # <<>> => wire[u] # <<>> \/ tab[u].dialog \in {"login", "restore"}

(* A tab that takes no part in a step keeps all this.                      *)
LEMMA QuietKeeps ==
    ASSUME NEW u, TabOK(u), Grows, Quiet(u)
    PROVE  TabOK(u)'
<1>1. StageOK(u)'
    BY StageKeeps DEF TabOK, Quiet, StageOK
<1>2. CodeOK(u)'
    BY CodeKeeps DEF TabOK, Quiet
<1>3. RestoreOK(u)'
    BY RestoreKeeps DEF TabOK, Quiet
<1> QED
    BY <1>1, <1>2, <1>3 DEF TabOK

(* Events are sent only to tabs that wait.                                 *)
LEMMA SentToWaiting ==
    ASSUME NEW u \in Tabs,
           \/ UNCHANGED wire
           \/ \E e : Publish(e, {"login"})
           \/ \E k : TaskEnd(k)
    PROVE  wire'[u] # <<>> => wire[u] # <<>> \/ tab[u].dialog \in {"login", "restore"}
BY DEF Publish, TaskEnd, Waiting

(* The invariant of the keys holds for a new installation.                 *)
LEMMA InitKeys == OnboardingInit => KeysInv
<1> SUFFICES ASSUME OnboardingInit PROVE KeysInv
    OBVIOUS
<1>1. ServerKeys
    BY DEF OnboardingInit, ServerKeys, Kept
<1>2. ASSUME NEW t \in Tabs PROVE TabOK(t)
    <2>1. tab[t] = Closed /\ wire[t] = <<>> /\ restore[t] = NoRestore
        BY DEF OnboardingInit
    <2>2. StageOK(t)
        BY <2>1 DEF StageOK, Closed, Outside, After
    <2>3. CodeOK(t)
        BY <2>1, NoKeyIsNone, OnboardingAssumption DEF CodeOK, Closed, Keys
    <2> QED
        BY <2>1, <2>2, <2>3 DEF RestoreOK, NoRestore, TabOK
<1> QED
    BY <1>1, <1>2, InitType DEF KeysInv

(* So does the server, if neither key nor flags change.                    *)
LEMMA ServerQuiet ==
    ASSUME ServerKeys, UNCHANGED <<boot, key, local, known, unkept>>, flags' \cap {"key"} = flags \cap {"key"}
    PROVE  ServerKeys' /\ Grows
BY DEF ServerKeys, Grows, Kept

(* Two tabs do not meet, but for the events.                               *)
LEMMA OthersQuiet ==
    ASSUME TabType, NEW t \in Tabs, Step(t), NEW u \in Tabs \ {t}
    PROVE  Quiet(u)
<1>1. tab'[u] = tab[u]
    <2>1. CASE \/ Open(t) \/ Close(t) \/ Load(t) \/ ReadKey(t) \/ ReadKeyFails(t) \/ KeyArrives(t)
               \/ EnableTelemetry(t) \/ ConfirmKey(t) \/ ImportKey(t) \/ ReimportKey(t)
        BY <2>1 DEF Open, Close, Load, ReadKey, ReadKeyFails, KeyArrives, EnableTelemetry, ConfirmKey,
                    ImportKey, ReimportKey, Goto, TabType
    <2>2. CASE Welcome(t) \/ SeeKey(t) \/ Customize(t)
        BY <2>2 DEF Welcome, SeeKey, Customize, Click, Goto, TabType
    <2>3. CASE \/ StartLogin(t) \/ Approved(t) \/ LoggedIn(t) \/ LoginFails(t) \/ LoginBreaks(t)
               \/ OpenLocal(t) \/ CreateLocal(t) \/ CancelDialog(t)
        BY <2>3 DEF StartLogin, Approved, LoggedIn, LoginFails, LoginBreaks, OpenLocal, CreateLocal,
                    CancelDialog, Dialog, TabType
    <2>4. CASE \/ CreateBackup(t) \/ Skip(t) \/ CreateSchedule(t)
               \/ StartRestore(t) \/ BeginRestore(t) \/ BeginRestoreFails(t) \/ ReplaceState(t)
        BY <2>4 DEF CreateBackup, Skip, CreateSchedule, Done, Goto, StartRestore, BeginRestore,
                    BeginRestoreFails, ReplaceState, TabType
    <2>5. CASE \/ EndRestore(t) \/ FailRestore(t) \/ ReportItem(t) \/ WriteError(t)
               \/ Connect(t) \/ Disconnect(t) \/ Deliver(t)
        BY <2>5, DeliveredType DEF EndRestore, FailRestore, ReportItem, WriteError, ShowsErrors,
                    Connect, Disconnect, TabType
    <2> QED
        BY <2>1, <2>2, <2>3, <2>4, <2>5 DEF Step
<1>2. restore'[u] = restore[u]
    BY DEF Step, Open, Close, Load, ReadKey, ReadKeyFails, KeyArrives, Welcome, EnableTelemetry, SeeKey,
           ConfirmKey, ImportKey, ReimportKey, StartLogin, Approved, LoggedIn, LoginFails, LoginBreaks,
           OpenLocal, CreateLocal, CancelDialog, CreateBackup, Customize, Skip, CreateSchedule, Click,
           StartRestore, BeginRestore, BeginRestoreFails, ReplaceState, EndRestore, FailRestore, Restores,
           ReportItem, WriteError, Connect, Disconnect, Deliver, TabType
<1>3. \/ UNCHANGED wire \/ wire'[u] = wire[u]
      \/ \E e : Publish(e, {"login"})
      \/ \E k : TaskEnd(k)
    BY DEF Step, Open, Close, Load, ReadKey, ReadKeyFails, KeyArrives, Welcome, EnableTelemetry, SeeKey,
           ConfirmKey, ImportKey, ReimportKey, StartLogin, Approved, LoggedIn, LoginFails, LoginBreaks,
           OpenLocal, CreateLocal, CancelDialog, CreateBackup, Customize, Skip, CreateSchedule, Click,
           StartRestore, BeginRestore, BeginRestoreFails, ReplaceState, EndRestore, FailRestore,
           ReportItem, WriteError, Connect, Disconnect, Deliver, TabType
<1> QED
    BY <1>1, <1>2, <1>3, SentToWaiting DEF Quiet

(* Moving between the dialogues changes no key.                            *)
LEMMA FlowKeys ==
    ASSUME OnboardingTypeOK, ServerKeys, NEW t \in Tabs, TabOK(t),
           \/ Open(t) \/ Close(t) \/ ReadKey(t) \/ ReadKeyFails(t) \/ KeyArrives(t)
           \/ Welcome(t) \/ SeeKey(t) \/ OpenLocal(t) \/ Customize(t)
    PROVE  ServerKeys' /\ Grows /\ TabOK(t)'
<1>1. ServerKeys' /\ Grows
    BY ServerQuiet DEF Open, Close, ReadKey, ReadKeyFails, KeyArrives, Welcome, SeeKey, OpenLocal, Customize,
                       Click, server
<1>2. TabType /\ tab[t] \in TabSet
    BY TypeParts, TabParts
<1>3. UNCHANGED restore
    BY DEF Open, Close, ReadKey, ReadKeyFails, KeyArrives, Welcome, SeeKey, OpenLocal, Customize, Click
<1>4. CASE Open(t)
    <2>1. PICK flow \in {"gate", "setup", "restore"} :
             tab' = [tab EXCEPT ![t] = [Closed EXCEPT !.flow = flow, !.stage = "loading", !.socket = tab[t].socket]]
        BY <1>4, OnboardingAssumption DEF Open
    <2>2. /\ tab'[t].stage = "loading" /\ tab'[t].status = {} /\ tab'[t].dialog = "none"
          /\ tab'[t].code = NoKey /\ tab'[t].answer = "none"
        BY <1>2, <2>1 DEF TabType, Closed
    <2>3. wire[t] = <<>> /\ wire' = wire
        BY <1>4 DEF Open, Show, TabOK, StageOK
    <2>4. StageOK(t)'
        BY <1>1, <2>2, <2>3, StageKeeps DEF TabOK, After, Outside
    <2>5. CodeOK(t)'
        BY <1>1, <2>2, CodeKeeps, NoKeyIsNone, OnboardingAssumption DEF TabOK, Keys
    <2> QED
        BY <1>1, <1>3, <2>4, <2>5, RestoreKeeps DEF TabOK
<1>5. CASE Close(t)
    <2>1. tab'[t] = Closed /\ wire'[t] = <<>>
        BY <1>2, <1>5, TypeParts DEF Close, TabType
    <2>2. StageOK(t)'
        BY <1>1, <2>1, StageKeeps DEF TabOK, After, Outside, Closed
    <2>3. CodeOK(t)'
        BY <1>1, <2>1, CodeKeeps, NoKeyIsNone, OnboardingAssumption DEF TabOK, Keys, Closed
    <2> QED
        BY <1>1, <1>3, <2>2, <2>3, RestoreKeeps DEF TabOK
<1>6. CASE ReadKey(t) \/ ReadKeyFails(t) \/ KeyArrives(t)
    <2>1. /\ tab'[t].stage = tab[t].stage /\ tab'[t].status = tab[t].status /\ tab'[t].dialog = tab[t].dialog
          /\ {tab'[t].code, tab'[t].answer} \subseteq {tab[t].code, tab[t].answer, key, "none"}
          /\ wire' = wire
        <3>1. CASE ReadKey(t) \/ ReadKeyFails(t)
            BY <1>2, <3>1 DEF ReadKey, ReadKeyFails, TabType, TabSet
        <3>2. CASE KeyArrives(t)
            <4>1. tab'[t] = [tab[t] EXCEPT !.code = tab[t].answer, !.answer = "none"] /\ wire' = wire
                BY <1>2, <3>2 DEF KeyArrives, TabType
            <4> QED
                BY <1>2, <4>1 DEF TabSet
        <3> QED
            BY <1>6, <3>1, <3>2
    <2>2. StageOK(t)'
        BY <1>1, <2>1, StageKeeps DEF TabOK, StageOK
    <2>3. CodeOK(t)'
        BY <1>1, <2>1, CodeKeeps, OnboardingAssumption DEF TabOK, Keys
    <2> QED
        BY <1>1, <1>3, <2>2, <2>3, RestoreKeeps DEF TabOK
<1>7. CASE Welcome(t) \/ SeeKey(t) \/ Customize(t)
    <2>1. PICK s : /\ tab' = [tab EXCEPT ![t].stage = s]
                   /\ s \in After => tab[t].stage \in After
                   /\ tab[t].stage \notin Outside /\ tab[t].dialog = "none" /\ wire' = wire
        BY <1>7 DEF Welcome, SeeKey, Customize, Click, Show, Goto, After, Outside
    <2>2. /\ tab'[t].stage = s /\ tab'[t].status = tab[t].status /\ tab'[t].dialog = tab[t].dialog
          /\ tab'[t].code = tab[t].code /\ tab'[t].answer = tab[t].answer
        BY <1>2, <2>1 DEF TabType, TabSet
    <2>3. StageOK(t)'
        BY <1>1, <2>1, <2>2, StageKeeps DEF TabOK, StageOK
    <2>4. CodeOK(t)'
        BY <1>1, <2>2, CodeKeeps DEF TabOK
    <2> QED
        BY <1>1, <1>3, <2>3, <2>4, RestoreKeeps DEF TabOK
<1>8. CASE OpenLocal(t)
    <2>1. /\ tab'[t].stage = tab[t].stage /\ tab'[t].status = tab[t].status /\ tab'[t].dialog = "local"
          /\ tab'[t].code = tab[t].code /\ tab'[t].answer = tab[t].answer
          /\ wire' = wire /\ wire[t] = <<>> /\ tab[t].stage \in After
        BY <1>2, <1>8 DEF OpenLocal, Show, Dialog, TabType, TabSet, After, TabOK, StageOK
    <2>2. StageOK(t)'
        BY <1>1, <2>1, StageKeeps DEF TabOK
    <2>3. CodeOK(t)'
        BY <1>1, <2>1, CodeKeeps DEF TabOK
    <2> QED
        BY <1>1, <1>3, <2>2, <2>3, RestoreKeeps DEF TabOK
<1> QED
    BY <1>1, <1>4, <1>5, <1>6, <1>7, <1>8

(* A step that leaves what a tab has read as it is.                        *)
LEMMA TabKeeps ==
    ASSUME NEW t, TabOK(t), Grows,
           tab'[t].code = tab[t].code, tab'[t].answer = tab[t].answer,
           tab'[t].status = tab[t].status,
           tab'[t].stage \notin Outside => tab[t].stage \notin Outside,
           tab'[t].stage \in After => tab[t].stage \in After \/ "key" \in flags',
           tab'[t].dialog # "none" => tab'[t].stage \in After,
           wire'[t] # <<>> => tab'[t].dialog \in {"login", "restore"},
           \/ restore'[t].stage = "none"
           \/ restore[t].stage # "none" /\ restore'[t].key = restore[t].key
           \/ restore'[t].key \in Kept'
           \/ restore'[t] = restore[t]
    PROVE  TabOK(t)'
<1>1. StageOK(t)'
    BY StageKeeps DEF TabOK
<1>2. CodeOK(t)'
    BY CodeKeeps DEF TabOK
<1>3. RestoreOK(t)'
    BY RestoreKeeps DEF TabOK, RestoreOK, Grows
<1> QED
    BY <1>1, <1>2, <1>3 DEF TabOK

(* Loading the status takes a tab only where its flags allow.              *)
LEMMA LoadKeys ==
    ASSUME OnboardingTypeOK, ServerKeys, NEW t \in Tabs, TabOK(t), Load(t)
    PROVE  ServerKeys' /\ Grows /\ TabOK(t)'
<1>1. ServerKeys' /\ Grows
    BY ServerQuiet DEF Load, server
<1>2. TabType /\ tab[t] \in TabSet
    BY TypeParts, TabParts
<1>3. PICK s : /\ s = Landing(tab[t].flow)
               /\ tab'[t] = [tab[t] EXCEPT !.stage = s, !.status = Status,
                                           !.answer = IF s = "welcome" THEN "asked" ELSE "none"]
    BY <1>2 DEF Load, TabType
<1>4. /\ tab'[t].stage = s /\ tab'[t].status = Status /\ tab'[t].dialog = tab[t].dialog
      /\ tab'[t].code = tab[t].code /\ tab'[t].answer \in {"asked", "none"}
    BY <1>2, <1>3 DEF TabSet
<1>5. "key" \in Status => "key" \in flags
    BY DEF Status
<1>6. s \notin Outside => key # NoKey
    <2>1. CASE boot = "error"
        BY <1>3, <2>1 DEF Landing, Outside
    <2>2. CASE boot # "error"
        BY <1>3, <2>2, TypeParts DEF Load, ServerType, ServerKeys
    <2> QED
        BY <2>1, <2>2
<1>7. s \in After => "key" \in Status
    BY <1>3, LandingAfterKey
<1>8. wire' = wire /\ tab[t].dialog = "none" /\ wire[t] = <<>>
    BY DEF Load, TabOK, StageOK, After
<1>9. StageOK(t)'
    BY <1>1, <1>4, <1>5, <1>6, <1>7, <1>8 DEF StageOK, Grows
<1>10. CodeOK(t)'
    BY <1>1, <1>4, CodeKeeps, OnboardingAssumption DEF TabOK, Keys
<1> QED
    BY <1>1, <1>9, <1>10, RestoreKeeps DEF TabOK, Load

(* Confirming or importing a key makes it a kept one.                      *)
LEMMA ConfirmKeys ==
    ASSUME OnboardingTypeOK, ServerKeys, NEW t \in Tabs, TabOK(t),
           EnableTelemetry(t) \/ ConfirmKey(t) \/ ImportKey(t) \/ ReimportKey(t)
    PROVE  ServerKeys' /\ Grows /\ TabOK(t)'
<1>1. TabType /\ tab[t] \in TabSet
    BY TypeParts, TabParts
<1>2. /\ UNCHANGED <<restore, wire, local, boot>>
      /\ tab[t].stage \notin Outside /\ tab[t].dialog = "none" /\ wire[t] = <<>> /\ key # NoKey
    BY DEF EnableTelemetry, ConfirmKey, ImportKey, ReimportKey, Show, Outside, TabOK, StageOK
<1>3. ASSUME Grows, NEW s, Goto(t, s), s \in After => tab[t].stage \in After \/ "key" \in flags'
      PROVE  TabOK(t)'
    <2>1. /\ tab'[t].stage = s /\ tab'[t].status = tab[t].status /\ tab'[t].dialog = tab[t].dialog
          /\ tab'[t].code = tab[t].code /\ tab'[t].answer = tab[t].answer
        BY <1>1, <1>3 DEF Goto, TabType, TabSet
    <2> QED
        BY <1>2, <1>3, <2>1, TabKeeps
<1>4. CASE EnableTelemetry(t)
    <2>1. ServerKeys' /\ Grows
        BY <1>4, ServerQuiet DEF EnableTelemetry
    <2>2. PICK next : /\ next = First(tab[t].flow, tab[t].status \cup {"telemetry"})
                      /\ Goto(t, IF next = "welcome" THEN "key-intro" ELSE next)
        BY <1>4 DEF EnableTelemetry
    <2>3. next \in After => "key" \in flags'
        BY <2>1, <2>2, FirstAfterKey DEF TabOK, StageOK, Grows
    <2>4. "key-intro" \notin After
        BY DEF After
    <2> QED
        BY <1>3, <2>1, <2>2, <2>3, <2>4
<1>5. CASE ConfirmKey(t)
    <2>1. tab[t].code # NoKey => tab[t].code \in Keys /\ tab[t].code \in Kept'
        BY <1>1, <1>5 DEF TabSet, ConfirmKey, Matches, Kept
    <2>2. Kept \subseteq Kept' /\ key' = key
        BY <1>5 DEF ConfirmKey, Kept
    <2>3. key \in Kept'
        <3>1. CASE tab[t].code = NoKey
            BY <1>2, <1>5, <3>1 DEF ConfirmKey, Kept
        <3>2. CASE tab[t].code # NoKey
            BY <2>1, <2>2, <3>2 DEF TabOK, CodeOK
        <3> QED
            BY <3>1, <3>2
    <2>4. ServerKeys' /\ Grows /\ "key" \in flags'
        BY <1>2, <1>5, <2>2, <2>3 DEF ServerKeys, Grows, ConfirmKey
    <2>5. Goto(t, AfterKey(t))
        BY <1>5 DEF ConfirmKey
    <2> QED
        BY <1>3, <2>4, <2>5
<1>6. CASE ImportKey(t)
    <2>1. PICK typed \in known \cup {Typo} :
             /\ key' = typed /\ unkept' = unkept \cup ({typed} \ known) /\ known' = known
             /\ \/ flags' = flags /\ tab' = [tab EXCEPT ![t] = [@ EXCEPT !.code = typed, !.stage = "key-save"]]
                \/ flags' = flags /\ Goto(t, "key-confirm")
                \/ flags' = flags \cup {"key"} /\ Goto(t, AfterKey(t))
                \/ flags' = flags /\ UNCHANGED tab
        BY <1>6 DEF ImportKey
    <2>2. typed \in Keys /\ typed \in Kept' /\ Kept \subseteq Kept'
        BY <2>1, TypeParts DEF ServerType, Keys, Kept
    <2>3. ServerKeys' /\ Grows
        BY <1>2, <2>1, <2>2, NoKeyIsNone DEF ServerKeys, Grows
    <2>4. {"key-save", "key-confirm"} \cap After = {}
        BY DEF After
    <2>5. ASSUME UNCHANGED tab PROVE TabOK(t)'
        BY <1>2, <2>3, <2>5, TabKeeps
    <2>6. ASSUME tab' = [tab EXCEPT ![t] = [@ EXCEPT !.code = typed, !.stage = "key-save"]] PROVE TabOK(t)'
        <3>1. tab'[t] = [tab[t] EXCEPT !.code = typed, !.stage = "key-save"]
            BY <1>1, <2>6 DEF TabType
        <3>2. /\ tab'[t].stage = "key-save" /\ tab'[t].status = tab[t].status /\ tab'[t].dialog = tab[t].dialog
              /\ tab'[t].code = key' /\ tab'[t].answer = tab[t].answer
            BY <1>1, <2>1, <3>1 DEF TabSet
        <3>3. StageOK(t)'
            BY <1>2, <2>3, <2>4, <3>2, StageKeeps DEF TabOK
        <3>4. CodeOK(t)'
            BY <2>3, <3>2, CodeKeeps DEF TabOK
        <3> QED
            BY <1>2, <2>3, <3>3, <3>4, RestoreKeeps DEF TabOK
    <2> QED
        BY <1>3, <2>1, <2>3, <2>4, <2>5, <2>6
<1>7. CASE ReimportKey(t)
    <2>1. PICK typed \in known \cup {Typo} :
             key' = typed /\ unkept' = unkept \cup ({typed} \ known) /\ known' = known
        BY <1>7 DEF ReimportKey
    <2>2. typed \in Keys /\ typed \in Kept' /\ Kept \subseteq Kept'
        BY <2>1, TypeParts DEF ServerType, Keys, Kept
    <2>3. ServerKeys' /\ Grows
        BY <1>2, <1>7, <2>1, <2>2, NoKeyIsNone DEF ServerKeys, Grows, ReimportKey
    <2>4. Goto(t, "restore-point") /\ tab[t].stage \in After
        BY <1>7 DEF ReimportKey, Show, After
    <2> QED
        BY <1>3, <2>3, <2>4
<1> QED
    BY <1>4, <1>5, <1>6, <1>7

(* A login leaves the keys alone.                                          *)
LEMMA LoginKeys ==
    ASSUME OnboardingTypeOK, ServerKeys, NEW t \in Tabs, TabOK(t),
           \/ StartLogin(t) \/ Approved(t) \/ LoggedIn(t) \/ LoginFails(t) \/ LoginBreaks(t)
           \/ CreateLocal(t) \/ CancelDialog(t)
    PROVE  ServerKeys' /\ Grows /\ TabOK(t)'
<1>1. TabType /\ tab[t] \in TabSet
    BY TypeParts, TabParts
<1>2. ServerKeys' /\ Grows /\ UNCHANGED restore
    BY ServerQuiet DEF StartLogin, Approved, LoggedIn, LoginFails, LoginBreaks, CreateLocal, CancelDialog, server
<1>3. CASE Approved(t) \/ LoggedIn(t) \/ LoginFails(t) \/ LoginBreaks(t)
    <2>1. Quiet(t)
        BY <1>2, <1>3, SentToWaiting DEF Approved, LoggedIn, LoginFails, LoginBreaks, Quiet
    <2> QED
        BY <1>2, <2>1, QuietKeeps
<1>4. CASE StartLogin(t)
    <2>1. /\ tab'[t].stage = tab[t].stage /\ tab'[t].status = tab[t].status
          /\ tab'[t].code = tab[t].code /\ tab'[t].answer = tab[t].answer
          /\ wire' = wire /\ wire[t] = <<>> /\ tab[t].stage \in After
        BY <1>1, <1>4 DEF StartLogin, Show, Dialog, TabType, TabSet, After, TabOK, StageOK
    <2> QED
        BY <1>2, <2>1, TabKeeps
<1>5. CASE CreateLocal(t)
    <2>1. tab'[t] = [tab[t] EXCEPT !.dialog = "none", !.stage = AfterService(t)]
        BY <1>1, <1>5 DEF CreateLocal, TabType
    <2>2. PICK s : s = AfterService(t)
        OBVIOUS
    <2>3. /\ tab'[t].stage = s /\ tab'[t].status = tab[t].status /\ tab'[t].dialog = "none"
          /\ tab'[t].code = tab[t].code /\ tab'[t].answer = tab[t].answer
        BY <1>1, <2>1, <2>2 DEF TabSet
    <2>4. wire'[t] = <<>>
        BY <1>5 DEF CreateLocal, Publish, Waiting, TabOK, StageOK
    <2>5. tab[t].stage \in After /\ tab[t].stage \notin Outside
        BY <1>5 DEF CreateLocal, TabOK, StageOK, After, Outside
    <2> QED
        BY <1>2, <2>3, <2>4, <2>5, TabKeeps
<1>6. CASE CancelDialog(t)
    <2>1. PICK s \in {tab[t].stage, "finished"} : tab'[t] = [tab[t] EXCEPT !.dialog = "none", !.stage = s]
        BY <1>1, <1>6 DEF CancelDialog, TabType
    <2>2. /\ tab'[t].stage = s /\ tab'[t].status = tab[t].status /\ tab'[t].dialog = "none"
          /\ tab'[t].code = tab[t].code /\ tab'[t].answer = tab[t].answer
        BY <1>1, <2>1 DEF TabSet
    <2>3. wire'[t] = <<>>
        BY <1>1, <1>6 DEF CancelDialog, TabType
    <2>4. "finished" \notin After /\ "finished" \in Outside
        BY DEF After, Outside
    <2> QED
        BY <1>2, <2>1, <2>2, <2>3, <2>4, TabKeeps
<1> QED
    BY <1>3, <1>4, <1>5, <1>6

(* A backup is made with a key that is kept.                               *)
LEMMA BackupKeys ==
    ASSUME OnboardingTypeOK, ServerKeys, NEW t \in Tabs, TabOK(t),
           CreateBackup(t) \/ Skip(t) \/ CreateSchedule(t)
    PROVE  ServerKeys' /\ Grows /\ TabOK(t)'
<1>1. TabType /\ tab[t] \in TabSet
    BY TypeParts, TabParts
<1>2. ServerKeys' /\ Grows
    <2>1. CASE Skip(t) \/ CreateSchedule(t)
        BY <2>1, ServerQuiet DEF Skip, CreateSchedule
    <2>2. CASE CreateBackup(t)
        <3>1. key \in Kept
            BY <2>2 DEF CreateBackup, Show, After, TabOK, StageOK, ServerKeys
        <3>2. "key" \in flags' <=> "key" \in flags
            BY <2>2 DEF CreateBackup
        <3> QED
            BY <2>2, <3>1, <3>2 DEF CreateBackup, ServerKeys, Grows, Kept
    <2> QED
        BY <2>1, <2>2
<1>3. Goto(t, "finished") /\ UNCHANGED <<restore, wire>> /\ tab[t].dialog = "none" /\ wire[t] = <<>>
    BY DEF CreateBackup, Skip, CreateSchedule, Done, Show, TabOK, StageOK
<1>4. /\ tab'[t].stage = "finished" /\ tab'[t].status = tab[t].status /\ tab'[t].dialog = "none"
      /\ tab'[t].code = tab[t].code /\ tab'[t].answer = tab[t].answer
    BY <1>1, <1>3 DEF Goto, TabType, TabSet
<1> QED
    BY <1>2, <1>3, <1>4, TabKeeps DEF After, Outside

(* A restore replaces the configuration by one of a kept key.              *)
LEMMA RestoreKeys ==
    ASSUME OnboardingTypeOK, ServerKeys, NEW t \in Tabs, TabOK(t),
           \/ StartRestore(t) \/ BeginRestore(t) \/ BeginRestoreFails(t) \/ ReplaceState(t)
           \/ EndRestore(t) \/ FailRestore(t) \/ ReportItem(t) \/ WriteError(t)
    PROVE  ServerKeys' /\ Grows /\ TabOK(t)'
<1>1. TabType /\ tab[t] \in TabSet /\ restore[t] \in RestoreSet
    BY TypeParts, TabParts
<1>2. ServerKeys' /\ Grows
    <2>1. CASE ReplaceState(t)
        <3>1. restore[t].key \in Kept /\ restore[t].key \in Keys
            BY <2>1, TypeParts, TabParts DEF ReplaceState, TabOK, RestoreOK
        <3> QED
            BY <2>1, <3>1, NoKeyIsNone DEF ReplaceState, ServerKeys, Grows, Kept
    <2>2. CASE ~ReplaceState(t)
        BY <2>2, ServerQuiet DEF StartRestore, BeginRestore, BeginRestoreFails, EndRestore, FailRestore,
                                 ReportItem, WriteError, server
    <2> QED
        BY <2>1, <2>2
<1>3. ASSUME NEW s, restore[t].stage # "none", Restores(t, s)
      PROVE  restore'[t].key = restore[t].key
    BY <1>1, <1>3 DEF Restores, TabType, RestoreSet, NoRestore
<1>4. wire'[t] # <<>> => wire[t] # <<>> \/ tab[t].dialog \in {"login", "restore"}
    BY SentToWaiting DEF StartRestore, BeginRestore, BeginRestoreFails, ReplaceState, EndRestore, FailRestore,
                         ReportItem, WriteError
<1>5. CASE StartRestore(t)
    <2>1. tab'[t] = [tab[t] EXCEPT !.dialog = "restore", !.chosen = key, !.errors = FALSE]
        BY <1>1, <1>5 DEF StartRestore, TabType
    <2>2. /\ tab'[t].stage = tab[t].stage /\ tab'[t].status = tab[t].status /\ tab'[t].dialog = "restore"
          /\ tab'[t].code = tab[t].code /\ tab'[t].answer = tab[t].answer
        BY <1>1, <2>1 DEF TabSet
    <2>3. tab[t].stage \in After /\ restore'[t].key = key /\ UNCHANGED <<key, known, unkept>>
        BY <1>1, <1>5 DEF StartRestore, Show, After, TabType, server
    <2>4. restore'[t].key \in Kept'
        BY <2>3 DEF TabOK, StageOK, ServerKeys, Kept
    <2> QED
        BY <1>2, <2>2, <2>3, <2>4, TabKeeps
<1>6. CASE BeginRestore(t) \/ BeginRestoreFails(t) \/ ReplaceState(t) \/ EndRestore(t) \/ FailRestore(t)
    <2>1. tab' = tab
        BY <1>6 DEF BeginRestore, BeginRestoreFails, ReplaceState, EndRestore, FailRestore
    <2>2. \/ restore'[t].stage = "none"
          \/ restore[t].stage # "none" /\ restore'[t].key = restore[t].key
        BY <1>1, <1>3, <1>6 DEF BeginRestore, BeginRestoreFails, ReplaceState, EndRestore, FailRestore, NoRestore, TabType
    <2>3. wire'[t] # <<>> => tab'[t].dialog \in {"login", "restore"}
        BY <1>4, <2>1 DEF TabOK, StageOK
    <2> QED
        BY <1>2, <2>1, <2>2, <2>3, TabKeeps DEF TabOK, StageOK
<1>7. CASE ReportItem(t) \/ WriteError(t)
    <2>1. /\ tab'[t].stage = tab[t].stage /\ tab'[t].status = tab[t].status /\ tab'[t].dialog = tab[t].dialog
          /\ tab'[t].code = tab[t].code /\ tab'[t].answer = tab[t].answer
        BY <1>1, <1>7 DEF ReportItem, WriteError, ShowsErrors, TabType, TabSet
    <2>2. restore'[t] = restore[t] \/ restore'[t].stage = "none"
        BY <1>1, <1>7 DEF ReportItem, WriteError, NoRestore, TabType
    <2>3. wire'[t] # <<>> => tab'[t].dialog \in {"login", "restore"}
        BY <1>4, <2>1 DEF TabOK, StageOK
    <2> QED
        BY <1>2, <2>1, <2>2, <2>3, TabKeeps DEF TabOK, StageOK
<1> QED
    BY <1>5, <1>6, <1>7

(* The connection has nothing to do with the keys.                         *)
LEMMA SocketKeys ==
    ASSUME OnboardingTypeOK, ServerKeys, NEW t \in Tabs, TabOK(t), Connect(t) \/ Disconnect(t)
    PROVE  ServerKeys' /\ Grows /\ TabOK(t)'
<1>1. TabType /\ tab[t] \in TabSet
    BY TypeParts, TabParts
<1>2. ServerKeys' /\ Grows /\ UNCHANGED restore
    BY ServerQuiet DEF Connect, Disconnect, server
<1>3. /\ tab'[t].stage = tab[t].stage /\ tab'[t].status = tab[t].status /\ tab'[t].dialog = tab[t].dialog
      /\ tab'[t].code = tab[t].code /\ tab'[t].answer = tab[t].answer
    BY <1>1 DEF Connect, Disconnect, TabType, TabSet
<1>4. wire'[t] # <<>> => wire[t] # <<>>
    BY <1>1 DEF Connect, Disconnect, TabType
<1> QED
    BY <1>2, <1>3, <1>4, TabKeeps DEF TabOK, StageOK

(* An event ends the dialogue that it was meant for, and changes no key.   *)
LEMMA DeliverKeys ==
    ASSUME OnboardingTypeOK, ServerKeys, NEW t \in Tabs, TabOK(t), Deliver(t)
    PROVE  ServerKeys' /\ Grows /\ TabOK(t)'
<1>1. TabType /\ tab[t] \in TabSet
    BY TypeParts, TabParts
<1>2. ServerKeys' /\ Grows /\ UNCHANGED restore
    BY ServerQuiet DEF Deliver, server
<1>3. PICK e : tab'[t] =
          CASE e = "DeviceFlowFailure" -> [tab[t] EXCEPT !.dialog = "none"]
            [] e = "BackendCreate" -> [tab[t] EXCEPT !.dialog = "none", !.stage = AfterService(t)]
            [] OTHER -> IF tab[t].errors THEN tab[t] ELSE [tab[t] EXCEPT !.dialog = "none", !.stage = "finished"]
    BY <1>1 DEF Deliver, TabType
<1>4. \/ tab'[t] = tab[t]
      \/ \E s : tab'[t] = [tab[t] EXCEPT !.dialog = "none", !.stage = s]
      \/ tab'[t] = [tab[t] EXCEPT !.dialog = "none"]
    <2>1. CASE e = "DeviceFlowFailure"
        BY <1>3, <2>1
    <2>2. CASE e = "BackendCreate"
        BY <1>3, <2>2
    <2>3. CASE e \notin {"DeviceFlowFailure", "BackendCreate"}
        <3>1. tab'[t] = IF tab[t].errors THEN tab[t] ELSE [tab[t] EXCEPT !.dialog = "none", !.stage = "finished"]
            BY <1>3, <2>3
        <3> QED
            BY <3>1
    <2> QED
        BY <2>1, <2>2, <2>3
<1>5. /\ tab'[t].status = tab[t].status /\ tab'[t].dialog \in {tab[t].dialog, "none"}
      /\ tab'[t].code = tab[t].code /\ tab'[t].answer = tab[t].answer
      /\ tab'[t] = tab[t] \/ tab'[t].dialog = "none"
    BY <1>1, <1>4 DEF TabSet
<1>6. tab[t].dialog \in {"login", "restore"} /\ tab[t].stage \in After
    BY DEF Deliver, TabOK, StageOK
<1>7. tab'[t].dialog = "none" => wire'[t] = <<>>
    BY <1>1 DEF Deliver, TabType
<1>8. After \cap Outside = {}
    BY DEF After, Outside
<1> QED
    BY <1>2, <1>5, <1>6, <1>7, <1>8, TabKeeps

(* A start makes a key only where there is none.                           *)
LEMMA LifeKeys ==
    ASSUME OnboardingTypeOK, ServerKeys, \A t \in Tabs : TabOK(t), Bootstrap \/ Crash
    PROVE  ServerKeys' /\ Grows /\ \A t \in Tabs : TabOK(t)'
<1>1. TabType
    BY TypeParts
<1>2. CASE Bootstrap
    <2>1. "key" \in flags => key # NoKey
        BY TypeParts, NoKeyIsNone DEF ServerKeys, ServerType, Kept
    <2>2. key # NoKey => key' = key
        BY <1>2 DEF Bootstrap, BootKey
    <2>3. boot' = "ready" => key' # NoKey
        BY <1>2, OnboardingAssumption DEF Bootstrap, BootKey
    <2>4. ServerKeys' /\ Grows
        BY <1>2, <2>1, <2>2, <2>3 DEF Bootstrap, ServerKeys, Grows, Kept
    <2>5. ASSUME NEW t \in Tabs PROVE TabOK(t)'
        BY <1>2, <2>4, QuietKeeps DEF Bootstrap, Quiet
    <2> QED
        BY <2>4, <2>5
<1>3. CASE Crash
    <2>1. ServerKeys' /\ Grows
        BY <1>3 DEF Crash, ServerKeys, Grows, Kept
    <2>2. ASSUME NEW t \in Tabs PROVE TabOK(t)'
        <3>1. /\ tab'[t] = [tab[t] EXCEPT !.socket = FALSE, !.answer = IF @ = "asked" THEN "none" ELSE @]
              /\ wire'[t] = <<>> /\ restore'[t].stage = "none" /\ tab[t] \in TabSet
            BY <1>1, <1>3, TabParts DEF Crash, NoRestore
        <3>2. /\ tab'[t].stage = tab[t].stage /\ tab'[t].status = tab[t].status /\ tab'[t].dialog = tab[t].dialog
              /\ tab'[t].code = tab[t].code /\ tab'[t].answer \in {tab[t].answer, "none"}
            BY <3>1 DEF TabSet
        <3>3. StageOK(t)'
            BY <2>1, <3>1, <3>2, StageKeeps DEF TabOK, StageOK
        <3>4. CodeOK(t)'
            BY <2>1, <3>2, CodeKeeps, OnboardingAssumption DEF TabOK, Keys
        <3> QED
            BY <2>1, <3>1, <3>3, <3>4, RestoreKeeps DEF TabOK
    <2> QED
        BY <2>1, <2>2
<1> QED
    BY <1>2, <1>3

(* Another browser only adds to what is known and stored.                  *)
LEMMA ElsewhereKeys ==
    ASSUME OnboardingTypeOK, ServerKeys, Elsewhere
    PROVE  ServerKeys' /\ Grows /\ \A u \in Tabs : Quiet(u)
<1>1. UNCHANGED <<tab, restore>>
    BY DEF Elsewhere, ImportElsewhere, LocalElsewhere, TaskEndElsewhere
<1>2. ASSUME NEW u \in Tabs PROVE Quiet(u)
    BY <1>1, SentToWaiting DEF Elsewhere, ImportElsewhere, LocalElsewhere, TaskEndElsewhere, Quiet
<1>3. CASE ImportElsewhere
    <2>1. PICK typed \in known \cup {Typo} :
             key' = typed /\ unkept' = unkept \cup ({typed} \ known) /\ UNCHANGED <<boot, flags, local, known>>
        BY <1>3 DEF ImportElsewhere
    <2>2. typed \in Keys /\ typed \in Kept' /\ Kept \subseteq Kept'
        BY <2>1, TypeParts DEF ServerType, Keys, Kept
    <2>3. ServerKeys' /\ Grows
        BY <2>1, <2>2, NoKeyIsNone DEF ServerKeys, Grows
    <2> QED
        BY <1>2, <2>3
<1>4. CASE LocalElsewhere \/ TaskEndElsewhere
    BY <1>2, <1>4, ServerQuiet DEF LocalElsewhere, TaskEndElsewhere, server
<1> QED
    BY <1>3, <1>4 DEF Elsewhere

(* Every step preserves the invariant of the keys.                         *)
LEMMA KeysNext == KeysInv /\ [OnboardingNext]_onboarding => KeysInv'
<1> SUFFICES ASSUME OnboardingTypeOK, ServerKeys, \A t \in Tabs : TabOK(t), [OnboardingNext]_onboarding
             PROVE  ServerKeys' /\ \A u \in Tabs : TabOK(u)'
    BY TypeNext DEF KeysInv
<1>1. ASSUME NEW t \in Tabs, Step(t) PROVE ServerKeys' /\ \A u \in Tabs : TabOK(u)'
    <2>1. ServerKeys' /\ Grows /\ TabOK(t)'
        BY <1>1, FlowKeys, LoadKeys, ConfirmKeys, LoginKeys, BackupKeys, RestoreKeys, SocketKeys, DeliverKeys
           DEF Step
    <2>2. ASSUME NEW u \in Tabs \ {t} PROVE TabOK(u)'
        BY <1>1, <2>1, TypeParts, OthersQuiet, QuietKeeps
    <2> QED
        BY <2>1, <2>2
<1>2. CASE Bootstrap \/ Crash
    BY <1>2, LifeKeys
<1>3. CASE Elsewhere
    BY <1>3, ElsewhereKeys, QuietKeeps
<1>4. CASE UNCHANGED onboarding
    <2>1. ServerKeys' /\ Grows
        BY <1>4, ServerQuiet DEF onboarding, server
    <2> QED
        BY <1>4, <2>1, QuietKeeps DEF onboarding, Quiet
<1> QED
    BY <1>1, <1>2, <1>3, <1>4 DEF OnboardingNext

(* Over restarts, imports in other tabs, late answers, restores that       *)
(* replace the configuration, and any number of tabs, the user has the key *)
(* of every backup that the flows have made.                               *)
THEOREM KeysAreKept == OnboardingSpec => []BackupKeysAreKept
<1>1. KeysInv => BackupKeysAreKept
    BY DEF KeysInv, ServerKeys, BackupKeysAreKept, Kept
<1> QED
    BY <1>1, InitKeys, KeysNext, PTL DEF OnboardingSpec

-----------------------------------------------------------------------------
(* The dialogues that wait. *)

(* What is sent to the dialogue that a tab shows.                          *)
Meant(t) == IF tab[t].dialog = "restore" THEN Keys
            ELSE IF tab[t].dialog = "login" THEN {"BackendCreate", "DeviceFlowFailure"} ELSE {}

(* A restore that a dialogue waits for is of what was chosen in it.        *)
AnswerOK(t) ==
    /\ wire[t] \in Seq(Meant(t))
    /\ tab[t].dialog = "restore" /\ restore[t].stage # "none" => tab[t].chosen = restore[t].key
    /\ t \notin deaf =>
          /\ tab[t].dialog = "login" => login[t] # "none" \/ wire[t] # <<>>
          /\ tab[t].dialog = "restore" => restore[t].stage # "none" \/ wire[t] # <<>> \/ tab[t].errors

AnswersInv == OnboardingTypeOK /\ \A t \in Tabs : AnswerOK(t)

(* At first no dialogue waits.                                             *)
LEMMA InitAnswers == OnboardingInit => AnswersInv
<1> SUFFICES ASSUME OnboardingInit, NEW t \in Tabs PROVE AnswerOK(t)
    BY InitType DEF AnswersInv
<1>1. tab[t].dialog = "none" /\ wire[t] = <<>>
    BY DEF OnboardingInit, Closed
<1> QED
    BY <1>1, EmptySeq DEF AnswerOK, Meant

(* A tab that waits for nothing. *)
LEMMA NothingAwaited ==
    ASSUME NEW u, wire'[u] = <<>>, tab'[u].dialog \notin {"login", "restore"}
    PROVE  AnswerOK(u)'
BY EmptySeq DEF AnswerOK, Meant

(* A dialogue that stays as it is, while events come or what it waits for  *)
(* goes on.                                                                *)
LEMMA AnswerKeeps ==
    ASSUME NEW u, AnswerOK(u), tab'[u].dialog = tab[u].dialog, tab'[u].chosen = tab[u].chosen,
           wire'[u] \in Seq(Meant(u)),
           restore'[u].stage # "none" => restore[u].stage # "none" /\ restore'[u].key = restore[u].key,
           u \notin deaf' =>
              /\ u \notin deaf
              /\ wire[u] # <<>> => wire'[u] # <<>> \/ (tab[u].dialog = "restore" /\ tab'[u].errors)
              /\ tab[u].dialog = "login" /\ login[u] # "none" => login'[u] # "none" \/ wire'[u] # <<>>
              /\ tab[u].dialog = "restore" =>
                    /\ restore[u].stage # "none" =>
                          restore'[u].stage # "none" \/ wire'[u] # <<>> \/ tab'[u].errors
                    /\ tab[u].errors => tab'[u].errors
    PROVE  AnswerOK(u)'
<1>1. Meant(u)' = Meant(u)
    BY DEF Meant
<1>2. wire'[u] \in Seq(Meant(u)')
    BY <1>1
<1>3. tab'[u].dialog = "restore" /\ restore'[u].stage # "none" => tab'[u].chosen = restore'[u].key
    BY DEF AnswerOK
<1>4. u \notin deaf' =>
          /\ tab'[u].dialog = "login" => login'[u] # "none" \/ wire'[u] # <<>>
          /\ tab'[u].dialog = "restore" => restore'[u].stage # "none" \/ wire'[u] # <<>> \/ tab'[u].errors
    BY DEF AnswerOK
<1> QED
    BY <1>2, <1>3, <1>4 DEF AnswerOK

(* Nothing of it changes. *)
Still(u) ==
    /\ tab'[u].dialog = tab[u].dialog /\ tab'[u].chosen = tab[u].chosen /\ tab'[u].errors = tab[u].errors
    /\ wire'[u] = wire[u] /\ login'[u] = login[u] /\ restore'[u] = restore[u] /\ (u \notin deaf' => u \notin deaf)

(* A tab that takes no part in a step waits as before.                     *)
LEMMA StillKeeps ==
    ASSUME NEW u, AnswerOK(u), Still(u)
    PROVE  AnswerOK(u)'
BY AnswerKeeps DEF Still, AnswerOK

(* What is published reaches those who wait for it, or they are deaf.      *)
LEMMA Published ==
    ASSUME OnboardingTypeOK, NEW u \in Tabs, AnswerOK(u),
           NEW e \in {"BackendCreate", "DeviceFlowFailure"}, Publish(e, {"login"})
    PROVE  /\ wire'[u] \in Seq(Meant(u)) /\ (wire[u] # <<>> => wire'[u] # <<>>)
           /\ u \notin deaf' => u \notin deaf /\ (tab[u].dialog = "login" => wire'[u] # <<>>)
<1>1. wire[u] \in Seq(Meant(u)) /\ tab[u] \in TabSet
    BY TypeParts, TabParts DEF AnswerOK
<1>2. CASE tab[u].dialog = "login"
    <2>1. e \in Meant(u)
        BY <1>2 DEF Meant
    <2>2. Append(wire[u], e) \in Seq(Meant(u)) /\ Append(wire[u], e) # <<>>
        BY <1>1, <2>1, AppendProperties
    <2>3. IF tab[u].socket THEN wire'[u] = Append(wire[u], e) ELSE u \in deaf' /\ wire'[u] = wire[u]
        BY <1>2 DEF Publish, Waiting
    <2>4. u \notin deaf' => u \notin deaf
        BY DEF Publish
    <2> QED
        BY <1>1, <2>2, <2>3, <2>4
<1>3. CASE tab[u].dialog # "login"
    <2>1. wire'[u] = wire[u] /\ (u \notin deaf' => u \notin deaf)
        BY <1>3 DEF Publish, Waiting
    <2> QED
        BY <1>1, <1>3, <2>1
<1> QED
    BY <1>2, <1>3

(* The end of a task reaches every connected dialogue that waits for it.   *)
LEMMA TaskEnded ==
    ASSUME OnboardingTypeOK, NEW u \in Tabs, AnswerOK(u), NEW k \in Keys, TaskEnd(k)
    PROVE  /\ wire'[u] \in Seq(Meant(u)) /\ (wire[u] # <<>> => wire'[u] # <<>>)
           /\ u \notin deaf' => /\ u \notin deaf
                                /\ tab[u].dialog = "restore" /\ tab[u].chosen = k => wire'[u] # <<>>
<1>1. wire[u] \in Seq(Meant(u))
    BY DEF AnswerOK
<1>2. CASE tab[u].dialog = "restore" /\ tab[u].chosen = k
    <2>1. k \in Meant(u)
        BY <1>2 DEF Meant
    <2>2. Append(wire[u], k) \in Seq(Meant(u)) /\ Append(wire[u], k) # <<>>
        BY <1>1, <2>1, AppendProperties
    <2>3. IF tab[u].socket THEN wire'[u] = Append(wire[u], k) ELSE u \in deaf' /\ wire'[u] = wire[u]
        BY <1>2 DEF TaskEnd, Waiting
    <2>4. u \notin deaf' => u \notin deaf
        BY DEF TaskEnd
    <2> QED
        BY <1>1, <2>2, <2>3, <2>4
<1>3. CASE ~(tab[u].dialog = "restore" /\ tab[u].chosen = k)
    <2>1. wire'[u] = wire[u] /\ (u \notin deaf' => u \notin deaf)
        BY <1>3 DEF TaskEnd, Waiting
    <2> QED
        BY <1>1, <1>3, <2>1
<1> QED
    BY <1>2, <1>3

(* A tab whose dialogue waits for nothing has nothing on its wire.         *)
LEMMA NothingSent ==
    ASSUME NEW t, AnswerOK(t), tab[t].dialog \notin {"login", "restore"}
    PROVE  wire[t] = <<>>
<1>1. wire[t] \in Seq({})
    BY DEF AnswerOK, Meant
<1> QED
    BY <1>1, HeadTailProperties

(* One tab shows something else, and waits for what it waited for.         *)
LEMMA ShowsOther ==
    ASSUME AnswersInv, NEW t \in Tabs, NEW x, tab' = [tab EXCEPT ![t] = x],
           x.dialog = tab[t].dialog, x.chosen = tab[t].chosen, x.errors = tab[t].errors,
           UNCHANGED <<login, restore, wire, deaf>>
    PROVE  \A u \in Tabs : AnswerOK(u)'
<1>1. TabType
    BY TypeParts DEF AnswersInv
<1>2. ASSUME NEW u \in Tabs PROVE Still(u)
    <2>1. tab'[u] = IF u = t THEN x ELSE tab[u]
        BY <1>1 DEF TabType
    <2> QED
        BY <2>1 DEF Still
<1> QED
    BY <1>2, StillKeeps DEF AnswersInv

(* A tab that goes to another dialogue waits for nothing.                  *)
LEMMA GoesTo ==
    ASSUME AnswersInv, NEW t \in Tabs, NEW s, Goto(t, s), UNCHANGED <<login, restore, wire, deaf>>
    PROVE  \A u \in Tabs : AnswerOK(u)'
<1>1. tab[t] \in TabSet
    BY TypeParts, TabParts DEF AnswersInv
<1>2. PICK x : x = [tab[t] EXCEPT !.stage = s]
    OBVIOUS
<1>3. x.dialog = tab[t].dialog /\ x.chosen = tab[t].chosen /\ x.errors = tab[t].errors
    BY <1>1, <1>2 DEF TabSet
<1> QED
    BY <1>2, <1>3, ShowsOther DEF Goto

(* One tab waits for something else, or for nothing.                       *)
LEMMA OneAwaits ==
    ASSUME AnswersInv, NEW t \in Tabs, NEW x, tab' = [tab EXCEPT ![t] = x],
           \A u \in Tabs \ {t} : /\ wire'[u] = wire[u] /\ login'[u] = login[u] /\ restore'[u] = restore[u]
                                 /\ u \notin deaf' => u \notin deaf,
           AnswerOK(t)'
    PROVE  \A u \in Tabs : AnswerOK(u)'
<1>1. TabType
    BY TypeParts DEF AnswersInv
<1>2. ASSUME NEW u \in Tabs \ {t} PROVE Still(u)
    BY <1>1, <1>2 DEF TabType, Still
<1> QED
    BY <1>2, StillKeeps DEF AnswersInv

(* Moving between the dialogues leaves no one waiting.                     *)
LEMMA FlowAnswers ==
    ASSUME AnswersInv, NEW t \in Tabs,
           \/ Open(t) \/ Close(t) \/ Load(t) \/ ReadKey(t) \/ ReadKeyFails(t) \/ KeyArrives(t)
           \/ Welcome(t) \/ SeeKey(t) \/ OpenLocal(t) \/ Customize(t)
    PROVE  \A u \in Tabs : AnswerOK(u)'
<1>1. TabType /\ tab[t] \in TabSet /\ AnswerOK(t)
    BY TypeParts, TabParts DEF AnswersInv
<1>2. CASE Open(t)
    <2>1. PICK flow : tab' = [tab EXCEPT ![t] = [Closed EXCEPT !.flow = flow, !.stage = "loading",
                                                               !.socket = tab[t].socket]]
        BY <1>2 DEF Open
    <2>2. tab[t].dialog = "none" /\ UNCHANGED <<wire, login, restore, deaf>>
        BY <1>2 DEF Open, Show
    <2>3. wire'[t] = <<>> /\ tab'[t].dialog = "none"
        BY <1>1, <2>1, <2>2, NothingSent DEF TabType, Closed
    <2>4. AnswerOK(t)'
        BY <2>3, NothingAwaited
    <2> QED
        BY <2>1, <2>2, <2>4, OneAwaits
<1>3. CASE Close(t)
    <2>1. tab' = [tab EXCEPT ![t] = Closed] /\ wire' = [wire EXCEPT ![t] = <<>>] /\ deaf' = deaf \ {t}
        BY <1>3 DEF Close
    <2>2. wire'[t] = <<>> /\ tab'[t].dialog = "none"
        BY <1>1, <2>1 DEF TabType, Closed
    <2>3. AnswerOK(t)'
        BY <2>2, NothingAwaited
    <2>4. \A u \in Tabs \ {t} : /\ wire'[u] = wire[u] /\ login'[u] = login[u] /\ restore'[u] = restore[u]
                                /\ u \notin deaf' => u \notin deaf
        BY <1>1, <1>3, <2>1 DEF TabType, Close
    <2> QED
        BY <2>1, <2>3, <2>4, OneAwaits
<1>4. CASE Load(t)
    <2>1. PICK s : /\ s = Landing(tab[t].flow)
                   /\ tab' = [tab EXCEPT ![t] = [tab[t] EXCEPT !.stage = s, !.status = Status,
                                                   !.answer = IF s = "welcome" THEN "asked" ELSE "none"]]
        BY <1>4, Zenon DEF Load
    <2>2. PICK x : x = [tab[t] EXCEPT !.stage = s, !.status = Status,
                                      !.answer = IF s = "welcome" THEN "asked" ELSE "none"]
        OBVIOUS
    <2>3. x.dialog = tab[t].dialog /\ x.chosen = tab[t].chosen /\ x.errors = tab[t].errors
        BY <1>1, <2>2 DEF TabSet
    <2> QED
        BY <1>4, <2>1, <2>2, <2>3, ShowsOther DEF Load
<1>5. CASE ReadKey(t) \/ ReadKeyFails(t) \/ KeyArrives(t)
    <2>1. PICK x \in {[tab[t] EXCEPT !.answer = key], [tab[t] EXCEPT !.answer = "none"],
                      [tab[t] EXCEPT !.code = tab[t].answer, !.answer = "none"]} :
             tab' = [tab EXCEPT ![t] = x]
        BY <1>5 DEF ReadKey, ReadKeyFails, KeyArrives
    <2>2. x.dialog = tab[t].dialog /\ x.chosen = tab[t].chosen /\ x.errors = tab[t].errors
        BY <1>1, <2>1 DEF TabSet
    <2> QED
        BY <1>5, <2>1, <2>2, ShowsOther DEF ReadKey, ReadKeyFails, KeyArrives
<1>6. ASSUME NEW from, NEW s, Click(t, from, s) PROVE \A u \in Tabs : AnswerOK(u)'
    BY <1>6, GoesTo DEF Click
<1>7. CASE Welcome(t) \/ SeeKey(t) \/ Customize(t)
    BY <1>6, <1>7 DEF Welcome, SeeKey, Customize
<1>8. CASE OpenLocal(t)
    <2>1. /\ tab[t].dialog = "none" /\ tab' = [tab EXCEPT ![t] = [tab[t] EXCEPT !.dialog = "local"]]
          /\ UNCHANGED <<wire, login, restore, deaf>>
        BY <1>8 DEF OpenLocal, Show, Dialog
    <2>2. wire'[t] = <<>> /\ tab'[t].dialog = "local"
        BY <1>1, <2>1, NothingSent DEF TabType, TabSet
    <2>3. AnswerOK(t)'
        BY <2>2, NothingAwaited
    <2> QED
        BY <2>1, <2>3, OneAwaits
<1> QED
    BY <1>2, <1>3, <1>4, <1>5, <1>7, <1>8

(* Neither do the dialogues of the key and of the first backup.            *)
LEMMA KeyAnswers ==
    ASSUME AnswersInv, NEW t \in Tabs,
           \/ EnableTelemetry(t) \/ ConfirmKey(t) \/ ImportKey(t) \/ ReimportKey(t)
           \/ CreateBackup(t) \/ Skip(t) \/ CreateSchedule(t)
    PROVE  \A u \in Tabs : AnswerOK(u)'
<1>1. UNCHANGED <<login, restore, wire, deaf>>
    BY DEF EnableTelemetry, ConfirmKey, ImportKey, ReimportKey, CreateBackup, Skip, CreateSchedule
<1>2. CASE \E s : Goto(t, s)
    BY <1>1, <1>2, GoesTo
<1>3. CASE UNCHANGED tab
    BY <1>1, <1>3, StillKeeps DEF Still, AnswersInv
<1>4. ASSUME NEW k, tab' = [tab EXCEPT ![t] = [tab[t] EXCEPT !.code = k, !.stage = "key-save"]]
      PROVE  \A u \in Tabs : AnswerOK(u)'
    <2>1. tab[t] \in TabSet
        BY TypeParts, TabParts DEF AnswersInv
    <2>2. PICK x : x = [tab[t] EXCEPT !.code = k, !.stage = "key-save"]
        OBVIOUS
    <2>3. x.dialog = tab[t].dialog /\ x.chosen = tab[t].chosen /\ x.errors = tab[t].errors
        BY <2>1, <2>2 DEF TabSet
    <2> QED
        BY <1>1, <1>4, <2>2, <2>3, ShowsOther
<1>5. CASE ImportKey(t)
    BY <1>2, <1>3, <1>4, <1>5 DEF ImportKey
<1>6. CASE ~ImportKey(t)
    BY <1>2, <1>6 DEF EnableTelemetry, ConfirmKey, ReimportKey, CreateBackup, Skip, CreateSchedule, Done
<1> QED
    BY <1>5, <1>6

(* A login begins, goes on and ends; a folder is added.                    *)
LEMMA LoginAnswers ==
    ASSUME AnswersInv, NEW t \in Tabs,
           \/ StartLogin(t) \/ Approved(t) \/ LoggedIn(t) \/ LoginFails(t) \/ LoginBreaks(t)
           \/ CreateLocal(t) \/ CancelDialog(t)
    PROVE  \A u \in Tabs : AnswerOK(u)'
<1>1. OnboardingTypeOK /\ TabType /\ tab[t] \in TabSet /\ \A u \in Tabs : AnswerOK(u)
    BY TypeParts, TabParts DEF AnswersInv
<1>2. CASE StartLogin(t)
    <2>1. /\ tab[t].dialog = "none" /\ tab' = [tab EXCEPT ![t] = [tab[t] EXCEPT !.dialog = "login"]]
          /\ login' = [login EXCEPT ![t] = "waiting"] /\ UNCHANGED <<wire, restore, deaf>>
        BY <1>2 DEF StartLogin, Show, Dialog
    <2>2. wire'[t] = <<>> /\ tab'[t].dialog = "login" /\ login'[t] = "waiting"
        BY <1>1, <2>1, NothingSent DEF TabType, TabSet
    <2>3. AnswerOK(t)'
        BY <2>2, EmptySeq DEF AnswerOK
    <2>4. \A u \in Tabs \ {t} : login'[u] = login[u]
        BY <1>1, <2>1 DEF TabType
    <2> QED
        BY <2>1, <2>3, <2>4, OneAwaits
<1>3. CASE Approved(t)
    <2>1. login[t] # "none" /\ login' = [login EXCEPT ![t] = "saved"] /\ UNCHANGED <<tab, wire, restore, deaf>>
        BY <1>3 DEF Approved
    <2>2. ASSUME NEW u \in Tabs PROVE AnswerOK(u)'
        <3>1. login[u] # "none" => login'[u] # "none"
            BY <1>1, <2>1 DEF TabType
        <3> QED
            BY <1>1, <2>1, <3>1, AnswerKeeps DEF AnswerOK
    <2> QED
        BY <2>2
<1>4. CASE LoggedIn(t) \/ LoginFails(t)
    <2>1. PICK e \in {"BackendCreate", "DeviceFlowFailure"} :
             Publish(e, {"login"}) /\ UNCHANGED <<tab, restore>>
        BY <1>4 DEF LoggedIn, LoginFails
    <2>2. ASSUME NEW u \in Tabs PROVE AnswerOK(u)'
        BY <1>1, <2>1, Published, AnswerKeeps
    <2> QED
        BY <2>2
<1>5. CASE LoginBreaks(t)
    <2>1. /\ login' = [login EXCEPT ![t] = "none"] /\ deaf' = deaf \cup ({t} \cap Waiting({"login"}))
          /\ UNCHANGED <<tab, wire, restore>>
        BY <1>5 DEF LoginBreaks
    <2>2. ASSUME NEW u \in Tabs PROVE AnswerOK(u)'
        <3>1. tab[u].dialog = "login" /\ u \notin deaf' => login'[u] = login[u]
            BY <1>1, <2>1 DEF TabType, Waiting
        <3> QED
            BY <1>1, <2>1, <3>1, AnswerKeeps DEF AnswerOK
    <2> QED
        BY <2>2
<1>6. CASE CreateLocal(t)
    <2>1. /\ tab[t].dialog = "local" /\ Publish("BackendCreate", {"login"}) /\ UNCHANGED <<login, restore>>
          /\ tab' = [tab EXCEPT ![t] = [@ EXCEPT !.dialog = "none", !.stage = AfterService(t)]]
        BY <1>6 DEF CreateLocal
    <2>2. ASSUME NEW u \in Tabs, u # t PROVE AnswerOK(u)'
        <3>1. tab'[u] = tab[u]
            BY <1>1, <2>1, <2>2 DEF TabType
        <3> QED
            BY <1>1, <2>1, <3>1, Published, AnswerKeeps
    <2>3. AnswerOK(t)'
        <3>1. wire[t] = <<>>
            BY <1>1, <2>1, NothingSent
        <3>2. wire'[t] = wire[t]
            BY <2>1 DEF Publish, Waiting
        <3>3. tab'[t].dialog = "none"
            BY <1>1, <2>1 DEF TabType, TabSet
        <3> QED
            BY <3>1, <3>2, <3>3, NothingAwaited
    <2> QED
        BY <2>2, <2>3
<1>7. CASE CancelDialog(t)
    <2>1. PICK s : tab' = [tab EXCEPT ![t] = [tab[t] EXCEPT !.dialog = "none", !.stage = s]]
        BY <1>7 DEF CancelDialog
    <2>2. wire' = [wire EXCEPT ![t] = <<>>] /\ deaf' = deaf \ {t} /\ UNCHANGED <<login, restore>>
        BY <1>7 DEF CancelDialog
    <2>3. wire'[t] = <<>> /\ tab'[t].dialog = "none"
        BY <1>1, <2>1, <2>2 DEF TabType, TabSet
    <2>4. AnswerOK(t)'
        BY <2>3, NothingAwaited
    <2>5. \A u \in Tabs \ {t} : wire'[u] = wire[u] /\ (u \notin deaf' => u \notin deaf)
        BY <1>1, <2>2 DEF TabType
    <2> QED
        BY <2>1, <2>2, <2>4, <2>5, OneAwaits
<1> QED
    BY <1>2, <1>3, <1>4, <1>5, <1>6, <1>7

(* A restore begins, goes on and ends.                                     *)
LEMMA RestoreAnswers ==
    ASSUME AnswersInv, NEW t \in Tabs,
           \/ StartRestore(t) \/ BeginRestore(t) \/ BeginRestoreFails(t) \/ ReplaceState(t)
           \/ EndRestore(t) \/ FailRestore(t) \/ ReportItem(t) \/ WriteError(t)
    PROVE  \A u \in Tabs : AnswerOK(u)'
<1>1. /\ OnboardingTypeOK /\ TabType /\ \A u \in Tabs : AnswerOK(u)
      /\ tab[t] \in TabSet /\ restore[t] \in RestoreSet /\ (restore[t].stage # "none" => restore[t].key \in Keys)
    BY TypeParts, TabParts DEF AnswersInv
<1>2. CASE StartRestore(t)
    <2>1. /\ tab[t].dialog = "none" /\ restore' = [restore EXCEPT ![t] = [stage |-> "opening", key |-> key]]
          /\ tab' = [tab EXCEPT ![t] = [tab[t] EXCEPT !.dialog = "restore", !.chosen = key, !.errors = FALSE]]
          /\ UNCHANGED <<wire, login, deaf>>
        BY <1>2 DEF StartRestore, Show
    <2>2. /\ wire'[t] = <<>> /\ tab'[t].dialog = "restore" /\ tab'[t].chosen = key
          /\ restore'[t].stage = "opening" /\ restore'[t].key = key
        BY <1>1, <2>1, NothingSent DEF TabType, TabSet
    <2>3. AnswerOK(t)'
        BY <2>2, EmptySeq DEF AnswerOK
    <2>4. \A u \in Tabs \ {t} : restore'[u] = restore[u]
        BY <1>1, <2>1 DEF TabType
    <2> QED
        BY <2>1, <2>3, <2>4, OneAwaits
<1>3. ASSUME NEW s \in {"running", "replaced", "failing"}, Restores(t, s), restore[t].stage # "none"
      PROVE  /\ restore'[t].stage # "none" /\ restore'[t].key = restore[t].key
             /\ \A u \in Tabs \ {t} : restore'[u] = restore[u]
    <2>1. restore[t] \in [stage : {"opening", "running", "replaced", "failing"}, key : Keys]
        BY <1>1, <1>3 DEF RestoreSet, NoRestore
    <2> QED
        BY <1>1, <1>3, <2>1 DEF Restores, TabType
<1>4. CASE BeginRestore(t) \/ BeginRestoreFails(t) \/ ReplaceState(t)
    <2>1. UNCHANGED <<tab, wire, login, deaf>> /\ restore[t].stage # "none"
        BY <1>4 DEF BeginRestore, BeginRestoreFails, ReplaceState
    <2>2. /\ restore'[t].stage # "none" /\ restore'[t].key = restore[t].key
          /\ \A u \in Tabs \ {t} : restore'[u] = restore[u]
        BY <1>3, <1>4, <2>1 DEF BeginRestore, BeginRestoreFails, ReplaceState
    <2>3. ASSUME NEW u \in Tabs PROVE AnswerOK(u)'
        <3>1. /\ restore'[u].stage # "none" => restore[u].stage # "none" /\ restore'[u].key = restore[u].key
              /\ restore[u].stage # "none" => restore'[u].stage # "none"
            BY <2>1, <2>2
        <3> QED
            BY <1>1, <2>1, <3>1, AnswerKeeps DEF AnswerOK
    <2> QED
        BY <2>3
<1>5. CASE EndRestore(t) \/ FailRestore(t)
    <2>1. /\ UNCHANGED <<tab, login>> /\ restore[t].stage # "none" /\ TaskEnd(restore[t].key)
          /\ restore[t].key \in Keys
        BY <1>1, <1>5 DEF EndRestore, FailRestore
    <2>2. /\ restore'[t].stage # "none" => restore'[t].key = restore[t].key
          /\ \A u \in Tabs \ {t} : restore'[u] = restore[u]
        <3>1. CASE EndRestore(t)
            BY <1>1, <3>1 DEF EndRestore, NoRestore, TabType
        <3>2. CASE FailRestore(t)
            BY <1>3, <2>1, <3>2 DEF FailRestore
        <3> QED
            BY <1>5, <3>1, <3>2
    <2>3. ASSUME NEW u \in Tabs PROVE AnswerOK(u)'
        <3>1. /\ wire'[u] \in Seq(Meant(u)) /\ (wire[u] # <<>> => wire'[u] # <<>>)
              /\ u \notin deaf' => /\ u \notin deaf
                                   /\ tab[u].dialog = "restore" /\ tab[u].chosen = restore[t].key => wire'[u] # <<>>
            BY <1>1, <2>1, TaskEnded
        <3>2. restore'[u].stage # "none" => restore[u].stage # "none" /\ restore'[u].key = restore[u].key
            BY <2>1, <2>2
        <3>3. u \notin deaf' /\ tab[u].dialog = "restore" /\ restore[u].stage # "none" =>
                 restore'[u].stage # "none" \/ wire'[u] # <<>>
            BY <1>1, <2>2, <3>1 DEF AnswerOK
        <3> QED
            BY <1>1, <2>1, <3>1, <3>2, <3>3, AnswerKeeps
    <2> QED
        BY <2>3
<1>6. CASE ReportItem(t) \/ WriteError(t)
    <2>1. PICK b \in BOOLEAN : b = (tab[t].dialog = "restore")
        OBVIOUS
    <2>2. tab' = [tab EXCEPT ![t] = [tab[t] EXCEPT !.errors = b]] /\ UNCHANGED <<wire, login, deaf>>
        BY <1>6, <2>1 DEF ReportItem, WriteError, ShowsErrors
    <2>3. /\ tab'[t].dialog = tab[t].dialog /\ tab'[t].chosen = tab[t].chosen /\ tab'[t].errors = b
          /\ \A u \in Tabs \ {t} : tab'[u] = tab[u]
        BY <1>1, <2>2 DEF TabType, TabSet
    <2>4. /\ restore'[t] = restore[t] \/ restore'[t].stage = "none"
          /\ \A u \in Tabs \ {t} : restore'[u] = restore[u]
        BY <1>1, <1>6 DEF ReportItem, WriteError, NoRestore, TabType
    <2>5. AnswerOK(t)'
        BY <1>1, <2>1, <2>2, <2>3, <2>4, AnswerKeeps DEF AnswerOK
    <2>6. ASSUME NEW u \in Tabs \ {t} PROVE Still(u)
        BY <2>2, <2>3, <2>4 DEF Still
    <2> QED
        BY <1>1, <2>5, <2>6, StillKeeps
<1> QED
    BY <1>2, <1>4, <1>5, <1>6

(* The socket breaks: what was under way is lost, and the tab is deaf.     *)
LEMMA SocketAnswers ==
    ASSUME AnswersInv, NEW t \in Tabs, Connect(t) \/ Disconnect(t)
    PROVE  \A u \in Tabs : AnswerOK(u)'
<1>1. TabType /\ tab[t] \in TabSet /\ \A u \in Tabs : AnswerOK(u)
    BY TypeParts, TabParts DEF AnswersInv
<1>2. PICK b \in BOOLEAN : tab' = [tab EXCEPT ![t] = [tab[t] EXCEPT !.socket = b]]
    BY DEF Connect, Disconnect
<1>3. /\ tab'[t].dialog = tab[t].dialog /\ tab'[t].chosen = tab[t].chosen /\ tab'[t].errors = tab[t].errors
      /\ \A u \in Tabs \ {t} : tab'[u] = tab[u]
    BY <1>1, <1>2 DEF TabType, TabSet
<1>4. UNCHANGED <<login, restore>>
    BY DEF Connect, Disconnect
<1>5. CASE Connect(t)
    BY <1>1, <1>3, <1>4, <1>5, StillKeeps DEF Connect, Still
<1>6. CASE Disconnect(t)
    <2>1. /\ wire'[t] = <<>> /\ (t \notin deaf' => t \notin deaf /\ wire[t] = <<>>)
          /\ \A u \in Tabs \ {t} : wire'[u] = wire[u] /\ (u \notin deaf' => u \notin deaf)
        BY <1>1, <1>6 DEF Disconnect, TabType
    <2>2. wire'[t] \in Seq(Meant(t))
        BY <2>1, EmptySeq
    <2>3. AnswerOK(t)'
        BY <1>1, <1>3, <1>4, <2>1, <2>2, AnswerKeeps
    <2>4. ASSUME NEW u \in Tabs \ {t} PROVE Still(u)
        BY <1>3, <1>4, <2>1 DEF Still
    <2> QED
        BY <1>1, <2>3, <2>4, StillKeeps
<1> QED
    BY <1>5, <1>6

(* An event ends what the dialogue waits for, or shows that there are      *)
(* errors.                                                                 *)
LEMMA DeliverAnswers ==
    ASSUME AnswersInv, NEW t \in Tabs, Deliver(t)
    PROVE  \A u \in Tabs : AnswerOK(u)'
<1>1. TabType /\ tab[t] \in TabSet /\ \A u \in Tabs : AnswerOK(u)
    BY TypeParts, TabParts DEF AnswersInv
<1>2. PICK e \in Meant(t) : e = Head(wire[t])
    BY <1>1, HeadTailProperties DEF Deliver, AnswerOK
<1>3. /\ tab' = [tab EXCEPT ![t] =
            CASE e = "DeviceFlowFailure" -> [tab[t] EXCEPT !.dialog = "none"]
              [] e = "BackendCreate" -> [tab[t] EXCEPT !.dialog = "none", !.stage = AfterService(t)]
              [] OTHER -> IF tab[t].errors THEN tab[t]
                          ELSE [tab[t] EXCEPT !.dialog = "none", !.stage = "finished"]]
      /\ wire' = [wire EXCEPT ![t] = IF tab'[t].dialog = "none" THEN <<>> ELSE Tail(@)]
      /\ deaf' = IF tab'[t].dialog = "none" THEN deaf \ {t} ELSE deaf
      /\ UNCHANGED <<login, restore>> /\ wire[t] # <<>>
    BY <1>2 DEF Deliver
<1>4. PICK x : /\ tab' = [tab EXCEPT ![t] = x]
               /\ x = CASE e = "DeviceFlowFailure" -> [tab[t] EXCEPT !.dialog = "none"]
                        [] e = "BackendCreate" -> [tab[t] EXCEPT !.dialog = "none", !.stage = AfterService(t)]
                        [] OTHER -> IF tab[t].errors THEN tab[t]
                                    ELSE [tab[t] EXCEPT !.dialog = "none", !.stage = "finished"]
    BY <1>3
<1>5. tab'[t] = x
    BY <1>1, <1>4 DEF TabType
<1>6. x.dialog = "none" \/ (x = tab[t] /\ tab[t].errors /\ tab[t].dialog = "restore")
    <2>1. CASE e = "DeviceFlowFailure"
        BY <1>1, <1>4, <2>1 DEF TabSet
    <2>2. CASE e = "BackendCreate"
        BY <1>1, <1>4, <2>2 DEF TabSet
    <2>3. CASE e \notin {"DeviceFlowFailure", "BackendCreate"}
        <3>1. tab[t].dialog = "restore"
            BY <1>2, <2>3 DEF Meant
        <3>2. x = IF tab[t].errors THEN tab[t] ELSE [tab[t] EXCEPT !.dialog = "none", !.stage = "finished"]
            BY <1>4, <2>3
        <3> QED
            BY <1>1, <3>1, <3>2 DEF TabSet
    <2> QED
        BY <2>1, <2>2, <2>3
<1>7. AnswerOK(t)'
    <2>1. CASE x.dialog = "none"
        <3>1. wire'[t] = <<>>
            BY <1>1, <1>3, <1>5, <2>1 DEF TabType
        <3> QED
            BY <1>5, <2>1, <3>1, NothingAwaited
    <2>2. CASE x.dialog # "none"
        <3>1. tab'[t] = tab[t] /\ tab[t].errors /\ tab[t].dialog = "restore"
            BY <1>5, <1>6, <2>2
        <3>2. wire'[t] = Tail(wire[t]) /\ deaf' = deaf
            BY <1>1, <1>3, <1>5, <2>2 DEF TabType
        <3>3. wire'[t] \in Seq(Meant(t))
            BY <1>1, <1>3, <3>2, HeadTailProperties DEF AnswerOK
        <3> QED
            BY <1>1, <1>3, <3>1, <3>2, <3>3, AnswerKeeps
    <2> QED
        BY <2>1, <2>2
<1>8. \A u \in Tabs \ {t} : wire'[u] = wire[u] /\ (u \notin deaf' => u \notin deaf)
    BY <1>1, <1>3 DEF TabType
<1> QED
    BY <1>3, <1>4, <1>7, <1>8, OneAwaits

(* A crash ends the work, and with the connections the waiting that it     *)
(* could answer.                                                           *)
LEMMA LifeAnswers ==
    ASSUME AnswersInv, Bootstrap \/ Crash
    PROVE  \A u \in Tabs : AnswerOK(u)'
<1>1. TabType /\ \A u \in Tabs : AnswerOK(u)
    BY TypeParts DEF AnswersInv
<1>2. CASE Bootstrap
    BY <1>1, <1>2, StillKeeps DEF Bootstrap, Still
<1>3. CASE Crash
    <2>1. ASSUME NEW u \in Tabs PROVE AnswerOK(u)'
        <3>1. /\ tab'[u] = [tab[u] EXCEPT !.socket = FALSE, !.answer = IF @ = "asked" THEN "none" ELSE @]
              /\ wire'[u] = <<>> /\ restore'[u].stage = "none" /\ tab[u] \in TabSet
              /\ deaf' = Waiting({"login", "restore"})
            BY <1>1, <1>3, TabParts DEF Crash, NoRestore
        <3>2. tab'[u].dialog = tab[u].dialog
            BY <3>1 DEF TabSet
        <3>3. u \notin deaf' => tab'[u].dialog \notin {"login", "restore"}
            BY <3>1, <3>2 DEF Waiting
        <3> QED
            BY <3>1, <3>3, EmptySeq DEF AnswerOK
    <2> QED
        BY <2>1
<1> QED
    BY <1>2, <1>3

(* What other browsers do may only add events.                             *)
LEMMA ElsewhereAnswers ==
    ASSUME AnswersInv, Elsewhere
    PROVE  \A u \in Tabs : AnswerOK(u)'
<1>1. OnboardingTypeOK /\ \A u \in Tabs : AnswerOK(u)
    BY DEF AnswersInv
<1>2. CASE ImportElsewhere
    BY <1>1, <1>2, StillKeeps DEF ImportElsewhere, Still
<1>3. CASE LocalElsewhere
    BY <1>1, <1>3, Published, AnswerKeeps DEF LocalElsewhere
<1>4. CASE TaskEndElsewhere
    <2>1. PICK k \in Keys : TaskEnd(k) /\ UNCHANGED <<login, restore, tab>>
        BY <1>1, <1>4, TypeParts DEF TaskEndElsewhere, ServerType
    <2> QED
        BY <1>1, <2>1, TaskEnded, AnswerKeeps
<1> QED
    BY <1>2, <1>3, <1>4 DEF Elsewhere

(* Every step preserves the invariant of the dialogues.                    *)
LEMMA AnswersNext == AnswersInv /\ [OnboardingNext]_onboarding => AnswersInv'
<1> SUFFICES ASSUME AnswersInv, [OnboardingNext]_onboarding PROVE \A u \in Tabs : AnswerOK(u)'
    BY TypeNext DEF AnswersInv
<1>1. ASSUME NEW t \in Tabs, Step(t) PROVE \A u \in Tabs : AnswerOK(u)'
    BY <1>1, FlowAnswers, KeyAnswers, LoginAnswers, RestoreAnswers, SocketAnswers, DeliverAnswers DEF Step
<1>2. CASE UNCHANGED onboarding
    BY <1>2, StillKeeps DEF onboarding, Still, AnswersInv
<1> QED
    BY <1>1, <1>2, LifeAnswers, ElsewhereAnswers DEF OnboardingNext

(* With any number of tabs, a dialogue that shows nothing but that it      *)
(* waits does not wait in vain: what it waits for is under way, or its     *)
(* event is, or the failure shows; unless the tab missed the event.        *)
THEOREM DialogsHaveAnswers == OnboardingSpec => []DialogsAreAnswered
<1>1. AnswersInv => DialogsAreAnswered
    BY DEF AnswersInv, AnswerOK, DialogsAreAnswered
<1> QED
    BY <1>1, InitAnswers, AnswersNext, PTL DEF OnboardingSpec
=============================================================================
