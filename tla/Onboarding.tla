------------------------------- MODULE Onboarding -------------------------------
(***************************************************************************)
(* How a user comes to backups and back from them: the three flows of      *)
(* dialogues in a browser (the gate, Immich's setup and Immich's restore), *)
(* the recovery key and the progress that the orchestrator keeps, the      *)
(* login to the cloud and the restore from a point, which go on in the     *)
(* orchestrator while a dialogue waits for an event.                       *)
(*                                                                         *)
(* A request and its answer are one step, except for those whose answer    *)
(* can be out of date when it comes.  Repositories and snapshots are told  *)
(* apart by the recovery key that opens them.                              *)
(***************************************************************************)
EXTENDS Naturals, Sequences

CONSTANTS
    Tabs,   \* browsers, or tabs of one
    Flows,  \* the flows that they open
    Fresh,  \* keys that the orchestrator may make
    OldKey, \* the key of an earlier installation, which the user has
    Typo,   \* a key that nobody has, typed by mistake
    NoKey   \* none, or not loaded yet

ASSUME OnboardingAssumption ==
    /\ Flows \subseteq {"gate", "setup", "restore"}
    /\ OldKey \notin Fresh \cup {Typo, NoKey} /\ Typo \notin Fresh \cup {NoKey} /\ NoKey \notin Fresh
    /\ {"none", "asked", "BackendCreate", "DeviceFlowFailure"} \cap (Fresh \cup {OldKey, Typo, NoKey}) = {}

Keys == Fresh \cup {OldKey, Typo}
Flags == {"key", "telemetry", "skipped"}

VARIABLES
    boot,     \* "not-ready", "ready" or "error"
    key,      \* the recovery key in the table config
    flags,    \* the progress in the table config
    backends, \* the table of backends
    local,    \* the keys of the repositories in the table
    remote,   \* the keys of the repositories on the backends
    schedule, \* is there a schedule
    login,    \* the device login that each tab has begun
    restore,  \* the restore that each tab has begun
    tab,      \* what each tab shows and has heard
    wire,     \* the events on the way to each tab
    known,    \* the keys that the user has
    unkept,   \* those confirmed without being shown, or imported with a slip
    deaf      \* the tabs that have missed the event they wait for

server == <<boot, key, flags, backends, local, remote, schedule>>
onboarding == <<server, login, restore, tab, wire, known, unkept, deaf>>

Stages == {"closed", "loading", "error", "welcome", "telemetry", "key-intro", "key-save", "key-confirm",
           "key-import", "key-reimport", "backup-service", "backup-confirm", "backup-create",
           "schedule-create", "restore-point", "finished"}
Facts == Flags \cup {"backend", "backup", "schedule"}

Closed == [flow |-> "gate", stage |-> "closed", status |-> {}, code |-> NoKey, answer |-> "none",
           dialog |-> "none", socket |-> FALSE, chosen |-> NoKey, errors |-> FALSE]
NoRestore == [stage |-> "none", key |-> NoKey]

OnboardingTypeOK ==
    /\ boot \in {"not-ready", "ready", "error"} /\ key \in Keys \cup {NoKey}
    /\ flags \subseteq Flags /\ backends \subseteq {"cloud", "local"}
    /\ local \subseteq Keys /\ remote \subseteq Keys /\ schedule \in BOOLEAN
    /\ login \in [Tabs -> {"none", "waiting", "saved", "failed"}]
    /\ restore \in [Tabs -> {NoRestore} \cup [stage : {"opening", "running", "replaced", "failing"}, key : Keys]]
    /\ tab \in [Tabs -> [flow : {"gate", "setup", "restore"}, stage : Stages, status : SUBSET Facts,
                         code : Keys \cup {NoKey}, answer : {"none", "asked"} \cup Keys,
                         dialog : {"none", "login", "local", "restore"}, socket : BOOLEAN,
                         chosen : Keys \cup {NoKey}, errors : BOOLEAN]]
    /\ wire \in [Tabs -> Seq({"BackendCreate", "DeviceFlowFailure"} \cup Keys)]
    /\ known \subseteq Keys /\ unkept \subseteq Keys /\ deaf \subseteq Tabs

OnboardingInit ==
    /\ boot = "not-ready" /\ key = NoKey /\ flags = {} /\ backends = {} /\ schedule = FALSE
    /\ local = {} /\ remote = {OldKey}
    /\ login = [t \in Tabs |-> "none"] /\ restore = [t \in Tabs |-> NoRestore]
    /\ tab = [t \in Tabs |-> Closed] /\ wire = [t \in Tabs |-> <<>>]
    /\ known = {OldKey} /\ unkept = {} /\ deaf = {}

-----------------------------------------------------------------------------
(* The orchestrator's life. *)

(* Variant: a key is made at every start. *)
BootKeyAlways == key' \in Fresh \ {key}

BootKey == key' \in IF key = NoKey THEN Fresh ELSE {key}

(* onApplicationBootstrap, which may fail before or after the key is made. *)
Bootstrap ==
    /\ boot = "not-ready"
    /\ \/ boot' = "ready" /\ BootKey
       \/ boot' = "error" /\ (BootKey \/ UNCHANGED key)
    /\ UNCHANGED <<flags, backends, local, remote, schedule, login, restore, tab, wire, known, unkept, deaf>>

Waiting(dialogs) == {t \in Tabs : tab[t].dialog \in dialogs}

Crash ==
    /\ boot # "not-ready" /\ boot' = "not-ready"
    /\ login' = [t \in Tabs |-> "none"] /\ restore' = [t \in Tabs |-> NoRestore]
    /\ tab' = [t \in Tabs |-> [tab[t] EXCEPT !.socket = FALSE, !.answer = IF @ = "asked" THEN "none" ELSE @]]
    /\ wire' = [t \in Tabs |-> <<>>]
    /\ deaf' = Waiting({"login", "restore"})
    /\ UNCHANGED <<key, flags, backends, local, remote, schedule, known, unkept>>

-----------------------------------------------------------------------------
(* Where a flow begins, and where it goes on. *)

First(flow, facts) ==
    IF flow # "restore" /\ "key" \notin facts THEN "welcome"
    ELSE IF "telemetry" \notin facts THEN "telemetry"
    ELSE IF "key" \notin facts THEN "key-import"
    ELSE IF flow = "setup" THEN IF "backup" \in facts THEN "finished" ELSE "backup-service"
    ELSE IF "backend" \notin facts THEN "backup-service"
    ELSE IF flow = "restore" THEN "restore-point"
    ELSE IF "backup" \notin facts THEN "backup-create" ELSE "schedule-create"

(* The gate lets those through who need not, or do not want to, go on.     *)
Passes(facts) == /\ {"telemetry", "backend", "key"} \subseteq facts
                 /\ "skipped" \in facts \/ {"backup", "schedule"} \subseteq facts

Goto(t, stage) == tab' = [tab EXCEPT ![t].stage = stage]

Show(t, stages) == tab[t].stage \in stages /\ tab[t].dialog = "none"

Click(t, stage, next) ==
    /\ Show(t, {stage}) /\ Goto(t, next)
    /\ UNCHANGED <<server, login, restore, wire, known, unkept, deaf>>

Open(t) == \E flow \in Flows :
    /\ Show(t, {"closed", "finished"})
    /\ tab' = [tab EXCEPT ![t] = [Closed EXCEPT !.flow = flow, !.stage = "loading", !.socket = tab[t].socket]]
    /\ UNCHANGED <<server, login, restore, wire, known, unkept, deaf>>

(* Cancel, or the page is left. *)
Close(t) ==
    /\ tab[t].stage # "closed"
    /\ tab' = [tab EXCEPT ![t] = Closed] /\ wire' = [wire EXCEPT ![t] = <<>>] /\ deaf' = deaf \ {t}
    /\ UNCHANGED <<server, login, restore, known, unkept>>

Status == flags \cup (IF backends # {} THEN {"backend"} ELSE {})
                \cup (IF local # {} THEN {"backup"} ELSE {})
                \cup (IF schedule THEN {"schedule"} ELSE {})

(* onboardingStatus: asked once, when the flow is mounted.                 *)
Landing(flow) ==
    IF boot = "error" THEN "error"
    ELSE IF flow = "gate" /\ Passes(Status) THEN "finished" ELSE First(flow, Status)

Load(t) ==
    LET stage == Landing(tab[t].flow) IN
    /\ tab[t].stage = "loading" /\ boot # "not-ready"
    /\ tab' = [tab EXCEPT ![t] = [@ EXCEPT !.stage = stage, !.status = Status,
                                           !.answer = IF stage = "welcome" THEN "asked" ELSE "none"]]
    /\ UNCHANGED <<server, login, restore, wire, known, unkept, deaf>>

(* currentRecoveryKey, and its answer, which may come at any time later.   *)
ReadKey(t) ==
    /\ tab[t].answer = "asked" /\ key # NoKey
    /\ tab' = [tab EXCEPT ![t].answer = key]
    /\ UNCHANGED <<server, login, restore, wire, known, unkept, deaf>>

ReadKeyFails(t) ==
    /\ tab[t].answer # "none" /\ tab' = [tab EXCEPT ![t].answer = "none"]
    /\ UNCHANGED <<server, login, restore, wire, known, unkept, deaf>>

KeyArrives(t) ==
    /\ tab[t].answer \in Keys
    /\ tab' = [tab EXCEPT ![t] = [@ EXCEPT !.code = tab[t].answer, !.answer = "none"]]
    /\ UNCHANGED <<server, login, restore, wire, known, unkept, deaf>>

-----------------------------------------------------------------------------
(* Welcome, telemetry and the key. *)

Welcome(t) ==
    \/ Click(t, "welcome", IF "telemetry" \in tab[t].status THEN "key-intro" ELSE "telemetry")
    \/ Click(t, "welcome", "key-import")

EnableTelemetry(t) ==
    LET next == First(tab[t].flow, tab[t].status \cup {"telemetry"}) IN
    /\ Show(t, {"telemetry"}) /\ boot # "not-ready"
    /\ flags' = flags \cup {"telemetry"}
    /\ Goto(t, IF next = "welcome" THEN "key-intro" ELSE next)
    /\ UNCHANGED <<boot, key, backends, local, remote, schedule, login, restore, wire, known, unkept, deaf>>

SeeKey(t) ==
    \/ Click(t, "key-intro", "key-save")
    \/ Click(t, "key-save", "key-confirm")
    \/ Click(t, "key-confirm", "key-save")
    \/ tab[t].flow # "restore" /\ Click(t, "key-import", "welcome")
    \/ Click(t, "key-reimport", "restore-point")
    \/ Click(t, "restore-point", "key-reimport")

AfterKey(t) ==
    IF tab[t].flow = "setup" \/ "backend" \notin tab[t].status THEN "backup-service"
    ELSE IF tab[t].flow = "gate" THEN "finished" ELSE "restore-point"

(* What was typed is the code, which is empty if it is not loaded.         *)
Matches(t, typed) == typed = tab[t].code

(* Only what one has can be typed: a key that is shown can be had.         *)
ConfirmKey(t) == \E typed \in known \cup {tab[t].code, NoKey} :
    /\ Show(t, {"key-confirm"}) /\ boot # "not-ready" /\ Matches(t, typed)
    /\ flags' = flags \cup {"key"}
    /\ known' = known \cup ({typed} \ {NoKey})
    /\ unkept' = IF tab[t].code = NoKey THEN unkept \cup ({key} \ {NoKey}) ELSE unkept
    /\ Goto(t, AfterKey(t))
    /\ UNCHANGED <<boot, key, backends, local, remote, schedule, login, restore, wire, deaf>>

(* A key is typed and replaces the one in the table.  The gate then shows  *)
(* and confirms it; the setup confirms the code it has loaded; the restore *)
(* takes it for confirmed, in a request of its own.                        *)
ImportKey(t) == \E typed \in known \cup {Typo} :
    /\ Show(t, {"key-import"}) /\ boot # "not-ready"
    /\ key' = typed
    /\ unkept' = unkept \cup ({typed} \ known)
    /\ \/ tab[t].flow = "gate" /\ flags' = flags
          /\ tab' = [tab EXCEPT ![t] = [@ EXCEPT !.code = typed, !.stage = "key-save"]]
       \/ tab[t].flow = "setup" /\ flags' = flags /\ Goto(t, "key-confirm")
       \/ tab[t].flow = "restore" /\ flags' = flags \cup {"key"} /\ Goto(t, AfterKey(t))
       \/ tab[t].flow = "restore" /\ flags' = flags /\ UNCHANGED tab
    /\ UNCHANGED <<boot, backends, local, remote, schedule, login, restore, wire, known, deaf>>

ReimportKey(t) == \E typed \in known \cup {Typo} :
    /\ Show(t, {"key-reimport"}) /\ boot # "not-ready"
    /\ key' = typed
    /\ unkept' = unkept \cup ({typed} \ known)
    /\ Goto(t, "restore-point")
    /\ UNCHANGED <<boot, flags, backends, local, remote, schedule, login, restore, wire, known, deaf>>

-----------------------------------------------------------------------------
(* Backends. *)

(* publish: to the tabs whose socket is connected.                         *)
Publish(e, dialogs) ==
    /\ wire' = [t \in Tabs |-> IF t \in Waiting(dialogs) /\ tab[t].socket THEN Append(wire[t], e) ELSE wire[t]]
    /\ deaf' = deaf \cup {t \in Waiting(dialogs) : ~tab[t].socket}

Dialog(t, d) == tab' = [tab EXCEPT ![t].dialog = d]

(* oidcDeviceFlow has the first message of the cloud's stream.             *)
StartLogin(t) ==
    /\ Show(t, {"backup-service"}) /\ boot # "not-ready" /\ login[t] = "none"
    /\ login' = [login EXCEPT ![t] = "waiting"] /\ Dialog(t, "login")
    /\ UNCHANGED <<server, restore, wire, known, unkept, deaf>>

(* SUCCESS: the backend is written, and then published.                    *)
Approved(t) ==
    /\ login[t] = "waiting" /\ login' = [login EXCEPT ![t] = "saved"]
    /\ backends' = backends \cup {"cloud"}
    /\ UNCHANGED <<boot, key, flags, local, remote, schedule, restore, tab, wire, known, unkept, deaf>>

LoggedIn(t) ==
    /\ login[t] = "saved" /\ login' = [login EXCEPT ![t] = "none"]
    /\ Publish("BackendCreate", {"login"})
    /\ UNCHANGED <<server, restore, tab, known, unkept>>

(* FAILURE, or an error on the way.                                        *)
LoginFails(t) ==
    /\ login[t] = "waiting" /\ login' = [login EXCEPT ![t] = "none"]
    /\ Publish("DeviceFlowFailure", {"login"})
    /\ UNCHANGED <<server, restore, tab, known, unkept>>

(* The stream breaks off: it is closed, and nobody is told.                *)
LoginBreaks(t) ==
    /\ login[t] = "waiting" /\ login' = [login EXCEPT ![t] = "none"]
    /\ deaf' = deaf \cup ({t} \cap Waiting({"login"}))
    /\ UNCHANGED <<server, restore, tab, wire, known, unkept>>

OpenLocal(t) ==
    /\ Show(t, {"backup-service"}) /\ Dialog(t, "local")
    /\ UNCHANGED <<server, login, restore, wire, known, unkept, deaf>>

AfterService(t) ==
    CASE tab[t].flow = "gate" -> "backup-create"
      [] tab[t].flow = "setup" -> "backup-confirm"
      [] OTHER -> "restore-point"

(* createLocalBackend, which publishes too. *)
CreateLocal(t) ==
    /\ tab[t].dialog = "local" /\ boot # "not-ready"
    /\ backends' = backends \cup {"local"}
    /\ tab' = [tab EXCEPT ![t] = [@ EXCEPT !.dialog = "none", !.stage = AfterService(t)]]
    /\ Publish("BackendCreate", {"login"})
    /\ UNCHANGED <<boot, key, flags, local, remote, schedule, login, restore, known, unkept>>

(* A dialogue that can be cancelled: one of a restore once it has failed.  *)
CancelDialog(t) ==
    /\ tab[t].dialog \in {"login", "local"} \/ (tab[t].dialog = "restore" /\ tab[t].errors)
    /\ tab' = [tab EXCEPT ![t] = [@ EXCEPT !.dialog = "none",
                                           !.stage = IF tab[t].dialog = "restore" THEN "finished" ELSE tab[t].stage]]
    /\ wire' = [wire EXCEPT ![t] = <<>>] /\ deaf' = deaf \ {t}
    /\ UNCHANGED <<server, login, restore, known, unkept>>

-----------------------------------------------------------------------------
(* The first backup. *)

Done(t) == Goto(t, "finished")

(* A repository is made under the key there is.  The gate's dialogue skips *)
(* what is left; Immich's two dialogues make a schedule too.               *)
CreateBackup(t) ==
    /\ Show(t, {"backup-confirm", "backup-create"}) /\ boot # "not-ready"
    /\ backends # {} /\ key # NoKey
    /\ local' = local \cup {key} /\ remote' = remote \cup {key}
    /\ schedule' = (schedule \/ tab[t].flow = "setup")
    /\ flags' = IF tab[t].flow = "gate" THEN flags \cup {"skipped"} ELSE flags
    /\ Done(t)
    /\ UNCHANGED <<boot, key, backends, login, restore, wire, known, unkept, deaf>>

Customize(t) == Click(t, "backup-confirm", "backup-create")

(* The flow ends whether or not the request does.                          *)
Skip(t) ==
    /\ Show(t, {"backup-create", "schedule-create"}) /\ tab[t].flow = "gate"
    /\ flags' \in IF boot = "not-ready" THEN {flags} ELSE {flags, flags \cup {"skipped"}}
    /\ Done(t)
    /\ UNCHANGED <<boot, key, backends, local, remote, schedule, login, restore, wire, known, unkept, deaf>>

CreateSchedule(t) ==
    /\ Show(t, {"schedule-create"}) /\ boot # "not-ready"
    /\ schedule' = TRUE /\ Done(t)
    /\ UNCHANGED <<boot, key, flags, backends, local, remote, login, restore, wire, known, unkept, deaf>>

-----------------------------------------------------------------------------
(* The restore from a point. *)

(* Only what the key opens can be chosen.  The answer is the log's id.     *)
StartRestore(t) ==
    /\ Show(t, {"restore-point"}) /\ boot # "not-ready" /\ restore[t].stage = "none"
    /\ key \in remote /\ backends # {}
    /\ restore' = [restore EXCEPT ![t] = [stage |-> "opening", key |-> key]]
    /\ tab' = [tab EXCEPT ![t] = [@ EXCEPT !.dialog = "restore", !.chosen = key, !.errors = FALSE]]
    /\ UNCHANGED <<server, login, wire, known, unkept, deaf>>

Restores(t, stage) == restore' = [restore EXCEPT ![t].stage = stage]

(* getResticParameters derives the key again, and startTask.               *)
BeginRestore(t) ==
    /\ restore[t].stage = "opening" /\ key = restore[t].key /\ Restores(t, "running")
    /\ UNCHANGED <<server, login, tab, wire, known, unkept, deaf>>

BeginRestoreFails(t) ==
    /\ restore[t].stage = "opening" /\ Restores(t, "failing")
    /\ UNCHANGED <<server, login, tab, wire, known, unkept, deaf>>

(* The configuration that was backed up, of an installation that was       *)
(* complete, takes the place of this one; the bootstrap runs again.        *)
ReplaceState(t) ==
    /\ restore[t].stage = "running" /\ Restores(t, "replaced")
    /\ key' = restore[t].key /\ local' = {restore[t].key}
    /\ flags' = {"key", "telemetry"} /\ backends' \in {{"cloud"}, {"local"}} /\ schedule' = TRUE
    /\ boot' \in {boot, "ready", "error"}
    /\ UNCHANGED <<remote, login, tab, wire, known, unkept, deaf>>

(* Variant: the end of the task is not published. *)
TaskEndUnpublished(k) == UNCHANGED <<wire, deaf>>

(* endTask: every tab that shows a restore of the repository takes it as   *)
(* the end of its own.                                                     *)
TaskEnd(k) ==
    LET same == {u \in Waiting({"restore"}) : tab[u].chosen = k} IN
    /\ wire' = [u \in Tabs |-> IF u \in same /\ tab[u].socket THEN Append(wire[u], k) ELSE wire[u]]
    /\ deaf' = deaf \cup {u \in same : ~tab[u].socket}

EndRestore(t) ==
    /\ restore[t].stage \in {"running", "replaced"} /\ TaskEnd(restore[t].key)
    /\ restore' = [restore EXCEPT ![t] = NoRestore]
    /\ UNCHANGED <<server, login, tab, known, unkept>>

(* Also if the key was replaced since the repository was chosen. *)
FailRestore(t) ==
    /\ restore[t].stage = "running" \/ (restore[t].stage = "opening" /\ key # restore[t].key)
    /\ TaskEnd(restore[t].key) /\ Restores(t, "failing")
    /\ UNCHANGED <<server, login, tab, known, unkept>>

ShowsErrors(t) == tab' = [tab EXCEPT ![t].errors = tab[t].dialog = "restore"]

(* restic reports a file that it could not restore.                        *)
ReportItem(t) ==
    /\ restore[t].stage = "running" /\ ShowsErrors(t)
    /\ UNCHANGED <<server, login, restore, wire, known, unkept, deaf>>

(* The error is written to the log, whose stream the dialogue reads.       *)
WriteError(t) ==
    /\ restore[t].stage = "failing" /\ ShowsErrors(t)
    /\ restore' = [restore EXCEPT ![t] = NoRestore]
    /\ UNCHANGED <<server, login, wire, known, unkept, deaf>>

-----------------------------------------------------------------------------
(* Events. *)

Connect(t) ==
    /\ tab[t].dialog \in {"login", "restore"} /\ ~tab[t].socket /\ boot # "not-ready"
    /\ tab' = [tab EXCEPT ![t].socket = TRUE]
    /\ UNCHANGED <<server, login, restore, wire, known, unkept, deaf>>

Disconnect(t) ==
    /\ tab[t].socket /\ tab' = [tab EXCEPT ![t].socket = FALSE]
    /\ wire' = [wire EXCEPT ![t] = <<>>]
    /\ deaf' = IF wire[t] = <<>> THEN deaf ELSE deaf \cup {t}
    /\ UNCHANGED <<server, login, restore, known, unkept>>

(* Any new backend closes the login, and is taken for what it was for; a   *)
(* restore is taken to be complete if no error is shown yet.               *)
Deliver(t) ==
    /\ wire[t] # <<>>
    /\ LET e == Head(wire[t]) IN
       tab' = [tab EXCEPT ![t] =
          CASE e = "DeviceFlowFailure" -> [@ EXCEPT !.dialog = "none"]
            [] e = "BackendCreate" -> [@ EXCEPT !.dialog = "none", !.stage = AfterService(t)]
            [] OTHER -> IF tab[t].errors THEN @ ELSE [@ EXCEPT !.dialog = "none", !.stage = "finished"]]
    /\ wire' = [wire EXCEPT ![t] = IF tab'[t].dialog = "none" THEN <<>> ELSE Tail(@)]
    /\ deaf' = IF tab'[t].dialog = "none" THEN deaf \ {t} ELSE deaf
    /\ UNCHANGED <<server, login, restore, known, unkept>>

-----------------------------------------------------------------------------
(* Somewhere else: another browser imports a key or adds a folder, or a    *)
(* restore that it began ends.  A bound: one event at a time.              *)

ImportElsewhere == \E typed \in known \cup {Typo} :
    /\ boot # "not-ready" /\ key' = typed
    /\ unkept' = unkept \cup ({typed} \ known)
    /\ UNCHANGED <<boot, flags, backends, local, remote, schedule, login, restore, tab, wire, known, deaf>>

LocalElsewhere ==
    /\ boot # "not-ready" /\ \A t \in Tabs : wire[t] = <<>>
    /\ backends' = backends \cup {"local"}
    /\ Publish("BackendCreate", {"login"})
    /\ UNCHANGED <<boot, key, flags, local, remote, schedule, login, restore, tab, known, unkept>>

TaskEndElsewhere == \E k \in remote :
    /\ boot # "not-ready" /\ \A t \in Tabs : wire[t] = <<>>
    /\ TaskEnd(k)
    /\ UNCHANGED <<server, login, restore, tab, known, unkept>>

Elsewhere == ImportElsewhere \/ LocalElsewhere \/ TaskEndElsewhere

-----------------------------------------------------------------------------

Step(t) ==
    \/ Open(t) \/ Close(t) \/ Load(t) \/ ReadKey(t) \/ ReadKeyFails(t) \/ KeyArrives(t)
    \/ Welcome(t) \/ EnableTelemetry(t) \/ SeeKey(t) \/ ConfirmKey(t) \/ ImportKey(t) \/ ReimportKey(t)
    \/ StartLogin(t) \/ Approved(t) \/ LoggedIn(t) \/ LoginFails(t) \/ LoginBreaks(t)
    \/ OpenLocal(t) \/ CreateLocal(t) \/ CancelDialog(t)
    \/ CreateBackup(t) \/ Customize(t) \/ Skip(t) \/ CreateSchedule(t)
    \/ StartRestore(t) \/ BeginRestore(t) \/ BeginRestoreFails(t) \/ ReplaceState(t)
    \/ EndRestore(t) \/ FailRestore(t) \/ ReportItem(t) \/ WriteError(t)
    \/ Connect(t) \/ Disconnect(t) \/ Deliver(t)

OnboardingNext == Bootstrap \/ Crash \/ Elsewhere \/ \E t \in Tabs : Step(t)

OnboardingSpec == OnboardingInit /\ [][OnboardingNext]_onboarding

-----------------------------------------------------------------------------
(* Properties. *)

(* "If you lose the key, your backup is gone": the user has the key of     *)
(* every backup that the flows have made or restored, and the key that     *)
(* counts as confirmed, over restarts, imports in other tabs, late answers *)
(* and restored configurations; unless it was confirmed before it was      *)
(* shown, or imported with a slip.                                         *)
BackupKeysAreKept ==
    local \cup (IF "key" \in flags THEN {key} ELSE {}) \subseteq known \cup unkept

(* A dialogue that shows nothing but that it waits does not wait in vain:  *)
(* a login or restore is under way, its event is, or the failure shows; or *)
(* the event was published while the socket was down, or never.            *)
DialogsAreAnswered == \A t \in Tabs \ deaf :
    /\ tab[t].dialog = "login" => login[t] # "none" \/ wire[t] # <<>>
    /\ tab[t].dialog = "restore" => restore[t].stage # "none" \/ wire[t] # <<>> \/ tab[t].errors

(* A dialogue whose title turns to "Restore failed" does not end as after  *)
(* a success when the restore has failed.  The code lets it: endTask tells *)
(* of the end of the task before the error is written to the log.          *)
FailedRestoresAreShown ==
    [][\A t \in Tabs :
          /\ tab[t].dialog = "restore" /\ restore[t].stage = "failing"
          /\ tab'[t].stage = "finished"
          => tab[t].errors]_onboarding
=============================================================================
