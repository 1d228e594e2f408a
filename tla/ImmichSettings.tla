---------------------------- MODULE ImmichSettings ----------------------------
(***************************************************************************)
(* The settings of the Immich backup, between the form that shows them in  *)
(* several browser tabs and the rows they come from.  A form is filled     *)
(* once, from three lists that the tab has fetched, or not yet; it sends   *)
(* all of its fields, whatever the user has touched; and the orchestrator  *)
(* writes them to three tables, up to the first statement that fails.      *)
(*                                                                         *)
(* Simplifications.                                                        *)
(*  - Immich is there, and what it offers does not change.                 *)
(*  - The tick "Backup configuration" stands among the folders.  Names are *)
(*    left out: the form starts with "Immich" and renames at every save.   *)
(*  - A list that the tab fetches or is sent shows the rows of that moment *)
(*    (what can come between is in LiveViews).                             *)
(*  - Only the managed repository and schedule are here: what a failed or  *)
(*    a second first save leaves behind is in OrchestratorConfig.          *)
(*  - cronstrue, which throws when it is to describe an unreadable         *)
(*    expression, is left out.                                             *)
(***************************************************************************)
EXTENDS FiniteSets, Naturals

CONSTANTS
    Tabs,      \* the browser tabs that have the page open
    Saves,     \* the saves that will be made, each used once
    Policies,  \* the retention policies in use
    Crons,     \* the cron expressions in use
    Folders,   \* the folders that Immich may have
    Offered,   \* those that it offers
    Items,     \* the ticks of the form, each a set of folders
    Backups,   \* the folder of the database's backups
    Libraries, \* the external libraries
    Every,     \* the choice of all libraries
    Unset,     \* nothing is there
    Unknown,   \* nothing is known
    MaxEdits   \* the number of settings that are touched in one form

AllPolicies == {"15d", "60d", "never", "unlisted"}

ASSUME SettingsAssumption ==
    /\ {"60d", "never"} \subseteq Policies
    /\ Policies \subseteq AllPolicies
    /\ {"three"} \subseteq Crons
    /\ Crons \subseteq {"three", "daily", "weekly", "sixfold", "unreadable"}
    /\ "sixfold" \in Crons => "daily" \in Crons
    /\ Backups \in Offered /\ Offered \subseteq Folders
    /\ \A item \in Items : item \subseteq Folders /\ Backups \notin item
    /\ \A l \in SUBSET Libraries : l # Every
    /\ \A s \in {Every} \cup (SUBSET Libraries) \cup (SUBSET Folders) : s # Unset /\ s # Unknown
    /\ Unset # Unknown /\ {Unset, Unknown} \cap (AllPolicies \cup Crons \cup Saves) = {}
    /\ MaxEdits \in Nat

VARIABLES
    managed, \* what is stored of the managed repository, schedule and integration
    known,   \* the three lists, as far as each tab has them
    form,    \* the form in each tab
    sent,    \* what each save was sent with
    stage    \* where each save is

settingsVars == <<managed, known, form, sent, stage>>

Fields == {"policy", "cron", "folders", "libraries"}
LibraryChoices == {Every} \cup SUBSET Libraries
Settings == [policy : Policies, cron : Crons, folders : SUBSET Folders,
             libraries : LibraryChoices]

(* What a form was filled with: some of it may not have been there. *)
Bases == [policy : {Unknown} \cup Policies, cron : {Unknown} \cup Crons,
          folders : {Unset, Unknown} \cup SUBSET Folders,
          libraries : {Unset, Unknown} \cup LibraryChoices]

Forms == [policy : Policies, worm : BOOLEAN, mode : {"daily", "custom"},
          time : Crons, text : Crons, folders : SUBSET Folders,
          which : {"all", "none", "some"}, picked : SUBSET Libraries,
          filled : BOOLEAN, pending : {Unset} \cup Saves,
          basis : Bases, touched : SUBSET Fields]

Requests == [policy : {Unset} \cup Policies, cron : Crons, folders : SUBSET Folders,
             libraries : LibraryChoices, basis : Bases, touched : SUBSET Fields]

ASSUME UnsetAssumption == Unset \notin Settings /\ Unset \notin Requests

SettingsTypeOK ==
    /\ managed \in {Unset} \cup Settings
    /\ known \in [Tabs -> Bases]
    /\ form \in [Tabs -> {Unset} \cup Forms]
    /\ sent \in [Saves -> {Unset} \cup Requests]
    /\ stage \in [Saves -> {"idle", "sent", "first", "change", "saved", "failed"}]

Nowhere(value) ==
    [policy |-> value, cron |-> value, folders |-> value, libraries |-> value]

(* The fields of a form before it is filled; the last two only record what *)
(* it was filled with, and what the user has chosen since.                 *)
Blank ==
    [policy |-> "60d", worm |-> FALSE, mode |-> "daily", time |-> "three",
     text |-> "three", folders |-> {}, which |-> "all", picked |-> {},
     filled |-> FALSE, pending |-> Unset,
     basis |-> Nowhere(Unknown), touched |-> {}]

SettingsInit ==
    /\ managed = Unset
    /\ known = [t \in Tabs |-> Nowhere(Unknown)]
    /\ form = [t \in Tabs |-> Unset]
    /\ sent = [c \in Saves |-> Unset]
    /\ stage = [c \in Saves |-> "idle"]

-----------------------------------------------------------------------------
(* Filling the form. *)

(* The policies of the form's list. *)
OnOffer == {"15d", "60d", "never"}

(* A repository that is not in the list has no policy, like one that keeps *)
(* everything; a policy that is not on offer is shown as the default.      *)
ShownPolicy(p) ==
    CASE p = Unknown -> "never"
      [] p \in OnOffer -> p
      [] OTHER -> "60d"

(* The pattern of a daily time is searched anywhere in the expression, so  *)
(* that six fields may pass for a daily time.                              *)
ReadAsDaily(cron) == cron \in {"three", "daily", "sixfold"}

TimeIn(cron) == IF cron = "sixfold" THEN "daily" ELSE cron

WithSchedule(f, cron) ==
    IF cron = Unknown THEN f
    ELSE IF ReadAsDaily(cron)
    THEN [f EXCEPT !.text = cron, !.mode = "daily", !.time = TimeIn(cron)]
    ELSE [f EXCEPT !.text = cron, !.mode = "custom"]

(* Variant: the libraries that were picked are not ticked again.           *)
WithChoice(f, libraries) ==
    [f EXCEPT !.which = CASE libraries = Every -> "all" [] libraries = {} -> "none"
                          [] OTHER -> "some"]

WithLibraries(f, libraries) ==
    CASE libraries = Every -> [f EXCEPT !.which = "all"]
      [] libraries = {} -> [f EXCEPT !.which = "none"]
      [] OTHER -> [f EXCEPT !.which = "some", !.picked = libraries]

(* The effect runs as soon as the integration is known, whether or not the *)
(* repositories and the schedules are, and never again.                    *)
Fill(f, k) ==
    IF f.filled \/ k.folders = Unknown THEN f
    ELSE IF k.folders = Unset
    THEN [f EXCEPT !.filled = TRUE, !.folders = @ \cup Offered,
                   !.basis = Nowhere(Unknown)]
    ELSE LET g == WithSchedule(WithLibraries(f, k.libraries), k.cron) IN
         [g EXCEPT !.filled = TRUE, !.basis = k, !.folders = @ \cup k.folders,
                   !.policy = ShownPolicy(k.policy),
                   !.touched = IF f.worm THEN @ ELSE @ \ {"policy"}]

-----------------------------------------------------------------------------
(* The tab: its lists, and its form. *)

SetForm(t, f) == form' = [form EXCEPT ![t] = f]

(* What the lists say.  A repository or a schedule that is not listed is   *)
(* as good as one whose list is not there.                                 *)
Listing ==
    IF managed # Unset THEN managed
    ELSE [policy |-> Unknown, cron |-> Unknown, folders |-> Unset, libraries |-> Unset]

(* The list of integrations, repositories or schedules arrives or changes, *)
(* by a fetch or by an event.                                              *)
Arrives(t, fields) ==
    LET k == [f \in Fields |-> IF f \in fields THEN Listing[f] ELSE known[t][f]] IN
    /\ known' = [known EXCEPT ![t] = k]
    /\ SetForm(t, IF form[t] = Unset THEN Unset ELSE Fill(form[t], k))
    /\ UNCHANGED <<managed, sent, stage>>

LearnIntegration(t) == Arrives(t, {"folders", "libraries"})
LearnRepository(t) == Arrives(t, {"policy"})
LearnSchedule(t) == Arrives(t, {"cron"})

OpenForm(t) ==
    /\ form[t] = Unset
    /\ SetForm(t, Fill(Blank, known[t]))
    /\ UNCHANGED <<managed, known, sent, stage>>

(* The user gives up, or the save has succeeded; a save goes on without    *)
(* its form.                                                               *)
CloseForm(t) ==
    /\ form[t] # Unset
    /\ SetForm(t, Unset)
    /\ UNCHANGED <<managed, known, sent, stage>>

(* The page is loaded anew.                                                *)
Reload(t) ==
    /\ known' = [known EXCEPT ![t] = Nowhere(Unknown)]
    /\ SetForm(t, Unset)
    /\ UNCHANGED <<managed, sent, stage>>

(* The user's choices.  All but the advanced ones appear with the list of  *)
(* integrations.                                                           *)
Edits(f, field) ==
    CASE field = "policy" ->
            {[f EXCEPT !.policy = p] : p \in IF f.worm THEN {} ELSE Policies \cap OnOffer}
            \cup {[f EXCEPT !.worm = ~@]}
      [] field = "cron" ->
            {[f EXCEPT !.mode = m] : m \in {"daily", "custom"}}
            \cup {[f EXCEPT !.time = c] :
                    c \in IF f.mode = "daily" THEN Crons \ {"weekly", "sixfold"} ELSE {}}
            \cup {[f EXCEPT !.text = c] : c \in IF f.mode = "custom" THEN Crons ELSE {}}
      [] field = "folders" ->
            {[f EXCEPT !.folders = IF item \cap Offered \subseteq @ THEN @ \ (item \cap Offered)
                                   ELSE @ \cup (item \cap Offered)] : item \in Items}
      [] field = "libraries" ->
            {[f EXCEPT !.which = w] : w \in {"all", "none", "some"}}
            \cup {[f EXCEPT !.picked = IF l \in @ THEN @ \ {l} ELSE @ \cup {l}] :
                    l \in IF f.which = "some" THEN Libraries ELSE {}}

Edit(t) ==
    /\ form[t] # Unset
    /\ \E field \in IF form[t].filled THEN Fields ELSE {"policy"} :
          LET touched == form[t].touched \cup {field} IN
          /\ Cardinality(touched) <= MaxEdits
          /\ \E f \in Edits(form[t], field) : SetForm(t, [f EXCEPT !.touched = touched])
    /\ UNCHANGED <<managed, known, sent, stage>>

-----------------------------------------------------------------------------
(* Saving. *)

(* The validator of the form knows five fields only.                       *)
Validated(cron) == cron \in {"three", "daily", "weekly"}

(* A custom expression disables the button if it is valid.                 *)
Enabled(f) == ~(f.mode = "custom" /\ Validated(f.text)) /\ f.pending = Unset

FoldersOf(f) == f.folders \cup {Backups}

Sent(f) ==
    [policy |-> IF f.worm THEN "never" ELSE f.policy,
     cron |-> IF f.mode = "daily" THEN f.time ELSE f.text,
     folders |-> FoldersOf(f),
     libraries |-> CASE f.which = "all" -> Every [] f.which = "none" -> {}
                     [] f.which = "some" -> f.picked,
     basis |-> f.basis, touched |-> f.touched]

Send(c, request) ==
    /\ stage[c] = "idle"
    /\ stage' = [stage EXCEPT ![c] = "sent"]
    /\ sent' = [sent EXCEPT ![c] = request]

Submit(t, c) ==
    /\ form[t] # Unset /\ Enabled(form[t])
    /\ Send(c, Sent(form[t]))
    /\ SetForm(t, [form[t] EXCEPT !.pending = c, !.folders = FoldersOf(form[t])])
    /\ UNCHANGED <<managed, known>>

(* The dialogue of the onboarding that asks for no settings; it leaves the *)
(* retention policy out.                                                   *)
SubmitDefaults(c) ==
    /\ Send(c, [policy |-> Unset, cron |-> "three", folders |-> Offered,
                libraries |-> Every, basis |-> Nowhere(Unknown), touched |-> {}])
    /\ UNCHANGED <<managed, known, form>>

(* The mutation of a form ends with its call: a form whose save succeeded  *)
(* closes.                                                                 *)
Ends(c, outcome) ==
    /\ stage' = [stage EXCEPT ![c] = outcome]
    /\ form' = [t \in Tabs |->
                  IF form[t] = Unset \/ form[t].pending # c THEN form[t]
                  ELSE IF outcome = "saved" THEN Unset
                  ELSE [form[t] EXCEPT !.pending = Unset]]
    /\ sent' = [sent EXCEPT ![c] = Unset]
    /\ UNCHANGED known

(* configureImmichIntegration looks for an integration, and then asks the  *)
(* backend.                                                                *)
Begin(c) ==
    /\ stage[c] = "sent"
    /\ stage' = [stage EXCEPT ![c] = IF managed = Unset THEN "first" ELSE "change"]
    /\ UNCHANGED <<managed, known, form, sent>>

BackendFails(c) ==
    /\ stage[c] \in {"first", "change"}
    /\ Ends(c, "failed")
    /\ UNCHANGED managed

(* The rows are written without a pause once the backend has answered.     *)
Stored(c) ==
    [policy |-> IF sent[c].policy # Unset THEN sent[c].policy
                ELSE IF managed = Unset THEN "60d" ELSE managed.policy,
     cron |-> sent[c].cron, folders |-> sent[c].folders, libraries |-> sent[c].libraries]

(* The first integration remains the one that counts; an expression that   *)
(* the cron library refuses ends the call before there is one.             *)
SaveFirst(c) ==
    /\ stage[c] = "first"
    /\ IF sent[c].cron = "unreadable"
       THEN Ends(c, "failed") /\ UNCHANGED managed
       ELSE Ends(c, "saved") /\ managed' = IF managed = Unset THEN Stored(c) ELSE managed

(* The retention policy, the schedule, the integration.  The job refuses   *)
(* an unreadable expression when the row has it already.                   *)
Stores(c, fields) ==
    managed' = [f \in Fields |-> IF f \in fields THEN Stored(c)[f] ELSE managed[f]]

SaveChange(c) ==
    /\ stage[c] = "change"
    /\ IF sent[c].cron = "unreadable"
       THEN Ends(c, "failed") /\ Stores(c, {"policy", "cron"})
       ELSE Ends(c, "saved") /\ Stores(c, Fields)

(* The process dies, at times between two statements.                      *)
Dies ==
    /\ \/ UNCHANGED managed
       \/ \E c \in Saves, fields \in {{"policy"}, {"policy", "cron"}, Fields} :
             /\ stage[c] = "change" /\ (sent[c].cron = "unreadable" => fields # Fields)
             /\ Stores(c, fields)
       \/ \E c \in Saves :
             /\ stage[c] = "first" /\ sent[c].cron # "unreadable" /\ managed = Unset
             /\ managed' = Stored(c)
    /\ stage' = [c \in Saves |->
                   IF stage[c] \in {"sent", "first", "change"} THEN "failed" ELSE stage[c]]
    /\ form' = [t \in Tabs |->
                  IF form[t] = Unset THEN Unset ELSE [form[t] EXCEPT !.pending = Unset]]
    /\ sent' = [c \in Saves |-> Unset]
    /\ UNCHANGED known

(* updateRepository is called for the managed repository by itself.        *)
SetPolicy ==
    /\ managed # Unset
    /\ \E p \in Policies : managed' = [managed EXCEPT !.policy = p]
    /\ UNCHANGED <<known, form, sent, stage>>

TabNext(t) ==
    \/ LearnIntegration(t) \/ LearnRepository(t) \/ LearnSchedule(t)
    \/ OpenForm(t) \/ CloseForm(t) \/ Reload(t) \/ Edit(t)
    \/ \E c \in Saves : Submit(t, c)

SaveNext(c) ==
    SubmitDefaults(c) \/ Begin(c) \/ BackendFails(c) \/ SaveFirst(c) \/ SaveChange(c)

SettingsNext ==
    \/ \E t \in Tabs : TabNext(t)
    \/ \E c \in Saves : SaveNext(c)
    \/ Dies \/ SetPolicy

SettingsSpec == SettingsInit /\ [][SettingsNext]_settingsVars

-----------------------------------------------------------------------------
(* Properties. *)

(* What the form cannot show as it is: a policy that is not on its list,   *)
(* and an expression of six fields in which it finds a time of the day.    *)
Misshown(field, value) ==
    \/ field = "policy" /\ value \notin OnOffer
    \/ field = "cron" /\ value = "sixfold"

(* A form that has been filled, and would be saved as it is, would store   *)
(* every setting that the user has not touched with the value that is      *)
(* there, if it was there and the tab had it when the form was filled,     *)
(* and unless the form cannot show it (ImmichConfigureBackup's effect and  *)
(* onSubmit, which sends every field).                                     *)
UntouchedFieldsAreTrue ==
    managed # Unset =>
        \A t \in Tabs : form[t] # Unset => \A f \in Fields :
            \/ f \in form[t].touched \/ Misshown(f, managed[f])
            \/ form[t].basis[f] # managed[f]
            \/ Sent(form[t])[f] = managed[f]

(* A stored setting changes only by a call about that setting alone, or by *)
(* a save in whose form the user touched it, or the form could not show    *)
(* it, or was filled before the tab had it or before it changed; or by the *)
(* defaults, which were not filled with anything.  Whatever else was saved *)
(* meanwhile, failed or died halfway, the other settings stay.             *)
UntouchedSettingsStay ==
    [][managed # Unset => \A f \in Fields : managed'[f] # managed[f] =>
          \/ f = "policy" /\ SetPolicy
          \/ \E c \in Saves :
                /\ stage[c] = "change" /\ stage'[c] # "change"
                /\ \/ f \in sent[c].touched \/ Misshown(f, managed[f])
                   \/ sent[c].basis[f] # managed[f]]_settingsVars

(* The backups of Immich's database, without which nothing can be restored,*)
(* are part of every stored integration, even if the form was saved before *)
(* it had loaded (onSubmit adds the folder).                               *)
DatabaseIsBackedUp == managed # Unset => Backups \in managed.folders
=============================================================================
