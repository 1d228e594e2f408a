------------------------------ MODULE MCBrowser ------------------------------
(***************************************************************************)
(* Instances for TLC of what a browser shows, LiveViews and ImmichSettings *)
(* side by side.  The two share no state: a behaviour is one of either.    *)
(***************************************************************************)
EXTENDS LiveViews, ImmichSettings, TLC

CONSTANTS c1, c2, c3, t1, s1, s2, backups, library1

MCChanges == {c1, c2, c3}
MCTabs == {t1}
MCSaves == {s1, s2}
MCFolders == {backups}
MCLibraries == {library1}

BrowserInit == ViewsInit /\ SettingsInit

(* The settings move in the behaviours about one kind of list, so that they *)
(* are not explored once for every kind.                                    *)
BrowserNext ==
    \/ SettingsInit /\ ViewsNext /\ UNCHANGED settingsVars
    \/ ViewsInit /\ kind = "integrations" /\ SettingsNext /\ UNCHANGED views

BrowserSpec == BrowserInit /\ [][BrowserNext]_<<views, settingsVars>>

(* Changes are interchangeable, and so are saves. *)
BrowserSymmetry == Permutations(MCChanges) \cup Permutations(MCSaves)
=============================================================================
