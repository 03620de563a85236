------------------------------ MODULE MCWorkspace ------------------------------
(***************************************************************************)
(* What a user keeps in the workspace, on small instances: the session,    *)
(* journal, watchlists, chart tabs and layouts, preferences, indicators,   *)
(* drawings under the pointer and in their dialog, Pine scripts.  A        *)
(* behaviour is about one of them, named by focus; the others stay as they *)
(* start.                                                                  *)
(***************************************************************************)
EXTENDS AuthSession, Journal, Watchlists, ChartTabs, Preferences,
        Indicators, DrawingEditing, SettingsDialog, PineScripts

CONSTANT Focus   \* the components a run is about
VARIABLE focus

\* Panes of two charts, one of them shown with two symbols.
Panes == {<<"k", 1>>, <<"k", 2>>, <<"l", 1>>}

(* Where a component has several initial states, they belong to the        *)
(* behaviours about it.  Drawings are edited with one pointer, or with     *)
(* fewer edits by two whose tool stays chosen.                             *)
MCInit ==
  /\ focus \in Focus
  /\ AuthInit /\ JournalInit /\ PreferencesInit /\ SettingsInit
  /\ WatchInit /\ (focus # "watchlists" => watchDb[ServerId(0)].symbols = <<>>)
  /\ TabsInit /\ (focus # "tabs" => shown[1] = CHOOSE w \in Arrangement : TRUE)
  /\ LayoutsInit
  /\ focus # "layouts" => screen.shown = ServerRows[1].state /\ screen.shown = CHOOSE s \in Snapshot : TRUE
  /\ IndicatorsInit /\ (focus # "indicators" => context = CHOOSE p \in Pane : TRUE)
  /\ PineInit /\ (focus # "pine" => backend)
  /\ EditingInit /\ chart = CHOOSE c \in Chart : TRUE
  /\ IF Cardinality(fingers) = 1 THEN left = MaxEdits ELSE left = 1 /\ keep
  /\ (CHOOSE p \in Contact : TRUE) \in fingers   \* contacts differ in name only
  /\ focus # "editing" => keep /\ Cardinality(fingers) = 1

About(part) == focus = part /\ UNCHANGED focus

MCNext ==
  \/ /\ About("session") /\ AuthNext
     /\ UNCHANGED <<journalVars, watchVars, tabVars, layoutVars, preferenceVars, indicatorVars,
                    editingVars, settingVars, pineVars>>
  \/ /\ About("journal") /\ JournalNext
     /\ UNCHANGED <<authVars, watchVars, tabVars, layoutVars, preferenceVars, indicatorVars,
                    editingVars, settingVars, pineVars>>
  \/ /\ About("watchlists") /\ WatchNext
     /\ UNCHANGED <<authVars, journalVars, tabVars, layoutVars, preferenceVars, indicatorVars,
                    editingVars, settingVars, pineVars>>
  \/ /\ About("tabs") /\ TabsNext
     /\ UNCHANGED <<authVars, journalVars, watchVars, layoutVars, preferenceVars, indicatorVars,
                    editingVars, settingVars, pineVars>>
  \/ /\ About("layouts") /\ LayoutsNext
     /\ UNCHANGED <<authVars, journalVars, watchVars, tabVars, preferenceVars, indicatorVars,
                    editingVars, settingVars, pineVars>>
  \/ /\ About("preferences") /\ PreferencesNext
     /\ UNCHANGED <<authVars, journalVars, watchVars, tabVars, layoutVars, indicatorVars,
                    editingVars, settingVars, pineVars>>
  \/ /\ About("indicators") /\ IndicatorsNext
     /\ UNCHANGED <<authVars, journalVars, watchVars, tabVars, layoutVars, preferenceVars,
                    editingVars, settingVars, pineVars>>
  \/ /\ About("editing") /\ EditingNext
     /\ UNCHANGED <<authVars, journalVars, watchVars, tabVars, layoutVars, preferenceVars,
                    indicatorVars, settingVars, pineVars>>
  \/ /\ About("settings") /\ SettingsNext
     /\ UNCHANGED <<authVars, journalVars, watchVars, tabVars, layoutVars, preferenceVars,
                    indicatorVars, editingVars, pineVars>>
  \/ /\ About("pine") /\ PineNext
     /\ UNCHANGED <<authVars, journalVars, watchVars, tabVars, layoutVars, preferenceVars,
                    indicatorVars, editingVars, settingVars>>

mcVars == <<authVars, journalVars, watchVars, tabVars, layoutVars, preferenceVars, indicatorVars,
            editingVars, settingVars, pineVars, focus>>
MCSpec == MCInit /\ [][MCNext]_mcVars

(* An edit of a drawing can be taken back whole: what a gesture, an arrow   *)
(* key or a delete did by undoing through the history (DrawingInteraction-  *)
(* Manager, drawingHistory.ts), what the settings dialog did by its Cancel, *)
(* also after toolbar edits, templates and undos in between                 *)
(* (ObjectSettingsDialog.tsx).                                              *)
EditsCanBeTakenBack == HistoryUnwinds /\ SettingsCanBeTakenBack

(* What the user chose ends up at the server: once nothing is pending or on *)
(* its way, the preferences (createSettingsMutationQueue) and the           *)
(* indicators of every pane (scheduleIndicatorSync) are there as they are   *)
(* on screen, however changes, timers, batches and answers came to lie.     *)
(* Left out are what a failed batch held, a section whose batch crossed a   *)
(* bootstrap and indicators whose pass failed, overlapped another or lost   *)
(* its ground to a restored layout.                                         *)
ChoicesLand == SettingsLand /\ IndicatorsLand

(* A layout the browser calls saved is the server's: the document of the    *)
(* chart tabs when their status is saved (chartTaskTabsSyncQueue.ts), the   *)
(* rows of the saved layouts as of the last commit that was heard of, unless *)
(* an answer was lost or overtaken (layoutStore.ts).                        *)
SavedIsAtTheServer == SavedIsStored /\ LayoutsFollowServer
================================================================================
