----------------------------- MODULE Preferences ----------------------------
(***************************************************************************)
(* The settings of the chart, the panels and the overlays: three sections  *)
(* of one server document, each with a queue that debounces and serializes *)
(* its patches (settingsMutationQueue), the copies in the browser's        *)
(* storage, the bootstrap that replaces them and the sign-out that flushes *)
(* them.  The chart sends the key that changed, the others all their keys. *)
(***************************************************************************)
EXTENDS Partial

CONSTANTS Choice, InitialChoice, MaxPreferenceSteps

Section == {"chart", "ui", "smc"}
PatchKeys(section) == CASE section = "chart" -> {"symbol", "zone"}
                     [] section = "ui" -> {"theme", "panels"}
                     [] section = "smc" -> {"overlays"}

VARIABLES
  prefs,       \* section -> key -> value, in memory and in storage
  marked,      \* CURRENT_SYMBOL_PENDING_KEY
  writer,      \* section -> pending, timer, writes (batches), generation
  document,    \* the server's
  fetched,     \* the document a bootstrap has read and not applied yet
  leaving,     \* sign-out: "no", "flushing", "final"
  crossed,     \* sections whose last batch failed, or that the bootstrap or a layout overtook
  preferenceSteps

preferenceVars == <<prefs, marked, writer, document, fetched, leaving, crossed, preferenceSteps>>
PreferenceStep == preferenceSteps < MaxPreferenceSteps /\ preferenceSteps' = preferenceSteps + 1
AllAt(value) == [section \in Section |-> [key \in PatchKeys(section) |-> value]]
Quiet == [pending |-> None, timer |-> FALSE, writes |-> <<>>, generation |-> 0]

PreferencesInit ==
  /\ prefs = AllAt(InitialChoice) /\ document = AllAt(InitialChoice) /\ marked = FALSE
  /\ writer = [section \in Section |-> Quiet] /\ fetched = Nothing
  /\ leaving = "no" /\ crossed = {} /\ preferenceSteps = 0

Over(low, high) == [key \in DOMAIN low \union DOMAIN high |-> IF key \in DOMAIN high THEN high[key] ELSE low[key]]

(***************************************************************************)
(* The queue                                                               *)
(***************************************************************************)
LastPatchOnly(q, patch) == [q EXCEPT !.pending = patch, !.timer = TRUE]
Enqueued(q, patch) == [q EXCEPT !.pending = Over(q.pending, patch), !.timer = TRUE]
CancelPending(q) == [q EXCEPT !.pending = None, !.timer = FALSE, !.generation = @ + 1]
Dispatched(q) ==
  IF q.pending = None THEN [q EXCEPT !.timer = FALSE]
  ELSE [q EXCEPT !.pending = None, !.timer = FALSE,
          !.writes = Append(@, [patch |-> q.pending, of |-> q.generation, sent |-> FALSE])]
TimerFires(section) ==
  /\ writer[section].timer /\ writer' = [writer EXCEPT ![section] = Dispatched(@)]
  /\ UNCHANGED <<prefs, marked, document, fetched, leaving, crossed, preferenceSteps>>
(* The write queue reaches a batch: it is dropped when the queue was       *)
(* cancelled since.                                                        *)
SendBatch(section) ==
  LET q == writer[section]
  IN  /\ q.writes # <<>> /\ ~ q.writes[1].sent
      /\ writer' = [writer EXCEPT ![section].writes =
                      IF q.writes[1].of = q.generation THEN [@ EXCEPT ![1].sent = TRUE] ELSE Tail(@)]
      /\ UNCHANGED <<prefs, marked, document, fetched, leaving, crossed, preferenceSteps>>
Answered(section) == writer[section].writes # <<>> /\ writer[section].writes[1].sent
                       /\ writer' = [writer EXCEPT ![section].writes = Tail(@)]
BatchLands(section) ==
  /\ Answered(section)
  /\ document' = [document EXCEPT ![section] = Over(@, writer[section].writes[1].patch)]
  /\ UNCHANGED <<prefs, marked, fetched, leaving, crossed, preferenceSteps>>
BatchFails(section) ==
  /\ PreferenceStep /\ Answered(section) /\ crossed' = crossed \union {section}
  /\ UNCHANGED <<prefs, marked, document, fetched, leaving>>

(***************************************************************************)
(* Choices                                                                 *)
(***************************************************************************)
Choose(section, key, value) ==
  /\ prefs' = [prefs EXCEPT ![section][key] = value]
  /\ writer' = [writer EXCEPT ![section] =
       Enqueued(@, IF section = "chart" THEN Put(None, key, value) ELSE prefs'[section])]
SetSymbol(value) ==
  /\ PreferenceStep /\ value # prefs.chart.symbol /\ marked' = TRUE
  /\ Choose("chart", "symbol", value) /\ UNCHANGED <<document, fetched, leaving, crossed>>
SetChartTimeZone(value) ==
  /\ PreferenceStep /\ Choose("chart", "zone", value)
  /\ UNCHANGED <<marked, document, fetched, leaving, crossed>>
SetTheme(value) ==
  /\ PreferenceStep /\ Choose("ui", "theme", value)
  /\ UNCHANGED <<marked, document, fetched, leaving, crossed>>
SetPanel(value) ==
  /\ PreferenceStep /\ Choose("ui", "panels", value)
  /\ UNCHANGED <<marked, document, fetched, leaving, crossed>>
ToggleSmc(value) ==
  /\ PreferenceStep /\ value # prefs.smc.overlays /\ Choose("smc", "overlays", value)
  /\ UNCHANGED <<marked, document, fetched, leaving, crossed>>
(* applySavedPanelLayoutAtom keeps the panels of a layout in this browser only. *)
ApplySavedPanels(value) ==
  /\ PreferenceStep /\ prefs' = [prefs EXCEPT !.ui.panels = value] /\ crossed' = crossed \union {"ui"}
  /\ UNCHANGED <<marked, writer, document, fetched, leaving>>

(***************************************************************************)
(* Bootstrap, reload and sign-out                                          *)
(***************************************************************************)
FetchSettings ==
  /\ PreferenceStep /\ fetched = Nothing /\ fetched' = document
  /\ UNCHANGED <<prefs, marked, writer, document, leaving, crossed>>
(* A symbol that is marked wins over the server's and is queued again. *)
ResolveCurrentChartSymbol == IF marked THEN prefs.chart.symbol ELSE fetched.chart.symbol
ApplyRemoteSettings ==
  LET symbol == ResolveCurrentChartSymbol
      again == marked /\ symbol # fetched.chart.symbol
  IN  /\ fetched # Nothing /\ fetched' = Nothing
      /\ prefs' = [fetched EXCEPT !.chart.symbol = symbol]
      /\ marked' = again
      /\ writer' = [section \in Section |->
                      LET q == CancelPending(writer[section])
                      IN  IF section = "chart" /\ again THEN Enqueued(q, Put(None, "symbol", symbol)) ELSE q]
      /\ crossed' = {section \in Section : writer[section].writes # <<>> \/ fetched[section] # document[section]}
      /\ UNCHANGED <<document, leaving, preferenceSteps>>
(* What is in storage survives; timers and batches that were not sent do not. *)
ReloadPage ==
  /\ PreferenceStep /\ leaving = "no" /\ fetched = Nothing
  /\ writer' = [section \in Section |-> Quiet] /\ fetched' = document
  /\ \E lost \in SUBSET {section \in Section : writer[section].writes # <<>> /\ writer[section].writes[1].sent} :
       document' = [section \in Section |-> IF section \in lost THEN Over(document[section], writer[section].writes[1].patch)
                                            ELSE document[section]]
  /\ crossed' = Section /\ UNCHANGED <<prefs, marked, leaving>>
(* flushChartSettings: the queue is drained, then one last write of a      *)
(* marked symbol, then the stores are reset.                               *)
StartSignOut ==
  /\ PreferenceStep /\ leaving = "no" /\ fetched = Nothing /\ leaving' = "flushing"
  /\ writer' = [writer EXCEPT !.chart = Dispatched(@)]
  /\ UNCHANGED <<prefs, marked, document, fetched, crossed>>
QueueFlushed ==
  /\ leaving = "flushing" /\ writer.chart.writes = <<>>
  /\ leaving' = IF marked THEN "final" ELSE "done"
  /\ UNCHANGED <<prefs, marked, writer, document, fetched, crossed, preferenceSteps>>
FinalWrite ==
  /\ leaving = "final" /\ leaving' = "done" /\ marked' = FALSE
  /\ document' = [document EXCEPT !.chart.symbol = prefs.chart.symbol]
  /\ UNCHANGED <<prefs, writer, fetched, crossed, preferenceSteps>>
(* It may be refused: the sign-out is off, and the symbol stays marked. *)
FinalWriteFails ==
  /\ leaving = "final" /\ leaving' = "no"
  /\ UNCHANGED <<prefs, marked, writer, document, fetched, crossed, preferenceSteps>>
ResetToDefaults ==
  /\ leaving = "done" /\ leaving' = "no" /\ marked' = FALSE /\ fetched' = document
  /\ prefs' = AllAt(InitialChoice) /\ writer' = [section \in Section |-> CancelPending(writer[section])]
  /\ crossed' = Section /\ UNCHANGED <<document, preferenceSteps>>

PreferencesNext ==
  \/ \E section \in Section : TimerFires(section) \/ SendBatch(section) \/ BatchLands(section) \/ BatchFails(section)
  \/ \E value \in Choice : \/ SetSymbol(value) \/ SetChartTimeZone(value) \/ SetTheme(value)
                           \/ SetPanel(value) \/ ToggleSmc(value) \/ ApplySavedPanels(value)
  \/ FetchSettings \/ ApplyRemoteSettings \/ ReloadPage
  \/ StartSignOut \/ QueueFlushed \/ FinalWrite \/ FinalWriteFails \/ ResetToDefaults

PreferencesSpec == PreferencesInit /\ [][PreferencesNext]_preferenceVars

(* Once the queue of a section is quiet, the server has the last choice of *)
(* every key of it, however the changes, timers, batches and answers came  *)
(* to lie; sections whose batch failed, and those where a batch crossed a  *)
(* bootstrap, are left out (createSettingsMutationQueue: "preserve the     *)
(* latest user choice").                                                   *)
SettingsLand ==
  \A section \in Section \ crossed :
    (writer[section].pending = None /\ writer[section].writes = <<>> /\ fetched = Nothing)
      => document[section] = prefs[section]
==============================================================================
