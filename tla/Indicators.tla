----------------------------- MODULE Indicators -----------------------------
(***************************************************************************)
(* The indicators of chartStore: the registry that holds those of every    *)
(* chart, what a chart shows of it (indicatorChartScope), the browser and  *)
(* the settings dialog that change it, and the debounced passes that bring *)
(* it to the server.  Passes are not serialized.                           *)
(***************************************************************************)
EXTENDS Partial, SequencesExt

CONSTANTS
  Pane,               \* charts: <<layout, chart>>
  IndicatorKind,      \* types of the catalog and custom scripts
  Settings,           \* inputs and styles of an indicator
  DefaultSettings,    \* the ones its definition gives
  MaxIndicators,      \* bound: ids
  MaxIndicatorSteps   \* bound: acts of the user and failures

VARIABLES
  registry,      \* id -> kind, scope, settings, shown (indicatorsAtom)
  context,       \* the chart that is active
  outbox,        \* upserts, deletes, timer
  passes,        \* running passes: what is left to send, and all they took
  indicatorPresets,       \* the server's presets
  browser,       \* open, tab, query, heard (the request that counts), rows, asked
  indicatorEditor,        \* the settings dialog: id, definition (loaded), draft
  adding,        \* custom indicators whose definition is awaited
  disturbed,     \* a pass failed or overlapped another
  indicatorSteps

indicatorVars ==
  <<registry, context, outbox, passes, indicatorPresets, browser, indicatorEditor, adding, disturbed, indicatorSteps>>
IndicatorStep == indicatorSteps < MaxIndicatorSteps /\ indicatorSteps' = indicatorSteps + 1

(***************************************************************************)
(* Scopes                                                                  *)
(***************************************************************************)
BindIndicatorToChart(kind, settings) == [kind |-> kind, scope |-> context, settings |-> settings, shown |-> TRUE]
SelectIndicatorsForChart(pane) == {id \in DOMAIN registry : registry[id].scope = pane}
SelectIndicatorsForLayout(layout) == {id \in DOMAIN registry : registry[id].scope[1] = layout}
MergeIndicatorLayoutRegistry(rows, incoming, layout) ==
  LET preserved == {id \in DOMAIN rows : id \notin DOMAIN incoming /\ rows[id].scope[1] # layout}
  IN  [id \in preserved \union DOMAIN incoming |-> IF id \in DOMAIN incoming THEN incoming[id] ELSE rows[id]]
FreshIndicator == {id \in 1..MaxIndicators : id \notin DOMAIN registry \union DOMAIN indicatorPresets
                     /\ \A i \in 1..id - 1 : i \in DOMAIN registry \union DOMAIN indicatorPresets}

IndicatorsInit ==
  /\ registry = None /\ indicatorPresets = None /\ context \in Pane
  /\ outbox = [ups |-> None, dels |-> {}, timer |-> FALSE] /\ passes = <<>>
  /\ browser = [open |-> FALSE, tab |-> "store", query |-> 0, asked |-> {}, heard |-> 0, rows |-> Nothing]
  /\ indicatorEditor = Nothing /\ adding = {} /\ disturbed = FALSE /\ indicatorSteps = 0

(***************************************************************************)
(* The outbox                                                              *)
(***************************************************************************)
Upserted(o, rows) == [ups |-> [id \in DOMAIN o.ups \union DOMAIN rows |-> IF id \in DOMAIN rows THEN rows[id] ELSE o.ups[id]],
                      dels |-> o.dels \ DOMAIN rows, timer |-> TRUE]
KeepsUpserts(o, ids) == [o EXCEPT !.dels = @ \union ids, !.timer = TRUE]
Deleted(o, ids) == [ups |-> Drop(o.ups, ids), dels |-> o.dels \union ids, timer |-> TRUE]
(* commitIndicators queues every indicator of the registry. *)
CommitIndicators(rows, removed) ==
  /\ registry' = rows
  /\ outbox' = Upserted(IF removed = {} THEN outbox ELSE Deleted(outbox, removed), rows)
  /\ UNCHANGED <<context, passes, indicatorPresets, disturbed>>
UNCHANGEDViews == UNCHANGED <<browser, indicatorEditor, adding>>

(* The timer: what is pending becomes a pass, deletes first. *)
ScheduledPass ==
  /\ outbox.timer /\ outbox' = [ups |-> None, dels |-> {}, timer |-> FALSE]
  /\ LET todo == SetToSeq({[op |-> "delete", id |-> id, row |-> Nothing] : id \in outbox.dels})
                   \o SetToSeq({[op |-> "save", id |-> id, row |-> outbox.ups[id]] : id \in DOMAIN outbox.ups})
     IN  passes' = IF todo = <<>> THEN passes
                   ELSE Append(passes, [left |-> todo, ups |-> outbox.ups, dels |-> outbox.dels])
  /\ disturbed' = (disturbed \/ passes # <<>>)
  /\ UNCHANGED <<registry, context, indicatorPresets, indicatorSteps>> /\ UNCHANGEDViews
PassSends(p) ==
  /\ LET call == passes[p].left[1]
     IN  indicatorPresets' = IF call.op = "delete" THEN Drop(indicatorPresets, {call.id}) ELSE Put(indicatorPresets, call.id, call.row)
  /\ passes' = IF Len(passes[p].left) = 1 THEN RemoveAt(passes, p) ELSE [passes EXCEPT ![p].left = Tail(@)]
  /\ UNCHANGED <<registry, context, outbox, disturbed, indicatorSteps>> /\ UNCHANGEDViews
(* A failure puts everything the pass took back into the outbox, over what *)
(* was queued since, and leaves it to the next change to send it.          *)
PassFails(p) ==
  /\ IndicatorStep /\ passes' = RemoveAt(passes, p) /\ disturbed' = TRUE
  /\ outbox' = [outbox EXCEPT !.dels = @ \union passes[p].dels,
                  !.ups = [id \in DOMAIN @ \union DOMAIN passes[p].ups |->
                             IF id \in DOMAIN passes[p].ups THEN passes[p].ups[id] ELSE outbox.ups[id]]]
  /\ UNCHANGED <<registry, context, indicatorPresets>> /\ UNCHANGEDViews

(***************************************************************************)
(* Changes                                                                 *)
(***************************************************************************)
(* The store tab lists the catalog and the answer to the last query. *)
StoreListed == browser.open /\ browser.tab = "store" /\ browser.rows # Nothing
AddIndicator(kind) ==
  /\ IndicatorStep /\ StoreListed
  /\ \E id \in FreshIndicator : CommitIndicators(Put(registry, id, BindIndicatorToChart(kind, Nothing)), {})
  /\ browser' = [browser EXCEPT !.open = FALSE, !.asked = {}] /\ UNCHANGED <<indicatorEditor, adding>>
ToggleIndicator(kind) ==
  LET matches == {id \in SelectIndicatorsForChart(context) : registry[id].kind = kind}
  IN  /\ IndicatorStep /\ UNCHANGEDViews
      /\ IF matches # {} THEN CommitIndicators(Drop(registry, matches), matches)
         ELSE \E id \in FreshIndicator : CommitIndicators(Put(registry, id, BindIndicatorToChart(kind, Nothing)), {})
UpdateIndicator(id, s, shown) ==
  CommitIndicators([registry EXCEPT ![id].settings = s, ![id].shown = shown], {})
(* The legend of a chart: the eye, and the bin. *)
ToggleVisibility(id) ==
  /\ IndicatorStep /\ id \in SelectIndicatorsForChart(context)
  /\ UpdateIndicator(id, registry[id].settings, ~ registry[id].shown) /\ UNCHANGEDViews
RemoveIndicator(id) ==
  /\ IndicatorStep /\ id \in SelectIndicatorsForChart(context)
  /\ CommitIndicators(Drop(registry, {id}), {id}) /\ UNCHANGEDViews
ClearIndicators ==
  LET active == SelectIndicatorsForChart(context)
  IN  IndicatorStep /\ active # {} /\ CommitIndicators(Drop(registry, active), active) /\ UNCHANGEDViews
(* addCustomIndicatorFromScriptAtom, ...FromSourceAtom: the chart is the   *)
(* one that is active when the definition has come.                        *)
AsksForCustom(kind) ==
  /\ IndicatorStep /\ kind \notin adding /\ adding' = adding \union {kind}
  /\ UNCHANGED <<registry, context, outbox, passes, indicatorPresets, browser, indicatorEditor, disturbed>>
CustomArrives(kind) ==
  LET same == {id \in SelectIndicatorsForChart(context) : registry[id].kind = kind}
  IN  /\ kind \in adding /\ adding' = adding \ {kind} /\ UNCHANGED <<browser, indicatorEditor, indicatorSteps>>
      /\ IF same # {} THEN CommitIndicators(registry, {})
         ELSE \E id \in FreshIndicator : CommitIndicators(Put(registry, id, BindIndicatorToChart(kind, Nothing)), {})
SwitchChart(pane) ==
  /\ IndicatorStep /\ pane # context /\ context' = pane
  /\ UNCHANGED <<registry, outbox, passes, indicatorPresets, disturbed>> /\ UNCHANGEDViews
(* adoptDrawingLayoutContextAtom: a layout that is saved for the first time *)
(* takes the indicators of the one it is saved from.                       *)
AdoptLayout(layout) ==
  LET old == context[1]
  IN  /\ IndicatorStep /\ layout # old /\ <<layout, context[2]>> \in Pane
      /\ \A id \in SelectIndicatorsForLayout(old) : <<layout, registry[id].scope[2]>> \in Pane
      /\ context' = <<layout, context[2]>>
      /\ registry' = MergeIndicatorLayoutRegistry(registry,
                       [id \in SelectIndicatorsForLayout(old) |-> [registry[id] EXCEPT !.scope[1] = layout]], old)
      /\ outbox' = Upserted(outbox, registry')
      /\ UNCHANGED <<passes, indicatorPresets, disturbed>> /\ UNCHANGEDViews
(* applySavedChartLayoutAtom: a layout brings its own indicators; nothing is queued. *)
ApplySavedLayout(incoming) ==
  /\ IndicatorStep /\ (\A id \in DOMAIN incoming : incoming[id].scope[1] = context[1])
  /\ registry' = MergeIndicatorLayoutRegistry(registry, incoming, context[1])
  /\ indicatorEditor' = Nothing /\ disturbed' = TRUE
  /\ UNCHANGED <<context, outbox, passes, indicatorPresets, browser, adding>>
(* applyRemoteIndicatorsAtom: what was queued is forgotten. *)
ApplyRemoteIndicators ==
  /\ IndicatorStep /\ registry' = indicatorPresets
  /\ outbox' = [ups |-> None, dels |-> {}, timer |-> FALSE] /\ disturbed' = (disturbed \/ passes # <<>>)
  /\ UNCHANGED <<context, passes, indicatorPresets>> /\ UNCHANGEDViews

(***************************************************************************)
(* The browser and the dialog                                              *)
(***************************************************************************)
Viewed == IndicatorStep /\ UNCHANGED <<registry, context, outbox, passes, indicatorPresets, indicatorEditor, adding, disturbed>>
(* Opening, and each change of the query, asks the store again. *)
Asked(b) == [b EXCEPT !.query = @ + 1, !.asked = @ \union {b.query + 1}, !.heard = b.query + 1]
OpenBrowser == Viewed /\ ~ browser.open /\ browser' = Asked([browser EXCEPT !.open = TRUE, !.tab = "store"])
TypeQuery == Viewed /\ browser.open /\ browser.tab = "store" /\ browser' = Asked(browser)
SelectTab(tab) == Viewed /\ browser.open /\ tab # browser.tab /\ browser' = [browser EXCEPT !.tab = tab]
CloseBrowser == Viewed /\ browser.open /\ browser' = [browser EXCEPT !.open = FALSE]
StoreAnswers(q) ==
  /\ q \in browser.asked
  /\ browser' = [browser EXCEPT !.asked = @ \ {q}, !.rows = IF browser.heard = q THEN q ELSE @]
  /\ UNCHANGED <<registry, context, outbox, passes, indicatorPresets, indicatorEditor, adding, disturbed, indicatorSteps>>

UNCHANGEDButEditor == UNCHANGED <<registry, context, outbox, passes, indicatorPresets, browser, adding, disturbed>>
OpenSettings(id) ==
  /\ IndicatorStep /\ id \in SelectIndicatorsForChart(context)
  /\ indicatorEditor' = [id |-> id, of |-> registry[id], draft |-> Nothing] /\ UNCHANGEDButEditor
(* Only what differs from the definition's defaults is kept of a draft. *)
CompactStyleValues(s) == IF s = DefaultSettings THEN Nothing ELSE s
InitialDraft(row) == [settings |-> IF row.settings = Nothing THEN DefaultSettings ELSE row.settings, shown |-> row.shown]
(* The definition is loaded again whenever the indicator changes under the dialog. *)
DefinitionArrives ==
  /\ indicatorEditor # Nothing /\ indicatorEditor.id \in SelectIndicatorsForChart(context)
  /\ indicatorEditor.draft = Nothing \/ indicatorEditor.of # registry[indicatorEditor.id]
  /\ indicatorEditor' = [indicatorEditor EXCEPT !.of = registry[indicatorEditor.id], !.draft = InitialDraft(registry[indicatorEditor.id])]
  /\ UNCHANGED indicatorSteps /\ UNCHANGEDButEditor
Draft(d) ==
  /\ IndicatorStep /\ indicatorEditor # Nothing /\ indicatorEditor.draft # Nothing /\ d # indicatorEditor.draft
  /\ indicatorEditor' = [indicatorEditor EXCEPT !.draft = d] /\ UNCHANGEDButEditor
UpdateStyleValue(s) == Draft([indicatorEditor.draft EXCEPT !.settings = s])
UpdateVisible == Draft([indicatorEditor.draft EXCEPT !.shown = ~ @])
ResetDefaults == Draft([settings |-> DefaultSettings, shown |-> TRUE])
CloseSettings == IndicatorStep /\ indicatorEditor # Nothing /\ indicatorEditor' = Nothing /\ UNCHANGEDButEditor
SaveSettings ==
  /\ IndicatorStep /\ indicatorEditor # Nothing /\ indicatorEditor.draft # Nothing
  /\ indicatorEditor.id \in SelectIndicatorsForChart(context) /\ indicatorEditor.of = registry[indicatorEditor.id]
  /\ UpdateIndicator(indicatorEditor.id, CompactStyleValues(indicatorEditor.draft.settings), indicatorEditor.draft.shown) /\ indicatorEditor' = Nothing /\ UNCHANGED <<browser, adding>>

IndicatorsNext ==
  \/ ScheduledPass \/ \E p \in DOMAIN passes : PassSends(p) \/ PassFails(p)
  \/ \E kind \in IndicatorKind :
       AddIndicator(kind) \/ ToggleIndicator(kind) \/ CustomArrives(kind)
  \/ \E kind \in IndicatorKind : AsksForCustom(kind)
  \/ \E id \in 1..MaxIndicators : RemoveIndicator(id) \/ ToggleVisibility(id) \/ OpenSettings(id)
  \/ ClearIndicators \/ ApplyRemoteIndicators
  \/ \E pane \in Pane : SwitchChart(pane) \/ AdoptLayout(pane[1])
  \/ \E kind \in IndicatorKind, pane \in Pane, s \in Settings :
       ApplySavedLayout(Put(None, 1, [kind |-> kind, scope |-> pane, settings |-> s, shown |-> TRUE]))
  \/ ApplySavedLayout(None)
  \/ OpenBrowser \/ TypeQuery \/ CloseBrowser \/ \E tab \in {"store", "favorites"} : SelectTab(tab)
  \/ \E q \in browser.asked : StoreAnswers(q)
  \/ DefinitionArrives \/ CloseSettings \/ SaveSettings
  \/ indicatorEditor # Nothing /\ indicatorEditor.draft # Nothing /\ (UpdateVisible \/ ResetDefaults \/ \E s \in Settings : UpdateStyleValue(s))

IndicatorsSpec == IndicatorsInit /\ [][IndicatorsNext]_indicatorVars

(* When nothing is queued and no pass has failed, overlapped another or    *)
(* lost its ground to a restored layout, the server has the registry:      *)
(* neither a removal nor a setting is lost between queue, timer and pass   *)
(* (scheduleIndicatorSync, queueIndicatorDelete).                          *)
IndicatorsLand == (~ outbox.timer /\ passes = <<>> /\ ~ disturbed) => indicatorPresets = registry
==============================================================================
