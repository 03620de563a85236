---------------------------- MODULE ReplayChoice ----------------------------
(***************************************************************************)
(* replayLayoutStore, ReplaySelectionLayer and ReplayClientRuntime: the    *)
(* panes of the chart workspace, the bar a replay is to start at, and the  *)
(* session that has to follow the panes.  A session is its mode and its    *)
(* tracks (slot and selection); how it is shown is ReplaySession's matter. *)
(***************************************************************************)
EXTENDS Partial

CONSTANTS
  MaxChartPanes,    \* MAX_CHART_PANES
  Chosen,           \* a symbol and a timeframe
  PaneAlert,        \* alerts that belong to a pane
  LastBar,          \* bars open at 0..LastBar
  MaxChoiceSteps    \* bound: acts of the user and failures

ASSUME ChoiceConstants ==
  /\ MaxChartPanes \in Nat \ {0}
  /\ Nothing \notin [mode : {"one", "all"}, owner : 0..MaxChartPanes - 1,
                      tracks : SUBSET ((0..MaxChartPanes - 1) \X (Chosen \union {Nothing}))]

VARIABLES
  layout,           \* preset, mode, panes, active, owners, selected (of the chart)
  choosing,         \* selection, signedIn, candidates, preview, seeded, pointer
  runtime,          \* session shown, replacing (replacingRef and its request), dirty, heard
  choiceSteps

choiceVars == <<layout, choosing, runtime, choiceSteps>>
ChoiceStep == choiceSteps < MaxChoiceSteps /\ choiceSteps' = choiceSteps + 1

(***************************************************************************)
(* Panes.  A pane's id is <<slot, 1>>, or <<slot, n>> when that one is     *)
(* taken; an uninitialized pane has chosen nothing.                        *)
(***************************************************************************)
Slots == 0..MaxChartPanes - 1
Presets == {"single", "two", "grid"}
PaneId(slot) == <<slot, 1>>
CreateInitialChartPanes == [slot \in Slots |-> [id |-> PaneId(slot), choice |-> Nothing]]
ChartCountForPreset(preset) ==
  CASE preset = "grid" -> MaxChartPanes [] preset = "two" -> AtMost(2, MaxChartPanes) [] preset = "single" -> 1
VisibleChartSlots(preset) == 0..ChartCountForPreset(preset) - 1

(* normalizeChartPanes: rows are what a layout document or a tab holds. *)
UniqueId(rows, slot, used) ==
  IF slot \in DOMAIN rows /\ rows[slot].id \notin used THEN rows[slot].id
  ELSE IF PaneId(slot) \notin used THEN PaneId(slot)
  ELSE CHOOSE id \in {<<slot, n>> : n \in 2..MaxChartPanes + 2} :
         id \notin used /\ \A n \in 2..id[2] - 1 : <<slot, n>> \in used
NormalizedIds[rows \in Partially(Slots, [id : Slots \X {1}, choice : Chosen \union {Nothing}]), slot \in Slots] ==
  IF slot = 0 THEN [s \in {0} |-> UniqueId(rows, 0, {})]
  ELSE LET before == NormalizedIds[rows, slot - 1]
       IN  Put(before, slot, UniqueId(rows, slot, {before[s] : s \in DOMAIN before}))
NormalizeChartPanes(rows, fallback) ==
  LET ids == NormalizedIds[rows, MaxChartPanes - 1]
  IN  [slot \in Slots |-> [id |-> ids[slot],
         choice |-> IF slot \in DOMAIN rows /\ rows[slot].choice # Nothing THEN rows[slot].choice ELSE fallback]]
UpdatePaneSelection(panes, slot, c) == [panes EXCEPT ![slot].choice = c]
(* A pane that becomes visible starts as a copy of the active one. *)
InitializePanesForPreset(panes, preset, active) ==
  LET set == {s \in Slots : panes[s].choice # Nothing}
      source == IF panes[active].choice # Nothing THEN panes[active].choice
                ELSE IF set = {} THEN Nothing ELSE panes[CHOOSE s \in set : \A r \in set : s <= r].choice
  IN  [s \in Slots |-> IF s \in VisibleChartSlots(preset) /\ panes[s].choice = Nothing
                       THEN [panes[s] EXCEPT !.choice = source] ELSE panes[s]]
ReplayMode(mode, preset) == IF mode = "all" /\ preset # "single" THEN "all" ELSE "one"
VisibleOr0(slot, preset) == IF slot \in VisibleChartSlots(preset) THEN slot ELSE 0
OwnersOf(owners, panes) ==
  Drop(owners, {a \in DOMAIN owners : owners[a] \notin {panes[s].id : s \in Slots}})

ChoiceInit ==
  /\ \E c \in Chosen :
       layout = [preset |-> "single", mode |-> "one", active |-> 0, owners |-> None, selected |-> c,
                 panes |-> UpdatePaneSelection(CreateInitialChartPanes, 0, c)]
  /\ choosing = [selection |-> "idle", signedIn |-> TRUE, candidates |-> 0..LastBar, preview |-> Nothing,
                 seeded |-> FALSE, pointer |-> FALSE]
  /\ runtime = [session |-> Nothing, request |-> Nothing, replacing |-> FALSE, dirty |-> FALSE, heard |-> TRUE]
  /\ choiceSteps = 0

(* Every change of the layout is a dependency of the runtime's effect. *)
Laid(l) == layout' = l /\ runtime' = [runtime EXCEPT !.dirty = TRUE] /\ UNCHANGED choosing

ResetChartLayoutState ==
  ChoiceStep /\ Laid([preset |-> "single", mode |-> "one", active |-> 0, owners |-> None,
                      selected |-> layout.selected, panes |-> CreateInitialChartPanes])
SetActiveChartSlot(slot) ==
  ChoiceStep /\ slot \in VisibleChartSlots(layout.preset) /\ slot # layout.active
    /\ Laid([layout EXCEPT !.active = slot])
(* The chart's own symbol and timeframe are those of the active pane. *)
SyncActiveChartPane(c) ==
  /\ ChoiceStep /\ layout.panes[layout.active].choice # c
  /\ Laid([layout EXCEPT !.selected = c, !.panes = InitializePanesForPreset(
             UpdatePaneSelection(layout.panes, layout.active, c), layout.preset, layout.active)])
DropSymbolOnChartPane(slot, c) ==
  /\ ChoiceStep /\ slot \in VisibleChartSlots(layout.preset)
  /\ Laid([layout EXCEPT !.panes = UpdatePaneSelection(@, slot, c), !.active = slot, !.selected = c])
SetAlertChartOwner(a, id) ==
  /\ ChoiceStep
  /\ Laid([layout EXCEPT !.owners = IF id = Nothing THEN Drop(@, {a}) ELSE Put(@, a, id)])
SetChartLayoutPreset(preset) ==
  /\ ChoiceStep /\ preset # layout.preset
  /\ Laid([layout EXCEPT !.panes = InitializePanesForPreset(layout.panes, preset, layout.active),
                         !.active = VisibleOr0(@, preset), !.preset = preset,
                         !.mode = IF preset = "single" THEN "one" ELSE @])
SetReplayLayoutMode(mode) ==
  ChoiceStep /\ Laid([layout EXCEPT !.mode = ReplayMode(mode, layout.preset)])
(* restoreChartLayoutState, and the normalization of a persisted layout *)
RestoreChartLayoutState(preset, mode, rows, active, fallback) ==
  LET at == VisibleOr0(active, preset)
      panes == InitializePanesForPreset(NormalizeChartPanes(rows, fallback), preset, at)
  IN  /\ ChoiceStep
      /\ Laid([preset |-> preset, mode |-> ReplayMode(mode, preset), active |-> at, panes |-> panes,
               selected |-> fallback, owners |-> OwnersOf(layout.owners, panes)])

(***************************************************************************)
(* The tracks that a session should have, and the effect that replaces a   *)
(* session with other ones.                                                *)
(***************************************************************************)
TracksForLayout(owner, selected) ==
  LET slots == IF layout.mode = "all" THEN VisibleChartSlots(layout.preset) ELSE {owner}
  IN  {<<s, IF s # owner /\ layout.panes[s].choice # Nothing THEN layout.panes[s].choice ELSE selected>> : s \in slots}
SelectedChoice ==
  IF layout.panes[layout.active].choice # Nothing THEN layout.panes[layout.active].choice ELSE layout.selected
(* A session of one chart stays with its pane while that is visible. *)
OwnerOf(session) ==
  LET slot == (CHOOSE t \in session.tracks : TRUE)[1]
  IN  IF session.mode = "one" /\ layout.mode = "one" /\ session.tracks # {}
         /\ slot \in VisibleChartSlots(layout.preset) THEN slot ELSE layout.active
WantedTracks(session) ==
  LET owner == OwnerOf(session)
      pane == layout.panes[owner].choice
  IN  TracksForLayout(owner, IF layout.mode = "one" /\ pane # Nothing THEN pane ELSE SelectedChoice)
CountsOnly(session) == Cardinality(session.tracks \union session.missing) = Cardinality(WantedTracks(session))
ConfigurationMatches(session) ==
  /\ session.mode = layout.mode
  /\ ~ \E t \in WantedTracks(session) : t \in session.missing /\ (layout.mode = "one" \/ t[1] = OwnerOf(session))
  /\ Cardinality(session.tracks) + Cardinality(session.missing) = Cardinality(WantedTracks(session))
  /\ WantedTracks(session) \subseteq session.tracks \union session.missing
Required(request, t) == request.mode = "one" \/ t[1] = request.owner
RunReplayEffect ==
  /\ runtime.dirty /\ UNCHANGED <<layout, choosing, choiceSteps>>
  /\ LET s == runtime.session
         quiet == [runtime EXCEPT !.dirty = FALSE]
     IN  CASE ~ choosing.signedIn -> runtime' = [quiet EXCEPT !.session = Nothing, !.request = Nothing]
           [] choosing.signedIn /\ (s = Nothing \/ runtime.replacing) -> runtime' = quiet
           [] choosing.signedIn /\ s # Nothing /\ ~ runtime.replacing ->
                runtime' = IF ConfigurationMatches(s) THEN quiet
                           ELSE [quiet EXCEPT !.replacing = TRUE,
                             !.request = [mode |-> layout.mode, owner |-> OwnerOf(s), tracks |-> WantedTracks(s)]]
(* startReplaySession of a request; tracks that are not required may be    *)
(* left out.  Its effect runs before or after replacingRef is reset; the   *)
(* socket's first snapshot makes it run once more.                         *)
StartAnswers(missing) ==
  /\ runtime.request # Nothing /\ UNCHANGED <<layout, choosing, choiceSteps>>
  /\ missing \subseteq {t \in runtime.request.tracks : ~ Required(runtime.request, t)}
  /\ runtime' = [runtime EXCEPT !.request = Nothing, !.dirty = TRUE, !.heard = FALSE,
       !.session = [mode |-> runtime.request.mode, tracks |-> runtime.request.tracks \ missing, missing |-> missing]]
StartFails ==
  /\ ChoiceStep /\ runtime.request # Nothing /\ UNCHANGED <<layout, choosing>>
  /\ runtime' = [runtime EXCEPT !.request = Nothing, !.session = Nothing, !.dirty = TRUE]
ReplacingReset ==
  /\ runtime.replacing /\ runtime.request = Nothing /\ UNCHANGED <<layout, choosing, choiceSteps>>
  /\ runtime' = [runtime EXCEPT !.replacing = FALSE]
SnapshotHeard ==
  /\ ~ runtime.heard /\ ~ runtime.replacing /\ UNCHANGED <<layout, choosing, choiceSteps>>
  /\ runtime' = [runtime EXCEPT !.heard = TRUE, !.dirty = TRUE]
ExitReplay ==
  /\ ChoiceStep /\ runtime.session # Nothing /\ UNCHANGED <<layout, choosing>>
  /\ runtime' = [runtime EXCEPT !.session = Nothing, !.request = Nothing, !.dirty = TRUE]

(***************************************************************************)
(* Choosing a bar.  preview is the bar the line stands on: its time and    *)
(* its index among the candidates.                                         *)
(***************************************************************************)
IsChoosing == choosing.selection # "idle" /\ choosing.signedIn
IndexOf(times, t) == Cardinality({u \in times : u <= t})
TimeAt(times, i) == CHOOSE t \in times : IndexOf(times, t) = i
(* nearestReplayCandidateIndex: the earlier of two that are as near *)
Distance(a, b) == IF a < b THEN b - a ELSE a - b
NearestTime(times, t) ==
  CHOOSE u \in times : \A w \in times :
    \/ Distance(u, t) < Distance(w, t)
    \/ Distance(u, t) = Distance(w, t) /\ u <= w
OnBar(times, t) == [time |-> t, index |-> IndexOf(times, t)]
(* reconcileReplayPreviewIndex: by time, whatever was loaded before it *)
Reconciled(times, p) == OnBar(times, NearestTime(times, p.time))
BeginSelection(mode) ==
  /\ ChoiceStep /\ choosing.signedIn /\ choosing.selection # mode
  /\ (mode = "reselecting") = (runtime.session # Nothing)
  /\ choosing' = [choosing EXCEPT !.selection = mode, !.seeded = FALSE]
  /\ UNCHANGED <<layout, runtime>>
(* The first line stands in the middle of the chart. *)
SeedPreview ==
  /\ IsChoosing /\ ~ choosing.seeded /\ choosing.candidates # {}
  /\ \E t \in choosing.candidates :
       choosing' = [choosing EXCEPT !.seeded = TRUE, !.preview = OnBar(choosing.candidates, t)]
  /\ UNCHANGED <<layout, runtime, choiceSteps>>
CandidatesChange(times) ==
  /\ ChoiceStep /\ times # choosing.candidates
  /\ choosing' = [choosing EXCEPT !.candidates = times,
       !.seeded = IF IsChoosing /\ times = {} THEN FALSE ELSE @,
       !.preview = IF ~ IsChoosing \/ @ = Nothing THEN @
                   ELSE IF times = {} THEN Nothing ELSE Reconciled(times, @)]
  /\ UNCHANGED <<layout, runtime>>
Ended == [choosing EXCEPT !.selection = "idle", !.preview = Nothing, !.pointer = FALSE, !.seeded = FALSE]
CancelSelection == ChoiceStep /\ choosing.selection # "idle" /\ choosing' = Ended /\ UNCHANGED <<layout, runtime>>
PointerTo(t) == choosing.candidates # {} /\ t \in choosing.candidates
PointerMoves(t, down) ==
  /\ ChoiceStep /\ IsChoosing /\ PointerTo(t)
  /\ choosing' = [choosing EXCEPT !.preview = OnBar(choosing.candidates, t), !.pointer = @ \/ down]
  /\ UNCHANGED <<layout, runtime>>
PointerCancels == choosing.pointer /\ choosing' = [choosing EXCEPT !.pointer = FALSE] /\ UNCHANGED <<layout, runtime, choiceSteps>>
ArrowKey(i) ==
  /\ ChoiceStep /\ IsChoosing /\ choosing.candidates # {}
  /\ LET n == Cardinality(choosing.candidates)
         now == IF choosing.preview = Nothing THEN n ELSE choosing.preview.index
     IN  /\ i \in {AtLeast(1, now - 1), AtMost(n, now + 1), 1, n}
         /\ choosing' = [choosing EXCEPT !.preview = OnBar(choosing.candidates, TimeAt(choosing.candidates, i))]
  /\ UNCHANGED <<layout, runtime>>
(* commitSelection: move the session that is shown, or start one. *)
Commit ==
  /\ IsChoosing /\ choosing.preview # Nothing /\ choosing.candidates # {}
  /\ choosing' = Ended
  /\ runtime' = IF runtime.session # Nothing THEN runtime
                ELSE [runtime EXCEPT !.request = [mode |-> layout.mode, owner |-> layout.active,
                                                  tracks |-> TracksForLayout(layout.active, SelectedChoice)]]
  /\ UNCHANGED <<layout, choiceSteps>>
SignOut ==
  /\ ChoiceStep /\ choosing.signedIn
  /\ choosing' = [Ended EXCEPT !.signedIn = FALSE]
  /\ runtime' = [runtime EXCEPT !.dirty = TRUE]
  /\ UNCHANGED layout

PaneRows == {None} \union {[s \in {a} |-> [id |-> PaneId(b), choice |-> c]] : a \in Slots, b \in Slots, c \in Chosen \union {Nothing}}
ChoiceNext ==
  \/ ResetChartLayoutState
  \/ \E slot \in Slots : SetActiveChartSlot(slot)
  \/ \E c \in Chosen : SyncActiveChartPane(c)
  \/ \E slot \in Slots, c \in Chosen : DropSymbolOnChartPane(slot, c)
  \/ \E a \in PaneAlert, s \in Slots : SetAlertChartOwner(a, layout.panes[s].id)
  \/ \E a \in PaneAlert : SetAlertChartOwner(a, Nothing)
  \/ \E preset \in Presets : SetChartLayoutPreset(preset)
  \/ \E mode \in {"one", "all"} : SetReplayLayoutMode(mode)
  \/ \E preset \in Presets, mode \in {"one", "all"}, rows \in PaneRows, active \in Slots, c \in Chosen :
       RestoreChartLayoutState(preset, mode, rows, active, c)
  \/ \E missing \in SUBSET (Slots \X Chosen) : StartAnswers(missing)
  \/ RunReplayEffect \/ StartFails \/ ReplacingReset \/ SnapshotHeard \/ ExitReplay
  \/ \E mode \in {"selecting", "reselecting"} : BeginSelection(mode)
  \/ \E times \in SUBSET (0..LastBar) : CandidatesChange(times)
  \/ \E t \in 0..LastBar, down \in BOOLEAN : PointerMoves(t, down)
  \/ \E i \in 1..LastBar + 1 : ArrowKey(i)
  \/ SeedPreview \/ CancelSelection \/ PointerCancels \/ Commit \/ SignOut

ChoiceSpec == ChoiceInit /\ [][ChoiceNext]_choiceVars

(***************************************************************************)
(* Properties.                                                             *)
(***************************************************************************)
(* The panes of a layout have distinct ids, whatever document they were    *)
(* restored from: drawings and alerts are kept under them.                 *)
PanesAreDistinct == \A s, r \in Slots : s # r => layout.panes[s].id # layout.panes[r].id

(* Once the effect has nothing left to do, the session that is replayed is *)
(* the one the panes ask for, although changes that come while a session   *)
(* is being replaced are not looked at.                                    *)
ReplayFollowsLayout ==
  LET s == runtime.session
  IN  s # Nothing /\ ~ runtime.dirty /\ ~ runtime.replacing /\ runtime.request = Nothing /\ runtime.heard
        => s.mode = layout.mode /\ s.tracks \union s.missing = WantedTracks(s)

(* Bars that load while one is being chosen do not move the line to        *)
(* another bar.                                                            *)
PreviewKeepsItsBar ==
  [][choosing'.candidates # choosing.candidates /\ choosing.preview # Nothing /\ IsChoosing
       /\ choosing.preview.time \in choosing.candidates \intersect choosing'.candidates
     => choosing'.preview = OnBar(choosing'.candidates, choosing.preview.time)]_choiceVars
=============================================================================
