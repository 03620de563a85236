------------------------------ MODULE AlertDrag -------------------------------
(***************************************************************************)
(* The alert lines of one chart: the native price lines AlertLines keeps   *)
(* for the alerts of the store, and AlertOverlay's strips over them, which *)
(* select an alert, open its menu and drag it to another price.  While a   *)
(* strip is dragged the chart's gestures and the scale's fitting are off   *)
(* and the native line follows the finger; the store learns the price when *)
(* the finger lifts.                                                       *)
(***************************************************************************)
EXTENDS Partial, Integers

CONSTANTS
  Alarm,          \* alerts
  PriceLevel,     \* prices, which are also the heights on the screen
  Threshold,      \* DRAG_THRESHOLD, in levels
  Finger,         \* pointers
  MaxDragSteps    \* bound: gestures and changes of the store from elsewhere

ASSUME DragAssumption == PriceLevel \subseteq Int /\ 1 \in PriceLevel

VARIABLES
  alarms,    \* the active alerts of this chart, by id
  lastClose, \* close of the last candle
  lines,     \* alertLineRegistry: price each native line was drawn at, and is at
  drawnKey,  \* symbolAlertsKey the effect of AlertLines last ran with
  grips,     \* presses under way; one whose strip is gone never hears its end
  frozen,    \* locked: chart gestures are off; fit: autoScale of the scale
  overlay,   \* selected, menu, shown (the drag React knows)
  dragSteps

alarmVars == <<alarms, lastClose, lines, drawnKey, grips, frozen, overlay, dragSteps>>
DragStep == dragSteps < MaxDragSteps /\ dragSteps' = dragSteps + 1

(***************************************************************************)
(* AlertLines.                                                             *)
(***************************************************************************)
Lined == {id \in DOMAIN alarms : alarms[id].enabled /\ alarms[id].fixed}
KeyOfIds == [id \in Lined |-> alarms[id].above]
LineRenderKey == [id \in Lined |-> <<alarms[id].above, alarms[id].price>>]

(* The clean-up of the effect removes every line, so all are drawn anew. *)
LinesAreDrawn ==
  /\ drawnKey # LineRenderKey
  /\ drawnKey' = LineRenderKey
  /\ lines' = [id \in Lined |-> [drawn |-> alarms[id].price, at |-> alarms[id].price]]
  /\ UNCHANGED <<alarms, lastClose, grips, frozen, overlay, dragSteps>>

(***************************************************************************)
(* The store: updateAlert, deleteAlert and what comes from elsewhere.      *)
(***************************************************************************)
ConditionForTargetSide(price, close) == price >= close
Gone(id) ==
  /\ alarms' = Drop(alarms, {id})
  /\ grips' = {IF g.id = id THEN [g EXCEPT !.heard = FALSE] ELSE g : g \in grips}
Deselected(id) == [overlay EXCEPT !.selected = IF @ = id THEN Nothing ELSE @]

(* Fired, expired or moved to another symbol: the alert is no longer here. *)
AlertLeaves(id) ==
  /\ DragStep
  /\ Gone(id)
  /\ UNCHANGED <<lastClose, lines, drawnKey, frozen, overlay>>
AlertMovesElsewhere(id, price) ==
  /\ DragStep
  /\ alarms' = [alarms EXCEPT ![id].price = price]
  /\ UNCHANGED <<lastClose, lines, drawnKey, grips, frozen, overlay>>
CandleCloses(price) ==
  /\ DragStep
  /\ lastClose' = price
  /\ UNCHANGED <<alarms, lines, drawnKey, grips, frozen, overlay>>

(***************************************************************************)
(* A press on a strip.                                                     *)
(***************************************************************************)
Freed(f) == \A g \in grips : g.heard => g.finger # f
Draggable(a) == ~ a.locked /\ a.fixed
Freeze == [locked |-> TRUE, fit |-> FALSE]
Thaw(g) == [locked |-> FALSE, fit |-> g.fit]
PressStrip(f, id) ==
  /\ DragStep
  /\ Freed(f)
  /\ overlay' = [overlay EXCEPT !.selected = id, !.menu = Nothing]
  /\ IF Draggable(alarms[id])
     THEN /\ grips' = grips \union {[finger |-> f, id |-> id, from |-> alarms[id].price,
                                     close |-> lastClose, at |-> alarms[id].price,
                                     moved |-> FALSE, fit |-> frozen.fit, heard |-> TRUE]}
          /\ frozen' = Freeze
     ELSE UNCHANGED <<grips, frozen>>
  /\ UNCHANGED <<alarms, lastClose, lines, drawnKey>>

(* onMove: the native line follows at once; React hears at the next frame. *)
MoveFinger(g, price) ==
  /\ g.heard
  /\ price # g.at
  /\ grips' = (grips \ {g}) \union
       {[g EXCEPT !.at = price, !.moved = @ \/ price - g.from >= Threshold \/ g.from - price >= Threshold]}
  /\ lines' = IF g.id \in DOMAIN lines THEN [lines EXCEPT ![g.id].at = price] ELSE lines
  /\ DragStep
  /\ UNCHANGED <<alarms, lastClose, drawnKey, frozen, overlay>>
DragIsShown(g) ==
  /\ g.heard
  /\ g.at # g.from
  /\ overlay.shown # [id |-> g.id, price |-> g.at]
  /\ overlay' = [overlay EXCEPT !.shown = [id |-> g.id, price |-> g.at]]
  /\ UNCHANGED <<alarms, lastClose, lines, drawnKey, grips, frozen, dragSteps>>

(* onUp: with the alert and the market of the press. *)
Committed(g) == g.moved /\ g.at # g.from
LiftFinger(g) ==
  /\ g.heard
  /\ grips' = grips \ {g}
  /\ frozen' = Thaw(g)
  /\ alarms' = IF Committed(g)
               THEN [alarms EXCEPT ![g.id].price = g.at,
                                   ![g.id].above = ConditionForTargetSide(g.at, g.close)]
               ELSE alarms
  /\ overlay' = [overlay EXCEPT !.shown = Nothing]
  /\ UNCHANGED <<lastClose, lines, drawnKey, dragSteps>>

(***************************************************************************)
(* Selection, the menu and the keyboard.                                   *)
(***************************************************************************)
OpenAlertMenu(id) ==
  /\ DragStep
  /\ overlay' = [overlay EXCEPT !.selected = id, !.menu = id]
  /\ UNCHANGED <<alarms, lastClose, lines, drawnKey, grips, frozen>>
Menued == overlay.menu \in DOMAIN alarms
CloneAlert(copy) ==
  /\ Menued
  /\ copy \notin DOMAIN alarms \union DOMAIN drawnKey \union DOMAIN lines \union {g.id : g \in grips}
  /\ DragStep
  /\ alarms' = Put(alarms, copy, alarms[overlay.menu])
  /\ overlay' = [overlay EXCEPT !.menu = Nothing, !.selected = copy]
  /\ UNCHANGED <<lastClose, lines, drawnKey, grips, frozen>>
ToggleAlert ==
  /\ Menued
  /\ DragStep
  /\ alarms' = [alarms EXCEPT ![overlay.menu].enabled = ~ @]
  /\ overlay' = [overlay EXCEPT !.menu = Nothing]
  /\ UNCHANGED <<lastClose, lines, drawnKey, grips, frozen>>
DeleteFromMenu ==
  /\ Menued
  /\ DragStep
  /\ Gone(overlay.menu)
  /\ overlay' = [Deselected(overlay.menu) EXCEPT !.menu = Nothing]
  /\ UNCHANGED <<lastClose, lines, drawnKey, frozen>>
Deletable == overlay.selected \in DOMAIN alarms /\ ~ alarms[overlay.selected].locked
DeleteKey ==
  /\ Deletable
  /\ DragStep
  /\ Gone(overlay.selected)
  /\ overlay' = Deselected(overlay.selected)
  /\ UNCHANGED <<lastClose, lines, drawnKey, frozen>>
(* The button over the chart also takes the native line away. *)
DeleteButton ==
  /\ Deletable
  /\ DragStep
  /\ Gone(overlay.selected)
  /\ lines' = Drop(lines, {overlay.selected})
  /\ overlay' = Deselected(overlay.selected)
  /\ UNCHANGED <<lastClose, drawnKey, frozen>>
PressElsewhere ==
  /\ overlay.selected # Nothing
  /\ overlay' = [overlay EXCEPT !.selected = IF overlay.menu = Nothing THEN Nothing ELSE @, !.menu = Nothing]
  /\ UNCHANGED <<alarms, lastClose, lines, drawnKey, grips, frozen, dragSteps>>
EscapeKey ==
  /\ overlay.selected # Nothing
  /\ overlay' = [overlay EXCEPT !.selected = Nothing, !.menu = Nothing]
  /\ UNCHANGED <<alarms, lastClose, lines, drawnKey, grips, frozen, dragSteps>>

DragInit ==
  /\ alarms \in {[id \in ids |-> a] :
       ids \in (SUBSET Alarm) \ {{}},
       a \in {[price |-> 1, above |-> FALSE, enabled |-> TRUE, locked |-> l, fixed |-> f] :
                l \in BOOLEAN, f \in BOOLEAN}}
  /\ lastClose \in PriceLevel
  /\ lines = None /\ drawnKey = None
  /\ grips = {}
  /\ frozen = [locked |-> FALSE, fit |-> TRUE]
  /\ overlay = [selected |-> Nothing, menu |-> Nothing, shown |-> Nothing]
  /\ dragSteps = 0

DragNext ==
  \/ LinesAreDrawn
  \/ \E id \in DOMAIN alarms : AlertLeaves(id) \/ OpenAlertMenu(id)
                               \/ \E f \in Finger : PressStrip(f, id)
  \/ \E id \in DOMAIN alarms, p \in PriceLevel : p # alarms[id].price /\ AlertMovesElsewhere(id, p)
  \/ \E p \in PriceLevel \ {lastClose} : CandleCloses(p)
  \/ \E g \in grips : DragIsShown(g) \/ LiftFinger(g) \/ \E p \in PriceLevel : MoveFinger(g, p)
  \/ \E copy \in Alarm : CloneAlert(copy)
  \/ ToggleAlert \/ DeleteFromMenu \/ DeleteKey \/ DeleteButton
  \/ PressElsewhere \/ EscapeKey

DragSpec == DragInit /\ [][DragNext]_alarmVars

(* Once AlertLines has caught up, the native lines are those of the alerts  *)
(* that are on, and a line no finger has moved since it was drawn is where  *)
(* its alert is, whatever was dragged, cloned, switched off or moved from   *)
(* elsewhere in between (AlertLines.tsx:60-110: the effect runs on a key).  *)
LinesFollowTheStore ==
  drawnKey = LineRenderKey =>
    /\ DOMAIN lines = Lined
    /\ \A id \in Lined : lines[id].at = lines[id].drawn => lines[id].at = alarms[id].price

(* "Freeze chart pan/zoom for the duration of the drag ... The prior        *)
(* autoScale mode is restored on pointer-up" (AlertOverlay.tsx:383-388).    *)
FrozenOnlyForTheDrag ==
  (\A g \in grips : ~ g.heard) => frozen = [locked |-> FALSE, fit |-> TRUE]
================================================================================
