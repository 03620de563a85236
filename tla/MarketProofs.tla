----------------------------- MODULE MarketProofs ------------------------------
(***************************************************************************)
(* What is proved of the chart and what feeds it: the alert lines of a     *)
(* chart (AlertDrag), its history (ChartHistory), the streams of the MT5   *)
(* provider (MarketFeed), the alerts on drawings (TechnicalAlerts), and    *)
(* its indicators (IndicatorRuntime).                                      *)
(***************************************************************************)
EXTENDS AlertDrag, ChartHistory, MarketFeed, TechnicalAlerts, IndicatorRuntime,
        SequenceTheorems

(***************************************************************************)
(* AlertDrag.  A native line was drawn at the price its key had; a line    *)
(* that is gone before its key is the line of an alert that is gone too.   *)
(***************************************************************************)
AlarmState == [price : PriceLevel, above : BOOLEAN, enabled : BOOLEAN,
               locked : BOOLEAN, fixed : BOOLEAN]
Grip == [finger : Finger, id : Alarm, from : PriceLevel, close : PriceLevel,
         at : PriceLevel, moved : BOOLEAN, fit : BOOLEAN, heard : BOOLEAN]
Line == [drawn : PriceLevel, at : PriceLevel]

DragTypeOK ==
  /\ alarms \in Partially(Alarm, AlarmState)
  /\ lastClose \in PriceLevel
  /\ lines \in Partially(Alarm, Line)
  /\ grips \subseteq Grip
  /\ frozen \in [locked : BOOLEAN, fit : BOOLEAN]

HeardAreThere == \A g \in grips : g.heard => g.id \in DOMAIN alarms

LinesKept ==
  /\ DOMAIN lines \subseteq DOMAIN drawnKey
  /\ \A id \in DOMAIN lines : lines[id].drawn = drawnKey[id][2]
  /\ \A id \in DOMAIN drawnKey \ DOMAIN lines : id \notin DOMAIN alarms

DragInv == DragTypeOK /\ HeardAreThere /\ LinesKept

LEMMA DragStarts == DragInit => DragInv
<1> SUFFICES ASSUME DragInit PROVE DragInv
  OBVIOUS
<1>1. alarms \in Partially(Alarm, AlarmState)
 <2> DEFINE First == {[price |-> 1, above |-> FALSE, enabled |-> TRUE, locked |-> l, fixed |-> f] :
                        l \in BOOLEAN, f \in BOOLEAN}
 <2>a. First \subseteq AlarmState
  <3> SUFFICES ASSUME NEW a \in First PROVE a \in AlarmState
    OBVIOUS
  <3>1. PICK l \in BOOLEAN, f \in BOOLEAN :
          a = [price |-> 1, above |-> FALSE, enabled |-> TRUE, locked |-> l, fixed |-> f]
    OBVIOUS
  <3> HIDE DEF First
  <3> QED BY <3>1, DragAssumption DEF AlarmState
 <2>b. alarms \in {[id \in ids |-> a] : ids \in (SUBSET Alarm) \ {{}}, a \in First}
   BY DEF DragInit
 <2> HIDE DEF First
 <2>1. PICK ids \in (SUBSET Alarm) \ {{}}, a \in First : alarms = [id \in ids |-> a]
   BY <2>b
 <2>2. a \in AlarmState
   BY <2>a
 <2>3. alarms \in [ids -> AlarmState]
   BY <2>1, <2>2
 <2> QED BY <2>3 DEF Partially
<1>2. lines \in Partially(Alarm, Line) /\ DOMAIN lines = {} /\ DOMAIN drawnKey = {}
  BY NonePartial DEF DragInit
<1> QED BY <1>1, <1>2 DEF DragInit, DragInv, DragTypeOK, HeardAreThere, LinesKept

(* An alert that leaves takes its presses with it.                          *)
LEMMA LeavingKeeps ==
  ASSUME DragInv, NEW id, Gone(id), UNCHANGED <<lastClose, frozen, drawnKey>>,
         lines' = lines \/ lines' = Drop(lines, {id})
  PROVE  DragInv'
<1>1. /\ alarms' \in Partially(Alarm, AlarmState)
      /\ lines' \in Partially(Alarm, Line)
  BY DropPartial DEF DragInv, DragTypeOK, Gone
<1>2. DOMAIN alarms' = DOMAIN alarms \ {id}
  BY DEF Gone, Drop
<1>3. ASSUME NEW h \in grips'
      PROVE  h \in Grip /\ (h.heard => h.id \in DOMAIN alarms')
 <2>1. PICK g \in grips : h = IF g.id = id THEN [g EXCEPT !.heard = FALSE] ELSE g
   BY <1>3 DEF Gone
 <2>2. g \in Grip /\ (g.heard => g.id \in DOMAIN alarms)
   BY DEF DragInv, DragTypeOK, HeardAreThere
 <2>3. CASE g.id = id
   BY <2>1, <2>2, <2>3 DEF Grip
 <2>4. CASE g.id # id
   BY <2>1, <2>2, <2>4, <1>2
 <2> QED BY <2>3, <2>4
<1>4. /\ DOMAIN lines' \subseteq DOMAIN lines
      /\ DOMAIN lines \ {id} \subseteq DOMAIN lines'
      /\ \A x \in DOMAIN lines' : lines'[x] = lines[x]
  BY DEF Drop
<1>5. LinesKept'
  BY <1>2, <1>4 DEF DragInv, LinesKept
<1> QED BY <1>1, <1>3, <1>5 DEF DragInv, DragTypeOK, HeardAreThere

(* One alert that is here changes.                                          *)
LEMMA AlarmChanges ==
  ASSUME DragInv, NEW id \in DOMAIN alarms, NEW a \in AlarmState,
         alarms' = [alarms EXCEPT ![id] = a], grips' \subseteq grips,
         UNCHANGED <<lastClose, lines, drawnKey>>, frozen' \in [locked : BOOLEAN, fit : BOOLEAN]
  PROVE  DragInv'
<1>1. alarms' \in Partially(Alarm, AlarmState) /\ DOMAIN alarms' = DOMAIN alarms
  BY EntryChanged DEF DragInv, DragTypeOK
<1> QED BY <1>1 DEF DragInv, DragTypeOK, HeardAreThere, LinesKept

LEMMA DragKeeps == DragInv /\ [DragNext]_alarmVars => DragInv'
<1> SUFFICES ASSUME DragInv, [DragNext]_alarmVars PROVE DragInv'
  OBVIOUS
<1>1. /\ DOMAIN alarms \subseteq Alarm
      /\ \A id \in DOMAIN alarms : alarms[id] \in AlarmState
      /\ DOMAIN lines \subseteq Alarm
      /\ \A id \in DOMAIN lines : lines[id] \in Line
  BY PartialIs DEF DragInv, DragTypeOK
<1>2. CASE LinesAreDrawn
 <2>1. /\ DOMAIN lines' = Lined
       /\ DOMAIN drawnKey' = Lined
       /\ \A id \in Lined : /\ lines'[id] = [drawn |-> alarms[id].price, at |-> alarms[id].price]
                            /\ drawnKey'[id][2] = alarms[id].price
   BY <1>2 DEF LinesAreDrawn, LineRenderKey
 <2>2. lines' \in Partially(Alarm, Line)
  <3>1. \A id \in Lined : alarms[id].price \in PriceLevel
    BY <1>1 DEF Lined, AlarmState
  <3>2. lines' = [id \in DOMAIN lines' |-> lines'[id]]
    BY <1>2 DEF LinesAreDrawn
  <3>3. \A id \in DOMAIN lines' : lines'[id] \in Line
    BY <2>1, <3>1 DEF Line
  <3>4. DOMAIN lines' \subseteq Alarm
    BY <1>1, <2>1 DEF Lined
  <3> QED BY <3>2, <3>3, <3>4, PartialIs
 <2>3. LinesKept'
   BY <2>1 DEF LinesKept
 <2> QED BY <1>2, <2>2, <2>3 DEF LinesAreDrawn, DragInv, DragTypeOK, HeardAreThere
<1>3. ASSUME NEW id \in DOMAIN alarms, AlertLeaves(id) PROVE DragInv'
  BY <1>3, LeavingKeeps DEF AlertLeaves
<1>4. ASSUME NEW id \in DOMAIN alarms, OpenAlertMenu(id) PROVE DragInv'
  BY <1>4 DEF OpenAlertMenu, DragInv, DragTypeOK, HeardAreThere, LinesKept
<1>5. ASSUME NEW id \in DOMAIN alarms, NEW f \in Finger, PressStrip(f, id) PROVE DragInv'
 <2>1. frozen.fit \in BOOLEAN
   BY DEF DragInv, DragTypeOK
 <2>2. /\ alarms[id] \in AlarmState /\ id \in Alarm
       /\ lastClose \in PriceLevel
   BY <1>1 DEF DragInv, DragTypeOK
 <2> DEFINE h == [finger |-> f, id |-> id, from |-> alarms[id].price,
                  close |-> lastClose, at |-> alarms[id].price,
                  moved |-> FALSE, fit |-> frozen.fit, heard |-> TRUE]
 <2>3. h \in Grip /\ h.id = id
   BY <2>1, <2>2 DEF Grip, AlarmState
 <2>4. grips' \subseteq grips \union {h}
  <3>1. CASE Draggable(alarms[id])
   <4>1. grips' = grips \union {h}
     BY <1>5, <3>1 DEF PressStrip
   <4> QED BY <4>1
  <3>2. CASE ~ Draggable(alarms[id])
    BY <1>5, <3>2 DEF PressStrip
  <3> QED BY <3>1, <3>2
 <2>5. frozen' \in [locked : BOOLEAN, fit : BOOLEAN]
  <3>1. Freeze \in [locked : BOOLEAN, fit : BOOLEAN]
    BY DEF Freeze
  <3>2. frozen' = Freeze \/ frozen' = frozen
   <4>1. CASE Draggable(alarms[id])
     BY <1>5, <4>1 DEF PressStrip
   <4>2. CASE ~ Draggable(alarms[id])
     BY <1>5, <4>2 DEF PressStrip
   <4> QED BY <4>1, <4>2
  <3> QED BY <3>1, <3>2 DEF DragInv, DragTypeOK
 <2> HIDE DEF h
 <2> QED BY <1>5, <2>3, <2>4, <2>5 DEF PressStrip, DragInv, DragTypeOK, HeardAreThere, LinesKept
<1>6. ASSUME NEW id \in DOMAIN alarms, NEW p \in PriceLevel, AlertMovesElsewhere(id, p)
      PROVE  DragInv'
 <2>1. [alarms[id] EXCEPT !.price = p] \in AlarmState
   BY <1>1 DEF AlarmState
 <2>2. alarms' = [alarms EXCEPT ![id] = [alarms[id] EXCEPT !.price = p]]
   BY <1>6 DEF AlertMovesElsewhere
 <2> QED BY <1>6, <2>1, <2>2, AlarmChanges DEF AlertMovesElsewhere, DragInv, DragTypeOK
<1>7. ASSUME NEW p \in PriceLevel, CandleCloses(p) PROVE DragInv'
  BY <1>7 DEF CandleCloses, DragInv, DragTypeOK, HeardAreThere, LinesKept
<1>8. ASSUME NEW g \in grips, DragIsShown(g) PROVE DragInv'
  BY <1>8 DEF DragIsShown, DragInv, DragTypeOK, HeardAreThere, LinesKept
<1>9. ASSUME NEW g \in grips, LiftFinger(g) PROVE DragInv'
 <2>1. g \in Grip /\ g.id \in DOMAIN alarms
   BY <1>9 DEF LiftFinger, DragInv, DragTypeOK, HeardAreThere
 <2>2. frozen' \in [locked : BOOLEAN, fit : BOOLEAN]
   BY <1>9, <2>1 DEF LiftFinger, Thaw, Grip
 <2>3. /\ grips' \subseteq grips
       /\ UNCHANGED <<lastClose, lines, drawnKey>>
   BY <1>9 DEF LiftFinger
 <2>4. CASE Committed(g)
  <3> DEFINE a == [alarms[g.id] EXCEPT !.price = g.at,
                                       !.above = ConditionForTargetSide(g.at, g.close)]
  <3>1. ConditionForTargetSide(g.at, g.close) \in BOOLEAN
    BY <2>1 DEF ConditionForTargetSide
  <3>2. a \in AlarmState
    BY <1>1, <2>1, <3>1 DEF AlarmState, Grip
  <3>3. alarms' = [alarms EXCEPT ![g.id] = a]
    BY <1>9, <2>4, <2>1 DEF LiftFinger
  <3> HIDE DEF a
  <3> QED BY <2>1, <2>2, <2>3, <3>2, <3>3, AlarmChanges
 <2>5. CASE ~ Committed(g)
   BY <1>9, <2>2, <2>3, <2>5 DEF LiftFinger, DragInv, DragTypeOK, HeardAreThere, LinesKept
 <2> QED BY <2>4, <2>5
<1>10. ASSUME NEW g \in grips, NEW p \in PriceLevel, MoveFinger(g, p) PROVE DragInv'
 <2> DEFINE far == p - g.from >= Threshold \/ g.from - p >= Threshold
            h == [g EXCEPT !.at = p, !.moved = @ \/ far]
 <2>1. g \in Grip /\ (g.heard => g.id \in DOMAIN alarms)
   BY DEF DragInv, DragTypeOK, HeardAreThere
 <2>2. h \in Grip /\ h.id = g.id /\ h.heard = g.heard
   BY <2>1 DEF Grip
 <2>3. grips' \subseteq grips \union {h}
   BY <1>10 DEF MoveFinger
 <2> HIDE DEF h
 <2>4. grips' \subseteq Grip /\ \A x \in grips' : x.heard => x.id \in DOMAIN alarms
   BY <2>1, <2>2, <2>3 DEF DragInv, DragTypeOK, HeardAreThere
 <2>5. /\ lines' \in Partially(Alarm, Line)
       /\ DOMAIN lines' = DOMAIN lines
       /\ \A x \in DOMAIN lines : lines'[x].drawn = lines[x].drawn
  <3>1. CASE g.id \in DOMAIN lines
   <4> DEFINE l == [lines[g.id] EXCEPT !.at = p]
   <4>1. l \in Line /\ l.drawn = lines[g.id].drawn
     BY <1>1, <3>1 DEF Line
   <4>2. lines' = [lines EXCEPT ![g.id] = l]
     BY <1>10, <3>1 DEF MoveFinger
   <4> HIDE DEF l
   <4> QED BY <3>1, <4>1, <4>2, EntryChanged DEF DragInv, DragTypeOK
  <3>2. CASE g.id \notin DOMAIN lines
    BY <1>10, <3>2 DEF MoveFinger, DragInv, DragTypeOK
  <3> QED BY <3>1, <3>2
 <2> QED BY <1>10, <2>4, <2>5 DEF MoveFinger, DragInv, DragTypeOK, HeardAreThere, LinesKept
<1>11. ASSUME NEW copy \in Alarm, CloneAlert(copy) PROVE DragInv'
 <2>1. alarms[overlay.menu] \in AlarmState
   BY <1>1, <1>11 DEF CloneAlert, Menued
 <2>2. alarms' \in Partially(Alarm, AlarmState)
   BY <1>11, <2>1, PutPartial DEF CloneAlert, DragInv, DragTypeOK
 <2>3. DOMAIN alarms' = DOMAIN alarms \union {copy}
   BY <1>11 DEF CloneAlert, Put
 <2>4. copy \notin DOMAIN drawnKey
   BY <1>11 DEF CloneAlert
 <2> QED BY <1>11, <2>2, <2>3, <2>4 DEF CloneAlert, DragInv, DragTypeOK, HeardAreThere, LinesKept
<1>12. CASE ToggleAlert
 <2> DEFINE id == overlay.menu
            a == [alarms[id] EXCEPT !.enabled = ~ @]
 <2>1. id \in DOMAIN alarms
   BY <1>12 DEF ToggleAlert, Menued
 <2>2. a \in AlarmState
   BY <1>1, <2>1 DEF AlarmState
 <2>3. alarms' = [alarms EXCEPT ![id] = a]
   BY <1>12, <2>1 DEF ToggleAlert
 <2> HIDE DEF a, id
 <2> QED BY <1>12, <2>1, <2>2, <2>3, AlarmChanges DEF ToggleAlert, DragInv, DragTypeOK
<1>13. CASE DeleteFromMenu
  BY <1>13, LeavingKeeps DEF DeleteFromMenu
<1>14. CASE DeleteKey
  BY <1>14, LeavingKeeps DEF DeleteKey
<1>15. CASE DeleteButton
  BY <1>15, LeavingKeeps DEF DeleteButton
<1>16. CASE PressElsewhere \/ EscapeKey
  BY <1>16 DEF PressElsewhere, EscapeKey, DragInv, DragTypeOK, HeardAreThere, LinesKept
<1>17. CASE UNCHANGED alarmVars
  BY <1>17 DEF alarmVars, DragInv, DragTypeOK, HeardAreThere, LinesKept
<1> QED BY <1>2, <1>3, <1>4, <1>5, <1>6, <1>7, <1>8, <1>9, <1>10, <1>11, <1>12,
           <1>13, <1>14, <1>15, <1>16, <1>17 DEF DragNext

(* Once the effect of AlertLines has caught up with the store, the native   *)
(* lines of the chart are those of the alerts that are on, each where its   *)
(* alert is unless a finger has moved it (AlertLines.tsx:60-110).           *)
THEOREM LinesFollow == DragSpec => []LinesFollowTheStore
<1>1. DragInv => LinesFollowTheStore
 <2> SUFFICES ASSUME DragInv, drawnKey = LineRenderKey
              PROVE  /\ DOMAIN lines = Lined
                     /\ \A id \in Lined : lines[id].at = lines[id].drawn
                                            => lines[id].at = alarms[id].price
   BY DEF LinesFollowTheStore
 <2>1. DOMAIN drawnKey = Lined /\ \A id \in Lined : drawnKey[id][2] = alarms[id].price
   BY DEF LineRenderKey
 <2>2. Lined \subseteq DOMAIN alarms
   BY DEF Lined
 <2> QED BY <2>1, <2>2 DEF DragInv, LinesKept
<1> QED BY <1>1, DragStarts, DragKeeps, PTL DEF DragSpec

(***************************************************************************)
(* ChartHistory.  The refresh loop runs for MT5 markets only, and only the *)
(* effects of a selection start it: between a selection and its effects no *)
(* answer of it is looked at.  Every market of the store is authoritative. *)
(***************************************************************************)
MarketOrNone == Charted \union {Nothing}
Authoritative == [first : Nat, stale : {FALSE}, gap : BOOLEAN]
Flight == [waits : BOOLEAN, again : BOOLEAN]
LoopState ==
  [flight : {Nothing} \union Flight, retries : Nat, timer : BOOLEAN]
HistState ==
  [active : Charted, enabled : BOOLEAN, rendered : BOOLEAN,
   catalog : (SUBSET Charted) \union {Nothing}, ready : MarketOrNone,
   load : {Nothing} \union [cached : BOOLEAN], loop : {Nothing} \union LoopState,
   full : MarketOrNone, waits : MarketOrNone, seen : MarketOrNone,
   older : {Nothing} \union [market : Charted, first : Nat],
   exhausted : SUBSET (Charted \X Nat), gaps : SUBSET Charted,
   backfill : MarketOrNone, around : MarketOrNone]

LoopIsOfMt5(h) == h.loop # Nothing /\ ~ h.rendered => h.active \in Mt5Charted

\* A hook as it can be, and what the store and the chart hold with it.
GoodHook(h) == h \in HistState /\ LoopIsOfMt5(h)
GoodStore(S) == S \in Partially(Charted, Authoritative)
HistoryInv == GoodHook(hist) /\ GoodStore(histories)

LEMMA LoopingKeeps ==
  ASSUME NEW h, GoodHook(h)
  PROVE  GoodHook(Looping(h))
<1>1. CASE IsReady(h) /\ IsMt5(h.active) /\ h.loop = Nothing
 <2>1. h \in HistState
   BY DEF GoodHook
 <2>2. NewLoop(h) \in LoopState
   BY DEF NewLoop, LoopState, Flight
 <2>3. Looping(h) = [h EXCEPT !.loop = NewLoop(h)]
   BY <1>1 DEF Looping
 <2>4. Looping(h) \in HistState /\ Looping(h).active = h.active
   BY <2>1, <2>2, <2>3 DEF HistState
 <2> QED BY <1>1, <2>4 DEF GoodHook, LoopIsOfMt5, IsMt5
<1>2. CASE ~ (IsReady(h) /\ IsMt5(h.active) /\ h.loop = Nothing)
  BY <1>2 DEF Looping
<1> QED BY <1>1, <1>2

LEMMA SettlingKeeps ==
  ASSUME NEW h, NEW S, NEW show, GoodHook(h), GoodStore(S), Settles(h, S, show)
  PROVE  HistoryInv'
BY LoopingKeeps DEF Settles, HistoryInv

LEMMA WindowIsAuthoritative ==
  /\ Window \in Authoritative
  /\ \A n \in Nat : [Window EXCEPT !.first = n] \in Authoritative
BY ChartedAssumption DEF Window, Authoritative

(* A page that is not stale, merged into a good store, leaves it good.      *)
LEMMA PageKeeps ==
  ASSUME NEW S, GoodStore(S), NEW k \in Charted
  PROVE  GoodStore(WithPage(S, k, FALSE)) /\ WithPage(S, k, FALSE)[k] \in Authoritative
<1> DEFINE w == IF At(S, k) = Nothing THEN [Window EXCEPT !.stale = FALSE]
                ELSE [S[k] EXCEPT !.stale = @ \/ FALSE]
<1>1. w \in Authoritative
 <2>1. [Window EXCEPT !.stale = FALSE] \in Authoritative
   BY ChartedAssumption DEF Window, Authoritative
 <2>2. ASSUME At(S, k) # Nothing
       PROVE  [S[k] EXCEPT !.stale = @ \/ FALSE] \in Authoritative
  <3>1. k \in DOMAIN S
    BY <2>2 DEF At
  <3>2. S[k] \in Authoritative
    BY <3>1, PartialIs DEF GoodStore
  <3> QED BY <3>2 DEF Authoritative
 <2> QED BY <2>1, <2>2
<1>2. WithPage(S, k, FALSE) = Put(S, k, w)
  BY DEF WithPage
<1> HIDE DEF w
<1>3. Put(S, k, w)[k] = w
  BY DEF Put
<1> QED BY <1>1, <1>2, <1>3, PutPartial DEF GoodStore

(* A market of the store changes, or the change finds none.                 *)
LEMMA MarketChanges ==
  ASSUME NEW S, GoodStore(S), NEW k, NEW v, k \in DOMAIN S => v \in Authoritative
  PROVE  GoodStore([S EXCEPT ![k] = v])
<1>1. CASE k \in DOMAIN S
  BY <1>1, EntryChanged DEF GoodStore
<1>2. CASE k \notin DOMAIN S
 <2>1. S = [x \in DOMAIN S |-> S[x]]
   BY PartialIs DEF GoodStore
 <2>2. [S EXCEPT ![k] = v] = S
   BY <1>2, <2>1
 <2> QED BY <2>2
<1> QED BY <1>1, <1>2

LEMMA HistoryStarts == HistoryInit => HistoryInv
<1> SUFFICES ASSUME HistoryInit PROVE HistoryInv
  OBVIOUS
<1>1. PICK k \in Charted :
        hist = [active |-> k, enabled |-> TRUE, rendered |-> TRUE, catalog |-> Nothing, ready |-> Nothing,
                load |-> Nothing, loop |-> Nothing, full |-> Nothing, waits |-> Nothing, seen |-> Nothing,
                older |-> Nothing, exhausted |-> {}, gaps |-> {}, backfill |-> Nothing, around |-> Nothing]
  BY DEF HistoryInit
<1>2. hist \in HistState
 <2> DEFINE catalogs == (SUBSET Charted) \union {Nothing}
            loads == {Nothing} \union [cached : BOOLEAN]
            loops == {Nothing} \union LoopState
            pages == {Nothing} \union [market : Charted, first : Nat]
            cursors == SUBSET (Charted \X Nat)
 <2>2. /\ Nothing \in MarketOrNone /\ Nothing \in catalogs
       /\ Nothing \in loads /\ Nothing \in loops /\ Nothing \in pages
   BY Zenon DEF MarketOrNone
 <2>3. HistState =
         [active : Charted, enabled : BOOLEAN, rendered : BOOLEAN, catalog : catalogs,
          ready : MarketOrNone, load : loads, loop : loops, full : MarketOrNone,
          waits : MarketOrNone, seen : MarketOrNone, older : pages, exhausted : cursors,
          gaps : SUBSET Charted, backfill : MarketOrNone, around : MarketOrNone]
   BY DEF HistState
 <2>1. {} \in cursors /\ {} \in SUBSET Charted
   OBVIOUS
 <2> HIDE DEF catalogs, loads, loops, pages, cursors
 <2> QED BY <1>1, <2>1, <2>2, <2>3
<1>3. GoodHook(hist)
  BY <1>1, <1>2 DEF GoodHook, LoopIsOfMt5
<1> QED BY <1>3, NonePartial DEF HistoryInit, HistoryInv, GoodStore

(* The selection, the catalog and Replay only change what is to be rendered.*)
LEMMA SelectingKeeps ==
  ASSUME HistoryInv,
         \/ \E k \in Charted : SelectChart(k)
         \/ \E known \in SUBSET Charted : CatalogArrives(known)
         \/ SetEnabled
  PROVE  HistoryInv'
<1>1. hist \in HistState
  BY DEF HistoryInv, GoodHook
<1>2. hist' \in HistState /\ hist'.rendered /\ histories' = histories
 <2>1. ASSUME NEW k \in Charted, SelectChart(k)
       PROVE  hist' \in HistState /\ hist'.rendered /\ histories' = histories
   BY <1>1, <2>1 DEF SelectChart, HistState
 <2>2. ASSUME NEW known \in SUBSET Charted, CatalogArrives(known)
       PROVE  hist' \in HistState /\ hist'.rendered /\ histories' = histories
   BY <1>1, <2>2 DEF CatalogArrives, HistState
 <2>3. ASSUME SetEnabled
       PROVE  hist' \in HistState /\ hist'.rendered /\ histories' = histories
   BY <1>1, <2>3 DEF SetEnabled, HistState
 <2> QED BY <2>1, <2>2, <2>3
<1> QED BY <1>2 DEF HistoryInv, GoodHook, LoopIsOfMt5

LEMMA EffectsKeep ==
  ASSUME HistoryInv, RunEffects
  PROVE  HistoryInv'
<1>1. hist \in HistState /\ GoodStore(histories)
  BY DEF HistoryInv, GoodHook
<1>2. /\ CleanedUp \in HistState
      /\ CleanedUp.loop = Nothing
      /\ CleanedUp.active = hist.active
 <2> DEFINE known == hist.catalog # Nothing /\ hist.active \in hist.catalog
            keeps == hist.seen = hist.active /\ known /\ IsMt5(hist.active)
            ready == IF hist.enabled THEN Nothing ELSE hist.ready
            seen == IF hist.enabled THEN hist.active ELSE hist.seen
            full == IF keeps \/ ~ hist.enabled THEN hist.full ELSE Nothing
            waits == IF keeps \/ ~ hist.enabled THEN hist.waits ELSE Nothing
 <2>1. /\ ready \in MarketOrNone /\ seen \in MarketOrNone
       /\ full \in MarketOrNone /\ waits \in MarketOrNone
   BY <1>1 DEF HistState, MarketOrNone
 <2>2. {} \in SUBSET (Charted \X Nat) /\ {} \in SUBSET Charted
   OBVIOUS
 <2>3. CleanedUp = [hist EXCEPT !.rendered = FALSE, !.load = Nothing, !.loop = Nothing,
                                !.older = Nothing, !.backfill = Nothing, !.exhausted = {},
                                !.gaps = {}, !.ready = ready, !.seen = seen, !.full = full,
                                !.waits = waits]
   BY DEF CleanedUp
 <2> HIDE DEF ready, seen, full, waits
 <2>4. Nothing \in MarketOrNone
   BY DEF MarketOrNone
 <2> QED BY <1>1, <2>1, <2>2, <2>3, <2>4 DEF HistState
<1>3. hist.active \in MarketOrNone
  BY <1>1 DEF HistState, MarketOrNone
<1>4. CASE EffectsOff \/ EffectsWait
  BY <1>1, <1>2, <1>4 DEF EffectsOff, EffectsWait, HistoryInv, GoodHook, LoopIsOfMt5
<1>5. CASE EffectsUnknown
 <2>1. GoodHook([CleanedUp EXCEPT !.ready = hist.active])
   BY <1>2, <1>3 DEF GoodHook, HistState, LoopIsOfMt5
 <2> QED BY <1>1, <1>5, <2>1, SettlingKeeps DEF EffectsUnknown
<1>6. CASE EffectsCached
 <2> DEFINE load == IF IsMt5(hist.active) THEN Nothing ELSE [cached |-> TRUE]
 <2>1. load \in {Nothing} \union [cached : BOOLEAN]
   OBVIOUS
 <2> HIDE DEF load
 <2>2. GoodHook([CleanedUp EXCEPT !.ready = hist.active, !.load = load])
   BY <1>2, <1>3, <2>1 DEF GoodHook, HistState, LoopIsOfMt5
 <2>3. Settles([CleanedUp EXCEPT !.ready = hist.active, !.load = load], histories,
               [market |-> hist.active, series |-> histories[hist.active], loading |-> FALSE])
   BY <1>6 DEF EffectsCached, load
 <2> QED BY <1>1, <2>2, <2>3, SettlingKeeps
<1>7. CASE EffectsLoad
 <2>1. GoodHook([CleanedUp EXCEPT !.load = [cached |-> FALSE]])
   BY <1>2 DEF GoodHook, HistState, LoopIsOfMt5
 <2> QED BY <1>1, <1>7, <2>1 DEF EffectsLoad, HistoryInv
<1>8. EffectsOff \/ EffectsWait \/ EffectsUnknown \/ EffectsCached \/ EffectsLoad
  BY DEF RunEffects
<1> QED BY <1>4, <1>5, <1>6, <1>7, <1>8

(* What is not authoritative is not merged from the answer to a first load. *)
LEMMA LoadKeeps ==
  ASSUME HistoryInv, NEW page, LoadAnswers(page)
  PROVE  HistoryInv'
<1> DEFINE k == hist.seen
           done == [hist EXCEPT !.load = Nothing]
           full == IF CanPublish(k, page) THEN Nothing ELSE k
           waits == IF page = "pending" THEN k ELSE Nothing
           noted == IF IsMt5(k) THEN [done EXCEPT !.full = full, !.waits = waits] ELSE done
           S == WithPage(histories, k, page \in {"stale", "pending"})
<1>1. hist \in HistState /\ LoopIsOfMt5(hist) /\ GoodStore(histories)
  BY DEF HistoryInv, GoodHook
<1>2. k \in MarketOrNone
  BY <1>1 DEF HistState
<1>3. done \in HistState /\ LoopIsOfMt5(done)
  BY <1>1 DEF HistState, LoopIsOfMt5
<1>4. noted \in HistState /\ LoopIsOfMt5(noted)
 <2>1. full \in MarketOrNone /\ waits \in MarketOrNone
   BY <1>2 DEF MarketOrNone
 <2> HIDE DEF full, waits, done, k
 <2>2. /\ [done EXCEPT !.full = full, !.waits = waits] \in HistState
       /\ LoopIsOfMt5([done EXCEPT !.full = full, !.waits = waits])
   BY <1>3, <2>1 DEF HistState, LoopIsOfMt5
 <2> QED BY <1>3, <2>2
<1>5. /\ [done EXCEPT !.ready = k] \in HistState /\ LoopIsOfMt5([done EXCEPT !.ready = k])
      /\ [noted EXCEPT !.ready = k] \in HistState /\ LoopIsOfMt5([noted EXCEPT !.ready = k])
 <2> HIDE DEF done, noted, k
 <2> QED BY <1>2, <1>3, <1>4 DEF HistState, LoopIsOfMt5
<1>6. IsMt5(k) \/ page \in {"fresh", "fails"}
  BY DEF LoadAnswers
<1>7. CASE ~ StillSelected(k)
 <2>1. hist' = done /\ histories' = histories
   BY <1>7 DEF LoadAnswers
 <2> QED BY <1>1, <1>3, <2>1 DEF HistoryInv, GoodHook
<1>8. CASE StillSelected(k) /\ page = "fails"
 <2>1. CASE IsMt5(k)
  <3>1. Settles([done EXCEPT !.ready = k], histories,
                [market |-> k, series |-> Nothing, loading |-> FALSE])
    BY <1>8, <2>1 DEF LoadAnswers
  <3> QED BY <1>1, <1>5, <3>1, SettlingKeeps DEF GoodHook
 <2>2. CASE ~ IsMt5(k)
  <3>1. hist' = done /\ histories' = histories
    BY <1>8, <2>2 DEF LoadAnswers
  <3> QED BY <1>1, <1>3, <3>1 DEF HistoryInv, GoodHook
 <2> QED BY <2>1, <2>2
<1>9. CASE StillSelected(k) /\ page # "fails" /\ ~ CanPublish(k, page)
 <2>1. Settles([noted EXCEPT !.ready = k], histories, [shown EXCEPT !.loading = TRUE])
   BY <1>9 DEF LoadAnswers
 <2> QED BY <1>1, <1>5, <2>1, SettlingKeeps DEF GoodHook
<1>10. CASE StillSelected(k) /\ page # "fails" /\ CanPublish(k, page)
 <2>1. page \notin {"stale", "pending"}
   BY <1>6, <1>10 DEF CanPublish
 <2>2. k \in Charted
   BY <1>1, <1>10 DEF StillSelected, HistState
 <2>3. S = WithPage(histories, k, FALSE)
  <3>1. (page \in {"stale", "pending"}) = FALSE
    BY <2>1
  <3> QED BY <3>1
 <2>4. GoodStore(S)
   BY <1>1, <2>2, <2>3, PageKeeps
 <2>5. Settles([noted EXCEPT !.ready = k], S, [market |-> k, series |-> S[k], loading |-> FALSE])
   BY <1>10 DEF LoadAnswers
 <2> HIDE DEF S
 <2> QED BY <1>5, <2>4, <2>5, SettlingKeeps DEF GoodHook
<1> QED BY <1>7, <1>8, <1>9, <1>10

\* A hook with a refresh loop that may run.
Spinning(h) ==
  h \in HistState /\ h.loop \in LoopState /\ (~ h.rendered => h.active \in Mt5Charted)

LEMMA SpinningIsGood ==
  ASSUME NEW h
  PROVE  /\ GoodHook(h) /\ h.loop # Nothing => Spinning(h)
         /\ Spinning(h) => GoodHook(h)
BY DEF GoodHook, Spinning, HistState, LoopIsOfMt5

LEMMA LoopChanges ==
  ASSUME NEW h, Spinning(h), NEW l \in LoopState
  PROVE  /\ Spinning([h EXCEPT !.loop = l])
         /\ [h EXCEPT !.loop = l].loop = l
         /\ [h EXCEPT !.loop = l].active = h.active
BY DEF Spinning, HistState

\* What becomes of the loop when an answer lands, is retried or succeeds.
LEMMA LoopMoves ==
  ASSUME NEW h, Spinning(h)
  PROVE  /\ Spinning(Landed(h)) /\ Landed(h).active = h.active
         /\ Spinning(Retried(h))
         /\ Spinning(Succeeded(h))
<1>1. h \in HistState /\ h.loop \in LoopState
  BY DEF Spinning
<1>2. Spinning(Landed(h)) /\ Landed(h).active = h.active
 <2> DEFINE l == [h.loop EXCEPT !.flight = Nothing]
 <2>1. l \in LoopState
   BY <1>1 DEF LoopState
 <2>2. Landed(h) = [h EXCEPT !.loop = l]
   BY <1>1 DEF Landed, HistState
 <2> HIDE DEF l
 <2> QED BY <2>1, <2>2, LoopChanges
<1>3. Spinning(Retried(h))
 <2>1. CASE h.loop.retries < MaxRefreshRetries /\ ~ h.loop.timer
  <3> DEFINE n == h.loop.retries + 1
             l == [h.loop EXCEPT !.retries = n, !.timer = TRUE]
  <3>1. n \in Nat
    BY <1>1 DEF LoopState
  <3>2. Retried(h) = [h EXCEPT !.loop = l]
    BY <1>1, <2>1 DEF Retried, HistState
  <3> HIDE DEF n
  <3>3. l \in LoopState
    BY <1>1, <3>1 DEF LoopState
  <3> HIDE DEF l
  <3> QED BY <3>2, <3>3, LoopChanges
 <2>2. CASE ~ (h.loop.retries < MaxRefreshRetries /\ ~ h.loop.timer)
   BY <2>2 DEF Retried
 <2> QED BY <2>1, <2>2
<1>4. Spinning(Succeeded(h))
 <2> DEFINE l == [h.loop EXCEPT !.retries = 0, !.timer = FALSE]
            g == [h EXCEPT !.loop = l]
 <2>1. l \in LoopState
   BY <1>1 DEF LoopState
 <2>2. Succeeded(h) = [g EXCEPT !.full = Nothing]
   BY <1>1 DEF Succeeded, HistState
 <2> HIDE DEF l
 <2>3. Spinning(g)
   BY <2>1, LoopChanges
 <2> HIDE DEF g
 <2> QED BY <2>2, <2>3 DEF Spinning, HistState, MarketOrNone
<1> QED BY <1>2, <1>3, <1>4

LEMMA TicksKeep ==
  ASSUME HistoryInv, RefreshTick \/ RetryFires
  PROVE  HistoryInv'
<1>1. /\ Spinning(hist) /\ hist \in HistState /\ hist.loop \in LoopState
      /\ GoodStore(histories) /\ histories' = histories
  BY SpinningIsGood DEF HistoryInv, Spinning, RefreshTick, RetryFires, CanFly, Loop
<1>2. Flies \in {Nothing} \union Flight
  BY DEF Flies, Flight
<1>3. CASE RefreshTick
 <2> DEFINE l == [hist.loop EXCEPT !.flight = Flies, !.retries = 0]
 <2>1. l \in LoopState
   BY <1>1, <1>2 DEF LoopState
 <2>2. hist' = [hist EXCEPT !.loop = l]
   BY <1>1, <1>3 DEF RefreshTick, HistState
 <2> HIDE DEF l
 <2> QED BY <1>1, <2>1, <2>2, LoopChanges, SpinningIsGood DEF HistoryInv
<1>4. CASE RetryFires
 <2> DEFINE flight == IF CanFly THEN Flies ELSE hist.loop.flight
            l == [hist.loop EXCEPT !.timer = FALSE, !.flight = flight]
 <2>1. flight \in {Nothing} \union Flight
   BY <1>1, <1>2 DEF LoopState
 <2>2. hist' = [hist EXCEPT !.loop = l]
   BY <1>1, <1>4 DEF RetryFires, HistState
 <2> HIDE DEF flight
 <2>3. l \in LoopState
   BY <1>1, <2>1 DEF LoopState
 <2> HIDE DEF l
 <2> QED BY <1>1, <2>2, <2>3, LoopChanges, SpinningIsGood DEF HistoryInv
<1> QED BY <1>3, <1>4

(* The refresh of an MT5 chart replaces a window by a fresh one, merges a   *)
(* fresh page, or leaves the store alone: a stale window cannot be          *)
(* published for an MT5 market, and no other market has a loop.             *)
LEMMA RefreshKeeps ==
  ASSUME HistoryInv, NEW page, RefreshAnswers(page)
  PROVE  HistoryInv'
<1> DEFINE k == hist.active
           h == Landed(hist)
           escalated == [h EXCEPT !.waits = Nothing, !.full = k]
           replaced == [h EXCEPT !.waits = Nothing, !.full = Nothing, !.loop.retries = 0]
           again == [hist EXCEPT !.loop.flight.again = TRUE]
<1>1. /\ Spinning(hist) /\ hist \in HistState /\ hist.loop \in LoopState
      /\ GoodStore(histories) /\ hist.loop.flight \in Flight
      /\ k \in Charted /\ k \in Mt5Charted
 <2>1. hist.loop # Nothing /\ ~ hist.rendered /\ hist.loop.flight # Nothing
   BY DEF RefreshAnswers, Loop
 <2>2. Spinning(hist) /\ GoodStore(histories)
   BY <2>1, SpinningIsGood DEF HistoryInv
 <2> QED BY <2>1, <2>2 DEF Spinning, HistState, LoopState
<1>2. Spinning(h) /\ Spinning(Retried(h)) /\ Spinning(Succeeded(h))
  BY <1>1, LoopMoves
<1>3. h \in HistState /\ h.loop \in LoopState /\ k \in MarketOrNone /\ Nothing \in MarketOrNone
  BY <1>1, <1>2 DEF Spinning, MarketOrNone
<1>4. Spinning(Retried(escalated))
 <2>1. Spinning(escalated)
  <3> HIDE DEF h, k
  <3> QED BY <1>2, <1>3 DEF Spinning, HistState
 <2> QED BY <2>1, LoopMoves
<1>5. Spinning(replaced)
 <2> DEFINE l == [h.loop EXCEPT !.retries = 0]
            g == [h EXCEPT !.loop = l]
 <2> HIDE DEF h
 <2>1. l \in LoopState
   BY <1>3 DEF LoopState
 <2>2. replaced = [g EXCEPT !.waits = Nothing, !.full = Nothing]
   BY <1>3 DEF HistState
 <2> HIDE DEF l
 <2>3. Spinning(g)
   BY <1>2, <2>1, LoopChanges
 <2> HIDE DEF g
 <2> QED BY <1>3, <2>2, <2>3 DEF Spinning, HistState
<1>6. Spinning(again)
 <2> DEFINE f == [hist.loop.flight EXCEPT !.again = TRUE]
            l == [hist.loop EXCEPT !.flight = f]
 <2>1. f \in Flight
   BY <1>1 DEF Flight
 <2>2. again = [hist EXCEPT !.loop = l]
   BY <1>1 DEF HistState, LoopState
 <2> HIDE DEF f
 <2>3. l \in LoopState
   BY <1>1, <2>1 DEF LoopState
 <2> HIDE DEF l
 <2> QED BY <1>1, <2>2, <2>3, LoopChanges
<1>7. Spinning([h EXCEPT !.loop.timer = TRUE])
 <2> DEFINE l == [h.loop EXCEPT !.timer = TRUE]
 <2> HIDE DEF h
 <2>1. l \in LoopState
   BY <1>3 DEF LoopState
 <2>2. [h EXCEPT !.loop.timer = TRUE] = [h EXCEPT !.loop = l]
   BY <1>3 DEF HistState
 <2> HIDE DEF l
 <2> QED BY <1>2, <2>1, <2>2, LoopChanges
<1>8. GoodStore(Put(histories, k, Window))
  BY <1>1, PutPartial, WindowIsAuthoritative DEF GoodStore
<1>9. GoodStore(WithPage(histories, k, FALSE))
  BY <1>1, PageKeeps
<1>10. page = "stale" => ~ CanPublish(k, page)
  BY <1>1 DEF CanPublish, IsMt5
<1>11. \/ Settles([h EXCEPT !.loop.timer = TRUE], histories, shown)
       \/ Settles(Retried(h), histories, shown)
       \/ Settles(Retried(escalated), histories, shown)
       \/ Settles(replaced, Put(histories, k, Window), shown)
       \/ Settles(Succeeded(h), WithPage(histories, k, FALSE), shown)
       \/ Settles(again, histories, shown)
 <2>1. CASE page = "pending"
   BY <2>1 DEF RefreshAnswers
 <2>2. CASE page = "fails"
   BY <2>2 DEF RefreshAnswers
 <2>3. CASE page = "stale"
   BY <1>10, <2>3 DEF RefreshAnswers
 <2>4. CASE page = "fresh"
  <3>1. CanPublish(k, page)
    BY <2>4 DEF CanPublish
  <3>2. CASE Loop.flight.waits
    BY <2>4, <3>1, <3>2 DEF RefreshAnswers
  <3>3. CASE ~ Loop.flight.waits
    BY <2>4, <3>3 DEF RefreshAnswers
  <3> QED BY <3>2, <3>3
 <2>5. CASE page = "apart"
   BY <2>5 DEF RefreshAnswers
 <2>6. page \in {"fresh", "pending", "stale", "fails", "apart"}
   BY DEF RefreshAnswers, RefreshPages
 <2> QED BY <2>1, <2>2, <2>3, <2>4, <2>5, <2>6
<1> QED BY <1>1, <1>2, <1>4, <1>5, <1>6, <1>7, <1>8, <1>9, <1>11, SettlingKeeps, SpinningIsGood

LEMMA ReplacementKeeps ==
  ASSUME HistoryInv, NEW ok, ReplacementAnswers(ok)
  PROVE  HistoryInv'
<1> DEFINE k == hist.active
           h == Landed(hist)
           w == [Window EXCEPT !.first = AtMost(@, histories[k].first)]
<1>1. Spinning(hist) /\ GoodStore(histories)
  BY SpinningIsGood DEF ReplacementAnswers, HistoryInv, Loop
<1>2. Spinning(Retried(h)) /\ Spinning(Succeeded(h))
  BY <1>1, LoopMoves
<1>3. ASSUME k \in DOMAIN histories PROVE w \in Authoritative
 <2>1. histories[k] \in Authoritative
   BY <1>1, <1>3, PartialIs DEF GoodStore
 <2>2. AtMost(Window.first, histories[k].first) \in Nat
   BY <2>1, ChartedAssumption DEF AtMost, Window, Authoritative
 <2>3. w = [Window EXCEPT !.first = AtMost(Window.first, histories[k].first)]
   BY DEF Window
 <2> QED BY <2>2, <2>3, WindowIsAuthoritative
<1> HIDE DEF w
<1>4. GoodStore([histories EXCEPT ![k] = w])
  BY <1>1, <1>3, MarketChanges
<1>5. \/ Settles(Succeeded(h), [histories EXCEPT ![k] = w], shown)
      \/ Settles(Retried(h), histories, shown)
  BY DEF ReplacementAnswers, w
<1> QED BY <1>1, <1>2, <1>4, <1>5, SettlingKeeps, SpinningIsGood

LEMMA LiveKeeps ==
  ASSUME HistoryInv, NEW gap \in BOOLEAN, LiveCandle(gap)
  PROVE  HistoryInv'
<1> DEFINE k == hist.active
           v == [histories[k] EXCEPT !.gap = @ \/ gap]
           S == [histories EXCEPT ![k] = v]
           asks == S[k].gap /\ k \notin hist.gaps
           backfill == IF asks THEN k ELSE Nothing
           gaps == IF asks THEN hist.gaps \union {k} ELSE hist.gaps
           h == [hist EXCEPT !.backfill = backfill, !.gaps = gaps]
<1>1. hist \in HistState /\ LoopIsOfMt5(hist) /\ GoodStore(histories)
  BY DEF HistoryInv, GoodHook
<1>2. ASSUME k \in DOMAIN histories PROVE v \in Authoritative
 <2>1. histories[k] \in Authoritative
   BY <1>1, <1>2, PartialIs DEF GoodStore
 <2> QED BY <2>1 DEF Authoritative
<1>3. Settles(h, S, shown)
 <2>1. S = [histories EXCEPT ![k].gap = @ \/ gap]
   OBVIOUS
 <2> QED BY <2>1 DEF LiveCandle
<1>4. GoodStore(S)
 <2> HIDE DEF v
 <2> QED BY <1>1, <1>2, MarketChanges
<1>5. backfill \in MarketOrNone /\ gaps \in SUBSET Charted
  BY <1>1 DEF HistState, MarketOrNone
<1> HIDE DEF backfill, gaps, S
<1>6. GoodHook(h)
  BY <1>1, <1>5 DEF GoodHook, HistState, LoopIsOfMt5
<1> HIDE DEF h
<1> QED BY <1>3, <1>4, <1>6, SettlingKeeps

LEMMA GapKeeps ==
  ASSUME HistoryInv, NEW ok, GapAnswers(ok)
  PROVE  HistoryInv'
<1> DEFINE k == hist.backfill
           h == [hist EXCEPT !.backfill = Nothing]
           v == [histories[k] EXCEPT !.gap = FALSE]
           S == [histories EXCEPT ![k] = v]
<1>1. hist \in HistState /\ LoopIsOfMt5(hist) /\ GoodStore(histories)
  BY DEF HistoryInv, GoodHook
<1>2. GoodHook(h)
  BY <1>1 DEF GoodHook, HistState, LoopIsOfMt5, MarketOrNone
<1>3. ASSUME k \in DOMAIN histories PROVE v \in Authoritative
 <2>1. histories[k] \in Authoritative
   BY <1>1, <1>3, PartialIs DEF GoodStore
 <2> QED BY <2>1 DEF Authoritative
<1>4. Settles(h, S, shown) \/ Settles(h, histories, shown)
 <2>1. S = [histories EXCEPT ![k].gap = FALSE]
   OBVIOUS
 <2> QED BY <2>1 DEF GapAnswers
<1> HIDE DEF v, h
<1>5. GoodStore(S)
  BY <1>1, <1>3, MarketChanges
<1> QED BY <1>1, <1>2, <1>4, <1>5, SettlingKeeps

LEMMA OneBack == \A n \in Nat : (IF n = 0 THEN 0 ELSE n - 1) \in Nat
OBVIOUS

(* What is not an answer about MT5's last bars: an older page is merged into*)
(* what is there, and a window around a date too.                           *)
LEMMA OlderKeeps ==
  ASSUME HistoryInv,
         LoadOlder \/ \E page \in {"older", "empty", "kept out", "fails"}, more \in BOOLEAN :
                        OlderAnswers(page, more)
  PROVE  HistoryInv'
<1>1. hist \in HistState /\ LoopIsOfMt5(hist) /\ GoodStore(histories)
  BY DEF HistoryInv, GoodHook
<1>2. CASE LoadOlder
 <2> DEFINE asked == [market |-> hist.active, first |-> histories[hist.active].first]
 <2>1. hist.active \in DOMAIN histories
   BY <1>2 DEF LoadOlder, At
 <2>2. histories[hist.active] \in Authoritative
   BY <1>1, <2>1, PartialIs DEF GoodStore
 <2>3. asked \in [market : Charted, first : Nat]
   BY <1>1, <2>2 DEF HistState, Authoritative
 <2> HIDE DEF asked
 <2>4. hist' = [hist EXCEPT !.older = asked] /\ histories' = histories
   BY <1>2 DEF LoadOlder, asked
 <2> QED BY <1>1, <2>3, <2>4 DEF HistoryInv, GoodHook, HistState, LoopIsOfMt5
<1>3. ASSUME NEW page \in {"older", "empty", "kept out", "fails"}, NEW more \in BOOLEAN,
             OlderAnswers(page, more)
      PROVE  HistoryInv'
 <2> DEFINE k == hist.older.market
            from == hist.older.first
            h == [hist EXCEPT !.older = Nothing]
            reaches == IF from = 0 THEN 0 ELSE from - 1
            was == IF k \in DOMAIN histories THEN histories[k] ELSE Window
            w == [was EXCEPT !.first = AtMost(@, reaches)]
            S == Put(histories, k, w)
 <2>1. k \in Charted /\ from \in Nat
  <3>1. hist.older \in [market : Charted, first : Nat]
    BY <1>1, <1>3 DEF OlderAnswers, HistState
  <3> QED BY <3>1
 <2>2. GoodHook(h) /\ h \in HistState
   BY <1>1 DEF GoodHook, HistState, LoopIsOfMt5
 <2> HIDE DEF h
 <2>3. ASSUME NEW first \in Nat PROVE GoodHook(Exhausts(h, k, first))
  <3> DEFINE all == h.exhausted \union {<<k, first>>}
  <3>1. all \in SUBSET (Charted \X Nat)
   <4>1. <<k, first>> \in Charted \X Nat
     BY <2>1, <2>3
   <4>2. h.exhausted \in SUBSET (Charted \X Nat)
     BY <2>2 DEF HistState
   <4> QED BY <4>1, <4>2
  <3>2. Exhausts(h, k, first) = [h EXCEPT !.exhausted = all]
    BY <2>2 DEF Exhausts, HistState
  <3> HIDE DEF all, k
  <3> QED BY <2>2, <3>1, <3>2 DEF GoodHook, HistState, LoopIsOfMt5
 <2>4. was \in Authoritative
  <3>1. k \in DOMAIN histories => histories[k] \in Authoritative
    BY <1>1, PartialIs DEF GoodStore
  <3> QED BY <3>1, WindowIsAuthoritative
 <2>5. reaches \in Nat
   BY <2>1, OneBack
 <2> HIDE DEF was, reaches
 <2>6. w \in Authoritative
   BY <2>4, <2>5 DEF Authoritative, AtMost
 <2> HIDE DEF w
 <2>7. GoodStore(S) /\ S[k] = w
   BY <1>1, <2>1, <2>6, PutPartial DEF GoodStore, Put
 <2>8. S[k].first \in Nat
   BY <2>6, <2>7 DEF Authoritative
 <2> HIDE DEF S
 <2> DEFINE g == IF more THEN h ELSE Exhausts(h, k, from)
            f == IF more THEN h ELSE Exhausts(h, k, S[k].first)
 <2>9. GoodHook(g) /\ GoodHook(f)
  <3> HIDE DEF k, from
  <3> QED BY <2>1, <2>2, <2>3, <2>8
 <2>10. \/ Settles(h, histories, shown)
        \/ Settles(g, histories, shown)
        \/ Settles(f, S, shown)
  <3>1. CASE page = "fails"
    BY <1>3, <3>1 DEF OlderAnswers, h
  <3>2. CASE page \in {"empty", "kept out"}
    BY <1>3, <3>2 DEF OlderAnswers, h
  <3>3. CASE page = "older"
    BY <1>3, <3>3 DEF OlderAnswers, h, S, w, was, reaches
  <3> QED BY <3>1, <3>2, <3>3
 <2> HIDE DEF g, f
 <2> QED BY <1>1, <2>2, <2>7, <2>9, <2>10, SettlingKeeps
<1> QED BY <1>2, <1>3

LEMMA AroundKeeps ==
  ASSUME HistoryInv, LoadAround \/ \E ok \in BOOLEAN : AroundAnswers(ok)
  PROVE  HistoryInv'
<1>1. hist \in HistState /\ LoopIsOfMt5(hist) /\ GoodStore(histories)
  BY DEF HistoryInv, GoodHook
<1>2. CASE LoadAround
  BY <1>1, <1>2 DEF LoadAround, HistoryInv, GoodHook, HistState, LoopIsOfMt5, MarketOrNone
<1>3. ASSUME NEW ok \in BOOLEAN, AroundAnswers(ok) PROVE HistoryInv'
 <2> DEFINE k == hist.around
            h == [hist EXCEPT !.around = Nothing]
            w == [WithPage(histories, k, FALSE)[k] EXCEPT !.first = 0, !.gap = TRUE]
            S == Put(histories, k, w)
 <2>1. k \in Charted
   BY <1>1, <1>3 DEF AroundAnswers, HistState, MarketOrNone
 <2>2. GoodHook(h)
   BY <1>1 DEF GoodHook, HistState, LoopIsOfMt5, MarketOrNone
 <2>3. w \in Authoritative
  <3>1. WithPage(histories, k, FALSE)[k] \in Authoritative
    BY <1>1, <2>1, PageKeeps
  <3> QED BY <3>1 DEF Authoritative
 <2> HIDE DEF h, w
 <2>4. GoodStore(S)
   BY <1>1, <2>1, <2>3, PutPartial DEF GoodStore
 <2>5. Settles(h, S, shown) \/ Settles(h, histories, shown)
   BY <1>3 DEF AroundAnswers, h, w
 <2> HIDE DEF S
 <2> QED BY <1>1, <2>2, <2>4, <2>5, SettlingKeeps
<1> QED BY <1>2, <1>3

LEMMA HistoryKeeps == HistoryInv /\ [HistoryNext]_historyVars => HistoryInv'
<1> SUFFICES ASSUME HistoryInv, [HistoryNext]_historyVars PROVE HistoryInv'
  OBVIOUS
<1>1. CASE UNCHANGED historyVars
  BY <1>1 DEF historyVars, HistoryInv, GoodHook, GoodStore, LoopIsOfMt5
<1>2. CASE HistoryNext
  BY <1>2, SelectingKeeps, EffectsKeep, LoadKeeps, TicksKeep, RefreshKeeps, ReplacementKeeps,
     LiveKeeps, GapKeeps, OlderKeeps, AroundKeeps DEF HistoryNext
<1> QED BY <1>1, <1>2

(* No window of the store is stale or unverified: what MT5 answers with a   *)
(* warning is never published, by the first load (useMarketData, the load   *)
(* effect) or by the refresh, whatever was selected in the meantime.        *)
THEOREM OnlyAuthoritative == HistorySpec => []OnlyAuthoritativeWindows
<1>1. HistoryInv => OnlyAuthoritativeWindows
 <2> SUFFICES ASSUME HistoryInv, NEW k \in DOMAIN histories PROVE ~ histories[k].stale
   BY DEF OnlyAuthoritativeWindows
 <2>1. histories[k] \in Authoritative
   BY PartialIs DEF HistoryInv, GoodStore
 <2> QED BY <2>1 DEF Authoritative
<1> QED BY <1>1, HistoryStarts, HistoryKeeps, PTL DEF HistorySpec

(***************************************************************************)
(* MarketFeed.  With MT5 the service's subscriptions and the provider's    *)
(* registry are the same keys, and but for those that were missed those of *)
(* the store's references.  A socket that is open streams the symbols of   *)
(* the registry: what is registered while it is not open is asked for when *)
(* it opens.                                                               *)
(***************************************************************************)
Socket ==
  {s \in [state : {"connecting", "open", "closing", "closed"},
          serving : SUBSET {All(x) : x \in Quoted}] :
     s.state = "connecting" => s.serving = {}}

\* What the proofs need of the record: the fields that are looked at.
IsFeed(f) ==
  /\ "kind" \in DOMAIN f /\ "refs" \in DOMAIN f /\ "subs" \in DOMAIN f
  /\ "wanted" \in DOMAIN f /\ "ws" \in DOMAIN f /\ "manual" \in DOMAIN f
  /\ "missed" \in DOMAIN f
SameRole(f, g) ==
  /\ IsFeed(g) /\ g.kind = f.kind /\ g.refs = f.refs /\ g.subs = f.subs
  /\ g.missed = f.missed
SameStreams(f, g) == SameRole(f, g) /\ g.wanted = f.wanted /\ g.ws = f.ws

Carried(entries) == {All(k.symbol) : k \in entries}
Streams(f, S) ==
  /\ S \in Seq(Socket)
  /\ f.ws \in {Nothing} \union DOMAIN S
  /\ f.wanted \subseteq FeedKey
  /\ f.ws # Nothing => (S[f.ws].state = "open" => S[f.ws].serving = Carried(f.wanted))
Referenced(f) ==
  /\ f.refs \in Partially(FeedKey, Nat \ {0})
  /\ f.wanted = f.subs
  /\ \A k \in FeedKey \ f.missed : k \in f.subs <=> k \in DOMAIN f.refs

FeedInv == IsFeed(feed) /\ feed.kind \in FeedKind /\ (feed.kind = "mt5" => Streams(feed, sockets) /\ Referenced(feed))

LEMMA StatusKeeps ==
  ASSUME NEW f, NEW status, IsFeed(f)
  PROVE  SameStreams(f, WithStatus(f, status))
BY DEF IsFeed, SameRole, SameStreams, WithStatus

LEMMA RescheduledKeeps ==
  ASSUME NEW f, IsFeed(f)
  PROVE  SameStreams(f, Rescheduled(f))
<1> DEFINE retried == IF f.kind = "mt5" /\ f.timer THEN f.retried ELSE TRUE
           g == [f EXCEPT !.timer = TRUE, !.retried = retried]
<1>1. SameStreams(f, g)
 <2> HIDE DEF retried
 <2> QED BY DEF IsFeed, SameRole, SameStreams
<1>2. Rescheduled(f) = f \/ Rescheduled(f) = WithStatus(g, "reconnecting")
  BY DEF Rescheduled
<1> HIDE DEF g
<1>3. SameStreams(g, WithStatus(g, "reconnecting"))
  BY <1>1, StatusKeeps DEF SameStreams, SameRole
<1> QED BY <1>1, <1>2, <1>3 DEF SameStreams, SameRole

LEMMA ConnectingKeeps ==
  ASSUME NEW f, IsFeed(f)
  PROVE  SameStreams(f, Connecting(f))
<1> DEFINE g == [f EXCEPT !.manual = FALSE]
<1>1. SameStreams(f, g)
  BY DEF IsFeed, SameRole, SameStreams
<1>2. PICK status : Connecting(f) = WithStatus(g, status)
  BY DEF Connecting
<1> HIDE DEF g
<1>3. SameStreams(g, WithStatus(g, status))
  BY <1>1, StatusKeeps DEF SameStreams, SameRole
<1> QED BY <1>1, <1>2, <1>3 DEF SameStreams, SameRole

LEMMA SentKeeps ==
  ASSUME NEW f, NEW S, NEW adds, NEW removes
  PROVE  ThenSends(Pair(f, S), adds, removes).feed = f
BY DEF ThenSends, Pair

LEMMA ClosingKeeps ==
  ASSUME NEW S \in Seq(Socket), NEW i
  PROVE  /\ Closing(S, i) \in Seq(Socket)
         /\ DOMAIN Closing(S, i) = DOMAIN S
<1>1. CASE i \in DOMAIN S /\ IsLive(S, i)
 <2> DEFINE s == [S[i] EXCEPT !.state = "closing"]
 <2>1. S[i] \in Socket
   BY <1>1
 <2>2. s \in Socket
   BY <2>1 DEF Socket
 <2>3. Closing(S, i) = [S EXCEPT ![i] = s]
   BY <1>1 DEF Closing
 <2> HIDE DEF s
 <2> QED BY <1>1, <2>2, <2>3
<1>2. CASE ~ IsLive(S, i)
  BY <1>2 DEF Closing
<1>3. CASE i \notin DOMAIN S /\ IsLive(S, i)
 <2>1. Closing(S, i) = S
  <3>1. Closing(S, i) = [S EXCEPT ![i].state = "closing"]
    BY <1>3 DEF Closing
  <3>2. S = [x \in DOMAIN S |-> S[x]]
    OBVIOUS
  <3> QED BY <1>3, <3>1, <3>2
 <2> QED BY <2>1
<1> QED BY <1>1, <1>2, <1>3

(* connect() of a provider does not touch what is wanted, and opens a new   *)
(* socket only when there is none.                                          *)
LEMMA ConnectKeeps ==
  ASSUME NEW f, NEW S, IsFeed(f), f.kind \in FeedKind
  PROVE  LET p == Connect(f, S)
         IN  /\ SameRole(f, p.feed) /\ p.feed.wanted = f.wanted
             /\ f.kind = "mt5" /\ Streams(f, S) => Streams(p.feed, p.sockets)
<1>1. SameStreams(f, Connecting(f))
  BY ConnectingKeeps
<1>2. CASE f.kind = "oanda"
 <2> DEFINE g == [Connecting(f) EXCEPT !.verifying = @ + 1]
 <2>1. Connect(f, S) = Pair(f, S) \/ Connect(f, S) = Pair(g, S)
   BY <1>2 DEF Connect
 <2>2. SameStreams(f, g)
   BY <1>1 DEF SameStreams, SameRole, IsFeed
 <2> HIDE DEF g
 <2> QED BY <1>2, <2>1, <2>2 DEF SameStreams, SameRole, Pair
<1>3. CASE f.kind = "mt5" /\ f.wanted = {}
  BY <1>3 DEF Connect, Pair, SameRole
<1>4. CASE f.kind # "oanda" /\ (f.kind = "mt5" => f.wanted # {})
 <2> DEFINE g == [Connecting(f) EXCEPT !.ws = Len(S) + 1]
            T == Append(S, [state |-> "connecting", serving |-> {}])
 <2>1. CASE IsLive(S, f.ws)
   BY <1>4, <2>1 DEF Connect, Pair, SameRole
 <2>2. CASE ~ IsLive(S, f.ws)
  <3>1. Connect(f, S) = Pair(g, T)
    BY <1>4, <2>2 DEF Connect
  <3>2. SameRole(f, g) /\ g.wanted = f.wanted /\ g.ws = Len(S) + 1
    BY <1>1 DEF SameStreams, SameRole, IsFeed
  <3>3. ASSUME Streams(f, S) PROVE Streams(g, T)
   <4>1. [state |-> "connecting", serving |-> {}] \in Socket
     BY DEF Socket
   <4>2. /\ T \in Seq(Socket) /\ DOMAIN T = 1..(Len(S) + 1) /\ Len(S) \in Nat
         /\ T[Len(S) + 1] = [state |-> "connecting", serving |-> {}]
     BY <3>3, <4>1 DEF Streams
   <4>3. Len(S) + 1 \in DOMAIN T
     BY <4>2
   <4> HIDE DEF g, T
   <4> QED BY <3>2, <3>3, <4>2, <4>3 DEF Streams
  <3> HIDE DEF g, T
  <3> QED BY <3>1, <3>2, <3>3 DEF Pair
 <2> QED BY <2>1, <2>2
<1> QED BY <1>2, <1>3, <1>4


(* subscribe() of the provider adds the key to what is wanted.              *)
LEMMA SubscribingKeeps ==
  ASSUME NEW f, NEW S, NEW k \in FeedKey, IsFeed(f), f.kind \in FeedKind
  PROVE  LET p == ProviderSubscribe(f, S, k)
         IN  /\ SameRole(f, p.feed)
             /\ f.kind = "mt5" /\ Streams(f, S) /\ k \notin f.wanted =>
                  Streams(p.feed, p.sockets) /\ p.feed.wanted = f.wanted \union {k}
<1> DEFINE p == ProviderSubscribe(f, S, k)
           added == [f EXCEPT !.wanted = @ \union {Registered(f, k)}]
           a == [added EXCEPT !.manual = FALSE]
<1>1. /\ SameRole(f, added) /\ added.wanted = f.wanted \union {Registered(f, k)}
      /\ added.ws = f.ws
  BY DEF SameRole, IsFeed
<1>2. SameRole(f, a) /\ a.wanted = added.wanted /\ a.ws = f.ws
 <2> HIDE DEF added
 <2> QED BY <1>1 DEF SameRole, IsFeed
<1>3. /\ SameRole(f, Connect(added, S).feed)
      /\ SameRole(f, Connect(a, S).feed) /\ Connect(a, S).feed.wanted = a.wanted
      /\ f.kind = "mt5" /\ Streams(a, S) => Streams(Connect(a, S).feed, Connect(a, S).sockets)
 <2> HIDE DEF added, a
 <2> QED BY <1>1, <1>2, ConnectKeeps DEF SameRole
<1>4. f.kind \in {"mt5", "binance", "twelvedata", "oanda"}
  BY FeedAssumption
<1>5. CASE f.kind = "oanda"
 <2>1. p = Pair(added, S) \/ p = Connect(added, S)
   BY <1>5 DEF ProviderSubscribe
 <2> HIDE DEF added, p
 <2> QED BY <1>1, <1>3, <1>5, <2>1 DEF Pair, p
<1>6. CASE f.kind \in {"binance", "twelvedata"}
 <2>1. \/ p = Pair(f, S) \/ p = Connect(added, S)
       \/ p = ThenSends(Pair(added, S), {Registered(f, k)}, {})
  <3> HIDE DEF added
  <3> QED BY <1>6 DEF ProviderSubscribe, added
 <2>2. SameRole(f, f)
   BY DEF SameRole
 <2> HIDE DEF added, p
 <2> QED BY <1>1, <1>3, <1>6, <2>1, <2>2, SentKeeps DEF Pair, p
<1>7. CASE f.kind = "mt5"
 <2>1. Registered(f, k) = k
   BY <1>7 DEF Registered
 <2>2. CASE k \in f.wanted
  <3>1. p = Pair(f, S)
    BY <1>7, <2>1, <2>2 DEF ProviderSubscribe
  <3> HIDE DEF p
  <3> QED BY <2>2, <3>1 DEF Pair, SameRole, p
 <2>3. CASE k \notin f.wanted /\ StateOf(S, f.ws) # "open"
  <3>1. p = Connect(a, S)
    BY <1>7, <2>1, <2>3 DEF ProviderSubscribe
  <3>2. Streams(f, S) => Streams(a, S)
   <4> HIDE DEF a, added
   <4> QED BY <1>1, <1>2, <2>1, <2>3 DEF Streams, StateOf
  <3> HIDE DEF a, added, p
  <3> QED BY <1>1, <1>2, <1>3, <1>7, <2>1, <3>1, <3>2 DEF p
 <2>4. CASE k \notin f.wanted /\ StateOf(S, f.ws) = "open"
  <3>1. p = ThenSends(Pair(a, S), OnWire(f, {k}), {})
    BY <1>7, <2>1, <2>4 DEF ProviderSubscribe
  <3>2. p.feed = a
    BY <3>1, SentKeeps
  <3>3. ASSUME Streams(f, S) PROVE Streams(a, p.sockets)
   <4>1. f.ws # Nothing /\ f.ws \in DOMAIN S /\ S[f.ws].state = "open"
     BY <2>4, <3>3 DEF StateOf, Streams
   <4> DEFINE s == [S[f.ws] EXCEPT !.serving = (@ \ {}) \union OnWire(f, {k})]
              T == [S EXCEPT ![f.ws] = s]
   <4>2. S[f.ws] \in Socket /\ S[f.ws].serving = Carried(f.wanted)
     BY <3>3, <4>1 DEF Streams
   <4>3. OnWire(f, {k}) = {All(k.symbol)} /\ All(k.symbol) \in {All(x) : x \in Quoted}
     BY <1>7 DEF OnWire, FeedKey
   <4>4. s \in Socket /\ s.state = "open" /\ s.serving = Carried(f.wanted) \union {All(k.symbol)}
     BY <4>1, <4>2, <4>3 DEF Socket
   <4>5. Carried(f.wanted) \union {All(k.symbol)} = Carried(f.wanted \union {k})
     BY DEF Carried
   <4>6. p.sockets = T
    <5>1. StateOf(Pair(a, S).sockets, Pair(a, S).feed.ws) = "open"
     <6> HIDE DEF a
     <6> QED BY <1>2, <2>4 DEF Pair
    <5> HIDE DEF a
    <5> QED BY <1>2, <3>1, <5>1 DEF ThenSends, Pair
   <4> HIDE DEF s
   <4>7. T \in Seq(Socket) /\ DOMAIN T = DOMAIN S /\ T[f.ws] = s
     BY <3>3, <4>1, <4>4 DEF Streams
   <4> HIDE DEF a, added, T
   <4> QED BY <1>1, <1>2, <2>1, <3>3, <4>1, <4>4, <4>5, <4>6, <4>7 DEF Streams
  <3> HIDE DEF a, added, p
  <3> QED BY <1>1, <1>2, <2>1, <3>2, <3>3 DEF p
 <2> QED BY <2>2, <2>3, <2>4
<1> QED BY <1>4, <1>5, <1>6, <1>7

(* unsubscribe() of the provider removes the key; MT5 stops the symbol with *)
(* its last key, and the socket with the last symbol.                       *)
LEMMA UnsubscribingKeeps ==
  ASSUME NEW f, NEW S, NEW k \in FeedKey, IsFeed(f), f.kind \in FeedKind
  PROVE  LET p == ProviderUnsubscribe(f, S, k)
         IN  /\ SameRole(f, p.feed)
             /\ f.kind = "mt5" /\ Streams(f, S) =>
                  Streams(p.feed, p.sockets) /\ p.feed.wanted = f.wanted \ {k}
<1> DEFINE p == ProviderUnsubscribe(f, S, k)
           rest == f.wanted \ Removed(f, k)
<1>1. f.kind \in {"mt5", "binance", "twelvedata", "oanda"}
  BY FeedAssumption
<1>2. CASE f.kind = "oanda"
 <2> DEFINE polling == f.polling /\ rest # {}
            g == [f EXCEPT !.wanted = rest, !.polling = polling]
 <2>1. p.feed = g
   BY <1>2 DEF ProviderUnsubscribe, Pair
 <2> HIDE DEF rest, polling
 <2>2. SameRole(f, g)
   BY DEF SameRole, IsFeed
 <2> HIDE DEF g, p
 <2> QED BY <1>2, <2>1, <2>2 DEF p
<1>3. CASE f.kind \in {"binance", "twelvedata"}
 <2> DEFINE g == [f EXCEPT !.wanted = rest]
 <2>1. p.feed = g
   BY <1>3, SentKeeps DEF ProviderUnsubscribe
 <2> HIDE DEF rest
 <2>2. SameRole(f, g)
   BY DEF SameRole, IsFeed
 <2> HIDE DEF g, p
 <2> QED BY <1>3, <2>1, <2>2 DEF p
<1>4. CASE f.kind = "mt5"
 <2> DEFINE left == [f EXCEPT !.wanted = @ \ {k}]
            stamps == Drop(left.stamps, {k.symbol})
            gone == [left EXCEPT !.stamps = stamps]
            off == [gone EXCEPT !.manual = TRUE, !.ws = Nothing]
 <2>1. /\ SameRole(f, left) /\ left.wanted = f.wanted \ {k} /\ left.ws = f.ws
   BY DEF SameRole, IsFeed
 <2>2. SameRole(f, gone) /\ gone.wanted = f.wanted \ {k} /\ gone.ws = f.ws
  <3> HIDE DEF left, stamps
  <3> QED BY <2>1 DEF SameRole, IsFeed
 <2>3. SameRole(f, off) /\ off.wanted = f.wanted \ {k} /\ off.ws = Nothing
  <3> HIDE DEF gone
  <3> QED BY <2>2 DEF SameRole, IsFeed
 <2>4. CASE k.symbol \notin SymbolsOf(f.wanted)
  <3>1. p = Pair(f, S)
    BY <1>4, <2>4 DEF ProviderUnsubscribe
  <3>2. k \notin f.wanted
    BY <2>4 DEF SymbolsOf
  <3> HIDE DEF p
  <3> QED BY <3>1, <3>2 DEF Pair, SameRole, p
 <2>5. CASE k.symbol \in SymbolsOf(f.wanted) /\ k.symbol \in SymbolsOf(left.wanted)
  <3>1. p = Pair(left, S)
    BY <1>4, <2>5 DEF ProviderUnsubscribe, Mt5Unsubscribe
  <3>2. Carried(f.wanted) = Carried(f.wanted \ {k})
   <4>1. PICK e \in f.wanted \ {k} : e.symbol = k.symbol
     BY <2>1, <2>5 DEF SymbolsOf
   <4> QED BY <4>1 DEF Carried
  <3>3. Streams(f, S) => Streams(left, S)
   <4> HIDE DEF left
   <4> QED BY <2>1, <3>2 DEF Streams
  <3> HIDE DEF left, p
  <3> QED BY <2>1, <3>1, <3>3 DEF Pair, p
 <2>6. CASE /\ k.symbol \in SymbolsOf(f.wanted) /\ k.symbol \notin SymbolsOf(left.wanted)
            /\ left.wanted # {}
  <3>1. p = ThenSends(Pair(gone, S), {}, {All(k.symbol)})
    BY <1>4, <2>6 DEF ProviderUnsubscribe, Mt5Unsubscribe
  <3>2. p.feed = gone
    BY <3>1, SentKeeps
  <3>3. ASSUME Streams(f, S) PROVE Streams(gone, p.sockets)
   <4> HIDE DEF gone, left
   <4>1. CASE StateOf(S, f.ws) = "open"
    <5>1. f.ws # Nothing /\ f.ws \in DOMAIN S /\ S[f.ws].state = "open"
      BY <3>3, <4>1 DEF StateOf, Streams
    <5> DEFINE s == [S[f.ws] EXCEPT !.serving = (@ \ {All(k.symbol)}) \union {}]
               T == [S EXCEPT ![f.ws] = s]
    <5>2. S[f.ws] \in Socket /\ S[f.ws].serving = Carried(f.wanted)
      BY <3>3, <5>1 DEF Streams
    <5>3. s \in Socket /\ s.state = "open" /\ s.serving = Carried(f.wanted) \ {All(k.symbol)}
      BY <5>1, <5>2 DEF Socket
    <5>4. Carried(f.wanted) \ {All(k.symbol)} = Carried(f.wanted \ {k})
     <6>1. \A e \in f.wanted \ {k} : e.symbol # k.symbol
       BY <2>1, <2>6 DEF SymbolsOf
     <6>2. \A e \in f.wanted \ {k} : All(e.symbol) # All(k.symbol)
       BY <6>1 DEF All
     <6> QED BY <6>2 DEF Carried
    <5>5. p.sockets = T
      BY <2>2, <3>1, <4>1 DEF ThenSends, Pair
    <5> HIDE DEF s
    <5>6. T \in Seq(Socket) /\ DOMAIN T = DOMAIN S /\ T[f.ws] = s
      BY <3>3, <5>1, <5>3 DEF Streams
    <5> HIDE DEF T
    <5> QED BY <2>2, <3>3, <5>1, <5>3, <5>4, <5>5, <5>6 DEF Streams
   <4>2. CASE StateOf(S, f.ws) # "open"
    <5>1. p.sockets = S
      BY <2>2, <3>1, <4>2 DEF ThenSends, Pair
    <5> QED BY <2>2, <3>3, <4>2, <5>1 DEF Streams, StateOf
   <4> QED BY <4>1, <4>2
  <3> HIDE DEF gone, left, p
  <3> QED BY <2>2, <3>2, <3>3 DEF p
 <2>7. CASE /\ k.symbol \in SymbolsOf(f.wanted) /\ k.symbol \notin SymbolsOf(left.wanted)
            /\ left.wanted = {}
  <3>1. p = Pair(WithStatus(off, "disconnected"), Closing(S, f.ws))
    BY <1>4, <2>7 DEF ProviderUnsubscribe, Mt5Unsubscribe
  <3> HIDE DEF off, gone, left
  <3>2. SameStreams(off, WithStatus(off, "disconnected"))
    BY <2>3, StatusKeeps DEF SameRole
  <3>3. ASSUME Streams(f, S) PROVE Closing(S, f.ws) \in Seq(Socket)
    BY <3>3, ClosingKeeps DEF Streams
  <3> HIDE DEF p
  <3> QED BY <2>3, <3>1, <3>2, <3>3 DEF Pair, SameStreams, SameRole, Streams, p
 <2> QED BY <2>4, <2>5, <2>6, <2>7
<1> QED BY <1>1, <1>2, <1>3, <1>4

LEMMA FeedStarts == FeedInit => FeedInv
<1> SUFFICES ASSUME FeedInit PROVE FeedInv
  OBVIOUS
<1>1. IsFeed(feed)
  BY DEF FeedInit, IsFeed
<1>2. feed.kind \in FeedKind /\ feed.refs = None /\ feed.subs = {} /\ feed.wanted = {} /\ feed.ws = Nothing
  BY DEF FeedInit
<1>3. None \in Partially(FeedKey, Nat \ {0}) /\ DOMAIN None = {}
  BY NonePartial
<1>4. <<>> \in Seq(Socket) /\ sockets = <<>>
  BY DEF FeedInit
<1> QED BY <1>1, <1>2, <1>3, <1>4 DEF FeedInv, Streams, Referenced

(* Most of what happens to a provider is not about its streams.             *)
LEMMA StreamsUndisturbed ==
  ASSUME FeedInv, SameStreams(feed, feed'), sockets' = sockets
  PROVE  FeedInv'
BY DEF FeedInv, SameStreams, SameRole, Streams, Referenced

LEMMA SubscribeKeeps ==
  ASSUME FeedInv, NEW k \in FeedKey, Subscribe(k)
  PROVE  FeedInv'
<1> DEFINE refs == Put(feed.refs, k, RefsTo(k) + 1)
           missed == IF RefsTo(k) > 0 THEN feed.missed ELSE Noted(k)
           counted == [feed EXCEPT !.refs = refs, !.missed = missed]
           f == [counted EXCEPT !.subs = @ \union {k}]
           p == ProviderSubscribe(f, sockets, k)
<1>1. IsFeed(feed) /\ feed.kind \in FeedKind
  BY DEF FeedInv
<1>2. /\ IsFeed(counted) /\ counted.kind = feed.kind /\ counted.refs = refs
      /\ counted.subs = feed.subs /\ counted.wanted = feed.wanted /\ counted.ws = feed.ws
      /\ counted.missed = missed
 <2> HIDE DEF refs, missed
 <2> QED BY <1>1 DEF IsFeed
<1>3. /\ IsFeed(f) /\ f.kind = feed.kind /\ f.refs = refs
      /\ f.subs = feed.subs \union {k} /\ f.wanted = feed.wanted /\ f.ws = feed.ws
      /\ f.missed = missed
 <2> HIDE DEF counted
 <2> QED BY <1>2 DEF IsFeed
<1>4. ASSUME Referenced(feed)
      PROVE  refs \in Partially(FeedKey, Nat \ {0}) /\ DOMAIN refs = DOMAIN feed.refs \union {k}
 <2>1. RefsTo(k) + 1 \in Nat \ {0}
  <3>1. CASE k \in DOMAIN feed.refs
   <4>1. feed.refs[k] \in Nat \ {0}
     BY <1>4, <3>1, PartialIs DEF Referenced
   <4> QED BY <3>1, <4>1 DEF RefsTo
  <3>2. CASE k \notin DOMAIN feed.refs
    BY <3>2 DEF RefsTo
  <3> QED BY <3>1, <3>2
 <2>2. DOMAIN refs = DOMAIN feed.refs \union {k}
   BY DEF Put
 <2> QED BY <1>4, <2>1, <2>2, PutPartial DEF Referenced
<1>5. /\ RefsTo(k) > 0 => k \in DOMAIN feed.refs /\ missed = feed.missed
      /\ Routes(k) /\ ~ (RefsTo(k) > 0) => missed = feed.missed \ {k}
      /\ ~ Routes(k) /\ ~ (RefsTo(k) > 0) => missed = feed.missed \union {k}
  BY DEF RefsTo, Noted
<1>6. CASE RefsTo(k) > 0 \/ ~ Routes(k) \/ k \in feed.subs
 <2>1. feed' = counted /\ sockets' = sockets
   BY <1>6 DEF Subscribe, Becomes, Pair
 <2>2. ASSUME feed.kind = "mt5", Streams(feed, sockets), Referenced(feed)
       PROVE  Streams(counted, sockets) /\ Referenced(counted)
  <3> HIDE DEF counted, refs, missed
  <3>1. \A e \in FeedKey \ missed : e \in feed.subs <=> e \in DOMAIN refs
    BY <1>4, <1>5, <1>6, <2>2 DEF Referenced
  <3> QED BY <1>2, <1>4, <2>2, <3>1 DEF Streams, Referenced
 <2> HIDE DEF counted
 <2> QED BY <1>1, <1>2, <2>1, <2>2 DEF FeedInv
<1>7. CASE ~ (RefsTo(k) > 0 \/ ~ Routes(k) \/ k \in feed.subs)
 <2>1. feed' = p.feed /\ sockets' = p.sockets
   BY <1>7 DEF Subscribe, Becomes
 <2> HIDE DEF f
 <2>2. /\ SameRole(f, p.feed)
       /\ f.kind = "mt5" /\ Streams(f, sockets) /\ k \notin f.wanted =>
            Streams(p.feed, p.sockets) /\ p.feed.wanted = f.wanted \union {k}
   BY <1>1, <1>3, SubscribingKeeps
 <2>3. ASSUME feed.kind = "mt5", Streams(feed, sockets), Referenced(feed)
       PROVE  Streams(p.feed, p.sockets) /\ Referenced(p.feed)
  <3>1. Streams(f, sockets) /\ k \notin f.wanted
    BY <1>3, <1>7, <2>3 DEF Streams, Referenced
  <3> HIDE DEF p, refs, missed
  <3>2. \A e \in FeedKey \ missed : e \in feed.subs \union {k} <=> e \in DOMAIN refs
    BY <1>4, <1>5, <1>7, <2>3 DEF Referenced
  <3> QED BY <1>3, <1>4, <2>2, <2>3, <3>1, <3>2 DEF Referenced, SameRole
 <2> HIDE DEF p
 <2> QED BY <1>1, <1>3, <2>1, <2>2, <2>3 DEF FeedInv, SameRole
<1> QED BY <1>6, <1>7

LEMMA UnsubscribeKeeps ==
  ASSUME FeedInv, NEW k \in FeedKey, Unsubscribe(k)
  PROVE  FeedInv'
<1> DEFINE subs == feed.subs \ {k}
           last == k.symbol \notin SymbolsOf(subs)
           refs == Drop(feed.refs, {k})
           missed == Noted(k)
           sessions == IF last /\ feed.kind = "mt5" THEN Drop(feed.sessions, {k.symbol}) ELSE feed.sessions
           less == [feed.refs EXCEPT ![k] = @ - 1]
           fewer == [feed EXCEPT !.refs = less]
           forgotten == [feed EXCEPT !.refs = refs, !.missed = missed]
           f == [forgotten EXCEPT !.subs = subs, !.sessions = sessions]
           p == ProviderUnsubscribe(f, sockets, k)
<1>1. IsFeed(feed) /\ feed.kind \in FeedKind /\ k \in DOMAIN feed.refs
  BY DEF FeedInv, Unsubscribe, RefsTo
<1>2. /\ IsFeed(fewer) /\ fewer.kind = feed.kind /\ fewer.refs = less /\ fewer.missed = feed.missed
      /\ fewer.subs = feed.subs /\ fewer.wanted = feed.wanted /\ fewer.ws = feed.ws
 <2> HIDE DEF less
 <2> QED BY <1>1 DEF IsFeed
<1>3. /\ IsFeed(forgotten) /\ forgotten.kind = feed.kind /\ forgotten.refs = refs
      /\ forgotten.missed = missed /\ forgotten.subs = feed.subs
      /\ forgotten.wanted = feed.wanted /\ forgotten.ws = feed.ws
 <2> HIDE DEF refs, missed
 <2> QED BY <1>1 DEF IsFeed
<1>4. /\ IsFeed(f) /\ f.kind = feed.kind /\ f.refs = refs /\ f.missed = missed
      /\ f.subs = subs /\ f.wanted = feed.wanted /\ f.ws = feed.ws
 <2> HIDE DEF forgotten, subs, sessions
 <2> QED BY <1>3 DEF IsFeed
<1>5. ASSUME Referenced(feed)
      PROVE  refs \in Partially(FeedKey, Nat \ {0}) /\ DOMAIN refs = DOMAIN feed.refs \ {k}
  BY <1>5, DropPartial DEF Referenced, Drop
<1>6. /\ Routes(k) => missed = feed.missed \ {k}
      /\ ~ Routes(k) => missed = feed.missed \union {k}
  BY DEF Noted
<1>7. CASE RefsTo(k) > 1
 <2>1. feed' = fewer /\ sockets' = sockets
  <3>1. fewer = [feed EXCEPT !.refs[k] = @ - 1]
    BY <1>1 DEF IsFeed
  <3> HIDE DEF fewer
  <3> QED BY <1>7, <3>1 DEF Unsubscribe, Becomes, Pair
 <2>2. ASSUME feed.kind = "mt5", Streams(feed, sockets), Referenced(feed)
       PROVE  Streams(fewer, sockets) /\ Referenced(fewer)
  <3>1. feed.refs[k] \in Nat /\ feed.refs[k] > 1
    BY <1>1, <1>7, <2>2, PartialIs DEF Referenced, RefsTo
  <3>2. feed.refs[k] - 1 \in Nat \ {0}
    BY <3>1
  <3>3. less \in Partially(FeedKey, Nat \ {0}) /\ DOMAIN less = DOMAIN feed.refs
   <4> DEFINE n == feed.refs[k] - 1
   <4>1. less = [feed.refs EXCEPT ![k] = n]
     OBVIOUS
   <4>2. n \in Nat \ {0}
     BY <3>2
   <4> HIDE DEF n, less
   <4> QED BY <1>1, <2>2, <4>1, <4>2, EntryChanged DEF Referenced
  <3> HIDE DEF less, fewer
  <3> QED BY <1>2, <2>2, <3>3 DEF Streams, Referenced
 <2> HIDE DEF fewer
 <2> QED BY <1>1, <1>2, <2>1, <2>2 DEF FeedInv
<1>8. CASE ~ (RefsTo(k) > 1) /\ ~ Routes(k)
 <2>1. feed' = forgotten /\ sockets' = sockets
   BY <1>8 DEF Unsubscribe, Becomes, Pair
 <2>2. ASSUME feed.kind = "mt5", Streams(feed, sockets), Referenced(feed)
       PROVE  Streams(forgotten, sockets) /\ Referenced(forgotten)
  <3> HIDE DEF forgotten, refs, missed
  <3> QED BY <1>3, <1>5, <1>6, <1>8, <2>2 DEF Streams, Referenced
 <2> HIDE DEF forgotten
 <2> QED BY <1>1, <1>3, <2>1, <2>2 DEF FeedInv
<1>9. CASE ~ (RefsTo(k) > 1) /\ Routes(k)
 <2>1. feed' = p.feed /\ sockets' = p.sockets
   BY <1>9 DEF Unsubscribe, Becomes
 <2> HIDE DEF f
 <2>2. /\ SameRole(f, p.feed)
       /\ f.kind = "mt5" /\ Streams(f, sockets) =>
            Streams(p.feed, p.sockets) /\ p.feed.wanted = f.wanted \ {k}
   BY <1>1, <1>4, UnsubscribingKeeps
 <2>3. ASSUME feed.kind = "mt5", Streams(feed, sockets), Referenced(feed)
       PROVE  Streams(p.feed, p.sockets) /\ Referenced(p.feed)
  <3>1. Streams(f, sockets)
    BY <1>4, <2>3 DEF Streams
  <3> HIDE DEF p, refs, missed
  <3>2. \A e \in FeedKey \ missed : e \in subs <=> e \in DOMAIN refs
    BY <1>5, <1>6, <1>9, <2>3 DEF Referenced
  <3> QED BY <1>4, <1>5, <2>2, <2>3, <3>1, <3>2 DEF Referenced, SameRole
 <2> HIDE DEF p
 <2> QED BY <1>1, <1>4, <2>1, <2>2, <2>3 DEF FeedInv, SameRole
<1> QED BY <1>7, <1>8, <1>9

LEMMA ConnectionsKeep ==
  ASSUME FeedInv, ConnectAll \/ DisconnectAll \/ ReconnectFires \/ Watchdog \/ Online
  PROVE  FeedInv'
<1>1. IsFeed(feed) /\ feed.kind \in FeedKind
  BY DEF FeedInv
<1>2. ASSUME NEW f, SameStreams(feed, f), feed' = Connect(f, sockets).feed,
             sockets' = Connect(f, sockets).sockets
      PROVE  FeedInv'
 <2> DEFINE p == Connect(f, sockets)
 <2>1. /\ SameRole(f, p.feed) /\ p.feed.wanted = f.wanted
       /\ f.kind = "mt5" /\ Streams(f, sockets) => Streams(p.feed, p.sockets)
   BY <1>1, <1>2, ConnectKeeps DEF SameStreams, SameRole
 <2>2. Streams(feed, sockets) => Streams(f, sockets)
   BY <1>2 DEF SameStreams, Streams
 <2> HIDE DEF p
 <2>3. feed' = p.feed /\ sockets' = p.sockets
   BY <1>2 DEF p
 <2> QED BY <1>1, <1>2, <2>1, <2>2, <2>3 DEF FeedInv, SameStreams, SameRole, Referenced
<1>3. CASE ConnectAll
 <2> DEFINE f == [feed EXCEPT !.shown = "connecting"]
 <2>1. SameStreams(feed, f)
   BY <1>1 DEF SameStreams, SameRole, IsFeed
 <2>2. \/ feed' = f /\ sockets' = sockets
       \/ feed' = Connect(f, sockets).feed /\ sockets' = Connect(f, sockets).sockets
   BY <1>3 DEF ConnectAll, Becomes, Pair
 <2> HIDE DEF f
 <2> QED BY <1>2, <2>1, <2>2, StreamsUndisturbed
<1>4. CASE DisconnectAll
 <2> DEFINE g == [feed EXCEPT !.manual = TRUE, !.timer = FALSE, !.retried = FALSE,
                              !.ws = Nothing, !.polling = FALSE]
            h == WithStatus(g, "disconnected")
            e == [h EXCEPT !.shown = "disconnected"]
 <2>1. SameRole(feed, g) /\ g.wanted = feed.wanted /\ g.ws = Nothing
   BY <1>1 DEF SameRole, IsFeed
 <2> HIDE DEF g
 <2>2. SameStreams(g, h)
   BY <2>1, StatusKeeps DEF SameRole
 <2> HIDE DEF h
 <2>3. SameStreams(h, e)
   BY <2>2 DEF SameStreams, SameRole, IsFeed
 <2>4. feed' = e /\ sockets' = Closing(sockets, feed.ws)
   BY <1>4 DEF DisconnectAll, Disconnect, Becomes, Pair, g, h
 <2> HIDE DEF e
 <2>5. sockets \in Seq(Socket) => sockets' \in Seq(Socket)
   BY <2>4, ClosingKeeps
 <2> QED BY <1>1, <2>1, <2>2, <2>3, <2>4, <2>5
         DEF FeedInv, SameStreams, SameRole, Streams, Referenced
<1>5. CASE ReconnectFires
 <2> DEFINE f == [feed EXCEPT !.timer = FALSE]
 <2>1. SameStreams(feed, f)
   BY <1>1 DEF SameStreams, SameRole, IsFeed
 <2> HIDE DEF f
 <2> QED BY <1>2, <1>5, <2>1 DEF ReconnectFires, Becomes, f
<1>6. CASE Watchdog
 <2>1. SameStreams(feed, WithStatus(feed, "reconnecting")) /\ feed.kind # "mt5"
   BY <1>1, <1>6, StatusKeeps DEF Watchdog
 <2>2. feed' = WithStatus(feed, "reconnecting")
   BY <1>6 DEF Watchdog, Becomes, Pair
 <2> QED BY <1>1, <2>1, <2>2 DEF FeedInv, SameStreams, SameRole
<1>7. CASE Online
 <2> DEFINE f == [feed EXCEPT !.timer = FALSE, !.retried = FALSE]
 <2>1. SameStreams(feed, f)
   BY <1>1 DEF SameStreams, SameRole, IsFeed
 <2> HIDE DEF f
 <2> QED BY <1>2, <1>7, <2>1 DEF Online, Becomes, f
<1> QED BY <1>3, <1>4, <1>5, <1>6, <1>7

(* A socket that opens asks for everything that is wanted.                  *)
LEMMA OpeningAsks ==
  ASSUME FeedInv, NEW i \in DOMAIN sockets, SocketOpens(i)
  PROVE  FeedInv'
<1> DEFINE s == [sockets[i] EXCEPT !.state = "open"]
           S == [sockets EXCEPT ![i] = s]
           g == [feed EXCEPT !.retried = FALSE]
           f == WithStatus(g, "connected")
           p == Resubscribed(f, S)
<1>1. IsFeed(feed) /\ feed.kind \in FeedKind
  BY DEF FeedInv
<1>2. SameStreams(feed, g)
  BY <1>1 DEF SameStreams, SameRole, IsFeed
<1> HIDE DEF g
<1>3. SameStreams(feed, f)
 <2>1. SameStreams(g, f)
   BY <1>2, StatusKeeps DEF SameStreams, SameRole
 <2> QED BY <1>2, <2>1 DEF SameStreams, SameRole
<1> HIDE DEF f
<1>4. p.feed = f
  BY SentKeeps DEF Resubscribed
<1>5. \/ Ignores(i) /\ feed' = feed /\ sockets' = S
      \/ ~ Ignores(i) /\ feed' = p.feed /\ sockets' = p.sockets
 <2>1. S = [sockets EXCEPT ![i].state = "open"]
   OBVIOUS
 <2> HIDE DEF S
 <2> QED BY <2>1 DEF SocketOpens, Becomes, Pair, f, g, Resubscribed
<1>6. ASSUME feed.kind = "mt5", Streams(feed, sockets), Referenced(feed)
      PROVE  Streams(feed', sockets') /\ Referenced(feed')
 <2>1. sockets[i] \in Socket /\ sockets[i].serving = {}
   BY <1>6 DEF Streams, Socket, SocketOpens
 <2>2. s \in Socket /\ s.state = "open" /\ s.serving = {}
   BY <2>1 DEF Socket
 <2> HIDE DEF s
 <2>3. /\ S \in Seq(Socket) /\ DOMAIN S = DOMAIN sockets /\ S[i] = s
       /\ \A j \in DOMAIN sockets : j # i => S[j] = sockets[j]
   BY <1>6, <2>2 DEF Streams
 <2>4. CASE Ignores(i)
  <3>1. feed.ws # i /\ feed' = feed /\ sockets' = S
    BY <1>5, <1>6, <2>4 DEF Ignores
  <3> HIDE DEF S
  <3> QED BY <1>6, <2>3, <3>1 DEF Streams, Referenced
 <2>5. CASE ~ Ignores(i)
  <3> DEFINE t == [S[i] EXCEPT !.serving = (@ \ {}) \union OnWire(f, f.wanted)]
             T == [S EXCEPT ![i] = t]
  <3>1. feed.ws = i /\ f.ws = i /\ feed' = f /\ sockets' = p.sockets
    BY <1>3, <1>4, <1>5, <1>6, <2>5 DEF Ignores, SameStreams
  <3>2. OnWire(f, f.wanted) = Carried(feed.wanted)
    BY <1>3, <1>6 DEF OnWire, SameStreams, SameRole, Carried
  <3>3. Carried(feed.wanted) \subseteq {All(x) : x \in Quoted}
    BY <1>6 DEF Carried, Streams, FeedKey
  <3>4. t \in Socket /\ t.state = "open" /\ t.serving = Carried(feed.wanted)
    BY <2>2, <2>3, <3>2, <3>3 DEF Socket
  <3>5. StateOf(S, f.ws) = "open"
   <4>1. i # Nothing
     BY <1>6, NothingIsNoNumber DEF Streams
   <4> QED BY <2>2, <2>3, <3>1, <4>1 DEF StateOf
  <3> HIDE DEF S, t
  <3>6. p.sockets = T
    BY <3>1, <3>5 DEF Resubscribed, ThenSends, Pair, t
  <3>7. T \in Seq(Socket) /\ DOMAIN T = DOMAIN S /\ T[i] = t
    BY <2>3, <3>4
  <3> HIDE DEF T, p
  <3> QED BY <1>3, <1>6, <2>3, <3>1, <3>4, <3>6, <3>7
          DEF Streams, Referenced, SameStreams, SameRole
 <2> QED BY <2>4, <2>5
<1>7. IsFeed(feed') /\ feed'.kind = feed.kind
 <2> HIDE DEF p, S
 <2> QED BY <1>1, <1>3, <1>4, <1>5 DEF SameStreams, SameRole
<1> QED BY <1>1, <1>6, <1>7 DEF FeedInv

LEMMA ClosedKeeps ==
  ASSUME FeedInv, NEW i \in DOMAIN sockets, SocketCloses(i)
  PROVE  FeedInv'
<1> DEFINE s == [sockets[i] EXCEPT !.state = "closed", !.serving = {}]
           S == [sockets EXCEPT ![i] = s]
           ws == IF Ignores(i) THEN feed.ws ELSE Nothing
           f == [feed EXCEPT !.ws = ws]
<1>1. IsFeed(feed) /\ feed.kind \in FeedKind
  BY DEF FeedInv
<1> HIDE DEF ws
<1>2. SameRole(feed, f) /\ f.wanted = feed.wanted /\ f.ws = ws
  BY <1>1 DEF SameRole, IsFeed
<1>3. /\ sockets' = [sockets EXCEPT ![i].state = "closed", ![i].serving = {}]
      /\ feed' = WithStatus(f, "disconnected") \/ feed' = Rescheduled(f)
  BY DEF SocketCloses, Becomes, Pair, ws
<1> HIDE DEF f
<1>4. SameStreams(f, feed')
  BY <1>2, <1>3, StatusKeeps, RescheduledKeeps DEF SameRole
<1>5. ASSUME feed.kind = "mt5", Streams(feed, sockets), Referenced(feed)
      PROVE  Streams(feed', sockets') /\ Referenced(feed')
 <2>1. sockets[i] \in Socket
   BY <1>5 DEF Streams
 <2>2. s \in Socket
   BY <2>1 DEF Socket
 <2>3. sockets' = S
   BY <1>3, <1>5 DEF Streams
 <2> HIDE DEF s
 <2>4. /\ S \in Seq(Socket) /\ DOMAIN S = DOMAIN sockets
       /\ \A j \in DOMAIN sockets : j # i => S[j] = sockets[j]
   BY <1>5, <2>2 DEF Streams
 <2>5. ws # Nothing => ws = feed.ws /\ ws # i
   BY <1>5 DEF ws, Ignores
 <2>6. ws \in {Nothing} \union DOMAIN sockets
   BY <1>5, <2>5 DEF Streams
 <2> HIDE DEF S
 <2> QED BY <1>2, <1>4, <1>5, <2>3, <2>4, <2>5, <2>6 DEF Streams, Referenced, SameStreams, SameRole
<1> QED BY <1>1, <1>2, <1>4, <1>5 DEF FeedInv, SameStreams, SameRole

LEMMA NewsKeeps ==
  ASSUME FeedInv,
         \/ PollStarts \/ \E known \in SUBSET Quoted : CatalogReplaced(known)
         \/ \E i \in DOMAIN sockets :
              \/ SocketErrors(i)
              \/ \E status \in {"connected", "reconnecting", "error"} : StatusArrives(i, status)
              \/ \E x \in Quoted :
                   \/ \E t \in 1..LastStamp : TickArrives(i, x, t)
                   \/ \E s \in Session : SessionArrives(i, x, s)
         \/ \E answer \in {"ok", "refused", "throws"} : VerifyAnswers(answer)
         \/ \E answer \in {"ok", "refused", "throws", "stale"}, t \in 1..LastStamp : PollAnswers(answer, t)
  PROVE  FeedInv'
<1>1. IsFeed(feed)
  BY DEF FeedInv
<1>2. ASSUME NEW f, NEW status, SameStreams(feed, f)
      PROVE  SameStreams(feed, WithStatus(f, status)) /\ SameStreams(feed, Rescheduled(f))
 <2>1. SameStreams(f, WithStatus(f, status)) /\ SameStreams(f, Rescheduled(f))
   BY <1>2, StatusKeeps, RescheduledKeeps DEF SameStreams, SameRole
 <2> QED BY <1>2, <2>1 DEF SameStreams, SameRole
<1>3. SameStreams(feed, feed)
  BY <1>1 DEF SameStreams, SameRole
<1>4. CASE PollStarts
 <2>1. SameStreams(feed, [feed EXCEPT !.fetching = TRUE])
   BY <1>1 DEF SameStreams, SameRole, IsFeed
 <2> QED BY <1>4, <2>1, StreamsUndisturbed DEF PollStarts
<1>10. ASSUME NEW known, CatalogReplaced(known) PROVE FeedInv'
 <2>1. SameStreams(feed, [feed EXCEPT !.catalog = known])
   BY <1>1 DEF SameStreams, SameRole, IsFeed
 <2> QED BY <1>10, <2>1, StreamsUndisturbed DEF CatalogReplaced
<1>5. ASSUME NEW i \in DOMAIN sockets, NEW status,
             SocketErrors(i) \/ StatusArrives(i, status)
      PROVE  FeedInv'
 <2>1. sockets' = sockets /\ \E st : feed' = WithStatus(feed, st)
   BY <1>5 DEF SocketErrors, StatusArrives, Becomes, Pair
 <2> QED BY <1>2, <1>3, <2>1, StreamsUndisturbed
<1>6. ASSUME NEW i \in DOMAIN sockets, NEW x \in Quoted, NEW t \in 1..LastStamp, TickArrives(i, x, t)
      PROVE  FeedInv'
 <2> DEFINE g == [feed EXCEPT !.retried = FALSE]
            alive == WithStatus(g, "connected")
            quoted(f) == [f EXCEPT !.quotes = Put(@, x, t)]
            stamped(f) == [f EXCEPT !.stamps = Put(@, x, t)]
 <2>1. ASSUME NEW f, SameStreams(feed, f)
       PROVE  SameStreams(feed, quoted(f)) /\ SameStreams(feed, stamped(f))
   BY <2>1 DEF SameStreams, SameRole, IsFeed
 <2>2. SameStreams(feed, g)
   BY <1>1 DEF SameStreams, SameRole, IsFeed
 <2> HIDE DEF g
 <2>3. SameStreams(feed, alive)
   BY <1>2, <2>2
 <2>4. sockets' = sockets /\ feed' \in {quoted(feed), stamped(quoted(alive)), alive}
   BY <1>6 DEF TickArrives, g
 <2> HIDE DEF alive, quoted, stamped
 <2> QED BY <1>3, <2>1, <2>3, <2>4, StreamsUndisturbed
<1>7. ASSUME NEW i \in DOMAIN sockets, NEW x \in Quoted, NEW s \in Session, SessionArrives(i, x, s)
      PROVE  FeedInv'
 <2> DEFINE f == [feed EXCEPT !.sessions = Put(@, x, s)]
 <2>1. SameStreams(feed, f)
   BY <1>1 DEF SameStreams, SameRole, IsFeed
 <2> QED BY <1>7, <2>1, StreamsUndisturbed DEF SessionArrives
<1>8. ASSUME NEW answer \in {"ok", "refused", "throws"}, VerifyAnswers(answer)
      PROVE  FeedInv'
 <2> DEFINE f == [feed EXCEPT !.verifying = @ - 1]
            g == [f EXCEPT !.retried = FALSE, !.polling = TRUE]
 <2>1. SameStreams(feed, f)
   BY <1>1 DEF SameStreams, SameRole, IsFeed
 <2>2. sockets' = sockets /\ feed' \in {WithStatus(g, "connected"), f, Rescheduled(f)}
   BY <1>8 DEF VerifyAnswers
 <2> HIDE DEF f
 <2>3. SameStreams(feed, g)
   BY <2>1 DEF SameStreams, SameRole, IsFeed
 <2> HIDE DEF g
 <2> QED BY <1>2, <2>1, <2>2, <2>3, StreamsUndisturbed
<1>9. ASSUME NEW answer \in {"ok", "refused", "throws", "stale"}, NEW t \in 1..LastStamp,
             PollAnswers(answer, t)
      PROVE  FeedInv'
 <2> DEFINE f == [feed EXCEPT !.fetching = FALSE]
            fresh == SymbolsOf(f.wanted)
            quotes == [x \in DOMAIN f.quotes \union fresh |-> IF x \in fresh THEN t ELSE f.quotes[x]]
            g == [f EXCEPT !.quotes = quotes]
            h == [f EXCEPT !.polling = FALSE]
 <2>1. SameStreams(feed, f)
   BY <1>1 DEF SameStreams, SameRole, IsFeed
 <2>2. sockets' = sockets /\ feed' \in {g, WithStatus(f, "error"), f, Rescheduled(h)}
   BY <1>9 DEF PollAnswers
 <2> HIDE DEF f, quotes
 <2>3. SameStreams(feed, g) /\ SameStreams(feed, h)
   BY <2>1 DEF SameStreams, SameRole, IsFeed
 <2> HIDE DEF g, h
 <2> QED BY <1>2, <2>1, <2>2, <2>3, StreamsUndisturbed
<1> QED BY <1>4, <1>5, <1>6, <1>7, <1>8, <1>9, <1>10

LEMMA FeedKeeps == FeedInv /\ [FeedNext]_feedVars => FeedInv'
<1> SUFFICES ASSUME FeedInv, [FeedNext]_feedVars PROVE FeedInv'
  OBVIOUS
<1>1. CASE UNCHANGED feedVars
  BY <1>1 DEF feedVars, FeedInv, IsFeed, Streams, Referenced
<1>2. CASE FeedNext
  BY <1>2, SubscribeKeeps, UnsubscribeKeeps, ConnectionsKeep, OpeningAsks, ClosedKeeps, NewsKeeps
     DEF FeedNext
<1> QED BY <1>1, <1>2

(* The MT5 stream that is open carries exactly the symbols something in the *)
(* browser refers to, whatever was subscribed, left, lost and reopened, but *)
(* for those that were out of the catalog when that was said                *)
(* (MarketDataService, Mt5Provider, SymbolSubscriptionRegistry).            *)
THEOREM StreamsFollow == FeedSpec => []Mt5StreamsFollowReferences
<1>1. FeedInv => Mt5StreamsFollowReferences
 <2> SUFFICES ASSUME FeedInv, feed.kind = "mt5", StateOf(sockets, feed.ws) = "open",
                     NEW x \in Quoted \ SymbolsOf(feed.missed)
              PROVE  All(x) \in sockets[feed.ws].serving <=> x \in SymbolsOf(DOMAIN feed.refs)
   BY DEF Mt5StreamsFollowReferences
 <2>1. sockets[feed.ws].serving = Carried(feed.wanted)
   BY DEF FeedInv, Streams, StateOf
 <2>2. All(x) \in Carried(feed.wanted) <=> \E k \in feed.wanted : k.symbol = x
   BY DEF Carried, All
 <2>3. \A k \in FeedKey : k.symbol = x => k \notin feed.missed
   BY DEF SymbolsOf
 <2>4. \A k \in FeedKey : k.symbol = x => (k \in feed.wanted <=> k \in DOMAIN feed.refs)
   BY <2>3 DEF FeedInv, Referenced
 <2>5. feed.wanted \subseteq FeedKey /\ DOMAIN feed.refs \subseteq FeedKey
   BY PartialIs DEF FeedInv, Streams, Referenced
 <2> QED BY <2>1, <2>2, <2>4, <2>5 DEF SymbolsOf
<1> QED BY <1>1, FeedStarts, FeedKeeps, PTL DEF FeedSpec

(***************************************************************************)
(* TechnicalAlerts.  What a pass leaves behind is enough to go on from: the *)
(* last tick it counted, its price and the cursor stand for all the ticks   *)
(* since the alert was armed.                                               *)
(***************************************************************************)
Tick == [price : TickPrice, at : 1..MaxTicks]
(* The ticks of an alert that its state has seen, and what the state keeps  *)
(* of them.                                                                 *)
Seen(i) == {n \in Ordered : armed[i].since < n /\ n <= progress[i].through}
Remembers(i) ==
  /\ armed[i].since <= progress[i].through
  /\ progress[i].fired = FindTrigger(armed[i].target, Nothing, Seen(i))
  /\ Seen(i) = {} => progress[i].lastAt = 0
  /\ Seen(i) # {} => progress[i].lastAt = tape[Max(Seen(i))].at /\ lastPrice = tape[Max(Seen(i))].price
  /\ progress[i].expired => Seen(i) # {} /\ progress[i].lastAt > armed[i].target.domain[2]
ArmedOK(i) ==
  armed[i].since \in 0..Len(tape) /\ armed[i].revision \in Nat /\ armed[i].target \in Targets
ProgressOK(i) ==
  progress[i] # Nothing =>
    /\ progress[i].revision \in Nat /\ progress[i].revision <= armed[i].revision
    /\ progress[i].through \in 0..Len(tape) /\ progress[i].expired \in BOOLEAN
TechnicalInv ==
  /\ tape \in Seq(Tick)
  /\ DOMAIN armed = Watchers
  /\ \A i \in Watchers : ArmedOK(i) /\ ProgressOK(i) /\ (Same(i) => Remembers(i))

(* Two sets of ticks, every one of the first before every one of the        *)
(* second; what stands for the first when the second is looked through.     *)
Apart(P, R, k) == P \subseteq 1..k /\ R \subseteq 1..k /\ \A p \in P, r \in R : p < r
StandsFor(carried, P) == IF P = {} THEN carried = Nothing ELSE carried = tape[Max(P)]

LEMMA MinIs ==
  ASSUME NEW T, T \subseteq Nat, T # {}
  PROVE  Min(T) \in T /\ \A y \in T : Min(T) <= y
BY Least DEF Min

LEMMA MaxIs ==
  ASSUME NEW T, NEW n \in Nat, T \subseteq 0..n, T # {}
  PROVE  Max(T) \in T /\ \A y \in T : y <= Max(T)
<1>1. \E x \in T : \A y \in T : x >= y
  BY Greatest
<1> QED BY <1>1 DEF Max

(* The greatest of two sets, one above the other, is that of the upper one. *)
LEMMA MaxOfUpper ==
  ASSUME NEW P, NEW R, NEW n \in Nat, P \subseteq 0..n, R \subseteq 0..n, R # {},
         \A p \in P, r \in R : p < r
  PROVE  Max(P \union R) = Max(R)
<1> DEFINE U == P \union R
<1>0. U \subseteq 0..n /\ U # {} /\ 0..n \subseteq Nat
  OBVIOUS
<1>1. Max(U) \in U /\ \A y \in U : y <= Max(U)
 <2> HIDE DEF U
 <2> QED BY <1>0, MaxIs
<1>2. Max(R) \in R /\ \A y \in R : y <= Max(R)
  BY MaxIs
<1>3. Max(U) \in R
 <2>1. PICK r \in R : TRUE
   OBVIOUS
 <2>2. r <= Max(U) /\ r \in Nat /\ Max(U) \in Nat
  <3>1. r \in U
    BY <2>1
  <3> HIDE DEF U
  <3> QED BY <1>0, <1>1, <3>1
 <2>3. ~ (Max(U) < r)
   BY <2>2
 <2> QED BY <1>1, <2>1, <2>3
<1>4. Max(U) <= Max(R) /\ Max(R) <= Max(U)
  BY <1>1, <1>2, <1>3
<1>5. Max(U) \in Nat /\ Max(R) \in Nat
 <2>1. R \subseteq U
   OBVIOUS
 <2> HIDE DEF U
 <2> QED BY <1>0, <1>1, <1>2, <2>1
<1> QED BY <1>4, <1>5

LEMMA MinOfLower ==
  ASSUME NEW P, NEW R, P \subseteq Nat, R \subseteq Nat, P # {}, \A p \in P, r \in R : p < r
  PROVE  Min(P \union R) = Min(P)
<1> DEFINE U == P \union R
<1>0. U \subseteq Nat /\ U # {}
  OBVIOUS
<1>1. Min(U) \in U /\ \A y \in U : Min(U) <= y
 <2> HIDE DEF U
 <2> QED BY <1>0, MinIs
<1>2. Min(P) \in P /\ \A y \in P : Min(P) <= y
  BY MinIs
<1>3. Min(U) \in P
 <2>1. PICK p \in P : TRUE
   OBVIOUS
 <2>2. Min(U) <= p /\ p \in Nat /\ Min(U) \in Nat
   BY <1>0, <1>1, <2>1
 <2>3. ~ (p < Min(U))
   BY <2>2
 <2> QED BY <1>1, <2>1, <2>3
<1>4. Min(U) <= Min(P) /\ Min(P) <= Min(U)
  BY <1>1, <1>2, <1>3
<1>5. Min(U) \in Nat /\ Min(P) \in Nat
  BY <1>0, <1>1, <1>2
<1> QED BY <1>4, <1>5

(* The tick before one is looked for among those after the cursor, or is    *)
(* the last one the state has seen.                                         *)
LEMMA BeforeContinues ==
  ASSUME NEW P, NEW R, NEW k \in Nat, NEW carried, Apart(P, R, k), StandsFor(carried, P)
  PROVE  /\ \A n \in P : Before(P \union R, n, Nothing) = Before(P, n, Nothing)
         /\ \A n \in R : Before(P \union R, n, Nothing) = Before(R, n, carried)
<1>1. ASSUME NEW n \in P
      PROVE  Before(P \union R, n, Nothing) = Before(P, n, Nothing)
 <2>1. {m \in P \union R : m < n} = {m \in P : m < n}
  <3>1. \A m \in R : ~ (m < n)
    BY <1>1 DEF Apart
  <3> QED BY <3>1
 <2> QED BY <2>1 DEF Before
<1>2. ASSUME NEW n \in R
      PROVE  Before(P \union R, n, Nothing) = Before(R, n, carried)
 <2> DEFINE E == {m \in R : m < n}
 <2>1. {m \in P \union R : m < n} = P \union E
   BY <1>2 DEF Apart
 <2>2. CASE E = {}
  <3>1. Before(P \union R, n, Nothing) = IF P = {} THEN Nothing ELSE tape[Max(P)]
    BY <2>1, <2>2, P \union {} = P DEF Before
  <3>2. Before(R, n, carried) = carried
    BY <2>2 DEF Before
  <3> QED BY <3>1, <3>2 DEF StandsFor
 <2>3. CASE E # {}
  <3>1. Max(P \union E) = Max(E)
   <4>1. 1..k \subseteq 0..k
     OBVIOUS
   <4>2. P \subseteq 0..k /\ E \subseteq 0..k
     BY <4>1 DEF Apart
   <4>3. \A p \in P, r \in E : p < r
     BY DEF Apart
   <4> HIDE DEF E
   <4> QED BY <2>3, <4>2, <4>3, MaxOfUpper
  <3>2. Before(P \union R, n, Nothing) = tape[Max(P \union E)]
    BY <2>1, <2>3 DEF Before
  <3>3. Before(R, n, carried) = tape[Max(E)]
    BY <2>3 DEF Before
  <3> QED BY <3>1, <3>2, <3>3
 <2> QED BY <2>2, <2>3
<1> QED BY <1>1, <1>2

(* Looking on where one stopped finds what looking through all would.       *)
LEMMA FindContinues ==
  ASSUME NEW P, NEW R, NEW k \in Nat, NEW carried, NEW g, Apart(P, R, k), StandsFor(carried, P)
  PROVE  FindTrigger(g, Nothing, P \union R)
           = IF FindTrigger(g, Nothing, P) # 0 THEN FindTrigger(g, Nothing, P)
             ELSE FindTrigger(g, carried, R)
<1> DEFINE HitsP == {n \in P : Triggered(g, Before(P, n, Nothing), tape[n])}
           HitsR == {n \in R : Triggered(g, Before(R, n, carried), tape[n])}
           Hits == {n \in P \union R : Triggered(g, Before(P \union R, n, Nothing), tape[n])}
<1>1. Hits = HitsP \union HitsR
 <2>1. /\ \A n \in P : Before(P \union R, n, Nothing) = Before(P, n, Nothing)
       /\ \A n \in R : Before(P \union R, n, Nothing) = Before(R, n, carried)
  <3> HIDE DEF HitsP, HitsR, Hits
  <3> QED BY BeforeContinues
 <2> QED BY <2>1
<1>2. HitsP \subseteq 1..k /\ HitsR \subseteq 1..k /\ \A p \in HitsP, r \in HitsR : p < r
  BY DEF Apart
<1>3. /\ FindTrigger(g, Nothing, P) = IF HitsP = {} THEN 0 ELSE Min(HitsP)
      /\ FindTrigger(g, carried, R) = IF HitsR = {} THEN 0 ELSE Min(HitsR)
      /\ FindTrigger(g, Nothing, P \union R) = IF Hits = {} THEN 0 ELSE Min(Hits)
  BY DEF FindTrigger
<1> HIDE DEF HitsP, HitsR, Hits
<1>4. HitsP # {} => Min(HitsP) # 0
 <2>1. 1..k \subseteq Nat /\ 0 \notin 1..k
   OBVIOUS
 <2>2. HitsP # {} => Min(HitsP) \in HitsP
   BY <1>2, <2>1, MinIs
 <2> QED BY <1>2, <2>1, <2>2
<1>5. HitsP # {} => Min(HitsP \union HitsR) = Min(HitsP)
 <2>1. HitsP \subseteq Nat /\ HitsR \subseteq Nat
   BY <1>2
 <2> QED BY <1>2, <2>1, MinOfLower
<1>6. CASE HitsP = {}
  BY <1>1, <1>3, <1>6, {} \union HitsR = HitsR
<1>7. CASE HitsP # {}
  BY <1>1, <1>3, <1>4, <1>5, <1>7
<1> QED BY <1>6, <1>7

(* What is found, as a function of the ticks received. *)
BeforeIn(ticks, points, n, carried) ==
  LET earlier == {m \in points : m < n} IN IF earlier = {} THEN carried ELSE ticks[Max(earlier)]
FindIn(ticks, g, carried, points) ==
  LET hits == {n \in points : Triggered(g, BeforeIn(ticks, points, n, carried), ticks[n])}
  IN  IF hits = {} THEN 0 ELSE Min(hits)

(* What is found among ticks that do not change does not change.            *)
LEMMA FindUnmoved ==
  ASSUME NEW P, NEW g, NEW carried, NEW s, NEW t, P \subseteq Nat, \A n \in P : t[n] = s[n]
  PROVE  FindIn(t, g, carried, P) = FindIn(s, g, carried, P)
<1>1. ASSUME NEW n \in P
      PROVE  BeforeIn(t, P, n, carried) = BeforeIn(s, P, n, carried)
 <2> DEFINE E == {m \in P : m < n}
 <2>1. CASE E = {}
   BY <2>1 DEF BeforeIn
 <2>2. CASE E # {}
  <3>1. n \in Nat /\ E \subseteq 0..n
   <4>1. n \in Nat /\ \A m \in P : m \in Nat
     BY <1>1
   <4>2. \A m \in E : m \in Nat /\ m < n
     BY <4>1
   <4> HIDE DEF E
   <4> QED BY <4>1, <4>2
  <3>2. Max(E) \in E
   <4> HIDE DEF E
   <4> QED BY <2>2, <3>1, MaxIs
  <3>3. BeforeIn(s, P, n, carried) = s[Max(E)] /\ BeforeIn(t, P, n, carried) = t[Max(E)]
    BY <2>2 DEF BeforeIn
  <3> QED BY <3>2, <3>3
 <2> QED BY <2>1, <2>2
<1> QED BY <1>1 DEF FindIn

(* Ticks and states of an alert are numbered from 1. *)
LEMMA SeenAreTicks ==
  ASSUME NEW i, tape \in Seq(Tick)
  PROVE  /\ Ordered \subseteq 1..Len(tape) /\ Seen(i) \subseteq 1..Len(tape)
         /\ ReplayTicks(i) \subseteq 1..Len(tape) /\ Len(tape) \in Nat
<1>1. Ordered \subseteq 1..Len(tape) /\ Len(tape) \in Nat
  BY DEF Ordered
<1> QED BY <1>1 DEF Seen, ReplayTicks

LEMMA LastIsSeen ==
  ASSUME NEW T, tape \in Seq(Tick), T \subseteq 1..Len(tape), T # {}
  PROVE  /\ Max(T) \in T /\ \A n \in T : n <= Max(T)
         /\ tape[Max(T)] \in Tick
<1>1. Len(tape) \in Nat /\ T \subseteq 0..Len(tape)
  OBVIOUS
<1>2. Max(T) \in T /\ \A n \in T : n <= Max(T)
  BY <1>1, MaxIs
<1>3. \A n \in 1..Len(tape) : tape[n] \in Tick
  OBVIOUS
<1> QED BY <1>2, <1>3

LEMMA TickIs ==
  ASSUME NEW q \in Tick
  PROVE  /\ q = [price |-> q.price, at |-> q.at]
         /\ q.at \in Nat /\ q.at # 0 /\ q.price \in Nat /\ q.price # Nothing
<1>1. q = [price |-> q.price, at |-> q.at] /\ q.price \in TickPrice /\ q.at \in 1..MaxTicks
  BY DEF Tick
<1>2. q.at \in Nat /\ q.at # 0
  BY <1>1, TechnicalConstants
<1>3. q.price \in Nat /\ q.price # Nothing
  BY <1>1, TechnicalConstants, NothingIsNoNumber
<1> QED BY <1>1, <1>2, <1>3

LEMMA TapeIsTicks ==
  ASSUME tape \in Seq(Tick), NEW n \in 1..Len(tape)
  PROVE  tape[n] \in Tick
OBVIOUS

(* Ticks in the order of the market carry times that do not go back. *)
LEMMA OrderedRise ==
  ASSUME tape \in Seq(Tick), NEW m \in Ordered, NEW n \in Ordered, m < n
  PROVE  tape[m].at <= tape[n].at
<1>1. m \in 1..n - 1
  BY DEF Ordered
<1> QED BY <1>1 DEF Ordered

(* Past the end of its domain a target meets no tick. *)
LEMMA NothingPastTheEnd ==
  ASSUME NEW g \in Targets, NEW before, NEW q \in Tick, g.domain[2] < q.at
  PROVE  ~ Triggered(g, before, q)
<1>1. ~ TargetAt(g, q.at).active
 <2>1. g.domain[1] \in Nat /\ g.domain[2] \in Nat /\ q.at \in Nat
   BY TechnicalConstants DEF Tick
 <2> QED BY <2>1 DEF TargetAt
<1> QED BY <1>1 DEF Triggered

LEMMA TechnicalStarts == TechnicalInit => TechnicalInv
<1> SUFFICES ASSUME TechnicalInit PROVE TechnicalInv
  OBVIOUS
<1>1. tape \in Seq(Tick) /\ Len(tape) = 0
  BY DEF TechnicalInit
<1>2. DOMAIN armed = Watchers
  BY DEF TechnicalInit
<1>3. ASSUME NEW i \in Watchers
      PROVE  ArmedOK(i) /\ ProgressOK(i) /\ ~ Same(i)
 <2>1. PICK g \in Targets : armed[i] = [target |-> g, since |-> 0, revision |-> 1]
   BY DEF TechnicalInit
 <2>2. progress[i] = Nothing
   BY DEF TechnicalInit
 <2> QED BY <1>1, <2>1, <2>2 DEF ArmedOK, ProgressOK, Same
<1> QED BY <1>1, <1>2, <1>3 DEF TechnicalInv

(* A tick received changes none before it. *)
LEMMA TapeKeeps ==
  ASSUME NEW p \in TickPrice, NEW t \in 1..MaxTicks, tape \in Seq(Tick), TickReceived(p, t)
  PROVE  /\ tape' \in Seq(Tick) /\ Len(tape') = Len(tape) + 1 /\ Len(tape) \in Nat
         /\ \A n \in 1..Len(tape) : tape'[n] = tape[n]
         /\ \A n \in 1..Len(tape) : n \in Ordered' <=> n \in Ordered
<1>1. tape \in Seq(Tick) /\ [price |-> p, at |-> t] \in Tick
  BY DEF Tick
<1>2. tape' = Append(tape, [price |-> p, at |-> t])
  BY DEF TickReceived
<1>3. /\ tape' \in Seq(Tick) /\ Len(tape') = Len(tape) + 1 /\ Len(tape) \in Nat
      /\ \A n \in 1..Len(tape) : tape'[n] = tape[n]
 <2> HIDE DEF Tick
 <2> QED BY <1>1, <1>2
<1>4. ASSUME NEW n \in 1..Len(tape)
      PROVE  n \in Ordered' <=> n \in Ordered
 <2>1. n \in DOMAIN tape /\ n \in DOMAIN tape'
   BY <1>1, <1>3
 <2>2. \A m \in 1..n - 1 : m \in 1..Len(tape)
   BY <1>3
 <2>3. tape'[n] = tape[n] /\ \A m \in 1..n - 1 : tape'[m] = tape[m]
   BY <1>3, <2>2
 <2> QED BY <2>1, <2>3 DEF Ordered
<1> QED BY <1>3, <1>4

LEMMA TickKeepsTold ==
  ASSUME NEW p \in TickPrice, NEW t \in 1..MaxTicks, TechnicalInv, TickReceived(p, t)
  PROVE  TechnicalInv'
<1>0. /\ tape' \in Seq(Tick) /\ Len(tape') = Len(tape) + 1 /\ Len(tape) \in Nat
      /\ \A n \in 1..Len(tape) : tape'[n] = tape[n]
      /\ \A n \in 1..Len(tape) : n \in Ordered' <=> n \in Ordered
  BY TapeKeeps DEF TechnicalInv
<1>1. armed' = armed /\ progress' = progress /\ lastPrice' = lastPrice
  BY DEF TickReceived
<1>2. ASSUME NEW i \in Watchers
      PROVE  ArmedOK(i)' /\ ProgressOK(i)' /\ (Same(i)' => Remembers(i)')
 <2>1. ArmedOK(i) /\ ProgressOK(i) /\ (Same(i) => Remembers(i))
   BY DEF TechnicalInv
 <2>2. ArmedOK(i)'
   BY <1>0, <1>1, <2>1 DEF ArmedOK
 <2>3. ProgressOK(i)'
   BY <1>0, <1>1, <2>1 DEF ProgressOK
 <2>4. ASSUME Same(i)'
       PROVE  Remembers(i)'
  <3>1. Same(i) /\ Remembers(i) /\ progress[i].through \in 0..Len(tape)
    BY <1>1, <2>1, <2>4 DEF Same, ProgressOK
  <3>2. PICK S : S = Seen(i)
    OBVIOUS
  <3>3. Ordered \subseteq 1..Len(tape) /\ S \subseteq 1..Len(tape)
    BY <3>2, SeenAreTicks DEF TechnicalInv
  <3>4. Seen(i)' = S
   <4>1. ASSUME NEW n
         PROVE  n \in Seen(i)' <=> n \in S
    <5>1. n \in Seen(i)' <=> n \in Ordered' /\ armed[i].since < n /\ n <= progress[i].through
      BY <1>1 DEF Seen
    <5>2. n \in S <=> n \in Ordered /\ armed[i].since < n /\ n <= progress[i].through
      BY <3>2 DEF Seen
    <5>3. ASSUME n \in Ordered', n <= progress[i].through
          PROVE  n \in 1..Len(tape)
     <6>1. n \in 1..Len(tape')
       BY <1>0, <5>3 DEF Ordered
     <6>2. n \in Nat /\ 1 <= n
       BY <6>1
     <6>3. progress[i].through \in Nat /\ progress[i].through <= Len(tape)
       BY <1>0, <3>1
     <6> QED BY <1>0, <5>3, <6>2, <6>3
    <5> QED BY <1>0, <3>3, <5>1, <5>2, <5>3
   <4> QED BY <4>1
  <3>5. S \subseteq Nat /\ \A n \in S : tape'[n] = tape[n]
    BY <1>0, <3>3
  <3>6. FindIn(tape', armed[i].target, Nothing, S) = FindIn(tape, armed[i].target, Nothing, S)
    BY <3>5, FindUnmoved
  <3>7. S # {} => tape'[Max(S)] = tape[Max(S)]
    BY <3>3, <3>5, LastIsSeen DEF TechnicalInv
  <3>8. progress'[i].fired = FindTrigger(armed[i].target, Nothing, Seen(i))'
   <4>1. FindTrigger(armed[i].target, Nothing, Seen(i))' = FindIn(tape', armed'[i].target, Nothing, Seen(i)')
     BY DEF FindTrigger, FindIn, Before, BeforeIn
   <4>2. FindTrigger(armed[i].target, Nothing, Seen(i)) = FindIn(tape, armed[i].target, Nothing, Seen(i))
     BY DEF FindTrigger, FindIn, Before, BeforeIn
   <4>3. progress[i].fired = FindIn(tape, armed[i].target, Nothing, S)
     BY <3>1, <3>2, <4>2 DEF Remembers
   <4>4. FindTrigger(armed[i].target, Nothing, Seen(i))' = FindIn(tape', armed[i].target, Nothing, S)
     BY <1>1, <3>4, <4>1
   <4> QED BY <1>1, <3>6, <4>3, <4>4
  <3> QED BY <1>1, <3>1, <3>2, <3>4, <3>7, <3>8 DEF Remembers
 <2> QED BY <2>2, <2>3, <2>4
<1>3. tape' \in Seq(Tick) /\ DOMAIN armed' = Watchers
  BY <1>0, <1>1 DEF TechnicalInv
<1> QED BY <1>2, <1>3 DEF TechnicalInv

(* An alert edited is of a later revision than any state of it. *)
LEMMA ArmKeepsTold ==
  ASSUME NEW i \in Watchers, NEW g \in Targets, TechnicalInv, Arm(i, g)
  PROVE  TechnicalInv'
<1>1. /\ tape' = tape /\ progress' = progress /\ lastPrice' = lastPrice
      /\ armed' = [armed EXCEPT ![i] = [target |-> g, since |-> Len(tape), revision |-> @.revision + 1]]
  BY DEF Arm
<1>2. DOMAIN armed = Watchers /\ tape \in Seq(Tick) /\ Len(tape) \in Nat
  BY DEF TechnicalInv
<1>3. DOMAIN armed' = Watchers
  BY <1>1, <1>2
<1>4. ASSUME NEW j \in Watchers
      PROVE  ArmedOK(j)' /\ ProgressOK(j)' /\ (Same(j)' => Remembers(j)')
 <2>1. ArmedOK(j) /\ ProgressOK(j) /\ (Same(j) => Remembers(j))
   BY DEF TechnicalInv
 <2>2. CASE j = i
  <3>1. armed'[j] = [target |-> g, since |-> Len(tape), revision |-> armed[j].revision + 1]
    BY <1>1, <1>2, <2>2
  <3>2. ArmedOK(j)'
    BY <1>1, <1>2, <2>1, <3>1 DEF ArmedOK
  <3>3. ProgressOK(j)'
    BY <1>1, <1>2, <2>1, <3>1 DEF ArmedOK, ProgressOK
  <3>4. ~ Same(j)'
    BY <1>1, <2>1, <3>1 DEF ArmedOK, ProgressOK, Same
  <3> QED BY <3>2, <3>3, <3>4
 <2>3. CASE j # i
  <3>1. armed'[j] = armed[j]
    BY <1>1, <1>2, <2>3
  <3>2. ArmedOK(j)' /\ ProgressOK(j)'
    BY <1>1, <2>1, <3>1 DEF ArmedOK, ProgressOK
  <3>3. Same(j)' => Same(j)
    BY <1>1, <3>1 DEF Same
  <3>4. Remembers(j) => Remembers(j)'
    BY <1>1, <3>1 DEF Remembers, Seen, Ordered, FindTrigger, Before
  <3> QED BY <2>1, <3>2, <3>3, <3>4
 <2> QED BY <2>2, <2>3
<1> QED BY <1>1, <1>2, <1>3, <1>4 DEF TechnicalInv

OneAlert == \E w : Watched = <<w>>

(* What a pass starts from: the ticks seen, those to come, and what stands  *)
(* for the first when the others are looked through.                        *)
LEMMA PassGoesOn ==
  ASSUME NEW i \in Watchers, TechnicalInv, Same(i)
  PROVE  /\ Apart(Seen(i), ReplayTicks(i), Len(tape))
         /\ StandsFor(Baseline(i), Seen(i))
         /\ ReplayTicks(i) = {n \in Ordered : progress[i].through < n}
<1>1. /\ tape \in Seq(Tick) /\ ArmedOK(i) /\ ProgressOK(i) /\ Remembers(i) /\ progress[i] # Nothing
  BY DEF TechnicalInv, Same
<1>2. /\ Ordered \subseteq 1..Len(tape) /\ Seen(i) \subseteq 1..Len(tape)
      /\ ReplayTicks(i) \subseteq 1..Len(tape) /\ Len(tape) \in Nat
  BY <1>1, SeenAreTicks
<1>3. progress[i].through \in Nat
  BY <1>1, <1>2 DEF ProgressOK
<1>4. ReplayTicks(i) = {n \in Ordered : progress[i].through < n}
 <2>1. ASSUME NEW n \in Ordered, progress[i].through < n
       PROVE  tape[n].at >= progress[i].lastAt
  <3>1. n \in 1..Len(tape) /\ tape[n] \in Tick /\ tape[n].at \in Nat
    BY <1>1, <1>2, <2>1, TapeIsTicks, TickIs
  <3>2. CASE Seen(i) = {}
    BY <1>1, <3>1, <3>2 DEF Remembers
  <3>3. CASE Seen(i) # {}
   <4> DEFINE m == Max(Seen(i))
   <4>1. m \in Seen(i) /\ tape[m] \in Tick
     BY <1>1, <1>2, <3>3, LastIsSeen
   <4>2. m \in Ordered /\ m < n
    <5>1. m \in Ordered /\ m <= progress[i].through
     <6>1. \A x \in Seen(i) : x \in Ordered /\ x <= progress[i].through
       BY DEF Seen
     <6> HIDE DEF m
     <6> QED BY <4>1, <6>1
    <5> HIDE DEF m
    <5>2. m \in Nat /\ n \in Nat
     <6>1. m \in 1..Len(tape) /\ n \in 1..Len(tape)
       BY <1>2, <3>1, <5>1
     <6> QED BY <1>2, <6>1
    <5> QED BY <1>3, <2>1, <5>1, <5>2
   <4>3. tape[m].at <= tape[n].at
     BY <1>1, <2>1, <4>2, OrderedRise
   <4>4. progress[i].lastAt = tape[m].at /\ tape[m].at \in Nat
     BY <1>1, <3>3, <4>1, TickIs DEF Remembers
   <4> QED BY <3>1, <4>3, <4>4
  <3> QED BY <3>2, <3>3
 <2>2. \A n \in Ordered : n > progress[i].through <=> progress[i].through < n
   BY <1>2, <1>3
 <2> QED BY <2>1, <2>2 DEF ReplayTicks, Since
<1>5. \A p \in Seen(i), r \in ReplayTicks(i) : p < r
  BY <1>2, <1>3, <1>4 DEF Seen
<1>6. StandsFor(Baseline(i), Seen(i))
 <2>1. CASE Seen(i) = {}
   BY <1>1, <2>1 DEF Remembers, Baseline, StandsFor
 <2>2. CASE Seen(i) # {}
  <3> DEFINE last == tape[Max(Seen(i))]
  <3>1. last \in Tick
    BY <1>1, <1>2, <2>2, LastIsSeen
  <3>2. last = [price |-> last.price, at |-> last.at] /\ last.at # 0 /\ last.price # Nothing
    BY <3>1, TickIs
  <3>3. progress[i].lastAt = last.at /\ lastPrice = last.price
    BY <1>1, <2>2 DEF Remembers
  <3>4. Baseline(i) = last
    BY <3>2, <3>3 DEF Baseline
  <3> QED BY <2>2, <3>4 DEF StandsFor
 <2> QED BY <2>1, <2>2
<1> QED BY <1>2, <1>4, <1>5, <1>6 DEF Apart

(* A target past its end says so at a time after its domain. *)
LEMMA ExpiredIsPast ==
  ASSUME NEW g \in Targets, NEW t \in Nat, ~ TargetAt(g, t).active, TargetAt(g, t).reason = "expired"
  PROVE  g.domain[2] < t
<1>1. g.domain[1] \in Nat /\ g.domain[2] \in Nat
  BY TechnicalConstants
<1>2. CASE t < g.domain[1]
  BY <1>2 DEF TargetAt
<1>3. CASE ~ (t < g.domain[1]) /\ t > g.domain[2]
  BY <1>1, <1>3
<1>4. CASE ~ (t < g.domain[1]) /\ ~ (t > g.domain[2])
  BY <1>4 DEF TargetAt
<1> QED BY <1>2, <1>3, <1>4

LEMMA OnlyWatched ==
  ASSUME OneAlert, NEW i \in Watchers
  PROVE  Watched[Len(Watched)] = i
<1>1. PICK w : Watched = <<w>>
  BY DEF OneAlert
<1>2. Len(Watched) = 1 /\ DOMAIN Watched = {1} /\ Watched[1] = w
  BY <1>1
<1> QED BY <1>2 DEF Watchers

(* What a pass writes: the state of the alert, and the price of the symbol. *)
LEMMA PassWrites ==
  ASSUME OneAlert, NEW i \in Watchers, TechnicalInv, WorkerPass
  PROVE  /\ tape' = tape /\ armed' = armed
         /\ progress'[i].revision = armed[i].revision
         /\ progress'[i].through = Len(tape)
         /\ progress'[i].lastAt = LastAt(i)
         /\ progress'[i].fired = (IF NotYetFired(i)
                                  THEN FindTrigger(armed[i].target, Baseline(i), ReplayTicks(i))
                                  ELSE progress[i].fired)
         /\ progress'[i].expired = (Expires(i) \/ (Same(i) /\ progress[i].expired))
         /\ lastPrice' = AcceptedCurrent(i)
         /\ FindTrigger(armed[i].target, Nothing, Seen(i))' = FindTrigger(armed[i].target, Nothing, Seen(i)')
         /\ Seen(i)' = {n \in Ordered : armed[i].since < n}
<1>1. /\ tape' = tape /\ armed' = armed
      /\ progress' = [j \in Watchers |-> Evaluated(j)]
      /\ lastPrice' = AcceptedCurrent(Watched[Len(Watched)])
  BY DEF WorkerPass
<1>2. progress'[i] = Evaluated(i)
  BY <1>1
<1>3. lastPrice' = AcceptedCurrent(i)
  BY <1>1, OnlyWatched
<1>4. /\ progress'[i].revision = armed[i].revision
      /\ progress'[i].through = Len(tape)
      /\ progress'[i].lastAt = LastAt(i)
      /\ progress'[i].fired = (IF NotYetFired(i)
                               THEN FindTrigger(armed[i].target, Baseline(i), ReplayTicks(i))
                               ELSE progress[i].fired)
      /\ progress'[i].expired = (Expires(i) \/ (Same(i) /\ progress[i].expired))
  BY <1>2 DEF Evaluated
<1>5. Ordered' = Ordered
  BY <1>1 DEF Ordered
<1>6. Seen(i)' = {n \in Ordered : armed[i].since < n}
 <2>1. Seen(i)' = {n \in Ordered : armed[i].since < n /\ n <= Len(tape)}
   BY <1>1, <1>4, <1>5 DEF Seen
 <2>2. \A n \in Ordered : n <= Len(tape)
   BY SeenAreTicks DEF TechnicalInv
 <2> QED BY <2>1, <2>2
<1>7. FindTrigger(armed[i].target, Nothing, Seen(i))' = FindTrigger(armed[i].target, Nothing, Seen(i)')
 <2>1. FindTrigger(armed[i].target, Nothing, Seen(i))' = FindIn(tape', armed'[i].target, Nothing, Seen(i)')
   BY DEF FindTrigger, FindIn, Before, BeforeIn
 <2>2. FindTrigger(armed[i].target, Nothing, Seen(i)') = FindIn(tape, armed[i].target, Nothing, Seen(i)')
   BY DEF FindTrigger, FindIn, Before, BeforeIn
 <2> QED BY <1>1, <2>1, <2>2
<1> QED BY <1>1, <1>3, <1>4, <1>6, <1>7

(* Where the last of the ticks told is the last of those of a pass. *)
LEMMA PassEnds ==
  ASSUME OneAlert, NEW i \in Watchers, TechnicalInv, WorkerPass, ReplayTicks(i) # {},
         Max(Seen(i)') = Max(ReplayTicks(i))
  PROVE  /\ progress'[i].lastAt = tape[Max(Seen(i)')].at
         /\ lastPrice' = tape[Max(Seen(i)')].price
BY PassWrites DEF LastAt, AcceptedCurrent

LEMMA PassExpires ==
  ASSUME NEW i \in Watchers, TechnicalInv, Expires(i)
  PROVE  ReplayTicks(i) # {} /\ armed[i].target.domain[2] < LastAt(i)
<1>1. /\ ReplayTicks(i) # {} /\ ~ TargetAt(armed[i].target, LastAt(i)).active
      /\ TargetAt(armed[i].target, LastAt(i)).reason = "expired"
  BY DEF Expires
<1>2. armed[i].target \in Targets
  BY DEF TechnicalInv, ArmedOK
<1>3. LastAt(i) \in Nat
 <2>1. tape[Max(ReplayTicks(i))] \in Tick
   BY <1>1, SeenAreTicks, LastIsSeen DEF TechnicalInv
 <2> QED BY <1>1, <2>1, TickIs DEF LastAt
<1> QED BY <1>1, <1>2, <1>3, ExpiredIsPast

LEMMA FirstPassTells ==
  ASSUME OneAlert, NEW i \in Watchers, TechnicalInv, WorkerPass, ~ Same(i)
  PROVE  Remembers(i)'
<1>1. Seen(i)' = ReplayTicks(i)
 <2>1. ReplayTicks(i) \subseteq Nat /\ Ordered \subseteq Nat /\ armed[i].since \in Nat
   BY SeenAreTicks DEF TechnicalInv, ArmedOK
 <2>2. ReplayTicks(i) = {n \in Ordered : n > armed[i].since}
   BY DEF ReplayTicks, Since
 <2>3. \A n \in Ordered : n > armed[i].since <=> armed[i].since < n
   BY <2>1
 <2> QED BY <2>2, <2>3, PassWrites
<1>2. progress'[i].fired = FindTrigger(armed[i].target, Nothing, ReplayTicks(i))
  BY PassWrites DEF NotYetFired, Baseline
<1>3. ReplayTicks(i) = {} => progress'[i].lastAt = 0
  BY PassWrites DEF LastAt
<1>4. ReplayTicks(i) # {} =>
         progress'[i].lastAt = tape[Max(Seen(i)')].at /\ lastPrice' = tape[Max(Seen(i)')].price
  BY <1>1, PassEnds
<1>5. progress'[i].expired => ReplayTicks(i) # {} /\ progress'[i].lastAt > armed[i].target.domain[2]
 <2>1. ASSUME progress'[i].expired
       PROVE  ReplayTicks(i) # {} /\ armed[i].target.domain[2] < progress'[i].lastAt
  <3>1. Expires(i)
    BY <2>1, PassWrites
  <3> QED BY <3>1, PassExpires, PassWrites
 <2> QED BY <2>1
<1>6. armed'[i].since <= progress'[i].through
  BY PassWrites DEF TechnicalInv, ArmedOK
<1>7. progress'[i].fired = FindTrigger(armed[i].target, Nothing, Seen(i))'
  BY <1>1, <1>2, PassWrites
<1>8. tape' = tape /\ armed' = armed
  BY PassWrites
<1> QED BY <1>1, <1>3, <1>4, <1>5, <1>6, <1>7, <1>8 DEF Remembers

(* A state that expired has no tick to come that would fire. *)
LEMMA NothingAfterExpiry ==
  ASSUME NEW i \in Watchers, TechnicalInv, Same(i), progress[i].expired, NEW before
  PROVE  FindTrigger(armed[i].target, before, ReplayTicks(i)) = 0
<1> DEFINE g == armed[i].target
<1>1. /\ tape \in Seq(Tick) /\ Remembers(i) /\ g \in Targets
  BY DEF TechnicalInv, ArmedOK
<1>2. Seen(i) # {} /\ progress[i].lastAt > g.domain[2] /\ progress[i].lastAt \in Nat
 <2>1. Seen(i) # {} /\ progress[i].lastAt > g.domain[2] /\ progress[i].lastAt = tape[Max(Seen(i))].at
   BY <1>1 DEF Remembers
 <2>2. tape[Max(Seen(i))] \in Tick
   BY <1>1, <2>1, SeenAreTicks, LastIsSeen
 <2> QED BY <2>1, <2>2, TickIs
<1>3. ASSUME NEW n \in ReplayTicks(i)
      PROVE  \A b : ~ Triggered(g, b, tape[n])
 <2>1. tape[n] \in Tick /\ tape[n].at \in Nat
   BY <1>1, <1>3, SeenAreTicks, TapeIsTicks, TickIs
 <2>2. tape[n].at >= progress[i].lastAt
   BY <1>3 DEF ReplayTicks
 <2>3. g.domain[2] < tape[n].at
  <3>1. g.domain[2] \in Nat
    BY <1>1, TechnicalConstants
  <3> HIDE DEF g
  <3> QED BY <1>2, <2>1, <2>2, <3>1
 <2> HIDE DEF g
 <2> QED BY <1>1, <2>1, <2>3, NothingPastTheEnd
<1> QED BY <1>3 DEF FindTrigger

LEMMA LaterPassTells ==
  ASSUME OneAlert, NEW i \in Watchers, TechnicalInv, WorkerPass, Same(i)
  PROVE  Remembers(i)'
<1> DEFINE P == Seen(i)
           R == ReplayTicks(i)
           g == armed[i].target
<1>1. /\ tape \in Seq(Tick) /\ Remembers(i) /\ ArmedOK(i) /\ ProgressOK(i) /\ progress[i] # Nothing
  BY DEF TechnicalInv, Same
<1>2. Len(tape) \in Nat /\ Ordered \subseteq 1..Len(tape) /\ P \subseteq 1..Len(tape) /\ R \subseteq 1..Len(tape)
  BY <1>1, SeenAreTicks
<1>3. Apart(P, R, Len(tape)) /\ StandsFor(Baseline(i), P) /\ R = {n \in Ordered : progress[i].through < n}
  BY PassGoesOn
<1>4. Seen(i)' = P \union R
 <2>1. ASSUME NEW n \in Ordered
       PROVE  armed[i].since < n <=> n \in P \union R
  <3>1. n \in Nat /\ armed[i].since \in Nat /\ progress[i].through \in Nat /\ armed[i].since <= progress[i].through
    BY <1>1, <1>2 DEF ArmedOK, ProgressOK, Remembers
  <3>2. n \in R <=> progress[i].through < n
    BY <1>3
  <3>3. n \in P <=> armed[i].since < n /\ n <= progress[i].through
    BY DEF Seen
  <3> HIDE DEF P, R
  <3> QED BY <3>1, <3>2, <3>3
 <2>2. P \subseteq Ordered /\ R \subseteq Ordered
   BY DEF Seen, ReplayTicks
 <2>3. Seen(i)' = {n \in Ordered : armed[i].since < n}
   BY PassWrites
 <2> HIDE DEF P, R
 <2> QED BY <2>1, <2>2, <2>3
<1>5. FindTrigger(g, Nothing, P \union R)
        = IF FindTrigger(g, Nothing, P) # 0 THEN FindTrigger(g, Nothing, P)
          ELSE FindTrigger(g, Baseline(i), R)
 <2>1. Len(tape) \in Nat /\ Apart(P, R, Len(tape)) /\ StandsFor(Baseline(i), P)
   BY <1>2, <1>3
 <2> DEFINE k == Len(tape)
            carried == Baseline(i)
 <2>2. k \in Nat /\ Apart(P, R, k) /\ StandsFor(carried, P)
   BY <2>1
 <2>3. FindTrigger(g, Nothing, P \union R)
         = IF FindTrigger(g, Nothing, P) # 0 THEN FindTrigger(g, Nothing, P)
           ELSE FindTrigger(g, carried, R)
  <3> HIDE DEF P, R, g, k, carried
  <3> QED BY <2>2, FindContinues
 <2> QED BY <2>3
<1>6. progress'[i].fired = FindTrigger(g, Nothing, P \union R)
 <2>1. progress[i].fired = FindTrigger(g, Nothing, P)
   BY <1>1 DEF Remembers
 <2>2. progress'[i].fired = IF NotYetFired(i) THEN FindTrigger(g, Baseline(i), R) ELSE progress[i].fired
   BY PassWrites
 <2>3. NotYetFired(i) <=> progress[i].fired = 0 /\ ~ progress[i].expired
   BY DEF NotYetFired
 <2>4. progress[i].expired => FindTrigger(g, Baseline(i), R) = 0
   BY NothingAfterExpiry
 <2> HIDE DEF P, R, g
 <2> QED BY <1>5, <2>1, <2>2, <2>3, <2>4
<1>7. CASE R = {}
 <2>1. Seen(i)' = P
   BY <1>4, <1>7
 <2>2. progress'[i].lastAt = progress[i].lastAt
   BY <1>7, PassWrites DEF LastAt
 <2>3. P # {} => lastPrice' = lastPrice
  <3>1. ASSUME P # {}
        PROVE  lastPrice # Nothing
   <4>1. tape[Max(P)] \in Tick
     BY <1>1, <1>2, <3>1, LastIsSeen
   <4> QED BY <1>1, <3>1, <4>1, TickIs DEF Remembers
  <3> QED BY <1>7, <3>1, PassWrites DEF AcceptedCurrent
 <2>4. progress'[i].expired => progress[i].expired
   BY <1>7, PassWrites DEF Expires
 <2>5. tape' = tape /\ armed' = armed /\ progress'[i].through = Len(tape)
   BY PassWrites
 <2>6. armed[i].since <= Len(tape)
   BY <1>1, <1>2 DEF ArmedOK
 <2>7. progress'[i].fired = FindTrigger(g, Nothing, Seen(i))'
   BY <1>4, <1>6, PassWrites
 <2> QED BY <1>1, <2>1, <2>2, <2>3, <2>4, <2>5, <2>6, <2>7 DEF Remembers
<1>8. CASE R # {}
 <2>1. Max(Seen(i)') = Max(R)
  <3>1. P \subseteq 0..Len(tape) /\ R \subseteq 0..Len(tape)
   <4> HIDE DEF P, R
   <4> QED BY <1>2
  <3>2. \A p \in P, r \in R : p < r
    BY <1>3 DEF Apart
  <3> HIDE DEF P, R
  <3> QED BY <1>2, <1>4, <1>8, <3>1, <3>2, MaxOfUpper
 <2>2. /\ progress'[i].lastAt = tape[Max(Seen(i)')].at
       /\ lastPrice' = tape[Max(Seen(i)')].price
   BY <1>8, <2>1, PassEnds
 <2>3. Seen(i)' # {}
   BY <1>4, <1>8
 <2>4. progress'[i].expired => progress'[i].lastAt > g.domain[2]
  <3>1. CASE Expires(i)
   <4>1. g.domain[2] < LastAt(i) /\ progress'[i].lastAt = LastAt(i)
     BY <3>1, PassExpires, PassWrites
   <4> QED BY <4>1
  <3>2. CASE progress[i].expired
   <4>1. progress[i].lastAt > g.domain[2] /\ Seen(i) # {} /\ progress[i].lastAt = tape[Max(Seen(i))].at
     BY <1>1, <3>2 DEF Remembers
   <4>2. tape[Max(Seen(i))] \in Tick
     BY <1>1, <1>2, <4>1, LastIsSeen
   <4>3. Max(R) \in R /\ tape[Max(R)] \in Tick
     BY <1>1, <1>2, <1>8, LastIsSeen
   <4>4. tape[Max(R)].at >= progress[i].lastAt
     BY <4>3 DEF ReplayTicks
   <4>5. progress[i].lastAt \in Nat /\ tape[Max(R)].at \in Nat
     BY <4>1, <4>2, <4>3, TickIs
   <4>6. g.domain[2] \in Nat
     BY <1>1, TechnicalConstants DEF ArmedOK
   <4>7. progress'[i].lastAt = tape[Max(R)].at
     BY <2>1, <2>2
   <4> HIDE DEF R, g
   <4> QED BY <4>1, <4>4, <4>5, <4>6, <4>7
  <3> QED BY <3>1, <3>2, PassWrites
 <2>5. tape' = tape /\ armed' = armed /\ progress'[i].through = Len(tape)
   BY PassWrites
 <2>6. armed[i].since <= Len(tape)
   BY <1>1, <1>2 DEF ArmedOK
 <2>7. progress'[i].fired = FindTrigger(g, Nothing, Seen(i))'
   BY <1>4, <1>6, PassWrites
 <2> QED BY <2>2, <2>3, <2>4, <2>5, <2>6, <2>7 DEF Remembers
<1> QED BY <1>7, <1>8

LEMMA PassKeepsTold ==
  ASSUME OneAlert, TechnicalInv, WorkerPass
  PROVE  TechnicalInv'
<1>1. tape' = tape /\ armed' = armed
  BY DEF WorkerPass
<1>2. ASSUME NEW i \in Watchers
      PROVE  ArmedOK(i)' /\ ProgressOK(i)' /\ Remembers(i)'
 <2>1. ArmedOK(i) /\ Len(tape) \in Nat
   BY DEF TechnicalInv
 <2>2. ArmedOK(i)'
   BY <1>1, <2>1 DEF ArmedOK
 <2>3. ProgressOK(i)'
  <3>1. progress'[i].expired \in BOOLEAN
    BY PassWrites
  <3>2. /\ progress'[i].revision = armed[i].revision
        /\ progress'[i].through = Len(tape)
    BY PassWrites
  <3> QED BY <1>1, <2>1, <3>1, <3>2 DEF ArmedOK, ProgressOK
 <2>4. Remembers(i)'
   BY FirstPassTells, LaterPassTells
 <2> QED BY <2>2, <2>3, <2>4
<1> QED BY <1>1, <1>2 DEF TechnicalInv

(* FiredAtTheFirstCrossing, of an alert that is alone on its symbol: however *)
(* the worker's passes split the ticks, it has fired at the first that meets *)
(* its condition with the one before it, and at none when there is none      *)
(* (pushAlertEvaluator.ts:729-792).                                          *)
THEOREM FirstCrossingFires ==
  ASSUME OneAlert
  PROVE  TechnicalSpec => []FiredAtTheFirstCrossing
<1>1. TechnicalInit => TechnicalInv
  BY TechnicalStarts
<1>2. TechnicalInv /\ [TechnicalNext]_technicalVars => TechnicalInv'
 <2> SUFFICES ASSUME TechnicalInv, [TechnicalNext]_technicalVars PROVE TechnicalInv'
   OBVIOUS
 <2>1. CASE WorkerPass
   BY <2>1, PassKeepsTold
 <2>2. CASE \E p \in TickPrice, t \in 1..MaxTicks : TickReceived(p, t)
   BY <2>2, TickKeepsTold
 <2>3. CASE \E i \in Watchers, g \in Targets : Arm(i, g)
   BY <2>3, ArmKeepsTold
 <2>4. CASE UNCHANGED technicalVars
  <3>1. tape' = tape /\ armed' = armed /\ progress' = progress /\ lastPrice' = lastPrice
    BY <2>4 DEF technicalVars
  <3>2. ASSUME NEW i \in Watchers
        PROVE  ArmedOK(i)' /\ ProgressOK(i)' /\ (Same(i)' => Remembers(i)')
   <4>1. ArmedOK(i) /\ ProgressOK(i) /\ (Same(i) => Remembers(i))
     BY DEF TechnicalInv
   <4>2. ArmedOK(i)' /\ ProgressOK(i)' /\ (Same(i)' => Same(i))
     BY <3>1, <4>1 DEF ArmedOK, ProgressOK, Same
   <4>3. Remembers(i) => Remembers(i)'
     BY <3>1 DEF Remembers, Seen, Ordered, FindTrigger, Before
   <4> QED BY <4>1, <4>2, <4>3
  <3> QED BY <3>1, <3>2 DEF TechnicalInv
 <2> QED BY <2>1, <2>2, <2>3, <2>4 DEF TechnicalNext
<1>3. TechnicalInv => FiredAtTheFirstCrossing
  BY DEF TechnicalInv, Remembers, Seen, FiredAtTheFirstCrossing
<1> QED BY <1>1, <1>2, <1>3, PTL DEF TechnicalSpec

-----------------------------------------------------------------------------
(***************************************************************************)
(* IndicatorRuntime.  What a chart needs of a scope is there: a result for *)
(* its position, a request for it, or a failure whose retry is due.        *)
(***************************************************************************)
IsPane(p) == p = [traced |-> p.traced, replaying |-> p.replaying, due |-> p.due] /\ p.replaying \in BOOLEAN
IsRequest(r) == r = [at |-> r.at, phase |-> r.phase, load |-> r.load, warm |-> r.warm, aborted |-> r.aborted]
PanesAreRight ==
  /\ DOMAIN panes = RuntimeChart
  /\ \A c \in RuntimeChart : IsPane(panes[c]) /\ (panes[c].replaying => series.session # 0)
SeriesIsRight ==
  /\ series = [market |-> series.market, version |-> series.version, session |-> series.session, cutoff |-> series.cutoff]
  /\ series.session \in Nat /\ series.cutoff \in Nat
IsQueue(q) ==
  /\ q = [running |-> q.running, waiting |-> q.waiting]
  /\ \A scope \in DOMAIN q.running : IsRequest(q.running[scope])
IsResults(rs) == rs = [kept |-> rs.kept, latest |-> rs.latest, failed |-> rs.failed]
(* What a chart needs of a scope.                                           *)
Serves(scope, at, q, rs) == scope \in rs.failed \/ Kept(rs, scope, at) \/ Scheduled(q, scope, at)
IsServed(pane, s, q, rs) ==
  \/ pane.due \/ (pane.replaying /\ s.cutoff = 0)
  \/ \A scope \in ScopesOf(pane, s) : Serves(scope, Position(pane, s), q, rs)
RuntimeInv ==
  /\ PanesAreRight /\ SeriesIsRight /\ IsQueue(requests) /\ IsResults(results)
  /\ \A c \in RuntimeChart : IsServed(panes[c], series, requests, results)

LEMMA PaneChanged ==
  ASSUME NEW p, IsPane(p), NEW due, NEW x, x = [p EXCEPT !.due = due]
  PROVE  IsPane(x) /\ x.traced = p.traced /\ x.replaying = p.replaying /\ x.due = due
BY DEF IsPane

LEMMA Aborting ==
  ASSUME NEW r, IsRequest(r), NEW x, x = [r EXCEPT !.aborted = TRUE]
  PROVE  IsRequest(x) /\ x.at = r.at
BY DEF IsRequest

LEMMA Forgiving ==
  ASSUME NEW rs, IsResults(rs), NEW failed, NEW x, x = [rs EXCEPT !.failed = failed]
  PROVE  IsResults(x) /\ x.kept = rs.kept /\ x.failed = failed
BY DEF IsResults

(* Charts that share a scope are at the same position.                      *)
LEMMA SharedPosition ==
  ASSUME NEW p, NEW q, NEW s, IsPane(p), IsPane(q), p.replaying \/ q.replaying => s.session # 0,
         NEW scope \in ScopesOf(p, s) \intersect ScopesOf(q, s)
  PROVE  Position(p, s) = Position(q, s) /\ p.replaying = q.replaying
<1>1. PICK i \in p.traced, j \in q.traced :
        scope = ScopeKey(i, p.replaying, s) /\ scope = ScopeKey(j, q.replaying, s)
  BY DEF ScopesOf
<1>2. /\ p.replaying => scope.session = s.session
      /\ ~ p.replaying => scope.session = 0
      /\ q.replaying => scope.session = s.session
      /\ ~ q.replaying => scope.session = 0
  BY <1>1 DEF ScopeKey
<1>3. p.replaying \in BOOLEAN /\ q.replaying \in BOOLEAN
  BY DEF IsPane
<1>4. p.replaying = q.replaying
  BY <1>2, <1>3
<1> QED BY <1>4 DEF Position

LEMMA ScopesAre ==
  ASSUME NEW p, NEW q, NEW s, NEW t, p.traced = q.traced, p.replaying = q.replaying,
         p.replaying => s.session = t.session, ~ p.replaying => s.version = t.version
  PROVE  ScopesOf(p, s) = ScopesOf(q, t)
BY DEF ScopesOf, ScopeKey

(* The scheduler loses nothing it was asked for.                            *)
LEMMA DrainKeeps ==
  ASSUME NEW q, IsQueue(q)
  PROVE  /\ IsQueue(Drained(q))
         /\ \A scope, at : Scheduled(q, scope, at) => Scheduled(Drained(q), scope, at)
<1> DEFINE first == {scope \in Free(q) : Cardinality(DOMAIN q.running) + Cardinality(Ahead(q, scope)) < MaxConcurrent}
           running == [scope \in DOMAIN q.running \union first |->
                         IF scope \in first THEN Started(q.waiting[scope].at) ELSE q.running[scope]]
           waiting == Drop(q.waiting, first)
<1>1. Drained(q) = [running |-> running, waiting |-> waiting]
  BY DEF Drained
<1>2. first \subseteq DOMAIN q.waiting /\ first \intersect DOMAIN q.running = {}
  BY DEF Free
<1> HIDE DEF first
<1>3. /\ DOMAIN running = DOMAIN q.running \union first
      /\ \A scope \in first : running[scope] = Started(q.waiting[scope].at)
      /\ \A scope \in DOMAIN q.running : running[scope] = q.running[scope]
  BY <1>2
<1>4. /\ DOMAIN waiting = DOMAIN q.waiting \ first
      /\ \A scope \in DOMAIN q.waiting \ first : waiting[scope] = q.waiting[scope]
  BY DEF Drop
<1> HIDE DEF running, waiting
<1>5. \A at : IsRequest(Started(at)) /\ Started(at).at = at
  BY DEF IsRequest, Started
<1>6. IsQueue(Drained(q))
  BY <1>1, <1>3, <1>5 DEF IsQueue
<1>7. \A scope, at : Scheduled(q, scope, at) => Scheduled(Drained(q), scope, at)
  BY <1>1, <1>2, <1>3, <1>4, <1>5 DEF Scheduled
<1> QED BY <1>6, <1>7

LEMMA EnqueueKeeps ==
  ASSUME NEW q, IsQueue(q), NEW asked, NEW at
  PROVE  /\ IsQueue(Enqueue(q, asked, at))
         /\ \A scope \in asked : Scheduled(Enqueue(q, asked, at), scope, at)
         /\ \A scope, then : Scheduled(q, scope, then) /\ (scope \in asked => then = at)
                               => Scheduled(Enqueue(q, asked, at), scope, then)
<1> DEFINE order == SetToSeq(asked)
           place(scope) == CHOOSE k \in DOMAIN order : order[k] = scope
           waiting == [scope \in DOMAIN q.waiting \union asked |->
                         IF scope \in asked THEN [at |-> at, turn |-> LastTurn(q) + place(scope)] ELSE q.waiting[scope]]
           next == [running |-> q.running, waiting |-> waiting]
<1>1. Enqueue(q, asked, at) = Drained(next)
 <2>1. [q EXCEPT !.waiting = waiting] = next
   BY DEF IsQueue
 <2> QED BY <2>1 DEF Enqueue
<1>2. /\ DOMAIN waiting = DOMAIN q.waiting \union asked
      /\ \A scope \in asked : waiting[scope].at = at
      /\ \A scope \in DOMAIN q.waiting \ asked : waiting[scope] = q.waiting[scope]
  OBVIOUS
<1> HIDE DEF waiting
<1>3. IsQueue(next)
  BY DEF IsQueue
<1>4. /\ \A scope \in asked : Scheduled(next, scope, at)
      /\ \A scope, then : Scheduled(q, scope, then) /\ (scope \in asked => then = at) => Scheduled(next, scope, then)
  BY <1>2 DEF Scheduled
<1> HIDE DEF next
<1> QED BY <1>1, <1>3, <1>4, DrainKeeps

LEMMA CancelKeeps ==
  ASSUME NEW q, IsQueue(q), NEW scopes
  PROVE  /\ IsQueue(Cancelled(q, scopes))
         /\ \A scope, at : Scheduled(q, scope, at) /\ scope \notin scopes => Scheduled(Cancelled(q, scopes), scope, at)
<1> DEFINE running == [scope \in DOMAIN q.running |->
                         IF scope \in scopes THEN [q.running[scope] EXCEPT !.aborted = TRUE] ELSE q.running[scope]]
           waiting == Drop(q.waiting, scopes)
<1>1. Cancelled(q, scopes) = [running |-> running, waiting |-> waiting]
  BY DEF Cancelled
<1>2. \A r : IsRequest(r) => IsRequest([r EXCEPT !.aborted = TRUE])
  BY Aborting
<1>3. /\ DOMAIN running = DOMAIN q.running
      /\ \A scope \in DOMAIN q.running : IsRequest(running[scope])
      /\ \A scope \in DOMAIN q.running \ scopes : running[scope] = q.running[scope]
  BY <1>2 DEF IsQueue
<1>4. /\ DOMAIN waiting = DOMAIN q.waiting \ scopes
      /\ \A scope \in DOMAIN q.waiting \ scopes : waiting[scope] = q.waiting[scope]
  BY DEF Drop
<1> HIDE DEF running, waiting
<1> QED BY <1>1, <1>3, <1>4 DEF IsQueue, Scheduled

(* A chart that renders asks for what it lacks, and takes from the others   *)
(* only what none of them has.                                              *)
LEMMA RenderKeeps ==
  ASSUME RuntimeInv, NEW c \in RuntimeChart, NEW pane, IsPane(pane), pane.replaying => series.session # 0,
         Rendered(c, pane), series' = series
  PROVE  RuntimeInv'
<1> DEFINE released == IF ScopesOf(pane, series) = ScopesOf(panes[c], series) THEN {} ELSE OnlyOf(c)
           left == [results EXCEPT !.failed = @ \ released]
           queue == Cancelled(requests, released)
           at == Position(pane, series)
           asked == {scope \in ScopesOf(pane, series) :
                       scope \notin left.failed /\ ~ Kept(left, scope, at) /\ ~ Scheduled(queue, scope, at)}
           now == [pane EXCEPT !.due = FALSE]
<1>1. panes' = [panes EXCEPT ![c] = now] /\ results' = left /\ requests' = Ensured(queue, pane, series, left)
  BY DEF Rendered
<1>2. IsPane(now) /\ now.traced = pane.traced /\ now.replaying = pane.replaying
  BY PaneChanged
<1>3. Position(now, series) = at /\ ScopesOf(now, series) = ScopesOf(pane, series)
  BY <1>2 DEF Position, ScopesOf
<1>4. DOMAIN panes' = RuntimeChart /\ panes'[c] = now /\ \A o \in RuntimeChart \ {c} : panes'[o] = panes[o]
 <2>1. DOMAIN panes = RuntimeChart
   BY DEF RuntimeInv, PanesAreRight
 <2> HIDE DEF now
 <2> QED BY <1>1, <2>1
<1>5. PanesAreRight'
  BY <1>2, <1>4 DEF RuntimeInv, PanesAreRight
<1>6. IsResults(left) /\ left.kept = results.kept /\ left.failed = results.failed \ released
  BY Forgiving DEF RuntimeInv
<1>7. IsQueue(queue)
  BY CancelKeeps DEF RuntimeInv
<1>8. \A o \in RuntimeChart \ {c} : ScopesOf(panes[o], series) \intersect released = {}
  BY DEF OnlyOf
<1> HIDE DEF now, left, released
<1>9. /\ IsQueue(requests')
      /\ \A scope \in ScopesOf(pane, series) : (pane.replaying /\ series.cutoff = 0) \/ Serves(scope, at, requests', left)
      /\ \A scope, then : Scheduled(queue, scope, then) /\ (scope \in asked => then = at) => Scheduled(requests', scope, then)
 <2> HIDE DEF queue, at
 <2>1. CASE pane.replaying /\ series.cutoff = 0
  <3>1. requests' = queue
    BY <1>1, <2>1 DEF Ensured
  <3> QED BY <1>7, <2>1, <3>1
 <2>2. CASE ~ (pane.replaying /\ series.cutoff = 0)
  <3>1. requests' = Enqueue(queue, asked, at)
    BY <1>1, <2>2 DEF Ensured, at
  <3>2. \A scope \in ScopesOf(pane, series) \ asked :
          scope \in left.failed \/ Kept(left, scope, at) \/ Scheduled(queue, scope, at)
    OBVIOUS
  <3> HIDE DEF asked
  <3>3. /\ IsQueue(requests')
        /\ \A scope \in asked : Scheduled(requests', scope, at)
        /\ \A scope, then : Scheduled(queue, scope, then) /\ (scope \in asked => then = at)
                              => Scheduled(requests', scope, then)
    BY <1>7, <3>1, EnqueueKeeps
  <3> QED BY <3>2, <3>3 DEF Serves
 <2> QED BY <2>1, <2>2
<1>10. ASSUME NEW o \in RuntimeChart \ {c}
       PROVE  IsServed(panes[o], series, requests', left)
 <2>1. CASE panes[o].due \/ (panes[o].replaying /\ series.cutoff = 0)
   BY <2>1 DEF IsServed
 <2>2. CASE \A scope \in ScopesOf(panes[o], series) : Serves(scope, Position(panes[o], series), requests, results)
  <3> SUFFICES ASSUME NEW scope \in ScopesOf(panes[o], series)
               PROVE  Serves(scope, Position(panes[o], series), requests', left)
    BY DEF IsServed
  <3> DEFINE then == Position(panes[o], series)
  <3>1. scope \notin released
    BY <1>8
  <3>2. scope \in asked => then = at
   <4>1. IsPane(panes[o]) /\ (panes[o].replaying => series.session # 0)
     BY DEF RuntimeInv, PanesAreRight
   <4> QED BY <4>1, SharedPosition
  <3> HIDE DEF then, at, asked
  <3>3. Serves(scope, then, requests, results)
    BY <2>2 DEF then
  <3>4. Scheduled(requests, scope, then) => Scheduled(queue, scope, then)
    BY <3>1, CancelKeeps DEF RuntimeInv
  <3>5. Scheduled(requests, scope, then) => Scheduled(requests', scope, then)
    BY <1>9, <3>2, <3>4
  <3>6. Kept(results, scope, then) => Kept(left, scope, then)
    BY <1>6 DEF Kept
  <3>7. Serves(scope, then, requests', left)
    BY <1>6, <3>1, <3>3, <3>5, <3>6 DEF Serves
  <3> QED BY <3>7 DEF then
 <2> QED BY <2>1, <2>2 DEF RuntimeInv, IsServed
<1>11. IsServed(now, series, requests', left)
  BY <1>2, <1>3, <1>9 DEF IsServed
<1>12. \A o \in RuntimeChart : IsServed(panes'[o], series', requests', results')
  BY <1>1, <1>4, <1>10, <1>11
<1> QED BY <1>1, <1>5, <1>6, <1>9, <1>12 DEF RuntimeInv, SeriesIsRight

LEMMA ChartsKeep ==
  ASSUME RuntimeInv, NEW c \in RuntimeChart, RendersAgain(c) \/ Replays(c) \/ \E i \in Traced : Trace(c, i)
  PROVE  RuntimeInv'
<1>1. IsPane(panes[c]) /\ (panes[c].replaying => series.session # 0) /\ series.session \in Nat
  BY DEF RuntimeInv, PanesAreRight, SeriesIsRight
<1>2. CASE RendersAgain(c)
  BY <1>1, <1>2, RenderKeeps DEF RendersAgain
<1>3. CASE Replays(c)
 <2> DEFINE pane == [panes[c] EXCEPT !.replaying = ~ @]
 <2>1. IsPane(pane)
   BY <1>1 DEF IsPane
 <2>2. series.session # 0 /\ Rendered(c, pane) /\ series' = series
   BY <1>1, <1>3 DEF Replays
 <2> QED BY <2>1, <2>2, RenderKeeps
<1>4. CASE \E i \in Traced : Trace(c, i)
 <2>1. PICK i \in Traced : Trace(c, i)
   BY <1>4
 <2> DEFINE traced == IF i \in panes[c].traced THEN panes[c].traced \ {i} ELSE panes[c].traced \union {i}
            pane == [panes[c] EXCEPT !.traced = traced]
 <2>2. Rendered(c, pane) /\ series' = series
   BY <2>1 DEF Trace
 <2> HIDE DEF traced
 <2>3. IsPane(pane) /\ pane.replaying = panes[c].replaying
   BY <1>1 DEF IsPane
 <2> QED BY <1>1, <2>2, <2>3, RenderKeeps
<1> QED BY <1>2, <1>3, <1>4

(* New bars and positions: the charts concerned are to render, the others   *)
(* have the scopes and the position they had.                               *)
LEMMA MoveKeeps ==
  ASSUME RuntimeInv, NEW s, NEW dirty \in BOOLEAN, Moves(s, dirty),
         s = [market |-> s.market, version |-> s.version, session |-> s.session, cutoff |-> s.cutoff],
         s.session \in Nat, s.cutoff \in Nat, series.session # 0 => s.session # 0,
         ~ dirty => s.session = series.session /\ s.cutoff = series.cutoff,
         dirty => s.market = series.market /\ s.version = series.version
  PROVE  RuntimeInv'
<1> DEFINE gone == (UNION {ScopesOf(panes[c], series) : c \in RuntimeChart}) \ (UNION {ScopesOf(panes[c], s) : c \in RuntimeChart})
           left == [results EXCEPT !.failed = @ \ gone]
<1>1. /\ series' = s /\ results' = left /\ requests' = Cancelled(requests, gone)
      /\ panes' = [c \in RuntimeChart |-> IF panes[c].replaying = dirty THEN [panes[c] EXCEPT !.due = TRUE] ELSE panes[c]]
  BY DEF Moves
<1>2. \A c \in RuntimeChart : ScopesOf(panes[c], s) \intersect gone = {}
  OBVIOUS
<1> HIDE DEF gone
<1>3. IsResults(left) /\ left.kept = results.kept /\ left.failed = results.failed \ gone
  BY Forgiving DEF RuntimeInv
<1>4. /\ IsQueue(requests')
      /\ \A scope, at : Scheduled(requests, scope, at) /\ scope \notin gone => Scheduled(requests', scope, at)
  BY <1>1, CancelKeeps DEF RuntimeInv
<1> HIDE DEF left
<1>5. ASSUME NEW c \in RuntimeChart
      PROVE  /\ IsPane(panes'[c]) /\ panes'[c].replaying = panes[c].replaying
             /\ panes'[c].traced = panes[c].traced
             /\ panes[c].replaying = dirty => panes'[c].due
             /\ panes[c].replaying # dirty => panes'[c] = panes[c]
             /\ panes[c].replaying => s.session # 0
 <2>1. IsPane(panes[c]) /\ (panes[c].replaying => series.session # 0)
   BY DEF RuntimeInv, PanesAreRight
 <2>2. CASE panes[c].replaying = dirty
  <3>1. panes'[c] = [panes[c] EXCEPT !.due = TRUE]
    BY <1>1, <2>2
  <3> QED BY <2>1, <2>2, <3>1, PaneChanged
 <2>3. CASE panes[c].replaying # dirty
  <3>1. panes'[c] = panes[c]
    BY <1>1, <2>3
  <3> QED BY <2>1, <2>3, <3>1
 <2> QED BY <2>2, <2>3
<1>6. PanesAreRight'
  BY <1>1, <1>5 DEF PanesAreRight
<1>7. ASSUME NEW c \in RuntimeChart
      PROVE  IsServed(panes'[c], s, requests', left)
 <2>1. CASE panes[c].replaying = dirty
   BY <1>5, <2>1 DEF IsServed
 <2>2. CASE panes[c].replaying # dirty
  <3>1. /\ IsPane(panes[c]) /\ panes'[c] = panes[c]
        /\ panes[c].replaying => s.session = series.session /\ s.cutoff = series.cutoff
        /\ ~ panes[c].replaying => s.market = series.market /\ s.version = series.version
    BY <1>5, <2>2 DEF IsPane
  <3>2. ScopesOf(panes[c], s) = ScopesOf(panes[c], series) /\ Position(panes[c], s) = Position(panes[c], series)
    BY <3>1, ScopesAre DEF Position, IsPane
  <3>3. IsServed(panes[c], series, requests, results)
    BY DEF RuntimeInv
  <3>4. CASE panes[c].due \/ (panes[c].replaying /\ series.cutoff = 0)
    BY <3>1, <3>4 DEF IsServed
  <3>5. CASE \A scope \in ScopesOf(panes[c], series) : Serves(scope, Position(panes[c], series), requests, results)
   <4> SUFFICES ASSUME NEW scope \in ScopesOf(panes[c], s)
                PROVE  Serves(scope, Position(panes[c], s), requests', left)
     BY <3>1 DEF IsServed
   <4>1. scope \notin gone
     BY <1>2
   <4>2. Serves(scope, Position(panes[c], s), requests, results)
     BY <3>2, <3>5
   <4> QED BY <1>3, <1>4, <4>1, <4>2 DEF Serves, Kept
  <3> QED BY <3>3, <3>4, <3>5 DEF IsServed
 <2> QED BY <2>1, <2>2
<1> QED BY <1>1, <1>3, <1>4, <1>6, <1>7 DEF RuntimeInv, SeriesIsRight

LEMMA SeriesMovesKeep ==
  ASSUME RuntimeInv, Ticks \/ StartsSession \/ ReplacesHistory \/ \E t \in 1..LastCutoff : Seeks(t)
  PROVE  RuntimeInv'
<1>1. /\ series = [market |-> series.market, version |-> series.version, session |-> series.session, cutoff |-> series.cutoff]
      /\ series.session \in Nat /\ series.cutoff \in Nat
  BY DEF RuntimeInv, SeriesIsRight
<1>2. CASE Ticks
 <2> DEFINE s == [series EXCEPT !.market = @ + 1]
 <2>1. s = [market |-> series.market + 1, version |-> series.version, session |-> series.session, cutoff |-> series.cutoff]
   BY <1>1
 <2>2. Moves(s, FALSE)
   BY <1>2 DEF Ticks
 <2> HIDE DEF s
 <2> QED BY <1>1, <2>1, <2>2, MoveKeeps
<1>3. CASE StartsSession
 <2> DEFINE n == series.session + 1
 <2>2. PICK s : s = [series EXCEPT !.session = n, !.cutoff = 0] /\ Moves(s, TRUE)
   BY <1>3 DEF StartsSession
 <2>3. n \in Nat \ {0}
   BY <1>1
 <2> HIDE DEF n
 <2>1. s = [market |-> series.market, version |-> series.version, session |-> n, cutoff |-> 0]
   BY <1>1, <2>2
 <2> QED BY <1>1, <2>1, <2>2, <2>3, MoveKeeps
<1>4. CASE ReplacesHistory
 <2> DEFINE m == series.market + 1
            v == series.version + 1
 <2>2. PICK s : s = [series EXCEPT !.market = m, !.version = v] /\ Moves(s, FALSE)
   BY <1>4 DEF ReplacesHistory
 <2> HIDE DEF m, v
 <2>1. s = [market |-> m, version |-> v, session |-> series.session, cutoff |-> series.cutoff]
   BY <1>1, <2>2
 <2> QED BY <1>1, <2>1, <2>2, MoveKeeps
<1>5. CASE \E t \in 1..LastCutoff : Seeks(t)
 <2>1. PICK t \in 1..LastCutoff : Seeks(t)
   BY <1>5
 <2> DEFINE s == [series EXCEPT !.cutoff = t]
 <2>2. t \in Nat
   BY RuntimeConstants
 <2>3. s = [market |-> series.market, version |-> series.version, session |-> series.session, cutoff |-> t]
   BY <1>1
 <2>4. Moves(s, TRUE)
   BY <2>1 DEF Seeks
 <2> HIDE DEF s
 <2> QED BY <1>1, <2>2, <2>3, <2>4, MoveKeeps
<1> QED BY <1>2, <1>3, <1>4, <1>5

(* What happens to requests is enough when each scope stays asked for, or   *)
(* its charts are told.                                                     *)
LEMMA ToldKeep ==
  ASSUME RuntimeInv, NEW told, IsQueue(requests'), IsResults(results'), series' = series,
         (panes' = panes /\ told = {}) \/ (\E scope : panes' = Told(panes, scope) /\ told = {scope}),
         \A x, at : x \notin told /\ Serves(x, at, requests, results) => Serves(x, at, requests', results')
  PROVE  RuntimeInv'
<1>1. ASSUME NEW c \in RuntimeChart
      PROVE  /\ IsPane(panes'[c]) /\ panes'[c].replaying = panes[c].replaying
             /\ panes'[c].due \/ (panes'[c] = panes[c] /\ ScopesOf(panes[c], series) \intersect told = {})
 <2>1. IsPane(panes[c])
   BY DEF RuntimeInv, PanesAreRight
 <2>2. CASE panes' = panes /\ told = {}
   BY <2>1, <2>2
 <2>3. CASE \E scope : panes' = Told(panes, scope) /\ told = {scope}
  <3>1. PICK scope : panes' = Told(panes, scope) /\ told = {scope}
    BY <2>3
  <3>2. CASE scope \in ScopesOf(panes[c], series)
   <4>1. panes'[c] = [panes[c] EXCEPT !.due = TRUE]
     BY <3>1, <3>2 DEF Told
   <4> QED BY <2>1, <4>1, PaneChanged
  <3>3. CASE scope \notin ScopesOf(panes[c], series)
   <4>1. panes'[c] = panes[c]
     BY <3>1, <3>3 DEF Told
   <4> QED BY <2>1, <3>1, <3>3, <4>1
  <3> QED BY <3>2, <3>3
 <2> QED BY <2>2, <2>3
<1>2. DOMAIN panes' = RuntimeChart
  BY DEF RuntimeInv, PanesAreRight, Told
<1>3. PanesAreRight'
  BY <1>1, <1>2 DEF RuntimeInv, PanesAreRight
<1>4. ASSUME NEW c \in RuntimeChart
      PROVE  IsServed(panes'[c], series, requests', results')
 <2>1. CASE panes'[c].due
   BY <2>1 DEF IsServed
 <2>2. CASE panes'[c] = panes[c] /\ ScopesOf(panes[c], series) \intersect told = {}
  <3>1. IsServed(panes[c], series, requests, results)
    BY DEF RuntimeInv
  <3> QED BY <2>2, <3>1 DEF IsServed
 <2> QED BY <1>1, <2>1, <2>2
<1> QED BY <1>3, <1>4 DEF RuntimeInv, SeriesIsRight

LEMMA JoinsKeeps ==
  ASSUME NEW r, IsRequest(r), NEW scope, NEW owner
  PROVE  IsRequest(Joins(r, scope, owner)) /\ Joins(r, scope, owner).at = r.at
<1> DEFINE phase == IF owner = Nothing THEN "computing" ELSE "warming"
           warm == (owner = Nothing /\ scope.id \in Warming)
<1>1. Joins(r, scope, owner) = [at |-> r.at, phase |-> phase, load |-> owner, warm |-> warm, aborted |-> r.aborted]
 <2> HIDE DEF phase, warm
 <2>1. PICK x : x = [r EXCEPT !.phase = phase, !.load = owner, !.warm = warm]
   OBVIOUS
 <2>2. x = [at |-> r.at, phase |-> phase, load |-> owner, warm |-> warm, aborted |-> r.aborted]
   BY <2>1 DEF IsRequest
 <2> QED BY <2>1, <2>2 DEF Joins, phase, warm
<1> HIDE DEF phase, warm
<1> QED BY <1>1 DEF IsRequest

(* Requests that go on stay scheduled.                                      *)
LEMMA RequestsGoOn ==
  ASSUME RuntimeInv, NEW running, DOMAIN running = DOMAIN requests.running,
         \A scope \in DOMAIN running : IsRequest(running[scope]) /\ running[scope].at = requests.running[scope].at,
         requests' = [requests EXCEPT !.running = running], UNCHANGED <<panes, series, results>>
  PROVE  RuntimeInv'
<1>1. IsQueue(requests)
  BY DEF RuntimeInv
<1>2. requests' = [running |-> running, waiting |-> requests.waiting]
  BY <1>1 DEF IsQueue
<1>3. IsQueue(requests') /\ \A x, at : Scheduled(requests, x, at) => Scheduled(requests', x, at)
  BY <1>2 DEF IsQueue, Scheduled
<1>4. \A x, at : Serves(x, at, requests, results) => Serves(x, at, requests', results')
  BY <1>3 DEF Serves, Kept
<1>5. IsResults(results')
  BY DEF RuntimeInv
<1> QED BY <1>3, <1>4, <1>5, ToldKeep

LEMMA LoadsKeep ==
  ASSUME RuntimeInv, NEW scope \in DOMAIN requests.running,
         RequestStarts(scope) \/ WarmUpArrives(scope) \/ WarmUpFails(scope)
  PROVE  RuntimeInv'
<1>1. \A x \in DOMAIN requests.running : IsRequest(requests.running[x])
  BY DEF RuntimeInv, IsQueue
<1>2. CASE RequestStarts(scope)
 <2>1. PICK owner : requests' = [requests EXCEPT !.running[scope] = Joins(requests.running[scope], scope, owner)]
   BY <1>2 DEF RequestStarts
 <2> DEFINE running == [requests.running EXCEPT ![scope] = Joins(requests.running[scope], scope, owner)]
 <2>2. DOMAIN running = DOMAIN requests.running
   OBVIOUS
 <2>3. \A x \in DOMAIN requests.running :
         running[x] = IF x = scope THEN Joins(requests.running[scope], scope, owner) ELSE requests.running[x]
   OBVIOUS
 <2>4. requests' = [requests EXCEPT !.running = running]
   BY <2>1
 <2>5. UNCHANGED <<panes, series, results>>
   BY <1>2 DEF RequestStarts
 <2> HIDE DEF running
 <2>6. \A x \in DOMAIN running : IsRequest(running[x]) /\ running[x].at = requests.running[x].at
   BY <1>1, <2>2, <2>3, JoinsKeeps
 <2> QED BY <2>2, <2>4, <2>5, <2>6, RequestsGoOn
<1>3. CASE WarmUpArrives(scope)
 <2> DEFINE running == [x \in DOMAIN requests.running |->
                          IF x \in Waiting(scope) THEN Joins(requests.running[x], x, Nothing) ELSE requests.running[x]]
 <2>1. requests' = [requests EXCEPT !.running = running] /\ UNCHANGED <<panes, series, results>>
   BY <1>3 DEF WarmUpArrives
 <2>2. DOMAIN running = DOMAIN requests.running
   OBVIOUS
 <2>3. \A x \in DOMAIN running : IsRequest(running[x]) /\ running[x].at = requests.running[x].at
   BY <1>1, JoinsKeeps
 <2> HIDE DEF running
 <2> QED BY <2>1, <2>2, <2>3, RequestsGoOn
<1>4. CASE WarmUpFails(scope)
 <2> DEFINE running == [x \in DOMAIN requests.running |->
                          IF x \in Waiting(scope)
                          THEN [requests.running[x] EXCEPT !.phase = "computing", !.load = Nothing]
                          ELSE requests.running[x]]
 <2>1. requests' = [requests EXCEPT !.running = running] /\ UNCHANGED <<panes, series, results>>
   BY <1>4 DEF WarmUpFails
 <2>2. DOMAIN running = DOMAIN requests.running
   OBVIOUS
 <2>3. ASSUME NEW r, IsRequest(r), NEW x, x = [r EXCEPT !.phase = "computing", !.load = Nothing]
       PROVE  IsRequest(x) /\ x.at = r.at
  <3>1. x = [at |-> r.at, phase |-> "computing", load |-> Nothing, warm |-> r.warm, aborted |-> r.aborted]
    BY <2>3 DEF IsRequest
  <3> QED BY <3>1 DEF IsRequest
 <2>4. \A x \in DOMAIN running : IsRequest(running[x]) /\ running[x].at = requests.running[x].at
   BY <1>1, <2>3
 <2> HIDE DEF running
 <2> QED BY <2>1, <2>2, <2>4, RequestsGoOn
<1> QED BY <1>2, <1>3, <1>4

LEMMA FinishKeeps ==
  ASSUME RuntimeInv, NEW scope, Finishes(scope)
  PROVE  /\ IsQueue(requests') /\ series' = series /\ panes' = Told(panes, scope)
         /\ \A x, at : x # scope /\ Scheduled(requests, x, at) => Scheduled(requests', x, at)
<1> DEFINE running == Drop(requests.running, {scope})
           next == [running |-> running, waiting |-> requests.waiting]
<1>1. IsQueue(requests)
  BY DEF RuntimeInv
<1>2. requests' = Drained(next) /\ series' = series /\ panes' = Told(panes, scope)
 <2>1. [requests EXCEPT !.running = running] = next
   BY <1>1 DEF IsQueue
 <2> QED BY <2>1 DEF Finishes, Settled
<1>3. /\ DOMAIN running = DOMAIN requests.running \ {scope}
      /\ \A x \in DOMAIN running : running[x] = requests.running[x]
  BY DEF Drop
<1> HIDE DEF running
<1>4. IsQueue(next) /\ \A x, at : x # scope /\ Scheduled(requests, x, at) => Scheduled(next, x, at)
  BY <1>1, <1>3 DEF IsQueue, Scheduled
<1> HIDE DEF next
<1> QED BY <1>2, <1>4, DrainKeeps

LEMMA ComputationsKeep ==
  ASSUME RuntimeInv, NEW scope \in DOMAIN requests.running, Computes(scope) \/ ComputeFails(scope)
  PROVE  RuntimeInv'
<1>1. /\ IsQueue(requests') /\ series' = series /\ panes' = Told(panes, scope)
      /\ \A x, at : x # scope /\ Scheduled(requests, x, at) => Scheduled(requests', x, at)
  BY FinishKeeps DEF Computes, ComputeFails
<1>2. IsResults(results)
  BY DEF RuntimeInv
<1>3. /\ IsResults(results')
      /\ \A x, at : x # scope /\ (x \in results.failed \/ Kept(results, x, at))
                      => x \in results'.failed \/ Kept(results', x, at)
 <2>1. CASE Computes(scope)
  <3>1. PICK rows, latest : results' = [kept |-> Put(results.kept, scope, rows), latest |-> latest,
                                        failed |-> results.failed \ {scope}]
    BY <2>1 DEF Computes
  <3> QED BY <3>1 DEF IsResults, Kept, Put
 <2>2. CASE ComputeFails(scope)
  <3>1. results' = results \/ results' = [results EXCEPT !.failed = @ \union {scope}]
    BY <2>2 DEF ComputeFails
  <3>2. CASE results' = results
    BY <1>2, <3>2 DEF Kept
  <3>3. CASE results' = [results EXCEPT !.failed = @ \union {scope}]
   <4>1. IsResults(results') /\ results'.kept = results.kept /\ results'.failed = results.failed \union {scope}
     BY <1>2, <3>3, Forgiving
   <4> QED BY <4>1 DEF Kept
  <3> QED BY <3>1, <3>2, <3>3
 <2> QED BY <2>1, <2>2
<1>4. \A x, at : x \notin {scope} /\ Serves(x, at, requests, results) => Serves(x, at, requests', results')
  BY <1>1, <1>3 DEF Serves
<1> QED BY <1>1, <1>3, <1>4, ToldKeep

LEMMA RetryKeeps ==
  ASSUME RuntimeInv, NEW scope \in results.failed, RetryComesDue(scope)
  PROVE  RuntimeInv'
<1>1. /\ results' = [results EXCEPT !.failed = @ \ {scope}] /\ panes' = Told(panes, scope)
      /\ series' = series /\ requests' = requests
  BY DEF RetryComesDue
<1>2. IsResults(results') /\ results'.kept = results.kept /\ results'.failed = results.failed \ {scope}
  BY <1>1, Forgiving DEF RuntimeInv
<1>3. \A x, at : x \notin {scope} /\ Serves(x, at, requests, results) => Serves(x, at, requests', results')
  BY <1>1, <1>2 DEF Serves, Kept, Scheduled
<1>4. IsQueue(requests')
  BY <1>1 DEF RuntimeInv
<1> QED BY <1>1, <1>2, <1>3, <1>4, ToldKeep

LEMMA RuntimeStart ==
  ASSUME RuntimeInit
  PROVE  RuntimeInv
<1>1. \A c \in RuntimeChart : IsPane(panes[c]) /\ panes[c].traced = {} /\ ~ panes[c].replaying
  BY DEF RuntimeInit, IsPane
<1>2. PanesAreRight
  BY <1>1 DEF RuntimeInit, PanesAreRight
<1>3. SeriesIsRight
  BY DEF RuntimeInit, SeriesIsRight
<1>4. IsQueue(requests)
 <2>1. requests = [running |-> None, waiting |-> None] /\ DOMAIN None = {}
   BY DEF RuntimeInit, None
 <2> QED BY <2>1 DEF IsQueue
<1>5. IsResults(results)
  BY DEF RuntimeInit, IsResults
<1>6. \A c \in RuntimeChart : IsServed(panes[c], series, requests, results)
  BY <1>1 DEF IsServed, ScopesOf
<1> QED BY <1>2, <1>3, <1>4, <1>5, <1>6 DEF RuntimeInv

LEMMA RuntimeKeep ==
  ASSUME RuntimeInv, [RuntimeNext]_runtimeVars
  PROVE  RuntimeInv'
<1>1. CASE UNCHANGED runtimeVars
 <2>1. panes' = panes /\ series' = series /\ requests' = requests /\ results' = results
   BY <1>1 DEF runtimeVars
 <2>2. \A x, at : Serves(x, at, requests, results) => Serves(x, at, requests', results')
   BY <2>1
 <2>3. IsQueue(requests') /\ IsResults(results')
   BY <2>1 DEF RuntimeInv
 <2> QED BY <2>1, <2>2, <2>3, ToldKeep
<1>2. CASE RuntimeNext
  BY <1>2, ChartsKeep, SeriesMovesKeep, LoadsKeep, ComputationsKeep, RetryKeeps DEF RuntimeNext
<1> QED BY <1>1, <1>2

LEMMA RuntimeServes ==
  ASSUME RuntimeInv
  PROVE  IndicatorsAreServed
<1>1. NothingBeyondTheCutoff
 <2> SUFFICES ASSUME NEW c \in RuntimeChart, NEW i \in panes[c].traced,
                     panes[c].replaying, ShownResult(c, i) # Nothing
              PROVE  ShownResult(c, i).at <= series.cutoff
   BY DEF NothingBeyondTheCutoff
 <2>1. series.cutoff \in Nat
   BY DEF RuntimeInv, SeriesIsRight
 <2>2. Position(panes[c], series) = series.cutoff
   BY DEF Position
 <2> DEFINE scope == ScopeKey(i, panes[c].replaying, series)
            at == Position(panes[c], series)
 <2>3. ShownResult(c, i) = IF Kept(results, scope, at) THEN [at |-> at]
         ELSE IF scope \in DOMAIN results.latest /\ CanUseLatest(results.latest[scope], panes[c])
              THEN [at |-> results.latest[scope].at] ELSE Nothing
   BY DEF ShownResult
 <2> HIDE DEF scope, at
 <2>4. CASE ShownResult(c, i) = [at |-> at]
   BY <2>1, <2>2, <2>4 DEF at
 <2>5. CASE CanUseLatest(results.latest[scope], panes[c]) /\ ShownResult(c, i) = [at |-> results.latest[scope].at]
   BY <2>5 DEF CanUseLatest
 <2> QED BY <2>3, <2>4, <2>5
<1>2. TracedIsServed
  BY DEF RuntimeInv, IsServed, Serves, ScopesOf, TracedIsServed
<1> QED BY <1>1, <1>2 DEF IndicatorsAreServed

(* However requests of several charts are queued, replaced, aborted, shared *)
(* and failed: an indicator that is on a chart is computed for its position *)
(* or being computed, unless the chart is about to render or a retry is     *)
(* due; and a Replay that was wound back shows nothing computed further on  *)
(* (indicatorRuntimeCache.ts, indicatorRuntimeScheduler.ts).                *)
THEOREM RuntimeIsServed == RuntimeSpec => []IndicatorsAreServed
BY RuntimeStart, RuntimeKeep, RuntimeServes, PTL DEF RuntimeSpec
================================================================================
