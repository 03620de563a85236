----------------------------- MODULE OrderEntry -------------------------------
(***************************************************************************)
(* OrderTicket, Mt5OrderEditorDialog, CopyTradeDialog, PositionsTable and  *)
(* the sizing of orders (positionLotSizing, positionSizing): what a trader *)
(* fills in, how the volume follows from it, and what is sent.             *)
(*                                                                         *)
(* Prices, volumes and money are small integers: a price counts ticks, a   *)
(* volume counts hundredths of a lot, money and risks tenths (of a unit, of *)
(* a percent); 0 is an empty price or volume, Nothing a risk that is empty  *)
(* or no number.                                                           *)
(***************************************************************************)
EXTENDS Partial

CONSTANTS
  EntryAccount,   \* accounts
  Instruments,    \* records: min, max, step, tick, contract, commission, margin
  Sketched,          \* identities of position drawings
  Equities,       \* equities an account may have
  MaxEntrySteps   \* bound: edits, switches, submissions, ...

\* A broker's volumes are positive; money and costs are not negative.
ASSUME EntryAssumption ==
  /\ Equities \subseteq Nat
  /\ Instruments \subseteq [min : Nat \ {0}, max : Nat, step : Nat \ {0}, tick : Nat,
                            contract : Nat, commission : Nat, margin : Nat]

VARIABLES
  ticket,         \* the form of the ticket and the order to be confirmed
  entryDesk,      \* selected, mode, equity, instrument; guards and their replies
  rowDialogs,     \* the dialogs of PositionsTable: editor, copy, confirm
  sentOrders,     \* the last order, modification and close
  entrySteps

entryVars == <<ticket, entryDesk, rowDialogs, sentOrders, entrySteps>>
EntryStep == entrySteps < MaxEntrySteps /\ entrySteps' = entrySteps + 1

(***************************************************************************)
(* positionSizing and positionLotSizing.                                   *)
(***************************************************************************)
PriceDistance(p, q) == IF p = 0 \/ q = 0 THEN 0 ELSE IF p > q THEN p - q ELSE q - p
(* calculateRiskAmount: a percentage is rounded down. *)
RiskMoney(account, value, unit) == IF unit = "amount" THEN value ELSE (account * value) \div 1000
CeilToStep(volume, step) == ((volume + step - 1) \div step) * step
FloorToStep(volume, step) == (volume \div step) * step
(* normalizePositionVolume *)
NormalizedVolume(volume, min, max, step) ==
  IF volume = 0 THEN 0 ELSE FloorToStep(AtMost(AtLeast(volume, min), max), step)
(* resolveUnitCosts: from the tick value, or from the contract *)
LossPerTick(i) == IF i.contract > 0 THEN i.contract ELSE i.tick
(* resolveCommission, both ways *)
RoundTrip(i) == 2 * i.commission
LossPerVolume(i, entry, stop) == PriceDistance(entry, stop) * LossPerTick(i) + RoundTrip(i)
(* resolveMarginPerLot and resolveMarginVolumeCap; no cap without a margin *)
MarginCap(i, free) == IF i.margin = 0 THEN i.max ELSE AtMost(i.max, free \div i.margin)
OnCorrectSide(side, entry, stop) == IF side = "long" THEN stop < entry ELSE stop > entry
Sides == {"long", "short"}

(* The unrounded volume is risk / loss; it is compared by multiplication.  *)
SizedByRisk(i, money, loss, cap) ==
  IF money = 0 \/ loss = 0 THEN 0
  ELSE NormalizedVolume(IF money < loss THEN i.min ELSE AtMost(money \div loss, cap), i.min, cap, i.step)
(* computeMt5PositionRiskMetrics *)
MetricsOf(i, form, entry, money, free, side) ==
  LET stop == PriceDistance(entry, form.sl)
      loss == LossPerVolume(i, entry, form.sl)
      cap == MarginCap(i, free)
      manual == form.lotMode = "manual" /\ form.lot > 0
      size == CASE manual -> NormalizedVolume(form.lot, i.min, cap, i.step)
                [] ~ manual /\ (stop = 0 \/ LossPerTick(i) = 0) ->
                     IF stop = 0 THEN NormalizedVolume(i.min, i.min, i.max, i.step) ELSE 0
                [] OTHER -> SizedByRisk(i, money, loss, cap)
  IN  [size |-> size, loss |-> IF stop = 0 THEN 0 ELSE loss,
       warnings |-> (IF stop = 0 THEN {"STOP_LOSS_REQUIRED"} ELSE {})
          \union (IF stop > 0 /\ ~ OnCorrectSide(side, entry, form.sl)
                  THEN {"STOP_LOSS_WRONG_SIDE"} ELSE {})
          \union (IF ~ manual /\ AtMost(money, cap * loss) < i.min * loss /\ money > 0
                  THEN {"MIN_VOLUME_INCREASED_RISK"} ELSE {})
          \union (IF ~ manual /\ stop > 0 /\ money > cap * loss
                  THEN {"VOLUME_CAPPED"} ELSE {})]

(***************************************************************************)
(* The default risk.                                                       *)
(***************************************************************************)
PropDefault == 1
StandardDefault == 10
(* defaultOrderRiskPercent *)
DefaultRisk(assigned) == IF assigned THEN PropDefault ELSE StandardDefault
FailSafe(mode) == IF mode = "mt5" THEN PropDefault ELSE StandardDefault

EntryInit ==
  /\ \E desk \in [selected : {CHOOSE a \in EntryAccount : TRUE}, mode : {"mt5"}, equity : Equities,
                 instrument : Instruments, guarded : SUBSET EntryAccount,
                 connected : {TRUE}, askFirst : BOOLEAN, asked : {{}}, told : {Nothing}] :
       entryDesk = [desk EXCEPT !.asked = {[epoch |-> 0, account |-> desk.selected]}]
  /\ ticket = [epoch |-> 0, type |-> "market", entry |-> 0, sl |-> 0, risk |-> PropDefault,
               unit |-> "%", source |-> "default", default |-> PropDefault, lotMode |-> "auto",
               lot |-> 0, side |-> "long", drawing |-> Nothing, hot |-> Nothing,
               pending |-> Nothing]
  /\ rowDialogs = [editor |-> Nothing, copy |-> Nothing, confirm |-> Nothing]
  /\ sentOrders = [order |-> Nothing, modified |-> Nothing, closed |-> Nothing]
  /\ entrySteps = 0

(* The hotkeys are bound again when one of the fields they name changes;   *)
(* the drawing of the ticket is not among them.                            *)
HotKeysNeed(t) == <<t.type, t.entry, t.sl, t.lot, t.lotMode, t.risk, t.unit>>
FormRendered(t) ==
  [t EXCEPT !.hot = IF HotKeysNeed(t) = HotKeysNeed(ticket) THEN ticket.hot ELSE t.drawing]

(***************************************************************************)
(* The effect of a switch of the account or of the mode: the default is    *)
(* the careful one until the guard of this account answers; an answer to   *)
(* an earlier effect is ignored.                                           *)
(***************************************************************************)
ByDefault(risk) ==
  [ticket EXCEPT !.epoch = @ + 1, !.source = "default", !.unit = "%", !.default = risk,
                 !.risk = risk]
RiskReset(selected, mode) ==
  /\ ticket' = FormRendered(ByDefault(FailSafe(mode)))
  /\ entryDesk' = [entryDesk EXCEPT !.selected = selected, !.mode = mode, !.told = Nothing,
       !.asked = IF mode = "mt5" THEN @ \union {[epoch |-> ticket.epoch + 1, account |-> selected]}
                 ELSE @]
SelectEntryAccount ==
  /\ EntryStep
  /\ \E a \in EntryAccount \ {entryDesk.selected} : RiskReset(a, entryDesk.mode)
  /\ UNCHANGED <<rowDialogs, sentOrders>>
SetEntryMode ==
  /\ EntryStep
  /\ \E mode \in {"mt5", "simulator"} \ {entryDesk.mode} : RiskReset(entryDesk.selected, mode)
  /\ UNCHANGED <<rowDialogs, sentOrders>>
(* refreshAccountDefault, every five seconds *)
AskDefault ==
  /\ EntryStep
  /\ entryDesk.mode = "mt5"
  /\ entryDesk' = [entryDesk EXCEPT !.asked =
                     @ \union {[epoch |-> ticket.epoch, account |-> entryDesk.selected]}]
  /\ UNCHANGED <<ticket, rowDialogs, sentOrders>>
AnyReply(q) == TRUE
StillActive(q) == q.epoch = ticket.epoch
DefaultArrives(q) ==
  LET assigned == q.account \in entryDesk.guarded
      default == DefaultRisk(assigned)
  IN  /\ entryDesk' = [entryDesk EXCEPT !.asked = @ \ {q},
            !.told = IF q.epoch = ticket.epoch THEN DefaultRisk(assigned) ELSE @]
      /\ ticket' = IF StillActive(q)
                   THEN FormRendered([ticket EXCEPT !.default = default,
                                    !.risk = IF ticket.source = "default" THEN default ELSE @])
                   ELSE ticket
      /\ UNCHANGED <<rowDialogs, sentOrders, entrySteps>>
DefaultFails(q) ==
  /\ entryDesk' = [entryDesk EXCEPT !.asked = @ \ {q}]
  /\ UNCHANGED <<ticket, rowDialogs, sentOrders, entrySteps>>
(* The desk changes around the ticket. *)
DeskChanges ==
  /\ EntryStep
  /\ entryDesk' \in {[entryDesk EXCEPT !.equity = e] : e \in Equities}
       \union {[entryDesk EXCEPT !.connected = ~ @]}
       \union {[entryDesk EXCEPT !.guarded = (@ \ {a}) \union ({a} \ @)] : a \in EntryAccount}
  /\ UNCHANGED <<ticket, rowDialogs, sentOrders>>

(***************************************************************************)
(* Filling in the ticket.  The field of the risk can be emptied, or hold   *)
(* what is no number; its placeholder then shows the default.              *)
(***************************************************************************)
TicketEdits ==
  {[ticket EXCEPT !.type = t] : t \in {"market", "limit", "stop"}}
    \union {[ticket EXCEPT !.entry = p] : p \in 0..2}
    \union {[ticket EXCEPT !.sl = p] : p \in 0..3}
RiskEdits ==
  {[ticket EXCEPT !.risk = r, !.source = "explicit"] : r \in {Nothing, 30}}
    \union {[ticket EXCEPT !.unit = u, !.source = "explicit"] : u \in {"%", "amount"}}
LotEdits == {[ticket EXCEPT !.lotMode = mode, !.lot = IF mode = "manual" THEN 4 ELSE @] :
               mode \in {"auto", "manual"}}
EditTicket ==
  /\ EntryStep
  /\ ticket.pending = Nothing
  /\ \E t \in (TicketEdits \union RiskEdits \union LotEdits) \ {ticket} : ticket' = FormRendered(t)
  /\ UNCHANGED <<entryDesk, rowDialogs, sentOrders>>
(* applyPrefill: from a drawing, or a price of the chart *)
FromDrawing(d, side, stop, withRisk) ==
  [ticket EXCEPT !.drawing = d, !.side = side, !.type = "limit", !.entry = 2, !.sl = stop,
                 !.unit = "%", !.lotMode = "auto", !.lot = 0,
                 !.source = IF withRisk THEN "explicit" ELSE "default",
                 !.risk = IF withRisk THEN 30 ELSE ticket.default]
FromChart(side) == [ticket EXCEPT !.drawing = Nothing, !.side = side, !.entry = 1]
Prefills ==
  {FromDrawing(d, s, p, r) : d \in Sketched, s \in Sides, p \in {1, 3}, r \in BOOLEAN}
    \union {FromChart(s) : s \in Sides}
Prefill ==
  /\ EntryStep
  /\ \E t \in Prefills : ticket' = FormRendered(t)
  /\ UNCHANGED <<entryDesk, rowDialogs, sentOrders>>

(***************************************************************************)
(* Submitting.  A market order is entered at the quote, which is 2.        *)
(***************************************************************************)
Quote == 2
EntryPrice == IF ticket.type = "market" THEN Quote ELSE ticket.entry
(* parseTicketNumber(risk) ?? 1, in either unit, whatever the default is. *)
ReadRisk == IF ticket.risk = Nothing THEN StandardDefault ELSE ticket.risk
(* buildMt5Order: the size of the metrics is normalized once more. *)
BuiltOrder(side, drawing) ==
  LET i == entryDesk.instrument
      money == RiskMoney(entryDesk.equity, ReadRisk, ticket.unit)
      x == MetricsOf(i, ticket, EntryPrice, money, entryDesk.equity, side)
  IN  [kind |-> "order", volume |-> NormalizedVolume(x.size, i.min, i.max, i.step),
       shown |-> x.size, loss |-> x.loss, warnings |-> x.warnings, money |-> money,
       min |-> i.min, drawing |-> drawing, account |-> entryDesk.selected,
       risk |-> ticket.risk, unit |-> ticket.unit, source |-> ticket.source,
       told |-> entryDesk.told, auto |-> ticket.lotMode = "auto"]
(* placeMt5Order and closeAllMt5 send for the account selected by then. *)
OrderSent(order) == [sentOrders EXCEPT !.order = [order EXCEPT !.account = entryDesk.selected]]
SendOrAsk(order) ==
  IF entryDesk.connected /\ entryDesk.askFirst
  THEN ticket' = [ticket EXCEPT !.pending = order] /\ UNCHANGED sentOrders
  ELSE ticket' = ticket /\ sentOrders' = OrderSent(order)
Submit ==
  /\ EntryStep
  /\ ticket.pending = Nothing
  /\ ticket.type # "market" => ticket.entry # 0
  /\ entryDesk.mode = "mt5"
  /\ \E side \in Sides, drawing \in {ticket.drawing, ticket.hot} :
       SendOrAsk(BuiltOrder(side, drawing))
  /\ UNCHANGED <<entryDesk, rowDialogs>>
RequestCloseAll ==
  /\ EntryStep
  /\ ticket.pending = Nothing
  /\ entryDesk.mode = "mt5"
  /\ SendOrAsk([kind |-> "closeAll", account |-> entryDesk.selected])
  /\ UNCHANGED <<entryDesk, rowDialogs>>
ConfirmLive ==
  /\ ticket.pending # Nothing
  /\ sentOrders' = OrderSent(ticket.pending)
  /\ ticket' = [ticket EXCEPT !.pending = Nothing]
  /\ UNCHANGED <<entryDesk, rowDialogs, entrySteps>>
CancelLive ==
  /\ ticket.pending # Nothing
  /\ ticket' = [ticket EXCEPT !.pending = Nothing]
  /\ UNCHANGED <<entryDesk, rowDialogs, sentOrders, entrySteps>>

(***************************************************************************)
(* PositionsTable and its dialogs.  The row a dialog was opened from is a  *)
(* snapshot: its side and its price.                                       *)
(***************************************************************************)
OpenRow ==
  /\ EntryStep
  /\ rowDialogs.editor = Nothing /\ rowDialogs.copy = Nothing /\ rowDialogs.confirm = Nothing
  /\ rowDialogs' \in
       {[rowDialogs EXCEPT !.editor = [side |-> s, price |-> 2, sl |-> 0, tp |-> 0,
                                       review |-> Nothing]] : s \in Sides}
         \union {[rowDialogs EXCEPT !.copy = [busy |-> FALSE, targets |-> EntryAccount
                                                \ {entryDesk.selected}]]}
         \union {[rowDialogs EXCEPT !.confirm = [account |-> entryDesk.selected]]}
  /\ UNCHANGED <<ticket, entryDesk, sentOrders>>
CloseRow ==
  /\ rowDialogs.copy # Nothing => ~ rowDialogs.copy.busy
  /\ rowDialogs # [editor |-> Nothing, copy |-> Nothing, confirm |-> Nothing]
  /\ rowDialogs' = [editor |-> Nothing, copy |-> Nothing, confirm |-> Nothing]
  /\ UNCHANGED <<ticket, entryDesk, sentOrders, entrySteps>>
(* Mt5OrderEditorDialog: validate, review, send *)
Protects(e) ==
  /\ e.sl > 0 => IF e.side = "long" THEN e.sl < e.price ELSE e.sl > e.price
  /\ e.tp > 0 => IF e.side = "long" THEN e.tp > e.price ELSE e.tp < e.price
EditProtection ==
  /\ EntryStep
  /\ rowDialogs.editor # Nothing /\ rowDialogs.editor.review = Nothing
  /\ \E sl, tp \in {0, 1, 3} : rowDialogs' = [rowDialogs EXCEPT !.editor.sl = sl, !.editor.tp = tp]
  /\ UNCHANGED <<ticket, entryDesk, sentOrders>>
ReviewProtection ==
  /\ rowDialogs.editor # Nothing
  /\ LET e == rowDialogs.editor
     IN  rowDialogs' = [rowDialogs EXCEPT !.editor.review =
           IF e.review # Nothing THEN Nothing
           ELSE IF Protects(e) THEN [sl |-> e.sl, tp |-> e.tp] ELSE Nothing]
  /\ rowDialogs' # rowDialogs
  /\ UNCHANGED <<ticket, entryDesk, sentOrders, entrySteps>>
SendProtection ==
  /\ rowDialogs.editor # Nothing /\ rowDialogs.editor.review # Nothing
  /\ \/ /\ entryDesk.connected
        /\ sentOrders' = [sentOrders EXCEPT !.modified = rowDialogs.editor]
        /\ rowDialogs' = [rowDialogs EXCEPT !.editor = Nothing]
     \/ ~ entryDesk.connected /\ UNCHANGED <<rowDialogs, sentOrders>>
  /\ UNCHANGED <<ticket, entryDesk, entrySteps>>
(* A close or a cancel is confirmed, then sent for the account selected by then. *)
ConfirmRow ==
  /\ rowDialogs.confirm # Nothing
  /\ sentOrders' = [sentOrders EXCEPT !.closed = [row |-> rowDialogs.confirm.account,
                                                  account |-> entryDesk.selected]]
  /\ rowDialogs' = [rowDialogs EXCEPT !.confirm = Nothing]
  /\ UNCHANGED <<ticket, entryDesk, entrySteps>>

(* CopyTradeDialog: buildExecutionCopyRequest refuses an empty set.  A     *)
(* request that was accepted and whose answer is lost leaves the dialog    *)
(* open, like one that was refused; a retry is another command.            *)
SelectTargets ==
  /\ EntryStep
  /\ rowDialogs.copy # Nothing /\ ~ rowDialogs.copy.busy
  /\ \E s \in SUBSET (EntryAccount \ {entryDesk.selected}) :
       rowDialogs' = [rowDialogs EXCEPT !.copy.targets = s]
  /\ UNCHANGED <<ticket, entryDesk, sentOrders>>
CopyRequest == rowDialogs.copy.targets \ {entryDesk.selected}
SubmitCopy ==
  /\ EntryStep
  /\ rowDialogs.copy # Nothing /\ ~ rowDialogs.copy.busy
  /\ CopyRequest # {}
  /\ rowDialogs' = [rowDialogs EXCEPT !.copy.busy = TRUE]
  /\ UNCHANGED <<ticket, entryDesk, sentOrders>>
CopyAnswered ==
  /\ rowDialogs.copy # Nothing /\ rowDialogs.copy.busy
  /\ rowDialogs' \in {[rowDialogs EXCEPT !.copy = Nothing],
                      [rowDialogs EXCEPT !.copy.busy = FALSE]}
  /\ UNCHANGED <<ticket, entryDesk, sentOrders, entrySteps>>

EntryNext ==
  \/ SelectEntryAccount \/ SetEntryMode \/ AskDefault \/ DeskChanges
  \/ \E q \in entryDesk.asked : DefaultArrives(q) \/ DefaultFails(q)
  \/ EditTicket \/ Prefill \/ Submit \/ RequestCloseAll \/ ConfirmLive \/ CancelLive
  \/ OpenRow \/ CloseRow \/ EditProtection \/ ReviewProtection \/ SendProtection \/ ConfirmRow
  \/ SelectTargets \/ SubmitCopy \/ CopyAnswered

EntrySpec == EntryInit /\ [][EntryNext]_entryVars

(***************************************************************************)
(* Properties.                                                             *)
(***************************************************************************)
(* A default the trader did not choose is the standard one only when the   *)
(* guard of the account that is selected now said it has no assignment,    *)
(* whatever answers of earlier accounts and prefills arrive                *)
(* (OrderTicket.tsx:346, 376).                                             *)
DefaultsAreEarned ==
  entryDesk.mode = "mt5" /\ ticket.source = "default"
    => ticket.unit = "%" /\ ticket.risk \in {PropDefault, entryDesk.told}

(* An order whose risk the trader did not touch was sized by a default that  *)
(* was earned when it was built.                                            *)
OrdersKeepDefaults ==
  \A o \in {ticket.pending, sentOrders.order} \ {Nothing} :
    o.kind = "order" /\ o.source = "default"
      => o.unit = "%" /\ o.risk \in {PropDefault, o.told}

(* An order that is sized by risk loses at its stop no more than the risk  *)
(* that was read from the field, unless the trader was warned that the     *)
(* broker's smallest volume is above it (positionSizing.ts:217,            *)
(* OrderTicket.tsx:215).                                                   *)
OrdersKeepToTheirRisk ==
  \A o \in {ticket.pending, sentOrders.order} \ {Nothing} :
    o.kind = "order" /\ o.auto /\ o.loss > 0
      => \/ o.volume * o.loss <= o.money
         \/ o.volume <= o.min /\ "MIN_VOLUME_INCREASED_RISK" \in o.warnings

(* What the ticket sends is sized by the risk the trader typed or by the    *)
(* default that the guard of the account selected when it was built gave,   *)
(* whatever answers of other accounts come late, and loses no more at its   *)
(* stop.  A field that was emptied counts as typed: it is read as one       *)
(* percent, or one unit of money, also where the placeholder shows a        *)
(* smaller default (OrderTicket.tsx:132, 154, 502).  An order that waits    *)
(* for its confirmation goes to the account selected by then, with the      *)
(* volume of the one it was built for.                                      *)
OrdersRiskWhatWasMeant == DefaultsAreEarned /\ OrdersKeepDefaults /\ OrdersKeepToTheirRisk
==============================================================================
