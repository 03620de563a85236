---------------------------- MODULE TechnicalAlerts ----------------------------
(***************************************************************************)
(* Alerts on the lines and channels of drawings, as the closed-browser     *)
(* worker replays them (services/dynamicAlertTargets and the matching of   *)
(* server/pushAlertEvaluator): each pass reads the ticks received so far,  *)
(* gives every alert those after its cursor in the order of the market,    *)
(* and keeps, per alert, where it stopped and, per symbol, the last price. *)
(*                                                                         *)
(* The alerts of one symbol on one device.  What a trigger does once found *)
(* is in PushEvaluator; here an alert fires once per arming revision.      *)
(***************************************************************************)
EXTENDS Partial, Integers, FiniteSetsExt

CONSTANTS
  Watched,        \* alerts of the symbol, in the order of the device: a sequence
  Targets,        \* kind, operator, domain <<from, to>>, price at the start, slope, width
  TickPrice,      \* prices
  MaxTicks,       \* bound: ticks, whose market times are 1..MaxTicks
  MaxArmings      \* bound: edits of the alerts

VARIABLES
  tape,       \* ticks in the order received: price, at (market time)
  armed,      \* each alert: target, since (ticks received when armed), revision
  progress,   \* alertState: revision, through (cursor), lastAt, fired, expired
  lastPrice,  \* device.lastPrices of the symbol
  armings

ASSUME TechnicalConstants ==
  /\ TickPrice \subseteq Nat /\ MaxTicks \in Nat
  /\ \A g \in Targets : g.domain[1] \in Nat /\ g.domain[2] \in Nat

technicalVars == <<tape, armed, progress, lastPrice, armings>>
Watchers == {Watched[n] : n \in DOMAIN Watched}

(***************************************************************************)
(* Targets.                                                                *)
(***************************************************************************)
TargetAt(g, t) ==
  IF t < g.domain[1] THEN [active |-> FALSE, reason |-> "before"]
  ELSE IF t > g.domain[2] THEN [active |-> FALSE, reason |-> "expired"]
  ELSE LET low == g.price + g.slope * (t - g.domain[1])
       IN  IF low <= 0 THEN [active |-> FALSE, reason |-> "invalid"]
           ELSE [active |-> TRUE, lower |-> low, upper |-> low + g.width]
ChannelLocation(p, r) == IF p < r.lower THEN "below" ELSE IF p > r.upper THEN "above" ELSE "inside"
Inside(p, r) == ChannelLocation(p, r) = "inside"
Rises(p, b, q, c) == p - b < 0 /\ q - c >= 0
Falls(p, b, q, c) == p - b > 0 /\ q - c <= 0

(* evaluateTechnicalAlert: previous is Nothing or a point of the market. *)
Triggered(g, previous, point) ==
  LET now == TargetAt(g, point.at)
      before == TargetAt(g, previous.at)
      p == previous.price
      q == point.price
      edge == previous # Nothing /\ before.active
  IN  /\ now.active
      /\ CASE g.operator = "above" -> q >= now.lower
           [] g.operator = "below" -> q <= now.lower
           [] g.operator = "inside" -> Inside(q, now)
           [] g.operator = "outside" -> ~ Inside(q, now)
           [] g.operator = "enter" -> edge /\ ~ Inside(p, before) /\ Inside(q, now)
           [] g.operator = "exit" -> edge /\ Inside(p, before) /\ ~ Inside(q, now)
           [] g.operator \in {"crossUp", "lower-up"} -> edge /\ Rises(p, before.lower, q, now.lower)
           [] g.operator \in {"crossDown", "lower-down"} -> edge /\ Falls(p, before.lower, q, now.lower)
           [] g.operator = "upper-up" -> edge /\ Rises(p, before.upper, q, now.upper)
           [] g.operator = "upper-down" -> edge /\ Falls(p, before.upper, q, now.upper)

(* orderedTechnicalPricePoints: a tick older than one before it is dropped. *)
Ordered == {n \in DOMAIN tape : \A m \in 1..n - 1 : tape[m].at <= tape[n].at}
Before(points, n, carried) ==
  LET earlier == {m \in points : m < n}
  IN  IF earlier = {} THEN carried ELSE tape[Max(earlier)]
FindTrigger(g, carried, points) ==
  LET hits == {n \in points : Triggered(g, Before(points, n, carried), tape[n])}
  IN  IF hits = {} THEN 0 ELSE Min(hits)

(***************************************************************************)
(* One pass over one alert; a state of another revision is as no state.    *)
(***************************************************************************)
Same(i) == progress[i] # Nothing /\ progress[i].revision = armed[i].revision
Since(i) == IF Same(i) THEN progress[i].through ELSE armed[i].since
NoBaseline(i) == Nothing
Baseline(i) ==
  IF Same(i) /\ lastPrice # Nothing /\ progress[i].lastAt # 0
  THEN [price |-> lastPrice, at |-> progress[i].lastAt] ELSE Nothing
ReplayTicks(i) ==
  {n \in Ordered : n > Since(i) /\ (Same(i) => tape[n].at >= progress[i].lastAt)}
LastAt(i) ==
  IF ReplayTicks(i) # {} THEN tape[Max(ReplayTicks(i))].at
  ELSE IF Same(i) THEN progress[i].lastAt ELSE 0
Expires(i) ==
  ReplayTicks(i) # {} /\ LET last == TargetAt(armed[i].target, LastAt(i))
                         IN  ~ last.active /\ last.reason = "expired"
NotYetFired(i) == ~ Same(i) \/ (progress[i].fired = 0 /\ ~ progress[i].expired)
Evaluated(i) ==
  [revision |-> armed[i].revision, through |-> Len(tape), lastAt |-> LastAt(i),
   fired |-> IF NotYetFired(i) THEN FindTrigger(armed[i].target, Baseline(i), ReplayTicks(i))
             ELSE progress[i].fired,
   expired |-> Expires(i) \/ (Same(i) /\ progress[i].expired)]
AcceptedCurrent(i) ==
  IF ReplayTicks(i) # {} THEN tape[Max(ReplayTicks(i))].price
  ELSE IF lastPrice # Nothing THEN lastPrice ELSE tape[Max(Ordered)].price

(* Every alert reads the prices of before; the last one's price is kept. *)
WorkerPass ==
  /\ tape # <<>>
  /\ progress' = [i \in Watchers |-> Evaluated(i)]
  /\ lastPrice' = AcceptedCurrent(Watched[Len(Watched)])
  /\ UNCHANGED <<tape, armed, armings>>

TickReceived(p, t) ==
  /\ Len(tape) < MaxTicks
  /\ tape' = Append(tape, [price |-> p, at |-> t])
  /\ UNCHANGED <<armed, progress, lastPrice, armings>>

(* The browser edits an alert: a new revision, armed from now on. *)
Arm(i, g) ==
  /\ armings < MaxArmings
  /\ armings' = armings + 1
  /\ armed' = [armed EXCEPT ![i] = [target |-> g, since |-> Len(tape), revision |-> @.revision + 1]]
  /\ UNCHANGED <<tape, progress, lastPrice>>

TechnicalInit ==
  /\ tape = <<>>
  /\ armed \in [Watchers -> {[target |-> g, since |-> 0, revision |-> 1] : g \in Targets}]
  /\ progress = [i \in Watchers |-> Nothing]
  /\ lastPrice = Nothing
  /\ armings = 0

TechnicalNext ==
  \/ WorkerPass
  \/ \E p \in TickPrice, t \in 1..MaxTicks : TickReceived(p, t)
  \/ \E i \in Watchers, g \in Targets : Arm(i, g)

TechnicalSpec == TechnicalInit /\ [][TechnicalNext]_technicalVars

(* However the ticks are split over the passes, and whatever came late or   *)
(* out of order, an alert has fired at the first of the ticks since it was  *)
(* armed that meets its condition with the tick before it, and not at all   *)
(* when there is none: "previous and current are consecutive observations   *)
(* after the alert is armed" (PHASE10_ALERT_API_SYNC.md:79; pushAlert-      *)
(* Evaluator.ts:729-792).                                                   *)
FiredAtTheFirstCrossing ==
  \A i \in Watchers :
    Same(i) =>
      progress[i].fired =
        FindTrigger(armed[i].target, Nothing,
                    {n \in Ordered : armed[i].since < n /\ n <= progress[i].through})
================================================================================
