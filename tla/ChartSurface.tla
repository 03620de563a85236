---------------------------- MODULE ChartSurface ----------------------------
(***************************************************************************)
(* PriceChart: how the candles of a chart reach the Lightweight Charts     *)
(* series that draws them, by replacement, by single updates or by an      *)
(* animation during Replay; how indicator points do; who moves the         *)
(* viewport, at once or in a later frame; and how older history is asked   *)
(* for.  A candle's v is the identity of its object; 0 marks the partly    *)
(* grown candle of an animation.                                           *)
(***************************************************************************)
EXTENDS Partial, SequencesExt

CONSTANTS
  SurfaceMarket,    \* market series keys
  ReplayRun,        \* Replay sessions
  FitBars,          \* MIN_COMPLETE_AUTO_FIT_BARS
  LastTime,         \* bound: times of candles
  MaxSurfaceSteps   \* bound: changes of what the chart is given

ASSUME SurfaceConstants == LastTime \in Nat /\ Nothing \notin ReplayRun

VARIABLES
  given,      \* the props: market, candles, theme, session (Nothing: live), playing, version
  surface,    \* series, prev, lookup, count, latest, growing, initialized, fitted, lastFit, reset, applied, theme
  frames,     \* the frames that wait to move the viewport
  view,       \* revision, writes, cause, gestured (revision of the last gesture), grip, auto
  older,      \* loading of older history: generation, busy, asked (first time), running
  plotted,    \* an indicator: points (its result), drawn (its series), written, structure
  surfaceSteps

surfaceVars == <<given, surface, frames, view, older, plotted, surfaceSteps>>
SurfaceStep == surfaceSteps < MaxSurfaceSteps /\ surfaceSteps' = surfaceSteps + 1
Bar(t, v) == [t |-> t, v |-> v]
Bars(from, to, v) == [i \in 1..(to - from + 1) |-> Bar(from + i - 1, v)]
ByTime(bars) == [t \in {bars[i].t : i \in DOMAIN bars} |-> bars[CHOOSE i \in DOMAIN bars : bars[i].t = t].v]
Replaying(g) == g.session # Nothing
NoFrames == [fit |-> Nothing, prepend |-> Nothing, start |-> Nothing]

(***************************************************************************)
(* Write plans                                                             *)
(***************************************************************************)
SamePrefix(a, b, n) == \A i \in 1..n : a[i] = b[i]
LengthsDecide(previous, next, same) ==
  IF ~ same \/ previous = <<>> \/ next = <<>> THEN "replace"
  ELSE IF Len(next) = Len(previous) /\ Last(next).t = Last(previous).t THEN "update-latest"
  ELSE IF Len(next) = Len(previous) + 1 THEN "append" ELSE "replace"
ResolveUpdatePlan(previous, next, same) ==
  IF ~ same \/ previous = <<>> \/ next = <<>> THEN "replace"
  ELSE IF Len(next) = Len(previous) /\ Last(next).t = Last(previous).t
            /\ SamePrefix(previous, next, Len(next) - 1) THEN "update-latest"
  ELSE IF Len(next) = Len(previous) + 1 /\ SamePrefix(previous, next, Len(previous)) THEN "append"
  ELSE "replace"
(* The bars a Replay batch adds behind the one that was forming. *)
ReplayAppended(previous, next) ==
  IF /\ previous # <<>> /\ Len(next) > Len(previous)
     /\ SamePrefix(previous, next, Len(previous) - 1) /\ Last(previous).t = next[Len(previous)].t
  THEN SubSeq(next, Len(previous) + 1, Len(next)) ELSE <<>>
(* ISeriesApi.update: the last bar, or a new one behind it. *)
Updated(series, bar) ==
  IF series # <<>> /\ Last(series).t = bar.t THEN [series EXCEPT ![Len(series)] = bar] ELSE Append(series, bar)
UpdateLookup(lookup, bars, plan) ==
  CASE bars = <<>> -> None
    [] bars # <<>> /\ plan = "update-latest" -> Put(lookup, Last(bars).t, Last(bars).v)
    [] bars # <<>> /\ plan = "append" -> Put(Put(lookup, bars[Len(bars) - 1].t, bars[Len(bars) - 1].v), Last(bars).t, Last(bars).v)
    [] OTHER -> ByTime(bars)
ShouldFreeze(s, g) ==
  Replaying(g) /\ ~ g.playing /\ s.growing # <<>> /\ g.session = s.initialized /\ g.candles = s.prev

(***************************************************************************)
(* The candle effect                                                       *)
(***************************************************************************)
Frozen(s, g) ==
  LET n == IF s.count < Len(g.candles) THEN s.count ELSE Len(g.candles)
  IN  [s EXCEPT !.growing = <<>>, !.theme = g.theme,
         !.prev = IF n > 0 /\ s.latest # Nothing THEN Append(SubSeq(g.candles, 1, n - 1), s.latest) ELSE @]
AllSet(s, bars) == [s EXCEPT !.series = bars, !.count = Len(bars), !.latest = IF bars = <<>> THEN Nothing ELSE Last(bars)]
(* The first candle grows from its open, after the forming one is final. *)
Bursting(s, g, burst) ==
  LET start == Bar(burst[1].t, 0)
  IN  [s EXCEPT !.series = Updated(Updated(s.prev, g.candles[Len(s.prev)]), start),
                !.latest = start, !.count = Len(s.prev) + 1, !.growing = burst]
LatestWritten(s, g, plan) ==
  LET target == Last(g.candles)
      base == IF plan = "append" THEN Updated(s.series, g.candles[Len(g.candles) - 1]) ELSE s.series
      start == IF s.latest # Nothing /\ s.latest.t = target.t THEN s.latest ELSE Bar(target.t, 0)
      animates == Replaying(g) /\ g.playing /\ start # target
  IN  [s EXCEPT !.series = Updated(base, IF animates THEN start ELSE target),
                !.latest = IF animates THEN start ELSE target, !.count = Len(g.candles),
                !.growing = IF animates THEN <<target>> ELSE <<>>]
Pushed(s, g) ==
  LET same == s.theme = g.theme
      plan == ResolveUpdatePlan(s.prev, g.candles, same)
      burst == IF Replaying(g) /\ g.playing /\ same THEN ReplayAppended(s.prev, g.candles) ELSE <<>>
      still == [s EXCEPT !.growing = <<>>]
      jumped == Replaying(g) /\ ~ g.playing /\ s.count # Len(g.candles)
      wrote == CASE ~ jumped /\ burst # <<>> -> Bursting(still, g, burst)
                 [] ~ jumped /\ burst = <<>> /\ plan \in {"update-latest", "append"} -> LatestWritten(still, g, plan)
                 [] OTHER -> AllSet(still, g.candles)
  IN  [wrote EXCEPT !.prev = g.candles, !.theme = g.theme, !.applied = g.market,
                    !.lookup = UpdateLookup(s.lookup, g.candles, plan)]
(* A symbol or timeframe change is a fresh window; so is a disjoint one. *)
Overlap(a, b) == a # <<>> /\ b # <<>> /\ a[1].t <= Last(b).t /\ b[1].t <= Last(a).t
Structural(s, g) == s.theme = g.theme /\ s.prev # <<>> /\ g.candles # <<>>
                      /\ ResolveUpdatePlan(s.prev, g.candles, TRUE) = "replace"
DataWindowReset(s, g) == s.applied # g.market \/ (Structural(s, g) /\ ~ Overlap(s.prev, g.candles))
AutoFit(s, g) ==
  LET enough == Len(g.candles) >= FitBars
  IN  CASE g.candles = <<>> -> [fit |-> FALSE, complete |-> FALSE]
        [] g.candles # <<>> /\ DataWindowReset(s, g) -> [fit |-> TRUE, complete |-> enough]
        [] g.candles # <<>> /\ ~ DataWindowReset(s, g) /\ ~ Replaying(g) /\ Structural(s, g) /\ Len(s.prev) < FitBars /\ enough ->
             [fit |-> TRUE, complete |-> TRUE]
        [] OTHER -> IF ~ s.fitted /\ Len(g.candles) # s.lastFit THEN [fit |-> TRUE, complete |-> enough]
                    ELSE [fit |-> FALSE, complete |-> s.fitted]

(***************************************************************************)
(* The viewport controller                                                 *)
(***************************************************************************)
Published(v, cause, wrote) == [v EXCEPT !.revision = @ + 1, !.cause = cause, !.writes = @ + (IF wrote THEN 1 ELSE 0)]
ResetViewport(v) == [Published(v, "market-change", TRUE) EXCEPT !.grip = FALSE, !.auto = TRUE]
Ticket(g, v) == [market |-> g.market, revision |-> v.revision, writes |-> v.writes,
                 ends |-> IF g.candles = <<>> THEN <<>> ELSE <<g.candles[1].t, Last(g.candles).t>>]
SameRevision(v, ticket) == v.revision = ticket.revision

(* One commit: the effect of a market change, then the candle effect, then *)
(* what it does to the viewport.                                           *)
MarketEffect(s, g) == IF g.market = given.market THEN s ELSE [s EXCEPT !.fitted = FALSE, !.lastFit = 0, !.reset = TRUE]
Emptied(s, g) == IF g.candles = <<>> THEN [s EXCEPT !.fitted = FALSE, !.lastFit = 0, !.initialized = Nothing] ELSE s
FrameCommitted(g) ==
  LET switched == g.market # given.market
      s0 == MarketEffect(surface, g)
      s1 == Emptied(s0, g)
      kept == IF switched THEN [frames EXCEPT !.fit = Nothing, !.prepend = Nothing] ELSE frames
      f1 == IF g.candles = <<>> THEN [kept EXCEPT !.start = Nothing] ELSE kept
      pushed == Pushed(s1, g)
      fit == AutoFit(s1, g)
      latest == s1.reset /\ g.candles # <<>> /\ ~ Replaying(g)
      opens == g.candles # <<>> /\ Replaying(g) /\ g.session # s1.initialized
      moved == Structural(s1, g) /\ ~ DataWindowReset(s1, g) /\ s1.fitted
                 /\ \E i \in DOMAIN g.candles : i > 1 /\ g.candles[i].t = s1.prev[1].t
      f2 == IF moved THEN [f1 EXCEPT !.prepend = Ticket(g, view)] ELSE f1
      v0 == IF switched THEN [view EXCEPT !.grip = FALSE] ELSE view
      later == DataWindowReset(s1, g)
  IN  IF ShouldFreeze(s0, g)
      THEN surface' = Frozen(s0, g) /\ frames' = kept /\ view' = v0
      ELSE CASE latest -> /\ surface' = [pushed EXCEPT !.reset = FALSE, !.lastFit = Len(g.candles), !.fitted = TRUE]
                          /\ frames' = IF later THEN [f2 EXCEPT !.fit = Ticket(g, view)] ELSE f2
                          /\ view' = IF later THEN v0 ELSE ResetViewport(v0)
             [] ~ latest /\ opens -> /\ surface' = [pushed EXCEPT !.initialized = g.session, !.lastFit = Len(g.candles), !.fitted = TRUE]
                                     /\ frames' = [f2 EXCEPT !.start = Ticket(g, view)] /\ view' = v0
             [] ~ latest /\ ~ opens /\ fit.fit ->
                  /\ surface' = [pushed EXCEPT !.lastFit = Len(g.candles), !.fitted = fit.complete]
                  /\ frames' = IF later THEN [f2 EXCEPT !.fit = Ticket(g, view)] ELSE f2
                  /\ view' = IF later THEN v0 ELSE ResetViewport(v0)
             [] OTHER -> surface' = pushed /\ frames' = f2 /\ view' = v0
Given(g) ==
  /\ SurfaceStep /\ given' = [g EXCEPT !.version = @ + 1] /\ FrameCommitted(g)
  /\ older' = IF g.market = given.market THEN older
              ELSE [older EXCEPT !.generation = @ + 1, !.busy = FALSE, !.asked = Nothing]
  /\ UNCHANGED plotted

(* The chart is created behind the first commit, when the candle effect    *)
(* has passed.  The candles it is mounted with are drawn by the effect of  *)
(* ready alone, which records none of them.                                *)
Mounted == 2
AsMounted == given.version = Mounted
SurfaceInit ==
  /\ \E k \in SurfaceMarket, bars \in {<<>>, Bars(2, 3, 1)}, r \in ReplayRun \union {Nothing}, playing \in BOOLEAN :
       /\ r = Nothing => ~ playing
       /\ r # Nothing => bars # <<>>
       /\ given = [market |-> k, candles |-> bars, theme |-> "dark", session |-> r, playing |-> playing, version |-> Mounted]
       /\ surface = [series |-> bars, prev |-> <<>>, lookup |-> None, count |-> 0, latest |-> Nothing, growing |-> <<>>,
                     initialized |-> Nothing, fitted |-> FALSE, lastFit |-> 0, reset |-> TRUE, applied |-> Nothing, theme |-> Nothing]
  /\ frames = NoFrames
  /\ view = [revision |-> 0, writes |-> 0, cause |-> "user", gestured |-> 0, grip |-> FALSE, auto |-> TRUE]
  /\ older = [generation |-> 0, busy |-> FALSE, asked |-> Nothing, running |-> {}]
  /\ plotted = [points |-> <<>>, drawn |-> <<>>, written |-> <<>>, structure |-> 0] /\ surfaceSteps = 0

(***************************************************************************)
(* What the chart is given                                                 *)
(***************************************************************************)
ShownWindow(from, to) == Bars(from, to, given.version)
LoadsWindow == ~ Replaying(given) /\ \E from \in 1..LastTime, to \in 1..LastTime :
                 from <= to /\ Given([given EXCEPT !.candles = ShownWindow(from, to)])
SwitchMarket(k) ==
  /\ k # given.market /\ ~ Replaying(given)
  /\ \E bars \in {<<>>, ShownWindow(2, 3)} : Given([given EXCEPT !.market = k, !.candles = bars])
TickShown == /\ given.candles # <<>> /\ ~ Replaying(given)
               /\ Given([given EXCEPT !.candles[Len(given.candles)].v = given.version])
BarOpens == /\ given.candles # <<>> /\ ~ Replaying(given) /\ Last(given.candles).t < LastTime
            /\ Given([given EXCEPT !.candles = Append(@, Bar(Last(given.candles).t + 1, given.version))])
OlderArrives == /\ given.candles # <<>> /\ ~ Replaying(given) /\ given.candles[1].t > 1
                /\ Given([given EXCEPT !.candles = <<Bar(given.candles[1].t - 1, given.version)>> \o @])
ChangeTheme == Given([given EXCEPT !.theme = IF @ = "dark" THEN "light" ELSE "dark"])
ReplayOpens(r) == r # given.session /\ Given([given EXCEPT !.session = r, !.playing = FALSE, !.candles = ShownWindow(1, 2)])
ReplayPlays == Replaying(given) /\ Given([given EXCEPT !.playing = ~ @])
(* A commit of the Replay clock: the forming bar is final, bars follow. *)
ReplayBatch(n) ==
  /\ Replaying(given) /\ given.candles # <<>> /\ Last(given.candles).t + n <= LastTime
  /\ LET old == given.candles
     IN  Given([given EXCEPT !.candles = SubSeq(old, 1, Len(old) - 1) \o ShownWindow(Last(old).t, Last(old).t + n)])
ReplaySpeedChanges == Replaying(given) /\ given.playing /\ Given(given)
ReplayLeaves == Replaying(given) /\ Given([given EXCEPT !.session = Nothing, !.playing = FALSE, !.candles = ShownWindow(1, LastTime)])

(***************************************************************************)
(* Frames                                                                  *)
(***************************************************************************)
AnimationFrame ==
  LET target == surface.growing[1]
      rest == Tail(surface.growing)
      next == IF rest = <<>> THEN Nothing ELSE Bar(rest[1].t, 0)
      grown == Updated(surface.series, target)
  IN  /\ surface.growing # <<>>
      /\ surface' = [surface EXCEPT !.growing = rest,
                       !.series = IF rest = <<>> THEN grown ELSE Updated(grown, next),
                       !.latest = IF rest = <<>> THEN target ELSE next,
                       !.count = IF rest = <<>> THEN Len(surface.prev) ELSE @ + 1]
      /\ UNCHANGED <<given, frames, view, older, plotted, surfaceSteps>>
Fires(name) == frames[name] # Nothing /\ frames' = [frames EXCEPT ![name] = Nothing]
                 /\ UNCHANGED <<given, surface, older, plotted, surfaceSteps>>
FitFrame ==
  /\ Fires("fit") /\ LET ticket == frames.fit
     IN  view' = IF SameRevision(view, ticket) /\ given.market = ticket.market THEN ResetViewport(view) ELSE view
PrependFrame ==
  /\ Fires("prepend")
  /\ view' = IF SameRevision(view, frames.prepend) THEN Published(view, "history-prepend", TRUE) ELSE view
ReplayStartFrame ==
  /\ Fires("start")
  /\ view' = IF Replaying(given) /\ given.market = frames.start.market
             THEN Published(view, "replay-realign", TRUE) ELSE view

(***************************************************************************)
(* Gestures, navigation, older history, indicators                         *)
(***************************************************************************)
Looks(v) == SurfaceStep /\ view' = v /\ UNCHANGED <<given, surface, frames, older, plotted>>
BeginGesture == Looks([view EXCEPT !.revision = @ + 1, !.cause = "user", !.gestured = view.revision + 1, !.grip = TRUE])
PanPrice == view.grip /\ view.auto /\ Looks([view EXCEPT !.auto = FALSE])
EndGesture == view.grip /\ Looks([view EXCEPT !.grip = FALSE])
(* A range notification of the chart itself. *)
HandleUserRange == Looks(Published(view, "user", FALSE))
NavigateTime(wrote) == Looks([Published(view, "time-navigation", wrote) EXCEPT !.grip = FALSE, !.auto = TRUE])

LoadDone(o, load) == [o EXCEPT !.running = @ \ {load}, !.busy = IF load[2] = o.generation THEN FALSE ELSE @]
UNCHANGEDButOlder == UNCHANGED <<given, surface, frames, view, plotted>>
AskOlder ==
  /\ SurfaceStep /\ ~ surface.reset /\ ~ older.busy /\ given.candles # <<>> /\ older.asked # given.candles[1].t
  /\ older' = [older EXCEPT !.busy = TRUE, !.asked = given.candles[1].t,
                            !.running = @ \union {<<surfaceSteps, older.generation>>}]
  /\ UNCHANGEDButOlder
OlderBarsAnswer(load, exhausted) ==
  /\ load \in older.running
  /\ LET current == load[2] = older.generation
     IN  older' = [LoadDone(older, load) EXCEPT !.asked = IF current /\ ~ exhausted THEN Nothing ELSE @]
  /\ UNCHANGEDButOlder /\ UNCHANGED surfaceSteps

IndicatorPlan(previous, next) ==
  CASE previous = next -> "none"
    [] previous # next /\ Len(previous) = Len(next) /\ SamePrefix(previous, next, Len(next) - 1) /\ Last(previous).t = Last(next).t -> "update"
    [] Len(next) = Len(previous) + 1 /\ SamePrefix(previous, next, Len(previous)) -> "update"
    [] OTHER -> "replace"
(* A series whose structure changed is created anew, without points. *)
SeriesFor(p, structure) ==
  IF structure = p.structure THEN p ELSE [p EXCEPT !.structure = structure, !.drawn = <<>>, !.written = <<>>]
SeriesWritten(p, points) ==
  LET plan == IndicatorPlan(p.written, points)
  IN  [p EXCEPT !.points = points, !.written = points,
         !.drawn = CASE plan = "none" -> @ [] plan = "update" -> Updated(@, Last(points)) [] plan = "replace" -> points]
IndicatorResult(points, structure) ==
  /\ SurfaceStep /\ plotted' = SeriesWritten(SeriesFor(plotted, structure), points)
  /\ UNCHANGED <<given, surface, frames, view, older>>

SurfaceNext ==
  \/ LoadsWindow \/ TickShown \/ BarOpens \/ OlderArrives \/ ChangeTheme
  \/ \E k \in SurfaceMarket : SwitchMarket(k)
  \/ ReplayPlays \/ ReplaySpeedChanges \/ ReplayLeaves \/ (\E r \in ReplayRun : ReplayOpens(r)) \/ \E n \in 1..2 : ReplayBatch(n)
  \/ AnimationFrame \/ FitFrame \/ PrependFrame \/ ReplayStartFrame
  \/ BeginGesture \/ PanPrice \/ EndGesture \/ HandleUserRange \/ \E wrote \in BOOLEAN : NavigateTime(wrote)
  \/ AskOlder \/ \E load \in older.running, exhausted \in BOOLEAN : OlderBarsAnswer(load, exhausted)
  \/ \E from, to \in 1..2, v \in 1..2, structure \in 0..1 : IndicatorResult(Bars(from, to, v), structure)

SurfaceSpec == SurfaceInit /\ [][SurfaceNext]_surfaceVars

(* Outside Replay the series draws exactly the candles the chart was given *)
(* and, once one of its inputs changed, the crosshair's lookup holds the   *)
(* same ones; an indicator's series draws exactly its last result:         *)
(* whatever mixture of single updates and replacements the plans chose,    *)
(* over market, theme and Replay changes (resolveRealtimeSeriesUpdatePlan, *)
(* resolveIndicatorSeriesWritePlan).  Until then the lookup of a chart     *)
(* that was mounted with candles is empty (PriceChart.tsx:767, 901, 1244). *)
SurfaceShowsData ==
  /\ ~ Replaying(given) => surface.series = given.candles
  /\ surface.lookup = IF AsMounted THEN None ELSE ByTime(given.candles)
  /\ plotted.drawn = plotted.points

(* A frame that was put off, to fit a new market or to keep the view after *)
(* older history came, does not move the viewport when the user has taken  *)
(* hold of the chart since (setLogicalRangeIfRevision, resetIfRevision).   *)
FramesYieldToGestures ==
  [][\A name \in {"fit", "prepend"} :
       (frames[name] # Nothing /\ frames'[name] = Nothing /\ view'.writes > view.writes)
         => view.gestured <= frames[name].revision]_surfaceVars

(* While Replay plays, once the animation is over the series draws the     *)
(* candles that were revealed.                                             *)
RevealedIsDrawn == (given.playing /\ surface.growing = <<>>) => surface.series = given.candles
==============================================================================
