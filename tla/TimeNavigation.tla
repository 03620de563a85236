---------------------------- MODULE TimeNavigation ----------------------------
(***************************************************************************)
(* The time toolbar of a chart: the range shortcuts the backend resolves,  *)
(* which may change the timeframe first; the "Go to" dialog, which takes a *)
(* wall-clock date in the chart's time zone, loads the bars around it when *)
(* they are missing and jumps to the first bar at or after it; the marker  *)
(* of the jump; and the time zone menu.                                    *)
(***************************************************************************)
EXTENDS Partial, Integers, FiniteSetsExt

CONSTANTS
  NavSymbol,      \* symbols
  Traded,         \* symbol -> times the provider has bars of
  Shortcut,       \* shortcut -> timeframe it is shown in (backend catalog)
  Zone,           \* time zones: since, before, after (offsets of a clock change)
  LastTick,       \* bound: times
  SeedBars,       \* bars a switch of the series seeds
  MaxNavSteps     \* bound: acts of the user and failures
ASSUME NavConstants ==
  /\ SeedBars \in Nat /\ LastTick \in Nat /\ Traded \in [NavSymbol -> SUBSET (0..LastTick)]
  /\ Shortcut \in [DOMAIN Shortcut -> {1, 2}]
  /\ \A z \in Zone : z.since \in Int /\ z.before \in Int /\ z.after \in Int

VARIABLES
  plot,       \* symbol, timeframe, loading, bars (times)
  toolbar,    \* catalog, zone, menu, active (the highlighted shortcut), clicks
  shortcuts,  \* asked: requests to the backend; pending: waits for its timeframe
  goTo,       \* open, draft, month, busy, error, last (remembered), pending
  jump,       \* range (what the viewport was last set to), marker
  navSteps

navVars == <<plot, toolbar, shortcuts, goTo, jump, navSteps>>
NavStep == navSteps < MaxNavSteps /\ navSteps' = navSteps + 1

(***************************************************************************)
(* Bars and clocks                                                         *)
(***************************************************************************)
(* Bars of a timeframe f open at multiples of f. *)
BarsOf(symbol, f) == {t - (t % f) : t \in Traded[symbol]}
Seeded(symbol, f) == {t \in BarsOf(symbol, f) : Cardinality({u \in BarsOf(symbol, f) : u > t}) < SeedBars}
CandlesCover(bars, t) == bars # {} /\ Min(bars) <= t /\ t <= Max(bars)
(* firstCandleIndexAtOrAfter: the binary search over the n bars, in order, *)
(* between lo and hi; a bar late enough was found at best, or none at n.   *)
Search(at, n, t) ==
  LET search[w \in (0..n) \X (-1..n - 1) \X (0..n)] ==
        LET lo == w[1]  hi == w[2]  best == w[3]  mid == (lo + hi) \div 2
        IN  IF lo > hi THEN best
            ELSE IF at[mid] >= t THEN search[<<lo, mid - 1, mid>>] ELSE search[<<mid + 1, hi, best>>]
  IN  search[<<0, n - 1, n>>]
CandleArray(bars) ==
  [i \in 0..Cardinality(bars) - 1 |-> CHOOSE b \in bars : Cardinality({c \in bars : c < b}) = i]
FirstAtOrAfter(bars, t) ==
  LET n == Cardinality(bars)
      found == Search(CandleArray(bars), n, t)
  IN  IF found = n THEN Nothing ELSE CandleArray(bars)[found]
Offset(z, t) == IF t >= z.since THEN z.after ELSE z.before
WallClock(z, t) == t + Offset(z, t)
OffsetOfTheWall(z, wall) == wall - Offset(z, wall)
(* parseLocalDateTime: the offset is refined four times. *)
ParseLocalDateTime(z, wall) ==
  LET refined[n \in 0..4] == IF n = 0 THEN wall ELSE wall - Offset(z, refined[n - 1])
  IN  refined[4]

NavInit ==
  /\ \E s \in NavSymbol : plot = [symbol |-> s, timeframe |-> 1, loading |-> FALSE, bars |-> Seeded(s, 1)]
  /\ \E z \in Zone : toolbar = [catalog |-> FALSE, zone |-> z, menu |-> FALSE, active |-> Nothing, clicks |-> 0]
  /\ shortcuts = [asked |-> {}, pending |-> Nothing]
  /\ goTo = [open |-> FALSE, draft |-> Nothing, busy |-> Nothing, error |-> FALSE, last |-> Nothing, pending |-> Nothing]
  /\ jump = [range |-> Nothing, marker |-> Nothing] /\ navSteps = 0

(***************************************************************************)
(* The series under the toolbar                                            *)
(***************************************************************************)
Switched(s, f) == plot' = [symbol |-> s, timeframe |-> f, loading |-> TRUE, bars |-> {}]
SelectSeries(s, f) ==
  /\ NavStep /\ <<s, f>> # <<plot.symbol, plot.timeframe>> /\ Switched(s, f)
  /\ UNCHANGED <<toolbar, shortcuts, goTo, jump>>
SeriesSeeds ==
  /\ plot.loading /\ plot' = [plot EXCEPT !.loading = FALSE, !.bars = Seeded(plot.symbol, plot.timeframe)]
  /\ UNCHANGED <<toolbar, shortcuts, goTo, jump, navSteps>>
Offered == ~ plot.loading /\ plot.bars # {}

(***************************************************************************)
(* Range shortcuts                                                         *)
(***************************************************************************)
CatalogKnown ==
  /\ ~ toolbar.catalog /\ toolbar' = [toolbar EXCEPT !.catalog = TRUE]
  /\ UNCHANGED <<plot, shortcuts, goTo, jump, navSteps>>
(* The answer is compared with the timeframe of the click. *)
JumpShortcut(sc) ==
  /\ NavStep /\ toolbar.catalog /\ Offered
  /\ toolbar' = [toolbar EXCEPT !.clicks = @ + 1]
  /\ shortcuts' = [shortcuts EXCEPT !.asked = @ \union
                    {[id |-> toolbar.clicks + 1, shortcut |-> sc, anchor |-> Max(plot.bars), seen |-> plot.timeframe]}]
  /\ UNCHANGED <<plot, goTo, jump>>
NewestClick(r) == r.id = toolbar.clicks
ApplyShortcutViewport(r) == jump' = [jump EXCEPT !.range = [shortcut |-> r.shortcut, to |-> r.anchor]]
ShortcutResolves(r) ==
  LET f == Shortcut[r.shortcut]
  IN  /\ UNCHANGED <<goTo, navSteps>>
      /\ IF ~ NewestClick(r)
         THEN shortcuts' = [shortcuts EXCEPT !.asked = @ \ {r}] /\ UNCHANGED <<plot, toolbar, jump>>
         ELSE /\ toolbar' = [toolbar EXCEPT !.active = r.shortcut]
              /\ shortcuts' = [asked |-> shortcuts.asked \ {r}, pending |-> IF f = r.seen THEN Nothing ELSE r]
              /\ IF f = r.seen THEN ApplyShortcutViewport(r) /\ UNCHANGED plot
                 ELSE /\ IF f = plot.timeframe THEN UNCHANGED plot ELSE Switched(plot.symbol, f)
                      /\ UNCHANGED jump
ShortcutFails(r) ==
  /\ NavStep /\ shortcuts' = [shortcuts EXCEPT !.asked = @ \ {r}] /\ UNCHANGED <<plot, toolbar, goTo, jump>>
(* The frame after the series of its timeframe has come. *)
PendingShortcutApplies ==
  /\ shortcuts.pending # Nothing /\ Offered /\ Shortcut[shortcuts.pending.shortcut] = plot.timeframe
  /\ ApplyShortcutViewport(shortcuts.pending)
  /\ toolbar' = [toolbar EXCEPT !.active = shortcuts.pending.shortcut]
  /\ shortcuts' = [shortcuts EXCEPT !.pending = Nothing] /\ UNCHANGED <<plot, goTo, navSteps>>

(***************************************************************************)
(* Go to                                                                   *)
(***************************************************************************)
Navigated == UNCHANGED <<plot, toolbar, shortcuts, jump>>
GoToSelectionDraft == IF goTo.last = Nothing THEN WallClock(toolbar.zone, Max(plot.bars))
                      ELSE WallClock(toolbar.zone, goTo.last)
OpenGoTo ==
  /\ NavStep /\ Offered /\ ~ goTo.open /\ Navigated
  /\ goTo' = [goTo EXCEPT !.open = TRUE, !.draft = GoToSelectionDraft, !.error = FALSE]
CloseGoTo ==
  /\ NavStep /\ goTo.open /\ goTo.busy = Nothing /\ goTo' = [goTo EXCEPT !.open = FALSE] /\ Navigated
PickDate(wall) ==
  /\ NavStep /\ goTo.open /\ wall # goTo.draft /\ goTo' = [goTo EXCEPT !.draft = wall, !.error = FALSE] /\ Navigated
(* requestGoToNavigation: from the bars at hand, or after a load. *)
Resolved(g, wanted, bar) ==
  [g EXCEPT !.open = FALSE, !.busy = Nothing, !.last = wanted.time, !.pending = [wanted EXCEPT !.bar = bar]]
ApplyGoTo ==
  LET time == ParseLocalDateTime(toolbar.zone, goTo.draft)
      wanted == [wall |-> goTo.draft, zone |-> toolbar.zone, time |-> time,
                 symbol |-> plot.symbol, timeframe |-> plot.timeframe, bar |-> Nothing]
  IN  /\ NavStep /\ goTo.open /\ goTo.busy = Nothing /\ Navigated
      /\ goTo' = IF CandlesCover(plot.bars, time) THEN Resolved(goTo, wanted, FirstAtOrAfter(plot.bars, time))
                 ELSE IF plot.loading THEN [goTo EXCEPT !.error = TRUE]
                 ELSE [goTo EXCEPT !.busy = wanted, !.error = FALSE]
(* loadCandlesAroundTime writes the series it was asked for. *)
HistoryAroundArrives ==
  LET wanted == goTo.busy
      bars == BarsOf(wanted.symbol, wanted.timeframe)
      bar == FirstAtOrAfter(bars, wanted.time)
  IN  /\ wanted # Nothing /\ bar # Nothing
      /\ goTo' = Resolved(goTo, wanted, bar)
      /\ plot' = IF <<wanted.symbol, wanted.timeframe>> = <<plot.symbol, plot.timeframe>>
                 THEN [plot EXCEPT !.bars = @ \union {b \in bars : b >= bar}] ELSE plot
      /\ UNCHANGED <<toolbar, shortcuts, jump, navSteps>>
HistoryAroundFails ==
  /\ goTo.busy # Nothing /\ goTo' = [goTo EXCEPT !.busy = Nothing, !.error = TRUE]
  /\ NavStep /\ Navigated
(* The jump waits for bars that hold its bar, whichever series they are of. *)
GoToApplies ==
  /\ goTo.pending # Nothing /\ goTo.pending.bar \in plot.bars
  /\ jump' = [range |-> [shortcut |-> Nothing, to |-> goTo.pending.bar], marker |-> goTo.pending]
  /\ goTo' = [goTo EXCEPT !.pending = Nothing]
  /\ toolbar' = [toolbar EXCEPT !.active = Nothing] /\ UNCHANGED <<plot, shortcuts, navSteps>>
(* 3.6 s, an interaction with the chart, or Escape. *)
MarkerGoes ==
  /\ jump.marker # Nothing /\ jump' = [jump EXCEPT !.marker = Nothing]
  /\ UNCHANGED <<plot, toolbar, shortcuts, goTo, navSteps>>

OpenTimeZoneMenu ==
  /\ NavStep /\ ~ toolbar.menu /\ toolbar' = [toolbar EXCEPT !.menu = TRUE] /\ UNCHANGED <<plot, shortcuts, goTo, jump>>
(* A choice, or a click outside. *)
SelectTimeZone(z) ==
  /\ toolbar.menu /\ toolbar' = [toolbar EXCEPT !.menu = FALSE, !.zone = z]
  /\ UNCHANGED <<plot, shortcuts, goTo, jump, navSteps>>

NavNext ==
  \/ SeriesSeeds \/ CatalogKnown \/ PendingShortcutApplies
  \/ \E s \in NavSymbol, f \in {1, 2} : SelectSeries(s, f)
  \/ \E sc \in DOMAIN Shortcut : JumpShortcut(sc)
  \/ \E r \in shortcuts.asked : ShortcutResolves(r) \/ ShortcutFails(r)
  \/ OpenGoTo \/ CloseGoTo \/ ApplyGoTo \/ HistoryAroundArrives \/ HistoryAroundFails
  \/ GoToApplies \/ MarkerGoes \/ OpenTimeZoneMenu
  \/ \E wall \in 1..LastTick : PickDate(wall)
  \/ \E z \in Zone : SelectTimeZone(z)

NavSpec == NavInit /\ [][NavNext]_navVars

(* A jump lands where it was asked to: the time it took the date for reads *)
(* as that date on the clock of the zone, unless the clock skips it, and   *)
(* no bar of the series lies between that time and the bar jumped to.      *)
JumpsToTheMomentAsked ==
  LET g == goTo.pending
  IN  g # Nothing =>
        /\ (\E t \in -2..LastTick + 2 : WallClock(g.zone, t) = g.wall) => WallClock(g.zone, g.time) = g.wall
        /\ g.bar >= g.time
        /\ g.symbol = plot.symbol /\ g.timeframe = plot.timeframe => \A b \in plot.bars : b >= g.time => b >= g.bar

(* Of two shortcuts the later click counts: what waits for its timeframe   *)
(* or has just been shown is never replaced by an earlier click.           *)
LaterShortcutCounts ==
  [][shortcuts.pending # Nothing /\ shortcuts'.pending # Nothing => shortcuts'.pending.id >= shortcuts.pending.id]_navVars
==============================================================================
