---------------------------- MODULE ChartHistory ----------------------------
(***************************************************************************)
(* useMarketData and HistoricalDataService: the history of the charted     *)
(* market.  A selection is rendered first and its effects run later; the   *)
(* first window is loaded, refreshed from MT5 while it is charted, paged   *)
(* to the left, and mirrored from the market data store to the chart.      *)
(*                                                                         *)
(* A history is how far back it reaches (0 is the start of the history),   *)
(* whether a window that is not authoritative went into it, and whether it *)
(* has a gap.  Requests whose effect was cleaned up are cancelled, and     *)
(* their answers are not looked at.                                        *)
(***************************************************************************)
EXTENDS Partial

CONSTANTS
  Charted,            \* symbol and timeframe
  Mt5Charted,         \* those that MT5 provides
  Reach,              \* how far back a first window reaches
  MaxRefreshRetries,  \* MT5_ACTIVE_REFRESH_RETRY_DELAYS_MS
  MaxHistorySteps     \* bound: selections, intervals, requests of the user

VARIABLES
  hist,               \* the hook: selection, readiness, refs, requests in flight
  histories,             \* marketDataStore: market -> series
  shown,              \* chartStore: market and series on the chart, loading
  historySteps

historyVars == <<hist, histories, shown, historySteps>>
HistoryStep == historySteps < MaxHistorySteps /\ historySteps' = historySteps + 1

ASSUME ChartedAssumption ==
  Mt5Charted \subseteq Charted /\ Reach \in Nat /\ MaxRefreshRetries \in Nat

IsMt5(k) == k \in Mt5Charted
Window == [first |-> Reach, stale |-> FALSE, gap |-> FALSE]
StaleWindow == [Window EXCEPT !.stale = TRUE]

HistoryInit ==
  /\ \E k \in Charted :
       hist = [active |-> k, enabled |-> TRUE, rendered |-> TRUE, catalog |-> Nothing, ready |-> Nothing,
               load |-> Nothing, loop |-> Nothing, full |-> Nothing, waits |-> Nothing, seen |-> Nothing,
               older |-> Nothing, exhausted |-> {}, gaps |-> {}, backfill |-> Nothing, around |-> Nothing]
  /\ histories = None
  /\ shown = [market |-> Nothing, series |-> Nothing, loading |-> FALSE]
  /\ historySteps = 0

(***************************************************************************)
(* What becomes of the effects when readiness or the series change: the       *)
(* store is mirrored to the chart (which ends loading), and a ready MT5    *)
(* chart starts its refresh at once.                                       *)
(***************************************************************************)
IsReady(h) == h.enabled /\ ~ h.rendered /\ h.ready = h.active
NewLoop(h) == [flight |-> [waits |-> h.waits = h.active, again |-> FALSE], retries |-> 0, timer |-> FALSE]
Looping(h) ==
  IF IsReady(h) /\ IsMt5(h.active) /\ h.loop = Nothing THEN [h EXCEPT !.loop = NewLoop(h)] ELSE h
Mirrored(h, S, show) ==
  IF IsReady(h) /\ (show.market # h.active \/ show.series # At(S, h.active) \/ hist.ready # h.ready)
  THEN [market |-> h.active, series |-> At(S, h.active), loading |-> FALSE] ELSE show
Settles(h, S, show) ==
  /\ hist' = Looping(h) /\ histories' = S /\ shown' = Mirrored(h, S, show)

(***************************************************************************)
(* The selection.                                                          *)
(***************************************************************************)
(* setSymbolAtom and setTimeframeAtom; activeSelectionRef follows at once. *)
SelectChart(k) ==
  /\ HistoryStep /\ hist.active # k
  /\ hist' = [hist EXCEPT !.active = k, !.rendered = TRUE]
  /\ shown' = [market |-> k, series |-> Nothing, loading |-> TRUE]
  /\ UNCHANGED histories
(* A replay takes the chart over and gives it back. *)
SetEnabled ==
  /\ HistoryStep
  /\ hist' = [hist EXCEPT !.enabled = ~ @, !.rendered = TRUE]
  /\ UNCHANGED <<histories, shown>>
(* The catalog of symbols arrives or changes. *)
CatalogArrives(known) ==
  /\ HistoryStep /\ hist.catalog # known
  /\ hist' = [hist EXCEPT !.catalog = known, !.rendered = TRUE]
  /\ UNCHANGED <<histories, shown>>

(* The cleanups, and the refs that belong to the selection *)
CleanedUp ==
  LET known == hist.catalog # Nothing /\ hist.active \in hist.catalog
      keeps == hist.seen = hist.active /\ known /\ IsMt5(hist.active)
  IN  [hist EXCEPT !.rendered = FALSE, !.load = Nothing, !.loop = Nothing, !.older = Nothing,
                   !.backfill = Nothing, !.exhausted = {}, !.gaps = {},
                   !.ready = IF hist.enabled THEN Nothing ELSE @,
                   !.seen = IF hist.enabled THEN hist.active ELSE @,
                   !.full = IF keeps \/ ~ hist.enabled THEN @ ELSE Nothing,
                   !.waits = IF keeps \/ ~ hist.enabled THEN @ ELSE Nothing]
EffectsOff == hist' = CleanedUp /\ shown' = [shown EXCEPT !.loading = FALSE] /\ UNCHANGED histories
(* The catalog is still loading: wait for it. *)
EffectsWait == hist' = CleanedUp /\ shown' = [shown EXCEPT !.loading = TRUE] /\ UNCHANGED histories
EffectsUnknown ==
  Settles([CleanedUp EXCEPT !.ready = hist.active], histories,
          [market |-> hist.active, series |-> Nothing, loading |-> FALSE])
(* What is cached is painted at once; MT5's refresh then revalidates it,   *)
(* other providers load it again.                                          *)
EffectsCached ==
  LET k == hist.active
      load == IF IsMt5(k) THEN Nothing ELSE [cached |-> TRUE]
  IN  Settles([CleanedUp EXCEPT !.ready = k, !.load = load], histories,
              [market |-> k, series |-> histories[k], loading |-> FALSE])
EffectsLoad ==
  /\ hist' = [CleanedUp EXCEPT !.load = [cached |-> FALSE]]
  /\ shown' = [shown EXCEPT !.loading = TRUE] /\ UNCHANGED histories
RunEffects ==
  /\ hist.rendered /\ UNCHANGED historySteps
  /\ CASE ~ hist.enabled -> EffectsOff
       [] hist.enabled /\ hist.catalog = Nothing -> EffectsWait
       [] hist.enabled /\ hist.catalog # Nothing /\ hist.active \notin hist.catalog -> EffectsUnknown
       [] hist.enabled /\ hist.catalog # Nothing /\ hist.active \in hist.catalog ->
            IF At(histories, hist.active) # Nothing THEN EffectsCached ELSE EffectsLoad

(***************************************************************************)
(* The answer to the first load.  seen is the selection it was made for;   *)
(* an answer that comes between a selection and its effects is of another. *)
(***************************************************************************)
(* setCandles in merge mode *)
WithPage(S, k, stale) ==
  Put(S, k, IF At(S, k) = Nothing THEN [Window EXCEPT !.stale = stale]
            ELSE [S[k] EXCEPT !.stale = @ \/ stale])
(* isAuthoritativeMt5HistorySnapshot, canPublishMt5HistoryPage *)
PublishesAnything(k, page) == page # "fails"
CanPublish(k, page) == IF IsMt5(k) THEN page \in {"fresh", "apart"} ELSE page # "fails"
StillSelected(k) == hist.active = k
LoadAnswers(page) ==
  /\ hist.load # Nothing /\ UNCHANGED historySteps
  /\ IsMt5(hist.seen) \/ page \in {"fresh", "fails"}
  /\ LET k == hist.seen
         done == [hist EXCEPT !.load = Nothing]
         noted == IF IsMt5(k)
                  THEN [done EXCEPT !.full = IF CanPublish(k, page) THEN Nothing ELSE k,
                                    !.waits = IF page = "pending" THEN k ELSE Nothing]
                  ELSE done
     IN  IF ~ StillSelected(k) THEN hist' = done /\ UNCHANGED <<histories, shown>>
         ELSE IF page = "fails"
         THEN IF IsMt5(k)
              THEN Settles([done EXCEPT !.ready = k], histories,
                           [market |-> k, series |-> Nothing, loading |-> FALSE])
              ELSE /\ hist' = done /\ UNCHANGED histories
                   /\ shown' = IF hist.load.cached THEN [shown EXCEPT !.loading = FALSE]
                               ELSE [market |-> k, series |-> Nothing, loading |-> FALSE]
         ELSE IF ~ CanPublish(k, page)
         THEN Settles([noted EXCEPT !.ready = k], histories, [shown EXCEPT !.loading = TRUE])
         ELSE LET S == WithPage(histories, k, page \in {"stale", "pending"})
              IN  Settles([noted EXCEPT !.ready = k], S, [market |-> k, series |-> S[k], loading |-> FALSE])

(***************************************************************************)
(* The refresh of an MT5 chart.  A full refresh, or one that the user's    *)
(* interval asks for, is explicit: what is not authoritative then fails.   *)
(***************************************************************************)
Loop == hist.loop
Flies == [waits |-> hist.waits = hist.active, again |-> FALSE]
CanFly == Loop # Nothing /\ Loop.flight = Nothing
RefreshTick ==
  /\ HistoryStep /\ CanFly
  /\ hist' = [hist EXCEPT !.loop.flight = Flies, !.loop.retries = 0]
  /\ UNCHANGED <<histories, shown>>
RetryFires ==
  /\ Loop # Nothing /\ Loop.timer
  /\ hist' = [hist EXCEPT !.loop.timer = FALSE, !.loop.flight = IF CanFly THEN Flies ELSE @]
  /\ UNCHANGED <<histories, shown, historySteps>>
Landed(h) == [h EXCEPT !.loop.flight = Nothing]
(* The catch: a bounded number of retries, one timer at a time *)
Retried(h) ==
  IF h.loop.retries < MaxRefreshRetries /\ ~ h.loop.timer
  THEN [h EXCEPT !.loop.retries = @ + 1, !.loop.timer = TRUE] ELSE h
Succeeded(h) == [h EXCEPT !.full = Nothing, !.loop.retries = 0, !.loop.timer = FALSE]
(* What a refresh can return: an explicit one is fresh or fails. *)
RefreshPages == IF Loop.flight.waits THEN {"fresh", "pending", "stale", "fails"} ELSE {"fresh", "apart", "fails"}
RefreshAnswers(page) ==
  /\ Loop # Nothing /\ ~ hist.rendered /\ UNCHANGED historySteps
  /\ Loop.flight # Nothing /\ ~ Loop.flight.again /\ page \in RefreshPages
  /\ LET k == hist.active
         h == Landed(hist)
         escalated == [h EXCEPT !.waits = Nothing, !.full = k]
     IN  CASE page = "pending" -> Settles([h EXCEPT !.loop.timer = TRUE], histories, shown)
           [] page = "fails" -> Settles(Retried(h), histories, shown)
           [] page = "stale" /\ ~ CanPublish(k, page) -> Settles(Retried(escalated), histories, shown)
           [] page \in {"fresh", "stale"} /\ CanPublish(k, page) /\ Loop.flight.waits ->
                Settles([h EXCEPT !.waits = Nothing, !.full = Nothing, !.loop.retries = 0],
                        Put(histories, k, IF page = "stale" THEN StaleWindow ELSE Window), shown)
           [] page = "fresh" /\ ~ Loop.flight.waits ->
                Settles(Succeeded(h), WithPage(histories, k, FALSE), shown)
           [] page = "apart" ->
                IF At(histories, k) = Nothing THEN Settles(Succeeded(h), WithPage(histories, k, FALSE), shown)
                ELSE Settles([hist EXCEPT !.loop.flight.again = TRUE], histories, shown)
(* The window that replaces a series the fresh tail does not reach *)
ReplacementAnswers(ok) ==
  /\ Loop # Nothing /\ ~ hist.rendered /\ UNCHANGED historySteps
  /\ Loop.flight # Nothing /\ Loop.flight.again
  /\ LET h == Landed(hist)
     IN  IF ok THEN Settles(Succeeded(h), [histories EXCEPT ![hist.active] = [Window EXCEPT !.first = AtMost(@, histories[hist.active].first)]], shown)
         ELSE Settles(Retried(h), histories, shown)

(***************************************************************************)
(* Live candles of other providers, and the repair of a gap they leave.    *)
(***************************************************************************)
LiveCandle(gap) ==
  /\ HistoryStep /\ IsReady(hist) /\ ~ IsMt5(hist.active) /\ At(histories, hist.active) # Nothing
  /\ LET k == hist.active
         S == [histories EXCEPT ![k].gap = @ \/ gap]
         asks == S[k].gap /\ k \notin hist.gaps
     IN  Settles([hist EXCEPT !.backfill = IF asks THEN k ELSE Nothing,
                              !.gaps = IF asks THEN @ \union {k} ELSE @], S, shown)
GapAnswers(ok) ==
  /\ hist.backfill # Nothing /\ UNCHANGED historySteps
  /\ LET k == hist.backfill
         h == [hist EXCEPT !.backfill = Nothing]
     IN  IF ok /\ StillSelected(k) /\ k \in DOMAIN histories
         THEN Settles(h, [histories EXCEPT ![k].gap = FALSE], shown)
         ELSE Settles(h, histories, shown)

(***************************************************************************)
(* loadOlderCandles, one page at a time, until a cursor is exhausted.      *)
(***************************************************************************)
Cursor(k) == <<k, histories[k].first>>
LoadOlder ==
  /\ HistoryStep /\ IsReady(hist) /\ hist.older = Nothing
  /\ At(histories, hist.active) # Nothing /\ Cursor(hist.active) \notin hist.exhausted
  /\ hist' = [hist EXCEPT !.older = [market |-> hist.active, first |-> histories[hist.active].first]]
  /\ UNCHANGED <<histories, shown>>
Exhausts(h, k, first) == [h EXCEPT !.exhausted = @ \union {<<k, first>>}]
(* An empty page without the end of history is asked for again. *)
OlderAnswers(page, more) ==
  /\ hist.older # Nothing /\ UNCHANGED historySteps
  /\ LET k == hist.older.market
         from == hist.older.first
         h == [hist EXCEPT !.older = Nothing]
         reaches == IF from = 0 THEN 0 ELSE from - 1
         S == Put(histories, k, [(IF k \in DOMAIN histories THEN histories[k] ELSE Window) EXCEPT !.first = AtMost(@, reaches)])
     IN  CASE page = "fails" -> Settles(h, histories, shown)
           [] page \in {"empty", "kept out"} ->
                Settles(IF more THEN h ELSE Exhausts(h, k, from), histories, shown)
           [] page = "older" ->
                IF from = 0 THEN Settles(IF more THEN h ELSE Exhausts(h, k, from), histories, shown)
                ELSE Settles(IF more THEN h ELSE Exhausts(h, k, S[k].first), S, shown)
(* loadCandlesAroundTime: it is not cancelled, and writes its own market. *)
LoadAround ==
  /\ HistoryStep /\ IsReady(hist) /\ hist.around = Nothing
  /\ hist' = [hist EXCEPT !.around = hist.active] /\ UNCHANGED <<histories, shown>>
AroundAnswers(ok) ==
  /\ hist.around # Nothing /\ UNCHANGED historySteps
  /\ LET k == hist.around
     IN  Settles([hist EXCEPT !.around = Nothing],
                 IF ok THEN Put(histories, k, [WithPage(histories, k, FALSE)[k] EXCEPT !.first = 0, !.gap = TRUE])
                 ELSE histories, shown)

HistoryNext ==
  \/ \E k \in Charted : SelectChart(k)
  \/ \E known \in SUBSET Charted : CatalogArrives(known)
  \/ SetEnabled \/ RunEffects \/ RefreshTick \/ RetryFires \/ LoadOlder \/ LoadAround
  \/ \E page \in {"fresh", "pending", "stale", "fails"} : LoadAnswers(page)
  \/ \E page \in {"fresh", "apart", "pending", "stale", "fails"} : RefreshAnswers(page)
  \/ \E page \in {"older", "empty", "kept out", "fails"}, more \in BOOLEAN : OlderAnswers(page, more)
  \/ \E ok \in BOOLEAN : ReplacementAnswers(ok) \/ LiveCandle(ok) \/ GapAnswers(ok) \/ AroundAnswers(ok)

HistorySpec == HistoryInit /\ [][HistoryNext]_historyVars

(***************************************************************************)
(* Properties.                                                             *)
(***************************************************************************)
(* Whatever ends the spinner or changes the candles of the chart leaves it *)
(* with the selected market: no late answer, cache or mirror puts another  *)
(* one there, not even between a selection and its effects.                *)
ShownIsSelected ==
  [][shown' # shown /\ ~ shown'.loading /\ hist'.enabled => shown'.market = hist'.active]_historyVars

(* A stale or unverified MT5 window is never published: it can miss the    *)
(* current bar (useMarketData, the first load and the active refresh).     *)
OnlyAuthoritativeWindows == \A k \in DOMAIN histories : ~ histories[k].stale

(* While no authoritative window is there the chart keeps loading, unless  *)
(* the load failed.                                                        *)
LoadsUntilAuthoritative ==
  hist.enabled /\ ~ hist.rendered /\ ~ shown.loading /\ hist.waits = hist.active
    => At(histories, hist.active) # Nothing
=============================================================================
