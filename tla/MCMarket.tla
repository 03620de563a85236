-------------------------------- MODULE MCMarket -------------------------------
(***************************************************************************)
(* What a chart shows of the market, on small instances: candles and their *)
(* cache, feeds, history, the chart's surface, jumps in time, indicators   *)
(* over candles, replay, alert lines, the alerts on drawings, and what is  *)
(* traded from it in simulation.  A behaviour is about one of them, named  *)
(* by focus; the others stay as they start.                                *)
(***************************************************************************)
EXTENDS CandleCache, MarketFeed, ChartHistory, ChartSurface, TimeNavigation,
        IndicatorRuntime, ReplaySession, ReplayChoice, AlertDrag, TechnicalAlerts,
        SimTrading, TLC

CONSTANT Focus   \* the components a run is about
VARIABLE focus

\* A symbol traded all day and one with gaps; a chart zone with a gap in spring
\* and one with an hour that comes twice in autumn.
TradedAt == "k" :> {1, 2, 4, 5} @@ "l" :> {2, 3, 4}
ShortcutDays == "1D" :> 1 @@ "1Y" :> 2
ZoneRules == {[since |-> 3, before |-> 1, after |-> 2], [since |-> 2, before |-> 1, after |-> -1]}
\* A level, a falling-edge segment with an end, and a channel.
Forms == {[operator |-> "crossUp", domain |-> <<0, 9>>, price |-> 2, slope |-> 0, width |-> 0],
          [operator |-> "crossDown", domain |-> <<1, 2>>, price |-> 1, slope |-> 1, width |-> 0],
          [operator |-> "enter", domain |-> <<0, 9>>, price |-> 2, slope |-> 0, width |-> 1]}
One == <<"i">>
Two == <<"i", "j">>

(* Where a component has several initial states, they belong to the        *)
(* behaviours about it; initial states that differ only in the name of a   *)
(* market or a choice are one.                                             *)
MCInit ==
  /\ focus \in Focus
  /\ RuntimeInit /\ ReplayInit
  /\ CacheInit /\ cache.active = CHOOSE k \in Market : TRUE
  /\ FeedInit /\ (focus # "feed" => feed.kind = "mt5")
  /\ HistoryInit /\ (focus # "history" => hist.active = CHOOSE k \in Charted : TRUE)
  /\ SurfaceInit /\ given.market = CHOOSE k \in SurfaceMarket : TRUE
  /\ focus # "surface" => given.candles = <<>>
  /\ NavInit /\ (focus # "time" => plot.symbol = "k" /\ toolbar.zone.since = 3)
  /\ ChoiceInit /\ layout.selected = CHOOSE c \in Chosen : TRUE
  /\ DragInit
  /\ focus # "drag" => /\ Cardinality(DOMAIN alarms) = 1 /\ (CHOOSE i \in Alarm : TRUE) \in DOMAIN alarms
                       /\ \A i \in DOMAIN alarms : alarms[i].locked /\ alarms[i].fixed
                       /\ lastClose = 1
  /\ TechnicalInit
  /\ SimInit
  /\ focus # "technical" => \A i \in Watchers : armed[i].target.operator = "enter"

About(part) == focus = part /\ UNCHANGED focus

MCNext ==
  \/ /\ About("candles") /\ CacheNext
     /\ UNCHANGED <<feedVars, historyVars, surfaceVars, navVars, runtimeVars, replayVars,
                    choiceVars, alarmVars, technicalVars, simVars>>
  \/ /\ About("feed") /\ FeedNext
     /\ UNCHANGED <<cacheVars, historyVars, surfaceVars, navVars, runtimeVars, replayVars,
                    choiceVars, alarmVars, technicalVars, simVars>>
  \/ /\ About("history") /\ HistoryNext
     /\ UNCHANGED <<cacheVars, feedVars, surfaceVars, navVars, runtimeVars, replayVars,
                    choiceVars, alarmVars, technicalVars, simVars>>
  \/ /\ About("surface") /\ SurfaceNext
     /\ UNCHANGED <<cacheVars, feedVars, historyVars, navVars, runtimeVars, replayVars,
                    choiceVars, alarmVars, technicalVars, simVars>>
  \/ /\ About("time") /\ NavNext
     /\ UNCHANGED <<cacheVars, feedVars, historyVars, surfaceVars, runtimeVars, replayVars,
                    choiceVars, alarmVars, technicalVars, simVars>>
  \/ /\ About("indicators") /\ RuntimeNext
     /\ UNCHANGED <<cacheVars, feedVars, historyVars, surfaceVars, navVars, replayVars,
                    choiceVars, alarmVars, technicalVars, simVars>>
  \/ /\ About("replay") /\ ReplayNext
     /\ UNCHANGED <<cacheVars, feedVars, historyVars, surfaceVars, navVars, runtimeVars,
                    choiceVars, alarmVars, technicalVars, simVars>>
  \/ /\ About("choice") /\ ChoiceNext
     /\ UNCHANGED <<cacheVars, feedVars, historyVars, surfaceVars, navVars, runtimeVars,
                    replayVars, alarmVars, technicalVars, simVars>>
  \/ /\ About("drag") /\ DragNext
     /\ UNCHANGED <<cacheVars, feedVars, historyVars, surfaceVars, navVars, runtimeVars,
                    replayVars, choiceVars, technicalVars, simVars>>
  \/ /\ About("technical") /\ TechnicalNext
     /\ UNCHANGED <<cacheVars, feedVars, historyVars, surfaceVars, navVars, runtimeVars,
                    replayVars, choiceVars, alarmVars, simVars>>
  \/ /\ About("sim") /\ SimNext
     /\ UNCHANGED <<cacheVars, feedVars, historyVars, surfaceVars, navVars, runtimeVars,
                    replayVars, choiceVars, alarmVars, technicalVars>>

mcVars == <<cacheVars, feedVars, historyVars, surfaceVars, navVars, runtimeVars, replayVars,
            choiceVars, alarmVars, technicalVars, simVars, focus>>
MCSpec == MCInit /\ [][MCNext]_mcVars

(* A chart shows what was asked for: outside Replay its series are exactly  *)
(* the candles and indicator results it was given last, whatever mixture of *)
(* single updates and replacements was chosen (useMarketSeries.ts), and a   *)
(* jump to a date lands on the first bar from the moment it names on in     *)
(* the chart's zone (useChartDateNavigation.ts).                            *)
ChartShowsWhatWasAsked == SurfaceShowsData /\ JumpsToTheMomentAsked

(* What a Replay shows is what was asked for and what happened: the bars    *)
(* are those of the session's log once the socket has nothing left to hear, *)
(* after gaps, resets and reconnections too (replaySocket.ts), and the      *)
(* session is the one the panes of the layout ask for once the effect has   *)
(* nothing left to do, although changes that come while a session is being  *)
(* replaced are not looked at (ReplayClientRuntime.tsx).                    *)
ReplayStaysTrue == BarsFollowTheirEvents /\ ReplayFollowsLayout
================================================================================
