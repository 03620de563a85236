--------------------------- MODULE IndicatorRuntime ---------------------------
(***************************************************************************)
(* Indicator results on the charts of one series: the scopes that keep     *)
(* live results, Replay sessions and generations of the history apart, the *)
(* scheduler that runs one request of a scope and keeps the newest that    *)
(* waits, the shared warm-up history, the retry after a failure, and what  *)
(* a chart shows while its own result is missing.  clearIndicatorRuntime-  *)
(* Cache has no caller and the global LRU limit (64) is not reached.       *)
(***************************************************************************)
EXTENDS Partial, SequencesExt

CONSTANTS
  Traced,            \* indicators
  Warming,           \* those that ask for bars before the chart's own
  RuntimeChart,      \* charts of the series
  LastCutoff,        \* bound: positions of a Replay
  MaxConcurrent,     \* requests that run at a time (4 in the code)
  ReplayResults,     \* results kept for a scope of Replay (4 in the code)
  MaxRuntimeSteps    \* bound: acts of the user, ticks and failures

ASSUME RuntimeConstants == LastCutoff \in Nat

VARIABLES
  panes,       \* chart -> traced, replaying, due (it was told to render again)
  series,      \* market (the live bars), version (of the live history), session, cutoff
  requests,    \* running: scope -> request; waiting: scope -> position, turn
  results,     \* scope -> kept results, the newest last; latest; failed
  warmups,     \* session (0: live) -> owner of the load, loaded
  runtimeSteps

runtimeVars == <<panes, series, requests, results, warmups, runtimeSteps>>
RuntimeStep == runtimeSteps < MaxRuntimeSteps /\ runtimeSteps' = runtimeSteps + 1

(* indicatorRuntimeScopeKey: the cutoff is not in it.  A cutoff of 0 is a  *)
(* track that has not been heard of yet.                                   *)
ScopeKey(i, replaying, s) ==
  IF replaying THEN [id |-> i, session |-> s.session, history |-> 0] ELSE [id |-> i, session |-> 0, history |-> s.version]
ScopesOf(pane, s) == {ScopeKey(i, pane.replaying, s) : i \in pane.traced}
Position(pane, s) == IF pane.replaying THEN s.cutoff ELSE s.market

RuntimeInit ==
  /\ panes = [c \in RuntimeChart |-> [traced |-> {}, replaying |-> FALSE, due |-> FALSE]]
  /\ series = [market |-> 1, version |-> 0, session |-> 0, cutoff |-> 0]
  /\ requests = [running |-> None, waiting |-> None]
  /\ results = [kept |-> None, latest |-> None, failed |-> {}]
  /\ warmups = None /\ runtimeSteps = 0

(***************************************************************************)
(* The scheduler and the cache                                             *)
(***************************************************************************)
(* drain: in the order of arrival, one of a scope.  The map of what waits  *)
(* keeps that order; here each entry has its turn.                         *)
Free(q) == DOMAIN q.waiting \ DOMAIN q.running
Ahead(q, scope) == {o \in Free(q) : q.waiting[o].turn < q.waiting[scope].turn}
Started(at) == [at |-> at, phase |-> "starts", load |-> Nothing, warm |-> FALSE, aborted |-> FALSE]
Drained(q) ==
  LET first == {scope \in Free(q) : Cardinality(DOMAIN q.running) + Cardinality(Ahead(q, scope)) < MaxConcurrent}
  IN  [running |-> [scope \in DOMAIN q.running \union first |->
                      IF scope \in first THEN Started(q.waiting[scope].at) ELSE q.running[scope]],
       waiting |-> Drop(q.waiting, first)]
(* What is asked anew goes to the end, one behind the other. *)
LastTurn(q) == Max({q.waiting[scope].turn : scope \in DOMAIN q.waiting} \union {0})
Enqueue(q, asked, at) ==
  LET order == SetToSeq(asked)
      place(scope) == CHOOSE k \in DOMAIN order : order[k] = scope
  IN  Drained([q EXCEPT !.waiting = [scope \in DOMAIN @ \union asked |->
                 IF scope \in asked THEN [at |-> at, turn |-> LastTurn(q) + place(scope)] ELSE @[scope]]])
Scheduled(q, scope, at) ==
  \/ scope \in DOMAIN q.running /\ q.running[scope].at = at
  \/ scope \in DOMAIN q.waiting /\ q.waiting[scope].at = at
Kept(rs, scope, at) == scope \in DOMAIN rs.kept /\ \E k \in DOMAIN rs.kept[scope] : rs.kept[scope][k].at = at
KeptLimit(scope) == IF scope.session = 0 THEN 1 ELSE ReplayResults
Keep(rows, row, limit) ==
  LET all == Append(SelectSeq(rows, LAMBDA r : r.at # row.at), row)
  IN  IF Len(all) > limit THEN Tail(all) ELSE all

(* ensureIndicatorRuntimeResult for each indicator of a chart: a session   *)
(* without a cutoff asks for nothing, and neither does a scope that failed.*)
Ensured(q, pane, s, rs) ==
  LET at == Position(pane, s)
      asked == {scope \in ScopesOf(pane, s) :
                  scope \notin rs.failed /\ ~ Kept(rs, scope, at) /\ ~ Scheduled(q, scope, at)}
  IN  IF pane.replaying /\ s.cutoff = 0 THEN q ELSE Enqueue(q, asked, at)

(* retainIndicatorRuntimeScopes: the cleanup of a chart's old scopes comes *)
(* before it retains the new ones, so what only it used is cancelled.      *)
Cancelled(q, scopes) ==
  [running |-> [scope \in DOMAIN q.running |->
                  IF scope \in scopes THEN [q.running[scope] EXCEPT !.aborted = TRUE] ELSE q.running[scope]],
   waiting |-> Drop(q.waiting, scopes)]
OnlyOf(c) == ScopesOf(panes[c], series) \ UNION {ScopesOf(panes[o], series) : o \in RuntimeChart \ {c}}

(* A chart renders with new scopes: release, retain, ensure. *)
Rendered(c, pane) ==
  LET released == IF ScopesOf(pane, series) = ScopesOf(panes[c], series) THEN {} ELSE OnlyOf(c)
      left == [results EXCEPT !.failed = @ \ released]
  IN  /\ panes' = [panes EXCEPT ![c] = [pane EXCEPT !.due = FALSE]]
      /\ results' = left
      /\ requests' = Ensured(Cancelled(requests, released), pane, series, left)
(* What all charts are to hear of: they render each in its own time. *)
Told(ps, scope) == [c \in RuntimeChart |-> IF scope \in ScopesOf(ps[c], series) THEN [ps[c] EXCEPT !.due = TRUE] ELSE ps[c]]

(***************************************************************************)
(* Charts                                                                  *)
(***************************************************************************)
Trace(c, i) ==
  /\ RuntimeStep /\ Rendered(c, [panes[c] EXCEPT !.traced = IF i \in @ THEN @ \ {i} ELSE @ \union {i}])
  /\ UNCHANGED <<series, warmups>>
(* A chart joins the session, or leaves it. *)
Replays(c) ==
  /\ RuntimeStep /\ series.session > 0 /\ Rendered(c, [panes[c] EXCEPT !.replaying = ~ @])
  /\ UNCHANGED <<series, warmups>>
RendersAgain(c) ==
  /\ panes[c].due /\ Rendered(c, panes[c]) /\ UNCHANGED <<series, warmups, runtimeSteps>>

(* New bars, or a new position: every chart concerned renders.  The        *)
(* released scopes are those no chart has afterwards.                      *)
Moves(s, dirty) ==
  LET old == UNION {ScopesOf(panes[c], series) : c \in RuntimeChart}
      gone == old \ UNION {ScopesOf(panes[c], s) : c \in RuntimeChart}
  IN  /\ RuntimeStep /\ series' = s
      /\ panes' = [c \in RuntimeChart |-> IF panes[c].replaying = dirty THEN [panes[c] EXCEPT !.due = TRUE] ELSE panes[c]]
      /\ results' = [results EXCEPT !.failed = @ \ gone]
      /\ requests' = Cancelled(requests, gone)
Ticks == Moves([series EXCEPT !.market = @ + 1], FALSE) /\ UNCHANGED warmups
Seeks(t) == series.session > 0 /\ t # series.cutoff /\ Moves([series EXCEPT !.cutoff = t], TRUE) /\ UNCHANGED warmups
StartsSession == Moves([series EXCEPT !.session = @ + 1, !.cutoff = 0], TRUE) /\ UNCHANGED warmups
(* invalidateIndicatorHistoryContext *)
ReplacesHistory == Moves([series EXCEPT !.market = @ + 1, !.version = @ + 1], FALSE) /\ warmups' = Drop(warmups, {0})

(***************************************************************************)
(* Requests                                                                *)
(***************************************************************************)
Joins(r, scope, owner) == [r EXCEPT !.phase = IF owner = Nothing THEN "computing" ELSE "warming", !.load = owner,
                                    !.warm = (owner = Nothing /\ scope.id \in Warming)]
(* loadHistoryContext: one load for a session, whoever asks first. *)
RequestStarts(scope) ==
  LET r == requests.running[scope]
      known == scope.session \in DOMAIN warmups
      owner == IF scope.id \notin Warming \/ (known /\ warmups[scope.session].loaded) THEN Nothing
               ELSE IF known THEN warmups[scope.session].owner ELSE scope
  IN  /\ r.phase = "starts"
      /\ requests' = [requests EXCEPT !.running[scope] = Joins(r, scope, owner)]
      /\ warmups' = IF owner = scope THEN Put(warmups, scope.session, [owner |-> scope, loaded |-> FALSE]) ELSE warmups
      /\ UNCHANGED <<panes, series, results, runtimeSteps>>
Waiting(owner) == {scope \in DOMAIN requests.running : requests.running[scope].load = owner}
WarmUpArrives(owner) ==
  /\ Waiting(owner) # {}
  /\ requests' = [requests EXCEPT !.running = [scope \in DOMAIN @ |->
                    IF scope \in Waiting(owner) THEN Joins(@[scope], scope, Nothing) ELSE @[scope]]]
  /\ warmups' = [s \in DOMAIN warmups |-> IF warmups[s].owner = owner THEN [warmups[s] EXCEPT !.loaded = TRUE] ELSE warmups[s]]
  /\ UNCHANGED <<panes, series, results, runtimeSteps>>
(* The load fails, or the request that began it is aborted: the others go  *)
(* on with the bars of the chart.                                          *)
WarmUpFails(owner) ==
  /\ Waiting(owner) # {} /\ owner \in DOMAIN requests.running
  /\ IF requests.running[owner].aborted THEN UNCHANGED runtimeSteps ELSE RuntimeStep
  /\ requests' = [requests EXCEPT !.running = [scope \in DOMAIN @ |->
                    IF scope \in Waiting(owner) THEN [@[scope] EXCEPT !.phase = "computing", !.load = Nothing] ELSE @[scope]]]
  /\ warmups' = Drop(warmups, {s \in DOMAIN warmups : warmups[s].owner = owner /\ ~ warmups[s].loaded})
  /\ UNCHANGED <<panes, series, results>>
SettlesQuietly(scope) == panes' = panes
(* The scheduler gives the slot on and tells the charts of the scope. *)
Settled(scope) == panes' = Told(panes, scope)
Finishes(scope) ==
  /\ requests.running[scope].phase = "computing"
  /\ requests' = Drained([requests EXCEPT !.running = Drop(@, {scope})])
  /\ Settled(scope) /\ UNCHANGED <<series, warmups>>
Computes(scope) ==
  LET r == requests.running[scope]
      row == [at |-> r.at, warm |-> r.warm]
  IN  /\ Finishes(scope) /\ UNCHANGED runtimeSteps
      /\ results' = [kept |-> Put(results.kept, scope,
                                  Keep(IF scope \in DOMAIN results.kept THEN results.kept[scope] ELSE <<>>, row, KeptLimit(scope))),
                     latest |-> Put(results.latest, scope, row), failed |-> results.failed \ {scope}]
ComputeFails(scope) ==
  /\ Finishes(scope)
  /\ IF requests.running[scope].aborted THEN UNCHANGED <<results, runtimeSteps>>
     ELSE RuntimeStep /\ results' = [results EXCEPT !.failed = @ \union {scope}]
(* rememberFailure's timer. *)
RetryComesDue(scope) ==
  /\ scope \in results.failed /\ results' = [results EXCEPT !.failed = @ \ {scope}]
  /\ panes' = Told(panes, scope) /\ UNCHANGED <<series, requests, warmups, runtimeSteps>>

RuntimeNext ==
  \/ \E c \in RuntimeChart : Replays(c) \/ RendersAgain(c) \/ \E i \in Traced : Trace(c, i)
  \/ Ticks \/ StartsSession \/ ReplacesHistory \/ \E t \in 1..LastCutoff : Seeks(t)
  \/ \E scope \in DOMAIN requests.running :
       RequestStarts(scope) \/ WarmUpArrives(scope) \/ WarmUpFails(scope) \/ Computes(scope) \/ ComputeFails(scope)
  \/ \E scope \in results.failed : RetryComesDue(scope)

RuntimeSpec == RuntimeInit /\ [][RuntimeNext]_runtimeVars

(***************************************************************************)
(* What a chart shows                                                      *)
(***************************************************************************)
AnyOfTheScope(row, pane) == TRUE
(* canUseLatestIndicatorRuntimeResult *)
CanUseLatest(row, pane) == pane.replaying => series.cutoff > 0 /\ row.at <= series.cutoff
(* getCachedIndicatorRuntimeResult: the exact result, or the last one. *)
ShownResult(c, i) ==
  LET scope == ScopeKey(i, panes[c].replaying, series)
      at == Position(panes[c], series)
  IN  IF Kept(results, scope, at) THEN [at |-> at]
      ELSE IF scope \in DOMAIN results.latest /\ CanUseLatest(results.latest[scope], panes[c]) THEN [at |-> results.latest[scope].at]
      ELSE Nothing

(* "The latest source candle an indicator may observe": a Replay that was  *)
(* wound back never shows what was computed further on, although the scope *)
(* keeps those results.                                                    *)
NothingBeyondTheCutoff ==
  \A c \in RuntimeChart : \A i \in panes[c].traced :
    panes[c].replaying /\ ShownResult(c, i) # Nothing => ShownResult(c, i).at <= series.cutoff

(* An indicator on a chart is never forgotten: unless the chart is about   *)
(* to render, its result is kept, asked for, or waits for the retry.       *)
TracedIsServed ==
  \A c \in RuntimeChart : \A i \in panes[c].traced :
    LET scope == ScopeKey(i, panes[c].replaying, series)
    IN  \/ panes[c].due \/ (panes[c].replaying /\ series.cutoff = 0) \/ scope \in results.failed
        \/ Kept(results, scope, Position(panes[c], series)) \/ Scheduled(requests, scope, Position(panes[c], series))

(* What a chart has of its indicators: each is served, and in Replay by    *)
(* nothing beyond the cutoff (indicatorRuntimeCache, canUseLatest-         *)
(* IndicatorRuntimeResult).                                                *)
IndicatorsAreServed == NothingBeyondTheCutoff /\ TracedIsServed
==============================================================================
