------------------------------ MODULE ChartProofs ------------------------------
(***************************************************************************)
(* Theorems about what a chart shows, with their proofs: what it draws of  *)
(* the candles it was given (ChartSurface), where a jump lands             *)
(* (TimeNavigation), the bars of a Replay, which are those of the          *)
(* session's log (ReplaySession), and the session, which is the one that   *)
(* the panes of the layout ask for (ReplayChoice).                         *)
(***************************************************************************)
EXTENDS MCMarket, SequenceTheorems, FunctionTheorems, FiniteSetTheorems

(***************************************************************************)
(* ChartSurface.  What was pushed last stands for the candles: they are    *)
(* the same ones, or Replay was paused in the middle of an animation and   *)
(* what was pushed ends with the candle that was growing.                  *)
(***************************************************************************)
Candle == [t : Nat, v : Nat]
TimeOrdered(bars) == bars \in Seq(Candle) /\ \A i, j \in 1..Len(bars) : i < j => bars[i].t < bars[j].t
LatestOf(g, v) == \A i \in 1..Len(g.candles) : 0 < g.candles[i].v /\ g.candles[i].v <= v
IsGiven(g) == g = [market |-> g.market, candles |-> g.candles, theme |-> g.theme,
                   session |-> g.session, playing |-> g.playing, version |-> g.version]
IsSurface(s) == s = [series |-> s.series, prev |-> s.prev, lookup |-> s.lookup, count |-> s.count,
                     latest |-> s.latest, growing |-> s.growing, initialized |-> s.initialized,
                     fitted |-> s.fitted, lastFit |-> s.lastFit, reset |-> s.reset,
                     applied |-> s.applied, theme |-> s.theme]
IsPlotted(p) == p = [points |-> p.points, drawn |-> p.drawn, written |-> p.written, structure |-> p.structure]
GivenIsRight ==
  /\ IsGiven(given) /\ TimeOrdered(given.candles)
  /\ given.version \in Nat /\ given.version >= Mounted /\ LatestOf(given, given.version - 1)
  /\ Replaying(given) => Len(given.candles) >= 2

(* What was pushed last: the candles, or those up to the one an animation   *)
(* was stopped at.                                                          *)
PushedFor(prev, bars) ==
  /\ prev \in Seq(Candle) /\ Len(prev) <= Len(bars)
  /\ \A i \in 1..Len(prev) : prev[i].t = bars[i].t /\ (i < Len(prev) => prev[i] = bars[i])
  /\ prev # <<>> /\ Len(prev) < Len(bars) => prev[Len(prev)].v = 0
Grows(s, bars) ==
  /\ s.count \in 2..Len(bars)
  /\ s.latest \in Candle /\ s.latest.t = bars[s.count].t
  /\ s.count < Len(bars) => s.latest.v = 0
  /\ s.growing \in Seq(Candle) /\ Len(s.growing) = Len(bars) - s.count + 1
  /\ \A i \in 1..Len(s.growing) : s.growing[i].t = bars[s.count + i - 1].t
Follows(s, bars, replays) ==
  /\ PushedFor(s.prev, bars)
  /\ s.lookup = ByTime(bars)
  /\ s.latest \in Candle \union {Nothing}
  /\ s.growing # <<>> => replays /\ s.prev = bars /\ Grows(s, bars)
  /\ replays => Len(s.prev) >= 2
  /\ ~ replays => s.series = bars /\ s.prev = bars
(* As mounted, the candles are drawn and nothing was pushed.                *)
OnlyDrawn(s, bars) == s.series = bars /\ s.prev = <<>> /\ s.lookup = None /\ s.growing = <<>>
SurfaceIsRight ==
  /\ IsSurface(surface)
  /\ IF AsMounted THEN OnlyDrawn(surface, given.candles) ELSE Follows(surface, given.candles, Replaying(given))
PlottedIsRight ==
  /\ IsPlotted(plotted) /\ TimeOrdered(plotted.written)
  /\ plotted.drawn = plotted.written /\ plotted.points = plotted.written
SurfaceInv == GivenIsRight /\ SurfaceIsRight /\ PlottedIsRight

LEMMA BarsAre ==
  ASSUME NEW a \in Nat, NEW b \in Nat, NEW v \in Nat, a <= b + 1
  PROVE  /\ TimeOrdered(Bars(a, b, v)) /\ Len(Bars(a, b, v)) = b - a + 1
         /\ \A i \in 1..Len(Bars(a, b, v)) : Bars(a, b, v)[i].t = a + i - 1 /\ Bars(a, b, v)[i].v = v
<1> DEFINE s == Bars(a, b, v)
           n == b - a + 1
<1>1. n \in Nat
  OBVIOUS
<1>2. s = [i \in 1..n |-> Bar(a + i - 1, v)]
  BY DEF Bars
<1>3. \A i \in 1..n : a + i - 1 \in Nat
  OBVIOUS
<1> HIDE DEF n
<1>4. \A i \in 1..n : Bar(a + i - 1, v) \in Candle
  BY <1>3 DEF Bar, Candle
<1> HIDE DEF s
<1>5. s \in Seq(Candle) /\ Len(s) = n /\ \A i \in 1..n : s[i] = Bar(a + i - 1, v)
  BY <1>1, <1>2, <1>4
<1>6. \A i \in 1..n : s[i].t = a + i - 1 /\ s[i].v = v
  BY <1>5 DEF Bar
<1>7. TimeOrdered(s)
 <2> SUFFICES ASSUME NEW i \in 1..Len(s), NEW j \in 1..Len(s), i < j
              PROVE  s[i].t < s[j].t
   BY <1>5 DEF TimeOrdered
 <2>1. s[i].t = a + i - 1 /\ s[j].t = a + j - 1
   BY <1>5, <1>6
 <2> QED BY <1>1, <1>5, <2>1
<1> QED BY <1>5, <1>6, <1>7 DEF s, n

LEMMA TimesAndValues ==
  ASSUME NEW s \in Seq(Candle), NEW i \in 1..Len(s)
  PROVE  s[i] \in Candle /\ s[i].t \in Nat /\ s[i].v \in Nat
<1>1. s[i] \in Candle
  BY ElementOfSeq
<1> QED BY <1>1 DEF Candle

(* ISeriesApi.update of the newest candle replaces the last bar, or comes   *)
(* behind it, and the result is what a replacement would have drawn.        *)
LEMMA LastReplaced ==
  ASSUME NEW a \in Seq(Candle), NEW b \in Seq(Candle), b # <<>>,
         Len(b) = Len(a), Last(b).t = Last(a).t, SamePrefix(a, b, Len(b) - 1)
  PROVE  Updated(a, Last(b)) = b
<1>1. Len(b) \in Nat \ {0} /\ a # <<>> /\ Last(b) = b[Len(b)] /\ b[Len(b)] \in Candle
  BY EmptySeq, ElementOfSeq DEF Last
<1>2. Updated(a, Last(b)) = [a EXCEPT ![Len(a)] = Last(b)]
  BY <1>1 DEF Updated
<1> DEFINE c == [a EXCEPT ![Len(a)] = Last(b)]
<1>3. c \in Seq(Candle) /\ Len(c) = Len(a)
      /\ \A j \in 1..Len(a) : c[j] = IF j = Len(a) THEN Last(b) ELSE a[j]
  BY <1>1, ExceptSeq
<1> HIDE DEF c
<1>4. ASSUME NEW j \in 1..Len(c)
      PROVE  c[j] = b[j]
  BY <1>1, <1>3, <1>4 DEF SamePrefix
<1>5. c = b
  BY <1>3, <1>4, SeqEqual
<1> QED BY <1>2, <1>5 DEF c

LEMMA LastAppended ==
  ASSUME NEW a \in Seq(Candle), NEW b, TimeOrdered(b),
         Len(b) = Len(a) + 1, SamePrefix(a, b, Len(a))
  PROVE  Updated(a, Last(b)) = b
<1>0. b \in Seq(Candle) /\ Len(a) \in Nat /\ Len(b) \in Nat
  BY DEF TimeOrdered
<1>1. Last(b) = b[Len(b)] /\ b[Len(b)] \in Candle
  BY <1>0, ElementOfSeq DEF Last
<1>2. a = <<>> \/ Last(a).t # Last(b).t
 <2> SUFFICES ASSUME a # <<>> PROVE Last(a).t # Last(b).t
   OBVIOUS
 <2>1. Len(a) \in 1..Len(b) /\ Len(b) \in 1..Len(b) /\ Len(a) < Len(b) /\ Len(a) \in 1..Len(a)
   BY <1>0, EmptySeq
 <2>2. b[Len(a)].t < b[Len(b)].t /\ a[Len(a)] = b[Len(a)]
   BY <2>1 DEF TimeOrdered, SamePrefix
 <2>3. b[Len(a)].t \in Nat /\ b[Len(b)].t \in Nat
   BY <1>0, <2>1, TimesAndValues
 <2> QED BY <2>2, <2>3 DEF Last
<1>3. Updated(a, Last(b)) = Append(a, Last(b))
  BY <1>2 DEF Updated
<1> DEFINE c == Append(a, Last(b))
<1>4. c \in Seq(Candle) /\ Len(c) = Len(a) + 1
      /\ \A j \in 1..Len(a) + 1 : c[j] = IF j = Len(a) + 1 THEN Last(b) ELSE a[j]
  BY <1>1
<1> HIDE DEF c
<1>5. ASSUME NEW j \in 1..Len(c)
      PROVE  c[j] = b[j]
  BY <1>0, <1>1, <1>4, <1>5 DEF SamePrefix
<1>6. c = b
  BY <1>0, <1>4, <1>5, SeqEqual
<1> QED BY <1>3, <1>6 DEF c

LEMMA SameAgain ==
  ASSUME NEW a \in Seq(Candle), a # <<>>
  PROVE  Updated(a, Last(a)) = a
<1>1. Len(a) \in Nat /\ Len(a) # 0
  BY EmptySeq
<1> QED BY <1>1, LastReplaced DEF SamePrefix

LEMMA LookupIs ==
  ASSUME NEW b, TimeOrdered(b)
  PROVE  /\ ByTime(b) = [t \in DOMAIN ByTime(b) |-> ByTime(b)[t]]
         /\ \A t : t \in DOMAIN ByTime(b) <=> \E i \in 1..Len(b) : b[i].t = t
         /\ \A i \in 1..Len(b) : ByTime(b)[b[i].t] = b[i].v
<1> DEFINE f == ByTime(b)
           ts == {b[i].t : i \in DOMAIN b}
           one(t) == CHOOSE i \in DOMAIN b : b[i].t = t
<1>1. f = [t \in ts |-> b[one(t)].v]
  BY DEF ByTime
<1>2. DOMAIN b = 1..Len(b) /\ \A i \in 1..Len(b) : b[i].t \in Nat
  BY TimesAndValues DEF TimeOrdered
<1>3. ASSUME NEW i \in 1..Len(b)
      PROVE  one(b[i].t) = i
 <2>1. one(b[i].t) \in 1..Len(b) /\ b[one(b[i].t)].t = b[i].t
   BY <1>2, <1>3
 <2>2. Len(b) \in Nat
   BY DEF TimeOrdered
 <2> HIDE DEF one
 <2> QED BY <1>2, <2>1, <2>2, <1>3 DEF TimeOrdered
<1> HIDE DEF one
<1>4. \A i \in 1..Len(b) : b[i].t \in ts
  BY <1>2
<1>5. \A t : t \in ts <=> \E i \in 1..Len(b) : b[i].t = t
  BY <1>2
<1> HIDE DEF ts, f
<1>6. DOMAIN f = ts /\ f = [t \in DOMAIN f |-> f[t]] /\ \A t \in ts : f[t] = b[one(t)].v
  BY <1>1
<1>7. \A i \in 1..Len(b) : f[b[i].t] = b[i].v
  BY <1>3, <1>4, <1>6
<1> QED BY <1>5, <1>6, <1>7 DEF f

LEMMA LookupLatest ==
  ASSUME NEW c, NEW b, NEW n \in Nat \ {0}, TimeOrdered(c), TimeOrdered(b), Len(b) = n, Len(c) = n,
         \A i \in 1..n - 1 : b[i] = c[i], b[n].t = c[n].t
  PROVE  Put(ByTime(c), b[n].t, b[n].v) = ByTime(b)
<1> DEFINE f == ByTime(c)
           g == ByTime(b)
           k == b[n].t
           v == b[n].v
           h == Put(f, k, v)
<1>1. /\ \A t : t \in DOMAIN f <=> \E i \in 1..n : c[i].t = t
      /\ \A i \in 1..n : f[c[i].t] = c[i].v
  BY LookupIs
<1>2. /\ g = [t \in DOMAIN g |-> g[t]]
      /\ \A t : t \in DOMAIN g <=> \E i \in 1..n : b[i].t = t
      /\ \A i \in 1..n : g[b[i].t] = b[i].v
  BY LookupIs
<1> HIDE DEF f, g, k, v
<1>3. /\ h = [x \in DOMAIN h |-> h[x]]
      /\ DOMAIN h = DOMAIN f \union {k} /\ h[k] = v
      /\ \A x \in DOMAIN f : x # k => h[x] = f[x]
  BY DEF Put
<1> HIDE DEF h
<1> USE DEF k, v
<1>4. \A i \in 1..n : i # n => i \in 1..n - 1
  OBVIOUS
<1>5. \A i \in 1..n : b[i].t = c[i].t
  BY <1>4
<1>6. DOMAIN h = DOMAIN g
 <2>1. n \in 1..n
   OBVIOUS
 <2>2. \A t : t \in DOMAIN h <=> \E i \in 1..n : c[i].t = t
   BY <1>1, <1>3, <2>1
 <2> QED BY <1>2, <1>5, <2>2
<1>7. ASSUME NEW t \in DOMAIN g
      PROVE  h[t] = g[t]
 <2>1. PICK i \in 1..n : b[i].t = t
   BY <1>2, <1>7
 <2>2. CASE i = n
   BY <1>2, <1>3, <2>1, <2>2
 <2>3. CASE i # n
  <3>1. b[i] = c[i] /\ b[i].t # b[n].t
   <4>1. i < n /\ n \in 1..Len(b) /\ i \in 1..Len(b)
     BY <2>3
   <4>2. b[i].t < b[n].t /\ b[i].t \in Nat /\ b[n].t \in Nat
     BY <4>1, TimesAndValues DEF TimeOrdered
   <4> QED BY <1>4, <2>3, <4>2
  <3>2. t \in DOMAIN f /\ f[t] = c[i].v
    BY <1>1, <2>1, <3>1
  <3> QED BY <1>2, <1>3, <2>1, <3>1, <3>2
 <2> QED BY <2>2, <2>3
<1> QED BY <1>2, <1>3, <1>6, <1>7 DEF f, g, h

LEMMA LookupGrown ==
  ASSUME NEW d, NEW b, NEW n \in Nat \ {0}, TimeOrdered(d), TimeOrdered(b), Len(b) = n, Len(d) = n - 1,
         \A i \in 1..n - 1 : b[i] = d[i]
  PROVE  Put(ByTime(d), b[n].t, b[n].v) = ByTime(b)
<1> DEFINE f == ByTime(d)
           g == ByTime(b)
           k == b[n].t
           v == b[n].v
           h == Put(f, k, v)
<1>1. /\ \A t : t \in DOMAIN f <=> \E i \in 1..n - 1 : d[i].t = t
      /\ \A i \in 1..n - 1 : f[d[i].t] = d[i].v
  BY LookupIs
<1>2. /\ g = [t \in DOMAIN g |-> g[t]]
      /\ \A t : t \in DOMAIN g <=> \E i \in 1..n : b[i].t = t
      /\ \A i \in 1..n : g[b[i].t] = b[i].v
  BY LookupIs
<1> HIDE DEF f, g, k, v
<1>3. /\ h = [x \in DOMAIN h |-> h[x]]
      /\ DOMAIN h = DOMAIN f \union {k} /\ h[k] = v
      /\ \A x \in DOMAIN f : x # k => h[x] = f[x]
  BY DEF Put
<1> HIDE DEF h
<1> USE DEF k, v
<1>4. n \in 1..n /\ \A i \in 1..n : (i # n <=> i \in 1..n - 1)
  OBVIOUS
<1>5. \A i \in 1..n - 1 : i \in 1..n /\ b[i].t = d[i].t
  BY <1>4
<1>6. DOMAIN h = DOMAIN g
 <2>1. \A t : t \in DOMAIN h <=> (t = b[n].t \/ \E i \in 1..n - 1 : b[i].t = t)
   BY <1>1, <1>3, <1>5
 <2>2. \A t : (t = b[n].t \/ \E i \in 1..n - 1 : b[i].t = t) <=> \E i \in 1..n : b[i].t = t
   BY <1>4, <1>5
 <2> QED BY <1>2, <2>1, <2>2
<1>7. ASSUME NEW t \in DOMAIN g
      PROVE  h[t] = g[t]
 <2>1. PICK i \in 1..n : b[i].t = t
   BY <1>2, <1>7
 <2>2. CASE i = n
   BY <1>2, <1>3, <2>1, <2>2
 <2>3. CASE i # n
  <3>1. b[i] = d[i] /\ i \in 1..n - 1 /\ b[i].t # b[n].t
   <4>1. i < n /\ n \in 1..Len(b) /\ i \in 1..Len(b)
     BY <2>3
   <4>2. b[i].t < b[n].t /\ b[i].t \in Nat /\ b[n].t \in Nat
     BY <4>1, TimesAndValues DEF TimeOrdered
   <4> QED BY <1>4, <2>3, <4>2
  <3>2. t \in DOMAIN f /\ f[t] = d[i].v
    BY <1>1, <2>1, <3>1
  <3> QED BY <1>2, <1>3, <2>1, <3>1, <3>2
 <2> QED BY <2>2, <2>3
<1> QED BY <1>2, <1>3, <1>6, <1>7 DEF f, g, h

LEMMA LookupOfNone == ByTime(<<>>) = None
<1>1. TimeOrdered(<<>>)
  BY EmptySeq DEF TimeOrdered
<1>2. Len(<<>>) = 0 /\ DOMAIN None = {} /\ None = [x \in DOMAIN None |-> None[x]]
  BY NonePartial, PartialIs
<1>3. DOMAIN ByTime(<<>>) = {} /\ ByTime(<<>>) = [x \in DOMAIN ByTime(<<>>) |-> ByTime(<<>>)[x]]
 <2>1. 1..0 = {}
   OBVIOUS
 <2> QED BY <1>1, <1>2, <2>1, LookupIs
<1> QED BY <1>2, <1>3

LEMMA PlanMeans ==
  ASSUME NEW p, NEW b, NEW same, NEW plan, plan = ResolveUpdatePlan(p, b, same)
  PROVE  /\ plan \in {"replace", "update-latest", "append"}
         /\ plan # "replace" => p # <<>> /\ b # <<>>
         /\ plan = "update-latest" =>
              Len(b) = Len(p) /\ Last(b).t = Last(p).t /\ SamePrefix(p, b, Len(b) - 1)
         /\ plan = "append" => Len(b) = Len(p) + 1 /\ SamePrefix(p, b, Len(p))
BY DEF ResolveUpdatePlan

(* The candles a chart is given next: all new ones, or in Replay at least   *)
(* as many.                                                                 *)
Continues(bars, replays, g) ==
  /\ TimeOrdered(g.candles) /\ \A i \in 1..Len(g.candles) : 0 < g.candles[i].v
  /\ Replaying(g) => Len(g.candles) >= 2
  /\ replays => \/ g.candles = <<>> \/ g.candles[1] # bars[1]
                \/ Replaying(g) /\ Len(g.candles) >= Len(bars)

LEMMA LookupFollows ==
  ASSUME NEW p, NEW c, NEW b, NEW same, TimeOrdered(c), TimeOrdered(b), PushedFor(p, c),
         \A i \in 1..Len(b) : 0 < b[i].v,
         Len(p) < Len(c) => /\ Len(p) >= 2
                            /\ b = <<>> \/ b[1] # c[1] \/ Len(b) >= Len(c)
  PROVE  UpdateLookup(ByTime(c), b, ResolveUpdatePlan(p, b, same)) = ByTime(b)
<1> DEFINE plan == ResolveUpdatePlan(p, b, same)
           n == Len(p)
<1>1. /\ plan \in {"replace", "update-latest", "append"}
      /\ plan # "replace" => p # <<>> /\ b # <<>>
      /\ plan = "update-latest" => Len(b) = n /\ Last(b).t = Last(p).t /\ SamePrefix(p, b, Len(b) - 1)
      /\ plan = "append" => Len(b) = n + 1 /\ SamePrefix(p, b, n)
  BY PlanMeans
<1> HIDE DEF plan
<1>2. /\ p \in Seq(Candle) /\ n \in Nat /\ (p # <<>> => n # 0) /\ n <= Len(c)
      /\ b \in Seq(Candle) /\ Len(b) \in Nat /\ c \in Seq(Candle) /\ Len(c) \in Nat
 <2>1. p \in Seq(Candle) /\ b \in Seq(Candle) /\ c \in Seq(Candle) /\ n <= Len(c)
   BY DEF PushedFor, TimeOrdered
 <2> QED BY <2>1, EmptySeq
<1>3. \A i \in 1..n : p[i].t = c[i].t /\ (i < n => p[i] = c[i])
  BY DEF PushedFor
<1>4. CASE b = <<>>
  BY <1>4, LookupOfNone DEF UpdateLookup
<1>5. CASE plan = "replace" /\ b # <<>>
 <2>1. UpdateLookup(ByTime(c), b, plan) = ByTime(b)
   BY <1>5 DEF UpdateLookup
 <2> QED BY <2>1 DEF plan
<1>6. CASE plan = "update-latest"
 <2>1. UpdateLookup(ByTime(c), b, plan) = Put(ByTime(c), Last(b).t, Last(b).v)
   BY <1>1, <1>6 DEF UpdateLookup
 <2>2. Len(c) = n
  <3> SUFFICES ASSUME n < Len(c) PROVE FALSE
    BY <1>2
  <3>1. n >= 2 /\ b # <<>> /\ Len(b) = n /\ SamePrefix(p, b, n - 1) /\ b[1] # c[1]
    BY <1>1, <1>2, <1>6
  <3>2. 1 \in 1..n - 1 /\ 1 \in 1..n /\ 1 < n
    BY <1>2, <3>1
  <3> QED BY <1>3, <3>1, <3>2 DEF SamePrefix
 <2>3. n \in Nat \ {0} /\ Len(b) = n /\ Last(b) = b[n]
   BY <1>1, <1>2, <1>6 DEF Last
 <2>4. \A i \in 1..n - 1 : b[i] = c[i]
  <3>1. \A i \in 1..n - 1 : i \in 1..n /\ i < n
    BY <1>2
  <3> QED BY <1>1, <1>3, <1>6, <2>3, <3>1 DEF SamePrefix
 <2>5. b[n].t = c[n].t
  <3>1. n \in 1..n /\ Last(p) = p[n]
    BY <2>3 DEF Last
  <3> QED BY <1>1, <1>3, <1>6, <2>3, <3>1
 <2> HIDE DEF n
 <2>6. Put(ByTime(c), b[n].t, b[n].v) = ByTime(b)
   BY <2>2, <2>3, <2>4, <2>5, LookupLatest
 <2> QED BY <2>1, <2>3, <2>6 DEF plan
<1>7. CASE plan = "append"
 <2>1. UpdateLookup(ByTime(c), b, plan)
         = Put(Put(ByTime(c), b[Len(b) - 1].t, b[Len(b) - 1].v), Last(b).t, Last(b).v)
   BY <1>1, <1>7 DEF UpdateLookup
 <2>2. n \in Nat \ {0} /\ n + 1 \in Nat \ {0} /\ Len(b) = n + 1 /\ Len(b) - 1 = n /\ Last(b) = b[n + 1]
   BY <1>1, <1>2, <1>7 DEF Last
 <2>3. \A i \in 1..n : b[i] = p[i]
   BY <1>1, <1>7 DEF SamePrefix
 <2>4. Len(c) = n
  <3> SUFFICES ASSUME n < Len(c) PROVE FALSE
    BY <1>2
  <3>1. p[n].v = 0
    BY <1>1, <1>7 DEF PushedFor
  <3>2. n \in 1..n /\ n \in 1..Len(b)
    BY <2>2
  <3>3. 0 < b[n].v /\ b[n] = p[n]
    BY <2>3, <3>2
  <3> QED BY <3>1, <3>3
 <2> DEFINE d == SubSeq(b, 1, n)
 <2>5. d \in Seq(Candle) /\ Len(d) = n /\ \A i \in 1..n : d[i] = b[i]
  <3>1. \A i \in 1..n : b[i] \in Candle
    BY <1>2, <2>2, ElementOfSeq
  <3> HIDE DEF n
  <3>2. n \in Int /\ 1 <= n
    BY <2>2
  <3> QED BY <3>1, <3>2, SubSeqProperties
 <2> HIDE DEF d, n
 <2>6. TimeOrdered(d)
  <3>1. \A i \in 1..n : i \in 1..Len(b)
    BY <2>2
  <3> QED BY <2>5, <3>1 DEF TimeOrdered
 <2>7. Put(ByTime(c), d[n].t, d[n].v) = ByTime(d)
  <3>1. n \in 1..n /\ \A i \in 1..n - 1 : i \in 1..n /\ i < n
    BY <2>2
  <3>2. (\A i \in 1..n - 1 : d[i] = c[i]) /\ d[n].t = c[n].t
    BY <1>3, <2>3, <2>5, <3>1
  <3> QED BY <2>2, <2>4, <2>5, <2>6, <3>2, LookupLatest
 <2>8. d[n] = b[n]
   BY <2>2, <2>5
 <2>9. Put(ByTime(d), b[n + 1].t, b[n + 1].v) = ByTime(b)
  <3> DEFINE m == n + 1
  <3>1. m \in Nat \ {0} /\ Len(b) = m /\ Len(d) = m - 1 /\ \A i \in 1..m - 1 : b[i] = d[i]
    BY <2>2, <2>5
  <3> HIDE DEF m
  <3>2. Put(ByTime(d), b[m].t, b[m].v) = ByTime(b)
    BY <2>6, <3>1, LookupGrown
  <3> QED BY <3>2 DEF m
 <2> QED BY <2>1, <2>2, <2>7, <2>8, <2>9 DEF plan
<1> QED BY <1>1, <1>4, <1>5, <1>6, <1>7 DEF plan

LEMMA SeriesFollows ==
  ASSUME NEW p \in Seq(Candle), NEW b, NEW same, TimeOrdered(b)
  PROVE  /\ ResolveUpdatePlan(p, b, same) = "update-latest" => Updated(p, Last(b)) = b
         /\ ResolveUpdatePlan(p, b, same) = "append" => Updated(Updated(p, b[Len(b) - 1]), Last(b)) = b
<1> DEFINE plan == ResolveUpdatePlan(p, b, same)
<1>1. /\ plan # "replace" => p # <<>> /\ b # <<>>
      /\ plan = "update-latest" => Len(b) = Len(p) /\ Last(b).t = Last(p).t /\ SamePrefix(p, b, Len(b) - 1)
      /\ plan = "append" => Len(b) = Len(p) + 1 /\ SamePrefix(p, b, Len(p))
  BY PlanMeans
<1> HIDE DEF plan
<1>2. b \in Seq(Candle)
  BY DEF TimeOrdered
<1>3. ASSUME plan = "update-latest"
      PROVE  Updated(p, Last(b)) = b
  BY <1>1, <1>2, <1>3, LastReplaced
<1>4. ASSUME plan = "append"
      PROVE  Updated(Updated(p, b[Len(b) - 1]), Last(b)) = b
 <2>1. Len(p) \in Nat \ {0} /\ p # <<>>
   BY <1>1, <1>4, EmptySeq
 <2>2. Len(b) - 1 = Len(p) /\ Len(p) \in 1..Len(p)
   BY <1>1, <1>4, <2>1
 <2>3. b[Len(b) - 1] = Last(p)
   BY <1>1, <1>4, <2>2 DEF SamePrefix, Last
 <2>4. Updated(p, b[Len(b) - 1]) = p
   BY <2>1, <2>3, SameAgain
 <2>5. Updated(p, Last(b)) = b
   BY <1>1, <1>4, LastAppended
 <2> QED BY <2>4, <2>5
<1> QED BY <1>3, <1>4 DEF plan

(* Any surface is one over some set of values.                              *)
Surfaces(T) == [series : T, prev : T, lookup : T, count : T, latest : T, growing : T,
                initialized : T, fitted : T, lastFit : T, reset : T, applied : T, theme : T]
LEMMA SurfaceHolds ==
  ASSUME NEW s, IsSurface(s), NEW E
  PROVE  \E T : s \in Surfaces(T) /\ E \subseteq T
<1> DEFINE T == {s[f] : f \in DOMAIN s} \union E
<1>1. E \subseteq T /\ \A f \in DOMAIN s : s[f] \in T
  OBVIOUS
<1> HIDE DEF T
<1>2. s \in Surfaces(T)
  BY <1>1 DEF IsSurface, Surfaces
<1> QED BY <1>1, <1>2

LEMMA SurfaceIs ==
  ASSUME NEW T, NEW s \in Surfaces(T)
  PROVE  IsSurface(s)
BY DEF Surfaces, IsSurface

(* What each way of writing does to what is drawn.                          *)
LEMMA AllSetIs ==
  ASSUME NEW s, IsSurface(s), NEW bars
  PROVE  /\ IsSurface(AllSet(s, bars)) /\ AllSet(s, bars).series = bars
         /\ AllSet(s, bars).growing = s.growing
         /\ AllSet(s, bars).latest = IF bars = <<>> THEN Nothing ELSE Last(bars)
<1> DEFINE n == Len(bars)
           newest == IF bars = <<>> THEN Nothing ELSE Last(bars)
<1>1. AllSet(s, bars) = [s EXCEPT !.series = bars, !.count = n, !.latest = newest]
  BY DEF AllSet
<1> HIDE DEF n, newest
<1>2. PICK T : s \in Surfaces(T) /\ {bars, n, newest} \subseteq T
 <2> DEFINE E == {bars, n, newest}
 <2> HIDE DEF E
 <2>1. \E T : s \in Surfaces(T) /\ E \subseteq T
   BY SurfaceHolds
 <2> QED BY <2>1 DEF E
<1>3. LET w == [s EXCEPT !.series = bars, !.count = n, !.latest = newest]
      IN  w \in Surfaces(T) /\ w.series = bars /\ w.latest = newest /\ w.growing = s.growing
  BY <1>2 DEF Surfaces
<1> QED BY <1>1, <1>3, SurfaceIs DEF newest

LEMMA BurstingIs ==
  ASSUME NEW s, IsSurface(s), NEW g, NEW burst
  PROVE  LET w == Bursting(s, g, burst)
         IN  /\ IsSurface(w) /\ w.growing = burst
             /\ w.latest = Bar(burst[1].t, 0) /\ w.count = Len(s.prev) + 1
<1> DEFINE start == Bar(burst[1].t, 0)
           line == Updated(Updated(s.prev, g.candles[Len(s.prev)]), start)
           n == Len(s.prev) + 1
<1>1. Bursting(s, g, burst) = [s EXCEPT !.series = line, !.latest = start, !.count = n, !.growing = burst]
  BY DEF Bursting
<1> HIDE DEF start, line, n
<1>2. PICK T : s \in Surfaces(T) /\ {line, start, n, burst} \subseteq T
 <2> DEFINE E == {line, start, n, burst}
 <2> HIDE DEF E
 <2>1. \E T : s \in Surfaces(T) /\ E \subseteq T
   BY SurfaceHolds
 <2> QED BY <2>1 DEF E
<1>3. LET w == [s EXCEPT !.series = line, !.latest = start, !.count = n, !.growing = burst]
      IN  w \in Surfaces(T) /\ w.growing = burst /\ w.latest = start /\ w.count = n
  BY <1>2 DEF Surfaces
<1> QED BY <1>1, <1>3, SurfaceIs DEF start, n

LEMMA LatestWrittenIs ==
  ASSUME NEW s, IsSurface(s), NEW g, NEW plan, TimeOrdered(g.candles), g.candles # <<>>,
         s.latest \in Candle \union {Nothing}
  PROVE  LET w == LatestWritten(s, g, plan)
             target == Last(g.candles)
             base == IF plan = "append" THEN Updated(s.series, g.candles[Len(g.candles) - 1]) ELSE s.series
         IN  /\ IsSurface(w) /\ w.count = Len(g.candles)
             /\ w.latest \in Candle /\ w.latest.t = target.t
             /\ w.growing \in {<<>>, <<target>>}
             /\ ~ Replaying(g) => w.series = Updated(base, target) /\ w.growing = <<>>
<1> DEFINE target == Last(g.candles)
           base == IF plan = "append" THEN Updated(s.series, g.candles[Len(g.candles) - 1]) ELSE s.series
           start == IF s.latest # Nothing /\ s.latest.t = target.t THEN s.latest ELSE Bar(target.t, 0)
           animates == Replaying(g) /\ g.playing /\ start # target
           line == Updated(base, IF animates THEN start ELSE target)
           newest == IF animates THEN start ELSE target
           rest == IF animates THEN <<target>> ELSE <<>>
           n == Len(g.candles)
<1>1. LatestWritten(s, g, plan) = [s EXCEPT !.series = line, !.latest = newest, !.count = n, !.growing = rest]
  BY DEF LatestWritten
<1>2. target \in Candle /\ target.t \in Nat
 <2>1. g.candles \in Seq(Candle)
   BY DEF TimeOrdered
 <2>2. Len(g.candles) \in 1..Len(g.candles)
   BY <2>1, EmptySeq
 <2> QED BY <2>1, <2>2, TimesAndValues DEF Last
<1>3. start \in Candle /\ start.t = target.t
 <2> HIDE DEF target
 <2>1. Bar(target.t, 0) \in Candle /\ Bar(target.t, 0).t = target.t
   BY <1>2 DEF Bar, Candle
 <2> QED BY <2>1
<1>4. newest \in Candle /\ newest.t = target.t /\ rest \in {<<>>, <<target>>}
 <2> HIDE DEF start, target
 <2> QED BY <1>2, <1>3
<1>5. ~ Replaying(g) => line = Updated(base, target) /\ rest = <<>>
 <2> HIDE DEF base, target, start
 <2> QED OBVIOUS
<1> HIDE DEF line, newest, rest, n
<1>6. PICK T : s \in Surfaces(T) /\ {line, newest, n, rest} \subseteq T
 <2> DEFINE E == {line, newest, n, rest}
 <2> HIDE DEF E
 <2>1. \E T : s \in Surfaces(T) /\ E \subseteq T
   BY SurfaceHolds
 <2> QED BY <2>1 DEF E
<1>7. LET w == [s EXCEPT !.series = line, !.latest = newest, !.count = n, !.growing = rest]
      IN  w \in Surfaces(T) /\ w.series = line /\ w.latest = newest /\ w.count = n /\ w.growing = rest
  BY <1>6 DEF Surfaces
<1>8. IsSurface(LatestWritten(s, g, plan))
  BY <1>1, <1>7, SurfaceIs
<1> QED BY <1>1, <1>4, <1>5, <1>7, <1>8 DEF n

LEMMA AppendedIs ==
  ASSUME NEW p \in Seq(Candle), NEW b \in Seq(Candle), NEW burst,
         burst = ReplayAppended(p, b), burst # <<>>
  PROVE  /\ burst \in Seq(Candle) /\ Len(p) >= 1 /\ Len(p) < Len(b) /\ Len(burst) = Len(b) - Len(p)
         /\ \A i \in 1..Len(burst) : burst[i] = b[Len(p) + i]
<1> DEFINE n == Len(p)
           m == Len(b)
<1>1. p # <<>> /\ m > n /\ burst = SubSeq(b, n + 1, m)
  BY DEF ReplayAppended
<1>2. n \in Nat /\ m \in Nat /\ n # 0
  BY <1>1, EmptySeq
<1>3. \A i \in n + 1..m : b[i] \in Candle
 <2>1. \A i \in n + 1..m : i \in 1..m
   BY <1>2
 <2> QED BY <2>1, ElementOfSeq
<1> HIDE DEF n, m
<1> DEFINE k == n + 1
<1>4. k \in Int /\ m \in Int /\ k <= m /\ m - k + 1 = m - n /\ \A i \in 1..m - n : k + i - 1 = n + i
  BY <1>1, <1>2
<1>5. \A i \in k..m : b[i] \in Candle
  BY <1>3
<1> HIDE DEF k
<1>6. burst \in Seq(Candle) /\ Len(burst) = m - k + 1 /\ \A i \in 1..m - k + 1 : burst[i] = b[k + i - 1]
 <2>1. burst = SubSeq(b, k, m)
   BY <1>1 DEF k
 <2> QED BY <1>4, <1>5, <2>1, SubSeqProperties
<1>7. \A i \in 1..Len(burst) : burst[i] = b[n + i]
  BY <1>4, <1>6
<1> QED BY <1>1, <1>2, <1>4, <1>6, <1>7 DEF n, m

(* A push that is right but for its bookkeeping.                            *)
WrittenRight(w, g) ==
  /\ IsSurface(w) /\ w.latest \in Candle \union {Nothing}
  /\ w.growing # <<>> => Replaying(g) /\ Grows(w, g.candles)
  /\ ~ Replaying(g) => w.series = g.candles

LEMMA BurstRight ==
  ASSUME NEW s, IsSurface(s), NEW g, TimeOrdered(g.candles), s.prev \in Seq(Candle), Replaying(g),
         NEW burst, burst = ReplayAppended(s.prev, g.candles), burst # <<>>
  PROVE  WrittenRight(Bursting(s, g, burst), g)
<1> DEFINE w == Bursting(s, g, burst)
           b == g.candles
           n == Len(s.prev)
<1>1. IsSurface(w) /\ w.growing = burst /\ w.latest = Bar(burst[1].t, 0) /\ w.count = n + 1
  BY BurstingIs
<1>2. b \in Seq(Candle) /\ Len(b) \in Nat /\ n \in Nat
  BY DEF TimeOrdered
<1>3. /\ burst \in Seq(Candle) /\ n >= 1 /\ n < Len(b) /\ Len(burst) = Len(b) - n
      /\ \A i \in 1..Len(burst) : burst[i] = b[n + i]
 <2> DEFINE p == s.prev
            q == g.candles
 <2>1. p \in Seq(Candle) /\ q \in Seq(Candle) /\ burst = ReplayAppended(p, q)
   BY <1>2
 <2> HIDE DEF p, q
 <2>2. /\ burst \in Seq(Candle) /\ Len(p) >= 1 /\ Len(p) < Len(q) /\ Len(burst) = Len(q) - Len(p)
       /\ \A i \in 1..Len(burst) : burst[i] = q[Len(p) + i]
   BY <2>1, AppendedIs
 <2> QED BY <2>2 DEF p, q
<1> HIDE DEF w, b, n
<1>4. 1 \in 1..Len(burst) /\ n + 1 \in 2..Len(b) /\ Len(burst) = Len(b) - (n + 1) + 1
      /\ \A i \in 1..Len(burst) : (n + 1) + i - 1 = n + i
  BY <1>2, <1>3
<1>5. burst[1].t \in Nat /\ burst[1] = b[n + 1]
  BY <1>3, <1>4, TimesAndValues
<1>6. w.latest \in Candle /\ w.latest.t = b[n + 1].t /\ w.latest.v = 0
  BY <1>1, <1>5 DEF Bar, Candle
<1>7. \A i \in 1..Len(burst) : burst[i].t = b[(n + 1) + i - 1].t
  BY <1>3, <1>4
<1>8. Grows(w, b)
  BY <1>1, <1>3, <1>4, <1>6, <1>7 DEF Grows
<1> QED BY <1>1, <1>6, <1>8 DEF WrittenRight, w, b

LEMMA LatestRight ==
  ASSUME NEW s, IsSurface(s), NEW g, TimeOrdered(g.candles), s.latest \in Candle \union {Nothing},
         Replaying(g) => Len(g.candles) >= 2,
         NEW same, NEW plan, plan = ResolveUpdatePlan(s.prev, g.candles, same), plan # "replace",
         s.prev \in Seq(Candle), ~ Replaying(g) => s.series = s.prev
  PROVE  WrittenRight(LatestWritten(s, g, plan), g)
<1> DEFINE w == LatestWritten(s, g, plan)
           b == g.candles
           target == Last(b)
           base == IF plan = "append" THEN Updated(s.series, b[Len(b) - 1]) ELSE s.series
<1>1. b # <<>> /\ plan \in {"update-latest", "append"}
  BY PlanMeans
<1>2. /\ IsSurface(w) /\ w.count = Len(b)
      /\ w.latest \in Candle /\ w.latest.t = target.t
      /\ w.growing \in {<<>>, <<target>>}
      /\ ~ Replaying(g) => w.series = Updated(base, target) /\ w.growing = <<>>
  BY <1>1, LatestWrittenIs
<1>3. ASSUME ~ Replaying(g)
      PROVE  w.series = b
 <2>1. s.series = s.prev
   BY <1>3
 <2>2. CASE plan = "update-latest"
  <3>1. Updated(s.prev, Last(b)) = b
    BY <2>2, SeriesFollows
  <3> QED BY <1>2, <1>3, <2>1, <2>2, <3>1
 <2>3. CASE plan = "append"
  <3>1. Updated(Updated(s.prev, b[Len(b) - 1]), Last(b)) = b
    BY <2>3, SeriesFollows
  <3> QED BY <1>2, <1>3, <2>1, <2>3, <3>1
 <2> QED BY <1>1, <2>2, <2>3
<1>4. ASSUME w.growing # <<>>
      PROVE  Replaying(g) /\ Grows(w, b)
 <2>1. Replaying(g) /\ w.growing = <<target>>
   BY <1>2, <1>4
 <2>2. b \in Seq(Candle) /\ Len(b) \in Nat /\ Len(b) >= 2
   BY <2>1 DEF TimeOrdered
 <2>3. target = b[Len(b)] /\ target \in Candle
  <3>1. Len(b) \in 1..Len(b)
    BY <2>2
  <3> QED BY <2>2, <3>1, ElementOfSeq DEF Last
 <2> HIDE DEF w, b, target, base
 <2>4. w.growing \in Seq(Candle) /\ Len(w.growing) = 1 /\ w.growing[1] = target
   BY <2>1, <2>3
 <2>5. w.count \in 2..Len(b) /\ ~ (w.count < Len(b)) /\ Len(b) - w.count + 1 = 1 /\ w.count + 1 - 1 = Len(b)
   BY <1>2, <2>2
 <2>6. \A i \in 1..Len(w.growing) : i = 1
   BY <2>4
 <2>7. \A i \in 1..Len(w.growing) : w.growing[i].t = b[w.count + i - 1].t
   BY <2>3, <2>4, <2>5, <2>6
 <2> QED BY <1>2, <2>1, <2>3, <2>4, <2>5, <2>7 DEF Grows
<1> HIDE DEF w
<1> QED BY <1>2, <1>3, <1>4 DEF WrittenRight, w

LEMMA ReplacedRight ==
  ASSUME NEW s, IsSurface(s), NEW g, TimeOrdered(g.candles), s.growing = <<>>
  PROVE  WrittenRight(AllSet(s, g.candles), g)
<1>1. g.candles # <<>> => Last(g.candles) \in Candle
 <2> SUFFICES ASSUME g.candles # <<>> PROVE Last(g.candles) \in Candle
   OBVIOUS
 <2>1. g.candles \in Seq(Candle)
   BY DEF TimeOrdered
 <2>2. Len(g.candles) \in 1..Len(g.candles)
   BY <2>1, EmptySeq
 <2> QED BY <2>1, <2>2, ElementOfSeq DEF Last
<1> QED BY <1>1, AllSetIs DEF WrittenRight

LEMMA PushFollows ==
  ASSUME NEW s, IsSurface(s), NEW c, TimeOrdered(c), NEW replays \in BOOLEAN, Follows(s, c, replays),
         NEW g, Continues(c, replays, g)
  PROVE  IsSurface(Pushed(s, g)) /\ Follows(Pushed(s, g), g.candles, Replaying(g))
<1> DEFINE b == g.candles
           p == s.prev
           same == s.theme = g.theme
           plan == ResolveUpdatePlan(p, b, same)
           burst == IF Replaying(g) /\ g.playing /\ same THEN ReplayAppended(p, b) ELSE <<>>
           still == [s EXCEPT !.growing = <<>>]
           jumped == Replaying(g) /\ ~ g.playing /\ s.count # Len(b)
           wrote == CASE ~ jumped /\ burst # <<>> -> Bursting(still, g, burst)
                      [] ~ jumped /\ burst = <<>> /\ plan \in {"update-latest", "append"} -> LatestWritten(still, g, plan)
                      [] OTHER -> AllSet(still, b)
           book == UpdateLookup(s.lookup, b, plan)
           end == [wrote EXCEPT !.prev = b, !.theme = g.theme, !.applied = g.market, !.lookup = book]
<1>1. Pushed(s, g) = end
  BY DEF Pushed
<1>2. IsSurface(still) /\ still.growing = <<>> /\ still.prev = p /\ still.series = s.series /\ still.latest = s.latest
 <2>1. PICK T : s \in Surfaces(T) /\ {<<>>} \subseteq T
  <3> DEFINE E == {<<>>}
  <3> HIDE DEF E
  <3>1. \E T : s \in Surfaces(T) /\ E \subseteq T
    BY SurfaceHolds
  <3> QED BY <3>1 DEF E
 <2>2. still \in Surfaces(T) /\ still.growing = <<>> /\ still.prev = p /\ still.series = s.series /\ still.latest = s.latest
   BY <2>1 DEF Surfaces
 <2> QED BY <2>2, SurfaceIs
<1>3. /\ PushedFor(p, c) /\ p \in Seq(Candle) /\ s.lookup = ByTime(c) /\ s.latest \in Candle \union {Nothing}
      /\ replays => Len(p) >= 2
      /\ ~ replays => s.series = p /\ p = c
  BY DEF Follows, PushedFor
<1>4. /\ TimeOrdered(b) /\ \A i \in 1..Len(b) : 0 < b[i].v
      /\ Replaying(g) => Len(b) >= 2
      /\ replays => b = <<>> \/ b[1] # c[1] \/ (Replaying(g) /\ Len(b) >= Len(c))
  BY DEF Continues
<1>5. book = ByTime(b)
 <2>1. Len(c) \in Nat
   BY DEF TimeOrdered
 <2>2. Len(p) < Len(c) => Len(p) >= 2 /\ (b = <<>> \/ b[1] # c[1] \/ Len(b) >= Len(c))
  <3>1. Len(p) < Len(c) => replays
    BY <1>3, <2>1
  <3> QED BY <1>3, <1>4, <3>1
 <2> HIDE DEF p, b, same
 <2> QED BY <1>3, <1>4, <2>2, LookupFollows
<1>6. ASSUME ~ Replaying(g), plan # "replace"
      PROVE  s.series = p
 <2> SUFFICES ASSUME replays PROVE FALSE
   BY <1>3
 <2>1. b # <<>> /\ b[1] # c[1] /\ Len(p) \in Nat /\ Len(p) >= 2
  <3>1. p # <<>> /\ b # <<>>
    BY <1>6, PlanMeans
  <3> QED BY <1>3, <1>4, <1>6, <3>1
 <2>2. p[1] = c[1]
  <3>1. 1 \in 1..Len(p) /\ 1 < Len(p)
    BY <2>1
  <3> QED BY <1>3, <3>1 DEF PushedFor
 <2>3. \/ Len(b) = Len(p) /\ SamePrefix(p, b, Len(b) - 1)
       \/ SamePrefix(p, b, Len(p))
   BY <1>6, PlanMeans
 <2>4. 1 \in 1..Len(p) - 1 /\ 1 \in 1..Len(p)
   BY <2>1
 <2> QED BY <2>1, <2>2, <2>3, <2>4 DEF SamePrefix
<1>7. WrittenRight(wrote, g)
 <2>1. CASE ~ jumped /\ burst # <<>>
  <3>1. wrote = Bursting(still, g, burst)
    BY <2>1
  <3>2. Replaying(g) /\ burst = ReplayAppended(p, b)
    BY <2>1
  <3> HIDE DEF burst, still, wrote
  <3>3. WrittenRight(Bursting(still, g, burst), g)
    BY <1>2, <1>3, <1>4, <2>1, <3>2, BurstRight
  <3> QED BY <3>1, <3>3
 <2>2. CASE ~ jumped /\ burst = <<>> /\ plan \in {"update-latest", "append"}
  <3>1. wrote = LatestWritten(still, g, plan)
    BY <2>2
  <3>2. plan = ResolveUpdatePlan(still.prev, b, same) /\ plan # "replace"
    BY <1>2, <2>2
  <3>3. ~ Replaying(g) => still.series = still.prev
    BY <1>2, <1>6, <3>2
  <3> HIDE DEF burst, still, wrote, plan, same
  <3>4. WrittenRight(LatestWritten(still, g, plan), g)
    BY <1>2, <1>3, <1>4, <3>2, <3>3, LatestRight
  <3> QED BY <3>1, <3>4
 <2>3. CASE ~ (~ jumped /\ burst # <<>>) /\ ~ (~ jumped /\ burst = <<>> /\ plan \in {"update-latest", "append"})
  <3>1. wrote = AllSet(still, b)
    BY <2>3
  <3> HIDE DEF burst, still, wrote, plan, same
  <3>2. WrittenRight(AllSet(still, b), g)
    BY <1>2, <1>4, ReplacedRight
  <3> QED BY <3>1, <3>2
 <2> HIDE DEF jumped, burst, plan, wrote
 <2> QED BY <2>1, <2>2, <2>3
<1> HIDE DEF wrote, book
<1>8. /\ IsSurface(end) /\ end.prev = b /\ end.lookup = book /\ end.series = wrote.series
      /\ end.latest = wrote.latest /\ end.growing = wrote.growing /\ end.count = wrote.count
 <2> DEFINE E == {b, g.theme, g.market, book}
 <2>0. IsSurface(wrote)
   BY <1>7 DEF WrittenRight
 <2>1. PICK T : wrote \in Surfaces(T) /\ {b, g.theme, g.market, book} \subseteq T
  <3> HIDE DEF E
  <3>1. \E T : wrote \in Surfaces(T) /\ E \subseteq T
    BY <2>0, SurfaceHolds
  <3> QED BY <3>1 DEF E
 <2>2. /\ end \in Surfaces(T) /\ end.prev = b /\ end.lookup = book /\ end.series = wrote.series
       /\ end.latest = wrote.latest /\ end.growing = wrote.growing /\ end.count = wrote.count
   BY <2>1 DEF Surfaces
 <2> QED BY <2>2, SurfaceIs
<1> HIDE DEF end
<1>9. PushedFor(b, b)
  BY <1>4 DEF PushedFor, TimeOrdered
<1>10. end.growing # <<>> => Replaying(g) /\ Grows(end, b)
  BY <1>7, <1>8 DEF WrittenRight, Grows
<1>11. Follows(end, b, Replaying(g))
  BY <1>4, <1>5, <1>7, <1>8, <1>9, <1>10 DEF Follows, WrittenRight
<1> QED BY <1>1, <1>8, <1>11

(* The bookkeeping of the viewport leaves what is drawn alone.              *)
SameDrawn(s, x) ==
  /\ IsSurface(x) /\ x.series = s.series /\ x.prev = s.prev /\ x.lookup = s.lookup
  /\ x.count = s.count /\ x.latest = s.latest /\ x.growing = s.growing

LEMMA DrawnFollows ==
  ASSUME NEW s, NEW x, SameDrawn(s, x), NEW c, NEW replays, Follows(s, c, replays)
  PROVE  IsSurface(x) /\ Follows(x, c, replays)
BY DEF SameDrawn, Follows, Grows

LEMMA MarksLeaveDrawn ==
  ASSUME NEW s, IsSurface(s), NEW a, NEW b, NEW d
  PROVE  /\ SameDrawn(s, s)
         /\ SameDrawn(s, [s EXCEPT !.fitted = a, !.lastFit = b, !.reset = d])
         /\ SameDrawn(s, [s EXCEPT !.reset = d, !.lastFit = b, !.fitted = a])
         /\ SameDrawn(s, [s EXCEPT !.fitted = a, !.lastFit = b, !.initialized = d])
         /\ SameDrawn(s, [s EXCEPT !.initialized = d, !.lastFit = b, !.fitted = a])
         /\ SameDrawn(s, [s EXCEPT !.lastFit = b, !.fitted = a])
<1>1. PICK T : s \in Surfaces(T) /\ {a, b, d} \subseteq T
 <2> DEFINE E == {a, b, d}
 <2> HIDE DEF E
 <2>1. \E T : s \in Surfaces(T) /\ E \subseteq T
   BY SurfaceHolds
 <2> QED BY <2>1 DEF E
<1>2. ASSUME NEW x, x \in Surfaces(T), x.series = s.series, x.prev = s.prev, x.lookup = s.lookup,
             x.count = s.count, x.latest = s.latest, x.growing = s.growing
      PROVE  SameDrawn(s, x)
  BY <1>2, SurfaceIs DEF SameDrawn
<1>3. SameDrawn(s, s)
  BY <1>1, <1>2
<1> DEFINE x1 == [s EXCEPT !.fitted = a, !.lastFit = b, !.reset = d]
           x2 == [s EXCEPT !.reset = d, !.lastFit = b, !.fitted = a]
           x3 == [s EXCEPT !.fitted = a, !.lastFit = b, !.initialized = d]
           x4 == [s EXCEPT !.initialized = d, !.lastFit = b, !.fitted = a]
           x5 == [s EXCEPT !.lastFit = b, !.fitted = a]
           SameParts(x) == /\ x \in Surfaces(T) /\ x.series = s.series /\ x.prev = s.prev /\ x.lookup = s.lookup
                      /\ x.count = s.count /\ x.latest = s.latest /\ x.growing = s.growing
<1>4. SameParts(x1)
  BY <1>1 DEF Surfaces
<1>5. SameParts(x2)
  BY <1>1 DEF Surfaces
<1>6. SameParts(x3)
  BY <1>1 DEF Surfaces
<1>7. SameParts(x4)
  BY <1>1 DEF Surfaces
<1>8. SameParts(x5)
  BY <1>1 DEF Surfaces
<1> HIDE DEF x1, x2, x3, x4, x5
<1>9. SameDrawn(s, x1) /\ SameDrawn(s, x2) /\ SameDrawn(s, x3) /\ SameDrawn(s, x4) /\ SameDrawn(s, x5)
  BY <1>2, <1>4, <1>5, <1>6, <1>7, <1>8
<1> QED BY <1>3, <1>9 DEF x1, x2, x3, x4, x5

(* Pausing Replay stops an animation where it is: what was pushed is then   *)
(* the candles up to the one that was growing.                              *)
LEMMA FreezeFollows ==
  ASSUME NEW s, IsSurface(s), NEW c, TimeOrdered(c), NEW replays, Follows(s, c, replays),
         NEW g, ShouldFreeze(s, g)
  PROVE  /\ IsSurface(Frozen(s, g)) /\ Follows(Frozen(s, g), g.candles, Replaying(g))
         /\ g.candles = c
<1> DEFINE m == IF s.count < Len(g.candles) THEN s.count ELSE Len(g.candles)
           prev == IF m > 0 /\ s.latest # Nothing THEN Append(SubSeq(g.candles, 1, m - 1), s.latest) ELSE s.prev
           f == [s EXCEPT !.growing = <<>>, !.theme = g.theme, !.prev = prev]
<1>1. Frozen(s, g) = f
  BY DEF Frozen
<1>2. Replaying(g) /\ s.growing # <<>> /\ g.candles = s.prev
  BY DEF ShouldFreeze
<1>3. g.candles = c /\ s.prev = c /\ Grows(s, c)
  BY <1>2 DEF Follows
<1>4. c \in Seq(Candle) /\ Len(c) \in Nat /\ s.count \in 2..Len(c) /\ s.latest \in Candle
  BY <1>3 DEF TimeOrdered, Grows
<1>5. m = s.count
  BY <1>3, <1>4
<1> HIDE DEF m
<1>6. prev \in Seq(Candle) /\ PushedFor(prev, c) /\ Len(prev) >= 2
 <2>1. CASE s.latest = Nothing
  <3>1. prev = c
    BY <1>3, <2>1
  <3> HIDE DEF prev
  <3>2. PushedFor(c, c) /\ Len(c) >= 2
    BY <1>4 DEF PushedFor
  <3> QED BY <1>4, <3>1, <3>2
 <2>2. CASE s.latest # Nothing
  <3> DEFINE n == s.count
             front == SubSeq(c, 1, n - 1)
  <3>1. n - 1 \in Int /\ 1 <= n - 1 /\ n - 1 - 1 + 1 = n - 1 /\ \A i \in 1..n - 1 : 1 + i - 1 = i /\ i \in 1..Len(c)
    BY <1>4
  <3>2. \A i \in 1..n - 1 : c[i] \in Candle
    BY <1>4, <3>1, ElementOfSeq
  <3>3. front \in Seq(Candle) /\ Len(front) = n - 1 /\ \A i \in 1..n - 1 : front[i] = c[i]
   <4> DEFINE k == n - 1
   <4>1. k \in Int /\ 1 <= k /\ k - 1 + 1 = k /\ \A i \in 1..k : 1 + i - 1 = i /\ c[i] \in Candle
     BY <3>1, <3>2
   <4> HIDE DEF k
   <4>2. SubSeq(c, 1, k) \in Seq(Candle) /\ Len(SubSeq(c, 1, k)) = k
         /\ \A i \in 1..k : SubSeq(c, 1, k)[i] = c[i]
     BY <4>1, SubSeqProperties
   <4> QED BY <4>2 DEF k
  <3>4. prev = Append(front, s.latest)
    BY <1>3, <1>4, <1>5, <2>2
  <3> HIDE DEF front, prev
  <3>5. prev \in Seq(Candle) /\ Len(prev) = n
        /\ \A i \in 1..n : prev[i] = IF i = n THEN s.latest ELSE front[i]
    BY <1>4, <3>3, <3>4
  <3>6. \A i \in 1..n : i # n => i \in 1..n - 1
    BY <1>4
  <3>7. \A i \in 1..Len(prev) : prev[i].t = c[i].t /\ (i < Len(prev) => prev[i] = c[i])
   <4> SUFFICES ASSUME NEW i \in 1..n
                PROVE  prev[i].t = c[i].t /\ (i < n => prev[i] = c[i])
     BY <3>5
   <4>1. CASE i = n
    <5>1. s.latest.t = c[n].t /\ n \in Nat
      BY <1>3, <1>4 DEF Grows
    <5> HIDE DEF n
    <5> QED BY <3>5, <4>1, <5>1
   <4>2. CASE i # n
     BY <3>3, <3>5, <3>6, <4>2
   <4> QED BY <4>1, <4>2
  <3>8. n \in 1..n /\ prev[n] = s.latest
    BY <1>4, <3>5
  <3>9. Len(prev) < Len(c) => prev[Len(prev)].v = 0
    BY <1>3, <3>5, <3>8 DEF Grows
  <3> QED BY <1>4, <3>5, <3>7, <3>9 DEF PushedFor
 <2> QED BY <2>1, <2>2
<1> HIDE DEF prev
<1>7. /\ IsSurface(f) /\ f.prev = prev /\ f.growing = <<>> /\ f.lookup = s.lookup /\ f.latest = s.latest
 <2> DEFINE E == {<<>>, g.theme, prev}
 <2>1. PICK T : s \in Surfaces(T) /\ {<<>>, g.theme, prev} \subseteq T
  <3> HIDE DEF E
  <3>1. \E T : s \in Surfaces(T) /\ E \subseteq T
    BY SurfaceHolds
  <3> QED BY <3>1 DEF E
 <2>2. /\ f \in Surfaces(T) /\ f.prev = prev /\ f.growing = <<>> /\ f.lookup = s.lookup
       /\ f.latest = s.latest
   BY <2>1 DEF Surfaces
 <2> QED BY <2>2, SurfaceIs
<1> HIDE DEF f
<1>8. Follows(f, c, Replaying(g))
  BY <1>2, <1>4, <1>6, <1>7 DEF Follows
<1> QED BY <1>1, <1>3, <1>7, <1>8

(* The first push finds nothing pushed before, and replaces.                *)
LEMMA FirstPushFollows ==
  ASSUME NEW s, IsSurface(s), s.prev = <<>>, NEW c, NEW replays, NEW g, Continues(c, replays, g)
  PROVE  IsSurface(Pushed(s, g)) /\ Follows(Pushed(s, g), g.candles, Replaying(g))
<1> DEFINE b == g.candles
           still == [s EXCEPT !.growing = <<>>]
           all == AllSet(still, b)
           book == IF b = <<>> THEN None ELSE ByTime(b)
           end == [all EXCEPT !.prev = b, !.theme = g.theme, !.applied = g.market, !.lookup = book]
<1>1. TimeOrdered(b) /\ (Replaying(g) => Len(b) >= 2)
  BY DEF Continues
<1>2. Pushed(s, g) = end
 <2>1. ResolveUpdatePlan(s.prev, b, s.theme = g.theme) = "replace" /\ ReplayAppended(s.prev, b) = <<>>
   BY DEF ResolveUpdatePlan, ReplayAppended
 <2>2. UpdateLookup(s.lookup, b, "replace") = book
   BY DEF UpdateLookup
 <2> HIDE DEF book, all
 <2> QED BY <2>1, <2>2 DEF Pushed, all
<1>3. IsSurface(still) /\ still.growing = <<>>
 <2>1. PICK T : s \in Surfaces(T) /\ {<<>>} \subseteq T
  <3> DEFINE E == {<<>>}
  <3> HIDE DEF E
  <3>1. \E T : s \in Surfaces(T) /\ E \subseteq T
    BY SurfaceHolds
  <3> QED BY <3>1 DEF E
 <2>2. still \in Surfaces(T) /\ still.growing = <<>>
   BY <2>1 DEF Surfaces
 <2> QED BY <2>2, SurfaceIs
<1> HIDE DEF still
<1>4. WrittenRight(all, g) /\ all.series = b /\ all.growing = <<>>
  BY <1>1, <1>3, ReplacedRight, AllSetIs
<1>5. book = ByTime(b)
  BY LookupOfNone
<1> HIDE DEF all, book
<1>6. /\ IsSurface(end) /\ end.prev = b /\ end.lookup = book /\ end.series = b
      /\ end.latest = all.latest /\ end.growing = <<>>
 <2> DEFINE E == {b, g.theme, g.market, book}
 <2>0. IsSurface(all)
   BY <1>4 DEF WrittenRight
 <2>1. PICK T : all \in Surfaces(T) /\ {b, g.theme, g.market, book} \subseteq T
  <3> HIDE DEF E
  <3>1. \E T : all \in Surfaces(T) /\ E \subseteq T
    BY <2>0, SurfaceHolds
  <3> QED BY <3>1 DEF E
 <2>2. /\ end \in Surfaces(T) /\ end.prev = b /\ end.lookup = book /\ end.series = b
       /\ end.latest = all.latest /\ end.growing = <<>>
   BY <1>4, <2>1 DEF Surfaces
 <2> QED BY <2>2, SurfaceIs
<1> HIDE DEF end
<1>7. PushedFor(b, b)
  BY <1>1 DEF PushedFor, TimeOrdered
<1>8. Follows(end, b, Replaying(g))
  BY <1>1, <1>4, <1>5, <1>6, <1>7 DEF Follows, WrittenRight
<1> QED BY <1>2, <1>6, <1>8

LEMMA FrameFollows ==
  ASSUME GivenIsRight, SurfaceIsRight, NEW g, Continues(given.candles, Replaying(given), g),
         FrameCommitted(g)
  PROVE  IsSurface(surface') /\ Follows(surface', g.candles, Replaying(g))
<1> DEFINE c == given.candles
           r == Replaying(given)
           s0 == MarketEffect(surface, g)
           s1 == Emptied(s0, g)
           pushed == Pushed(s1, g)
<1>1. /\ TimeOrdered(c) /\ r \in BOOLEAN /\ IsSurface(surface)
      /\ IF AsMounted THEN OnlyDrawn(surface, c) ELSE Follows(surface, c, r)
  BY DEF GivenIsRight, SurfaceIsRight, Replaying
<1>2. SameDrawn(surface, s0)
  BY <1>1, MarksLeaveDrawn DEF MarketEffect
<1> HIDE DEF s0
<1>3. SameDrawn(s0, s1)
 <2>1. IsSurface(s0)
   BY <1>2 DEF SameDrawn
 <2> QED BY <2>1, MarksLeaveDrawn DEF Emptied
<1> HIDE DEF s1, c, r
<1>4. IsSurface(pushed) /\ Follows(pushed, g.candles, Replaying(g))
 <2>1. CASE AsMounted
  <3>1. IsSurface(s1) /\ s1.prev = <<>>
    BY <1>1, <1>2, <1>3, <2>1 DEF SameDrawn, OnlyDrawn
  <3> QED BY <3>1, FirstPushFollows
 <2>2. CASE ~ AsMounted
  <3>1. IsSurface(s1) /\ Follows(s1, c, r)
    BY <1>1, <1>2, <1>3, <2>2, DrawnFollows
  <3> QED BY <1>1, <3>1, PushFollows DEF c, r
 <2> QED BY <2>1, <2>2
<1> HIDE DEF pushed
<1>5. CASE ShouldFreeze(s0, g)
 <2>1. surface' = Frozen(s0, g)
   BY <1>5 DEF FrameCommitted, s0
 <2>2. s0.growing # <<>>
   BY <1>5 DEF ShouldFreeze
 <2>3. IsSurface(s0) /\ Follows(s0, c, r)
   BY <1>1, <1>2, <2>2, DrawnFollows DEF SameDrawn, OnlyDrawn
 <2>4. IsSurface(Frozen(s0, g)) /\ Follows(Frozen(s0, g), g.candles, Replaying(g))
   BY <1>1, <1>5, <2>3, FreezeFollows
 <2> QED BY <2>1, <2>4
<1>6. CASE ~ ShouldFreeze(s0, g)
 <2>1. \/ \E a, b, d : surface' = [pushed EXCEPT !.reset = d, !.lastFit = b, !.fitted = a]
       \/ \E a, b, d : surface' = [pushed EXCEPT !.initialized = d, !.lastFit = b, !.fitted = a]
       \/ \E a, b : surface' = [pushed EXCEPT !.lastFit = b, !.fitted = a]
       \/ surface' = pushed
   BY <1>6 DEF FrameCommitted, s0, s1, pushed
 <2>2. SameDrawn(pushed, surface')
  <3>1. ASSUME NEW a, NEW b, NEW d
        PROVE  /\ SameDrawn(pushed, pushed)
               /\ SameDrawn(pushed, [pushed EXCEPT !.reset = d, !.lastFit = b, !.fitted = a])
               /\ SameDrawn(pushed, [pushed EXCEPT !.initialized = d, !.lastFit = b, !.fitted = a])
               /\ SameDrawn(pushed, [pushed EXCEPT !.lastFit = b, !.fitted = a])
    BY <1>4, MarksLeaveDrawn
  <3>2. CASE \E a, b, d : surface' = [pushed EXCEPT !.reset = d, !.lastFit = b, !.fitted = a]
   <4>1. PICK a, b, d : surface' = [pushed EXCEPT !.reset = d, !.lastFit = b, !.fitted = a]
     BY <3>2
   <4>2. SameDrawn(pushed, [pushed EXCEPT !.reset = d, !.lastFit = b, !.fitted = a])
     BY <3>1
   <4> QED BY <4>1, <4>2
  <3>3. CASE \E a, b, d : surface' = [pushed EXCEPT !.initialized = d, !.lastFit = b, !.fitted = a]
   <4>1. PICK a, b, d : surface' = [pushed EXCEPT !.initialized = d, !.lastFit = b, !.fitted = a]
     BY <3>3
   <4>2. SameDrawn(pushed, [pushed EXCEPT !.initialized = d, !.lastFit = b, !.fitted = a])
     BY <3>1
   <4> QED BY <4>1, <4>2
  <3>4. CASE \E a, b : surface' = [pushed EXCEPT !.lastFit = b, !.fitted = a]
    BY <3>1, <3>4
  <3> QED BY <2>1, <3>1, <3>2, <3>3, <3>4
 <2> QED BY <1>4, <2>2, DrawnFollows
<1> QED BY <1>5, <1>6

(***************************************************************************)
(* The candles a chart is given stay in the order of their times, and those *)
(* that are new carry the version they came with.                           *)
(***************************************************************************)
MoveIsRight(g) ==
  /\ IsGiven(g) /\ g.version = given.version
  /\ LatestOf(g, given.version)
  /\ Continues(given.candles, Replaying(given), g)

LEMMA CommitKeeps ==
  ASSUME SurfaceInv, NEW g, MoveIsRight(g), Given(g)
  PROVE  SurfaceInv'
<1>1. IsSurface(surface') /\ Follows(surface', g.candles, Replaying(g))
  BY FrameFollows DEF SurfaceInv, MoveIsRight, Given
<1>2. /\ IsGiven(given') /\ given'.candles = g.candles /\ given'.session = g.session
      /\ given'.version = given.version + 1
 <2>1. given' = [g EXCEPT !.version = @ + 1] /\ IsGiven(g) /\ g.version = given.version
   BY DEF Given, MoveIsRight
 <2> QED BY <2>1 DEF IsGiven
<1>3. given.version \in Nat /\ given.version >= Mounted
  BY DEF SurfaceInv, GivenIsRight
<1>4. GivenIsRight' /\ ~ AsMounted'
 <2>1. given'.version - 1 = given.version /\ given'.version \in Nat /\ given'.version > Mounted
   BY <1>2, <1>3 DEF Mounted
 <2>2. LatestOf(g, given.version) /\ TimeOrdered(g.candles) /\ (Replaying(g) => Len(g.candles) >= 2)
   BY DEF MoveIsRight, Continues
 <2> QED BY <1>2, <2>1, <2>2 DEF GivenIsRight, LatestOf, Replaying, AsMounted, Mounted
<1>5. SurfaceIsRight'
  BY <1>1, <1>2, <1>4 DEF SurfaceIsRight, Replaying
<1>6. PlottedIsRight'
  BY DEF SurfaceInv, PlottedIsRight, Given
<1> QED BY <1>4, <1>5, <1>6 DEF SurfaceInv

(* Whole windows, with bars of the current version.                         *)
LEMMA WindowIs ==
  ASSUME GivenIsRight, NEW a \in Nat, NEW b \in Nat, a <= b + 1
  PROVE  LET w == ShownWindow(a, b)
         IN  /\ TimeOrdered(w) /\ Len(w) = b - a + 1
             /\ \A i \in 1..Len(w) : w[i].t = a + i - 1 /\ w[i].v = given.version
<1>1. given.version \in Nat
  BY DEF GivenIsRight
<1> QED BY <1>1, BarsAre DEF ShownWindow

LEMMA WindowMoves ==
  ASSUME GivenIsRight, NEW w, TimeOrdered(w), \A i \in 1..Len(w) : w[i].v = given.version,
         NEW g, IsGiven(g), g.version = given.version, g.candles = w, Replaying(g) => Len(w) >= 2
  PROVE  MoveIsRight(g)
<1>1. given.version \in Nat \ {0} /\ w \in Seq(Candle) /\ Len(w) \in Nat
  BY DEF GivenIsRight, Mounted, TimeOrdered
<1>2. LatestOf(g, given.version) /\ \A i \in 1..Len(g.candles) : 0 < g.candles[i].v
  BY <1>1 DEF LatestOf
<1>3. ASSUME Replaying(given), w # <<>>
      PROVE  w[1] # given.candles[1]
 <2>1. 1 \in 1..Len(w)
   BY <1>1, <1>3, EmptySeq
 <2>2. 1 \in 1..Len(given.candles)
  <3>1. Len(given.candles) >= 2 /\ Len(given.candles) \in Nat
    BY <1>3 DEF GivenIsRight, TimeOrdered
  <3> QED BY <3>1
 <2>3. given.candles[1].v <= given.version - 1 /\ given.candles[1].v \in Nat
  <3>1. given.candles \in Seq(Candle)
    BY DEF GivenIsRight, TimeOrdered
  <3> QED BY <2>2, <3>1, TimesAndValues DEF GivenIsRight, LatestOf
 <2> QED BY <1>1, <2>1, <2>3
<1>4. Continues(given.candles, Replaying(given), g)
  BY <1>2, <1>3 DEF Continues
<1> QED BY <1>2, <1>4 DEF MoveIsRight

LEMMA OldValues ==
  ASSUME GivenIsRight
  PROVE  \A i \in 1..Len(given.candles) :
           given.candles[i].v \in Nat /\ 0 < given.candles[i].v /\ given.candles[i].v <= given.version
<1> SUFFICES ASSUME NEW i \in 1..Len(given.candles)
             PROVE  /\ given.candles[i].v \in Nat /\ 0 < given.candles[i].v
                    /\ given.candles[i].v <= given.version
  OBVIOUS
<1>1. given.version \in Nat /\ given.candles \in Seq(Candle)
  BY DEF GivenIsRight, TimeOrdered
<1>2. given.candles[i].v \in Nat /\ 0 < given.candles[i].v /\ given.candles[i].v <= given.version - 1
  BY <1>1, TimesAndValues DEF GivenIsRight, LatestOf
<1> QED BY <1>1, <1>2

(* The same candles again.                                                  *)
LEMMA SameCandlesMove ==
  ASSUME GivenIsRight, NEW g, IsGiven(g), g.version = given.version, g.candles = given.candles,
         Replaying(g) <=> Replaying(given)
  PROVE  MoveIsRight(g)
<1>1. given.version \in Nat \ {0} /\ given.candles \in Seq(Candle) /\ Len(given.candles) \in Nat
  BY DEF GivenIsRight, Mounted, TimeOrdered
<1>2. LatestOf(g, given.version) /\ \A i \in 1..Len(g.candles) : 0 < g.candles[i].v
  BY OldValues DEF LatestOf
<1>3. Continues(given.candles, Replaying(given), g)
  BY <1>1, <1>2 DEF Continues, GivenIsRight
<1> QED BY <1>2, <1>3 DEF MoveIsRight

(* Outside Replay any candles in order will do.                             *)
LEMMA LiveMoves ==
  ASSUME GivenIsRight, ~ Replaying(given), NEW g, IsGiven(g), g.version = given.version,
         TimeOrdered(g.candles), ~ Replaying(g),
         \A i \in 1..Len(g.candles) : 0 < g.candles[i].v /\ g.candles[i].v <= given.version
  PROVE  MoveIsRight(g)
BY DEF MoveIsRight, Continues, LatestOf

Gifts(T) == [market : T, candles : T, theme : T, session : T, playing : T, version : T]
KeptBy(g, bars, session) ==
  IsGiven(g) /\ g.version = given.version /\ g.candles = bars /\ g.session = session
LEMMA GivenChanged ==
  ASSUME IsGiven(given), NEW w, NEW k, NEW x, NEW y
  PROVE  /\ KeptBy([given EXCEPT !.candles = w], w, given.session)
         /\ KeptBy([given EXCEPT !.market = k, !.candles = w], w, given.session)
         /\ KeptBy([given EXCEPT !.session = x, !.playing = y, !.candles = w], w, x)
         /\ KeptBy([given EXCEPT !.theme = x], given.candles, given.session)
         /\ KeptBy([given EXCEPT !.playing = y], given.candles, given.session)
<1> DEFINE T == {given[f] : f \in DOMAIN given} \union {w, k, x, y}
<1>1. w \in T /\ k \in T /\ x \in T /\ y \in T /\ \A f \in DOMAIN given : given[f] \in T
  OBVIOUS
<1> HIDE DEF T
<1>2. given \in Gifts(T)
  BY <1>1 DEF IsGiven, Gifts
<1>3. ASSUME NEW g \in Gifts(T)
      PROVE  IsGiven(g)
  BY DEF Gifts, IsGiven
<1> DEFINE g1 == [given EXCEPT !.candles = w]
           g2 == [given EXCEPT !.market = k, !.candles = w]
           g3 == [given EXCEPT !.session = x, !.playing = y, !.candles = w]
           g4 == [given EXCEPT !.theme = x]
           g5 == [given EXCEPT !.playing = y]
<1>4. g1 \in Gifts(T) /\ g1.version = given.version /\ g1.candles = w /\ g1.session = given.session
  BY <1>1, <1>2 DEF Gifts
<1>5. g2 \in Gifts(T) /\ g2.version = given.version /\ g2.candles = w /\ g2.session = given.session
  BY <1>1, <1>2 DEF Gifts
<1>6. g3 \in Gifts(T) /\ g3.version = given.version /\ g3.candles = w /\ g3.session = x
  BY <1>1, <1>2 DEF Gifts
<1>7. g4 \in Gifts(T) /\ g4.version = given.version /\ g4.candles = given.candles /\ g4.session = given.session
  BY <1>1, <1>2 DEF Gifts
<1>8. g5 \in Gifts(T) /\ g5.version = given.version /\ g5.candles = given.candles /\ g5.session = given.session
  BY <1>1, <1>2 DEF Gifts
<1> QED BY <1>3, <1>4, <1>5, <1>6, <1>7, <1>8 DEF KeptBy

LEMMA WindowsKeep ==
  ASSUME SurfaceInv,
         LoadsWindow \/ (\E k \in SurfaceMarket : SwitchMarket(k)) \/ ReplayLeaves
         \/ \E r \in ReplayRun : ReplayOpens(r)
  PROVE  SurfaceInv'
<1>1. GivenIsRight /\ IsGiven(given)
  BY DEF SurfaceInv, GivenIsRight
<1>2. CASE LoadsWindow
 <2>1. PICK a \in 1..LastTime, b \in 1..LastTime :
         a <= b /\ ~ Replaying(given) /\ Given([given EXCEPT !.candles = ShownWindow(a, b)])
   BY <1>2 DEF LoadsWindow
 <2>2. a \in Nat /\ b \in Nat /\ a <= b + 1
   BY <2>1, SurfaceConstants
 <2> DEFINE w == ShownWindow(a, b)
            g == [given EXCEPT !.candles = w]
 <2>3. TimeOrdered(w) /\ \A i \in 1..Len(w) : w[i].v = given.version
   BY <1>1, <2>2, WindowIs
 <2> HIDE DEF w
 <2>4. IsGiven(g) /\ g.version = given.version /\ g.candles = w /\ ~ Replaying(g)
   BY <1>1, <2>1, GivenChanged DEF KeptBy, Replaying
 <2> HIDE DEF g
 <2>5. MoveIsRight(g)
   BY <1>1, <2>3, <2>4, WindowMoves
 <2>6. Given(g)
   BY <2>1 DEF g, w
 <2> QED BY <2>5, <2>6, CommitKeeps
<1>3. CASE \E k \in SurfaceMarket : SwitchMarket(k)
 <2>1. PICK k \in SurfaceMarket, w \in {<<>>, ShownWindow(2, 3)} :
         ~ Replaying(given) /\ Given([given EXCEPT !.market = k, !.candles = w])
   BY <1>3 DEF SwitchMarket
 <2>2. TimeOrdered(w) /\ \A i \in 1..Len(w) : w[i].v = given.version
  <3>1. CASE w = <<>>
    BY <3>1, EmptySeq DEF TimeOrdered
  <3>2. CASE w = ShownWindow(2, 3)
   <4> DEFINE from == 2
              to == 3
   <4>1. from \in Nat /\ to \in Nat /\ from <= to + 1
     OBVIOUS
   <4> HIDE DEF from, to
   <4>2. TimeOrdered(ShownWindow(from, to)) /\ \A i \in 1..Len(ShownWindow(from, to)) : ShownWindow(from, to)[i].v = given.version
     BY <1>1, <4>1, WindowIs
   <4> QED BY <3>2, <4>2 DEF from, to
  <3> QED BY <2>1, <3>1, <3>2
 <2> DEFINE g == [given EXCEPT !.market = k, !.candles = w]
 <2>4. IsGiven(g) /\ g.version = given.version /\ g.candles = w /\ ~ Replaying(g)
  <3>1. KeptBy(g, w, given.session)
    BY <1>1, GivenChanged
  <3> QED BY <2>1, <3>1 DEF KeptBy, Replaying
 <2> HIDE DEF g
 <2>5. MoveIsRight(g)
   BY <1>1, <2>2, <2>4, WindowMoves
 <2>6. Given(g)
   BY <2>1 DEF g
 <2> QED BY <2>5, <2>6, CommitKeeps
<1>4. CASE ReplayLeaves
 <2> DEFINE w == ShownWindow(1, LastTime)
            g == [given EXCEPT !.session = Nothing, !.playing = FALSE, !.candles = w]
 <2>1. Given(g)
   BY <1>4 DEF ReplayLeaves
 <2>2. TimeOrdered(w) /\ \A i \in 1..Len(w) : w[i].v = given.version
  <3>1. LastTime \in Nat /\ 1 <= LastTime + 1
    BY SurfaceConstants
  <3> QED BY <1>1, <3>1, WindowIs
 <2> HIDE DEF w
 <2>4. IsGiven(g) /\ g.version = given.version /\ g.candles = w /\ ~ Replaying(g)
  <3>1. KeptBy(g, w, Nothing)
    BY <1>1, GivenChanged
  <3> QED BY <3>1 DEF KeptBy, Replaying
 <2> HIDE DEF g
 <2>5. MoveIsRight(g)
   BY <1>1, <2>2, <2>4, WindowMoves
 <2> QED BY <2>1, <2>5, CommitKeeps
<1>5. CASE \E r \in ReplayRun : ReplayOpens(r)
 <2>1. PICK r \in ReplayRun : Given([given EXCEPT !.session = r, !.playing = FALSE, !.candles = ShownWindow(1, 2)])
   BY <1>5 DEF ReplayOpens
 <2> DEFINE w == ShownWindow(1, 2)
            g == [given EXCEPT !.session = r, !.playing = FALSE, !.candles = w]
 <2>2. TimeOrdered(w) /\ Len(w) = 2 /\ \A i \in 1..Len(w) : w[i].v = given.version
  <3> DEFINE from == 1
             to == 2
  <3>1. from \in Nat /\ to \in Nat /\ from <= to + 1 /\ to - from + 1 = 2
    OBVIOUS
  <3> HIDE DEF from, to
  <3>2. /\ TimeOrdered(ShownWindow(from, to)) /\ Len(ShownWindow(from, to)) = 2
        /\ \A i \in 1..Len(ShownWindow(from, to)) : ShownWindow(from, to)[i].v = given.version
    BY <1>1, <3>1, WindowIs
  <3> QED BY <3>2 DEF from, to
 <2>3. Given(g)
   BY <2>1
 <2> HIDE DEF w
 <2>4. IsGiven(g) /\ g.version = given.version /\ g.candles = w
  <3>1. KeptBy(g, w, r)
    BY <1>1, GivenChanged
  <3> QED BY <3>1 DEF KeptBy
 <2> HIDE DEF g
 <2>5. MoveIsRight(g)
  <3>1. Len(w) >= 2
    BY <2>2
  <3> QED BY <1>1, <2>2, <2>4, <3>1, WindowMoves
 <2> QED BY <2>3, <2>5, CommitKeeps
<1> QED BY <1>2, <1>3, <1>4, <1>5

LEMMA SameCandlesKeep ==
  ASSUME SurfaceInv, ChangeTheme \/ ReplayPlays \/ ReplaySpeedChanges
  PROVE  SurfaceInv'
<1>1. GivenIsRight /\ IsGiven(given)
  BY DEF SurfaceInv, GivenIsRight
<1>2. CASE ChangeTheme
 <2> DEFINE x == IF given.theme = "dark" THEN "light" ELSE "dark"
            g == [given EXCEPT !.theme = x]
 <2>1. Given(g)
   BY <1>2 DEF ChangeTheme
 <2> HIDE DEF x
 <2>2. IsGiven(g) /\ g.version = given.version /\ g.candles = given.candles /\ g.session = given.session
   BY <1>1, GivenChanged DEF KeptBy
 <2> HIDE DEF g
 <2>3. MoveIsRight(g)
   BY <1>1, <2>2, SameCandlesMove DEF Replaying
 <2> QED BY <2>1, <2>3, CommitKeeps
<1>3. CASE ReplayPlays
 <2> DEFINE y == ~ given.playing
            g == [given EXCEPT !.playing = y]
 <2>1. Given(g)
   BY <1>3 DEF ReplayPlays
 <2> HIDE DEF y
 <2>2. IsGiven(g) /\ g.version = given.version /\ g.candles = given.candles /\ g.session = given.session
   BY <1>1, GivenChanged DEF KeptBy
 <2> HIDE DEF g
 <2>3. MoveIsRight(g)
   BY <1>1, <2>2, SameCandlesMove DEF Replaying
 <2> QED BY <2>1, <2>3, CommitKeeps
<1>4. CASE ReplaySpeedChanges
 <2>1. MoveIsRight(given)
   BY <1>1, SameCandlesMove
 <2> QED BY <1>4, <2>1, CommitKeeps DEF ReplaySpeedChanges
<1> QED BY <1>2, <1>3, <1>4

LEMMA LiveCandlesKeep ==
  ASSUME SurfaceInv, TickShown \/ BarOpens \/ OlderArrives
  PROVE  SurfaceInv'
<1> DEFINE c == given.candles
           n == Len(c)
           v == given.version
<1>1. GivenIsRight /\ IsGiven(given) /\ ~ Replaying(given) /\ c # <<>>
  BY DEF SurfaceInv, GivenIsRight, TickShown, BarOpens, OlderArrives
<1>2. /\ c \in Seq(Candle) /\ n \in Nat \ {0} /\ v \in Nat \ {0} /\ TimeOrdered(c)
      /\ \A i \in 1..n : c[i] \in Candle /\ c[i].t \in Nat
      /\ \A i, j \in 1..n : i < j => c[i].t < c[j].t
 <2>1. c \in Seq(Candle) /\ TimeOrdered(c) /\ v \in Nat \ {0}
   BY <1>1 DEF GivenIsRight, Mounted, TimeOrdered
 <2>2. n \in Nat \ {0}
   BY <1>1, <2>1, EmptySeq
 <2> QED BY <2>1, <2>2, TimesAndValues DEF TimeOrdered
<1>3. \A i \in 1..n : c[i].v \in Nat /\ 0 < c[i].v /\ c[i].v <= v
  BY <1>1, OldValues
<1>4. ASSUME NEW w, TimeOrdered(w), \A i \in 1..Len(w) : 0 < w[i].v /\ w[i].v <= v,
             Given([given EXCEPT !.candles = w])
      PROVE  SurfaceInv'
 <2> DEFINE g == [given EXCEPT !.candles = w]
 <2>1. IsGiven(g) /\ g.version = v /\ g.candles = w /\ ~ Replaying(g)
   BY <1>1, GivenChanged DEF KeptBy, Replaying
 <2>2. Given(g)
   BY <1>4
 <2> HIDE DEF g
 <2>3. MoveIsRight(g)
   BY <1>1, <1>4, <2>1, LiveMoves
 <2> QED BY <2>2, <2>3, CommitKeeps
<1>5. CASE TickShown
 <2> DEFINE bar == [c[n] EXCEPT !.v = v]
            w == [c EXCEPT ![n] = bar]
 <2>1. [given EXCEPT !.candles[Len(given.candles)].v = given.version] = [given EXCEPT !.candles = w]
   OBVIOUS
 <2>2. Given([given EXCEPT !.candles = w])
   BY <1>5, <2>1 DEF TickShown
 <2>3. n \in 1..n /\ c[n] \in Candle
   BY <1>2
 <2>4. bar \in Candle /\ bar.t = c[n].t /\ bar.v = v
   BY <1>2, <2>3 DEF Candle
 <2> HIDE DEF bar
 <2>5. w \in Seq(Candle) /\ Len(w) = n /\ \A j \in 1..n : w[j] = IF j = n THEN bar ELSE c[j]
   BY <1>2, <2>3, <2>4, ExceptSeq
 <2> HIDE DEF w
 <2>6. \A j \in 1..n : w[j].t = c[j].t
   BY <2>4, <2>5
 <2>7. TimeOrdered(w)
   BY <1>2, <2>5, <2>6 DEF TimeOrdered
 <2>8. \A i \in 1..Len(w) : 0 < w[i].v /\ w[i].v <= v
  <3> HIDE DEF c, v
  <3> QED BY <1>2, <1>3, <2>4, <2>5
 <2> QED BY <1>4, <2>2, <2>7, <2>8
<1>6. CASE BarOpens
 <2> DEFINE bar == Bar(Last(c).t + 1, v)
            w == Append(c, bar)
 <2>1. Given([given EXCEPT !.candles = w])
   BY <1>6 DEF BarOpens
 <2>2. n \in 1..n /\ Last(c) = c[n]
   BY <1>2 DEF Last
 <2>3. bar \in Candle /\ bar.t = c[n].t + 1 /\ bar.v = v
   BY <1>2, <2>2 DEF Bar, Candle
 <2> HIDE DEF bar
 <2>4. w \in Seq(Candle) /\ Len(w) = n + 1 /\ \A j \in 1..n + 1 : w[j] = IF j = n + 1 THEN bar ELSE c[j]
   BY <1>2, <2>3
 <2> HIDE DEF w
 <2>5. TimeOrdered(w)
  <3> SUFFICES ASSUME NEW i \in 1..n + 1, NEW j \in 1..n + 1, i < j
               PROVE  w[i].t < w[j].t
    BY <2>4 DEF TimeOrdered
  <3>1. i \in 1..n /\ w[i] = c[i] /\ c[i].t \in Nat /\ c[n].t \in Nat
    BY <1>2, <2>2, <2>4
  <3>2. c[i].t <= c[n].t
   <4>1. i < n \/ i = n
     BY <1>2, <3>1
   <4> QED BY <1>2, <2>2, <3>1, <4>1
  <3>3. CASE j = n + 1
    BY <2>3, <2>4, <3>1, <3>2, <3>3
  <3>4. CASE j # n + 1
   <4>1. j \in 1..n /\ w[j] = c[j]
     BY <1>2, <2>4, <3>4
   <4> QED BY <1>2, <3>1, <4>1
  <3> QED BY <3>3, <3>4
 <2>6. \A i \in 1..Len(w) : 0 < w[i].v /\ w[i].v <= v
  <3> SUFFICES ASSUME NEW i \in 1..n + 1 PROVE 0 < w[i].v /\ w[i].v <= v
    BY <2>4
  <3>1. CASE i = n + 1
    BY <1>2, <2>3, <2>4, <3>1
  <3>2. CASE i # n + 1
   <4>1. i \in 1..n /\ w[i] = c[i]
     BY <1>2, <2>4, <3>2
   <4> QED BY <1>3, <4>1
  <3> QED BY <3>1, <3>2
 <2> QED BY <1>4, <2>1, <2>5, <2>6
<1>7. CASE OlderArrives
 <2> DEFINE bar == Bar(c[1].t - 1, v)
            one == <<bar>>
            w == one \o c
 <2>1. Given([given EXCEPT !.candles = w]) /\ c[1].t > 1
   BY <1>7 DEF OlderArrives
 <2>2. 1 \in 1..n /\ c[1].t \in Nat /\ c[1].t - 1 \in Nat
   BY <1>2, <2>1
 <2>3. bar \in Candle /\ bar.t = c[1].t - 1 /\ bar.v = v
   BY <1>2, <2>2 DEF Bar, Candle
 <2> HIDE DEF bar
 <2>4. one \in Seq(Candle) /\ Len(one) = 1 /\ one[1] = bar
   BY <2>3
 <2> HIDE DEF one
 <2>5. /\ w \in Seq(Candle) /\ Len(w) = 1 + n
       /\ \A j \in 1..1 + n : w[j] = IF j <= 1 THEN one[j] ELSE c[j - 1]
  <3>1. /\ w \in Seq(Candle) /\ Len(w) = Len(one) + Len(c)
        /\ \A j \in 1..Len(one) + Len(c) : w[j] = IF j <= Len(one) THEN one[j] ELSE c[j - Len(one)]
   <4> HIDE DEF c
   <4> QED BY <1>2, <2>4, ConcatProperties
  <3> QED BY <2>4, <3>1
 <2> HIDE DEF w
 <2>6. w[1] = bar /\ \A j \in 1..1 + n : j # 1 => j - 1 \in 1..n /\ w[j] = c[j - 1]
   BY <1>2, <2>4, <2>5
 <2>7. TimeOrdered(w)
  <3> SUFFICES ASSUME NEW i \in 1..1 + n, NEW j \in 1..1 + n, i < j
               PROVE  w[i].t < w[j].t
    BY <2>5 DEF TimeOrdered
  <3>1. j # 1 /\ j - 1 \in 1..n /\ w[j] = c[j - 1] /\ c[j - 1].t \in Nat
    BY <1>2, <2>6
  <3>2. CASE i = 1
   <4>1. c[1].t <= c[j - 1].t
    <5>1. j - 1 = 1 \/ 1 < j - 1
      BY <1>2, <3>1
    <5> HIDE DEF c
    <5> QED BY <1>2, <2>2, <3>1, <5>1
   <4>2. w[i].t = c[1].t - 1
     BY <2>3, <2>6, <3>2
   <4>3. c[1].t \in Nat
     BY <2>2
   <4> HIDE DEF c
   <4> QED BY <3>1, <4>1, <4>2, <4>3
  <3>3. CASE i # 1
   <4>1. i - 1 \in 1..n /\ w[i] = c[i - 1] /\ i - 1 < j - 1
     BY <2>6, <3>3
   <4> QED BY <1>2, <3>1, <4>1
  <3> QED BY <3>2, <3>3
 <2>8. \A i \in 1..Len(w) : 0 < w[i].v /\ w[i].v <= v
  <3> SUFFICES ASSUME NEW i \in 1..1 + n PROVE 0 < w[i].v /\ w[i].v <= v
    BY <2>5
  <3>1. CASE i = 1
    BY <1>2, <2>3, <2>6, <3>1
  <3>2. CASE i # 1
   <4>1. i - 1 \in 1..n /\ w[i] = c[i - 1]
     BY <2>6, <3>2
   <4> QED BY <1>3, <4>1
  <3> QED BY <3>1, <3>2
 <2> QED BY <1>4, <2>1, <2>7, <2>8
<1> QED BY <1>5, <1>6, <1>7

LEMMA BatchKeeps ==
  ASSUME SurfaceInv, NEW k \in 1..2, ReplayBatch(k)
  PROVE  SurfaceInv'
<1> DEFINE c == given.candles
           n == Len(c)
           v == given.version
           front == SubSeq(c, 1, n - 1)
           more == ShownWindow(Last(c).t, Last(c).t + k)
           w == front \o more
           g == [given EXCEPT !.candles = w]
<1>1. /\ GivenIsRight /\ IsGiven(given) /\ Replaying(given) /\ n >= 2 /\ c \in Seq(Candle) /\ n \in Nat
      /\ TimeOrdered(c) /\ v \in Nat \ {0}
  BY DEF SurfaceInv, GivenIsRight, Mounted, TimeOrdered, ReplayBatch
<1>2. /\ \A i \in 1..n : c[i] \in Candle /\ c[i].t \in Nat
      /\ \A i, j \in 1..n : i < j => c[i].t < c[j].t
      /\ \A i \in 1..n : 0 < c[i].v /\ c[i].v <= v
  BY <1>1, TimesAndValues, OldValues DEF TimeOrdered
<1>0. n \in Nat /\ n >= 2 /\ n - 1 \in Nat /\ k + 1 \in Nat
  BY <1>1
<1>3. Given(g)
  BY DEF ReplayBatch
<1>4. n \in 1..n /\ Last(c) = c[n] /\ c[n].t \in Nat
  BY <1>1, <1>2 DEF Last
<1>5. /\ more \in Seq(Candle) /\ Len(more) = k + 1 /\ TimeOrdered(more)
      /\ \A i \in 1..k + 1 : more[i].t = c[n].t + i - 1 /\ more[i].v = v
 <2> DEFINE a == c[n].t
            b == c[n].t + k
 <2>1. a \in Nat /\ b \in Nat /\ a <= b + 1 /\ b - a + 1 = k + 1
   BY <1>4
 <2>2. more = ShownWindow(a, b)
   BY <1>4
 <2> HIDE DEF a, b, more, v
 <2>3. /\ TimeOrdered(more) /\ Len(more) = b - a + 1
       /\ \A i \in 1..Len(more) : more[i].t = a + i - 1 /\ more[i].v = v
   BY <1>1, <2>1, <2>2, WindowIs DEF v
 <2> QED BY <2>1, <2>3 DEF TimeOrdered, a
<1> HIDE DEF more
<1>6. front \in Seq(Candle) /\ Len(front) = n - 1 /\ \A i \in 1..n - 1 : front[i] = c[i] /\ i \in 1..n
 <2> DEFINE m == n - 1
 <2>1. m \in Int /\ 1 <= m /\ m - 1 + 1 = m /\ \A i \in 1..m : 1 + i - 1 = i /\ i \in 1..n /\ c[i] \in Candle
   BY <1>1, <1>2
 <2> HIDE DEF m, c
 <2>2. SubSeq(c, 1, m) \in Seq(Candle) /\ Len(SubSeq(c, 1, m)) = m /\ \A i \in 1..m : SubSeq(c, 1, m)[i] = c[i]
   BY <2>1, SubSeqProperties
 <2> QED BY <2>1, <2>2 DEF m
<1> HIDE DEF front
<1>7. /\ w \in Seq(Candle) /\ Len(w) = (n - 1) + (k + 1)
      /\ \A i \in 1..(n - 1) + (k + 1) : w[i] = IF i <= n - 1 THEN front[i] ELSE more[i - (n - 1)]
 <2>1. /\ w \in Seq(Candle) /\ Len(w) = Len(front) + Len(more)
       /\ \A i \in 1..Len(front) + Len(more) : w[i] = IF i <= Len(front) THEN front[i] ELSE more[i - Len(front)]
  <3> HIDE DEF n
  <3> QED BY <1>5, <1>6, ConcatProperties
 <2> HIDE DEF w, n
 <2> QED BY <1>5, <1>6, <2>1
<1> DEFINE len == (n - 1) + (k + 1)
<1>8. /\ len \in Nat /\ len > n
      /\ \A i \in 1..len : IF i <= n - 1 THEN i \in 1..n - 1 /\ w[i] = c[i]
                           ELSE i - (n - 1) \in 1..k + 1 /\ w[i] = more[i - (n - 1)]
 <2> HIDE DEF w
 <2>1. len \in Nat /\ len > n
  <3> HIDE DEF n
  <3> QED BY <1>0
 <2>2. \A i \in 1..len : IF i <= n - 1 THEN i \in 1..n - 1 ELSE i - (n - 1) \in 1..k + 1
  <3> HIDE DEF n
  <3> QED BY <1>0
 <2> HIDE DEF len, n, c
 <2> QED BY <1>6, <1>7, <2>1, <2>2 DEF len
<1> HIDE DEF w
<1>9. TimeOrdered(w)
 <2> SUFFICES ASSUME NEW i \in 1..len, NEW j \in 1..len, i < j
              PROVE  w[i].t < w[j].t
   BY <1>7 DEF TimeOrdered
 <2>0. /\ j <= n - 1 => i <= n - 1
       /\ i <= n - 1 => i \in 1..n /\ i < n
       /\ j <= n - 1 => j \in 1..n
       /\ i - (n - 1) < j - (n - 1)
  <3> HIDE DEF n
  <3> QED BY <1>0, <1>8
 <2>1. CASE j <= n - 1
  <3>1. i \in 1..n - 1 /\ j \in 1..n - 1 /\ w[i] = c[i] /\ w[j] = c[j] /\ i \in 1..n /\ j \in 1..n
    BY <1>8, <2>0, <2>1
  <3> QED BY <1>2, <3>1
 <2>2. CASE i <= n - 1 /\ ~ (j <= n - 1)
  <3>1. i \in 1..n /\ i < n /\ w[i] = c[i]
    BY <1>8, <2>0, <2>2
  <3>2. j - (n - 1) \in 1..k + 1 /\ w[j] = more[j - (n - 1)]
    BY <1>8, <2>2
  <3> DEFINE q == j - (n - 1)
  <3>3. q \in 1..k + 1 /\ w[j].t = c[n].t + q - 1
    BY <1>5, <3>2
  <3>4. c[i].t < c[n].t /\ c[i].t \in Nat /\ c[n].t \in Nat
    BY <1>2, <1>4, <3>1
  <3> HIDE DEF q, c, n
  <3> QED BY <3>1, <3>3, <3>4
 <2>3. CASE ~ (i <= n - 1)
  <3>1. i - (n - 1) \in 1..k + 1 /\ w[i] = more[i - (n - 1)] /\ ~ (j <= n - 1)
    BY <1>8, <2>0, <2>3
  <3>2. j - (n - 1) \in 1..k + 1 /\ w[j] = more[j - (n - 1)]
    BY <1>8, <3>1
  <3>3. i - (n - 1) < j - (n - 1)
    BY <2>0
  <3> DEFINE p == i - (n - 1)
             q == j - (n - 1)
  <3>4. p \in 1..Len(more) /\ q \in 1..Len(more) /\ p < q /\ w[i] = more[p] /\ w[j] = more[q]
    BY <1>5, <3>1, <3>2, <3>3
  <3> HIDE DEF p, q
  <3> QED BY <1>5, <3>4 DEF TimeOrdered
 <2> QED BY <2>1, <2>2, <2>3
<1>10. \A i \in 1..Len(w) : 0 < w[i].v /\ w[i].v <= v
 <2> SUFFICES ASSUME NEW i \in 1..len PROVE 0 < w[i].v /\ w[i].v <= v
   BY <1>7
 <2>1. CASE i <= n - 1
  <3>1. i \in 1..n /\ w[i] = c[i]
    BY <1>6, <1>8, <2>1
  <3> QED BY <1>2, <3>1
 <2>2. CASE ~ (i <= n - 1)
  <3>1. w[i].v = v
   <4> DEFINE q == i - (n - 1)
   <4>1. q \in 1..k + 1 /\ w[i] = more[q]
     BY <1>8, <2>2
   <4> HIDE DEF q
   <4> QED BY <1>5, <4>1
  <3> QED BY <1>1, <3>1
 <2> QED BY <2>1, <2>2
<1>11. IsGiven(g) /\ g.version = v /\ g.candles = w /\ Replaying(g)
 <2>1. KeptBy(g, w, given.session)
   BY <1>1, GivenChanged
 <2> QED BY <1>1, <2>1 DEF KeptBy, Replaying
<1>12. Len(w) >= 2 /\ Len(w) >= n
 <2>1. Len(w) = len
   BY <1>7
 <2> HIDE DEF n, len
 <2> QED BY <1>0, <1>8, <2>1
<1> HIDE DEF g
<1>13. MoveIsRight(g)
  BY <1>9, <1>10, <1>11, <1>12 DEF MoveIsRight, Continues, LatestOf
<1> QED BY <1>3, <1>13, CommitKeeps

(* One frame of an animation finishes a candle and opens the next.          *)
LEMMA AnimationKeeps ==
  ASSUME SurfaceInv, AnimationFrame
  PROVE  SurfaceInv'
<1> DEFINE s == surface
           b == given.candles
           target == s.growing[1]
           rest == Tail(s.growing)
           next == IF rest = <<>> THEN Nothing ELSE Bar(rest[1].t, 0)
           grown == Updated(s.series, target)
           line == IF rest = <<>> THEN grown ELSE Updated(grown, next)
           newest == IF rest = <<>> THEN target ELSE next
           k == IF rest = <<>> THEN Len(s.prev) ELSE s.count + 1
           x == [s EXCEPT !.growing = rest, !.series = line, !.latest = newest, !.count = k]
<1>1. s.growing # <<>> /\ surface' = x /\ given' = given /\ plotted' = plotted
  BY DEF AnimationFrame
<1>2. /\ IsSurface(s) /\ ~ AsMounted /\ Follows(s, b, Replaying(given)) /\ Grows(s, b) /\ Replaying(given) /\ s.prev = b
      /\ b \in Seq(Candle) /\ Len(b) \in Nat
 <2>1. Follows(s, b, Replaying(given)) /\ ~ AsMounted
   BY <1>1 DEF SurfaceInv, SurfaceIsRight, OnlyDrawn
 <2> QED BY <1>1, <2>1 DEF SurfaceInv, SurfaceIsRight, GivenIsRight, TimeOrdered, Follows
<1>3. /\ s.growing \in Seq(Candle) /\ Len(s.growing) = Len(b) - s.count + 1 /\ s.count \in 2..Len(b)
      /\ \A i \in 1..Len(s.growing) : s.growing[i].t = b[s.count + i - 1].t
  BY <1>2 DEF Grows
<1>4. target \in Candle /\ rest \in Seq(Candle) /\ Len(rest) = Len(s.growing) - 1
      /\ \A i \in 1..Len(rest) : rest[i] = s.growing[i + 1]
 <2>1. 1 \in 1..Len(s.growing)
   BY <1>1, <1>3, EmptySeq
 <2> QED BY <1>1, <1>3, <2>1, ElementOfSeq, HeadTailProperties
<1> HIDE DEF target, rest
<1>5. newest \in Candle /\ (rest # <<>> => /\ k = s.count + 1 /\ k \in 2..Len(b) /\ newest.t = b[k].t /\ newest.v = 0
                                           /\ Len(rest) = Len(b) - k + 1
                                           /\ \A i \in 1..Len(rest) : rest[i].t = b[k + i - 1].t)
 <2>1. CASE rest = <<>>
   BY <1>4, <2>1
 <2>2. CASE rest # <<>>
  <3>1. newest = Bar(rest[1].t, 0) /\ k = s.count + 1
    BY <2>2
  <3>2. Len(rest) \in Nat /\ Len(rest) # 0
    BY <1>4, <2>2, EmptySeq
  <3>3. 1 \in 1..Len(rest) /\ s.count + 1 \in 2..Len(b) /\ Len(rest) = Len(b) - (s.count + 1) + 1
    BY <1>2, <1>3, <1>4, <3>2
  <3>4. \A i \in 1..Len(rest) : /\ i + 1 \in 1..Len(s.growing)
                                /\ s.count + (i + 1) - 1 = (s.count + 1) + i - 1
    BY <1>2, <1>3, <1>4, <3>2
  <3>5. \A i \in 1..Len(rest) : rest[i].t = b[(s.count + 1) + i - 1].t
    BY <1>3, <1>4, <3>4
  <3>6. (s.count + 1) + 1 - 1 = s.count + 1
    BY <1>3
  <3>7. rest[1].t \in Nat /\ rest[1].t = b[s.count + 1].t
    BY <1>4, <3>3, <3>5, <3>6, TimesAndValues
  <3> HIDE DEF newest, k
  <3>8. newest \in Candle /\ newest.t = rest[1].t /\ newest.v = 0
    BY <3>1, <3>7 DEF Bar, Candle
  <3> QED BY <3>1, <3>3, <3>5, <3>7, <3>8
 <2> QED BY <2>1, <2>2
<1> HIDE DEF line, newest, k
<1>6. /\ IsSurface(x) /\ x.prev = s.prev /\ x.lookup = s.lookup /\ x.growing = rest /\ x.latest = newest
      /\ x.count = k
 <2> DEFINE E == {rest, line, newest, k}
 <2>1. PICK T : s \in Surfaces(T) /\ {rest, line, newest, k} \subseteq T
  <3> HIDE DEF E
  <3>1. \E T : s \in Surfaces(T) /\ E \subseteq T
    BY <1>2, SurfaceHolds
  <3> QED BY <3>1 DEF E
 <2>2. /\ x \in Surfaces(T) /\ x.prev = s.prev /\ x.lookup = s.lookup /\ x.growing = rest /\ x.latest = newest
       /\ x.count = k
   BY <2>1 DEF Surfaces
 <2> QED BY <2>2, SurfaceIs
<1> HIDE DEF x
<1>7. rest # <<>> => Grows(x, b)
  BY <1>4, <1>5, <1>6 DEF Grows
<1>8. Follows(x, b, Replaying(given))
  BY <1>2, <1>5, <1>6, <1>7 DEF Follows
<1> QED BY <1>1, <1>2, <1>6, <1>8 DEF SurfaceInv, SurfaceIsRight, GivenIsRight, PlottedIsRight, Replaying, AsMounted

Plots(T) == [points : T, drawn : T, written : T, structure : T]
LEMMA PlotHolds ==
  ASSUME NEW p, IsPlotted(p), NEW E
  PROVE  \E T : p \in Plots(T) /\ E \subseteq T
<1> DEFINE T == {p[f] : f \in DOMAIN p} \union E
<1>1. E \subseteq T /\ \A f \in DOMAIN p : p[f] \in T
  OBVIOUS
<1> HIDE DEF T
<1>2. p \in Plots(T)
  BY <1>1 DEF IsPlotted, Plots
<1> QED BY <1>1, <1>2

LEMMA PlotIs ==
  ASSUME NEW T, NEW p \in Plots(T)
  PROVE  IsPlotted(p)
BY DEF Plots, IsPlotted

LEMMA PointsDrawn ==
  ASSUME NEW p, IsPlotted(p), TimeOrdered(p.written), p.drawn = p.written, NEW points, TimeOrdered(points)
  PROVE  LET q == SeriesWritten(p, points)
         IN  IsPlotted(q) /\ q.written = points /\ q.points = points /\ q.drawn = points
<1> DEFINE plan == IndicatorPlan(p.written, points)
           line == CASE plan = "none" -> p.drawn
                     [] plan = "update" -> Updated(p.drawn, Last(points))
                     [] plan = "replace" -> points
           q == [p EXCEPT !.points = points, !.written = points, !.drawn = line]
<1>1. SeriesWritten(p, points) = q
  BY DEF SeriesWritten
<1>2. p.written \in Seq(Candle) /\ points \in Seq(Candle) /\ Len(points) \in Nat /\ Len(p.written) \in Nat
  BY DEF TimeOrdered
<1>3. /\ plan \in {"none", "update", "replace"}
      /\ plan = "none" => p.written = points
      /\ plan = "update" =>
           \/ /\ p.written # points /\ Len(p.written) = Len(points)
              /\ SamePrefix(p.written, points, Len(points) - 1) /\ Last(p.written).t = Last(points).t
           \/ Len(points) = Len(p.written) + 1 /\ SamePrefix(p.written, points, Len(p.written))
 <2>1. Len(points) = Len(p.written) + 1 => p.written # points
   BY <1>2
 <2> QED BY <2>1 DEF IndicatorPlan
<1> HIDE DEF plan
<1>4. line = points
 <2>1. CASE plan = "none"
   BY <1>3, <2>1
 <2>2. CASE plan = "replace"
   BY <2>2
 <2>3. CASE plan = "update"
  <3>1. line = Updated(p.written, Last(points))
    BY <2>3
  <3>2. CASE /\ p.written # points /\ Len(p.written) = Len(points)
             /\ SamePrefix(p.written, points, Len(points) - 1) /\ Last(p.written).t = Last(points).t
   <4>1. points # <<>>
     BY <1>2, <3>2, EmptySeq
   <4> QED BY <1>2, <3>1, <3>2, <4>1, LastReplaced
  <3>3. CASE Len(points) = Len(p.written) + 1 /\ SamePrefix(p.written, points, Len(p.written))
    BY <1>2, <3>1, <3>3, LastAppended
  <3> QED BY <1>3, <2>3, <3>2, <3>3
 <2> QED BY <1>3, <2>1, <2>2, <2>3
<1> HIDE DEF line
<1>5. IsPlotted(q) /\ q.written = points /\ q.points = points /\ q.drawn = line
 <2> DEFINE E == {points, line}
 <2>1. PICK T : p \in Plots(T) /\ {points, line} \subseteq T
  <3> HIDE DEF E
  <3>1. \E T : p \in Plots(T) /\ E \subseteq T
    BY PlotHolds
  <3> QED BY <3>1 DEF E
 <2>2. q \in Plots(T) /\ q.written = points /\ q.points = points /\ q.drawn = line
   BY <2>1 DEF Plots
 <2> QED BY <2>2, PlotIs
<1> QED BY <1>1, <1>4, <1>5

LEMMA ResultsKeep ==
  ASSUME SurfaceInv, NEW from \in 1..2, NEW to \in 1..2, NEW v \in 1..2, NEW structure \in 0..1,
         IndicatorResult(Bars(from, to, v), structure)
  PROVE  SurfaceInv'
<1> DEFINE points == Bars(from, to, v)
           p == SeriesFor(plotted, structure)
<1>1. TimeOrdered(points)
 <2>1. from \in Nat /\ to \in Nat /\ v \in Nat /\ from <= to + 1
   OBVIOUS
 <2> QED BY <2>1, BarsAre
<1> HIDE DEF points
<1>2. IsPlotted(plotted) /\ TimeOrdered(plotted.written) /\ plotted.drawn = plotted.written
  BY DEF SurfaceInv, PlottedIsRight
<1>3. IsPlotted(p) /\ TimeOrdered(p.written) /\ p.drawn = p.written
 <2>1. CASE structure = plotted.structure
   BY <1>2, <2>1 DEF SeriesFor
 <2>2. CASE structure # plotted.structure
  <3> DEFINE q == [plotted EXCEPT !.structure = structure, !.drawn = <<>>, !.written = <<>>]
  <3>1. p = q
    BY <2>2 DEF SeriesFor
  <3>2. IsPlotted(q) /\ q.drawn = <<>> /\ q.written = <<>>
   <4> DEFINE E == {structure, <<>>}
   <4>1. PICK T : plotted \in Plots(T) /\ {structure, <<>>} \subseteq T
    <5> HIDE DEF E
    <5>1. \E T : plotted \in Plots(T) /\ E \subseteq T
      BY <1>2, PlotHolds
    <5> QED BY <5>1 DEF E
   <4>2. q \in Plots(T) /\ q.drawn = <<>> /\ q.written = <<>>
     BY <4>1 DEF Plots
   <4> QED BY <4>2, PlotIs
  <3>3. TimeOrdered(<<>>)
    BY EmptySeq DEF TimeOrdered
  <3> QED BY <3>1, <3>2, <3>3
 <2> QED BY <2>1, <2>2
<1>4. plotted' = SeriesWritten(p, points) /\ given' = given /\ surface' = surface
  BY DEF IndicatorResult, points
<1> HIDE DEF p
<1>5. PlottedIsRight'
  BY <1>1, <1>3, <1>4, PointsDrawn DEF PlottedIsRight
<1> QED BY <1>4, <1>5 DEF SurfaceInv, SurfaceIsRight, GivenIsRight, Replaying, AsMounted

LEMMA SurfaceStart ==
  ASSUME SurfaceInit
  PROVE  SurfaceInv
<1>1. TimeOrdered(<<>>) /\ Len(<<>>) = 0 /\ <<>> \in Seq(Candle)
  BY EmptySeq DEF TimeOrdered
<1>2. /\ TimeOrdered(Bars(2, 3, 1)) /\ Len(Bars(2, 3, 1)) = 2
      /\ \A i \in 1..Len(Bars(2, 3, 1)) : Bars(2, 3, 1)[i].v = 1
 <2>1. 1 \in Nat /\ 2 \in Nat /\ 3 \in Nat /\ 2 <= 3 + 1
   OBVIOUS
 <2>2. /\ TimeOrdered(Bars(2, 3, 1)) /\ Len(Bars(2, 3, 1)) = 3 - 2 + 1
       /\ \A i \in 1..Len(Bars(2, 3, 1)) : Bars(2, 3, 1)[i].v = 1
   BY <2>1, BarsAre, Zenon
 <2> QED BY <2>2
<1>3. PICK k \in SurfaceMarket, bars \in {<<>>, Bars(2, 3, 1)}, r \in ReplayRun \union {Nothing}, playing \in BOOLEAN :
        /\ r # Nothing => bars # <<>>
        /\ given = [market |-> k, candles |-> bars, theme |-> "dark", session |-> r, playing |-> playing, version |-> Mounted]
        /\ surface = [series |-> bars, prev |-> <<>>, lookup |-> None, count |-> 0, latest |-> Nothing, growing |-> <<>>,
                      initialized |-> Nothing, fitted |-> FALSE, lastFit |-> 0, reset |-> TRUE, applied |-> Nothing, theme |-> Nothing]
  BY DEF SurfaceInit
<1>4. TimeOrdered(bars) /\ (bars # <<>> => Len(bars) = 2) /\ \A i \in 1..Len(bars) : bars[i].v = 1
  BY <1>1, <1>2, <1>3
<1>5. /\ IsGiven(given) /\ given.candles = bars /\ given.version = 2 /\ (Replaying(given) => bars # <<>>)
      /\ IsSurface(surface) /\ OnlyDrawn(surface, bars)
 <2>1. IsGiven(given) /\ given.candles = bars /\ given.version = 2 /\ given.session = r
   BY <1>3 DEF IsGiven, Mounted
 <2>2. IsSurface(surface) /\ OnlyDrawn(surface, bars)
   BY <1>3 DEF IsSurface, OnlyDrawn
 <2> QED BY <1>3, <2>1, <2>2 DEF Replaying
<1>6. GivenIsRight /\ SurfaceIsRight
 <2>1. GivenIsRight
  <3>1. LatestOf(given, given.version - 1)
    BY <1>4, <1>5 DEF LatestOf
  <3>2. bars # <<>> => Len(bars) >= 2
    BY <1>4
  <3> QED BY <1>4, <1>5, <3>1, <3>2 DEF GivenIsRight, Mounted
 <2>2. AsMounted /\ OnlyDrawn(surface, given.candles)
   BY <1>5 DEF AsMounted, Mounted, OnlyDrawn
 <2>3. SurfaceIsRight
   BY <1>5, <2>2, Zenon DEF SurfaceIsRight
 <2> QED BY <2>1, <2>3
<1>7. PlottedIsRight
  BY <1>1 DEF SurfaceInit, PlottedIsRight, IsPlotted
<1> QED BY <1>6, <1>7 DEF SurfaceInv

LEMMA SurfaceKeep ==
  ASSUME SurfaceInv, [SurfaceNext]_surfaceVars
  PROVE  SurfaceInv'
<1>1. CASE given' = given /\ surface' = surface /\ plotted' = plotted
  BY <1>1 DEF SurfaceInv, SurfaceIsRight, GivenIsRight, PlottedIsRight, Replaying, AsMounted
<1>2. CASE UNCHANGED surfaceVars
  BY <1>1, <1>2 DEF surfaceVars
<1>3. CASE FitFrame \/ PrependFrame \/ ReplayStartFrame
  BY <1>1, <1>3 DEF FitFrame, PrependFrame, ReplayStartFrame, Fires
<1>4. CASE BeginGesture \/ PanPrice \/ EndGesture \/ HandleUserRange \/ \E wrote \in BOOLEAN : NavigateTime(wrote)
  BY <1>1, <1>4 DEF BeginGesture, PanPrice, EndGesture, HandleUserRange, NavigateTime, Looks
<1>5. CASE AskOlder \/ \E load \in older.running, exhausted \in BOOLEAN : OlderBarsAnswer(load, exhausted)
  BY <1>1, <1>5 DEF AskOlder, OlderBarsAnswer, UNCHANGEDButOlder
<1>6. CASE SurfaceNext
  BY <1>3, <1>4, <1>5, <1>6, WindowsKeep, SameCandlesKeep, LiveCandlesKeep, BatchKeeps, AnimationKeeps, ResultsKeep
  DEF SurfaceNext
<1> QED BY <1>2, <1>6

(* Whatever mixture of single updates, replacements and animations the      *)
(* write plans choose, outside Replay the chart draws exactly the candles   *)
(* it was given last, the crosshair finds the same ones from the first      *)
(* change of what the chart was mounted with on, and an indicator is drawn  *)
(* as its last result (resolveRealtimeSeriesUpdatePlan,                     *)
(* resolveIndicatorSeriesWritePlan, PriceChart.tsx:767, 901).               *)
THEOREM SurfaceIsDrawn == SurfaceSpec => []SurfaceShowsData
<1>1. SurfaceInv => SurfaceShowsData
  BY DEF SurfaceInv, SurfaceIsRight, OnlyDrawn, Follows, PlottedIsRight, SurfaceShowsData
<1> QED BY <1>1, SurfaceStart, SurfaceKeep, PTL DEF SurfaceSpec

-----------------------------------------------------------------------------
(***************************************************************************)
(* TimeNavigation.  The bars at hand are the latest ones of their series,  *)
(* and what a jump waits for is the first bar of its series from its time. *)
(***************************************************************************)
LEMMA Reaches ==
  ASSUME NEW P, 0 \in P, \A k \in Nat : k \in P => k + 1 \in P
  PROVE  Nat \subseteq P
<1> SUFFICES ASSUME Nat \ P # {} PROVE FALSE
  OBVIOUS
<1>1. PICK k \in Nat \ P : \A y \in Nat \ P : k <= y
  BY Least
<1>2. k # 0 /\ k - 1 \in Nat /\ k - 1 \notin Nat \ P
  BY <1>1
<1>3. k - 1 + 1 \in P
  BY <1>2
<1> QED BY <1>1, <1>3

(* The windows of a search, by their width: it is a function of them.       *)
Windows(n) == (0..n) \X (-1..n - 1) \X (0..n)
Mid(w) == (w[1] + w[2]) \div 2
Halved(at, t, f, w) ==
  IF w[1] > w[2] THEN w[3]
  ELSE IF at[Mid(w)] >= t THEN f[<<w[1], Mid(w) - 1, Mid(w)>>] ELSE f[<<Mid(w) + 1, w[2], w[3]>>]
Searches(at, n, t, f, k) ==
  /\ f = [w \in Windows(n) |-> f[w]]
  /\ \A w \in Windows(n) : w[2] - w[1] + 1 <= k => f[w] = Halved(at, t, f, w)

LEMMA WindowsHalve ==
  ASSUME NEW n \in Nat, NEW w \in Windows(n), w[1] <= w[2]
  PROVE  /\ Mid(w) \in 0..n - 1 /\ w[1] <= Mid(w) /\ Mid(w) <= w[2]
         /\ <<w[1], Mid(w) - 1, Mid(w)>> \in Windows(n) /\ <<Mid(w) + 1, w[2], w[3]>> \in Windows(n)
<1>1. w[1] \in 0..n /\ w[2] \in -1..n-1 /\ w[3] \in 0..n
  BY DEF Windows
<1>2. Mid(w) \in 0..n - 1 /\ w[1] <= Mid(w) /\ Mid(w) <= w[2]
  BY <1>1 DEF Mid
<1>3. Mid(w) - 1 \in -1..n - 1 /\ Mid(w) + 1 \in 0..n /\ Mid(w) \in 0..n
  BY <1>2
<1> QED BY <1>1, <1>2, <1>3 DEF Windows

LEMMA SearchIsThere ==
  ASSUME NEW at, NEW n \in Nat, NEW t
  PROVE  \E f : f = [w \in Windows(n) |-> Halved(at, t, f, w)]
<1> DEFINE P == {k \in Nat : \E f : Searches(at, n, t, f, k)}
<1>1. 0 \in P
 <2> DEFINE f == [w \in Windows(n) |-> w[3]]
 <2>1. \A w \in Windows(n) : w[2] - w[1] + 1 <= 0 => f[w] = Halved(at, t, f, w)
  <3> SUFFICES ASSUME NEW w \in Windows(n), w[2] - w[1] + 1 <= 0 PROVE f[w] = Halved(at, t, f, w)
    OBVIOUS
  <3>1. w[1] \in 0..n /\ w[2] \in -1..n-1
    BY DEF Windows
  <3>2. w[1] > w[2]
    BY <3>1
  <3> QED BY <3>2 DEF Halved
 <2>2. Searches(at, n, t, f, 0)
   BY <2>1 DEF Searches
 <2> QED BY <2>2
<1>2. ASSUME NEW k \in Nat, k \in P PROVE k + 1 \in P
 <2>1. PICK f : Searches(at, n, t, f, k)
   BY <1>2
 <2>2. PICK g : g = [w \in Windows(n) |-> Halved(at, t, f, w)]
   OBVIOUS
 <2>3. ASSUME NEW w \in Windows(n), w[2] - w[1] + 1 <= k PROVE g[w] = f[w]
   BY <2>1, <2>2, <2>3 DEF Searches
 <2>4. ASSUME NEW w \in Windows(n), w[2] - w[1] + 1 <= k + 1 PROVE g[w] = Halved(at, t, g, w)
  <3>0. w[1] \in 0..n /\ w[2] \in -1..n-1
    BY DEF Windows
  <3>1. CASE w[1] > w[2]
    BY <2>2, <3>1 DEF Halved
  <3>2. CASE w[1] <= w[2]
   <4>1. PICK mid : mid = Mid(w)
     OBVIOUS
   <4>2. PICK a : a = <<w[1], mid - 1, mid>>
     OBVIOUS
   <4>3. PICK b : b = <<mid + 1, w[2], w[3]>>
     OBVIOUS
   <4>4. /\ a \in Windows(n) /\ b \in Windows(n) /\ mid \in Int /\ w[1] <= mid /\ mid <= w[2]
     BY <3>2, <4>1, <4>2, <4>3, WindowsHalve
   <4>5. a[2] - a[1] + 1 <= k /\ b[2] - b[1] + 1 <= k
     BY <2>4, <3>0, <4>2, <4>3, <4>4
   <4>6. g[a] = f[a] /\ g[b] = f[b]
     BY <2>3, <4>4, <4>5
   <4>7. ~ w[1] > w[2]
     BY <3>0, <3>2
   <4>8. g[w] = IF at[mid] >= t THEN f[a] ELSE f[b]
     BY <2>2, <4>1, <4>2, <4>3, <4>7 DEF Halved
   <4>9. Halved(at, t, g, w) = IF at[mid] >= t THEN g[a] ELSE g[b]
     BY <4>1, <4>2, <4>3, <4>7 DEF Halved
   <4> QED BY <4>6, <4>8, <4>9
  <3> QED BY <3>0, <3>1, <3>2
 <2>5. Searches(at, n, t, g, k + 1)
   BY <2>2, <2>4 DEF Searches
 <2> QED BY <2>5
<1>3. Nat \subseteq P
 <2> HIDE DEF P
 <2> QED BY <1>1, <1>2, Reaches
<1>4. PICK f : Searches(at, n, t, f, n)
  BY <1>3
<1>5. ASSUME NEW w \in Windows(n) PROVE f[w] = Halved(at, t, f, w)
 <2>1. w[1] \in 0..n /\ w[2] \in -1..n-1
   BY DEF Windows
 <2>2. w[2] - w[1] + 1 <= n
   BY <2>1
 <2> QED BY <1>4, <2>2 DEF Searches
<1> QED BY <1>4, <1>5 DEF Searches

(* What it finds: where the bars begin that are late enough.                *)
Begins(at, n, t, r) ==
  /\ r \in 0..n
  /\ \A j \in 0..n - 1 : /\ j < r => at[j] < t
                         /\ j >= r => at[j] >= t
LEMMA SearchFinds ==
  ASSUME NEW n \in Nat, NEW at \in [0..n - 1 -> Int], NEW t \in Int,
         \A i, j \in 0..n - 1 : i < j => at[i] < at[j]
  PROVE  Begins(at, n, t, Search(at, n, t))
<1>1. PICK f : f = CHOOSE g : g = [w \in Windows(n) |-> Halved(at, t, g, w)]
  OBVIOUS
<1>2. Search(at, n, t) = f[<<0, n - 1, n>>]
  BY <1>1 DEF Search, Windows, Halved, Mid
<1>3. f = [w \in Windows(n) |-> Halved(at, t, f, w)]
  BY <1>1, SearchIsThere
<1>4. \A w \in Windows(n) : f[w] = Halved(at, t, f, w)
  BY <1>3
<1> DEFINE Right(w) ==
             /\ w[3] = w[2] + 1 /\ w[1] <= w[3]
             /\ \A j \in 0..n - 1 : (j < w[1] => at[j] < t) /\ (j >= w[3] => at[j] >= t)
           P == {k \in Nat : \A w \in Windows(n) : w[2] - w[1] + 1 <= k /\ Right(w) => Begins(at, n, t, f[w])}
<1>5. 0 \in P
 <2> SUFFICES ASSUME NEW w \in Windows(n), w[2] - w[1] + 1 <= 0, Right(w) PROVE Begins(at, n, t, f[w])
   OBVIOUS
 <2>1. w[1] \in 0..n /\ w[2] \in -1..n-1 /\ w[3] \in 0..n
   BY DEF Windows
 <2>2. w[1] > w[2] /\ w[3] = w[1]
   BY <2>1
 <2>3. f[w] = w[3]
   BY <1>4, <2>2 DEF Halved
 <2> QED BY <2>1, <2>2, <2>3 DEF Begins
<1>6. ASSUME NEW k \in Nat, k \in P PROVE k + 1 \in P
 <2> SUFFICES ASSUME NEW w \in Windows(n), w[2] - w[1] + 1 <= k + 1, Right(w) PROVE Begins(at, n, t, f[w])
   OBVIOUS
 <2>0. w[1] \in 0..n /\ w[2] \in -1..n-1 /\ w[3] \in 0..n
   BY DEF Windows
 <2>1. CASE w[1] > w[2]
  <3>1. w[2] - w[1] + 1 <= k
    BY <2>0, <2>1
  <3> QED BY <1>6, <3>1
 <2>2. CASE w[1] <= w[2]
  <3>1. PICK mid : mid = Mid(w)
    OBVIOUS
  <3>2. PICK a : a = <<w[1], mid - 1, mid>>
    OBVIOUS
  <3>3. PICK b : b = <<mid + 1, w[2], w[3]>>
    OBVIOUS
  <3>4. /\ a \in Windows(n) /\ b \in Windows(n) /\ mid \in 0..n - 1 /\ w[1] <= mid /\ mid <= w[2]
    BY <2>2, <3>1, <3>2, <3>3, WindowsHalve
  <3>5. f[w] = IF at[mid] >= t THEN f[a] ELSE f[b]
   <4>1. ~ w[1] > w[2]
     BY <2>0, <2>2
   <4> QED BY <1>4, <3>1, <3>2, <3>3, <4>1 DEF Halved
  <3>c. PICK lo \in 0..n, hi \in -1..n - 1 : lo = w[1] /\ hi = w[2]
    BY <2>0
  <3>d. lo <= mid /\ mid <= hi /\ hi - lo + 1 <= k + 1 /\ mid \in Int /\ lo \in Int /\ hi \in Int /\ w[3] = hi + 1
    BY <3>4, <3>c
  <3>b. /\ a[1] = lo /\ a[2] = mid - 1 /\ a[3] = mid
        /\ b[1] = mid + 1 /\ b[2] = hi /\ b[3] = hi + 1
    BY <3>2, <3>3, <3>c, <3>d
  <3>6. a[2] - a[1] + 1 <= k /\ b[2] - b[1] + 1 <= k
   <4>1. mid - 1 - lo + 1 <= k /\ hi - (mid + 1) + 1 <= k
     BY <3>d
   <4> HIDE DEF Right, P
   <4> QED BY <3>b, <4>1
  <3>7. /\ at[mid] \in Int /\ \A j \in 0..n - 1 : at[j] \in Int
        /\ \A j \in 0..n - 1 : (j < mid => at[j] < at[mid]) /\ (mid < j => at[mid] < at[j])
   <4> HIDE DEF Right, P
   <4> QED BY <3>4
  <3>a. /\ w[3] = w[2] + 1 /\ w[1] <= w[3]
        /\ \A j \in 0..n - 1 : (j < w[1] => at[j] < t) /\ (j >= w[3] => at[j] >= t)
    OBVIOUS
  <3>8. CASE at[mid] >= t
   <4>1. \A j \in 0..n - 1 : j >= mid => at[j] >= t
    <5> SUFFICES ASSUME NEW j \in 0..n - 1, j >= mid PROVE at[j] >= t
      OBVIOUS
    <5> HIDE DEF Right, P
    <5>1. j = mid \/ mid < j
      BY <3>4
    <5>2. mid < j => at[mid] < at[j]
      BY <3>7
    <5>3. at[j] \in Int /\ at[mid] \in Int
      BY <3>7
    <5> QED BY <3>8, <5>1, <5>2, <5>3
   <4>2. /\ a[3] = a[2] + 1 /\ a[1] <= a[3]
         /\ \A j \in 0..n - 1 : (j < a[1] => at[j] < t) /\ (j >= a[3] => at[j] >= t)
    <5> HIDE DEF Right, P
    <5>1. mid = mid - 1 + 1 /\ lo <= mid
      BY <3>d
    <5>2. \A j \in 0..n - 1 : (j < lo => at[j] < t) /\ (j >= mid => at[j] >= t)
      BY <3>a, <3>c, <4>1
    <5> QED BY <3>b, <5>1, <5>2
   <4>3. Begins(at, n, t, f[a])
     BY <1>6, <3>4, <3>6, <4>2
   <4> QED BY <3>5, <3>8, <4>3
  <3>9. CASE ~ at[mid] >= t
   <4>1. \A j \in 0..n - 1 : j < mid + 1 => at[j] < t
    <5> SUFFICES ASSUME NEW j \in 0..n - 1, j < mid + 1 PROVE at[j] < t
      OBVIOUS
    <5> HIDE DEF Right, P
    <5>1. j = mid \/ j < mid
      BY <3>4
    <5>2. j < mid => at[j] < at[mid]
      BY <3>7
    <5>3. at[j] \in Int /\ at[mid] \in Int /\ at[mid] < t
      BY <3>7, <3>9
    <5> QED BY <5>1, <5>2, <5>3
   <4>2. /\ b[3] = b[2] + 1 /\ b[1] <= b[3]
         /\ \A j \in 0..n - 1 : (j < b[1] => at[j] < t) /\ (j >= b[3] => at[j] >= t)
    <5> HIDE DEF Right, P
    <5>1. hi + 1 = hi + 1 /\ mid + 1 <= hi + 1
      BY <3>d
    <5>2. \A j \in 0..n - 1 : (j < mid + 1 => at[j] < t) /\ (j >= hi + 1 => at[j] >= t)
      BY <3>a, <3>d, <4>1
    <5> QED BY <3>b, <5>1, <5>2
   <4>3. Begins(at, n, t, f[b])
     BY <1>6, <3>4, <3>6, <4>2
   <4> QED BY <3>5, <3>9, <4>3
  <3> QED BY <3>8, <3>9
 <2> QED BY <2>0, <2>1, <2>2
<1>7. n \in P
 <2> HIDE DEF P
 <2> QED BY <1>5, <1>6, Reaches
<1>8. PICK w : w = <<0, n - 1, n>>
  OBVIOUS
<1>9. w \in Windows(n) /\ w[1] = 0 /\ w[2] = n - 1 /\ w[3] = n
  BY <1>8 DEF Windows
<1>10. Right(w)
  BY <1>9
<1>11. w[2] - w[1] + 1 <= n
  BY <1>9
<1> QED
 <2> HIDE DEF Right
 <2> QED BY <1>2, <1>7, <1>8, <1>9, <1>10, <1>11

(* The bars in order: as many come before a bar as its place says.          *)
Behind(bars, b) == {c \in bars : c < b}
LEMMA OrderIs ==
  ASSUME NEW bars, IsFiniteSet(bars), bars \subseteq Int
  PROVE  /\ Cardinality(bars) \in Nat
         /\ CandleArray(bars) \in [0..Cardinality(bars) - 1 -> bars]
         /\ \A i, j \in 0..Cardinality(bars) - 1 : i < j => CandleArray(bars)[i] < CandleArray(bars)[j]
         /\ \A b \in bars : \E i \in 0..Cardinality(bars) - 1 : CandleArray(bars)[i] = b
<1>1. PICK n : n = Cardinality(bars)
  OBVIOUS
<1>2. n \in Nat
  BY <1>1, FS_CardinalityType
<1>3. PICK rank : rank = [b \in bars |-> Cardinality(Behind(bars, b))]
  OBVIOUS
<1>4. ASSUME NEW b \in bars
      PROVE  Behind(bars, b) \subseteq bars /\ IsFiniteSet(Behind(bars, b)) /\ rank[b] \in 0..n - 1
 <2>1. Behind(bars, b) \subseteq bars /\ b \notin Behind(bars, b)
   BY DEF Behind
 <2>2. PICK m : m = Cardinality(Behind(bars, b))
   OBVIOUS
 <2>3. /\ IsFiniteSet(Behind(bars, b)) /\ m <= n /\ (n = m => bars = Behind(bars, b)) /\ m \in Nat
   BY <1>1, <2>1, <2>2, FS_Subset, FS_CardinalityType
 <2>4. m \in 0..n - 1
   BY <1>2, <2>1, <2>3
 <2> QED BY <1>3, <2>1, <2>2, <2>3, <2>4
<1>5. ASSUME NEW b \in bars, NEW c \in bars, b < c
      PROVE  rank[b] < rank[c]
 <2>0. b \in Int /\ c \in Int
   OBVIOUS
 <2>a. ASSUME NEW d \in Behind(bars, b) PROVE d \in Behind(bars, c)
  <3>1. d \in bars /\ d \in Int /\ d < b
    BY DEF Behind
  <3>2. d < c
    BY <1>5, <2>0, <3>1
  <3> QED BY <3>1, <3>2 DEF Behind
 <2>b. ~ b < b
   BY <2>0
 <2>1. Behind(bars, b) \subseteq Behind(bars, c) /\ b \in Behind(bars, c) /\ b \notin Behind(bars, b)
   BY <1>5, <2>a, <2>b DEF Behind
 <2>2. rank[b] <= rank[c] /\ rank[b] # rank[c]
   BY <1>3, <1>4, <2>1, FS_Subset
 <2>3. rank[b] \in Int /\ rank[c] \in Int
   BY <1>4
 <2> QED BY <2>2, <2>3
<1>6. ASSUME NEW b \in bars, NEW c \in bars, rank[b] <= rank[c] PROVE b <= c
 <2>1. b \in Int /\ c \in Int /\ rank[b] \in Int /\ rank[c] \in Int
   BY <1>4
 <2> QED BY <1>5, <1>6, <2>1
<1>7. ASSUME NEW b \in bars, NEW c \in bars, rank[b] = rank[c] PROVE b = c
 <2>1. b \in Int /\ c \in Int /\ rank[b] \in Int /\ rank[c] \in Int
   BY <1>4
 <2>2. b <= c /\ c <= b
   BY <1>6, <1>7, <2>1
 <2> QED BY <2>1, <2>2
<1>8. rank \in Surjection(bars, 0..n - 1)
 <2>1. rank \in Injection(bars, 0..n - 1)
   BY <1>3, <1>4, <1>7 DEF Injection, IsInjective
 <2>2. IsFiniteSet(0..n - 1) /\ Cardinality(0..n - 1) = n
   BY <1>2, FS_Interval
 <2> QED BY <1>1, <2>1, <2>2, FS_Injection
<1>9. \A i \in 0..n - 1 : \E b \in bars : rank[b] = i
  BY <1>8 DEF Surjection
<1>10. PICK at : at = CandleArray(bars)
  OBVIOUS
<1>11. at = [i \in 0..n - 1 |-> CHOOSE b \in bars : Cardinality(Behind(bars, b)) = i]
  BY <1>1, <1>10 DEF CandleArray, Behind
<1>12. ASSUME NEW i \in 0..n - 1 PROVE at[i] \in bars /\ rank[at[i]] = i
 <2>1. \E b \in bars : Cardinality(Behind(bars, b)) = i
   BY <1>3, <1>9
 <2>2. at[i] = CHOOSE b \in bars : Cardinality(Behind(bars, b)) = i
   BY <1>11
 <2> QED BY <1>3, <2>1, <2>2
<1>13. ASSUME NEW i \in 0..n - 1, NEW j \in 0..n - 1, i < j PROVE at[i] < at[j]
 <2>1. at[i] \in Int /\ at[j] \in Int
   BY <1>12
 <2>2. ~ (at[j] <= at[i])
  <3> SUFFICES ASSUME at[j] <= at[i] PROVE FALSE
    OBVIOUS
  <3>1. at[j] = at[i] \/ at[j] < at[i]
    BY <2>1
  <3>2. rank[at[i]] = i /\ rank[at[j]] = j /\ at[i] \in bars /\ at[j] \in bars /\ i \in Int /\ j \in Int
    BY <1>2, <1>12
  <3>3. at[j] < at[i] => j < i
    BY <1>5, <3>2
  <3>4. at[j] = at[i] => j = i
    BY <3>2
  <3> QED BY <1>13, <3>1, <3>2, <3>3, <3>4
 <2> QED BY <2>1, <2>2
<1>14. ASSUME NEW b \in bars PROVE \E i \in 0..n - 1 : at[i] = b
  BY <1>4, <1>7, <1>12
<1>15. at \in [0..n - 1 -> bars]
  BY <1>11, <1>12
<1> QED BY <1>1, <1>2, <1>10, <1>13, <1>14, <1>15

(* The first bar from a time on, when there is one.                         *)
LEMMA FirstIs ==
  ASSUME NEW bars, IsFiniteSet(bars), bars \subseteq Nat, NEW t \in Int, NEW r, r = FirstAtOrAfter(bars, t)
  PROVE  /\ r # Nothing \/ (\E b \in bars : b >= t) =>
              r \in bars /\ r >= t /\ \A b \in bars : b >= t => b >= r
<1>1. PICK n : n = Cardinality(bars)
  OBVIOUS
<1>2. PICK at : at = CandleArray(bars)
  OBVIOUS
<1>3. /\ n \in Nat /\ at \in [0..n - 1 -> bars]
      /\ \A i, j \in 0..n - 1 : i < j => at[i] < at[j]
      /\ \A b \in bars : \E i \in 0..n - 1 : at[i] = b
 <2>1. bars \subseteq Int
   OBVIOUS
 <2> QED BY <1>1, <1>2, <2>1, OrderIs
<1>4. PICK found : found = Search(at, n, t)
  OBVIOUS
<1>5. Begins(at, n, t, found)
 <2>1. at \in [0..n - 1 -> Int]
  <3>1. bars \subseteq Int
    OBVIOUS
  <3>2. \A i \in 0..n - 1 : at[i] \in Int
    BY <1>3, <3>1
  <3> QED BY <1>3, <3>2
 <2> QED BY <1>3, <1>4, <2>1, SearchFinds
<1>6. r = IF found = n THEN Nothing ELSE at[found]
  BY <1>1, <1>2, <1>4 DEF FirstAtOrAfter
<1>7. found \in 0..n /\ \A j \in 0..n - 1 : (j < found => at[j] < t) /\ (j >= found => at[j] >= t)
  BY <1>5 DEF Begins
<1>8. ASSUME found = n PROVE \A b \in bars : ~ b >= t
 <2> SUFFICES ASSUME NEW b \in bars PROVE ~ b >= t
   OBVIOUS
 <2>1. PICK i \in 0..n - 1 : at[i] = b
   BY <1>3
 <2>2. at[i] < t
   BY <1>3, <1>7, <1>8
 <2>3. b \in Int
   OBVIOUS
 <2> QED BY <2>1, <2>2, <2>3
<1>9. ASSUME found # n PROVE r \in bars /\ r >= t /\ \A b \in bars : b >= t => b >= r
 <2>1. found \in 0..n - 1 /\ r = at[found]
   BY <1>3, <1>6, <1>7, <1>9
 <2>2. r \in bars /\ r >= t
   BY <1>3, <1>7, <2>1
 <2>3. ASSUME NEW b \in bars, b >= t PROVE b >= r
  <3>1. PICK i \in 0..n - 1 : at[i] = b
    BY <1>3
  <3>2. ~ i < found
   <4>1. at[i] < t => ~ at[i] >= t
     BY <3>1
   <4> QED BY <1>7, <2>3, <3>1, <4>1
  <3>3. i = found \/ found < i
    BY <2>1, <3>2
  <3>4. found < i => at[found] < at[i]
    BY <1>3, <2>1
  <3>5. b \in Int /\ r \in Int
    BY <2>2
  <3> QED BY <2>1, <3>1, <3>3, <3>4, <3>5
 <2> QED BY <2>2, <2>3
<1>10. found = n => r = Nothing
  BY <1>6
<1> QED BY <1>8, <1>9, <1>10

(* The offset of a wall-clock date: when the clock shows it at all, one of  *)
(* the two offsets stays as it is, and two steps reach it.                  *)
LEMMA RefinedIs ==
  ASSUME NEW z, NEW wall
  PROVE  \E f : f = [n \in 0..4 |-> IF n = 0 THEN wall ELSE wall - Offset(z, f[n - 1])]
<1> DEFINE N(x) == wall - Offset(z, x)
           f == [n \in 0..4 |-> IF n = 0 THEN wall ELSE IF n = 1 THEN N(wall) ELSE IF n = 2 THEN N(N(wall))
                                ELSE IF n = 3 THEN N(N(N(wall))) ELSE N(N(N(N(wall))))]
<1>1. f[0] = wall /\ f[1] = N(wall) /\ f[2] = N(N(wall)) /\ f[3] = N(N(N(wall))) /\ f[4] = N(N(N(N(wall))))
 <2> HIDE DEF N
 <2> QED OBVIOUS
<1>2. f = [n \in 0..4 |-> f[n]]
  OBVIOUS
<1> HIDE DEF f
<1>3. ASSUME NEW n \in 0..4 PROVE f[n] = IF n = 0 THEN wall ELSE N(f[n - 1])
 <2> HIDE DEF N
 <2>1. n = 0 \/ n = 1 \/ n = 2 \/ n = 3 \/ n = 4
   OBVIOUS
 <2> QED BY <1>1, <2>1
<1>4. f = [n \in 0..4 |-> IF n = 0 THEN wall ELSE N(f[n - 1])]
 <2> HIDE DEF N
 <2> QED BY <1>2, <1>3
<1> QED BY <1>4

LEMMA ParsedIs ==
  ASSUME NEW z \in Zone, NEW wall \in Int
  PROVE  /\ ParseLocalDateTime(z, wall) \in Int
         /\ \A t \in Int : WallClock(z, t) = wall => WallClock(z, ParseLocalDateTime(z, wall)) = wall
<1>1. PICK f : f = CHOOSE g : g = [n \in 0..4 |-> IF n = 0 THEN wall ELSE wall - Offset(z, g[n - 1])]
  OBVIOUS
<1>2. ParseLocalDateTime(z, wall) = f[4]
  BY <1>1 DEF ParseLocalDateTime
<1>3. f = [n \in 0..4 |-> IF n = 0 THEN wall ELSE wall - Offset(z, f[n - 1])]
  BY <1>1, RefinedIs
<1>4. /\ f[0] = wall /\ f[1] = wall - Offset(z, f[0]) /\ f[2] = wall - Offset(z, f[1])
      /\ f[3] = wall - Offset(z, f[2]) /\ f[4] = wall - Offset(z, f[3])
 <2>1. \A n \in 0..4 : f[n] = IF n = 0 THEN wall ELSE wall - Offset(z, f[n - 1])
   BY <1>3
 <2> QED BY <2>1
<1>5. z.since \in Int /\ z.before \in Int /\ z.after \in Int
  BY NavConstants
<1> QED BY <1>2, <1>4, <1>5 DEF WallClock, Offset

-----------------------------------------------------------------------------
(* The bars at hand are the latest ones of the series.                      *)
IsTail(bars, all) == bars \subseteq all /\ \A b \in bars, c \in all : c >= b => c \in bars
PlotIsRight(p) ==
  /\ p = [symbol |-> p.symbol, timeframe |-> p.timeframe, loading |-> p.loading, bars |-> p.bars]
  /\ p.symbol \in NavSymbol /\ p.timeframe \in {1, 2} /\ IsTail(p.bars, BarsOf(p.symbol, p.timeframe))
ToolbarIsRight(b) ==
  /\ b = [catalog |-> b.catalog, zone |-> b.zone, menu |-> b.menu, active |-> b.active, clicks |-> b.clicks]
  /\ b.zone \in Zone
ClicksAreRight(s) ==
  /\ s = [asked |-> s.asked, pending |-> s.pending]
  /\ \A r \in s.asked : r.shortcut \in DOMAIN Shortcut
(* What was asked for, and the first bar of its series from there on.       *)
IsAskedFor(g) ==
  /\ g = [wall |-> g.wall, zone |-> g.zone, time |-> g.time, symbol |-> g.symbol,
          timeframe |-> g.timeframe, bar |-> g.bar]
  /\ g.wall \in Int /\ g.zone \in Zone /\ g.time = ParseLocalDateTime(g.zone, g.wall)
  /\ g.symbol \in NavSymbol /\ g.timeframe \in {1, 2}
IsFirstFrom(bar, time, all) == bar \in all /\ bar >= time /\ \A b \in all : b >= time => b >= bar
GoToIsRight(g) ==
  /\ g = [open |-> g.open, draft |-> g.draft, busy |-> g.busy, error |-> g.error, last |-> g.last,
          pending |-> g.pending]
  /\ g.open => g.draft \in Int
  /\ g.last = Nothing \/ g.last \in Int
  /\ g.busy = Nothing \/ IsAskedFor(g.busy)
  /\ g.pending # Nothing => IsAskedFor(g.pending)
       /\ IsFirstFrom(g.pending.bar, g.pending.time, BarsOf(g.pending.symbol, g.pending.timeframe))
NavInv == PlotIsRight(plot) /\ ToolbarIsRight(toolbar) /\ ClicksAreRight(shortcuts) /\ GoToIsRight(goTo)

LEMMA BarsAreTimes ==
  ASSUME NEW s \in NavSymbol, NEW f \in {1, 2}
  PROVE  BarsOf(s, f) \subseteq 0..LastTick /\ IsFiniteSet(BarsOf(s, f)) /\ BarsOf(s, f) \subseteq Nat
<1>1. LastTick \in Nat /\ Traded[s] \subseteq 0..LastTick
  BY NavConstants
<1>2. \A t \in 0..LastTick : t - (t % f) \in 0..LastTick
 <2> SUFFICES ASSUME NEW t \in 0..LastTick PROVE t - (t % f) \in 0..LastTick
   OBVIOUS
 <2>1. CASE f = 1
   BY <1>1, <2>1
 <2>2. CASE f = 2
   BY <1>1, <2>2
 <2> QED BY <2>1, <2>2
<1>3. BarsOf(s, f) \subseteq 0..LastTick
  BY <1>1, <1>2 DEF BarsOf
<1>4. IsFiniteSet(0..LastTick) /\ 0..LastTick \subseteq Nat
  BY <1>1, FS_Interval
<1> QED BY <1>3, <1>4, FS_Subset

LEMMA EndsOf ==
  ASSUME NEW bars, bars \subseteq 0..LastTick, bars # {}
  PROVE  /\ Max(bars) \in bars /\ \A b \in bars : b <= Max(bars)
         /\ Min(bars) \in bars /\ \A b \in bars : Min(bars) <= b
<1>1. LastTick \in Nat /\ bars \subseteq Nat
  BY NavConstants
<1>2. PICK x \in bars : \A y \in bars : y <= x
  BY <1>1, Greatest
<1>3. PICK w \in bars : \A y \in bars : w <= y
  BY <1>1, Least
<1>4. \A y \in bars : x >= y
  BY <1>1, <1>2
<1>5. Max(bars) \in bars /\ \A y \in bars : Max(bars) >= y
  BY <1>4 DEF Max
<1>6. Min(bars) \in bars /\ \A y \in bars : Min(bars) <= y
  BY <1>3 DEF Min
<1>7. \A y \in bars : y <= Max(bars)
  BY <1>1, <1>5
<1> QED BY <1>5, <1>6, <1>7

LEMMA SeededIsTail ==
  ASSUME NEW s \in NavSymbol, NEW f \in {1, 2}
  PROVE  IsTail(Seeded(s, f), BarsOf(s, f))
<1>0. SeedBars \in Nat
  BY NavConstants
<1>1. BarsOf(s, f) \subseteq Nat /\ IsFiniteSet(BarsOf(s, f))
  BY BarsAreTimes
<1>2. ASSUME NEW b \in Seeded(s, f), NEW c \in BarsOf(s, f), c >= b PROVE c \in Seeded(s, f)
 <2> DEFINE Later(t) == {u \in BarsOf(s, f) : u > t}
 <2>1. b \in Nat /\ c \in Nat /\ Cardinality(Later(b)) < SeedBars
   BY <1>1 DEF Seeded
 <2>2. \A u \in Later(c) : u \in Later(b)
   BY <1>1, <1>2, <2>1
 <2>3. IsFiniteSet(Later(b))
   BY <1>1, FS_Subset
 <2>4. Cardinality(Later(c)) <= Cardinality(Later(b)) /\ IsFiniteSet(Later(c))
  <3> HIDE DEF Later
  <3> QED BY <2>2, <2>3, FS_Subset
 <2>5. Cardinality(Later(c)) \in Nat /\ Cardinality(Later(b)) \in Nat
  <3> HIDE DEF Later
  <3> QED BY <2>3, <2>4, FS_CardinalityType
 <2>6. Cardinality(Later(c)) < SeedBars
  <3> HIDE DEF Later
  <3> QED BY <1>0, <2>1, <2>4, <2>5
 <2> QED BY <2>6 DEF Seeded
<1> QED BY <1>2 DEF IsTail, Seeded

LEMMA SwitchIsRight ==
  ASSUME NEW s \in NavSymbol, NEW f \in {1, 2}, Switched(s, f)
  PROVE  PlotIsRight(plot')
<1>1. plot' = [symbol |-> s, timeframe |-> f, loading |-> TRUE, bars |-> {}]
  BY DEF Switched
<1>2. IsTail({}, BarsOf(s, f))
  BY DEF IsTail
<1>3. plot'.symbol = s /\ plot'.timeframe = f /\ plot'.bars = {} /\ plot'.loading = TRUE
  BY <1>1
<1> QED BY <1>1, <1>2, <1>3 DEF PlotIsRight

(* The bar a jump at the bars at hand goes to is the first of the series.   *)
LEMMA CoveredIsFirst ==
  ASSUME NEW s \in NavSymbol, NEW f \in {1, 2}, NEW bars, IsTail(bars, BarsOf(s, f)),
         NEW time \in Int, CandlesCover(bars, time)
  PROVE  IsFirstFrom(FirstAtOrAfter(bars, time), time, BarsOf(s, f))
<1>1. /\ BarsOf(s, f) \subseteq 0..LastTick /\ IsFiniteSet(BarsOf(s, f)) /\ BarsOf(s, f) \subseteq Nat
      /\ bars \subseteq BarsOf(s, f)
  BY BarsAreTimes DEF IsTail
<1>2. bars # {} /\ Min(bars) <= time /\ time <= Max(bars)
  BY DEF CandlesCover
<1>3. Max(bars) \in bars /\ Min(bars) \in bars
  BY <1>1, <1>2, EndsOf
<1>4. PICK low \in bars : low <= time
  BY <1>2, <1>3
<1>5. PICK top \in bars : time <= top
  BY <1>2, <1>3
<1>6. low \in Nat /\ top \in Nat /\ top >= time
  BY <1>1, <1>5
<1>7. IsFiniteSet(bars) /\ bars \subseteq Nat
  BY <1>1, FS_Subset
<1>8. PICK r : r = FirstAtOrAfter(bars, time)
  OBVIOUS
<1>9. r \in bars /\ r >= time /\ \A b \in bars : b >= time => b >= r
  BY <1>6, <1>7, <1>8, FirstIs
<1>10. ASSUME NEW b \in BarsOf(s, f), b >= time PROVE b >= r
 <2>1. b \in Nat /\ b >= low
   BY <1>1, <1>4, <1>6, <1>10
 <2>2. b \in bars
   BY <2>1 DEF IsTail
 <2> QED BY <1>9, <1>10, <2>2
<1> QED BY <1>1, <1>8, <1>9, <1>10 DEF IsFirstFrom

LEMMA NavStarts == NavInit => NavInv
<1> SUFFICES ASSUME NavInit PROVE NavInv
  OBVIOUS
<1>1. PICK s \in NavSymbol : plot = [symbol |-> s, timeframe |-> 1, loading |-> FALSE, bars |-> Seeded(s, 1)]
  BY DEF NavInit
<1>2. IsTail(Seeded(s, 1), BarsOf(s, 1))
  BY SeededIsTail
<1>3. PlotIsRight(plot)
 <2>1. plot.symbol = s /\ plot.timeframe = 1 /\ plot.loading = FALSE /\ plot.bars = Seeded(s, 1)
   BY <1>1
 <2> QED BY <1>1, <1>2, <2>1 DEF PlotIsRight
<1>4. ToolbarIsRight(toolbar)
  BY DEF NavInit, ToolbarIsRight
<1>5. ClicksAreRight(shortcuts)
  BY DEF NavInit, ClicksAreRight
<1>6. GoToIsRight(goTo)
  BY DEF NavInit, GoToIsRight
<1> QED BY <1>3, <1>4, <1>5, <1>6 DEF NavInv

(* The series, the shortcuts, and the menu of time zones.                   *)
LEMMA SeriesStepsKeep ==
  ASSUME NavInv,
         \/ SeriesSeeds \/ CatalogKnown \/ PendingShortcutApplies
         \/ \E s \in NavSymbol, f \in {1, 2} : SelectSeries(s, f)
         \/ \E sc \in DOMAIN Shortcut : JumpShortcut(sc)
         \/ \E r \in shortcuts.asked : ShortcutResolves(r) \/ ShortcutFails(r)
         \/ MarkerGoes \/ OpenTimeZoneMenu
         \/ \E z \in Zone : SelectTimeZone(z)
  PROVE  NavInv'
<1>0. PlotIsRight(plot) /\ ToolbarIsRight(toolbar) /\ ClicksAreRight(shortcuts) /\ GoToIsRight(goTo)
  BY DEF NavInv
<1>1. goTo' = goTo
  BY DEF SeriesSeeds, CatalogKnown, PendingShortcutApplies, SelectSeries, JumpShortcut, ShortcutResolves,
         ShortcutFails, MarkerGoes, OpenTimeZoneMenu, SelectTimeZone
<1>2. PlotIsRight(plot')
 <2>1. CASE SeriesSeeds
  <3>1. plot' = [symbol |-> plot.symbol, timeframe |-> plot.timeframe, loading |-> FALSE,
                 bars |-> Seeded(plot.symbol, plot.timeframe)]
    BY <1>0, <2>1 DEF SeriesSeeds, PlotIsRight
  <3>2. /\ plot'.symbol = plot.symbol /\ plot'.timeframe = plot.timeframe /\ plot'.loading = FALSE
        /\ plot'.bars = Seeded(plot.symbol, plot.timeframe)
    BY <3>1
  <3>3. plot.symbol \in NavSymbol /\ plot.timeframe \in {1, 2}
    BY <1>0 DEF PlotIsRight
  <3>4. IsTail(Seeded(plot.symbol, plot.timeframe), BarsOf(plot.symbol, plot.timeframe))
    BY <3>3, SeededIsTail
  <3> QED BY <3>1, <3>2, <3>3, <3>4 DEF PlotIsRight
 <2>2. ASSUME NEW s \in NavSymbol, NEW f \in {1, 2}, SelectSeries(s, f) PROVE PlotIsRight(plot')
   BY <2>2, SwitchIsRight DEF SelectSeries
 <2>3. ASSUME NEW r \in shortcuts.asked, ShortcutResolves(r) PROVE PlotIsRight(plot')
  <3>1. plot' = plot \/ Switched(plot.symbol, Shortcut[r.shortcut])
    BY <2>3 DEF ShortcutResolves
  <3>2. plot.symbol \in NavSymbol /\ Shortcut[r.shortcut] \in {1, 2}
    BY <1>0, NavConstants DEF PlotIsRight, ClicksAreRight
  <3> QED BY <1>0, <3>1, <3>2, SwitchIsRight
 <2>4. plot' = plot \/ SeriesSeeds
         \/ (\E s \in NavSymbol, f \in {1, 2} : SelectSeries(s, f))
         \/ \E r \in shortcuts.asked : ShortcutResolves(r)
   BY DEF CatalogKnown, PendingShortcutApplies, JumpShortcut, ShortcutFails, MarkerGoes, OpenTimeZoneMenu,
          SelectTimeZone
 <2> QED BY <1>0, <2>1, <2>2, <2>3, <2>4
<1>3. ToolbarIsRight(toolbar')
 <2>1. \/ toolbar' = toolbar
       \/ \E x : toolbar' = [toolbar EXCEPT !.catalog = x]
       \/ \E x : toolbar' = [toolbar EXCEPT !.active = x]
       \/ \E x : toolbar' = [toolbar EXCEPT !.clicks = x]
       \/ \E x : toolbar' = [toolbar EXCEPT !.menu = x]
       \/ \E z \in Zone : toolbar' = [toolbar EXCEPT !.menu = FALSE, !.zone = z]
   BY DEF SeriesSeeds, CatalogKnown, PendingShortcutApplies, SelectSeries, JumpShortcut, ShortcutResolves,
          ShortcutFails, MarkerGoes, OpenTimeZoneMenu, SelectTimeZone
 <2> QED BY <1>0, <2>1 DEF ToolbarIsRight
<1>4. ClicksAreRight(shortcuts')
 <2>1. ASSUME NEW sc \in DOMAIN Shortcut, JumpShortcut(sc) PROVE ClicksAreRight(shortcuts')
  <3>1. PICK q : q = [id |-> toolbar.clicks + 1, shortcut |-> sc, anchor |-> Max(plot.bars),
                      seen |-> plot.timeframe]
    OBVIOUS
  <3>2. shortcuts' = [shortcuts EXCEPT !.asked = @ \union {q}] /\ q.shortcut = sc
    BY <2>1, <3>1 DEF JumpShortcut
  <3> QED BY <1>0, <3>2 DEF ClicksAreRight
 <2>2. ASSUME NEW r \in shortcuts.asked, ShortcutResolves(r) \/ ShortcutFails(r) PROVE ClicksAreRight(shortcuts')
  <3>1. \/ shortcuts' = [shortcuts EXCEPT !.asked = @ \ {r}]
        \/ \E p : shortcuts' = [asked |-> shortcuts.asked \ {r}, pending |-> p]
    BY <2>2 DEF ShortcutResolves, ShortcutFails
  <3> QED BY <1>0, <3>1 DEF ClicksAreRight
 <2>3. CASE PendingShortcutApplies
   BY <1>0, <2>3 DEF PendingShortcutApplies, ClicksAreRight
 <2>4. \/ shortcuts' = shortcuts \/ PendingShortcutApplies
       \/ (\E sc \in DOMAIN Shortcut : JumpShortcut(sc))
       \/ \E r \in shortcuts.asked : ShortcutResolves(r) \/ ShortcutFails(r)
   BY DEF SeriesSeeds, CatalogKnown, SelectSeries, MarkerGoes, OpenTimeZoneMenu, SelectTimeZone
 <2> QED BY <1>0, <2>1, <2>2, <2>3, <2>4
<1> QED BY <1>0, <1>1, <1>2, <1>3, <1>4 DEF NavInv

LEMMA ResolvedIsRight ==
  ASSUME NEW g, GoToIsRight(g), NEW wanted, IsAskedFor(wanted), NEW bar,
         IsFirstFrom(bar, wanted.time, BarsOf(wanted.symbol, wanted.timeframe))
  PROVE  GoToIsRight(Resolved(g, wanted, bar))
<1>1. PICK w : w = [wanted EXCEPT !.bar = bar]
  OBVIOUS
<1>2. /\ w = [wall |-> wanted.wall, zone |-> wanted.zone, time |-> wanted.time, symbol |-> wanted.symbol,
              timeframe |-> wanted.timeframe, bar |-> bar]
  BY <1>1 DEF IsAskedFor
<1>3. /\ w.wall = wanted.wall /\ w.zone = wanted.zone /\ w.time = wanted.time /\ w.symbol = wanted.symbol
      /\ w.timeframe = wanted.timeframe /\ w.bar = bar
  BY <1>2
<1>4. IsAskedFor(w) /\ IsFirstFrom(w.bar, w.time, BarsOf(w.symbol, w.timeframe))
  BY <1>2, <1>3 DEF IsAskedFor
<1>5. PICK h : h = Resolved(g, wanted, bar)
  OBVIOUS
<1>6. h = [open |-> FALSE, draft |-> g.draft, busy |-> Nothing, error |-> g.error, last |-> wanted.time,
           pending |-> w]
  BY <1>1, <1>5 DEF Resolved, GoToIsRight
<1>7. /\ h.open = FALSE /\ h.draft = g.draft /\ h.busy = Nothing /\ h.error = g.error /\ h.last = wanted.time
      /\ h.pending = w
  BY <1>6
<1>8. wanted.time \in Int
  BY ParsedIs DEF IsAskedFor
<1> QED BY <1>4, <1>5, <1>6, <1>7, <1>8 DEF GoToIsRight

(* "Go to".                                                                 *)
LEMMA GoToStepsKeep ==
  ASSUME NavInv,
         \/ OpenGoTo \/ CloseGoTo \/ ApplyGoTo \/ HistoryAroundArrives \/ HistoryAroundFails \/ GoToApplies
         \/ \E wall \in 1..LastTick : PickDate(wall)
  PROVE  NavInv'
<1>0. PlotIsRight(plot) /\ ToolbarIsRight(toolbar) /\ ClicksAreRight(shortcuts) /\ GoToIsRight(goTo)
  BY DEF NavInv
<1>1. shortcuts' = shortcuts
  BY DEF OpenGoTo, CloseGoTo, ApplyGoTo, HistoryAroundArrives, HistoryAroundFails, GoToApplies, PickDate, Navigated
<1>2. ToolbarIsRight(toolbar')
 <2>1. toolbar' = toolbar \/ toolbar' = [toolbar EXCEPT !.active = Nothing]
   BY DEF OpenGoTo, CloseGoTo, ApplyGoTo, HistoryAroundArrives, HistoryAroundFails, GoToApplies, PickDate, Navigated
 <2> QED BY <1>0, <2>1 DEF ToolbarIsRight
<1>3. /\ plot.symbol \in NavSymbol /\ plot.timeframe \in {1, 2}
      /\ IsTail(plot.bars, BarsOf(plot.symbol, plot.timeframe)) /\ plot.bars \subseteq 0..LastTick
      /\ LastTick \in Nat
  BY <1>0, BarsAreTimes, NavConstants DEF PlotIsRight, IsTail
<1>4. CASE OpenGoTo
 <2>1. \A t \in Int : WallClock(toolbar.zone, t) \in Int
   BY <1>0, NavConstants DEF WallClock, Offset, ToolbarIsRight
 <2>2. Max(plot.bars) \in Int
   BY <1>3, <1>4, EndsOf DEF OpenGoTo, Offered
 <2>3. GoToSelectionDraft \in Int
   BY <1>0, <2>1, <2>2 DEF GoToSelectionDraft, GoToIsRight
 <2>4. PICK d \in Int : goTo' = [goTo EXCEPT !.open = TRUE, !.draft = d, !.error = FALSE]
   BY <1>4, <2>3 DEF OpenGoTo
 <2>5. GoToIsRight(goTo')
   BY <1>0, <2>4 DEF GoToIsRight
 <2> QED BY <1>0, <1>1, <1>2, <1>4, <2>5 DEF NavInv, OpenGoTo, Navigated
<1>5. CASE CloseGoTo
 <2>1. GoToIsRight(goTo')
   BY <1>0, <1>5 DEF GoToIsRight, CloseGoTo
 <2> QED BY <1>0, <1>1, <1>2, <1>5, <2>1 DEF NavInv, CloseGoTo, Navigated
<1>6. ASSUME NEW wall \in 1..LastTick, PickDate(wall) PROVE NavInv'
 <2>1. wall \in Int
   BY <1>3
 <2>2. GoToIsRight(goTo')
   BY <1>0, <1>6, <2>1 DEF GoToIsRight, PickDate
 <2> QED BY <1>0, <1>1, <1>2, <1>6, <2>2 DEF NavInv, PickDate, Navigated
<1>7. CASE ApplyGoTo
 <2>1. PICK time : time = ParseLocalDateTime(toolbar.zone, goTo.draft)
   OBVIOUS
 <2>2. PICK wanted : wanted = [wall |-> goTo.draft, zone |-> toolbar.zone, time |-> time,
                               symbol |-> plot.symbol, timeframe |-> plot.timeframe, bar |-> Nothing]
   OBVIOUS
 <2>3. toolbar.zone \in Zone /\ goTo.draft \in Int /\ time \in Int
   BY <1>0, <1>7, <2>1, ParsedIs DEF ApplyGoTo, GoToIsRight, ToolbarIsRight
 <2>4. IsAskedFor(wanted)
   BY <1>3, <2>1, <2>2, <2>3 DEF IsAskedFor
 <2>5. wanted.time = time /\ wanted.symbol = plot.symbol /\ wanted.timeframe = plot.timeframe
   BY <2>2
 <2>6. \/ /\ CandlesCover(plot.bars, time)
          /\ goTo' = Resolved(goTo, wanted, FirstAtOrAfter(plot.bars, time))
       \/ goTo' = [goTo EXCEPT !.error = TRUE]
       \/ goTo' = [goTo EXCEPT !.busy = wanted, !.error = FALSE]
   BY <1>7, <2>1, <2>2 DEF ApplyGoTo
 <2>7. CASE CandlesCover(plot.bars, time) /\ goTo' = Resolved(goTo, wanted, FirstAtOrAfter(plot.bars, time))
  <3>1. IsFirstFrom(FirstAtOrAfter(plot.bars, time), time, BarsOf(plot.symbol, plot.timeframe))
    BY <1>3, <2>3, <2>7, CoveredIsFirst
  <3>2. GoToIsRight(Resolved(goTo, wanted, FirstAtOrAfter(plot.bars, time)))
    BY <1>0, <2>4, <2>5, <3>1, ResolvedIsRight
  <3> QED BY <1>0, <1>1, <1>2, <1>7, <2>7, <3>2 DEF NavInv, ApplyGoTo, Navigated
 <2>8. CASE goTo' = [goTo EXCEPT !.error = TRUE]
  <3>1. GoToIsRight(goTo')
    BY <1>0, <2>8 DEF GoToIsRight
  <3> QED BY <1>0, <1>1, <1>2, <1>7, <3>1 DEF NavInv, ApplyGoTo, Navigated
 <2>9. CASE goTo' = [goTo EXCEPT !.busy = wanted, !.error = FALSE]
  <3>1. GoToIsRight(goTo')
    BY <1>0, <2>4, <2>9 DEF GoToIsRight
  <3> QED BY <1>0, <1>1, <1>2, <1>7, <3>1 DEF NavInv, ApplyGoTo, Navigated
 <2> QED BY <2>6, <2>7, <2>8, <2>9
<1>8. CASE HistoryAroundArrives
 <2>1. PICK wanted : wanted = goTo.busy
   OBVIOUS
 <2>2. PICK all : all = BarsOf(wanted.symbol, wanted.timeframe)
   OBVIOUS
 <2>3. PICK bar : bar = FirstAtOrAfter(all, wanted.time)
   OBVIOUS
 <2>4. /\ wanted # Nothing /\ bar # Nothing /\ goTo' = Resolved(goTo, wanted, bar)
       /\ \/ plot' = plot
          \/ /\ wanted.symbol = plot.symbol /\ wanted.timeframe = plot.timeframe
             /\ plot' = [plot EXCEPT !.bars = @ \union {b \in all : b >= bar}]
   BY <1>8, <2>1, <2>2, <2>3 DEF HistoryAroundArrives
 <2>5. IsAskedFor(wanted)
   BY <1>0, <2>1, <2>4 DEF GoToIsRight
 <2>6. wanted.symbol \in NavSymbol /\ wanted.timeframe \in {1, 2} /\ wanted.time \in Int
   BY <2>5, ParsedIs DEF IsAskedFor
 <2>7. IsFiniteSet(all) /\ all \subseteq Nat
   BY <2>2, <2>6, BarsAreTimes
 <2>8. IsFirstFrom(bar, wanted.time, all)
   BY <2>3, <2>4, <2>6, <2>7, FirstIs DEF IsFirstFrom
 <2>9. GoToIsRight(goTo')
   BY <1>0, <2>2, <2>4, <2>5, <2>8, ResolvedIsRight
 <2>10. ASSUME wanted.symbol = plot.symbol, wanted.timeframe = plot.timeframe,
               plot' = [plot EXCEPT !.bars = @ \union {b \in all : b >= bar}]
        PROVE  PlotIsRight(plot')
  <3>1. PICK more : more = plot.bars \union {b \in all : b >= bar}
    OBVIOUS
  <3>2. plot' = [symbol |-> plot.symbol, timeframe |-> plot.timeframe, loading |-> plot.loading, bars |-> more]
    BY <1>0, <2>10, <3>1 DEF PlotIsRight
  <3>3. /\ plot'.symbol = plot.symbol /\ plot'.timeframe = plot.timeframe /\ plot'.loading = plot.loading
        /\ plot'.bars = more
    BY <3>2
  <3>4. IsTail(plot.bars, all) /\ bar \in Nat
    BY <1>3, <2>2, <2>7, <2>8, <2>10 DEF IsFirstFrom
  <3>5. ASSUME NEW b \in more, NEW c \in all, c >= b PROVE c \in more
   <4>1. CASE b \in plot.bars
     BY <3>1, <3>4, <3>5, <4>1 DEF IsTail
   <4>2. CASE b \in all /\ b >= bar
    <5>1. b \in Nat /\ c \in Nat /\ bar \in Nat
      BY <2>7, <3>4, <4>2
    <5>2. c >= bar
      BY <3>5, <4>2, <5>1
    <5> QED BY <3>1, <5>2
   <4> QED BY <3>1, <4>1, <4>2
  <3>6. IsTail(more, all)
    BY <3>1, <3>4, <3>5 DEF IsTail
  <3> QED BY <1>3, <2>2, <2>10, <3>2, <3>3, <3>6 DEF PlotIsRight
 <2> QED BY <1>0, <1>1, <1>2, <2>4, <2>9, <2>10 DEF NavInv
<1>9. CASE HistoryAroundFails
 <2>1. GoToIsRight(goTo')
   BY <1>0, <1>9 DEF GoToIsRight, HistoryAroundFails
 <2> QED BY <1>0, <1>1, <1>2, <1>9, <2>1 DEF NavInv, HistoryAroundFails, Navigated
<1>10. CASE GoToApplies
 <2>1. GoToIsRight(goTo')
   BY <1>0, <1>10 DEF GoToIsRight, GoToApplies
 <2> QED BY <1>0, <1>1, <1>2, <1>10, <2>1 DEF NavInv, GoToApplies
<1> QED BY <1>4, <1>5, <1>6, <1>7, <1>8, <1>9, <1>10

LEMMA JumpsAreRight == NavInv => JumpsToTheMomentAsked
<1> SUFFICES ASSUME NavInv, goTo.pending # Nothing
             PROVE  LET g == goTo.pending
                    IN  /\ (\E t \in -2..LastTick + 2 : WallClock(g.zone, t) = g.wall) => WallClock(g.zone, g.time) = g.wall
                        /\ g.bar >= g.time
                        /\ g.symbol = plot.symbol /\ g.timeframe = plot.timeframe
                             => \A b \in plot.bars : b >= g.time => b >= g.bar
  BY DEF JumpsToTheMomentAsked
<1>1. PICK g : g = goTo.pending
  OBVIOUS
<1>2. IsAskedFor(g) /\ IsFirstFrom(g.bar, g.time, BarsOf(g.symbol, g.timeframe))
  BY <1>1 DEF NavInv, GoToIsRight
<1>3. ASSUME NEW t \in -2..LastTick + 2, WallClock(g.zone, t) = g.wall PROVE WallClock(g.zone, g.time) = g.wall
 <2>1. t \in Int
   BY NavConstants
 <2> QED BY <1>2, <1>3, <2>1, ParsedIs DEF IsAskedFor
<1>4. IsTail(plot.bars, BarsOf(plot.symbol, plot.timeframe))
  BY DEF NavInv, PlotIsRight
<1>5. g.symbol = plot.symbol /\ g.timeframe = plot.timeframe => \A b \in plot.bars : b >= g.time => b >= g.bar
  BY <1>2, <1>4 DEF IsTail, IsFirstFrom
<1> QED BY <1>1, <1>2, <1>3, <1>5 DEF IsFirstFrom

(* A jump lands on the first bar of its series from the moment that was     *)
(* asked for in the chart's zone, whatever series, zone and bars came in    *)
(* between (useChartDateNavigation.ts).                                     *)
THEOREM JumpsLand == NavSpec => []JumpsToTheMomentAsked
<1>1. ASSUME NavInv, [NavNext]_navVars PROVE NavInv'
 <2>1. CASE UNCHANGED navVars
   BY <1>1, <2>1 DEF navVars, NavInv
 <2>2. CASE NavNext
   BY <1>1, <2>2, SeriesStepsKeep, GoToStepsKeep DEF NavNext
 <2> QED BY <1>1, <2>1, <2>2
<1> QED BY <1>1, NavStarts, JumpsAreRight, PTL DEF NavSpec

-----------------------------------------------------------------------------
(***************************************************************************)
(* ReplaySession.  The invariant is stated of the server's sessions, the   *)
(* client, the sockets and the requests under way, for an action changes   *)
(* one of them at a time.                                                  *)
(***************************************************************************)
EventKind == {"bar", "reset", "trade", "speed", "playing", "paused"}
Handling == {"refresh", "hydrate", "recover"}
Creating == {"start", "fork"}

IsRecord(x) == x = [open |-> x.open, log |-> x.log] /\ x.log \in Seq(EventKind)
IsSocket(x) ==
  /\ x = [stopped |-> x.stopped, line |-> x.line, heard |-> x.heard, chain |-> x.chain, timer |-> x.timer]
  /\ x.stopped => x.line = "closed"
IsTask(t) == t = [why |-> t.why, id |-> t.id, life |-> t.life, at |-> t.at, seq |-> t.seq,
                  status |-> t.status, bars |-> t.bars, parent |-> t.parent]
IsView(v) == v = [id |-> v.id, seq |-> v.seq, status |-> v.status, bars |-> v.bars]
IsClient(r) ==
  /\ r = [life |-> r.life, view |-> r.view, override |-> r.override, connection |-> r.connection,
          active |-> r.active, overtaken |-> r.overtaken, unclosed |-> r.unclosed]
  /\ r.view = Nothing \/ IsView(r.view)

(* Bars fit a position of a log when nothing is missing before it and       *)
(* nothing is there that the log has not revealed: unless a reset is to     *)
(* come, which is hydrated.                                                 *)
NoResetIn(log, n) == \A i \in n + 1..Len(log) : log[i] # "reset"
Fit(bars, log, n) == NoResetIn(log, n) => BarsAt(log, n) \subseteq bars /\ bars \subseteq BarsAt(log, Len(log))

AreLogs(db) == (\E n \in Nat : DOMAIN db = 1..n) /\ \A s \in DOMAIN db : IsRecord(db[s])
AreSockets(db, S) == DOMAIN S \subseteq DOMAIN db /\ \A s \in DOMAIN S : IsSocket(S[s])
TaskIsRight(db, S, t) ==
  t.why # "close" =>
    /\ IsTask(t)
    /\ t.why \in Creating => (t.id = Nothing \/ t.id \in DOMAIN db) /\ t.id \notin DOMAIN S /\ t.seq = 0
    /\ t.why \in Handling \union {"reconnect"} =>
         t.id \in DOMAIN S /\ (t.why # "recover" => t.seq \in Nat /\ t.seq <= Len(db[t.id].log))
    /\ t.why \in Handling => S[t.id].chain
    /\ t.why = "refresh" => t.at \in {"asks", "bars", "ready"} /\ (t.at = "ready" => Fit(t.bars, db[t.id].log, t.seq))
    /\ t.why = "hydrate" => t.at \in {"bars", "ready"}
(* A socket handles one message at a time, and a session is created once.   *)
OneAtATime(T) ==
  \A t, u \in T : t.id = u.id /\ t.id # Nothing
                  /\ \/ t.why \in Handling /\ u.why \in Handling
                     \/ t.why \in Creating /\ u.why \in Creating
                  => t = u
(* What is shown fits, or what will is on its way.                          *)
ViewFits(db, v, T) ==
  /\ (\E t \in T : t.id = v.id /\ t.why \in {"refresh", "hydrate"}) \/ Fit(v.bars, db[v.id].log, v.seq)
  /\ \A t \in T : t.id = v.id =>
       /\ t.why = "refresh" /\ t.at # "asks" => v.seq <= t.seq
       /\ t.why = "hydrate" /\ t.at = "ready" => Fit(t.bars, db[v.id].log, v.seq)
ViewIsRight(db, r, S, T) ==
  r.view # Nothing /\ ~ r.overtaken =>
    /\ r.view.id \in DOMAIN db /\ r.view.seq \in Nat /\ r.view.seq <= Len(db[r.view.id].log)
    /\ r.view.id \in DOMAIN S /\ S[r.view.id].line = "open" => ViewFits(db, r.view, T)
KeepsUp(db, r, S, T) ==
  /\ AreLogs(db) /\ AreSockets(db, S) /\ IsClient(r)
  /\ \A t \in T : TaskIsRight(db, S, t)
  /\ OneAtATime(T)
  /\ ViewIsRight(db, r, S, T)
ReplayInv == KeepsUp(replayDb, replay, replaySockets, replayTasks)

-----------------------------------------------------------------------------
LEMMA BarsBehind ==
  ASSUME NEW log \in Seq(EventKind), NEW n \in Nat, n <= Len(log), NoResetIn(log, n)
  PROVE  BarsAt(log, n) \subseteq BarsAt(log, Len(log))
<1> SUFFICES ASSUME NEW i \in BarsAt(log, n) PROVE i \in BarsAt(log, Len(log))
  OBVIOUS
<1>1. i \in 1..n /\ log[i] \in {"bar", "reset"} /\ \A j \in i+1..n : log[j] # "reset"
  BY DEF BarsAt
<1>2. Len(log) \in Nat
  OBVIOUS
<1>3. ASSUME NEW j \in i+1..Len(log) PROVE log[j] # "reset"
 <2>1. j \in i+1..n \/ j \in n+1..Len(log)
   BY <1>1, <1>2
 <2> QED BY <2>1, <1>1 DEF NoResetIn
<1>4. i \in 1..Len(log)
  BY <1>1, <1>2
<1> QED BY <1>1, <1>3, <1>4 DEF BarsAt

LEMMA FitSoFar ==
  ASSUME NEW log \in Seq(EventKind), NEW n \in Nat, n <= Len(log)
  PROVE  Fit(BarsAt(log, Len(log)), log, n)
BY BarsBehind DEF Fit

LEMMA FitGrows ==
  ASSUME NEW log \in Seq(EventKind), NEW n \in Nat, n <= Len(log), NEW kind \in EventKind,
         NEW bars, Fit(bars, log, n)
  PROVE  Fit(bars, Append(log, kind), n)
<1> DEFINE more == Append(log, kind)
<1>1. /\ more \in Seq(EventKind) /\ Len(more) = Len(log) + 1 /\ Len(log) \in Nat
      /\ \A i \in 1..Len(log) : more[i] = log[i]
      /\ more[Len(log) + 1] = kind
  OBVIOUS
<1> HIDE DEF more
<1> SUFFICES ASSUME NoResetIn(more, n)
             PROVE  BarsAt(more, n) \subseteq bars /\ bars \subseteq BarsAt(more, Len(more))
  BY DEF Fit, more
<1>2. NoResetIn(log, n)
 <2> SUFFICES ASSUME NEW i \in n+1..Len(log) PROVE log[i] # "reset"
   BY DEF NoResetIn
 <2>1. i \in n+1..Len(more) /\ i \in 1..Len(log)
   BY <1>1
 <2> QED BY <1>1, <2>1 DEF NoResetIn
<1>3. BarsAt(log, n) \subseteq bars /\ bars \subseteq BarsAt(log, Len(log))
  BY <1>2 DEF Fit
<1>4. ASSUME NEW m \in Nat, m <= Len(log) PROVE BarsAt(more, m) = BarsAt(log, m)
 <2>1. \A i \in 1..m : more[i] = log[i]
   BY <1>1, <1>4
 <2>2. \A i \in 1..m : \A j \in i+1..m : more[j] = log[j]
   BY <2>1
 <2> QED BY <2>1, <2>2 DEF BarsAt
<1>5. NoResetIn(more, Len(log))
 <2> SUFFICES ASSUME NEW i \in Len(log)+1..Len(more) PROVE more[i] # "reset"
   BY DEF NoResetIn
 <2>1. i \in n+1..Len(more)
   BY <1>1
 <2> QED BY <2>1 DEF NoResetIn
<1>6. BarsAt(more, Len(log)) \subseteq BarsAt(more, Len(more))
  BY <1>1, <1>5, BarsBehind
<1> QED BY <1>1, <1>3, <1>4, <1>6

LEMMA FitNext ==
  ASSUME NEW log \in Seq(EventKind), NEW n \in 1..Len(log), NEW bars, Fit(bars, log, n - 1), log[n] # "reset"
  PROVE  Fit(IF log[n] = "bar" THEN bars \union {n} ELSE bars, log, n)
<1> DEFINE now == IF log[n] = "bar" THEN bars \union {n} ELSE bars
<1>0. Len(log) \in Nat
  OBVIOUS
<1> SUFFICES ASSUME NoResetIn(log, n)
             PROVE  BarsAt(log, n) \subseteq now /\ now \subseteq BarsAt(log, Len(log))
  BY DEF Fit
<1>1. NoResetIn(log, n - 1)
 <2> SUFFICES ASSUME NEW i \in n - 1 + 1..Len(log) PROVE log[i] # "reset"
   BY DEF NoResetIn
 <2>1. i = n \/ i \in n+1..Len(log)
   BY <1>0
 <2> QED BY <2>1 DEF NoResetIn
<1>2. BarsAt(log, n - 1) \subseteq bars /\ bars \subseteq BarsAt(log, Len(log))
  BY <1>1 DEF Fit
<1>3. ASSUME NEW i \in BarsAt(log, n) PROVE i \in now
 <2>1. i \in 1..n /\ log[i] \in {"bar", "reset"} /\ \A j \in i+1..n : log[j] # "reset"
   BY DEF BarsAt
 <2>2. CASE i = n
   BY <2>1, <2>2
 <2>3. CASE i # n
  <3>1. i \in 1..n-1 /\ \A j \in i+1..n-1 : j \in i+1..n
    BY <2>1, <2>3
  <3>2. i \in BarsAt(log, n - 1)
    BY <2>1, <3>1 DEF BarsAt
  <3> QED BY <1>2, <3>2
 <2> QED BY <2>2, <2>3
<1>4. log[n] = "bar" => n \in BarsAt(log, Len(log))
  BY DEF BarsAt, NoResetIn
<1> QED BY <1>2, <1>3, <1>4

LEMMA FitAll ==
  ASSUME NEW log \in Seq(EventKind), NEW n \in Nat, n <= Len(log), NEW bars, Fit(bars, log, n), NoResetIn(log, n)
  PROVE  Fit(bars \union {i \in n + 1..Len(log) : log[i] = "bar"}, log, Len(log))
<1> DEFINE new == {i \in n + 1..Len(log) : log[i] = "bar"}
<1>0. Len(log) \in Nat
  OBVIOUS
<1>1. BarsAt(log, n) \subseteq bars /\ bars \subseteq BarsAt(log, Len(log))
  BY DEF Fit
<1>2. new \subseteq BarsAt(log, Len(log))
 <2> SUFFICES ASSUME NEW i \in n + 1..Len(log), log[i] = "bar" PROVE i \in BarsAt(log, Len(log))
   OBVIOUS
 <2>1. i \in 1..Len(log) /\ \A j \in i+1..Len(log) : j \in n+1..Len(log)
   BY <1>0
 <2> QED BY <2>1 DEF BarsAt, NoResetIn
<1>3. BarsAt(log, Len(log)) \subseteq bars \union new
 <2> SUFFICES ASSUME NEW i \in BarsAt(log, Len(log)) PROVE i \in bars \union new
   OBVIOUS
 <2>1. i \in 1..Len(log) /\ log[i] \in {"bar", "reset"} /\ \A j \in i+1..Len(log) : log[j] # "reset"
   BY DEF BarsAt
 <2>2. CASE i \in 1..n
  <3>1. \A j \in i+1..n : j \in i+1..Len(log)
    BY <1>0
  <3> QED BY <1>1, <2>1, <2>2, <3>1 DEF BarsAt
 <2>3. CASE i \in n+1..Len(log)
   BY <2>1, <2>3 DEF NoResetIn
 <2> QED BY <1>0, <2>1, <2>2, <2>3
<1> QED BY <1>1, <1>2, <1>3 DEF Fit

-----------------------------------------------------------------------------
(* What may change by itself.                                               *)
Grown(db, more) ==
  /\ AreLogs(more) /\ DOMAIN more = DOMAIN db
  /\ \A s \in DOMAIN db : \/ more[s].log = db[s].log
                          \/ \E kind \in EventKind : more[s].log = Append(db[s].log, kind)
LEMMA LogsGrow ==
  ASSUME NEW db, NEW r, NEW S, NEW T, KeepsUp(db, r, S, T), NEW more, Grown(db, more)
  PROVE  KeepsUp(more, r, S, T)
<1>1. ASSUME NEW s \in DOMAIN db
      PROVE  /\ db[s].log \in Seq(EventKind)
             /\ Len(db[s].log) \in Nat /\ Len(more[s].log) \in Nat /\ Len(db[s].log) <= Len(more[s].log)
             /\ \A bars : \A n \in Nat : n <= Len(db[s].log) /\ Fit(bars, db[s].log, n) => Fit(bars, more[s].log, n)
 <2>1. db[s].log \in Seq(EventKind)
   BY DEF KeepsUp, AreLogs, IsRecord
 <2>2. PICK log : log = db[s].log
   OBVIOUS
 <2>3. PICK new : new = more[s].log
   OBVIOUS
 <2>4. new = log \/ \E kind \in EventKind : new = Append(log, kind)
   BY <2>2, <2>3 DEF Grown
 <2>5. /\ log \in Seq(EventKind) /\ Len(log) \in Nat /\ Len(new) \in Nat /\ Len(log) <= Len(new)
       /\ \A bars : \A n \in Nat : n <= Len(log) /\ Fit(bars, log, n) => Fit(bars, new, n)
  <3>1. CASE new = log
    BY <2>1, <2>2, <3>1
  <3>2. ASSUME NEW kind \in EventKind, new = Append(log, kind)
        PROVE  /\ Len(new) \in Nat /\ Len(log) <= Len(new)
               /\ \A bars : \A n \in Nat : n <= Len(log) /\ Fit(bars, log, n) => Fit(bars, new, n)
    BY <2>1, <2>2, <3>2, FitGrows
  <3> QED BY <2>1, <2>2, <2>4, <3>1, <3>2
 <2> QED BY <2>2, <2>3, <2>5
<1>2. DOMAIN S \subseteq DOMAIN db /\ DOMAIN more = DOMAIN db
  BY DEF KeepsUp, AreSockets, Grown
<1>3. ASSUME NEW t \in T PROVE TaskIsRight(more, S, t)
 <2>1. TaskIsRight(db, S, t)
   BY DEF KeepsUp
 <2>2. CASE t.id \in DOMAIN S
  <3>1. t.id \in DOMAIN db
    BY <1>2, <2>2
  <3>2. PICK s : s = t.id
    OBVIOUS
  <3>3. t.seq \in Nat /\ t.seq <= Len(db[s].log) => t.seq <= Len(more[s].log)
    BY <1>1, <3>1, <3>2
  <3>4. t.seq \in Nat /\ t.seq <= Len(db[s].log) /\ Fit(t.bars, db[s].log, t.seq) => Fit(t.bars, more[s].log, t.seq)
    BY <1>1, <3>1, <3>2
  <3>5. t.why = "refresh" => t.why \in Handling
    BY DEF Handling
  <3> QED BY <1>2, <2>1, <3>2, <3>3, <3>4, <3>5 DEF TaskIsRight
 <2>3. CASE t.id \notin DOMAIN S
   BY <1>2, <2>1, <2>3 DEF TaskIsRight, Handling
 <2> QED BY <2>2, <2>3
<1>4. ViewIsRight(more, r, S, T)
 <2> SUFFICES ASSUME r.view # Nothing, ~ r.overtaken
              PROVE  /\ r.view.id \in DOMAIN more /\ r.view.seq \in Nat /\ r.view.seq <= Len(more[r.view.id].log)
                     /\ r.view.id \in DOMAIN S /\ S[r.view.id].line = "open" => ViewFits(more, r.view, T)
   BY DEF ViewIsRight
 <2>1. /\ r.view.id \in DOMAIN db /\ r.view.seq \in Nat /\ r.view.seq <= Len(db[r.view.id].log)
       /\ r.view.id \in DOMAIN S /\ S[r.view.id].line = "open" => ViewFits(db, r.view, T)
   BY DEF KeepsUp, ViewIsRight
 <2>2. PICK v : v = r.view
   OBVIOUS
 <2>3. ViewFits(db, v, T) => ViewFits(more, v, T)
   BY <1>1, <2>1, <2>2 DEF ViewFits
 <2> QED BY <1>1, <1>2, <2>1, <2>2, <2>3
<1>5. AreLogs(more) /\ AreSockets(more, S)
  BY <1>2 DEF KeepsUp, AreSockets, Grown
<1> QED BY <1>3, <1>4, <1>5 DEF KeepsUp

NothingNew(r, now) ==
  /\ IsClient(now)
  /\ now.view # Nothing /\ ~ now.overtaken =>
       /\ r.view # Nothing /\ ~ r.overtaken
       /\ now.view.id = r.view.id /\ now.view.seq = r.view.seq /\ now.view.bars = r.view.bars
LEMMA ClientGoesOn ==
  ASSUME NEW db, NEW r, NEW S, NEW T, KeepsUp(db, r, S, T), NEW now, NothingNew(r, now)
  PROVE  KeepsUp(db, now, S, T)
<1>1. ViewIsRight(db, now, S, T)
  BY DEF KeepsUp, ViewIsRight, NothingNew, ViewFits
<1> QED BY <1>1 DEF KeepsUp, NothingNew

NoneOpens(S, now) ==
  /\ DOMAIN now = DOMAIN S
  /\ \A s \in DOMAIN S : /\ IsSocket(now[s]) /\ now[s].chain = S[s].chain
                         /\ now[s].line = "open" => S[s].line = "open"
LEMMA SocketsGoOn ==
  ASSUME NEW db, NEW r, NEW S, NEW T, KeepsUp(db, r, S, T), NEW now, NoneOpens(S, now)
  PROVE  KeepsUp(db, r, now, T)
<1>1. ViewIsRight(db, r, now, T)
  BY DEF KeepsUp, ViewIsRight, NoneOpens
<1>2. AreSockets(db, now)
  BY DEF KeepsUp, AreSockets, NoneOpens
<1>3. ASSUME NEW t \in T PROVE TaskIsRight(db, now, t)
 <2>1. TaskIsRight(db, S, t)
   BY DEF KeepsUp
 <2> QED BY <2>1 DEF TaskIsRight, NoneOpens
<1> QED BY <1>1, <1>2, <1>3 DEF KeepsUp

(* Requests come and go, but those of a socket's handler.                   *)
LEMMA TasksGoOn ==
  ASSUME NEW db, NEW r, NEW S, NEW T, KeepsUp(db, r, S, T), NEW now,
         \A t \in now \ T : /\ TaskIsRight(db, S, t) /\ t.why \notin Handling
                            /\ t.why \in Creating => t.id = Nothing,
         \A t \in T \ now : t.why \notin Handling
  PROVE  KeepsUp(db, r, S, now)
<1>1. \A t \in now : TaskIsRight(db, S, t)
  BY DEF KeepsUp
<1>2. OneAtATime(now)
 <2> SUFFICES ASSUME NEW t \in now, NEW u \in now, t.id = u.id, t.id # Nothing,
                     (t.why \in Handling /\ u.why \in Handling) \/ (t.why \in Creating /\ u.why \in Creating)
              PROVE  t = u
   BY DEF OneAtATime
 <2>1. t \in T /\ u \in T
   OBVIOUS
 <2> QED BY <2>1 DEF KeepsUp, OneAtATime
<1>3. \A v : ViewFits(db, v, T) => ViewFits(db, v, now)
  BY DEF ViewFits, Handling
<1>4. ViewIsRight(db, r, S, now)
  BY <1>3 DEF KeepsUp, ViewIsRight
<1> QED BY <1>1, <1>2, <1>4 DEF KeepsUp

(* A message is handled, in part or to the end: what the handler of the     *)
(* socket waits for is replaced, and what is shown with it.                 *)
HandsOver(db, r, S, T, s, next, seen, now, after) ==
  /\ s \in DOMAIN S /\ IsClient(seen)
  /\ DOMAIN now = DOMAIN S /\ IsSocket(now[s]) /\ \A x \in DOMAIN S \ {s} : now[x] = S[x]
  /\ \A t \in next : TaskIsRight(db, now, t) /\ t.id = s /\ t.why \in Handling
  /\ \A t, u \in next : t = u
  /\ after = (T \ {t \in T : t.id = s /\ t.why \in Handling}) \union next
  /\ seen.view # Nothing /\ ~ seen.overtaken =>
       \/ /\ seen.view.id # s
          /\ r.view # Nothing /\ ~ r.overtaken
          /\ seen.view.id = r.view.id /\ seen.view.seq = r.view.seq /\ seen.view.bars = r.view.bars
       \/ /\ seen.view.id = s /\ seen.view.seq \in Nat /\ seen.view.seq <= Len(db[s].log)
          /\ now[s].line = "open" => ViewFits(db, seen.view, next)
LEMMA MessageHandled ==
  ASSUME NEW db, NEW r, NEW S, NEW T, KeepsUp(db, r, S, T),
         NEW s, NEW next, NEW seen, NEW now, NEW after,
         HandsOver(db, r, S, T, s, next, seen, now, after)
  PROVE  KeepsUp(db, seen, now, after)
<1> USE DEF HandsOver
<1>1. AreSockets(db, now)
  BY DEF KeepsUp, AreSockets
<1>2. ASSUME NEW t \in after PROVE TaskIsRight(db, now, t)
 <2>1. CASE t \in next
   BY <2>1
 <2>2. CASE t \in T /\ ~ (t.id = s /\ t.why \in Handling)
  <3>1. TaskIsRight(db, S, t)
    BY <2>2 DEF KeepsUp
  <3>2. CASE t.id = s
    BY <2>2, <3>1, <3>2 DEF TaskIsRight, Handling
  <3>3. CASE t.id # s
   <4>1. t.why \in Handling => S[t.id] = now[t.id] \/ t.id \notin DOMAIN S
     BY <3>3
   <4> QED BY <3>1, <3>3, <4>1 DEF TaskIsRight, Handling
  <3> QED BY <3>2, <3>3
 <2> QED BY <2>1, <2>2
<1>3. OneAtATime(after)
 <2> SUFFICES ASSUME NEW t \in after, NEW u \in after, t.id = u.id, t.id # Nothing,
                     (t.why \in Handling /\ u.why \in Handling) \/ (t.why \in Creating /\ u.why \in Creating)
              PROVE  t = u
   BY DEF OneAtATime
 <2>1. OneAtATime(T)
   BY DEF KeepsUp
 <2>2. CASE t \in T /\ u \in T
   BY <2>1, <2>2 DEF OneAtATime
 <2>3. CASE t \in next \/ u \in next
  <3>1. t.id = s /\ t.why \in Handling /\ u.why \in Handling
    BY <2>3 DEF Handling, Creating
  <3> QED BY <3>1
 <2> QED BY <2>2, <2>3
<1>4. ViewIsRight(db, seen, now, after)
 <2> SUFFICES ASSUME seen.view # Nothing, ~ seen.overtaken
              PROVE  /\ seen.view.id \in DOMAIN db /\ seen.view.seq \in Nat
                     /\ seen.view.seq <= Len(db[seen.view.id].log)
                     /\ seen.view.id \in DOMAIN now /\ now[seen.view.id].line = "open"
                          => ViewFits(db, seen.view, after)
   BY DEF ViewIsRight
 <2>1. CASE seen.view.id # s
  <3>1. /\ r.view # Nothing /\ ~ r.overtaken
        /\ seen.view.id = r.view.id /\ seen.view.seq = r.view.seq /\ seen.view.bars = r.view.bars
    BY <2>1
  <3>2. /\ r.view.id \in DOMAIN db /\ r.view.seq \in Nat /\ r.view.seq <= Len(db[r.view.id].log)
        /\ r.view.id \in DOMAIN S /\ S[r.view.id].line = "open" => ViewFits(db, r.view, T)
    BY <3>1 DEF KeepsUp, ViewIsRight
  <3>3. ViewFits(db, r.view, T) => ViewFits(db, seen.view, after)
    BY <2>1, <3>1 DEF ViewFits
  <3> QED BY <2>1, <3>1, <3>2, <3>3
 <2>2. CASE seen.view.id = s
  <3>1. s \in DOMAIN db
    BY DEF KeepsUp, AreSockets
  <3>2. ViewFits(db, seen.view, next) => ViewFits(db, seen.view, after)
    BY <2>2 DEF ViewFits, Handling
  <3> QED BY <2>2, <3>1, <3>2
 <2> QED BY <2>1, <2>2
<1> QED BY <1>1, <1>2, <1>3, <1>4 DEF KeepsUp

(* The requests of the handler of a socket.                                 *)
LEMMA HandlerIsOne ==
  ASSUME NEW db, NEW r, NEW S, NEW T, KeepsUp(db, r, S, T), NEW t \in T, t.why \in Handling
  PROVE  {u \in T : u.id = t.id /\ u.why \in Handling} = {t}
<1>1. t.id \in DOMAIN S
  BY DEF KeepsUp, TaskIsRight, Handling
<1>2. t.id # Nothing
  BY <1>1, NothingIsNoNumber DEF KeepsUp, AreSockets, AreLogs
<1> QED BY <1>2 DEF KeepsUp, OneAtATime
LEMMA HandlerIsNone ==
  ASSUME NEW db, NEW r, NEW S, NEW T, KeepsUp(db, r, S, T), NEW s, ~ S[s].chain
  PROVE  {u \in T : u.id = s /\ u.why \in Handling} = {}
BY DEF KeepsUp, TaskIsRight, Handling

(* What is shown is another session, whose line is not open.                *)
LEMMA ShownAnew ==
  ASSUME NEW db, NEW r, NEW S, NEW T, KeepsUp(db, r, S, T), NEW seen, IsClient(seen),
         NEW s \in DOMAIN db, s \in DOMAIN S => S[s].line # "open",
         seen.view # Nothing => seen.view.id = s,
         \/ NothingNew(r, seen)
         \/ seen.view.seq \in Nat /\ seen.view.seq <= Len(db[s].log)
  PROVE  KeepsUp(db, seen, S, T)
<1>1. CASE NothingNew(r, seen)
  BY <1>1, ClientGoesOn
<1>2. CASE seen.view.seq \in Nat /\ seen.view.seq <= Len(db[s].log)
 <2>1. ViewIsRight(db, seen, S, T)
   BY <1>2 DEF ViewIsRight
 <2> QED BY <2>1 DEF KeepsUp
<1> QED BY <1>1, <1>2

-----------------------------------------------------------------------------
(* What the operations of the store do to the client.                       *)
LEMMA ConnectionSet ==
  ASSUME NEW r, IsClient(r), NEW c, NEW x, x = [r EXCEPT !.connection = c]
  PROVE  IsClient(x) /\ x.view = r.view /\ x.overtaken = r.overtaken /\ NothingNew(r, x)
<1>1. x = [life |-> r.life, view |-> r.view, override |-> r.override, connection |-> c,
           active |-> r.active, overtaken |-> r.overtaken, unclosed |-> r.unclosed]
  BY DEF IsClient
<1> QED BY <1>1 DEF IsClient, NothingNew

LEMMA SessionReplaced ==
  ASSUME NEW r, IsClient(r), NEW snap, NEW bars, NEW x, x = ReplaceSession(r, snap, bars)
  PROVE  /\ IsClient(x)
         /\ Stale(r, snap) => x = r
         /\ ~ Stale(r, snap) =>
              ~ x.overtaken /\ x.view.id = snap.id /\ x.view.seq = snap.seq /\ x.view.bars = bars
<1>1. CASE Stale(r, snap)
  BY <1>1 DEF ReplaceSession
<1>2. CASE ~ Stale(r, snap)
 <2> DEFINE v == [id |-> snap.id, seq |-> snap.seq, status |-> snap.status, bars |-> bars]
 <2>1. IsView(v) /\ v.id = snap.id /\ v.seq = snap.seq /\ v.bars = bars
   BY DEF IsView
 <2>2. x = [r EXCEPT !.override = Nothing, !.overtaken = FALSE, !.view = v]
   BY <1>2 DEF ReplaceSession
 <2> HIDE DEF v
 <2>3. x = [life |-> r.life, view |-> v, override |-> Nothing, connection |-> r.connection,
            active |-> r.active, overtaken |-> FALSE, unclosed |-> r.unclosed]
   BY <2>2 DEF IsClient
 <2> QED BY <1>2, <2>1, <2>3 DEF IsClient
<1> QED BY <1>1, <1>2

LEMMA BarsReplaced ==
  ASSUME NEW r, IsClient(r), NEW s, NEW bars, NEW x, x = ReplaceBars(r, s, bars)
  PROVE  /\ IsClient(x) /\ x.overtaken = r.overtaken
         /\ ~ Showing(r, s) => x = r
         /\ Showing(r, s) => x.view.id = r.view.id /\ x.view.seq = r.view.seq /\ x.view.bars = bars
<1>1. CASE ~ Showing(r, s)
  BY <1>1 DEF ReplaceBars
<1>2. CASE Showing(r, s)
 <2>1. IsView(r.view)
   BY <1>2 DEF Showing, IsClient
 <2>2. PICK v : v = [r.view EXCEPT !.bars = bars]
   OBVIOUS
 <2>3. v = [id |-> r.view.id, seq |-> r.view.seq, status |-> r.view.status, bars |-> bars]
   BY <2>1, <2>2 DEF IsView
 <2>4. x = [r EXCEPT !.view = v]
   BY <1>2, <2>2 DEF ReplaceBars
 <2>5. x = [life |-> r.life, view |-> v, override |-> r.override, connection |-> r.connection,
            active |-> r.active, overtaken |-> r.overtaken, unclosed |-> r.unclosed]
   BY <2>4 DEF IsClient
 <2> QED BY <1>2, <2>3, <2>5 DEF IsClient, IsView
<1> QED BY <1>1, <1>2

LEMMA StatusOverridden ==
  ASSUME NEW r, IsClient(r), NEW proj, IsView(proj), NEW x, x = Overridden(r, proj)
  PROVE  /\ IsClient(x) /\ x.overtaken = r.overtaken
         /\ x.view.id = proj.id /\ x.view.seq = proj.seq /\ x.view.bars = proj.bars
<1>1. CASE r.override \in {Nothing, proj.status}
 <2>1. x = [r EXCEPT !.view = proj, !.override = Nothing]
   BY <1>1 DEF Overridden
 <2>2. x = [life |-> r.life, view |-> proj, override |-> Nothing, connection |-> r.connection,
            active |-> r.active, overtaken |-> r.overtaken, unclosed |-> r.unclosed]
   BY <2>1 DEF IsClient
 <2> QED BY <2>2 DEF IsClient
<1>2. CASE r.override \notin {Nothing, proj.status}
 <2>1. PICK v : v = [proj EXCEPT !.status = r.override]
   OBVIOUS
 <2>2. v = [id |-> proj.id, seq |-> proj.seq, status |-> r.override, bars |-> proj.bars]
   BY <2>1 DEF IsView
 <2>3. x = [r EXCEPT !.view = v]
   BY <1>2, <2>1 DEF Overridden
 <2>4. x = [life |-> r.life, view |-> v, override |-> r.override, connection |-> r.connection,
            active |-> r.active, overtaken |-> r.overtaken, unclosed |-> r.unclosed]
   BY <2>3 DEF IsClient
 <2> QED BY <2>2, <2>4 DEF IsClient, IsView
<1> QED BY <1>1, <1>2

(* The answer of a command is shown ahead of its events, or not at all.     *)
LEMMA SnapshotReplaced ==
  ASSUME NEW r, IsClient(r), NEW snap, NEW x, x = ReplaceSnapshot(r, snap)
  PROVE  NothingNew(r, x)
<1>1. CASE Stale(r, snap)
  BY <1>1 DEF ReplaceSnapshot, NothingNew
<1>2. CASE ~ Stale(r, snap)
 <2> DEFINE bars == IF Showing(r, snap.id) THEN r.view.bars ELSE {}
            v == [id |-> snap.id, seq |-> snap.seq, status |-> snap.status, bars |-> bars]
 <2>1. PICK own : own = IF Showing(r, snap.id) THEN r ELSE [r EXCEPT !.override = Nothing]
   OBVIOUS
 <2>2. IsClient(own)
  <3>1. CASE Showing(r, snap.id)
    BY <2>1, <3>1
  <3>2. CASE ~ Showing(r, snap.id)
   <4>1. own = [life |-> r.life, view |-> r.view, override |-> Nothing, connection |-> r.connection,
                active |-> r.active, overtaken |-> r.overtaken, unclosed |-> r.unclosed]
     BY <2>1, <3>2 DEF IsClient
   <4> QED BY <4>1 DEF IsClient
  <3> QED BY <3>1, <3>2
 <2>3. IsView(v)
   BY DEF IsView
 <2>4. x = [Overridden(own, v) EXCEPT !.overtaken = TRUE]
   BY <1>2, <2>1 DEF ReplaceSnapshot
 <2> HIDE DEF v
 <2>5. PICK y : y = Overridden(own, v)
   OBVIOUS
 <2>6. IsClient(y)
   BY <2>2, <2>3, <2>5, StatusOverridden
 <2>7. x = [life |-> y.life, view |-> y.view, override |-> y.override, connection |-> y.connection,
            active |-> y.active, overtaken |-> TRUE, unclosed |-> y.unclosed]
   BY <2>4, <2>5, <2>6 DEF IsClient
 <2> QED BY <2>6, <2>7 DEF IsClient, NothingNew
<1> QED BY <1>1, <1>2

LEMMA StatusSet ==
  ASSUME NEW r, IsClient(r), NEW status, NEW x, x = SetOptimisticStatus(r, status)
  PROVE  NothingNew(r, x)
<1>1. CASE r.view = Nothing
  BY <1>1 DEF SetOptimisticStatus, NothingNew
<1>2. CASE r.view # Nothing
 <2>1. IsView(r.view)
   BY <1>2 DEF IsClient
 <2>2. PICK v : v = [r.view EXCEPT !.status = status]
   OBVIOUS
 <2>3. v = [id |-> r.view.id, seq |-> r.view.seq, status |-> status, bars |-> r.view.bars]
   BY <2>1, <2>2 DEF IsView
 <2>4. x = [r EXCEPT !.override = status, !.view = v]
   BY <1>2, <2>2 DEF SetOptimisticStatus, IsClient
 <2>5. x = [life |-> r.life, view |-> v, override |-> status, connection |-> r.connection,
            active |-> r.active, overtaken |-> r.overtaken, unclosed |-> r.unclosed]
   BY <2>4 DEF IsClient
 <2> QED BY <1>2, <2>3, <2>5 DEF IsClient, IsView, NothingNew
<1> QED BY <1>1, <1>2

-----------------------------------------------------------------------------
LEMMA SomeIsNotNothing ==
  ASSUME ReplayInv
  PROVE  Nothing \notin DOMAIN replayDb /\ Nothing \notin DOMAIN replaySockets
BY NothingIsNoNumber DEF ReplayInv, KeepsUp, AreLogs, AreSockets

LEMMA ReplayGoesOn ==
  ASSUME ReplayInv,
         replayDb' = replayDb \/ Grown(replayDb, replayDb'),
         replay' = replay \/ NothingNew(replay, replay'),
         replaySockets' = replaySockets \/ NoneOpens(replaySockets, replaySockets'),
         \A t \in replayTasks' \ replayTasks :
            /\ TaskIsRight(replayDb', replaySockets', t) /\ t.why \notin Handling
            /\ t.why \in Creating => t.id = Nothing,
         \A t \in replayTasks \ replayTasks' : t.why \notin Handling
  PROVE  ReplayInv'
<1>1. KeepsUp(replayDb', replay, replaySockets, replayTasks)
  BY LogsGrow DEF ReplayInv
<1>2. KeepsUp(replayDb', replay', replaySockets, replayTasks)
  BY <1>1, ClientGoesOn
<1>3. KeepsUp(replayDb', replay', replaySockets', replayTasks)
  BY <1>2, SocketsGoOn
<1>4. KeepsUp(replayDb', replay', replaySockets', replayTasks')
  BY <1>3, TasksGoOn
<1> QED BY <1>4 DEF ReplayInv

LEMMA Emitted ==
  ASSUME AreLogs(replayDb), NEW s, NEW kind \in EventKind, NEW more, more = Emits(s, kind)
  PROVE  Grown(replayDb, more)
<1>1. more = [replayDb EXCEPT ![s].log = Append(replayDb[s].log, kind)]
  BY DEF Emits
<1>2. DOMAIN more = DOMAIN replayDb /\ \A x \in DOMAIN replayDb \ {s} : more[x] = replayDb[x]
  BY <1>1
<1>3. CASE s \in DOMAIN replayDb
 <2>1. IsRecord(replayDb[s])
   BY <1>3 DEF AreLogs
 <2>2. more[s] = [open |-> replayDb[s].open, log |-> Append(replayDb[s].log, kind)]
   BY <1>1, <1>3, <2>1 DEF IsRecord
 <2>3. IsRecord(more[s]) /\ more[s].log = Append(replayDb[s].log, kind)
   BY <2>1, <2>2 DEF IsRecord
 <2>4. AreLogs(more)
   BY <1>2, <2>3 DEF AreLogs
 <2> QED BY <1>2, <2>3, <2>4 DEF Grown
<1>4. CASE s \notin DOMAIN replayDb
  BY <1>2, <1>4 DEF Grown, AreLogs
<1> QED BY <1>3, <1>4

LEMMA CommandsGrow ==
  ASSUME AreLogs(replayDb), NEW s, NEW type, NEW more, more = Commanded(s, type)
  PROVE  more = replayDb \/ Grown(replayDb, more)
<1>1. more = replayDb \/ \E kind \in EventKind : more = Emits(s, kind)
  BY DEF Commanded, EventKind
<1> QED BY <1>1, Emitted

LEMMA ServerKeeps ==
  ASSUME ReplayInv,
         \/ \E s \in DOMAIN replayDb : ClockTicks(s)
         \/ \E q \in {"control", "trading"} : RunCommand(q)
  PROVE  ReplayInv'
<1>0. AreLogs(replayDb)
  BY DEF ReplayInv, KeepsUp
<1>1. ASSUME NEW s \in DOMAIN replayDb, ClockTicks(s) PROVE ReplayInv'
 <2>1. /\ replayDb' = Emits(s, "bar")
       /\ replay' = replay /\ replaySockets' = replaySockets /\ replayTasks' = replayTasks
   BY <1>1 DEF ClockTicks
 <2>2. Grown(replayDb, replayDb')
   BY <1>0, <2>1, Emitted DEF EventKind
 <2> QED BY <2>1, <2>2, ReplayGoesOn
<1>2. ASSUME NEW q \in {"control", "trading"}, RunCommand(q) PROVE ReplayInv'
 <2>1. /\ replayDb' = replayDb \/ replayDb' = Commanded(First(q).id, First(q).type)
       /\ replay' = replay /\ replaySockets' = replaySockets /\ replayTasks' = replayTasks
   BY <1>2 DEF RunCommand
 <2>2. replayDb' = replayDb \/ Grown(replayDb, replayDb')
   BY <1>0, <2>1, CommandsGrow
 <2> QED BY <2>1, <2>2, ReplayGoesOn
<1> QED BY <1>1, <1>2

(* What is asked for.                                                       *)
LEMMA AskedIs ==
  ASSUME NEW why, NEW s, NEW life, NEW x, x = Asks(why, s, life)
  PROVE  IsTask(x) /\ x.why = why /\ x.id = s /\ x.at = "asks" /\ x.seq = 0
BY DEF Asks, IsTask
LEMMA PreparedIs ==
  ASSUME NEW why, NEW s, NEW life, NEW x, x = Prepares(why, s, life)
  PROVE  IsTask(x) /\ x.why = why /\ x.id = s /\ x.at = "bars" /\ x.seq = LastSeq(s)
<1>1. x = [why |-> why, id |-> s, life |-> life, at |-> "bars", seq |-> LastSeq(s),
           status |-> SnapshotOf(s).status, bars |-> {}, parent |-> Nothing]
  BY DEF Prepares, Asks
<1> QED BY <1>1 DEF IsTask
LEMMA HydratedIs ==
  ASSUME NEW s, NEW x, x = HydratesTrack(s)
  PROVE  IsTask(x) /\ x.why = "hydrate" /\ x.id = s /\ x.at = "bars" /\ x.seq = 0
<1>1. PICK y : y = Prepares("hydrate", s, 0)
  OBVIOUS
<1>2. IsTask(y) /\ y.why = "hydrate" /\ y.id = s /\ y.at = "bars"
  BY <1>1, PreparedIs
<1>3. x = [why |-> y.why, id |-> y.id, life |-> y.life, at |-> y.at, seq |-> 0,
           status |-> y.status, bars |-> y.bars, parent |-> y.parent]
  BY <1>1, <1>2 DEF HydratesTrack, IsTask
<1> QED BY <1>2, <1>3 DEF IsTask

LEMMA ClientMovesKeep ==
  ASSUME ReplayInv, replayDb' = replayDb, replaySockets' = replaySockets, replayTasks' \subseteq replayTasks,
         \A t \in replayTasks \ replayTasks' : t.why \notin Handling,
         replay' = replay \/ NothingNew(replay, replay')
  PROVE  ReplayInv'
BY ReplayGoesOn

LEMMA ControlsKeep ==
  ASSUME ReplayInv,
         \/ \E status : SetActiveReplayPlaying(status)
         \/ StepActiveReplay \/ RestartActiveReplay \/ SetActiveReplaySpeed
         \/ FlushPlay \/ FlushStep \/ FlushRestart \/ FlushSpeed
         \/ Seek \/ PlaceOrder
         \/ \E q \in {"control", "trading"} : VersionRefreshed(q)
         \/ ControlRefused \/ TradingAnswers
  PROVE  ReplayInv'
<1>0. IsClient(replay)
  BY DEF ReplayInv, KeepsUp
<1>1. /\ replayDb' = replayDb /\ replaySockets' = replaySockets /\ replayTasks' = replayTasks
      /\ \/ replay' = replay
         \/ \E status : replay' = SetOptimisticStatus(replay, status)
         \/ \E snap : replay' = ReplaceSnapshot(replay, snap)
         \/ replay' = [replay EXCEPT !.override = Nothing]
         \/ \E snap : replay' = ReplaceSnapshot([replay EXCEPT !.override = Nothing], snap)
  BY DEF SetActiveReplayPlaying, StepActiveReplay, RestartActiveReplay, SetActiveReplaySpeed,
         FlushPlay, FlushStep, FlushRestart, FlushSpeed, Seek, PlaceOrder, VersionRefreshed,
         ControlRefused, TradingAnswers
<1>2. PICK r : r = [replay EXCEPT !.override = Nothing]
  OBVIOUS
<1>3. r = [life |-> replay.life, view |-> replay.view, override |-> Nothing, connection |-> replay.connection,
           active |-> replay.active, overtaken |-> replay.overtaken, unclosed |-> replay.unclosed]
  BY <1>0, <1>2 DEF IsClient
<1>4. IsClient(r) /\ r.view = replay.view /\ r.overtaken = replay.overtaken /\ NothingNew(replay, r)
  BY <1>0, <1>3 DEF IsClient, NothingNew
<1>5. ASSUME NEW snap, replay' = ReplaceSnapshot([replay EXCEPT !.override = Nothing], snap)
      PROVE  NothingNew(replay, replay')
 <2>1. NothingNew(r, replay')
   BY <1>2, <1>4, <1>5, SnapshotReplaced
 <2> QED BY <1>4, <2>1 DEF NothingNew
<1>6. replay' = replay \/ NothingNew(replay, replay')
  BY <1>0, <1>1, <1>2, <1>4, <1>5, StatusSet, SnapshotReplaced
<1> QED BY <1>1, <1>6, ClientMovesKeep

LEMMA AnswersKeep ==
  ASSUME ReplayInv,
         \/ ControlAnswers
         \/ \E t \in replayTasks : AnswerHydrated(t)
         \/ \E t \in replayTasks, ok \in BOOLEAN : CloseAnswers(t, ok)
  PROVE  ReplayInv'
<1>0. IsClient(replay) /\ AreLogs(replayDb)
  BY DEF ReplayInv, KeepsUp
<1>1. CASE ControlAnswers
 <2> DEFINE c == First("control")
 <2>1. /\ replayDb' = replayDb /\ replaySockets' = replaySockets
       /\ replay' = replay \/ \E snap : replay' = ReplaceSnapshot(replay, snap)
       /\ \/ replayTasks' = replayTasks
          \/ \E s : replayTasks' = replayTasks \union {[HydratesTrack(s) EXCEPT !.why = "answer"]}
   BY <1>1 DEF ControlAnswers
 <2>2. replay' = replay \/ NothingNew(replay, replay')
   BY <1>0, <2>1, SnapshotReplaced
 <2>3. ASSUME NEW s, NEW x, x = [HydratesTrack(s) EXCEPT !.why = "answer"]
       PROVE  IsTask(x) /\ x.why = "answer"
  <3>1. PICK y : y = HydratesTrack(s)
    OBVIOUS
  <3>2. IsTask(y)
    BY <3>1, HydratedIs
  <3>3. x = [why |-> "answer", id |-> y.id, life |-> y.life, at |-> y.at, seq |-> y.seq,
             status |-> y.status, bars |-> y.bars, parent |-> y.parent]
    BY <2>3, <3>1, <3>2 DEF IsTask
  <3> QED BY <3>3 DEF IsTask
 <2>4. \A t \in replayTasks' \ replayTasks : IsTask(t) /\ t.why = "answer"
   BY <2>1, <2>3
 <2>5. \A t : IsTask(t) /\ t.why = "answer" => TaskIsRight(replayDb', replaySockets', t)
   BY DEF TaskIsRight, Handling, Creating
 <2>6. "answer" \notin Handling \union Creating
   BY DEF Handling, Creating
 <2>7. \A t \in replayTasks \ replayTasks' : t.why \notin Handling
   BY <2>1
 <2> QED BY <2>1, <2>2, <2>4, <2>5, <2>6, <2>7, ReplayGoesOn
<1>2. ASSUME NEW t \in replayTasks, AnswerHydrated(t) PROVE ReplayInv'
 <2>1. /\ t.why = "answer"
       /\ replay' = [ReplaceBars(replay, t.id, t.bars) EXCEPT !.overtaken = TRUE]
       /\ replayTasks' = replayTasks \ {t} /\ replayDb' = replayDb /\ replaySockets' = replaySockets
   BY <1>2 DEF AnswerHydrated
 <2>2. PICK r : r = ReplaceBars(replay, t.id, t.bars)
   OBVIOUS
 <2>3. IsClient(r)
   BY <1>0, <2>2, BarsReplaced
 <2>4. PICK x : x = [r EXCEPT !.overtaken = TRUE]
   OBVIOUS
 <2>5. x = [life |-> r.life, view |-> r.view, override |-> r.override, connection |-> r.connection,
            active |-> r.active, overtaken |-> TRUE, unclosed |-> r.unclosed]
   BY <2>3, <2>4 DEF IsClient
 <2>6. NothingNew(replay, x)
   BY <2>3, <2>5 DEF IsClient, NothingNew
 <2>7. \A u \in replayTasks \ replayTasks' : u.why \notin Handling
   BY <2>1 DEF Handling
 <2> QED BY <2>1, <2>2, <2>4, <2>6, <2>7, ClientMovesKeep
<1>3. ASSUME NEW t \in replayTasks, NEW ok \in BOOLEAN, CloseAnswers(t, ok) PROVE ReplayInv'
 <2>1. /\ t.why = "close" /\ replayTasks' = replayTasks \ {t} /\ replaySockets' = replaySockets
       /\ \/ replayDb' = [replayDb EXCEPT ![t.id].open = FALSE] /\ replay' = replay
          \/ replayDb' = replayDb /\ replay' = [replay EXCEPT !.unclosed = @ \union {t.id}]
   BY <1>3 DEF CloseAnswers
 <2>2. \A u \in replayTasks \ replayTasks' : u.why \notin Handling
   BY <2>1 DEF Handling
 <2>3. CASE replayDb' = [replayDb EXCEPT ![t.id].open = FALSE] /\ replay' = replay
  <3>1. PICK more : more = [replayDb EXCEPT ![t.id].open = FALSE]
    OBVIOUS
  <3>2. DOMAIN more = DOMAIN replayDb /\ \A x \in DOMAIN replayDb \ {t.id} : more[x] = replayDb[x]
    BY <3>1
  <3>3. Grown(replayDb, more)
   <4>1. CASE t.id \in DOMAIN replayDb
    <5>1. IsRecord(replayDb[t.id])
      BY <1>0, <4>1 DEF AreLogs
    <5>2. more[t.id] = [open |-> FALSE, log |-> replayDb[t.id].log]
      BY <3>1, <4>1, <5>1 DEF IsRecord
    <5>3. IsRecord(more[t.id]) /\ more[t.id].log = replayDb[t.id].log
      BY <5>1, <5>2 DEF IsRecord
    <5> QED BY <1>0, <3>2, <5>3 DEF AreLogs, Grown
   <4>2. CASE t.id \notin DOMAIN replayDb
     BY <1>0, <3>2, <4>2 DEF AreLogs, Grown
   <4> QED BY <4>1, <4>2
  <3> QED BY <2>1, <2>2, <2>3, <3>1, <3>3, ReplayGoesOn
 <2>4. CASE replayDb' = replayDb /\ replay' = [replay EXCEPT !.unclosed = @ \union {t.id}]
  <3>1. PICK x : x = [replay EXCEPT !.unclosed = @ \union {t.id}]
    OBVIOUS
  <3>2. x = [life |-> replay.life, view |-> replay.view, override |-> replay.override,
             connection |-> replay.connection, active |-> replay.active, overtaken |-> replay.overtaken,
             unclosed |-> replay.unclosed \union {t.id}]
    BY <1>0, <3>1 DEF IsClient
  <3>3. NothingNew(replay, x)
    BY <1>0, <3>2 DEF IsClient, NothingNew
  <3> QED BY <2>1, <2>2, <2>4, <3>1, <3>3, ClientMovesKeep
 <2> QED BY <2>1, <2>3, <2>4
<1> QED BY <1>1, <1>2, <1>3

(* A socket that is stopped, and sockets that only lose their line.         *)
LEMMA StoppedIs ==
  ASSUME NEW db, NEW S, AreSockets(db, S), NEW s, NEW x, x = Stopped(S, s)
  PROVE  NoneOpens(S, x) /\ AreSockets(db, x)
<1>1. CASE s = Nothing
  BY <1>1 DEF Stopped, NoneOpens, AreSockets
<1>2. CASE s # Nothing
 <2>1. x = [S EXCEPT ![s].stopped = TRUE, ![s].line = "closed", ![s].timer = FALSE]
   BY <1>2 DEF Stopped
 <2>2. DOMAIN x = DOMAIN S /\ \A y \in DOMAIN S \ {s} : x[y] = S[y]
   BY <2>1
 <2>3. ASSUME s \in DOMAIN S
       PROVE  IsSocket(x[s]) /\ x[s].chain = S[s].chain /\ x[s].line = "closed"
  <3>1. IsSocket(S[s])
    BY <2>3 DEF AreSockets
  <3>2. x[s] = [stopped |-> TRUE, line |-> "closed", heard |-> S[s].heard, chain |-> S[s].chain, timer |-> FALSE]
    BY <2>1, <2>3, <3>1 DEF IsSocket
  <3> QED BY <3>2 DEF IsSocket
 <2>4. \A y \in DOMAIN S : IsSocket(S[y])
   BY DEF AreSockets
 <2> QED BY <2>2, <2>3, <2>4 DEF NoneOpens, AreSockets
<1> QED BY <1>1, <1>2

LEMMA LivesKeep ==
  ASSUME ReplayInv, StartReplaySession \/ ForkActiveReplay \/ ExitReplaySession
  PROVE  ReplayInv'
<1>0. IsClient(replay) /\ AreSockets(replayDb, replaySockets)
  BY DEF ReplayInv, KeepsUp
<1>1. replayDb' = replayDb
  BY DEF StartReplaySession, ForkActiveReplay, ExitReplaySession
<1>2. replaySockets' = replaySockets \/ NoneOpens(replaySockets, replaySockets')
 <2>1. replaySockets' = replaySockets \/ replaySockets' = Stopped(replaySockets, replay.active)
   BY DEF StartReplaySession, ForkActiveReplay, ExitReplaySession
 <2> QED BY <1>0, <2>1, StoppedIs
<1>3. DOMAIN replaySockets' = DOMAIN replaySockets
  BY <1>2 DEF NoneOpens
<1>4. replay' = replay \/ NothingNew(replay, replay')
 <2>1. CASE StartReplaySession
  <3>1. PICK x : x = [replay EXCEPT !.life = @ + 1, !.active = Nothing, !.connection = "connecting"]
    OBVIOUS
  <3>2. x = [life |-> replay.life + 1, view |-> replay.view, override |-> replay.override,
             connection |-> "connecting", active |-> Nothing, overtaken |-> replay.overtaken,
             unclosed |-> replay.unclosed]
    BY <1>0, <3>1 DEF IsClient
  <3>3. NothingNew(replay, x)
    BY <1>0, <3>2 DEF IsClient, NothingNew
  <3> QED BY <2>1, <3>1, <3>3 DEF StartReplaySession
 <2>2. CASE ForkActiveReplay
  <3>1. PICK x : x = [replay EXCEPT !.life = @ + 1, !.connection = "connecting"]
    OBVIOUS
  <3>2. x = [life |-> replay.life + 1, view |-> replay.view, override |-> replay.override,
             connection |-> "connecting", active |-> replay.active, overtaken |-> replay.overtaken,
             unclosed |-> replay.unclosed]
    BY <1>0, <3>1 DEF IsClient
  <3>3. NothingNew(replay, x)
    BY <1>0, <3>2 DEF IsClient, NothingNew
  <3> QED BY <2>2, <3>1, <3>3 DEF ForkActiveReplay
 <2>3. CASE ExitReplaySession
  <3>0. PICK y : y = ClearedStore(replay)
    OBVIOUS
  <3>1. y = [life |-> replay.life, view |-> Nothing, override |-> Nothing,
             connection |-> "idle", active |-> replay.active, overtaken |-> FALSE,
             unclosed |-> replay.unclosed]
    BY <1>0, <3>0 DEF IsClient, ClearedStore
  <3>2. PICK x : x = [y EXCEPT !.life = @ + 1, !.active = Nothing]
    OBVIOUS
  <3>3. x = [life |-> replay.life + 1, view |-> Nothing, override |-> Nothing,
             connection |-> "idle", active |-> Nothing, overtaken |-> FALSE,
             unclosed |-> replay.unclosed]
    BY <3>1, <3>2
  <3>4. NothingNew(replay, x)
    BY <3>3 DEF IsClient, NothingNew
  <3> QED BY <2>3, <3>0, <3>2, <3>4 DEF ExitReplaySession
 <2> QED BY <2>1, <2>2, <2>3
<1>5. ASSUME NEW t \in replayTasks' \ replayTasks
      PROVE  TaskIsRight(replayDb', replaySockets', t) /\ t.why \notin Handling /\ (t.why \in Creating => t.id = Nothing)
 <2>1. \/ t \in Closes(ShownId)
       \/ t = Asks("start", Nothing, replay.life + 1)
       \/ \E s : t = [Asks("fork", Nothing, replay.life + 1) EXCEPT !.parent = s]
   BY <1>5 DEF StartReplaySession, ForkActiveReplay, ExitReplaySession
 <2>2. CASE t \in Closes(ShownId)
  <3>1. t.why = "close"
    BY <2>2 DEF Closes, Close
  <3> QED BY <3>1 DEF TaskIsRight, Handling, Creating
 <2>3. CASE ~ t \in Closes(ShownId)
  <3>1. IsTask(t) /\ t.why \in Creating /\ t.id = Nothing /\ t.seq = 0
   <4>1. PICK w : w = Asks("fork", Nothing, replay.life + 1)
     OBVIOUS
   <4>2. IsTask(w) /\ w.why = "fork" /\ w.id = Nothing /\ w.seq = 0
     BY <4>1, AskedIs
   <4>3. ASSUME NEW s, NEW x, x = [w EXCEPT !.parent = s]
         PROVE  IsTask(x) /\ x.why = "fork" /\ x.id = Nothing /\ x.seq = 0
    <5>1. x = [why |-> w.why, id |-> w.id, life |-> w.life, at |-> w.at, seq |-> w.seq,
               status |-> w.status, bars |-> w.bars, parent |-> s]
      BY <4>2, <4>3 DEF IsTask
    <5> QED BY <4>2, <5>1 DEF IsTask
   <4>4. t = Asks("start", Nothing, replay.life + 1) => IsTask(t) /\ t.why = "start" /\ t.id = Nothing /\ t.seq = 0
     BY AskedIs
   <4> QED BY <2>1, <2>3, <4>1, <4>3, <4>4 DEF Creating
  <3>2. Nothing \notin DOMAIN replaySockets'
    BY <1>3, SomeIsNotNothing
  <3>3. t.why \notin Handling \union {"reconnect"}
    BY <3>1 DEF Handling, Creating
  <3> QED BY <3>1, <3>2, <3>3 DEF TaskIsRight, Handling
 <2> QED BY <2>2, <2>3
<1>6. replayTasks \subseteq replayTasks'
  BY DEF StartReplaySession, ForkActiveReplay, ExitReplaySession
<1> QED BY <1>1, <1>2, <1>4, <1>5, <1>6, ReplayGoesOn

LEMMA FailuresKeep ==
  ASSUME ReplayInv, \E t \in replayTasks, ok \in BOOLEAN : CreationFails(t, ok)
  PROVE  ReplayInv'
<1>0. IsClient(replay)
  BY DEF ReplayInv, KeepsUp
<1>1. PICK t \in replayTasks, ok \in BOOLEAN : CreationFails(t, ok)
  OBVIOUS
<1>2. /\ t.why \in Creating /\ replayDb' = replayDb /\ replaySockets' = replaySockets
      /\ replayTasks' \subseteq replayTasks /\ replayTasks \ replayTasks' \subseteq {t}
      /\ \/ replay' = replay
         \/ \E c : replay' = [replay EXCEPT !.connection = c]
         \/ replay' = [ClearedStore(replay) EXCEPT !.connection = "error"]
  BY <1>1 DEF CreationFails, Creating
<1>3. \A u \in replayTasks \ replayTasks' : u.why \notin Handling
  BY <1>2 DEF Handling, Creating
<1>4. replay' = [ClearedStore(replay) EXCEPT !.connection = "error"] => NothingNew(replay, replay')
 <2>1. PICK y : y = ClearedStore(replay)
   OBVIOUS
 <2>2. y = [life |-> replay.life, view |-> Nothing, override |-> Nothing,
            connection |-> "idle", active |-> replay.active, overtaken |-> FALSE, unclosed |-> replay.unclosed]
   BY <1>0, <2>1 DEF IsClient, ClearedStore
 <2>3. PICK x : x = [y EXCEPT !.connection = "error"]
   OBVIOUS
 <2>4. x = [life |-> replay.life, view |-> Nothing, override |-> Nothing,
            connection |-> "error", active |-> replay.active, overtaken |-> FALSE, unclosed |-> replay.unclosed]
   BY <2>2, <2>3
 <2>5. NothingNew(replay, x)
   BY <2>4 DEF IsClient, NothingNew
 <2> QED BY <2>1, <2>3, <2>5
<1>5. replay' = replay \/ NothingNew(replay, replay')
  BY <1>0, <1>2, <1>4, ConnectionSet
<1> QED BY <1>2, <1>3, <1>5, ClientMovesKeep

LEMMA LinesKeep ==
  ASSUME ReplayInv, NEW s \in DOMAIN replaySockets, LineCloses(s) \/ Reconnect(s)
  PROVE  ReplayInv'
<1>0. IsClient(replay) /\ AreSockets(replayDb, replaySockets) /\ IsSocket(replaySockets[s]) /\ s \in DOMAIN replayDb
      /\ AreLogs(replayDb)
  BY DEF ReplayInv, KeepsUp, AreSockets
<1>1. CASE LineCloses(s)
 <2>1. /\ replayDb' = replayDb /\ replayTasks' = replayTasks
       /\ replay' = [replay EXCEPT !.connection = "disconnected"]
       /\ replaySockets' = [replaySockets EXCEPT ![s].line = "closed", ![s].timer = TRUE]
   BY <1>1 DEF LineCloses
 <2>2. NothingNew(replay, replay')
   BY <1>0, <2>1, ConnectionSet
 <2>3. PICK now : now = [replaySockets EXCEPT ![s].line = "closed", ![s].timer = TRUE]
   OBVIOUS
 <2>4. DOMAIN now = DOMAIN replaySockets /\ \A y \in DOMAIN replaySockets \ {s} : now[y] = replaySockets[y]
   BY <2>3
 <2>5. now[s] = [stopped |-> replaySockets[s].stopped, line |-> "closed", heard |-> replaySockets[s].heard,
                 chain |-> replaySockets[s].chain, timer |-> TRUE]
   BY <1>0, <2>3 DEF IsSocket
 <2>6. NoneOpens(replaySockets, now)
   BY <1>0, <2>4, <2>5 DEF NoneOpens, AreSockets, IsSocket
 <2> QED BY <2>1, <2>2, <2>3, <2>6, ReplayGoesOn
<1>2. CASE Reconnect(s)
 <2>1. /\ replayDb' = replayDb /\ replay' = replay
       /\ replaySockets' = [replaySockets EXCEPT ![s].timer = FALSE]
       /\ replayTasks' = replayTasks \/ replayTasks' = replayTasks \union {Asks("reconnect", s, 0)}
   BY <1>2 DEF Reconnect
 <2>2. PICK now : now = [replaySockets EXCEPT ![s].timer = FALSE]
   OBVIOUS
 <2>3. DOMAIN now = DOMAIN replaySockets /\ \A y \in DOMAIN replaySockets \ {s} : now[y] = replaySockets[y]
   BY <2>2
 <2>4. now[s] = [stopped |-> replaySockets[s].stopped, line |-> replaySockets[s].line, heard |-> replaySockets[s].heard,
                 chain |-> replaySockets[s].chain, timer |-> FALSE]
   BY <1>0, <2>2 DEF IsSocket
 <2>5. NoneOpens(replaySockets, now)
   BY <1>0, <2>3, <2>4 DEF NoneOpens, AreSockets, IsSocket
 <2>6. PICK x : x = Asks("reconnect", s, 0)
   OBVIOUS
 <2>7. Len(replayDb[s].log) \in Nat
   BY <1>0 DEF AreLogs, IsRecord
 <2>8. TaskIsRight(replayDb, now, x) /\ x.why \notin Handling \union Creating
   BY <2>3, <2>6, <2>7, AskedIs DEF TaskIsRight, Handling, Creating
 <2> QED BY <2>1, <2>2, <2>5, <2>6, <2>8, ReplayGoesOn
<1> QED BY <1>1, <1>2

LEMMA ReconnectsKeep ==
  ASSUME ReplayInv, NEW t \in replayTasks, Reconnected(t) \/ ReconnectFails(t)
  PROVE  ReplayInv'
<1>0. IsClient(replay) /\ AreSockets(replayDb, replaySockets) /\ TaskIsRight(replayDb, replaySockets, t)
  BY DEF ReplayInv, KeepsUp
<1>1. t.why = "reconnect" /\ replayDb' = replayDb /\ replayTasks' = replayTasks \ {t}
  BY DEF Reconnected, ReconnectFails
<1>2. PICK s : s = t.id
  OBVIOUS
<1>3. /\ s \in DOMAIN replaySockets /\ s \in DOMAIN replayDb /\ IsSocket(replaySockets[s])
      /\ t.seq \in Nat /\ t.seq <= Len(replayDb[s].log)
  BY <1>0, <1>1, <1>2 DEF TaskIsRight, AreSockets
<1>4. \A u \in replayTasks \ replayTasks' : u.why \notin Handling
  BY <1>1 DEF Handling
<1>5. CASE Reconnected(t)
 <2>1. /\ replaySockets' = Opened(replaySockets, s)
       /\ \/ replay' = ReplaceSession(replay, t, t.bars)
          \/ replay' = [ReplaceSession(replay, t, t.bars) EXCEPT !.connection = "connected"]
   BY <1>2, <1>5 DEF Reconnected
 <2>2. NoneOpens(replaySockets, replaySockets') /\ replaySockets'[s].line # "open"
  <3>1. CASE replaySockets[s].stopped
    BY <1>0, <1>3, <2>1, <3>1 DEF Opened, NoneOpens, AreSockets, IsSocket
  <3>2. CASE ~ replaySockets[s].stopped
   <4>1. PICK now : now = [replaySockets EXCEPT ![s].line = "opening"]
     OBVIOUS
   <4>2. DOMAIN now = DOMAIN replaySockets /\ \A y \in DOMAIN replaySockets \ {s} : now[y] = replaySockets[y]
     BY <4>1
   <4>3. now[s] = [stopped |-> replaySockets[s].stopped, line |-> "opening", heard |-> replaySockets[s].heard,
                   chain |-> replaySockets[s].chain, timer |-> replaySockets[s].timer]
     BY <1>3, <4>1 DEF IsSocket
   <4>4. NoneOpens(replaySockets, now) /\ now[s].line # "open"
     BY <1>0, <3>2, <4>2, <4>3 DEF NoneOpens, AreSockets, IsSocket
   <4> QED BY <2>1, <3>2, <4>1, <4>4 DEF Opened
  <3> QED BY <3>1, <3>2
 <2>3. KeepsUp(replayDb', replay, replaySockets', replayTasks')
   BY <1>1, <1>4, <2>2, SocketsGoOn, TasksGoOn DEF ReplayInv
 <2>4. PICK r : r = ReplaceSession(replay, t, t.bars)
   OBVIOUS
 <2>5. /\ IsClient(r)
       /\ Stale(replay, t) => r = replay
       /\ ~ Stale(replay, t) => ~ r.overtaken /\ r.view.id = s /\ r.view.seq = t.seq
   BY <1>0, <1>2, <2>4, SessionReplaced
 <2>6. r.view # Nothing => r.view.id = s
   BY <1>2, <2>5 DEF Stale, Showing
 <2>7. NothingNew(replay, r) \/ (r.view.seq \in Nat /\ r.view.seq <= Len(replayDb[s].log))
   BY <1>0, <1>3, <2>5 DEF NothingNew
 <2>8. KeepsUp(replayDb', r, replaySockets', replayTasks')
   BY <1>1, <1>3, <2>2, <2>3, <2>5, <2>6, <2>7, ShownAnew
 <2>9. replay' = r \/ NothingNew(r, replay')
   BY <2>1, <2>4, <2>5, ConnectionSet
 <2> QED BY <2>8, <2>9, ClientGoesOn DEF ReplayInv
<1>6. CASE ReconnectFails(t)
 <2>1. /\ replay' = [replay EXCEPT !.connection = "error"]
       /\ replaySockets' = [replaySockets EXCEPT ![s].timer = TRUE]
   BY <1>2, <1>6 DEF ReconnectFails
 <2>2. PICK now : now = [replaySockets EXCEPT ![s].timer = TRUE]
   OBVIOUS
 <2>3. DOMAIN now = DOMAIN replaySockets /\ \A y \in DOMAIN replaySockets \ {s} : now[y] = replaySockets[y]
   BY <2>2
 <2>4. now[s] = [stopped |-> replaySockets[s].stopped, line |-> replaySockets[s].line, heard |-> replaySockets[s].heard,
                 chain |-> replaySockets[s].chain, timer |-> TRUE]
   BY <1>3, <2>2 DEF IsSocket
 <2>5. NoneOpens(replaySockets, now)
   BY <1>0, <1>3, <2>3, <2>4 DEF NoneOpens, AreSockets, IsSocket
 <2>6. NothingNew(replay, replay')
   BY <1>0, <2>1, ConnectionSet
 <2> QED BY <1>1, <1>4, <2>1, <2>2, <2>5, <2>6, ReplayGoesOn
<1> QED BY <1>5, <1>6

(* A session that was created is nobody's yet.                              *)
LEMMA CreationKeeps ==
  ASSUME ReplayInv, NEW t \in replayTasks, Created(t)
  PROVE  ReplayInv'
<1> DEFINE s == Cardinality(DOMAIN replayDb) + 1
<1>1. /\ t.why \in Creating /\ t.id = Nothing
      /\ replayDb' = Put(replayDb, s, [open |-> TRUE, log |-> <<>>])
      /\ replayTasks' = Swap(t, {[t EXCEPT !.id = s, !.at = "ready"]})
      /\ replay' = replay /\ replaySockets' = replaySockets
  BY DEF Created, Creating
<1>2. /\ AreLogs(replayDb) /\ AreSockets(replayDb, replaySockets) /\ IsClient(replay)
      /\ OneAtATime(replayTasks) /\ ViewIsRight(replayDb, replay, replaySockets, replayTasks)
      /\ \A u \in replayTasks : TaskIsRight(replayDb, replaySockets, u)
  BY DEF ReplayInv, KeepsUp
<1>3. PICK n \in Nat : DOMAIN replayDb = 1..n
  BY <1>2 DEF AreLogs
<1>4. Cardinality(1..n) = n
  BY FS_Interval
<1>5. s = n + 1 /\ s \notin DOMAIN replayDb /\ s \in Nat /\ s # Nothing
  BY <1>3, <1>4, NothingIsNoNumber
<1> HIDE DEF s
<1>6. PICK more : more = Put(replayDb, s, [open |-> TRUE, log |-> <<>>])
  OBVIOUS
<1>7. /\ DOMAIN more = DOMAIN replayDb \union {s}
      /\ more[s] = [open |-> TRUE, log |-> <<>>]
      /\ \A x \in DOMAIN replayDb : more[x] = replayDb[x]
  BY <1>5, <1>6 DEF Put
<1>8. AreLogs(more)
 <2>1. DOMAIN more = 1..(n + 1) /\ n + 1 \in Nat
   BY <1>3, <1>5, <1>7
 <2>2. IsRecord(more[s])
   BY <1>7 DEF IsRecord
 <2> QED BY <1>2, <1>7, <2>1, <2>2 DEF AreLogs
<1>9. AreSockets(more, replaySockets)
  BY <1>2, <1>7 DEF AreSockets
<1>10. \A u \in replayTasks : TaskIsRight(more, replaySockets, u)
 <2> SUFFICES ASSUME NEW u \in replayTasks PROVE TaskIsRight(more, replaySockets, u)
   OBVIOUS
 <2>1. TaskIsRight(replayDb, replaySockets, u)
   BY <1>2
 <2>2. u.id \in DOMAIN replaySockets => more[u.id] = replayDb[u.id]
   BY <1>2, <1>7 DEF AreSockets
 <2> QED BY <1>7, <2>1, <2>2 DEF TaskIsRight, Handling
<1>11. PICK x : x = [t EXCEPT !.id = s, !.at = "ready"]
  OBVIOUS
<1>12. IsTask(t) /\ t.seq = 0
  BY <1>1, <1>2 DEF TaskIsRight, Creating
<1>13. x = [why |-> t.why, id |-> s, life |-> t.life, at |-> "ready", seq |-> t.seq,
            status |-> t.status, bars |-> t.bars, parent |-> t.parent]
  BY <1>11, <1>12 DEF IsTask
<1>14. IsTask(x) /\ x.why = t.why /\ x.id = s /\ x.seq = 0
  BY <1>12, <1>13 DEF IsTask
<1>15. TaskIsRight(more, replaySockets, x)
 <2>1. s \notin DOMAIN replaySockets
   BY <1>2, <1>5 DEF AreSockets
 <2> QED BY <1>1, <1>7, <1>14, <2>1 DEF TaskIsRight, Handling, Creating
<1>16. replayTasks' = (replayTasks \ {t}) \union {x}
  BY <1>1, <1>11 DEF Swap
<1>17. \A u \in replayTasks : u.why \in Creating \union Handling => u.id # s
  BY <1>2, <1>5 DEF TaskIsRight, AreSockets, Creating, Handling
<1>18. OneAtATime(replayTasks')
 <2> SUFFICES ASSUME NEW u \in replayTasks', NEW w \in replayTasks', u.id = w.id, u.id # Nothing,
                     (u.why \in Handling /\ w.why \in Handling) \/ (u.why \in Creating /\ w.why \in Creating)
              PROVE  u = w
   BY DEF OneAtATime
 <2>1. CASE u \in replayTasks /\ w \in replayTasks
   BY <1>2, <2>1 DEF OneAtATime
 <2>2. CASE u = x \/ w = x
   BY <1>14, <1>16, <1>17, <2>2
 <2> QED BY <1>16, <2>1, <2>2
<1>19. ViewIsRight(more, replay, replaySockets, replayTasks')
 <2> SUFFICES ASSUME replay.view # Nothing, ~ replay.overtaken
              PROVE  /\ replay.view.id \in DOMAIN more /\ replay.view.seq \in Nat
                     /\ replay.view.seq <= Len(more[replay.view.id].log)
                     /\ replay.view.id \in DOMAIN replaySockets /\ replaySockets[replay.view.id].line = "open"
                          => ViewFits(more, replay.view, replayTasks')
   BY DEF ViewIsRight
 <2>1. /\ replay.view.id \in DOMAIN replayDb /\ replay.view.seq \in Nat
       /\ replay.view.seq <= Len(replayDb[replay.view.id].log)
       /\ replay.view.id \in DOMAIN replaySockets /\ replaySockets[replay.view.id].line = "open"
            => ViewFits(replayDb, replay.view, replayTasks)
   BY <1>2 DEF ViewIsRight
 <2>2. more[replay.view.id] = replayDb[replay.view.id]
   BY <1>7, <2>1
 <2>3. t.why \notin {"refresh", "hydrate"} /\ x.why \notin {"refresh", "hydrate"}
   BY <1>1, <1>14 DEF Creating
 <2>4. ViewFits(replayDb, replay.view, replayTasks) => ViewFits(more, replay.view, replayTasks')
   BY <1>16, <2>2, <2>3 DEF ViewFits
 <2> QED BY <1>7, <2>1, <2>2, <2>4
<1>20. KeepsUp(more, replay, replaySockets, replayTasks')
  BY <1>2, <1>8, <1>9, <1>10, <1>15, <1>16, <1>18, <1>19 DEF KeepsUp
<1> QED BY <1>1, <1>6, <1>20 DEF ReplayInv

LEMMA ActivationKeeps ==
  ASSUME ReplayInv, NEW t \in replayTasks, Activated(t)
  PROVE  ReplayInv'
<1>0. /\ AreLogs(replayDb) /\ AreSockets(replayDb, replaySockets) /\ IsClient(replay)
      /\ OneAtATime(replayTasks) /\ TaskIsRight(replayDb, replaySockets, t)
  BY DEF ReplayInv, KeepsUp
<1>1. t.why \in Creating /\ t.id # Nothing /\ replayDb' = replayDb
  BY DEF Activated, Creating
<1>2. PICK s : s = t.id
  OBVIOUS
<1>3. s \in DOMAIN replayDb /\ s \notin DOMAIN replaySockets /\ t.seq = 0
  BY <1>0, <1>1, <1>2 DEF TaskIsRight, Creating
<1>4. /\ \A u \in replayTasks' \ replayTasks : u.why = "close"
      /\ replayTasks \ replayTasks' \subseteq {t}
      /\ t \notin replayTasks'
 <2>1. replayTasks' = (replayTasks \ {t}) \union (Close(t.id) \union Closes(t.parent))
       \/ replayTasks' = (replayTasks \ {t}) \union Closes(t.parent)
   BY DEF Activated, Swap
 <2>2. \A u \in Close(t.id) \union Closes(t.parent) : u.why = "close"
   BY DEF Close, Closes
 <2>3. t.why # "close"
   BY <1>1 DEF Creating
 <2> QED BY <2>1, <2>2, <2>3
<1>5. \A u \in replayTasks' \ replayTasks :
        /\ TaskIsRight(replayDb, replaySockets, u) /\ u.why \notin Handling
        /\ u.why \in Creating => u.id = Nothing
  BY <1>4 DEF TaskIsRight, Handling, Creating
<1>6. \A u \in replayTasks \ replayTasks' : u.why \notin Handling
  BY <1>1, <1>4 DEF Handling, Creating
<1>7. CASE ~ IsCurrent(t.life)
 <2>1. replay' = replay /\ replaySockets' = replaySockets
   BY <1>7 DEF Activated
 <2> QED BY <1>1, <1>5, <1>6, <2>1, ReplayGoesOn
<1>8. CASE IsCurrent(t.life)
 <2>1. /\ replay' = [ReplaceSession(replay, t, t.bars) EXCEPT !.active = t.id, !.connection = "connected"]
       /\ replaySockets' = Opened(Put(Stopped(replaySockets, replay.active), s, NewSocket), s)
   BY <1>2, <1>8 DEF Activated
 <2>2. PICK S : S = Stopped(replaySockets, replay.active)
   OBVIOUS
 <2>3. NoneOpens(replaySockets, S) /\ AreSockets(replayDb, S)
   BY <1>0, <2>2, StoppedIs
 <2>4. DOMAIN S = DOMAIN replaySockets
   BY <2>3 DEF NoneOpens
 <2>5. \A u \in replayTasks' \ replayTasks : TaskIsRight(replayDb, S, u)
   BY <1>4 DEF TaskIsRight
 <2>6. KeepsUp(replayDb, replay, S, replayTasks')
  <3>1. KeepsUp(replayDb, replay, S, replayTasks)
    BY <2>3, SocketsGoOn DEF ReplayInv
  <3> QED BY <1>5, <1>6, <2>5, <3>1, TasksGoOn
 <2>7. PICK put : put = Put(S, s, NewSocket)
   OBVIOUS
 <2>8. /\ DOMAIN put = DOMAIN S \union {s} /\ put[s] = NewSocket
       /\ \A x \in DOMAIN S \ {s} : put[x] = S[x]
   BY <2>7 DEF Put
 <2>9. PICK now : now = [put EXCEPT ![s].line = "opening"]
   OBVIOUS
 <2>10. NewSocket = [stopped |-> FALSE, line |-> "closed", heard |-> 0, chain |-> FALSE, timer |-> FALSE]
   BY DEF NewSocket
 <2>11. replaySockets' = now
  <3>1. ~ put[s].stopped
    BY <2>8, <2>10
  <3> QED BY <2>1, <2>2, <2>7, <2>9, <3>1 DEF Opened
 <2>12. /\ DOMAIN now = DOMAIN S \union {s} /\ \A x \in DOMAIN S : now[x] = S[x]
        /\ now[s] = [stopped |-> FALSE, line |-> "opening", heard |-> 0, chain |-> FALSE, timer |-> FALSE]
  <3>0. PICK old : old = put[s]
    OBVIOUS
  <3>1. PICK socket : socket = [old EXCEPT !.line = "opening"]
    OBVIOUS
  <3>2. socket = [stopped |-> FALSE, line |-> "opening", heard |-> 0, chain |-> FALSE, timer |-> FALSE]
   <4>1. old = [stopped |-> FALSE, line |-> "closed", heard |-> 0, chain |-> FALSE, timer |-> FALSE]
     BY <2>8, <2>10, <3>0
   <4> QED BY <3>1, <4>1
  <3>3. now = [put EXCEPT ![s] = socket]
    BY <2>9, <3>0, <3>1
  <3>4. s \in DOMAIN put /\ s \notin DOMAIN S
    BY <1>3, <2>4, <2>8
  <3>5. DOMAIN now = DOMAIN put /\ now[s] = socket /\ \A x \in DOMAIN put \ {s} : now[x] = put[x]
    BY <3>3, <3>4
  <3> QED BY <2>8, <3>2, <3>4, <3>5
 <2>13. IsSocket(now[s]) /\ now[s].line # "open"
   BY <2>12 DEF IsSocket
 <2>14. AreSockets(replayDb, now)
   BY <1>3, <2>3, <2>12, <2>13 DEF AreSockets
 <2>15. ASSUME NEW u \in replayTasks' PROVE TaskIsRight(replayDb, now, u)
  <3>1. TaskIsRight(replayDb, S, u)
    BY <2>6 DEF KeepsUp
  <3>2. u.why \in Creating => u.id # s
   <4>1. SUFFICES ASSUME u.why \in Creating, u.id = s PROVE FALSE
     OBVIOUS
   <4>2. u \in replayTasks
     BY <1>4, <4>1 DEF Creating
   <4>3. u = t
     BY <1>0, <1>1, <1>2, <4>1, <4>2 DEF OneAtATime
   <4> QED BY <1>4, <4>3
  <3> QED BY <2>12, <3>1, <3>2 DEF TaskIsRight, Handling, Creating
 <2>16. ViewIsRight(replayDb, replay, now, replayTasks')
  <3>1. ViewIsRight(replayDb, replay, S, replayTasks')
    BY <2>6 DEF KeepsUp
  <3> QED BY <2>12, <2>13, <3>1 DEF ViewIsRight
 <2>17. KeepsUp(replayDb, replay, now, replayTasks')
   BY <2>6, <2>14, <2>15, <2>16 DEF KeepsUp
 <2>18. PICK r : r = ReplaceSession(replay, t, t.bars)
   OBVIOUS
 <2>19. /\ IsClient(r)
        /\ Stale(replay, t) => r = replay
        /\ ~ Stale(replay, t) => ~ r.overtaken /\ r.view.id = s /\ r.view.seq = t.seq
   BY <1>0, <1>2, <2>18, SessionReplaced
 <2>20. r.view # Nothing => r.view.id = s
   BY <1>2, <2>19 DEF Stale, Showing
 <2>21. NothingNew(replay, r) \/ (r.view.seq \in Nat /\ r.view.seq <= Len(replayDb[s].log))
  <3>1. Len(replayDb[s].log) \in Nat
    BY <1>0, <1>3 DEF AreLogs, IsRecord
  <3> QED BY <1>0, <1>3, <2>19, <3>1 DEF NothingNew
 <2>22. KeepsUp(replayDb, r, now, replayTasks')
   BY <1>3, <2>13, <2>17, <2>19, <2>20, <2>21, ShownAnew
 <2>23. PICK x : x = [r EXCEPT !.active = t.id, !.connection = "connected"]
   OBVIOUS
 <2>24. x = [life |-> r.life, view |-> r.view, override |-> r.override, connection |-> "connected",
             active |-> t.id, overtaken |-> r.overtaken, unclosed |-> r.unclosed]
   BY <2>19, <2>23 DEF IsClient
 <2>25. NothingNew(r, x)
   BY <2>19, <2>24 DEF IsClient, NothingNew
 <2>26. KeepsUp(replayDb, x, now, replayTasks')
   BY <2>22, <2>25, ClientGoesOn
 <2> QED BY <1>1, <2>1, <2>11, <2>18, <2>23, <2>26 DEF ReplayInv
<1> QED BY <1>7, <1>8

(* A projection is prepared: for the handler of a socket, for a line that   *)
(* is to be opened again, or after an answer.                               *)
LEMMA PreparationKeeps ==
  ASSUME ReplayInv, NEW t \in replayTasks, SnapshotArrives(t) \/ BarsArrive(t)
  PROVE  ReplayInv'
<1>0. /\ AreLogs(replayDb) /\ AreSockets(replayDb, replaySockets) /\ IsClient(replay)
      /\ TaskIsRight(replayDb, replaySockets, t)
      /\ ViewIsRight(replayDb, replay, replaySockets, replayTasks)
  BY DEF ReplayInv, KeepsUp
<1>1. /\ t.why \in {"reconnect", "refresh", "hydrate", "answer"}
      /\ replayDb' = replayDb /\ replay' = replay /\ replaySockets' = replaySockets
  BY DEF SnapshotArrives, BarsArrive, IsPrepared
<1>2. PICK s : s = t.id
  OBVIOUS
<1>3. IsTask(t)
  BY <1>0, <1>1 DEF TaskIsRight
<1>4. \E x : /\ replayTasks' = (replayTasks \ {t}) \union {x}
             /\ IsTask(x) /\ x.why = t.why /\ x.id = s
             /\ \/ t.at = "asks" /\ x.at = "bars" /\ x.seq = LastSeq(s)
                \/ t.at = "bars" /\ x.at = "ready" /\ x.seq = t.seq /\ x.bars = BarsAt(LogOf(s), LastSeq(s))
 <2>1. CASE SnapshotArrives(t)
  <3>1. PICK x : x = Prepares(t.why, t.id, t.life)
    OBVIOUS
  <3>2. replayTasks' = (replayTasks \ {t}) \union {x} /\ t.at = "asks"
    BY <2>1, <3>1 DEF SnapshotArrives, Swap
  <3> QED BY <1>2, <3>1, <3>2, PreparedIs
 <2>2. CASE BarsArrive(t)
  <3> DEFINE all == BarsAt(LogOf(t.id), LastSeq(t.id))
  <3>1. PICK x : x = [t EXCEPT !.at = "ready", !.bars = all]
    OBVIOUS
  <3>2. replayTasks' = (replayTasks \ {t}) \union {x} /\ t.at = "bars"
    BY <2>2, <3>1 DEF BarsArrive, Swap
  <3> HIDE DEF all
  <3>3. x = [why |-> t.why, id |-> t.id, life |-> t.life, at |-> "ready", seq |-> t.seq,
             status |-> t.status, bars |-> all, parent |-> t.parent]
    BY <1>3, <3>1 DEF IsTask
  <3>4. IsTask(x) /\ x.why = t.why /\ x.id = t.id /\ x.at = "ready" /\ x.seq = t.seq /\ x.bars = all
    BY <3>3 DEF IsTask
  <3> QED BY <1>2, <3>2, <3>4 DEF all
 <2> QED BY <2>1, <2>2
<1>5. PICK x : /\ replayTasks' = (replayTasks \ {t}) \union {x}
               /\ IsTask(x) /\ x.why = t.why /\ x.id = s
               /\ \/ t.at = "asks" /\ x.at = "bars" /\ x.seq = LastSeq(s)
                  \/ t.at = "bars" /\ x.at = "ready" /\ x.seq = t.seq /\ x.bars = BarsAt(LogOf(s), LastSeq(s))
  BY <1>4
<1>6. CASE t.why = "answer"
 <2>1. TaskIsRight(replayDb, replaySockets, x)
   BY <1>5, <1>6 DEF TaskIsRight, Handling, Creating
 <2>2. t.why \notin Handling \union Creating
   BY <1>6 DEF Handling, Creating
 <2>3. \A u \in replayTasks' \ replayTasks : u = x
   BY <1>5
 <2>4. \A u \in replayTasks \ replayTasks' : u = t
   BY <1>5
 <2> QED BY <1>1, <1>5, <2>1, <2>2, <2>3, <2>4, ReplayGoesOn
<1>7. CASE t.why # "answer"
 <2>0. t.why \in Handling \union {"reconnect"}
   BY <1>1, <1>7 DEF Handling
 <2>1. s \in DOMAIN replaySockets /\ s \in DOMAIN replayDb /\ t.seq \in Nat /\ t.seq <= Len(replayDb[s].log)
   BY <1>0, <1>1, <1>2, <2>0 DEF TaskIsRight, AreSockets, Handling
 <2>2. PICK log : log = replayDb[s].log
   OBVIOUS
 <2>3. log \in Seq(EventKind) /\ Len(log) \in Nat
   BY <1>0, <2>1, <2>2 DEF AreLogs, IsRecord
 <2>4. LogOf(s) = log /\ LastSeq(s) = Len(log)
   BY <2>2 DEF LogOf, LastSeq
 <2>5. x.seq \in Nat /\ x.seq <= Len(log)
   BY <1>5, <2>1, <2>2, <2>3, <2>4
 <2>6. \A n \in Nat : n <= Len(log) => Fit(BarsAt(log, Len(log)), log, n)
   BY <2>3, FitSoFar
 <2>7. TaskIsRight(replayDb, replaySockets, x)
  <3>1. t.why \in Handling => replaySockets[s].chain
    BY <1>0, <1>2 DEF TaskIsRight, Handling
  <3>2. x.why \notin Creating
    BY <1>5, <2>0 DEF Creating, Handling
  <3>3. x.at \in {"bars", "ready"} /\ (x.at = "ready" => Fit(x.bars, log, x.seq))
    BY <1>5, <2>1, <2>2, <2>4, <2>6
  <3> QED BY <1>5, <2>0, <2>1, <2>2, <2>5, <3>1, <3>2, <3>3 DEF TaskIsRight
 <2>8. CASE t.why = "reconnect"
  <3>1. t.why \notin Handling \union Creating
    BY <2>8 DEF Handling, Creating
  <3>2. \A u \in replayTasks' \ replayTasks : u = x
    BY <1>5
  <3>3. \A u \in replayTasks \ replayTasks' : u = t
    BY <1>5
  <3> QED BY <1>1, <1>5, <2>7, <3>1, <3>2, <3>3, ReplayGoesOn
 <2>9. CASE t.why \in Handling
  <3>1. {u \in replayTasks : u.id = s /\ u.why \in Handling} = {t}
    BY <1>2, <2>9, HandlerIsOne DEF ReplayInv
  <3>2. replayTasks' = (replayTasks \ {u \in replayTasks : u.id = s /\ u.why \in Handling}) \union {x}
    BY <1>5, <3>1
  <3>3. ASSUME replay.view # Nothing, ~ replay.overtaken, replay.view.id = s
        PROVE  /\ replay.view.seq \in Nat /\ replay.view.seq <= Len(replayDb[s].log)
               /\ replaySockets[s].line = "open" => ViewFits(replayDb, replay.view, {x})
   <4>1. /\ replay.view.seq \in Nat /\ replay.view.seq <= Len(log)
         /\ replaySockets[s].line = "open" => ViewFits(replayDb, replay.view, replayTasks)
     BY <1>0, <2>1, <2>2, <3>3 DEF ViewIsRight
   <4>2. ASSUME ViewFits(replayDb, replay.view, replayTasks) PROVE ViewFits(replayDb, replay.view, {x})
    <5>1. x.why \in {"refresh", "hydrate"}
      BY <1>1, <1>5, <2>9 DEF Handling
    <5>2. x.why = "refresh" => replay.view.seq <= x.seq
     <6>1. CASE x.at = "bars" /\ x.seq = LastSeq(s)
       BY <2>4, <4>1, <6>1
     <6>2. CASE t.at = "bars" /\ x.at = "ready" /\ x.seq = t.seq
       BY <1>2, <1>5, <3>3, <4>2, <6>2 DEF ViewFits
     <6> QED BY <1>5, <6>1, <6>2
    <5>3. x.why = "hydrate" /\ x.at = "ready" => Fit(x.bars, replayDb[s].log, replay.view.seq)
      BY <1>5, <2>2, <2>4, <2>6, <4>1
    <5> QED BY <1>5, <3>3, <5>1, <5>2, <5>3 DEF ViewFits
   <4> QED BY <2>2, <4>1, <4>2
  <3>4. PICK next : next = {x}
    OBVIOUS
  <3>5. HandsOver(replayDb, replay, replaySockets, replayTasks, s, next, replay, replaySockets, replayTasks')
   <4>1. /\ \A y \in next : TaskIsRight(replayDb, replaySockets, y) /\ y.id = s /\ y.why \in Handling
         /\ \A y, z \in next : y = z
     BY <1>5, <2>7, <2>9, <3>4
   <4>2. IsSocket(replaySockets[s])
     BY <1>0, <2>1 DEF AreSockets
   <4>3. replayTasks' = (replayTasks \ {y \in replayTasks : y.id = s /\ y.why \in Handling}) \union next
     BY <3>2, <3>4
   <4> QED BY <1>0, <2>1, <3>3, <3>4, <4>1, <4>2, <4>3 DEF HandsOver
  <3>6. KeepsUp(replayDb, replay, replaySockets, replayTasks')
    BY <3>5, MessageHandled DEF ReplayInv
  <3> QED BY <1>1, <3>6 DEF ReplayInv
 <2> QED BY <2>0, <2>8, <2>9
<1> QED BY <1>6, <1>7

(* The first message of a line.                                             *)
LEMMA SnapshotMessageKeeps ==
  ASSUME ReplayInv, NEW s \in DOMAIN replaySockets, SnapshotMessage(s)
  PROVE  ReplayInv'
<1>0. /\ AreLogs(replayDb) /\ AreSockets(replayDb, replaySockets) /\ IsClient(replay)
      /\ IsSocket(replaySockets[s]) /\ s \in DOMAIN replayDb
      /\ ViewIsRight(replayDb, replay, replaySockets, replayTasks)
  BY DEF ReplayInv, KeepsUp, AreSockets
<1>1. /\ ~ replaySockets[s].chain /\ ~ replaySockets[s].stopped /\ replayDb' = replayDb
      /\ replay' = [replay EXCEPT !.connection = "connected"]
      /\ replaySockets' = [replaySockets EXCEPT ![s].line = "open", ![s].heard = LastSeq(s), ![s].chain = TRUE]
      /\ replayTasks' = replayTasks \union {Prepares("refresh", s, 0)}
  BY <1>0 DEF SnapshotMessage, IsSocket
<1>2. PICK x : x = Prepares("refresh", s, 0)
  OBVIOUS
<1>3. IsTask(x) /\ x.why = "refresh" /\ x.id = s /\ x.at = "bars" /\ x.seq = LastSeq(s)
  BY <1>2, PreparedIs
<1>4. PICK now : now = [replaySockets EXCEPT ![s].line = "open", ![s].heard = LastSeq(s), ![s].chain = TRUE]
  OBVIOUS
<1>5. DOMAIN now = DOMAIN replaySockets /\ \A y \in DOMAIN replaySockets \ {s} : now[y] = replaySockets[y]
  BY <1>4
<1>6. now[s] = [stopped |-> replaySockets[s].stopped, line |-> "open", heard |-> LastSeq(s),
                chain |-> TRUE, timer |-> replaySockets[s].timer]
  BY <1>0, <1>4 DEF IsSocket
<1>7. IsSocket(now[s]) /\ now[s].chain
  BY <1>1, <1>6 DEF IsSocket
<1>8. LastSeq(s) = Len(replayDb[s].log) /\ Len(replayDb[s].log) \in Nat
  BY <1>0 DEF LastSeq, LogOf, AreLogs, IsRecord
<1>9. TaskIsRight(replayDb, now, x) /\ x.why \in Handling
  BY <1>3, <1>5, <1>7, <1>8 DEF TaskIsRight, Handling, Creating
<1>10. PICK next : next = {x}
  OBVIOUS
<1>11. PICK seen : seen = [replay EXCEPT !.connection = "connected"]
  OBVIOUS
<1>12. IsClient(seen) /\ seen.view = replay.view /\ seen.overtaken = replay.overtaken
  BY <1>0, <1>11, ConnectionSet
<1>13. {u \in replayTasks : u.id = s /\ u.why \in Handling} = {}
  BY <1>1, HandlerIsNone DEF ReplayInv
<1>14. replayTasks' = (replayTasks \ {u \in replayTasks : u.id = s /\ u.why \in Handling}) \union next
  BY <1>1, <1>2, <1>10, <1>13
<1>15. ASSUME replay.view # Nothing, ~ replay.overtaken, replay.view.id = s
       PROVE  /\ replay.view.seq \in Nat /\ replay.view.seq <= Len(replayDb[s].log)
              /\ ViewFits(replayDb, replay.view, next)
 <2>1. replay.view.seq \in Nat /\ replay.view.seq <= Len(replayDb[s].log)
   BY <1>0, <1>15 DEF ViewIsRight
 <2> QED BY <1>3, <1>8, <1>10, <1>15, <2>1 DEF ViewFits
<1>16. HandsOver(replayDb, replay, replaySockets, replayTasks, s, next, seen, now, replayTasks')
 <2>1. /\ \A t \in next : TaskIsRight(replayDb, now, t) /\ t.id = s /\ t.why \in Handling
       /\ \A t, u \in next : t = u
   BY <1>3, <1>9, <1>10
 <2> QED BY <1>5, <1>7, <1>12, <1>14, <1>15, <2>1 DEF HandsOver
<1>17. KeepsUp(replayDb, seen, now, replayTasks')
  BY <1>16, MessageHandled DEF ReplayInv
<1> QED BY <1>1, <1>4, <1>11, <1>17 DEF ReplayInv

LEMMA EventIsApplied ==
  ASSUME NEW r, IsClient(r), NEW s, NEW n, NEW x, x = EventApplied(r, s, n)
  PROVE  /\ IsClient(x) /\ x.overtaken = r.overtaken
         /\ EventResult(r, s, n) # "applied" => x = r
         /\ EventResult(r, s, n) = "applied" =>
              /\ Showing(r, s) /\ x.view.id = s /\ x.view.seq = n
              /\ x.view.bars = IF LogOf(s)[n] = "bar" THEN r.view.bars \union {n} ELSE r.view.bars
<1>1. CASE EventResult(r, s, n) # "applied"
  BY <1>1 DEF EventApplied
<1>2. CASE EventResult(r, s, n) = "applied"
 <2>1. Showing(r, s)
   BY <1>2 DEF EventResult
 <2>2. IsView(r.view) /\ r.view.id = s
   BY <2>1 DEF Showing, IsClient
 <2> DEFINE kind == LogOf(s)[n]
            bars == IF kind = "bar" THEN r.view.bars \union {n} ELSE r.view.bars
 <2>3. PICK v : v = [id |-> r.view.id, seq |-> n, status |-> r.view.status, bars |-> bars]
   OBVIOUS
 <2>4. IsView(v) /\ v.id = s /\ v.seq = n /\ v.bars = bars
   BY <2>2, <2>3 DEF IsView
 <2> HIDE DEF bars, kind
 <2>5. PICK next : next = [r EXCEPT !.view.seq = n, !.view.bars = bars]
   OBVIOUS
 <2>6. next = [life |-> r.life, view |-> v, override |-> r.override, connection |-> r.connection,
               active |-> r.active, overtaken |-> r.overtaken, unclosed |-> r.unclosed]
  <3>1. PICK w : w = r.view
    OBVIOUS
  <3>2. PICK w1 : w1 = [w EXCEPT !.seq = n]
    OBVIOUS
  <3>3. w1 = [id |-> w.id, seq |-> n, status |-> w.status, bars |-> w.bars]
    BY <2>2, <3>1, <3>2 DEF IsView
  <3>4. PICK w2 : w2 = [w1 EXCEPT !.bars = bars]
    OBVIOUS
  <3>5. w2 = v
    BY <2>3, <3>1, <3>3, <3>4
  <3>6. PICK r1 : r1 = [r EXCEPT !.view = w1]
    OBVIOUS
  <3>7. r1 = [life |-> r.life, view |-> w1, override |-> r.override, connection |-> r.connection,
              active |-> r.active, overtaken |-> r.overtaken, unclosed |-> r.unclosed]
    BY <3>6 DEF IsClient
  <3>8. next = [r1 EXCEPT !.view = w2]
    BY <2>5, <3>1, <3>2, <3>4, <3>6, <3>7
  <3> QED BY <3>5, <3>7, <3>8
 <2>7. IsClient(next) /\ next.view = v /\ next.overtaken = r.overtaken
   BY <2>4, <2>6 DEF IsClient
 <2>8. CASE kind \in {"playing", "paused"}
  <3>1. PICK u : u = [v EXCEPT !.status = kind]
    OBVIOUS
  <3>2. u = [id |-> v.id, seq |-> v.seq, status |-> kind, bars |-> v.bars]
    BY <2>4, <3>1 DEF IsView
  <3>3. IsView(u) /\ u.id = s /\ u.seq = n /\ u.bars = bars
    BY <2>4, <3>2 DEF IsView
  <3>4. x = Overridden(next, u)
    BY <1>2, <2>5, <2>7, <2>8, <3>1 DEF EventApplied, kind, bars
  <3> QED BY <1>2, <2>1, <2>7, <3>3, <3>4, StatusOverridden DEF bars, kind
 <2>9. CASE kind \notin {"playing", "paused"}
  <3>1. x = next
    BY <1>2, <2>5, <2>9 DEF EventApplied, kind, bars
  <3> QED BY <1>2, <2>1, <2>4, <2>7, <3>1 DEF bars, kind
 <2> QED BY <2>8, <2>9
<1> QED BY <1>1, <1>2

(* What a socket's handler is told or asks for, of a session that is shown. *)
LEMMA ShownFits ==
  ASSUME ReplayInv, replay.view # Nothing, ~ replay.overtaken, replay.view.id \in DOMAIN replaySockets
  PROVE  LET s == replay.view.id
         IN  /\ replay.view.seq \in Nat /\ replay.view.seq <= Len(replayDb[s].log)
             /\ replaySockets[s].line = "open" => ViewFits(replayDb, replay.view, replayTasks)
BY DEF ReplayInv, KeepsUp, ViewIsRight
LEMMA LogIs ==
  ASSUME ReplayInv, NEW s \in DOMAIN replaySockets
  PROVE  /\ LogOf(s) = replayDb[s].log /\ LastSeq(s) = Len(replayDb[s].log)
         /\ replayDb[s].log \in Seq(EventKind) /\ Len(replayDb[s].log) \in Nat
         /\ s \in DOMAIN replayDb /\ s # Nothing /\ IsSocket(replaySockets[s])
BY NothingIsNoNumber DEF ReplayInv, KeepsUp, AreSockets, AreLogs, IsRecord, LogOf, LastSeq

LEMMA EventKeeps ==
  ASSUME ReplayInv, NEW s \in DOMAIN replaySockets, NEW n \in 1..MaxEvents, EventArrives(s, n)
  PROVE  ReplayInv'
<1> DEFINE result == EventResult(replay, s, n)
           kind == LogOf(s)[n]
<1>0. IsClient(replay)
  BY DEF ReplayInv, KeepsUp
<1>a. PICK log : log = replayDb[s].log
  OBVIOUS
<1>b. /\ LogOf(s) = log /\ LastSeq(s) = Len(log) /\ log \in Seq(EventKind) /\ Len(log) \in Nat
      /\ s \in DOMAIN replayDb /\ IsSocket(replaySockets[s])
  BY <1>a, LogIs
<1>1. PICK next : next = CASE result = "gap" -> {[Asks("recover", s, 0) EXCEPT !.seq = replay.view.seq]}
                            [] result = "applied" /\ kind = "reset" -> {HydratesTrack(s)}
                            [] result = "applied" /\ kind = "trade" -> {Asks("refresh", s, 0)}
                            [] OTHER -> {}
  OBVIOUS
<1>2. /\ replaySockets[s].line = "open" /\ ~ replaySockets[s].chain /\ n <= LastSeq(s)
      /\ replay' = [EventApplied(replay, s, n) EXCEPT
                       !.connection = IF result = "gap" THEN "recovering" ELSE "connected"]
      /\ replaySockets' = [replaySockets EXCEPT ![s].heard = n, ![s].chain = next # {}]
      /\ replayTasks' = replayTasks \union next
      /\ replayDb' = replayDb
  BY <1>1 DEF EventArrives
<1>3. n \in Nat /\ n \in 1..Len(log)
 <2>1. n \in Nat /\ n >= 1
   BY SessionConstants
 <2>2. n <= Len(log)
   BY <1>b, <1>2
 <2> QED BY <1>b, <2>1, <2>2
<1>4. \/ result = "gap" /\ next = {[Asks("recover", s, 0) EXCEPT !.seq = replay.view.seq]}
      \/ result = "applied" /\ kind = "reset" /\ next = {HydratesTrack(s)}
      \/ result = "applied" /\ kind = "trade" /\ next = {Asks("refresh", s, 0)}
      \/ result # "gap" /\ ~ (result = "applied" /\ kind = "reset") /\ next = {}
 <2> HIDE DEF result, kind
 <2> QED BY <1>1
<1>5. PICK now : now = [replaySockets EXCEPT ![s].heard = n, ![s].chain = next # {}]
  OBVIOUS
<1>6. DOMAIN now = DOMAIN replaySockets /\ \A y \in DOMAIN replaySockets \ {s} : now[y] = replaySockets[y]
  BY <1>5
<1>7. now[s] = [stopped |-> replaySockets[s].stopped, line |-> replaySockets[s].line, heard |-> n,
                chain |-> next # {}, timer |-> replaySockets[s].timer]
 <2>1. PICK chain : chain = (next # {})
   OBVIOUS
 <2>2. now = [replaySockets EXCEPT ![s].heard = n, ![s].chain = chain]
   BY <1>5, <2>1
 <2>3. now[s] = [stopped |-> replaySockets[s].stopped, line |-> replaySockets[s].line, heard |-> n,
                 chain |-> chain, timer |-> replaySockets[s].timer]
   BY <1>b, <2>2 DEF IsSocket
 <2> QED BY <2>1, <2>3
<1>8. IsSocket(now[s]) /\ now[s].chain = (next # {})
 <2>1. PICK chain : chain = (next # {})
   OBVIOUS
 <2>2. now[s] = [stopped |-> replaySockets[s].stopped, line |-> replaySockets[s].line, heard |-> n,
                 chain |-> chain, timer |-> replaySockets[s].timer]
   BY <1>7, <2>1
 <2>3. IsSocket(now[s]) /\ now[s].chain = chain
   BY <1>b, <2>2 DEF IsSocket
 <2> QED BY <2>1, <2>3
<1>9. ASSUME NEW t \in next
      PROVE  /\ IsTask(t) /\ t.id = s /\ t.why \in Handling
             /\ t.why # "recover" => t.seq \in Nat /\ t.seq <= Len(log)
             /\ t.why = "refresh" => t.at = "asks"
             /\ t.why = "hydrate" => t.at = "bars"
 <2>1. CASE t = [Asks("recover", s, 0) EXCEPT !.seq = replay.view.seq]
  <3>1. PICK y : y = Asks("recover", s, 0)
    OBVIOUS
  <3>2. IsTask(y) /\ y.why = "recover" /\ y.id = s
    BY <3>1, AskedIs
  <3>3. t = [why |-> y.why, id |-> y.id, life |-> y.life, at |-> y.at, seq |-> replay.view.seq,
             status |-> y.status, bars |-> y.bars, parent |-> y.parent]
    BY <2>1, <3>1, <3>2 DEF IsTask
  <3> QED BY <1>3, <3>2, <3>3 DEF IsTask, Handling
 <2>2. CASE t = HydratesTrack(s)
   BY <1>b, <2>2, HydratedIs DEF Handling
 <2>3. CASE t = Asks("refresh", s, 0)
   BY <1>b, <2>3, AskedIs DEF Handling
 <2> QED BY <1>4, <2>1, <2>2, <2>3
<1>10. \A t \in next : TaskIsRight(replayDb, now, t) /\ t.id = s /\ t.why \in Handling
  BY <1>a, <1>6, <1>8, <1>9 DEF TaskIsRight, Handling, Creating
<1>11. \A t, u \in next : t = u
  BY <1>4
<1>12. {u \in replayTasks : u.id = s /\ u.why \in Handling} = {}
  BY <1>2, HandlerIsNone DEF ReplayInv
<1>13. replayTasks' = (replayTasks \ {u \in replayTasks : u.id = s /\ u.why \in Handling}) \union next
  BY <1>2, <1>12
<1>14. PICK r : r = EventApplied(replay, s, n)
  OBVIOUS
<1>15. /\ IsClient(r) /\ r.overtaken = replay.overtaken
       /\ result # "applied" => r = replay
       /\ result = "applied" =>
            /\ Showing(replay, s) /\ r.view.id = s /\ r.view.seq = n
            /\ r.view.bars = IF kind = "bar" THEN replay.view.bars \union {n} ELSE replay.view.bars
 <2>1. PICK told : told = EventResult(replay, s, n)
   OBVIOUS
 <2>2. /\ IsClient(r) /\ r.overtaken = replay.overtaken
       /\ told # "applied" => r = replay
       /\ told = "applied" =>
            /\ Showing(replay, s) /\ r.view.id = s /\ r.view.seq = n
            /\ r.view.bars = IF LogOf(s)[n] = "bar" THEN replay.view.bars \union {n} ELSE replay.view.bars
   BY <1>0, <1>14, <2>1, EventIsApplied
 <2> QED BY <2>1, <2>2, Zenon
<1>16. PICK seen : seen = [r EXCEPT !.connection = IF result = "gap" THEN "recovering" ELSE "connected"]
  OBVIOUS
<1>17. IsClient(seen) /\ seen.view = r.view /\ seen.overtaken = r.overtaken
  BY <1>15, <1>16, ConnectionSet
<1>18. ASSUME Showing(replay, s), ~ replay.overtaken
       PROVE  /\ replay.view.seq \in Nat /\ replay.view.seq <= Len(log)
              /\ Fit(replay.view.bars, log, replay.view.seq)
              /\ result = "applied" => n = replay.view.seq + 1
 <2>1. replay.view # Nothing /\ replay.view.id = s
   BY <1>18 DEF Showing
 <2>2. /\ replay.view.seq \in Nat /\ replay.view.seq <= Len(log)
       /\ ViewFits(replayDb, replay.view, replayTasks)
   BY <1>a, <1>2, <1>18, <2>1, ShownFits
 <2>3. \A t \in replayTasks : ~ (t.id = s /\ t.why \in {"refresh", "hydrate"})
   BY <1>12 DEF Handling
 <2>4. Fit(replay.view.bars, log, replay.view.seq)
   BY <1>a, <2>1, <2>2, <2>3 DEF ViewFits
 <2>5. result = "applied" => n = replay.view.seq + 1
   BY <1>3, <1>18, <2>2 DEF EventResult
 <2> QED BY <2>2, <2>4, <2>5
<1>19. ASSUME seen.view # Nothing, ~ seen.overtaken, seen.view.id = s
       PROVE  seen.view.seq \in Nat /\ seen.view.seq <= Len(log) /\ ViewFits(replayDb, seen.view, next)
 <2>1. ~ replay.overtaken /\ ~ r.overtaken
   BY <1>15, <1>17, <1>19
 <2>2. CASE result # "applied"
  <3>1. seen.view = replay.view /\ Showing(replay, s)
    BY <1>15, <1>17, <1>19, <2>2 DEF Showing
  <3>2. replay.view.seq \in Nat /\ replay.view.seq <= Len(log) /\ Fit(replay.view.bars, log, replay.view.seq)
    BY <1>18, <2>1, <3>1
  <3>3. \A t \in next : t = [Asks("recover", s, 0) EXCEPT !.seq = replay.view.seq]
    BY <1>4, <2>2
  <3>4. \A t \in next : t.why = "recover"
   <4>1. PICK y : y = Asks("recover", s, 0)
     OBVIOUS
   <4>2. PICK z : z = [y EXCEPT !.seq = replay.view.seq]
     OBVIOUS
   <4>3. IsTask(y) /\ y.why = "recover"
     BY <4>1, AskedIs
   <4>4. z = [why |-> y.why, id |-> y.id, life |-> y.life, at |-> y.at, seq |-> replay.view.seq,
              status |-> y.status, bars |-> y.bars, parent |-> y.parent]
     BY <4>2, <4>3 DEF IsTask
   <4> QED BY <3>3, <4>1, <4>2, <4>3, <4>4
  <3> QED BY <1>a, <1>19, <3>1, <3>2, <3>4 DEF ViewFits
 <2>3. CASE result = "applied"
  <3>1. /\ Showing(replay, s) /\ seen.view.seq = n
        /\ seen.view.bars = IF kind = "bar" THEN replay.view.bars \union {n} ELSE replay.view.bars
    BY <1>15, <1>17, <2>3
  <3>2. replay.view.seq = n - 1 /\ Fit(replay.view.bars, log, n - 1)
    BY <1>3, <1>18, <2>1, <2>3, <3>1
  <3>3. (\E t \in next : t.id = s /\ t.why \in {"refresh", "hydrate"}) \/ Fit(seen.view.bars, log, n)
   <4>1. CASE kind = "reset"
    <5>1. next = {HydratesTrack(s)}
      BY <1>4, <2>3, <4>1
    <5> QED BY <5>1, HydratedIs
   <4>2. CASE kind # "reset"
    <5>1. PICK bars : bars = replay.view.bars
      OBVIOUS
    <5>2. Fit(bars, log, n - 1) /\ log[n] # "reset"
      BY <1>b, <3>2, <4>2, <5>1
    <5>3. Fit(IF log[n] = "bar" THEN bars \union {n} ELSE bars, log, n)
      BY <1>b, <1>3, <5>2, FitNext
    <5>4. seen.view.bars = IF log[n] = "bar" THEN bars \union {n} ELSE bars
      BY <1>b, <3>1, <5>1
    <5> QED BY <5>3, <5>4
   <4> QED BY <4>1, <4>2
  <3> QED BY <1>a, <1>3, <1>9, <1>19, <3>1, <3>3 DEF ViewFits
 <2> QED BY <2>2, <2>3
<1>20. ASSUME seen.view # Nothing, ~ seen.overtaken, seen.view.id # s
       PROVE  /\ replay.view # Nothing /\ ~ replay.overtaken
              /\ seen.view = replay.view
  BY <1>15, <1>17, <1>20
<1>21. HandsOver(replayDb, replay, replaySockets, replayTasks, s, next, seen, now, replayTasks')
  BY <1>a, <1>6, <1>8, <1>10, <1>11, <1>13, <1>17, <1>19, <1>20 DEF HandsOver
<1>22. KeepsUp(replayDb, seen, now, replayTasks')
  BY <1>21, MessageHandled DEF ReplayInv
<1> QED BY <1>2, <1>5, <1>14, <1>16, <1>22 DEF ReplayInv

(* After a gap: every missing event is applied.                             *)
LEMMA EventsAreApplied ==
  ASSUME NEW r, IsClient(r), NEW s, Showing(r, s), NEW missing, NEW x, x = EventsApplied(r, s, missing)
  PROVE  /\ IsClient(x) /\ x.overtaken = r.overtaken
         /\ missing = {} => x = r
         /\ missing # {} =>
              /\ x.view.id = s /\ x.view.seq = LastSeq(s)
              /\ x.view.bars = r.view.bars \union {i \in missing : LogOf(s)[i] = "bar"}
<1>1. CASE missing = {}
  BY <1>1 DEF EventsApplied
<1>2. CASE missing # {}
 <2>1. IsView(r.view) /\ r.view.id = s
   BY DEF Showing, IsClient
 <2>2. PICK last : last = LastSeq(s)
   OBVIOUS
 <2>3. PICK bars : bars = r.view.bars \union {i \in missing : LogOf(s)[i] = "bar"}
   OBVIOUS
 <2>4. PICK v : v = [id |-> r.view.id, seq |-> last, status |-> r.view.status, bars |-> bars]
   OBVIOUS
 <2>5. IsView(v) /\ v.id = s /\ v.seq = last /\ v.bars = bars
   BY <2>1, <2>4 DEF IsView
 <2>a. PICK new : new = {i \in missing : LogOf(s)[i] = "bar"}
   OBVIOUS
 <2>6. PICK next : next = [r EXCEPT !.view.seq = last, !.view.bars = @ \union new]
   OBVIOUS
 <2>7. next = [life |-> r.life, view |-> v, override |-> r.override, connection |-> r.connection,
               active |-> r.active, overtaken |-> r.overtaken, unclosed |-> r.unclosed]
  <3>1. PICK w : w = r.view
    OBVIOUS
  <3>2. PICK w1 : w1 = [w EXCEPT !.seq = last]
    OBVIOUS
  <3>3. w1 = [id |-> w.id, seq |-> last, status |-> w.status, bars |-> w.bars]
    BY <2>1, <3>1, <3>2 DEF IsView
  <3>4. PICK r1 : r1 = [r EXCEPT !.view = w1]
    OBVIOUS
  <3>5. r1 = [life |-> r.life, view |-> w1, override |-> r.override, connection |-> r.connection,
              active |-> r.active, overtaken |-> r.overtaken, unclosed |-> r.unclosed]
    BY <3>4 DEF IsClient
  <3>6. PICK w2 : w2 = [w1 EXCEPT !.bars = bars]
    OBVIOUS
  <3>7. w2 = v
    BY <2>4, <3>1, <3>3, <3>6
  <3>8. w1.bars \union new = bars /\ r1.view = w1
    BY <2>3, <2>a, <3>1, <3>3, <3>5
  <3>9. next = [r1 EXCEPT !.view = w2]
    BY <2>6, <3>1, <3>2, <3>4, <3>5, <3>6, <3>8
  <3> QED BY <3>5, <3>7, <3>9
 <2>8. IsClient(next) /\ next.view = v /\ next.overtaken = r.overtaken
   BY <2>5, <2>7 DEF IsClient
 <2>9. \/ x = next
       \/ \E status : x = [next EXCEPT !.override = Nothing, !.view.status = status]
       \/ \E status : x = [next EXCEPT !.view.status = status]
   BY <1>2, <2>2, <2>a, <2>6 DEF EventsApplied
 <2>10. ASSUME NEW status, NEW override, NEW u, u = [v EXCEPT !.status = status],
               x = [life |-> r.life, view |-> u, override |-> override, connection |-> r.connection,
                    active |-> r.active, overtaken |-> r.overtaken, unclosed |-> r.unclosed]
        PROVE  IsClient(x) /\ x.overtaken = r.overtaken /\ x.view.id = s /\ x.view.seq = last /\ x.view.bars = bars
  <3>1. u = [id |-> v.id, seq |-> v.seq, status |-> status, bars |-> v.bars]
    BY <2>5, <2>10 DEF IsView
  <3> QED BY <2>5, <2>10, <3>1 DEF IsClient, IsView
 <2>13. /\ IsClient(x) /\ x.overtaken = r.overtaken
        /\ x.view.id = s /\ x.view.seq = last /\ x.view.bars = bars
  <3>1. CASE x = next
    BY <2>5, <2>8, <3>1
  <3>2. CASE \E status : x = [next EXCEPT !.override = Nothing, !.view.status = status]
   <4>1. PICK status : x = [next EXCEPT !.override = Nothing, !.view.status = status]
     BY <3>2
   <4>2. PICK u : u = [v EXCEPT !.status = status]
     OBVIOUS
   <4>3. x = [life |-> r.life, view |-> u, override |-> Nothing, connection |-> r.connection,
              active |-> r.active, overtaken |-> r.overtaken, unclosed |-> r.unclosed]
     BY <2>7, <4>1, <4>2
   <4> QED BY <2>10, <4>2, <4>3
  <3>3. CASE \E status : x = [next EXCEPT !.view.status = status]
   <4>1. PICK status : x = [next EXCEPT !.view.status = status]
     BY <3>3
   <4>2. PICK u : u = [v EXCEPT !.status = status]
     OBVIOUS
   <4>3. x = [life |-> r.life, view |-> u, override |-> r.override, connection |-> r.connection,
              active |-> r.active, overtaken |-> r.overtaken, unclosed |-> r.unclosed]
     BY <2>7, <4>1, <4>2
   <4> QED BY <2>10, <4>2, <4>3
  <3> QED BY <2>9, <3>1, <3>2, <3>3
 <2> QED BY <1>2, <2>2, <2>3, <2>13
<1> QED BY <1>1, <1>2

(* A request of a handler, and what is shown while it is under way.         *)
LEMMA HandlerIs ==
  ASSUME ReplayInv, NEW t \in replayTasks, t.why \in Handling
  PROVE  /\ t.id \in DOMAIN replaySockets /\ IsTask(t) /\ IsClient(replay)
         /\ t.why # "recover" => t.seq \in Nat /\ t.seq <= Len(replayDb[t.id].log)
         /\ t.why = "refresh" /\ t.at = "ready" => Fit(t.bars, replayDb[t.id].log, t.seq)
         /\ {u \in replayTasks : u.id = t.id /\ u.why \in Handling} = {t}
<1>1. TaskIsRight(replayDb, replaySockets, t) /\ IsClient(replay)
  BY DEF ReplayInv, KeepsUp
<1>2. {u \in replayTasks : u.id = t.id /\ u.why \in Handling} = {t}
  BY HandlerIsOne DEF ReplayInv
<1> QED BY <1>1, <1>2 DEF TaskIsRight, Handling

LEMMA EventsKeep ==
  ASSUME ReplayInv, NEW t \in replayTasks, EventsArrive(t)
  PROVE  ReplayInv'
<1>1. PICK s : s = t.id
  OBVIOUS
<1>2. t.why = "recover" /\ replayDb' = replayDb
  BY DEF EventsArrive
<1>3. /\ s \in DOMAIN replaySockets /\ IsClient(replay)
      /\ {u \in replayTasks : u.id = s /\ u.why \in Handling} = {t}
  BY <1>1, <1>2, HandlerIs DEF Handling
<1>4. PICK log : log = replayDb[s].log
  OBVIOUS
<1>5. /\ LogOf(s) = log /\ LastSeq(s) = Len(log) /\ log \in Seq(EventKind) /\ Len(log) \in Nat
      /\ s \in DOMAIN replayDb /\ s # Nothing /\ IsSocket(replaySockets[s])
  BY <1>3, <1>4, LogIs
<1>a. PICK fits : fits = (Showing(replay, s) /\ t.seq <= replay.view.seq)
  OBVIOUS
<1>b. fits \in BOOLEAN /\ (fits => Showing(replay, s))
  BY <1>a
<1>6. PICK missing : missing = IF fits THEN replay.view.seq + 1..LastSeq(s) ELSE {}
  OBVIOUS
<1>7. PICK next : next = CASE ~ fits -> {Asks("refresh", s, 0)}
                            [] fits -> IF \E i \in missing : LogOf(s)[i] = "reset" THEN {HydratesTrack(s)} ELSE {}
  OBVIOUS
<1>8. PICK r : r = IF fits THEN EventsApplied(replay, s, missing) ELSE replay
  OBVIOUS
<1>9. PICK seen : seen = [r EXCEPT !.connection = "connected"]
  OBVIOUS
<1>10. PICK chain : chain = (next # {})
  OBVIOUS
<1>11. PICK now : now = [replaySockets EXCEPT ![s].chain = chain]
  OBVIOUS
<1>12. replay' = seen /\ replaySockets' = now /\ replayTasks' = (replayTasks \ {t}) \union next
  BY <1>1, <1>a, <1>6, <1>7, <1>8, <1>9, <1>10, <1>11 DEF EventsArrive, Swap
<1>13. /\ DOMAIN now = DOMAIN replaySockets /\ \A y \in DOMAIN replaySockets \ {s} : now[y] = replaySockets[y]
       /\ IsSocket(now[s]) /\ now[s].chain = chain /\ now[s].line = replaySockets[s].line
 <2>1. DOMAIN now = DOMAIN replaySockets /\ \A y \in DOMAIN replaySockets \ {s} : now[y] = replaySockets[y]
   BY <1>11
 <2>2. now[s] = [stopped |-> replaySockets[s].stopped, line |-> replaySockets[s].line,
                 heard |-> replaySockets[s].heard, chain |-> chain, timer |-> replaySockets[s].timer]
   BY <1>3, <1>5, <1>11 DEF IsSocket
 <2> QED BY <1>5, <2>1, <2>2 DEF IsSocket
<1>14. \/ next = {} /\ fits /\ \A i \in missing : log[i] # "reset"
       \/ next = {Asks("refresh", s, 0)} /\ missing = {}
       \/ next = {HydratesTrack(s)} /\ missing # {}
  BY <1>5, <1>6, <1>7, <1>b
<1>15. \A u \in next : /\ IsTask(u) /\ u.id = s /\ u.seq = 0
                       /\ \/ u.why = "refresh" /\ u.at = "asks"
                          \/ u.why = "hydrate" /\ u.at = "bars"
  BY <1>14, AskedIs, HydratedIs
<1>16. /\ \A u \in next : TaskIsRight(replayDb, now, u) /\ u.id = s /\ u.why \in Handling
       /\ \A u, w \in next : u = w
 <2>1. ASSUME NEW u \in next PROVE now[s].chain
   BY <1>10, <1>13, <2>1
 <2> QED BY <1>3, <1>4, <1>5, <1>13, <1>14, <1>15, <2>1 DEF TaskIsRight, Handling, Creating
<1>17. replayTasks' = (replayTasks \ {u \in replayTasks : u.id = s /\ u.why \in Handling}) \union next
  BY <1>3, <1>12
<1>18. /\ IsClient(r) /\ r.overtaken = replay.overtaken
       /\ missing = {} \/ ~ Showing(replay, s) => r = replay
       /\ missing # {} /\ Showing(replay, s) =>
            /\ r.view.id = s /\ r.view.seq = Len(log)
            /\ r.view.bars = replay.view.bars \union {i \in missing : log[i] = "bar"}
 <2>1. CASE ~ fits
   BY <1>3, <1>6, <1>8, <2>1
 <2>2. CASE fits
   BY <1>3, <1>5, <1>8, <1>b, <2>2, EventsAreApplied
 <2> QED BY <1>b, <2>1, <2>2
<1>19. IsClient(seen) /\ seen.view = r.view /\ seen.overtaken = r.overtaken
  BY <1>9, <1>18, ConnectionSet
<1>20. ASSUME seen.view # Nothing, ~ seen.overtaken, seen.view.id = s
       PROVE  /\ seen.view.seq \in Nat /\ seen.view.seq <= Len(log)
              /\ now[s].line = "open" => ViewFits(replayDb, seen.view, next)
 <2>1. Showing(replay, s) /\ replay.view # Nothing /\ replay.view.id = s /\ ~ replay.overtaken
   BY <1>18, <1>19, <1>20 DEF Showing
 <2>2. /\ replay.view.seq \in Nat /\ replay.view.seq <= Len(log)
       /\ replaySockets[s].line = "open" => ViewFits(replayDb, replay.view, replayTasks)
   BY <1>3, <1>4, <2>1, ShownFits
 <2>3. seen.view.seq \in Nat /\ seen.view.seq <= Len(log)
   BY <1>5, <1>18, <1>19, <2>1, <2>2
 <2>4. ASSUME replaySockets[s].line = "open" PROVE Fit(replay.view.bars, log, replay.view.seq)
  <3>1. \A u \in replayTasks : ~ (u.id = s /\ u.why \in {"refresh", "hydrate"})
    BY <1>2, <1>3 DEF Handling
  <3> QED BY <1>4, <2>1, <2>2, <2>4, <3>1 DEF ViewFits
 <2>5. ASSUME now[s].line = "open", next = {} PROVE Fit(seen.view.bars, log, seen.view.seq)
  <3>1. CASE missing = {}
    BY <1>13, <1>18, <1>19, <2>4, <2>5, <3>1
  <3>2. CASE missing # {}
   <4>1. PICK bars : bars = replay.view.bars
     OBVIOUS
   <4>2. PICK n : n = replay.view.seq
     OBVIOUS
   <4>3. missing = n + 1..Len(log)
     BY <1>5, <1>6, <3>2, <4>2
   <4>4. NoResetIn(log, n)
     BY <1>14, <2>5, <3>2, <4>3, HydratedIs DEF NoResetIn
   <4>5. Fit(bars \union {i \in n + 1..Len(log) : log[i] = "bar"}, log, Len(log))
     BY <1>5, <1>13, <2>2, <2>4, <2>5, <4>1, <4>2, <4>4, FitAll
   <4>6. seen.view.bars = bars \union {i \in n + 1..Len(log) : log[i] = "bar"} /\ seen.view.seq = Len(log)
     BY <1>18, <1>19, <2>1, <3>2, <4>1, <4>3
   <4> QED BY <4>5, <4>6
  <3> QED BY <3>1, <3>2
 <2>6. ASSUME now[s].line = "open" PROVE ViewFits(replayDb, seen.view, next)
  <3>1. (\E u \in next : u.id = s /\ u.why \in {"refresh", "hydrate"}) \/ Fit(seen.view.bars, log, seen.view.seq)
    BY <1>15, <2>5, <2>6
  <3> QED BY <1>4, <1>15, <1>20, <3>1 DEF ViewFits
 <2> QED BY <2>3, <2>6
<1>21. ASSUME seen.view # Nothing, ~ seen.overtaken, seen.view.id # s
       PROVE  replay.view # Nothing /\ ~ replay.overtaken /\ seen.view = replay.view
  BY <1>18, <1>19, <1>21 DEF Showing
<1>22. HandsOver(replayDb, replay, replaySockets, replayTasks, s, next, seen, now, replayTasks')
  BY <1>3, <1>4, <1>13, <1>16, <1>17, <1>19, <1>20, <1>21 DEF HandsOver
<1>23. KeepsUp(replayDb, seen, now, replayTasks')
  BY <1>22, MessageHandled DEF ReplayInv
<1> QED BY <1>2, <1>12, <1>23 DEF ReplayInv

(* A refresh or a hydration lands.                                          *)
LEMMA HandlerDoneKeeps ==
  ASSUME ReplayInv, NEW t \in replayTasks, HandlerDone(t)
  PROVE  ReplayInv'
<1>1. PICK s : s = t.id
  OBVIOUS
<1>2. /\ t.why \in {"refresh", "hydrate"} /\ t.at = "ready" /\ replayDb' = replayDb
      /\ replaySockets' = [replaySockets EXCEPT ![s].chain = FALSE]
      /\ replayTasks' = replayTasks \ {t}
  BY <1>1 DEF HandlerDone
<1>3. PICK log : log = replayDb[s].log
  OBVIOUS
<1>4. /\ s \in DOMAIN replaySockets /\ IsClient(replay)
      /\ t.seq \in Nat /\ t.seq <= Len(log) /\ (t.why = "refresh" => Fit(t.bars, log, t.seq))
      /\ {u \in replayTasks : u.id = s /\ u.why \in Handling} = {t}
  BY <1>1, <1>2, <1>3, HandlerIs DEF Handling
<1>5. IsSocket(replaySockets[s])
  BY <1>4, LogIs
<1>6. PICK now : now = [replaySockets EXCEPT ![s].chain = FALSE]
  OBVIOUS
<1>7. /\ DOMAIN now = DOMAIN replaySockets /\ \A y \in DOMAIN replaySockets \ {s} : now[y] = replaySockets[y]
      /\ IsSocket(now[s]) /\ now[s].line = replaySockets[s].line
 <2>1. DOMAIN now = DOMAIN replaySockets /\ \A y \in DOMAIN replaySockets \ {s} : now[y] = replaySockets[y]
   BY <1>6
 <2>2. now[s] = [stopped |-> replaySockets[s].stopped, line |-> replaySockets[s].line,
                 heard |-> replaySockets[s].heard, chain |-> FALSE, timer |-> replaySockets[s].timer]
   BY <1>4, <1>5, <1>6 DEF IsSocket
 <2> QED BY <1>5, <2>1, <2>2 DEF IsSocket
<1>8. replayTasks' = (replayTasks \ {u \in replayTasks : u.id = s /\ u.why \in Handling}) \union {}
  BY <1>2, <1>4
<1>9. PICK seen : seen = replay'
  OBVIOUS
<1>10. ASSUME NEW v, v.id = s, Fit(v.bars, log, v.seq) PROVE ViewFits(replayDb, v, {})
  BY <1>3, <1>10 DEF ViewFits
<1>11. ASSUME replay.view # Nothing, ~ replay.overtaken, replay.view.id = s
       PROVE  /\ replay.view.seq \in Nat /\ replay.view.seq <= Len(log)
              /\ replaySockets[s].line = "open" =>
                   /\ t.why = "refresh" => replay.view.seq <= t.seq
                   /\ t.why = "hydrate" => Fit(t.bars, log, replay.view.seq)
 <2>1. /\ replay.view.seq \in Nat /\ replay.view.seq <= Len(log)
       /\ replaySockets[s].line = "open" => ViewFits(replayDb, replay.view, replayTasks)
   BY <1>3, <1>4, <1>11, ShownFits
 <2> QED BY <1>1, <1>2, <1>3, <1>11, <2>1 DEF ViewFits
<1>12. /\ IsClient(seen)
       /\ seen.view # Nothing /\ ~ seen.overtaken =>
            \/ /\ seen.view.id # s
               /\ replay.view # Nothing /\ ~ replay.overtaken
               /\ seen.view.id = replay.view.id /\ seen.view.seq = replay.view.seq
               /\ seen.view.bars = replay.view.bars
            \/ /\ seen.view.id = s /\ seen.view.seq \in Nat /\ seen.view.seq <= Len(log)
               /\ now[s].line = "open" => ViewFits(replayDb, seen.view, {})
 <2>1. CASE t.why = "refresh"
  <3>1. seen = ReplaceSession(replay, t, t.bars)
    BY <1>9, <2>1 DEF HandlerDone
  <3>2. /\ IsClient(seen)
        /\ Stale(replay, t) => seen = replay
        /\ ~ Stale(replay, t) => seen.view.id = s /\ seen.view.seq = t.seq /\ seen.view.bars = t.bars
    BY <1>1, <1>4, <3>1, SessionReplaced
  <3>3. CASE Stale(replay, t)
   <4>1. replay.view # Nothing /\ replay.view.id = s /\ t.seq < replay.view.seq
     BY <1>1, <3>3 DEF Stale, Showing
   <4>2. ~ replay.overtaken => replay.view.seq \in Nat /\ replay.view.seq <= Len(log) /\ replaySockets[s].line # "open"
     BY <1>4, <1>11, <2>1, <4>1
   <4> QED BY <1>7, <3>2, <3>3, <4>1, <4>2
  <3>4. CASE ~ Stale(replay, t)
   <4>1. ViewFits(replayDb, seen.view, {})
     BY <1>4, <1>10, <2>1, <3>2, <3>4
   <4> QED BY <1>4, <3>2, <3>4, <4>1
  <3> QED BY <3>3, <3>4
 <2>2. CASE t.why = "hydrate"
  <3>1. seen = ReplaceBars(replay, s, t.bars)
    BY <1>1, <1>9, <2>2 DEF HandlerDone
  <3>2. /\ IsClient(seen) /\ seen.overtaken = replay.overtaken
        /\ ~ Showing(replay, s) => seen = replay
        /\ Showing(replay, s) =>
             seen.view.id = replay.view.id /\ seen.view.seq = replay.view.seq /\ seen.view.bars = t.bars
    BY <1>4, <3>1, BarsReplaced
  <3>3. CASE ~ Showing(replay, s)
    BY <3>2, <3>3 DEF Showing
  <3>4. CASE Showing(replay, s)
   <4>1. replay.view # Nothing /\ replay.view.id = s
     BY <3>4 DEF Showing
   <4>2. ~ seen.overtaken /\ now[s].line = "open" => ViewFits(replayDb, seen.view, {})
     BY <1>7, <1>10, <1>11, <2>2, <3>2, <3>4, <4>1
   <4> QED BY <1>11, <3>2, <3>4, <4>1, <4>2
  <3> QED BY <3>3, <3>4
 <2> QED BY <1>2, <2>1, <2>2
<1>13. HandsOver(replayDb, replay, replaySockets, replayTasks, s, {}, seen, now, replayTasks')
  BY <1>3, <1>4, <1>7, <1>8, <1>12 DEF HandsOver
<1>14. KeepsUp(replayDb, seen, now, replayTasks')
  BY <1>13, MessageHandled DEF ReplayInv
<1> QED BY <1>2, <1>6, <1>9, <1>14 DEF ReplayInv

(* A handler that fails closes its line.                                    *)
LEMMA HandlerFailsKeeps ==
  ASSUME ReplayInv, NEW t \in replayTasks, HandlerFails(t)
  PROVE  ReplayInv'
<1>1. PICK s : s = t.id
  OBVIOUS
<1>2. PICK timer : timer = ~ replaySockets[s].stopped
  OBVIOUS
<1>3. /\ t.why \in Handling /\ replayDb' = replayDb
      /\ replay' = [replay EXCEPT !.connection = "error"]
      /\ replaySockets' = [replaySockets EXCEPT ![s].chain = FALSE, ![s].line = "closed", ![s].timer = timer]
      /\ replayTasks' = replayTasks \ {t}
  BY <1>1, <1>2 DEF HandlerFails, Handling
<1>4. /\ s \in DOMAIN replaySockets /\ IsClient(replay)
      /\ {u \in replayTasks : u.id = s /\ u.why \in Handling} = {t}
  BY <1>1, <1>3, HandlerIs
<1>5. IsSocket(replaySockets[s])
  BY <1>4, LogIs
<1>6. PICK now : now = [replaySockets EXCEPT ![s].chain = FALSE, ![s].line = "closed", ![s].timer = timer]
  OBVIOUS
<1>7. /\ DOMAIN now = DOMAIN replaySockets /\ \A y \in DOMAIN replaySockets \ {s} : now[y] = replaySockets[y]
      /\ IsSocket(now[s]) /\ now[s].line = "closed"
 <2>1. DOMAIN now = DOMAIN replaySockets /\ \A y \in DOMAIN replaySockets \ {s} : now[y] = replaySockets[y]
   BY <1>6
 <2>2. now[s] = [stopped |-> replaySockets[s].stopped, line |-> "closed", heard |-> replaySockets[s].heard,
                 chain |-> FALSE, timer |-> timer]
   BY <1>4, <1>5, <1>6 DEF IsSocket
 <2> QED BY <2>1, <2>2 DEF IsSocket
<1>8. replayTasks' = (replayTasks \ {u \in replayTasks : u.id = s /\ u.why \in Handling}) \union {}
  BY <1>3, <1>4
<1>9. PICK seen : seen = [replay EXCEPT !.connection = "error"]
  OBVIOUS
<1>10. IsClient(seen) /\ seen.view = replay.view /\ seen.overtaken = replay.overtaken
  BY <1>4, <1>9, ConnectionSet
<1>11. ASSUME replay.view # Nothing, ~ replay.overtaken, replay.view.id = s
       PROVE  replay.view.seq \in Nat /\ replay.view.seq <= Len(replayDb[s].log)
  BY <1>4, <1>11, ShownFits
<1>12. HandsOver(replayDb, replay, replaySockets, replayTasks, s, {}, seen, now, replayTasks')
  BY <1>4, <1>7, <1>8, <1>10, <1>11 DEF HandsOver
<1>13. KeepsUp(replayDb, seen, now, replayTasks')
  BY <1>12, MessageHandled DEF ReplayInv
<1> QED BY <1>3, <1>6, <1>9, <1>13 DEF ReplayInv

-----------------------------------------------------------------------------
LEMMA ReplayStarts ==
  ASSUME ReplayInit
  PROVE  ReplayInv
<1>1. replayDb = None /\ replaySockets = None /\ replayTasks = {} /\ DOMAIN None = {}
  BY DEF ReplayInit, None
<1>2. AreLogs(replayDb)
 <2>1. DOMAIN replayDb = 1..0
   BY <1>1
 <2> QED BY <1>1, <2>1 DEF AreLogs
<1>3. IsClient(replay) /\ replay.view = Nothing
  BY DEF ReplayInit, IsClient
<1> QED BY <1>1, <1>2, <1>3 DEF ReplayInv, KeepsUp, AreSockets, OneAtATime, ViewIsRight

LEMMA ReplayKeep ==
  ASSUME ReplayInv, [ReplayNext]_replayVars
  PROVE  ReplayInv'
<1>1. ASSUME NEW s \in DOMAIN replayDb, ClockTicks(s) PROVE ReplayInv'
  BY <1>1, ServerKeeps
<1>2. ASSUME NEW s \in DOMAIN replaySockets,
             \/ SnapshotMessage(s) \/ LineCloses(s) \/ Reconnect(s)
             \/ \E n \in 1..MaxEvents : EventArrives(s, n)
      PROVE  ReplayInv'
  BY <1>2, SnapshotMessageKeeps, LinesKeep, EventKeeps
<1>3. ASSUME NEW t \in replayTasks,
             \/ SnapshotArrives(t) \/ BarsArrive(t) \/ EventsArrive(t) \/ HandlerDone(t) \/ HandlerFails(t)
             \/ Reconnected(t) \/ ReconnectFails(t) \/ Created(t) \/ Activated(t) \/ AnswerHydrated(t)
             \/ \E ok \in BOOLEAN : CreationFails(t, ok) \/ CloseAnswers(t, ok)
      PROVE  ReplayInv'
 <2>1. CASE SnapshotArrives(t) \/ BarsArrive(t)
   BY <2>1, PreparationKeeps
 <2>2. CASE EventsArrive(t)
   BY <2>2, EventsKeep
 <2>3. CASE HandlerDone(t)
   BY <2>3, HandlerDoneKeeps
 <2>4. CASE HandlerFails(t)
   BY <2>4, HandlerFailsKeeps
 <2>5. CASE Reconnected(t) \/ ReconnectFails(t)
   BY <2>5, ReconnectsKeep
 <2>6. CASE Created(t)
   BY <2>6, CreationKeeps
 <2>7. CASE Activated(t)
   BY <2>7, ActivationKeeps
 <2>8. CASE AnswerHydrated(t) \/ \E ok \in BOOLEAN : CloseAnswers(t, ok)
   BY <2>8, AnswersKeep
 <2>9. CASE \E ok \in BOOLEAN : CreationFails(t, ok)
   BY <2>9, FailuresKeep
 <2> QED BY <1>3, <2>1, <2>2, <2>3, <2>4, <2>5, <2>6, <2>7, <2>8, <2>9
<1>4. CASE \/ StartReplaySession \/ ReplayTimingMenu
           \/ ReplayControls \/ ReplayFloatingToolbar \/ MobileReplayDock \/ MobileReplayWorkspace
 <2>1. \/ StartReplaySession \/ ForkActiveReplay \/ ExitReplaySession
       \/ \E status : SetActiveReplayPlaying(status)
       \/ StepActiveReplay \/ RestartActiveReplay \/ SetActiveReplaySpeed \/ Seek
   BY <1>4 DEF ReplayTimingMenu, MoveActiveReplayTo, ReplayControls, ReplayFloatingToolbar,
               MobileReplayDock, MobileReplayWorkspace, TogglePlaying
 <2> QED BY <2>1, LivesKeep, ControlsKeep
<1>5. CASE \/ FlushPlay \/ FlushStep \/ FlushRestart \/ FlushSpeed \/ PlaceOrder
           \/ ControlRefused \/ TradingAnswers
  BY <1>5, ControlsKeep
<1>6. ASSUME NEW q \in {"control", "trading"}, RunCommand(q) \/ VersionRefreshed(q) PROVE ReplayInv'
  BY <1>6, ServerKeeps, ControlsKeep
<1>7. CASE ControlAnswers
  BY <1>7, AnswersKeep
<1>8. CASE UNCHANGED replayVars
  BY <1>8 DEF replayVars, ReplayInv
<1> QED BY <1>1, <1>2, <1>3, <1>4, <1>5, <1>6, <1>7, <1>8 DEF ReplayNext

LEMMA ReplayShowsTheLog ==
  ASSUME ReplayInv
  PROVE  BarsFollowTheirEvents
<1> DEFINE s == ShownId
<1> SUFFICES ASSUME s # Nothing, ~ replay.overtaken, s \in DOMAIN replaySockets,
                    ~ replaySockets[s].chain, replaySockets[s].line = "open", replay.view.seq = LastSeq(s)
             PROVE  replay.view.bars = BarsAt(LogOf(s), LastSeq(s))
  BY DEF BarsFollowTheirEvents
<1>1. replay.view # Nothing /\ replay.view.id = s
  BY DEF ShownId
<1>2. /\ LogOf(s) = replayDb[s].log /\ LastSeq(s) = Len(replayDb[s].log)
      /\ Len(replayDb[s].log) \in Nat
  BY LogIs
<1>3. ViewFits(replayDb, replay.view, replayTasks)
  BY <1>1, ShownFits
<1>4. {u \in replayTasks : u.id = s /\ u.why \in Handling} = {}
  BY HandlerIsNone DEF ReplayInv
<1>5. Fit(replay.view.bars, replayDb[s].log, Len(replayDb[s].log))
 <2>1. \A t \in replayTasks : ~ (t.id = s /\ t.why \in {"refresh", "hydrate"})
   BY <1>4 DEF Handling
 <2> HIDE DEF s
 <2> QED BY <1>1, <1>2, <1>3, <2>1 DEF ViewFits
<1>6. NoResetIn(replayDb[s].log, Len(replayDb[s].log))
 <2> HIDE DEF s
 <2> QED BY <1>2 DEF NoResetIn
<1> QED BY <1>2, <1>5, <1>6 DEF Fit

(* The bars that the replay shows are those that its log has revealed, once *)
(* its line has brought everything: whatever was lost, was reset, or was    *)
(* answered late.                                                           *)
THEOREM BarsAreTheLogs == ReplaySpec => []BarsFollowTheirEvents
<1>1. ReplayInit => ReplayInv
  BY ReplayStarts
<1>2. ReplayInv /\ [ReplayNext]_replayVars => ReplayInv'
  BY ReplayKeep
<1>3. ReplayInv => BarsFollowTheirEvents
  BY ReplayShowsTheLog
<1> QED BY <1>1, <1>2, <1>3, PTL DEF ReplaySpec

(***************************************************************************)
(* ReplayChoice.  A session that is not being replaced, and whose effect   *)
(* has run, is the one the layout asks for; one that was replaced and not  *)
(* let go yet is still to be heard of.                                     *)
(***************************************************************************)
PaneChoice == Chosen \union {Nothing}
Track == Slots \X PaneChoice
IsPane(pane) == pane = [id |-> pane.id, choice |-> pane.choice] /\ pane.choice \in PaneChoice
ArePanes(ps) == DOMAIN ps = Slots /\ \A s \in Slots : IsPane(ps[s])
IsLayout(l) ==
  /\ l = [preset |-> l.preset, mode |-> l.mode, active |-> l.active, owners |-> l.owners,
          selected |-> l.selected, panes |-> l.panes]
  /\ l.preset \in Presets /\ l.mode \in {"one", "all"} /\ l.active \in Slots
  /\ l.selected \in Chosen /\ ArePanes(l.panes)
IsRuntime(u) ==
  u = [session |-> u.session, request |-> u.request, replacing |-> u.replacing,
       dirty |-> u.dirty, heard |-> u.heard]
SessionIsFinite(s) ==
  s # Nothing => IsFiniteSet(s.tracks) /\ IsFiniteSet(s.missing)
RequestIsFinite(r) == r # Nothing => IsFiniteSet(r.tracks)
IsWanted(s) == s.mode = layout.mode /\ s.tracks \union s.missing = WantedTracks(s)
SessionIsWanted(u) ==
  u.session # Nothing =>
    /\ ~ u.dirty /\ u.heard /\ ~ u.replacing => IsWanted(u.session)
    /\ u.replacing /\ u.request = Nothing => ~ u.heard
ChoiceInv ==
  /\ IsLayout(layout)
  /\ IsRuntime(runtime) /\ SessionIsFinite(runtime.session) /\ RequestIsFinite(runtime.request)
  /\ SessionIsWanted(runtime)

LEMMA SlotsAre ==
  ASSUME NEW preset \in Presets
  PROVE  /\ IsFiniteSet(Slots) /\ 0 \in Slots
         /\ VisibleChartSlots(preset) \subseteq Slots /\ 0 \in VisibleChartSlots(preset)
         /\ IsFiniteSet(VisibleChartSlots(preset))
<1>1. MaxChartPanes \in Nat \ {0}
  BY ChoiceConstants
<1>2. ChartCountForPreset(preset) \in 1..MaxChartPanes
  BY <1>1 DEF Presets, ChartCountForPreset, AtMost
<1>3. VisibleChartSlots(preset) \subseteq Slots /\ 0 \in VisibleChartSlots(preset) /\ 0 \in Slots
  BY <1>1, <1>2 DEF VisibleChartSlots, Slots
<1>4. IsFiniteSet(Slots)
  BY <1>1, FS_Interval DEF Slots
<1> QED BY <1>3, <1>4, FS_Subset

LEMMA TracksAre ==
  ASSUME IsLayout(layout), NEW owner \in Slots, NEW selected \in Chosen
  PROVE  TracksForLayout(owner, selected) \subseteq Track /\ IsFiniteSet(TracksForLayout(owner, selected))
<1> DEFINE slots == IF layout.mode = "all" THEN VisibleChartSlots(layout.preset) ELSE {owner}
           c(s) == IF s # owner /\ layout.panes[s].choice # Nothing THEN layout.panes[s].choice ELSE selected
           T == {<<s, c(s)>> : s \in slots}
<1>1. slots \subseteq Slots /\ IsFiniteSet(slots)
  BY SlotsAre, FS_Singleton DEF IsLayout
<1>2. TracksForLayout(owner, selected) = T
  BY DEF TracksForLayout
<1>3. \A s \in slots : c(s) \in PaneChoice
  BY <1>1 DEF IsLayout, ArePanes, IsPane, PaneChoice
<1> HIDE DEF slots, c
<1>4. T \subseteq Track
  BY <1>1, <1>3 DEF Track
<1>5. IsFiniteSet(T)
 <2> DEFINE g == [s \in slots |-> <<s, c(s)>>]
 <2>1. g \in Surjection(slots, T)
   BY DEF Surjection
 <2> HIDE DEF g, T
 <2> QED BY <1>1, <2>1, FS_Surjection
<1> QED BY <1>2, <1>4, <1>5

LEMMA WantedAre ==
  ASSUME IsLayout(layout), NEW session
  PROVE  /\ WantedTracks(session) \subseteq Track /\ IsFiniteSet(WantedTracks(session))
         /\ OwnerOf(session) \in Slots
         /\ SelectedChoice \in Chosen
<1>1. OwnerOf(session) \in Slots
  BY SlotsAre DEF OwnerOf, IsLayout
<1>2. SelectedChoice \in Chosen
  BY DEF SelectedChoice, IsLayout, ArePanes, IsPane, PaneChoice
<1>3. layout.panes[OwnerOf(session)].choice \in PaneChoice
  BY <1>1 DEF IsLayout, ArePanes, IsPane
<1> DEFINE pane == layout.panes[OwnerOf(session)].choice
           selected == IF layout.mode = "one" /\ pane # Nothing THEN pane ELSE SelectedChoice
<1>4. selected \in Chosen
  BY <1>2, <1>3 DEF PaneChoice
<1>5. WantedTracks(session) = TracksForLayout(OwnerOf(session), selected)
  BY DEF WantedTracks
<1> HIDE DEF selected
<1> QED BY <1>1, <1>2, <1>4, <1>5, TracksAre

(* As many tracks as wanted, and every wanted one: the wanted ones.         *)
LEMMA MatchIsWanted ==
  ASSUME IsLayout(layout), NEW s, s # Nothing, SessionIsFinite(s), ConfigurationMatches(s)
  PROVE  IsWanted(s)
<1> DEFINE U == s.tracks \union s.missing
           W == WantedTracks(s)
<1>1. IsFiniteSet(s.tracks) /\ IsFiniteSet(s.missing)
  BY DEF SessionIsFinite
<1>2. /\ IsFiniteSet(U)
      /\ Cardinality(U) = Cardinality(s.tracks) + Cardinality(s.missing) - Cardinality(s.tracks \intersect s.missing)
  BY <1>1, FS_Union
<1>3. W \subseteq U /\ Cardinality(s.tracks) + Cardinality(s.missing) = Cardinality(W) /\ s.mode = layout.mode
  BY DEF ConfigurationMatches
<1>4. IsFiniteSet(s.tracks \intersect s.missing)
  BY <1>1, FS_Intersection
<1>5. /\ Cardinality(U) \in Nat /\ Cardinality(W) \in Nat /\ Cardinality(s.tracks) \in Nat
      /\ Cardinality(s.missing) \in Nat /\ Cardinality(s.tracks \intersect s.missing) \in Nat
  BY <1>1, <1>2, <1>4, WantedAre, FS_CardinalityType
<1>6. Cardinality(W) <= Cardinality(U)
  BY <1>2, <1>3, FS_Subset
<1>7. Cardinality(W) = Cardinality(U)
  BY <1>2, <1>3, <1>5, <1>6
<1>8. U = W
  BY <1>2, <1>3, <1>7, FS_Subset
<1> QED BY <1>3, <1>8 DEF IsWanted

LEMMA PaneChanged ==
  ASSUME NEW pane, IsPane(pane), NEW c \in PaneChoice
  PROVE  IsPane([pane EXCEPT !.choice = c])
<1>1. PICK x : x = [pane EXCEPT !.choice = c]
  OBVIOUS
<1>2. x = [id |-> pane.id, choice |-> c]
  BY <1>1 DEF IsPane
<1>3. IsPane(x)
  BY <1>2 DEF IsPane
<1> QED BY <1>1, <1>3

(* What a change of the layout may be.                                      *)
LEMMA PanesInitialized ==
  ASSUME NEW ps, ArePanes(ps), NEW preset \in Presets, NEW active \in Slots
  PROVE  ArePanes(InitializePanesForPreset(ps, preset, active))
<1> DEFINE set == {s \in Slots : ps[s].choice # Nothing}
           first == CHOOSE s \in set : \A r \in set : s <= r
           source == IF ps[active].choice # Nothing THEN ps[active].choice
                     ELSE IF set = {} THEN Nothing ELSE ps[first].choice
           fill(s) == [ps[s] EXCEPT !.choice = source]
<1>1. source \in PaneChoice
 <2>1. CASE set = {}
   BY <2>1 DEF ArePanes, IsPane, PaneChoice
 <2>2. CASE set # {}
  <3>1. set \subseteq Nat
    BY ChoiceConstants DEF Slots
  <3> HIDE DEF set
  <3>2. \E s \in set : \A r \in set : s <= r
    BY <2>2, <3>1, Least
  <3>3. first \in set
    BY <3>2
  <3> USE DEF set
  <3> QED BY <3>3 DEF ArePanes, IsPane, PaneChoice
 <2> QED BY <2>1, <2>2
<1>2. InitializePanesForPreset(ps, preset, active)
        = [s \in Slots |-> IF s \in VisibleChartSlots(preset) /\ ps[s].choice = Nothing
                           THEN [ps[s] EXCEPT !.choice = source] ELSE ps[s]]
  BY DEF InitializePanesForPreset
<1> HIDE DEF source
<1> DEFINE f == InitializePanesForPreset(ps, preset, active)
<1>3. DOMAIN f = Slots
  BY <1>2
<1>4. ASSUME NEW s \in Slots PROVE IsPane(f[s])
 <2>1. IsPane(ps[s])
   BY DEF ArePanes
 <2>2. IsPane([ps[s] EXCEPT !.choice = source])
   BY <1>1, <2>1, PaneChanged
 <2>3. f[s] = [ps[s] EXCEPT !.choice = source] \/ f[s] = ps[s]
   BY <1>2, Zenon
 <2> QED BY <2>1, <2>2, <2>3
<1> QED BY <1>3, <1>4 DEF ArePanes

LEMMA SelectionUpdated ==
  ASSUME NEW ps, ArePanes(ps), NEW slot \in Slots, NEW c \in PaneChoice
  PROVE  ArePanes(UpdatePaneSelection(ps, slot, c))
<1> DEFINE f == UpdatePaneSelection(ps, slot, c)
<1>1. f = [ps EXCEPT ![slot] = [ps[slot] EXCEPT !.choice = c]]
  BY DEF UpdatePaneSelection
<1>2. IsPane([ps[slot] EXCEPT !.choice = c])
  BY PaneChanged DEF ArePanes
<1> DEFINE p == [ps[slot] EXCEPT !.choice = c]
<1> HIDE DEF p
<1>3. DOMAIN f = Slots /\ \A s \in Slots : f[s] = IF s = slot THEN p ELSE ps[s]
  BY <1>1 DEF ArePanes, p
<1> QED BY <1>2, <1>3 DEF ArePanes, p

LEMMA FirstPanes ==
  ArePanes(CreateInitialChartPanes)
BY DEF CreateInitialChartPanes, ArePanes, IsPane, PaneChoice

LEMMA PanesNormalized ==
  ASSUME NEW rows \in PaneRows, NEW fallback \in Chosen
  PROVE  ArePanes(NormalizeChartPanes(rows, fallback))
<1> DEFINE ids == NormalizedIds[rows, MaxChartPanes - 1]
           c(s) == IF s \in DOMAIN rows /\ rows[s].choice # Nothing THEN rows[s].choice ELSE fallback
<1>1. \A s \in DOMAIN rows : rows[s].choice \in PaneChoice
 <2>1. CASE rows = None
   BY <2>1 DEF None
 <2>2. CASE rows # None
  <3>1. PICK a \in Slots, b \in Slots, d \in Chosen \union {Nothing} :
          rows = [s \in {a} |-> [id |-> PaneId(b), choice |-> d]]
    BY <2>2 DEF PaneRows
  <3> QED BY <3>1 DEF PaneChoice
 <2> QED BY <2>1, <2>2
<1>2. \A s : c(s) \in PaneChoice
  BY <1>1 DEF PaneChoice
<1>3. NormalizeChartPanes(rows, fallback) = [s \in Slots |-> [id |-> ids[s], choice |-> c(s)]]
  BY DEF NormalizeChartPanes
<1> HIDE DEF ids, c
<1> QED BY <1>2, <1>3 DEF ArePanes, IsPane

LEMMA ChoiceStarts == ChoiceInit => ChoiceInv
<1> SUFFICES ASSUME ChoiceInit PROVE ChoiceInv
  OBVIOUS
<1>1. PICK c \in Chosen :
        layout = [preset |-> "single", mode |-> "one", active |-> 0, owners |-> None, selected |-> c,
                  panes |-> UpdatePaneSelection(CreateInitialChartPanes, 0, c)]
  BY DEF ChoiceInit
<1>2. 0 \in Slots
  BY SlotsAre DEF Presets
<1> DEFINE ps == UpdatePaneSelection(CreateInitialChartPanes, 0, c)
<1>3. ArePanes(ps)
  BY <1>2, FirstPanes, SelectionUpdated DEF PaneChoice
<1> HIDE DEF ps
<1>4. IsLayout(layout)
  BY <1>1, <1>2, <1>3 DEF IsLayout, Presets, ps
<1>5. runtime = [session |-> Nothing, request |-> Nothing, replacing |-> FALSE, dirty |-> FALSE, heard |-> TRUE]
  BY DEF ChoiceInit
<1> QED BY <1>4, <1>5 DEF ChoiceInv, IsRuntime, SessionIsFinite, RequestIsFinite, SessionIsWanted

(* Whatever changes the layout makes the effect run.                        *)
LEMMA LaidKeeps ==
  ASSUME ChoiceInv, NEW l, IsLayout(l), Laid(l)
  PROVE  ChoiceInv'
<1>1. layout' = l /\ runtime' = [runtime EXCEPT !.dirty = TRUE]
  BY DEF Laid
<1>2. runtime' = [session |-> runtime.session, request |-> runtime.request, replacing |-> runtime.replacing,
                  dirty |-> TRUE, heard |-> runtime.heard]
  BY <1>1 DEF ChoiceInv, IsRuntime
<1> QED BY <1>1, <1>2 DEF ChoiceInv, IsRuntime, SessionIsFinite, RequestIsFinite, SessionIsWanted

LEMMA LayoutMovesKeep ==
  ASSUME ChoiceInv,
         \/ ResetChartLayoutState
         \/ \E slot \in Slots : SetActiveChartSlot(slot)
         \/ \E c \in Chosen : SyncActiveChartPane(c)
         \/ \E slot \in Slots, c \in Chosen : DropSymbolOnChartPane(slot, c)
         \/ \E a \in PaneAlert, s \in Slots : SetAlertChartOwner(a, layout.panes[s].id)
         \/ \E a \in PaneAlert : SetAlertChartOwner(a, Nothing)
         \/ \E preset \in Presets : SetChartLayoutPreset(preset)
         \/ \E mode \in {"one", "all"} : SetReplayLayoutMode(mode)
         \/ \E preset \in Presets, mode \in {"one", "all"}, rows \in PaneRows, active \in Slots, c \in Chosen :
              RestoreChartLayoutState(preset, mode, rows, active, c)
  PROVE  ChoiceInv'
<1> SUFFICES \E l : IsLayout(l) /\ Laid(l)
  BY LaidKeeps
<1>0. IsLayout(layout)
  BY DEF ChoiceInv
<1>1. CASE ResetChartLayoutState
 <2> DEFINE l == [preset |-> "single", mode |-> "one", active |-> 0, owners |-> None,
                  selected |-> layout.selected, panes |-> CreateInitialChartPanes]
 <2>1. Laid(l)
   BY <1>1 DEF ResetChartLayoutState
 <2>2. ArePanes(CreateInitialChartPanes) /\ 0 \in Slots
   BY FirstPanes, SlotsAre DEF Presets
 <2>3. IsLayout(l)
   BY <1>0, <2>2 DEF IsLayout, Presets
 <2> QED BY <2>1, <2>3
<1>2. ASSUME NEW slot \in Slots, SetActiveChartSlot(slot) PROVE \E l : IsLayout(l) /\ Laid(l)
 <2>1. PICK l : l = [layout EXCEPT !.active = slot]
   OBVIOUS
 <2>2. Laid(l)
   BY <1>2, <2>1 DEF SetActiveChartSlot
 <2>3. IsLayout(l)
   BY <1>0, <2>1 DEF IsLayout
 <2> QED BY <2>2, <2>3
<1>3. ASSUME NEW c \in Chosen, SyncActiveChartPane(c) PROVE \E l : IsLayout(l) /\ Laid(l)
 <2> DEFINE ps == InitializePanesForPreset(UpdatePaneSelection(layout.panes, layout.active, c), layout.preset, layout.active)
 <2>1. ArePanes(ps)
   BY <1>0, SelectionUpdated, PanesInitialized DEF IsLayout, PaneChoice
 <2> HIDE DEF ps
 <2>2. PICK l : l = [layout EXCEPT !.selected = c, !.panes = ps]
   OBVIOUS
 <2>3. Laid(l)
   BY <1>3, <2>2 DEF SyncActiveChartPane, ps
 <2>4. IsLayout(l)
   BY <1>0, <2>1, <2>2 DEF IsLayout
 <2> QED BY <2>3, <2>4
<1>4. ASSUME NEW slot \in Slots, NEW c \in Chosen, DropSymbolOnChartPane(slot, c) PROVE \E l : IsLayout(l) /\ Laid(l)
 <2> DEFINE ps == UpdatePaneSelection(layout.panes, slot, c)
 <2>1. ArePanes(ps)
   BY <1>0, SelectionUpdated DEF IsLayout, PaneChoice
 <2> HIDE DEF ps
 <2>2. PICK l : l = [layout EXCEPT !.panes = ps, !.active = slot, !.selected = c]
   OBVIOUS
 <2>3. Laid(l)
   BY <1>4, <2>2 DEF DropSymbolOnChartPane, ps
 <2>4. IsLayout(l)
   BY <1>0, <2>1, <2>2 DEF IsLayout
 <2> QED BY <2>3, <2>4
<1>5. ASSUME NEW a \in PaneAlert, NEW id, SetAlertChartOwner(a, id) PROVE \E l : IsLayout(l) /\ Laid(l)
 <2> DEFINE own == IF id = Nothing THEN Drop(layout.owners, {a}) ELSE Put(layout.owners, a, id)
 <2>1. PICK l : l = [layout EXCEPT !.owners = own]
   OBVIOUS
 <2>2. Laid(l)
   BY <1>5, <2>1 DEF SetAlertChartOwner
 <2> HIDE DEF own
 <2>3. IsLayout(l)
   BY <1>0, <2>1 DEF IsLayout
 <2> QED BY <2>2, <2>3
<1>6. ASSUME NEW preset \in Presets, SetChartLayoutPreset(preset) PROVE \E l : IsLayout(l) /\ Laid(l)
 <2> DEFINE ps == InitializePanesForPreset(layout.panes, preset, layout.active)
            at == VisibleOr0(layout.active, preset)
            mode == IF preset = "single" THEN "one" ELSE layout.mode
 <2>1. ArePanes(ps) /\ at \in Slots /\ mode \in {"one", "all"}
   BY <1>0, PanesInitialized, SlotsAre DEF IsLayout, VisibleOr0
 <2> HIDE DEF ps, at, mode
 <2>2. PICK l : l = [layout EXCEPT !.panes = ps, !.active = at, !.preset = preset, !.mode = mode]
   OBVIOUS
 <2>3. Laid(l)
   BY <1>6, <2>2 DEF SetChartLayoutPreset, ps, at, mode
 <2>4. IsLayout(l)
   BY <1>0, <2>1, <2>2 DEF IsLayout
 <2> QED BY <2>3, <2>4
<1>7. ASSUME NEW mode \in {"one", "all"}, SetReplayLayoutMode(mode) PROVE \E l : IsLayout(l) /\ Laid(l)
 <2> DEFINE m == ReplayMode(mode, layout.preset)
 <2>1. m \in {"one", "all"}
   BY DEF ReplayMode
 <2> HIDE DEF m
 <2>2. PICK l : l = [layout EXCEPT !.mode = m]
   OBVIOUS
 <2>3. Laid(l)
   BY <1>7, <2>2 DEF SetReplayLayoutMode, m
 <2>4. IsLayout(l)
   BY <1>0, <2>1, <2>2 DEF IsLayout
 <2> QED BY <2>3, <2>4
<1>8. ASSUME NEW preset \in Presets, NEW mode \in {"one", "all"}, NEW rows \in PaneRows, NEW active \in Slots,
             NEW c \in Chosen, RestoreChartLayoutState(preset, mode, rows, active, c)
      PROVE  \E l : IsLayout(l) /\ Laid(l)
 <2> DEFINE at == VisibleOr0(active, preset)
            ps == InitializePanesForPreset(NormalizeChartPanes(rows, c), preset, at)
            m == ReplayMode(mode, preset)
            l == [preset |-> preset, mode |-> m, active |-> at, panes |-> ps,
                  selected |-> c, owners |-> OwnersOf(layout.owners, ps)]
 <2>1. at \in Slots /\ m \in {"one", "all"}
   BY SlotsAre DEF VisibleOr0, ReplayMode
 <2>2. ArePanes(ps)
   BY <2>1, PanesNormalized, PanesInitialized
 <2>3. Laid(l)
   BY <1>8 DEF RestoreChartLayoutState
 <2> HIDE DEF at, ps, m
 <2>4. IsLayout(l)
   BY <2>1, <2>2 DEF IsLayout
 <2> QED BY <2>3, <2>4
<1> QED BY <1>1, <1>2, <1>3, <1>4, <1>5, <1>6, <1>7, <1>8

LEMMA WantedUnchanged ==
  ASSUME layout' = layout, NEW s
  PROVE  IsWanted(s)' <=> IsWanted(s)
BY DEF IsWanted, WantedTracks, TracksForLayout, OwnerOf, SelectedChoice

(* A session and a request that go on, or new ones that are as they should. *)
LEMMA RuntimeChanged ==
  ASSUME ChoiceInv, layout' = layout, NEW u, runtime' = u, IsRuntime(u),
         SessionIsFinite(u.session), RequestIsFinite(u.request), SessionIsWanted(u)
  PROVE  ChoiceInv'
<1>1. PICK s : s = u.session
  OBVIOUS
<1>2. IsWanted(s)' <=> IsWanted(s)
  BY WantedUnchanged
<1>3. runtime'.session = s
  BY <1>1
<1> QED BY <1>1, <1>2, <1>3 DEF ChoiceInv, IsRuntime, SessionIsFinite, RequestIsFinite, SessionIsWanted

LEMMA RequestIsSomething ==
  ASSUME IsLayout(layout), NEW owner \in Slots, NEW tracks \in SUBSET Track
  PROVE  [mode |-> layout.mode, owner |-> owner, tracks |-> tracks] # Nothing
<1>1. PICK request : request = [mode |-> layout.mode, owner |-> owner, tracks |-> tracks]
  OBVIOUS
<1>2. request \in [mode : {"one", "all"}, owner : Slots, tracks : SUBSET Track]
  BY <1>1 DEF IsLayout
<1> QED BY <1>1, <1>2, ChoiceConstants DEF Slots, Track, PaneChoice

LEMMA ReplacementsKeep ==
  ASSUME ChoiceInv,
         \/ \E missing \in SUBSET (Slots \X Chosen) : StartAnswers(missing)
         \/ RunReplayEffect \/ StartFails \/ ReplacingReset \/ SnapshotHeard \/ ExitReplay
  PROVE  ChoiceInv'
<1> USE DEF IsRuntime, SessionIsFinite, RequestIsFinite, SessionIsWanted
<1>0. /\ IsLayout(layout)
      /\ IsRuntime(runtime) /\ SessionIsFinite(runtime.session) /\ RequestIsFinite(runtime.request)
      /\ SessionIsWanted(runtime)
  BY DEF ChoiceInv
<1>1. ASSUME NEW missing \in SUBSET (Slots \X Chosen), StartAnswers(missing) PROVE ChoiceInv'
 <2>1. /\ runtime.request # Nothing /\ layout' = layout
       /\ missing \subseteq runtime.request.tracks
       /\ runtime' = [runtime EXCEPT !.request = Nothing, !.dirty = TRUE, !.heard = FALSE,
            !.session = [mode |-> runtime.request.mode, tracks |-> runtime.request.tracks \ missing, missing |-> missing]]
   BY <1>1 DEF StartAnswers
 <2>2. IsFiniteSet(runtime.request.tracks \ missing) /\ IsFiniteSet(missing)
   BY <1>0, <2>1, FS_Subset
 <2>3. PICK u : u = [runtime EXCEPT !.request = Nothing, !.dirty = TRUE, !.heard = FALSE,
            !.session = [mode |-> runtime.request.mode, tracks |-> runtime.request.tracks \ missing, missing |-> missing]]
   OBVIOUS
 <2>4. u = [session |-> [mode |-> runtime.request.mode, tracks |-> runtime.request.tracks \ missing, missing |-> missing],
            request |-> Nothing, replacing |-> runtime.replacing, dirty |-> TRUE, heard |-> FALSE]
   BY <1>0, <2>3
 <2> QED BY <2>1, <2>2, <2>3, <2>4, RuntimeChanged
<1>2. CASE RunReplayEffect
 <2> DEFINE s == runtime.session
            quiet == [runtime EXCEPT !.dirty = FALSE]
            request == [mode |-> layout.mode, owner |-> OwnerOf(s), tracks |-> WantedTracks(s)]
 <2>1. layout' = layout
   BY <1>2 DEF RunReplayEffect
 <2>2. CASE ~ choosing.signedIn
  <3>1. runtime' = [quiet EXCEPT !.session = Nothing, !.request = Nothing]
    BY <1>2, <2>2 DEF RunReplayEffect
  <3>2. PICK u : u = [quiet EXCEPT !.session = Nothing, !.request = Nothing]
    OBVIOUS
  <3>3. u = [session |-> Nothing, request |-> Nothing, replacing |-> runtime.replacing, dirty |-> FALSE, heard |-> runtime.heard]
    BY <1>0, <3>2
  <3> QED BY <2>1, <3>1, <3>2, <3>3, RuntimeChanged
 <2>3. CASE choosing.signedIn /\ (s = Nothing \/ runtime.replacing \/ ConfigurationMatches(s))
  <3>1. runtime' = quiet
    BY <1>2, <2>3 DEF RunReplayEffect
  <3>2. PICK u : u = quiet
    OBVIOUS
  <3>3. u = [session |-> s, request |-> runtime.request, replacing |-> runtime.replacing, dirty |-> FALSE, heard |-> runtime.heard]
    BY <1>0, <3>2
  <3>4. s # Nothing /\ ~ runtime.replacing => IsWanted(s)
    BY <1>0, <2>3, MatchIsWanted
  <3> QED BY <1>0, <2>1, <3>1, <3>2, <3>3, <3>4, RuntimeChanged
 <2>4. CASE choosing.signedIn /\ s # Nothing /\ ~ runtime.replacing /\ ~ ConfigurationMatches(s)
  <3>1. runtime' = [quiet EXCEPT !.replacing = TRUE, !.request = request]
    BY <1>2, <2>4 DEF RunReplayEffect
  <3>2. IsFiniteSet(WantedTracks(s)) /\ request # Nothing
    BY <1>0, WantedAre, RequestIsSomething
  <3> DEFINE tracks == WantedTracks(s)
             owner == OwnerOf(s)
  <3>3. request.tracks = tracks
    OBVIOUS
  <3> HIDE DEF tracks, owner, request
  <3>4. PICK u : u = [quiet EXCEPT !.replacing = TRUE, !.request = request]
    OBVIOUS
  <3>5. u = [session |-> s, request |-> request, replacing |-> TRUE, dirty |-> FALSE, heard |-> runtime.heard]
    BY <1>0, <3>4
  <3>6. IsFiniteSet(request.tracks)
    BY <3>2, <3>3 DEF tracks
  <3> QED BY <1>0, <2>1, <3>1, <3>2, <3>4, <3>5, <3>6, RuntimeChanged
 <2> QED BY <2>2, <2>3, <2>4
<1>3. CASE StartFails
 <2>1. layout' = layout /\ runtime' = [runtime EXCEPT !.request = Nothing, !.session = Nothing, !.dirty = TRUE]
   BY <1>3 DEF StartFails
 <2>2. PICK u : u = [runtime EXCEPT !.request = Nothing, !.session = Nothing, !.dirty = TRUE]
   OBVIOUS
 <2>3. u = [session |-> Nothing, request |-> Nothing, replacing |-> runtime.replacing, dirty |-> TRUE, heard |-> runtime.heard]
   BY <1>0, <2>2
 <2> QED BY <2>1, <2>2, <2>3, RuntimeChanged
<1>4. CASE ReplacingReset
 <2>1. layout' = layout /\ runtime.replacing /\ runtime.request = Nothing /\ runtime' = [runtime EXCEPT !.replacing = FALSE]
   BY <1>4 DEF ReplacingReset
 <2>2. PICK u : u = [runtime EXCEPT !.replacing = FALSE]
   OBVIOUS
 <2>3. u = [session |-> runtime.session, request |-> runtime.request, replacing |-> FALSE, dirty |-> runtime.dirty, heard |-> runtime.heard]
   BY <1>0, <2>2
 <2> QED BY <1>0, <2>1, <2>2, <2>3, RuntimeChanged
<1>5. CASE SnapshotHeard
 <2>1. layout' = layout /\ ~ runtime.replacing /\ runtime' = [runtime EXCEPT !.heard = TRUE, !.dirty = TRUE]
   BY <1>5 DEF SnapshotHeard
 <2>2. PICK u : u = [runtime EXCEPT !.heard = TRUE, !.dirty = TRUE]
   OBVIOUS
 <2>3. u = [session |-> runtime.session, request |-> runtime.request, replacing |-> runtime.replacing, dirty |-> TRUE, heard |-> TRUE]
   BY <1>0, <2>2
 <2> QED BY <1>0, <2>1, <2>2, <2>3, RuntimeChanged
<1>6. CASE ExitReplay
 <2>1. layout' = layout /\ runtime' = [runtime EXCEPT !.session = Nothing, !.request = Nothing, !.dirty = TRUE]
   BY <1>6 DEF ExitReplay
 <2>2. PICK u : u = [runtime EXCEPT !.session = Nothing, !.request = Nothing, !.dirty = TRUE]
   OBVIOUS
 <2>3. u = [session |-> Nothing, request |-> Nothing, replacing |-> runtime.replacing, dirty |-> TRUE, heard |-> runtime.heard]
   BY <1>0, <2>2
 <2> QED BY <2>1, <2>2, <2>3, RuntimeChanged
<1> QED BY <1>1, <1>2, <1>3, <1>4, <1>5, <1>6

LEMMA ChoosingKeeps ==
  ASSUME ChoiceInv,
         \/ \E mode \in {"selecting", "reselecting"} : BeginSelection(mode)
         \/ \E times \in SUBSET (0..LastBar) : CandidatesChange(times)
         \/ \E t \in 0..LastBar, down \in BOOLEAN : PointerMoves(t, down)
         \/ \E i \in 1..LastBar + 1 : ArrowKey(i)
         \/ SeedPreview \/ CancelSelection \/ PointerCancels \/ Commit \/ SignOut
         \/ UNCHANGED choiceVars
  PROVE  ChoiceInv'
<1> USE DEF IsRuntime, SessionIsFinite, RequestIsFinite, SessionIsWanted
<1>0. /\ IsLayout(layout)
      /\ IsRuntime(runtime) /\ SessionIsFinite(runtime.session) /\ RequestIsFinite(runtime.request)
      /\ SessionIsWanted(runtime)
  BY DEF ChoiceInv
<1>1. CASE layout' = layout /\ runtime' = runtime
 <2>1. PICK u : u = runtime
   OBVIOUS
 <2> QED BY <1>0, <1>1, <2>1, RuntimeChanged
<1>2. CASE Commit /\ runtime.session = Nothing
 <2> DEFINE tracks == TracksForLayout(layout.active, SelectedChoice)
            request == [mode |-> layout.mode, owner |-> layout.active, tracks |-> tracks]
 <2>1. layout' = layout /\ runtime' = [runtime EXCEPT !.request = request]
   BY <1>2 DEF Commit
 <2>2. IsFiniteSet(tracks)
   BY <1>0, WantedAre, TracksAre DEF IsLayout
 <2>3. request.tracks = tracks
   OBVIOUS
 <2> HIDE DEF tracks, request
 <2>4. PICK u : u = [runtime EXCEPT !.request = request]
   OBVIOUS
 <2>5. u = [session |-> Nothing, request |-> request, replacing |-> runtime.replacing, dirty |-> runtime.dirty, heard |-> runtime.heard]
   BY <1>0, <1>2, <2>4
 <2> QED BY <2>1, <2>2, <2>3, <2>4, <2>5, RuntimeChanged
<1>3. CASE SignOut
 <2>1. layout' = layout /\ runtime' = [runtime EXCEPT !.dirty = TRUE]
   BY <1>3 DEF SignOut
 <2>2. PICK u : u = [runtime EXCEPT !.dirty = TRUE]
   OBVIOUS
 <2>3. u = [session |-> runtime.session, request |-> runtime.request, replacing |-> runtime.replacing, dirty |-> TRUE, heard |-> runtime.heard]
   BY <1>0, <2>2
 <2> QED BY <1>0, <2>1, <2>2, <2>3, RuntimeChanged
<1>4. \/ layout' = layout /\ runtime' = runtime
      \/ Commit /\ runtime.session = Nothing
      \/ SignOut
  BY DEF BeginSelection, CandidatesChange, PointerMoves, ArrowKey, SeedPreview, CancelSelection,
         PointerCancels, Commit, choiceVars
<1> QED BY <1>1, <1>2, <1>3, <1>4

(* Whatever changes while a session is being replaced is not looked at: the *)
(* effect still ends with the session the panes ask for                     *)
(* (ReplayClientRuntime.tsx).                                                *)
THEOREM ReplayIsLaidOut == ChoiceSpec => []ReplayFollowsLayout
<1>1. ASSUME ChoiceInv, [ChoiceNext]_choiceVars PROVE ChoiceInv'
  BY <1>1, LayoutMovesKeep, ReplacementsKeep, ChoosingKeeps DEF ChoiceNext
<1>2. ChoiceInv => ReplayFollowsLayout
  BY DEF ChoiceInv, SessionIsWanted, IsWanted, ReplayFollowsLayout
<1> QED BY <1>1, <1>2, ChoiceStarts, PTL DEF ChoiceSpec

-----------------------------------------------------------------------------
(***************************************************************************)
(* The parts side by side: a step of the market is a step of each part, or *)
(* leaves it alone.                                                        *)
(***************************************************************************)
LEMMA PartsStepAlone ==
  [MCNext]_mcVars =>
    [SurfaceNext]_surfaceVars /\ [NavNext]_navVars /\ [ReplayNext]_replayVars /\ [ChoiceNext]_choiceVars
<1> SUFFICES ASSUME [MCNext]_mcVars
             PROVE  [SurfaceNext]_surfaceVars /\ [NavNext]_navVars
                      /\ [ReplayNext]_replayVars /\ [ChoiceNext]_choiceVars
  OBVIOUS
<1>1. CASE UNCHANGED mcVars
  BY <1>1 DEF mcVars
<1>2. CASE MCNext
  BY <1>2 DEF MCNext
<1> QED BY <1>1, <1>2

LEMMA PartsOfMarket == MCSpec => SurfaceSpec /\ NavSpec /\ ReplaySpec /\ ChoiceSpec
<1>1. MCInit => SurfaceInit /\ NavInit /\ ReplayInit /\ ChoiceInit
  BY DEF MCInit
<1> QED BY <1>1, PartsStepAlone, PTL DEF MCSpec, SurfaceSpec, NavSpec, ReplaySpec, ChoiceSpec

(* What a chart shows is what was asked for and what came: the candles,     *)
(* crosshair and indicators it was given last (ChartSurface; the crosshair  *)
(* from the first change after mounting), and a jump lands on the first bar *)
(* from the moment asked for (TimeNavigation).                              *)
THEOREM ChartIsTrue == MCSpec => []ChartShowsWhatWasAsked
<1>1. SurfaceShowsData /\ JumpsToTheMomentAsked => ChartShowsWhatWasAsked
  BY DEF ChartShowsWhatWasAsked
<1> QED BY <1>1, PartsOfMarket, SurfaceIsDrawn, JumpsLand, PTL

(* What a Replay shows is what was asked for and what happened: the bars    *)
(* of the session's log (replaySocket.ts), of the session that the panes of *)
(* the layout ask for (ReplayClientRuntime.tsx).                            *)
THEOREM ReplayIsTrue == MCSpec => []ReplayStaysTrue
<1>1. BarsFollowTheirEvents /\ ReplayFollowsLayout => ReplayStaysTrue
  BY DEF ReplayStaysTrue
<1> QED BY <1>1, PartsOfMarket, BarsAreTheLogs, ReplayIsLaidOut, PTL
================================================================================
