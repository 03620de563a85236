---------------------------- MODULE CandleCache -----------------------------
(***************************************************************************)
(* marketDataStore, candleRepository, candleSeries and CandleEngine: the   *)
(* candles of every market in the browser.  A series is kept flat; a large *)
(* one is also kept in chunks, and is then written through its chunks.     *)
(* Ticks of providers that send no candles are folded into the newest one. *)
(*                                                                         *)
(* A candle is a time, a value (open, high, low, close and volume at once; *)
(* Nothing where one of them is not finite) and whether it is closed.      *)
(***************************************************************************)
EXTENDS Partial, SequencesExt

CONSTANTS
  Market,            \* symbol and timeframe: the keys of the store
  Value,             \* values of candles
  LastMinute,          \* bound: the times of candles are 1..LastMinute
  ChunkSize,         \* DEFAULT_CANDLE_CHUNK_SIZE
  MaxCandles,        \* MAX_CANDLES_PER_SERIES
  LargeHistory,      \* candles from which the chunks are used
  MaxRepositories,   \* CANDLE_CACHE_BUDGET
  MaxCached,
  MaxCacheSteps      \* bound: writes, ticks and selections

VARIABLES
  cache,             \* flat, repos: market -> series; engine: market -> forming candle; active
  cacheSteps

cacheVars == <<cache, cacheSteps>>
CacheStep == cacheSteps < MaxCacheSteps /\ cacheSteps' = cacheSteps + 1

Candles == [time : 1..LastMinute, value : Value, closed : BOOLEAN]
(* What a history request returns, in the order of its times. *)
Histories == {s \in Bounded(Candles, 2) : \A i, j \in 1..Len(s) : i < j => s[i].time <= s[j].time}
Unreadable == [time |-> 1, value |-> Nothing, closed |-> TRUE]

(***************************************************************************)
(* candleSeries: sorted by time, the last of a time wins, the newest kept. *)
(***************************************************************************)
Newest(s) == SubSeq(s, AtLeast(1, Len(s) - MaxCandles + 1), Len(s))
Times(s) == {s[i].time : i \in 1..Len(s)}
KeyedByTime(s, t) == s[CHOOSE i \in 1..Len(s) : s[i].time = t /\ \A j \in (i + 1)..Len(s) : s[j].time # t]
Sorted(S, candleAt(_)) == LET ts == SetToSortSeq(S, <) IN [i \in 1..Len(ts) |-> candleAt(ts[i])]
(* normalizeMarketCandle: what cannot be drawn is dropped. *)
Readable(s) == SelectSeq(s, LAMBDA c : c.value # Nothing)
Normalized(s) == LET r == Readable(s) IN Sorted(Times(r), LAMBDA t : KeyedByTime(r, t))
(* upsertMarketCandleIntoSeries *)
Upserted(s, c) == Newest(Normalized(Append(s, c)))
(* mergeHistoryWithLiveCandles: history wins inside its window, except     *)
(* over the forming candle at its end.                                     *)
KeepsLive(c, h) ==
  \/ c.time < h[1].time \/ c.time > h[Len(h)].time
  \/ ~ c.closed /\ c.time >= h[Len(h)].time
Merged(history, live) ==
  LET h == Normalized(history)
      kept == IF h = <<>> THEN live ELSE SelectSeq(live, LAMBDA c : KeepsLive(c, h))
  IN  Newest(Normalized(h \o kept))

(***************************************************************************)
(* candleRepository: a series as chunks.                                   *)
(***************************************************************************)
NonEmpty(chunks) == SelectSeq(chunks, LAMBDA c : c # <<>>)
(* chunksFromSorted *)
Chunked(s) ==
  [i \in 1..((Len(s) + ChunkSize - 1) \div ChunkSize) |->
     SubSeq(s, (i - 1) * ChunkSize + 1, AtMost(i * ChunkSize, Len(s)))]
Materialized(chunks) == FlattenSeq(chunks)
(* trimChunks: whole chunks from the front, then the front of the next. *)
LengthBefore(chunks, i) == Len(Materialized(SubSeq(chunks, 1, i)))
Trimmed(chunks) ==
  LET excess == Len(Materialized(chunks)) - MaxCandles
      gone == Cardinality({i \in 1..Len(chunks) : LengthBefore(chunks, i) <= excess})
      rest == SubSeq(chunks, gone + 1, Len(chunks))
      cut == excess - LengthBefore(chunks, gone)
  IN  IF excess <= 0 THEN chunks
      ELSE IF rest = <<>> THEN <<>>
      ELSE <<SubSeq(rest[1], cut + 1, Len(rest[1]))>> \o Tail(rest)
(* createCandleRepository *)
Repository(s) == Chunked(Newest(Normalized(s)))
(* findChunkIndex and lowerBound: the first that does not end before t. *)
FirstChunkAfter(chunks, t) ==
  1 + Cardinality({i \in 1..Len(chunks) : chunks[i][Len(chunks[i])].time <= t})
FindChunk(chunks, t) ==
  1 + Cardinality({i \in 1..Len(chunks) : chunks[i][Len(chunks[i])].time < t})
LowerBound(chunk, t) == 1 + Cardinality({i \in 1..Len(chunk) : chunk[i].time < t})
(* findCandleIndexByTime *)
FindIndex(chunks, t) ==
  LET i == FindChunk(chunks, t)
      j == IF i <= Len(chunks) THEN LowerBound(chunks[i], t) ELSE 0
  IN  IF i > Len(chunks) THEN 0
      ELSE IF chunks[i][j].time = t THEN LengthBefore(chunks, i - 1) + j ELSE 0
(* upsertCandleRepository *)
AppendedCandle(chunks, c) ==
  LET n == Len(chunks)
  IN  IF Len(chunks[n]) < ChunkSize THEN [chunks EXCEPT ![n] = Append(@, c)]
      ELSE Append(chunks, <<c>>)
SplitChunk(inserted) ==
  LET half == (Len(inserted) + 1) \div 2
  IN  IF Len(inserted) <= ChunkSize THEN <<inserted>>
      ELSE <<SubSeq(inserted, 1, half), SubSeq(inserted, half + 1, Len(inserted))>>
InsertedCandle(chunks, i, c) ==
  LET chunk == chunks[i]
      j == LowerBound(chunk, c.time)
  IN  IF chunk[j].time = c.time THEN [chunks EXCEPT ![i][j] = c]
      ELSE SubSeq(chunks, 1, i - 1)
           \o SplitChunk(SubSeq(chunk, 1, j - 1) \o <<c>> \o SubSeq(chunk, j, Len(chunk)))
           \o SubSeq(chunks, i + 1, Len(chunks))
UpsertedRepository(chunks, c) ==
  LET i == FindChunk(chunks, c.time)
  IN  IF c.value = Nothing THEN chunks
      ELSE IF chunks = <<>> THEN <<<<c>>>>
      ELSE Trimmed(NonEmpty(IF i > Len(chunks) THEN AppendedCandle(chunks, c)
                            ELSE InsertedCandle(chunks, i, c)))
(* chunkWithReuse: a chunk that is in the new series as it was, is kept;   *)
(* the rest is cut at ChunkSize and at the start of such a chunk.          *)
IsAt(chunk, s, i) == chunk = SubSeq(s, i, AtMost(i + Len(chunk) - 1, Len(s)))
StartsReused(chunks, s, i) == \E k \in 1..Len(chunks) : IsAt(chunks[k], s, i)
ReusedAt(chunks, s, i) == chunks[CHOOSE k \in 1..Len(chunks) : IsAt(chunks[k], s, i)]
Rechunked(chunks, s) ==
  LET cut[i \in 1..(Len(s) + 1)] ==
        IF i > Len(s) THEN <<>>
        ELSE IF StartsReused(chunks, s, i)
             THEN <<ReusedAt(chunks, s, i)>> \o cut[i + Len(ReusedAt(chunks, s, i))]
             ELSE LET ends == {j \in (i + 1)..(Len(s) + 1) :
                                 j = Len(s) + 1 \/ j - i = ChunkSize \/ StartsReused(chunks, s, j)}
                      end == CHOOSE j \in ends : \A k \in ends : j <= k
                  IN  <<SubSeq(s, i, end - 1)>> \o cut[end]
  IN  cut[1]
(* mergeHistoryIntoCandleRepository *)
MergedRepository(chunks, history) ==
  LET h == Normalized(history)
      current == Materialized(chunks)
      kept == SelectSeq(current, LAMBDA c : KeepsLive(c, h))
  IN  IF h = <<>> THEN chunks
      ELSE IF chunks = <<>> THEN Repository(h)
      ELSE Rechunked(chunks, Newest(Normalized(h \o kept)))

(***************************************************************************)
(* The store.  chartOptimizationRollout decides write by write.            *)
(***************************************************************************)
UsesChunks(n) == n >= LargeHistory
SeriesOf(k) == IF k \in DOMAIN cache.flat THEN cache.flat[k] ELSE <<>>
RepositoryOf(k) == IF k \in DOMAIN cache.repos THEN cache.repos[k] ELSE Repository(SeriesOf(k))

CacheInit ==
  /\ cache \in [flat : {None}, repos : {None}, lru : {<<>>}, engine : {None}, active : Market]
  /\ cacheSteps = 0

(* evictCandleRepositories: the least recently written first, never the    *)
(* written market or the selected one.                                     *)
Length(repos, K) == Len(FlattenSeq([i \in 1..Cardinality(K) |-> Materialized(repos[SetToSeq(K)[i]])]))
WithinBudget(repos, K) == Cardinality(K) <= MaxRepositories /\ Length(repos, K) <= MaxCached
Surviving(repos, lru, protected) ==
  LET order == SelectSeq(lru, LAMBDA k : k \in DOMAIN repos \ protected)
      left(n) == DOMAIN repos \ {order[i] : i \in 1..n}
      enough == {n \in 0..Len(order) : WithinBudget(repos, left(n)) \/ n = Len(order)}
  IN  left(CHOOSE n \in enough : \A m \in enough : n <= m)
(* commitCandleRepository: what has no repository afterwards is no longer  *)
(* kept flat either.                                                       *)
CommitSeries(old, k, chunks) ==
  LET lru == Append(Remove(old.lru, k), k)
      repos == Put(old.repos, k, chunks)
      kept == Surviving(repos, lru, {k, old.active})
  IN  [old EXCEPT !.repos = [x \in kept |-> repos[x]],
                  !.flat = Put([x \in DOMAIN old.flat \intersect kept |-> old.flat[x]], k, Materialized(chunks)),
                  !.lru = SelectSeq(lru, LAMBDA x : x \in kept)]

(* updateCandleAtom *)
CandleWritten(old, k, c) ==
  LET s == IF k \in DOMAIN old.flat THEN old.flat[k] ELSE <<>>
      repo == IF k \in DOMAIN old.repos THEN old.repos[k] ELSE Repository(s)
      next == UpsertedRepository(repo, c)
  IN  IF c.value = Nothing THEN old
      ELSE IF ~ UsesChunks(AtLeast(Len(s), 1)) THEN [old EXCEPT !.flat = Put(@, k, Upserted(s, c))]
      ELSE IF next = repo THEN old
      ELSE CommitSeries(old, k, next)
UpdateCandle(k, c) == CacheStep /\ cache' = CandleWritten(cache, k, c)

(* setCandlesAtom *)
SetFlat(k, candles, replace) ==
  LET next == IF replace \/ SeriesOf(k) = <<>> THEN Newest(Normalized(candles))
              ELSE Merged(candles, SeriesOf(k))
  IN  cache' = IF next = SeriesOf(k) THEN cache
               ELSE [cache EXCEPT !.flat = Put(@, k, next),
                                  !.repos = IF replace THEN Drop(@, {k}) ELSE @]
SetChunked(k, candles, replace) ==
  LET fresh == replace \/ SeriesOf(k) = <<>>
      next == IF fresh THEN Repository(candles) ELSE MergedRepository(RepositoryOf(k), candles)
      unchanged == ~ fresh /\ Materialized(next) = Materialized(RepositoryOf(k))
  IN  cache' = IF unchanged \/ (Materialized(next) = SeriesOf(k) /\ k \in DOMAIN cache.repos)
               THEN cache ELSE CommitSeries(cache, k, next)
SetCandles(k, candles, replace) ==
  /\ CacheStep
  /\ IF UsesChunks(AtLeast(Len(SeriesOf(k)), Len(candles)))
     THEN SetChunked(k, candles, replace) ELSE SetFlat(k, candles, replace)

(* selectMarketAtom; the candles of the market that is left stay cached. *)
SelectMarket(k) == CacheStep /\ cache.active # k /\ cache' = [cache EXCEPT !.active = k]

(* CandleEngine.seedHistory and applyTick: a tick of a later time closes   *)
(* the forming candle; one of an earlier time changes nothing.             *)
SeededSeries(k) ==
  IF k \in DOMAIN cache.engine THEN cache.engine[k]
  ELSE IF SeriesOf(k) # <<>> THEN [SeriesOf(k)[Len(SeriesOf(k))] EXCEPT !.closed = FALSE]
  ELSE Nothing
(* handleEvent: a quote of a provider that sends only ticks *)
ApplyTick(k, t, v) ==
  LET cur == SeededSeries(k)
      fresh == [time |-> t, value |-> v, closed |-> FALSE]
      forming == IF cur = Nothing THEN fresh ELSE IF t < cur.time THEN cur ELSE fresh
      closes == cur # Nothing /\ t > cur.time
      before == IF closes THEN CandleWritten(cache, k, [cur EXCEPT !.closed = TRUE]) ELSE cache
  IN  /\ CacheStep
      /\ cache' = [CandleWritten(before, k, forming) EXCEPT !.engine = Put(@, k, forming)]
(* unsubscribe: the next subscriber's first tick is seeded again. *)
ResetEngine(k) ==
  /\ CacheStep /\ k \in DOMAIN cache.engine
  /\ cache' = [cache EXCEPT !.engine = Drop(@, {k})]
(* resetAtom; the engine is the service's and stays. *)
ResetStore ==
  /\ CacheStep
  /\ cache' = [cache EXCEPT !.flat = None, !.repos = None, !.lru = <<>>]

CacheNext ==
  \/ \E k \in Market :
       \/ \E c \in Candles \union {Unreadable} : UpdateCandle(k, c)
       \/ \E candles \in Histories, replace \in BOOLEAN : SetCandles(k, candles, replace)
       \/ \E t \in 1..LastMinute, v \in Value : ApplyTick(k, t, v)
       \/ SelectMarket(k) \/ ResetEngine(k)
  \/ ResetStore

(***************************************************************************)
(* Properties.                                                             *)
(***************************************************************************)
(* A write through the chunks publishes what the flat write of the same    *)
(* candle or history publishes, and a lookup finds the candle that is      *)
(* there: chunks, splits, reuse and trimming are never seen.               *)
ChunkingIsInvisible ==
  \A k \in DOMAIN cache.repos :
    LET chunks == cache.repos[k]
        s == Materialized(chunks)
    IN  /\ s = Newest(Normalized(s))
        /\ \A c \in Candles :
             /\ Materialized(UpsertedRepository(chunks, c)) = Upserted(s, c)
             /\ Materialized(MergedRepository(chunks, <<c>>)) = Merged(<<c>>, s)
        /\ \A t \in 1..LastMinute :
             IF t \in Times(s) THEN s[FindIndex(chunks, t)].time = t ELSE FindIndex(chunks, t) = 0

(* A write to another market leaves the candles of the selected market     *)
(* alone: the target key and the selected market are protected.            *)
ActiveSeriesKept ==
  [][\A k \in Market :
       k = cache.active /\ k = cache'.active /\ k \in DOMAIN cache.flat /\ cache'.flat # None
         => k \in DOMAIN cache'.flat]_cacheVars
=============================================================================
