SPECIFICATION MCSpec
CONSTANTS
  Nothing = Nothing
  Focus = {"candles", "feed", "history", "surface", "time", "indicators", "drag", "technical"}
  Market = {k1, k2}
  Value = {v}
  LastMinute = 4
  ChunkSize = 2
  MaxCandles = 3
  LargeHistory = 2
  MaxRepositories = 1
  MaxCached = 3
  MaxCacheSteps = 2
  FeedKind = {"mt5", "binance", "twelvedata", "oanda"}
  Quoted = {x, y}
  Channel = {"ticker", "m1"}
  LastStamp = 1
  MaxSockets = 2
  MaxFeedSteps = 5
  Charted = {g, h}
  Mt5Charted = {g}
  Reach = 2
  MaxRefreshRetries = 1
  MaxHistorySteps = 5
  SurfaceMarket = {k, l}
  ReplayRun = {r}
  FitBars = 2
  LastTime = 3
  MaxSurfaceSteps = 4
  NavSymbol = {"k", "l"}
  Traded <- TradedAt
  Shortcut <- ShortcutDays
  Zone <- ZoneRules
  LastTick = 5
  SeedBars = 2
  MaxNavSteps = 4
  Traced = {"i", "j"}
  Warming = {"i", "j"}
  RuntimeChart = {"a"}
  LastCutoff = 2
  MaxConcurrent = 1
  ReplayResults = 2
  MaxRuntimeSteps = 5
  MaxSessions = 2
  MaxEvents = 3
  MaxReplaySteps = 4
  MaxChartPanes = 2
  Chosen = {m, n}
  PaneAlert = {p}
  LastBar = 1
  MaxChoiceSteps = 3
  Alarm = {"i", "j"}
  PriceLevel = {1, 2, 3}
  Threshold = 2
  Finger = {1, 2}
  MaxDragSteps = 3
  Watched <- One
  Targets <- Forms
  TickPrice = {1, 2, 4}
  MaxTicks = 3
  MaxArmings = 1
  SimId = {q1, q2}
  SimSymbol = {x}
  MaxSimSteps = 4
INVARIANTS
  ChunkingIsInvisible Mt5StreamsFollowReferences OnlyAuthoritativeWindows
  ChartShowsWhatWasAsked LinesFollowTheStore FiredAtTheFirstCrossing
  IndicatorsAreServed
CHECK_DEADLOCK FALSE
