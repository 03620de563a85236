SPECIFICATION MCSpec
CONSTANTS
  Nothing = Nothing
  Focus = {"session", "journal", "watchlists", "tabs", "layouts", "preferences", "indicators",
           "editing", "settings", "pine"}
  Page = {1, 2}
  Person = {"u", "v"}
  MaxServed = 3
  MaxAuthSteps = 3
  EntryId = {e1, e2}
  Trader = {u1, u2}
  MaxJournalSteps = 4
  Listed = {x, y, z}
  SectionId = {h, i}
  MaxWatchSteps = 3
  TabUser = {u1, u2}
  Arrangement = {v, w}
  MaxChartTasks = 2
  MaxTabSteps = 3
  Snapshot = {s, t}
  MaxLayouts = 3
  MaxLayoutSteps = 4
  Choice = {v, w}
  InitialChoice = v
  MaxPreferenceSteps = 3
  Pane <- Panes
  IndicatorKind = {"rsi"}
  Settings = {s, t}
  DefaultSettings = s
  MaxIndicators = 2
  MaxIndicatorSteps = 4
  Chart = {c1, c2}
  Drawn = {d1, d2}
  Contact = {p1, p2}
  CreationTool = {"two", "freeform", "brush", "text"}
  Places = 2
  MaxHistory = 1
  MaxEdits = 2
  Styled = {d}
  PositionDrawn = {q}
  Tint = {1, 2}
  TemplateName = {n}
  CustomColorLimit = 1
  MaxSettingSteps = 4
  MaxScripts = 2
  MaxTexts = 1
  MaxPineTasks = 2
  MaxPineSteps = 4
INVARIANTS
  TokensAreSingleUse OfflineEntriesSurvive LayoutsConverge SavedIsAtTheServer ChoicesLand
  EditsCanBeTakenBack SourceBelongs
CHECK_DEADLOCK FALSE
