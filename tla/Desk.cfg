SPECIFICATION MCSpec
CONSTANTS
  Nothing = Nothing
  Tab = {t1, t2}
  MaxApprovals = 3
  MaxRefusals = 1
  Account = {a1, a2}
  Ticket = {k1}
  Drawn = {1}
  MaxCommands = 1
  MaxTurns = 1
  Profile = {p1, p2}
  LockedRules = {p1}
  MaxGuardSteps = 5
  Item = {i1, i2}
  MaxRailSteps = 4
  Copied = {s, f, g}
  MaxCopySteps = 3
  EntryAccount = {a, b}
  Instruments <- SampleInstruments
  Sketched = {d}
  Equities = {1000}
  MaxEntrySteps = 3
  Focus = {"security", "desk", "risk", "rail", "routes", "manage", "copier", "entry"}
INVARIANTS
  OnePromptPerBrowser CardKeepsUp OrdersRiskWhatWasMeant
PROPERTIES
  CommandsFollowOutcomes RailEndsAsServer SavesReplaceWhatWasSeen
CHECK_DEADLOCK FALSE
