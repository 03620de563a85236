SPECIFICATION FairSpec
CONSTANTS
  Id = {d1}
  Symbol = {s1, s2}
  FirstSymbol = s1
  Layout = {l1}
  DefaultLayout = l1
  DefaultChart = c1
  Chart = {c1, c2}
  Nothing = Nothing
  MaxEdits = 2
  MaxMoves = 2
  MaxGen = 3
INVARIANT NothingDropped
CHECK_DEADLOCK FALSE
PROPERTY Drains
