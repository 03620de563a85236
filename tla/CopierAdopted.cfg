SPECIFICATION AdoptedSpec
CONSTANTS
  Order = {o1}
  Position = {p1}
  NoEntity = NoEntity
  Worker = {w1, w2}
  MaxWork = 4
  MaxAttempts = 2
  MaxFaults = 1
  MaxActions = 1
SYMMETRY Symmetry
INVARIANT Serialized
PROPERTY SupersededNeverIssued
PROPERTY FinishedStaysFinished
CHECK_DEADLOCK FALSE
