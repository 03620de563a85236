SPECIFICATION OneEntityFairSpec
CONSTANTS
  Order = {o1}
  Position = {p1}
  NoEntity = NoEntity
  Worker = {w1}
  MaxWork = 2
  MaxAttempts = 2
  MaxFaults = 1
  MaxActions = 0
PROPERTY HeadFinishes
CHECK_DEADLOCK FALSE
