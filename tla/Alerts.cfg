SPECIFICATION MCSpec
CONSTANTS
  Nothing = Nothing
  AlertId = {a1, a2}
  Kind <- MCKind
  Price = {1, 2}
  Rearm = 2
  MaxTick = 3
  MaxMutations = 2
  MaxFaults = 1
  MaxReconciles = 1
  Worker = {w1}
  Channel = {push, telegram}
  RearmTicks = 1
  MaxTime = 2
  MaxEditions = 1
  MaxMishaps = 1
  MaxWriteAttempts = 2
INVARIANTS NotifiedOnce DeliveredOnce
PROPERTIES AlertsSettle OwedDrains
CHECK_DEADLOCK FALSE
