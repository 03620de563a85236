SPECIFICATION Spec
CONSTANTS
  Command = {c1, c2}
  Terminal = {t1}
  Session = {s1, s2, s3}
  NoSession = NoSession
  NoCommand = NoCommand
  MaxPending = 2
  MaxPerPoll = 2
  MaxActivations = 1
  CommandLease = 1
  DeliveryTtl = 2
  DeferredTtl = 2
  PollFreshness = 1
  UnknownBackoff = 1
  ReleaseBackoff = 1
  MaxInFlight = 1
  MaxFaults = 1
  MaxDisconnects = 0
  JournalFaults = FALSE
SYMMETRY Symmetry
PROPERTY KeepsPromise
