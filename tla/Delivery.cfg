SPECIFICATION Spec
CONSTANTS
  Command = {c1}
  Terminal = {t1}
  Session = {s1, s2, s3}
  NoSession = NoSession
  NoCommand = NoCommand
  MaxPending = 1
  MaxPerPoll = 1
  MaxActivations = 1
  CommandLease = 1
  DeliveryTtl = 2
  DeferredTtl = 2
  PollFreshness = 1
  UnknownBackoff = 1
  ReleaseBackoff = 1
  MaxInFlight = 2
  MaxFaults = 2
  MaxDisconnects = 1
  JournalFaults = FALSE
SYMMETRY Symmetry
INVARIANT TypeOK
INVARIANT AtMostOncePerTerminal
INVARIANT AcceptedIsExecuted
INVARIANT UndeliveredNeverExecuted
PROPERTY OutcomeIsFinal
PROPERTY NeverRedelivered
