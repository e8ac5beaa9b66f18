SPECIFICATION FairSpec
CONSTANTS
  Sessions = {s1, s2, blank}
  BlankSessions = {blank}
  NoSession = NoSession
  Gone = Gone
  NoToken = NoToken
  RequiresSession = TRUE
  MaxDeliveryCount = 3
  LockDuration = 1
  DefaultTTL <- MCNoTTL
  DeadLetterOnExpiration = FALSE
  Delays <- MCDelays
  TimesToLive <- MCNoTTLs
  MaxSequence = 2
  DeliveryCap = 3
INVARIANTS SessionsCarried
PROPERTIES ScheduledPromoted LocksEnd
CHECK_DEADLOCK FALSE
