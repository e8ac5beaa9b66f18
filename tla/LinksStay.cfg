SPECIFICATION StaySpec
CONSTANTS
  s1 = s1
  s2 = s2
  r1 = r1
  r2 = r2
  Sessions = {s1, s2}
  BlankSessions = {}
  NoSession = NoSession
  Gone = Gone
  NoToken = NoToken
  RequiresSession = TRUE
  MaxDeliveryCount = 3
  LockDuration = 1
  DefaultTTL <- MCNoTTL
  DeadLetterOnExpiration = FALSE
  Delays <- MCDelays
  TimesToLive <- MCNoTTLs
  MaxSequence = 2
  DeliveryCap = 3
  Receivers = {r1, r2}
  Wants <- MCMixed
PROPERTIES ActiveServed PoisonBuried
CHECK_DEADLOCK FALSE
