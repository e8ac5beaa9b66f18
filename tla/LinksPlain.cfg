SPECIFICATION LinkSpec
CONSTANTS
  s1 = s1
  s2 = s2
  r1 = r1
  r2 = r2
  Sessions = {}
  BlankSessions = {}
  NoSession = NoSession
  Gone = Gone
  NoToken = NoToken
  RequiresSession = FALSE
  MaxDeliveryCount = 3
  LockDuration = 1
  DefaultTTL <- MCNoTTL
  DeadLetterOnExpiration = FALSE
  Delays <- MCDelays
  TimesToLive <- MCNoTTLs
  MaxSequence = 2
  DeliveryCap = 3
  Receivers = {r1, r2}
  Wants <- MCPlain
SYMMETRY MCSymmetry
PROPERTIES OthersKeepTheirLock ArrivalsWake
CHECK_DEADLOCK FALSE
