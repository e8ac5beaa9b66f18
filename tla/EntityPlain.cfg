SPECIFICATION Spec
CONSTANTS
  Sessions = {}
  BlankSessions = {}
  NoSession = NoSession
  Gone = Gone
  NoToken = NoToken
  RequiresSession = FALSE
  MaxDeliveryCount = 3
  LockDuration = 1
  DefaultTTL <- MCNoTTL
  DeadLetterOnExpiration = TRUE
  Delays <- MCDelays
  TimesToLive <- MCTimesToLive
  MaxSequence = 3
  DeliveryCap = 3
INVARIANTS TypeOK OnePlace Accounted LocksMatch StateMatchesBucket FreshInOrder
PROPERTIES OneHolder LifecycleSpec
CHECK_DEADLOCK FALSE
