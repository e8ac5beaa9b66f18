SPECIFICATION Spec
CONSTANTS
  c1 = c1
  c2 = c2
  op1 = op1
  Clients = {c1, c2}
  Operations = {op1}
  NoOperation = NoOperation
  BreezeBodies <- MCBreezeBodies
  LogBodies <- MCLogBodies
  SpanBodies <- MCSpanBodies
  MetricBodies <- MCMetricBodies
  MAX_ITEMS = 3
  MaxItems = 5
  MaxRequests = 3
  MaxLives = 2
SYMMETRY Symmetry
INVARIANTS DistinctIds ListedInOrder NewestKept KeysStay
CHECK_DEADLOCK FALSE
