SPECIFICATION Spec
CONSTANTS
  Clients = {c1, c2}
  c1 = c1
  c2 = c2
  Absent = Absent
  MaxStamp = 4
  Queues = {q1}
  q1 = q1
  Tables = {t1}
  t1 = t1
  Keys = {k1}
  k1 = k1
  Containers = {n1}
  n1 = n1
  Blobs = {b1, b2}
  b1 = b1
  b2 = b2
  Timeouts <- MCTimeouts
  TTLs <- MCTTLs
  Counts <- MCCounts
SYMMETRY Symmetry
INVARIANTS AcceptedKept LeasesAgree PeekShowsNext EtagNamesContent
PROPERTIES LeaseHonoured IfMatchHonoured
CONSTRAINT OneStore
CHECK_DEADLOCK FALSE
