SPECIFICATION SessionSpec
CONSTANTS
  l1 = l1
  l2 = l2
  l3 = l3
  c1 = c1
  c2 = c2
  Links = {l1, l2, l3}
  Connections = {c1, c2}
  ConnectionOf <- MCConnectionOf
  SessionIds = {a, b}
  Ungranted = Ungranted
  MaxGeneration = 1
INVARIANTS LocksOwned
CHECK_DEADLOCK FALSE
