SPECIFICATION Spec
CONSTANTS
  q1 = q1
  q2 = q2
  s1 = s1
  s2 = s2
  Names = {q1, q2}
  Shards = {s1, s2}
  ShardOf <- MCShardOf
  Clients = {c1, c2}
  Workers = 3
  MaxActors = 2
  MaxSeq = 2
INVARIANTS ExportComplete AcceptedKept
PROPERTIES ExportGetsThrough
CHECK_DEADLOCK FALSE
