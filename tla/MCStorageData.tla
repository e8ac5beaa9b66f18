---------------------------- MODULE MCStorageData ----------------------------
\* Two clients with one queue, one table and one container between them.
EXTENDS StorageData, TLC

CONSTANTS c1, c2, q1, t1, k1, n1, b1, b2

MCTimeouts == {-1, 1}
MCTTLs     == {-1, 1}
MCCounts   == {1, 2}
Symmetry   == Permutations(Clients) \cup Permutations(Blobs)

\* A bound: either the queue of the account is in use, or its table and its container.
\* The stores share nothing but the clients' attention and the UUIDs.
OneStore ==
  \/ \A q \in Queues : ~Open(q)
  \/ (\A t \in Tables : ~Has(t)) /\ (\A n \in Containers : ~Exists(n))
=============================================================================
