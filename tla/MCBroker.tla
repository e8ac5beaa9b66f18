-------------------------------- MODULE MCBroker --------------------------------
\* Two queues in one of two shards; the clients leave one of three worker threads free.
EXTENDS Broker, TLC

CONSTANTS q1, q2, s1, s2

MCShardOf == (q1 :> s1) @@ (q2 :> s1)
=============================================================================
