------------------------- MODULE MCEngineLifecycle -------------------------
(* Two queues, and a message for each of them.                              *)
EXTENDS EngineLifecycle, TLC

CONSTANTS q1, q2, m1, m2

MCQueueOf == (m1 :> q1) @@ (m2 :> q2)
=============================================================================
