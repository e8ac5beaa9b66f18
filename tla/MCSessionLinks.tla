--------------------------- MODULE MCSessionLinks ---------------------------
(* Two links on one AMQP session and a third on another.                    *)
EXTENDS SessionLinks, TLC

CONSTANTS l1, l2, l3, c1, c2

MCConnectionOf == (l1 :> c1) @@ (l2 :> c1) @@ (l3 :> c2)
=============================================================================
