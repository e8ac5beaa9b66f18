-------------------------- MODULE MCReceiverLinks --------------------------
(* Values for the constants of ReceiverLinks that a configuration file      *)
(* cannot write.                                                            *)
EXTENDS ReceiverLinks

CONSTANTS s1, s2, r1, r2

MCNoTTL == -1
MCNoTTLs == {-1}
MCDelays == {-1, 1}
MCPlain == [r \in Receivers |-> NoSession]
MCMixed == (r1 :> s1) @@ (r2 :> NoSession)
MCSymmetry == Permutations(Receivers)
=============================================================================
