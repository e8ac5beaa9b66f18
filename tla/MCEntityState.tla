--------------------------- MODULE MCEntityState ---------------------------
(* Values for the constants of EntityState that a configuration file cannot *)
(* write: None is -1.                                                       *)
EXTENDS EntityState

MCNoTTL == -1
MCNoTTLs == {-1}
MCDelays == {-1, 1}
MCTimesToLive == {-1, 1}
=============================================================================
