------------------------- MODULE MCServiceRegistry -------------------------
(* A small instance of ServiceRegistry for TLC.  Three clients compete for *)
(* two places, and the channels are not symmetric: a liveness property is  *)
(* checked with the invariants.                                            *)
EXTENDS ServiceRegistry, TLC
=============================================================================
