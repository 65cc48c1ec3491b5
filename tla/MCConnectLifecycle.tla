------------------------- MODULE MCConnectLifecycle -------------------------
(* ConnectLifecycle on small instances: a few starts, one or two stoppers.   *)
EXTENDS ConnectLifecycle, TLC

MCSymmetry == Permutations(Attempts) \cup Permutations(Stops)
=============================================================================
