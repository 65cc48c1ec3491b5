--------------------------- MODULE MCSystemProxy ---------------------------
(* SystemProxy on small instances: one port of ours, one proxy of the user. *)
EXTENDS SystemProxy, TLC

MCOurServers == {"127.0.0.1:2080"}
MCUserServers == {"corp:8080"}
MCSymmetry == Permutations(Callers)
=============================================================================
