--------------------------- MODULE MCEngineProcess ---------------------------
(* EngineProcess with a call and a stop, which makes a call of its own.       *)
EXTENDS EngineProcess

\* Everything that may go wrong.
MCFaults == {"start", "supervise", "frame", "wedged", "full"}
=============================================================================
