----------------------------- MODULE EngineHandle -----------------------------
(***************************************************************************)
(* What a connection may rely on of the engine that it holds: the process     *)
(* starts once, is handed over at most once, and a stop that reports success  *)
(* is the truth and the end of it.  EngineProcess keeps this, and the engines *)
(* of ConnectLifecycle are no more than this.                                *)
(***************************************************************************)
VARIABLES
    process, \* "none", "running", "exited"
    told     \* what its holder was last told: "nothing", "started", "stopped", "in doubt"

vars == <<process, told>>

Init == process = "none" /\ told = "nothing"

\* The start may be over at once, or the process be there before anybody is told.
Start == process = "none" /\ process' = "running" /\ told' \in {"nothing", "started"}

Hand == process # "none" /\ told = "nothing" /\ told' = "started" /\ UNCHANGED process

\* It exits by itself, or because it is asked to or made to.
Exit == process = "running" /\ process' = "exited" /\ UNCHANGED told

\* A stop, whoever asks for it, and whether or not the start succeeded: the process is
\* seen to have exited ...
Confirm ==
    /\ process # "none" /\ told # "stopped"
    /\ process' = "exited" /\ told' = "stopped"

\* ... or nobody knows.
Doubt == process # "none" /\ told # "stopped" /\ told' = "in doubt" /\ UNCHANGED process

Next == Start \/ Hand \/ Exit \/ Confirm \/ Doubt

Spec == Init /\ [][Next]_vars
=============================================================================
