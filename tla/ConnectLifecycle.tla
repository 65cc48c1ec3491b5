-------------------------- MODULE ConnectLifecycle --------------------------
(***************************************************************************)
(* Connecting, disconnecting and recovering: startWhiteDNSVPNWithMihomo and   *)
(* stopMihomo (mihomo_connect.go), StopConnection (app.go) and the health     *)
(* watch (mihomo_watchdog.go), with every interleaving of their callers.      *)
(*                                                                          *)
(* The interface and the tray call StartWhiteDNSVPNConnection and             *)
(* StopConnection on goroutines of their own.  An attempt is one such start;  *)
(* its session and its engine carry the attempt's name.  What they share:     *)
(* the status (under a.mu), the registered cancel function (under connectMu), *)
(* the session slot a.mihomo (under its own lock) and the machine's proxy.    *)
(* No lock is held from one of these to the next.                            *)
(***************************************************************************)
EXTENDS FiniteSets

CONSTANTS
    Attempts,         \* calls of StartWhiteDNSVPNConnection: a bound
    Stops,            \* goroutines that call StopConnection, any number of times
    None,             \* no session, no attempt
    ConcurrentStarts, \* a start may be called while another is in flight
    CloseMayFail,     \* Close may leave the engine running
    Recovery          \* connections may stop carrying traffic

ASSUME LifecycleAssumption ==
    /\ None \notin Attempts
    /\ {ConcurrentStarts, CloseMayFail, Recovery} \subseteq BOOLEAN

VARIABLES
    status,    \* Runtime.Status
    slot,      \* mihomoState.session
    cancelReg, \* connectCancel: the attempt it cancels
    cancelled, \* the attempts whose context is done
    engine,    \* each attempt's engine: "none", "running", "stopped", "stuck"
    proxy,     \* whose port the machine's proxy setting names
    pc, prev,  \* each start's position and its local previous
    stopPc, took, \* each stop's position and what it took hold of
    watch      \* each session's health watcher

vars == <<status, slot, cancelReg, cancelled, engine, proxy, pc, prev, stopPc, took, watch>>
start == <<pc, prev>>
stop == <<stopPc, took>>

Maybe == Attempts \cup {None}

Statuses == {"Disconnected", "Connecting", "Connected", "Stopping", "Failed"}

\* Before beginConnect has registered the attempt, ...
Before == {"idle", "cleanup", "closePrevious", "clearSlot", "restore", "register"}
\* ... from there until adoptSession, ...
Connecting == {"supersede", "connecting", "fetch", "spawn", "prove", "closeFailed", "adopt"}
\* ... and afterwards, adopted or not.
After == {"retain", "report", "reportStopped", "reportFailed", "unadopt", "closeReplaced",
          "capture", "announce", "done"}

TypeOK ==
    /\ status \in Statuses
    /\ slot \in Maybe /\ cancelReg \in Maybe /\ proxy \in Maybe
    /\ cancelled \subseteq Attempts
    /\ engine \in [Attempts -> {"none", "running", "stopped", "stuck"}]
    /\ pc \in [Attempts -> Before \cup Connecting \cup After]
    /\ prev \in [Attempts -> Maybe]
    /\ stopPc \in [Stops -> {"idle", "take", "cancel", "begin", "swap", "close", "restore",
                             "settle"}]
    /\ took \in [Stops -> Maybe]
    /\ watch \in [Attempts -> {"off", "on", "seen", "recovering", "answer"}]

Init ==
    /\ status = "Disconnected"
    /\ slot = None /\ cancelReg = None /\ proxy = None
    /\ cancelled = {}
    /\ engine = [a \in Attempts |-> "none"]
    /\ pc = [a \in Attempts |-> "idle"]
    /\ prev = [a \in Attempts |-> None]
    /\ stopPc = [s \in Stops |-> "idle"]
    /\ took = [s \in Stops |-> None]
    /\ watch = [a \in Attempts |-> "off"]

Goto(a, label) == pc' = [pc EXCEPT ![a] = label]
StopGoto(s, label) == stopPc' = [stopPc EXCEPT ![s] = label]

\* Session.Close: the engine is gone, or it would not go.  One that has gone is not
\* stopped again (Process.Stop).
Close(e) ==
    \E outcome \in {"stopped", "stuck"} :
        /\ outcome = "stuck" => CloseMayFail /\ engine[e] # "stopped"
        /\ engine' = [engine EXCEPT ![e] = outcome]

-----------------------------------------------------------------------------
(* startWhiteDNSVPNWithMihomo.                                               *)

\* The status is read under a.mu, which is then released.
StartCheck(a) ==
    /\ pc[a] = "idle"
    /\ status \in {"Disconnected", "Failed"}
    /\ ConcurrentStarts \/ \A b \in Attempts : pc[b] \in {"idle", "done"} \/ b \in cancelled
    /\ Goto(a, "cleanup")
    /\ UNCHANGED <<status, slot, cancelReg, cancelled, engine, proxy, prev, stop, watch>>

\* A failed attempt may have left an engine whose cleanup needs a retry.
Cleanup(a) ==
    /\ pc[a] = "cleanup"
    /\ prev' = [prev EXCEPT ![a] = slot]
    /\ Goto(a, IF slot = None THEN "register" ELSE "closePrevious")
    /\ UNCHANGED <<status, slot, cancelReg, cancelled, engine, proxy, stop, watch>>

ClosePrevious(a) ==
    /\ pc[a] = "closePrevious"
    /\ Close(prev[a])
    /\ Goto(a, IF engine'[prev[a]] = "stopped" THEN "clearSlot" ELSE "done")
    /\ UNCHANGED <<status, slot, cancelReg, cancelled, proxy, prev, stop, watch>>

ClearSlot(a) ==
    /\ pc[a] = "clearSlot"
    /\ slot' = None
    /\ Goto(a, "restore")
    /\ UNCHANGED <<status, cancelReg, cancelled, engine, proxy, prev, stop, watch>>

RestoreProxy(a) ==
    /\ pc[a] = "restore"
    /\ proxy' = None
    /\ Goto(a, "register")
    /\ UNCHANGED <<status, slot, cancelReg, cancelled, engine, prev, stop, watch>>

\* beginConnect registers under connectMu, and cancels the attempt it replaced
\* after the lock is released.
BeginConnect(a) ==
    /\ pc[a] = "register"
    /\ cancelReg' = a
    /\ prev' = [prev EXCEPT ![a] = cancelReg]
    /\ Goto(a, IF cancelReg = None THEN "connecting" ELSE "supersede")
    /\ UNCHANGED <<status, slot, cancelled, engine, proxy, stop, watch>>

Supersede(a) ==
    /\ pc[a] = "supersede"
    /\ cancelled' = cancelled \cup {prev[a]}
    /\ Goto(a, "connecting")
    /\ UNCHANGED <<status, slot, cancelReg, engine, proxy, prev, stop, watch>>

\* There is no core on disk, or there is one and the subscription is fetched.
AnnounceConnecting(a) ==
    /\ pc[a] = "connecting"
    /\ \/ status' = "Connecting" /\ Goto(a, "fetch")
       \/ UNCHANGED status /\ Goto(a, "report")
    /\ UNCHANGED <<slot, cancelReg, cancelled, engine, proxy, prev, stop, watch>>

\* The catalogue, the preferred nodes and the port: done, or one of them failed.
Fetch(a) ==
    /\ pc[a] = "fetch"
    /\ \/ status' = "Connecting" /\ Goto(a, "spawn")
       \/ UNCHANGED status /\ Goto(a, "report")
    /\ UNCHANGED <<slot, cancelReg, cancelled, engine, proxy, prev, stop, watch>>

\* ConnectOwned starts an engine unless the attempt was stopped before it could.
Spawn(a) ==
    /\ pc[a] = "spawn"
    /\ \/ a \notin cancelled /\ engine' = [engine EXCEPT ![a] = "running"] /\ Goto(a, "prove")
       \/ UNCHANGED engine /\ Goto(a, "report")
    /\ UNCHANGED <<status, slot, cancelReg, cancelled, proxy, prev, stop, watch>>

\* A request travels through the proxy, or the session comes back with an error.
Prove(a) ==
    /\ pc[a] = "prove"
    /\ Goto(a, "adopt") \/ Goto(a, "closeFailed")
    /\ UNCHANGED <<status, slot, cancelReg, cancelled, engine, proxy, prev, stop, watch>>

CloseFailed(a) ==
    /\ pc[a] = "closeFailed"
    /\ Close(a)
    /\ Goto(a, IF engine'[a] = "stopped" THEN "report" ELSE "retain")
    /\ UNCHANGED <<status, slot, cancelReg, cancelled, proxy, prev, stop, watch>>

\* An engine that would not stop is kept, for the next start to retry.
Retain(a) ==
    /\ pc[a] = "retain"
    /\ slot' = a
    /\ Goto(a, "report")
    /\ UNCHANGED <<status, cancelReg, cancelled, engine, proxy, prev, stop, watch>>

\* reportConnectFailure asks whether the user stopped it, and then says so.
ReportConnectFailure(a) ==
    /\ pc[a] = "report"
    /\ Goto(a, IF a \in cancelled THEN "reportStopped" ELSE "reportFailed")
    /\ UNCHANGED <<status, slot, cancelReg, cancelled, engine, proxy, prev, stop, watch>>

\* On the way out the deferred cancel() ends the attempt's context.
ReturnWith(a, outcome) ==
    /\ status' = outcome
    /\ cancelled' = cancelled \cup {a}
    /\ Goto(a, "done")

Report(a) ==
    /\ \/ pc[a] = "reportStopped" /\ ReturnWith(a, "Disconnected")
       \/ pc[a] = "reportFailed" /\ ReturnWith(a, "Failed")
    /\ UNCHANGED <<slot, cancelReg, engine, proxy, prev, stop, watch>>

AdoptUnchecked(a) == \* a mutant of AdoptSession:
    /\ pc[a] = "adopt"
    /\ cancelReg' = None
    /\ slot' = a
    /\ prev' = [prev EXCEPT ![a] = slot]
    /\ Goto(a, IF slot = None THEN "capture" ELSE "closeReplaced")
    /\ UNCHANGED <<status, cancelled, engine, proxy, stop, watch>>

\* adoptSession decides under the lock cancelConnect takes, so an attempt that
\* was stopped is not adopted.
AdoptSession(a) ==
    /\ pc[a] = "adopt"
    /\ IF a \in cancelled
       THEN Goto(a, "unadopt") /\ UNCHANGED <<slot, cancelReg, prev>>
       ELSE /\ cancelReg' = None
            /\ slot' = a
            /\ prev' = [prev EXCEPT ![a] = slot]
            /\ Goto(a, IF slot = None THEN "capture" ELSE "closeReplaced")
    /\ UNCHANGED <<status, cancelled, engine, proxy, stop, watch>>

CloseReplaced(a) ==
    /\ pc[a] = "closeReplaced"
    /\ Close(prev[a])
    /\ Goto(a, "capture")
    /\ UNCHANGED <<status, slot, cancelReg, cancelled, proxy, prev, stop, watch>>

UnadoptOnly(a) == \* a mutant of:
    /\ pc[a] = "unadopt"
    /\ Goto(a, "reportStopped")
    /\ UNCHANGED <<status, slot, cancelReg, cancelled, engine, proxy, prev, stop, watch>>
Unadopt(a) ==
    /\ pc[a] = "unadopt"
    /\ Close(a)
    /\ Goto(a, "reportStopped")
    /\ UNCHANGED <<status, slot, cancelReg, cancelled, proxy, prev, stop, watch>>

\* captureSystemProxy, in proxy mode; that it fails is not fatal.
CaptureProxy(a) ==
    /\ pc[a] = "capture"
    /\ proxy' \in {proxy, a}
    /\ Goto(a, "announce")
    /\ UNCHANGED <<status, slot, cancelReg, cancelled, engine, prev, stop, watch>>

AnnounceConnected(a) ==
    /\ pc[a] = "announce"
    /\ ReturnWith(a, "Connected")
    /\ watch' = [watch EXCEPT ![a] = "on"]
    /\ UNCHANGED <<slot, cancelReg, engine, proxy, prev, stop>>

-----------------------------------------------------------------------------
(* StopConnection.                                                           *)

StopConnection(s) ==
    /\ stopPc[s] = "idle"
    /\ StopGoto(s, "take")
    /\ UNCHANGED <<status, slot, cancelReg, cancelled, engine, proxy, start, took, watch>>

TakeCancelDropped(s) == \* a mutant of TakeCancel:
    /\ stopPc[s] = "take"
    /\ took' = [took EXCEPT ![s] = cancelReg]
    /\ cancelReg' = None
    /\ StopGoto(s, "begin")
    /\ UNCHANGED <<status, slot, cancelled, engine, proxy, start, watch>>

\* cancelConnect takes the registration under connectMu and cancels outside it.
TakeCancel(s) ==
    /\ stopPc[s] = "take"
    /\ took' = [took EXCEPT ![s] = cancelReg]
    /\ cancelReg' = None
    /\ StopGoto(s, IF cancelReg = None THEN "begin" ELSE "cancel")
    /\ UNCHANGED <<status, slot, cancelled, engine, proxy, start, watch>>

CancelConnect(s) ==
    /\ stopPc[s] = "cancel"
    /\ cancelled' = cancelled \cup {took[s]}
    /\ StopGoto(s, "begin")
    /\ UNCHANGED <<status, slot, cancelReg, engine, proxy, start, took, watch>>

BeginStopping(s) ==
    /\ stopPc[s] = "begin"
    /\ status' = IF status \in {"Connecting", "Connected"} THEN "Stopping" ELSE status
    /\ StopGoto(s, "swap")
    /\ UNCHANGED <<slot, cancelReg, cancelled, engine, proxy, start, took, watch>>

StopSwapUnsettled(s) == \* a mutant of StopSwap:
    /\ stopPc[s] = "swap"
    /\ took' = [took EXCEPT ![s] = slot]
    /\ slot' = None
    /\ StopGoto(s, IF slot = None THEN "idle" ELSE "close")
    /\ UNCHANGED <<status, cancelReg, cancelled, engine, proxy, start, watch>>

\* stopMihomo.  When nothing was running the status is settled all the same.
StopSwap(s) ==
    /\ stopPc[s] = "swap"
    /\ took' = [took EXCEPT ![s] = slot]
    /\ slot' = None
    /\ StopGoto(s, IF slot = None THEN "settle" ELSE "close")
    /\ UNCHANGED <<status, cancelReg, cancelled, engine, proxy, start, watch>>

StopClose(s) ==
    /\ stopPc[s] = "close"
    /\ Close(took[s])
    /\ StopGoto(s, "restore")
    /\ UNCHANGED <<status, slot, cancelReg, cancelled, proxy, start, took, watch>>

StopRestore(s) ==
    /\ stopPc[s] = "restore"
    /\ proxy' = None
    /\ StopGoto(s, "settle")
    /\ UNCHANGED <<status, slot, cancelReg, cancelled, engine, start, took, watch>>

StopSettle(s) ==
    /\ stopPc[s] = "settle"
    /\ status' = "Disconnected"
    /\ took' = [took EXCEPT ![s] = None]
    /\ StopGoto(s, "idle")
    /\ UNCHANGED <<slot, cancelReg, cancelled, engine, proxy, start, watch>>

-----------------------------------------------------------------------------
(* watchHealth and recoverConnection, for the session of attempt a.          *)

\* The watcher ends when its session is not the app's any more.  The status is
\* read, the probes follow, and the second failure starts a recovery.
WatchTick(a) ==
    /\ watch[a] = "on"
    /\ \/ slot # a /\ watch' = [watch EXCEPT ![a] = "off"]
       \/ /\ Recovery /\ slot = a /\ status = "Connected"
          /\ watch' = [watch EXCEPT ![a] = "seen"]
    /\ UNCHANGED <<status, slot, cancelReg, cancelled, engine, proxy, start, stop>>

RecoverConnection(a) ==
    /\ watch[a] = "seen"
    /\ status' = "Connecting"
    /\ watch' = [watch EXCEPT ![a] = "recovering"]
    /\ UNCHANGED <<slot, cancelReg, cancelled, engine, proxy, start, stop>>

\* Stopped or replaced while this was running: its outcome is dropped.
Recovered(a) ==
    /\ watch[a] = "recovering"
    /\ watch' = [watch EXCEPT ![a] = IF slot = a THEN "answer" ELSE "on"]
    /\ UNCHANGED <<status, slot, cancelReg, cancelled, engine, proxy, start, stop>>

\* On the new node, or still on the old one.
AnnounceRecovered(a) ==
    /\ watch[a] = "answer"
    /\ status' = "Connected"
    /\ watch' = [watch EXCEPT ![a] = "on"]
    /\ UNCHANGED <<slot, cancelReg, cancelled, engine, proxy, start, stop>>

-----------------------------------------------------------------------------
StartStep(a) ==
    \/ Cleanup(a) \/ ClosePrevious(a) \/ ClearSlot(a) \/ RestoreProxy(a)
    \/ BeginConnect(a) \/ Supersede(a) \/ AnnounceConnecting(a) \/ Fetch(a) \/ Spawn(a)
    \/ Prove(a) \/ CloseFailed(a) \/ Retain(a) \/ ReportConnectFailure(a) \/ Report(a)
    \/ AdoptSession(a) \/ CloseReplaced(a) \/ Unadopt(a) \/ CaptureProxy(a)
    \/ AnnounceConnected(a)

StopStep(s) ==
    \/ TakeCancel(s) \/ CancelConnect(s) \/ BeginStopping(s) \/ StopSwap(s)
    \/ StopClose(s) \/ StopRestore(s) \/ StopSettle(s)

WatchStep(a) ==
    \/ WatchTick(a) \/ RecoverConnection(a) \/ Recovered(a) \/ AnnounceRecovered(a)

Next ==
    \/ \E a \in Attempts : StartCheck(a) \/ StartStep(a) \/ WatchStep(a)
    \/ \E s \in Stops : StopConnection(s) \/ StopStep(s)

Spec == Init /\ [][Next]_vars

\* A goroutine that is running keeps running; nobody has to press a button.
FairSpec ==
    /\ Spec
    /\ \A a \in Attempts : WF_vars(StartStep(a))
    /\ \A s \in Stops : WF_vars(StopStep(s))

-----------------------------------------------------------------------------
(* Properties.                                                               *)

\* No call is in progress.
AtRest ==
    /\ \A a \in Attempts : pc[a] \in {"idle", "done"} /\ watch[a] \in {"off", "on"}
    /\ \A s \in Stops : stopPc[s] = "idle"

\* Somebody who will stop the engine of a, or let the user stop it, holds it.
Owned(a) ==
    \/ slot = a
    \/ pc[a] \in {"prove", "closeFailed", "adopt", "retain", "unadopt"}
    \/ \E b \in Attempts : prev[b] = a /\ pc[b] \in {"closePrevious", "closeReplaced"}
    \/ \E s \in Stops : took[s] = a /\ stopPc[s] = "close"

\* No engine runs with nothing pointing at it (mihomo_connect.go:387-390).
NoOrphan == \A a \in Attempts : engine[a] = "running" => Owned(a)

\* A connect that is under way can be stopped: it is the registered one, or its
\* context is done, or somebody is about to end it (mihomo_connect.go:353-357).
EveryConnectCanBeStopped ==
    \A a \in Attempts : pc[a] \in Connecting =>
        \/ cancelReg = a \/ a \in cancelled
        \/ \E b \in Attempts : pc[b] = "supersede" /\ prev[b] = a
        \/ \E s \in Stops : stopPc[s] = "cancel" /\ took[s] = a

\* A running session whose attempt was stopped does not become the app's, whoever
\* starts and stops at the same time (mihomo_connect.go:387-390).  Only an engine
\* that would not close is put in the slot after a stop.
StoppedIsNotAdopted ==
    [][\A a \in Attempts :
            a \in cancelled /\ slot # a /\ engine[a] = "running" => slot' # a]_slot

\* Once every call has returned the status says how things ended, and not that
\* something is still happening.
RestIsSettled == AtRest => status \notin {"Connecting", "Stopping"}

\* A stop ends what was connecting or connected when it was asked for
\* (mihomo_connect.go:353-357).
StopStops ==
    \A a \in Attempts :
        (pc[a] \notin Before /\ \E s \in Stops : stopPc[s] = "take")
            ~> (pc[a] = "done" /\ engine[a] # "running")

\* Each attempt's engine, as whoever holds it knows it.
Handle(a) == INSTANCE EngineHandle WITH
    process <- CASE engine[a] = "none" -> "none" [] engine[a] = "stopped" -> "exited"
                 [] OTHER -> "running",
    told <- CASE engine[a] = "none" -> "nothing" [] engine[a] = "running" -> "started"
              [] engine[a] = "stopped" -> "stopped" [] engine[a] = "stuck" -> "in doubt"

\* The engines that are started, held, closed and closed again here are what EngineProcess
\* implements: each is started once, and one that a stop has seen end stays ended.
EnginesAreHandled ==
    /\ \A a \in Attempts : Handle(a)!Init
    /\ [][\A a \in Attempts : [Handle(a)!Next]_(Handle(a)!vars)]_vars

\* What was stopped stays stopped, an attempt and an engine.
StoppedStaysStopped == StoppedIsNotAdopted /\ EnginesAreHandled

\* Nothing that runs or is on its way is out of reach of a stop: neither an engine
\* nor a connect.
NothingOutOfReach == NoOrphan /\ EveryConnectCanBeStopped
=============================================================================
