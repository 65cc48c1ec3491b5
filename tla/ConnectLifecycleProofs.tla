----------------------- MODULE ConnectLifecycleProofs -----------------------
(***************************************************************************)
(* Proofs about ConnectLifecycle, for any number of starts and of goroutines  *)
(* that stop.  Two theorems need a start to be called only once those before  *)
(* it have returned or been stopped, and one of them that Close works; one    *)
(* needs that no recovery begins.  And proofs about EngineProcess, the engine *)
(* that a start spawns and a stop closes: the two meet in EngineHandle, which  *)
(* the one is shown to keep and the other to ask no more of.                  *)
(***************************************************************************)
EXTENDS ConnectLifecycle, EngineProcess, TLAPS

OneStartAtATime == ~ConcurrentStarts
CloseWorks == ~CloseMayFail

\* Closing changes one engine: it is stopped, or would not go.
LEMMA CloseType ==
    ASSUME NEW e \in Attempts, engine \in [Attempts -> {"none", "running", "stopped", "stuck"}],
           Close(e)
    PROVE  /\ engine' \in [Attempts -> {"none", "running", "stopped", "stuck"}]
           /\ engine'[e] \in {"stopped", "stuck"}
           /\ CloseWorks => engine'[e] = "stopped"
           /\ \A a \in Attempts : a # e => engine'[a] = engine[a]
BY DEF Close, CloseWorks

-----------------------------------------------------------------------------
(* Types.                                                                    *)

\* Whoever closes, cancels or supersedes holds something to do it to.
HoldsSomething ==
    /\ \A a \in Attempts :
        pc[a] \in {"closePrevious", "closeReplaced", "supersede"} => prev[a] \in Attempts
    /\ \A s \in Stops : stopPc[s] \in {"cancel", "close"} => took[s] \in Attempts

Types == TypeOK /\ HoldsSomething

LEMMA InitTypes == Init => Types
BY LifecycleAssumption
DEF Init, Types, TypeOK, HoldsSomething, Maybe, Statuses, Before

\* A start, step by step.
LEMMA StartTypes ==
    ASSUME Types, NEW a \in Attempts, StartCheck(a) \/ StartStep(a)
    PROVE  Types'
<1> USE DEF Types, TypeOK, HoldsSomething, Maybe, Statuses, Before, Connecting, After, Goto,
    start, stop
<1>1. CASE StartCheck(a)
  BY <1>1 DEF StartCheck
<1>2. CASE Cleanup(a)
  BY <1>2 DEF Cleanup
<1>3. CASE ClosePrevious(a)
  BY <1>3, CloseType DEF ClosePrevious
<1>4. CASE ClearSlot(a) \/ RestoreProxy(a)
  BY <1>4 DEF ClearSlot, RestoreProxy
<1>5. CASE BeginConnect(a)
  BY <1>5 DEF BeginConnect
<1>6. CASE Supersede(a)
  BY <1>6 DEF Supersede
<1>7. CASE AnnounceConnecting(a) \/ Fetch(a)
  BY <1>7 DEF AnnounceConnecting, Fetch
<1>8. CASE Spawn(a)
  BY <1>8 DEF Spawn
<1>9. CASE Prove(a)
  BY <1>9 DEF Prove
<1>10. CASE CloseFailed(a)
  BY <1>10, CloseType DEF CloseFailed
<1>11. CASE Retain(a)
  BY <1>11 DEF Retain
<1>12. CASE ReportConnectFailure(a)
  BY <1>12 DEF ReportConnectFailure
<1>13. CASE Report(a)
  BY <1>13 DEF Report, ReturnWith
<1>14. CASE AdoptSession(a)
  BY <1>14 DEF AdoptSession
<1>15. CASE CloseReplaced(a)
  BY <1>15, CloseType DEF CloseReplaced
<1>16. CASE Unadopt(a)
  BY <1>16, CloseType DEF Unadopt
<1>17. CASE CaptureProxy(a)
  BY <1>17 DEF CaptureProxy
<1>18. CASE AnnounceConnected(a)
  BY <1>18 DEF AnnounceConnected, ReturnWith
<1> QED
  BY <1>1, <1>2, <1>3, <1>4, <1>5, <1>6, <1>7, <1>8, <1>9, <1>10, <1>11, <1>12, <1>13, <1>14,
     <1>15, <1>16, <1>17, <1>18 DEF StartStep

\* A stop, step by step.
LEMMA StopTypes ==
    ASSUME Types, NEW s \in Stops, StopConnection(s) \/ StopStep(s)
    PROVE  Types'
<1> USE DEF Types, TypeOK, HoldsSomething, Maybe, Statuses, StopGoto, start, stop
<1>1. CASE StopConnection(s)
  BY <1>1 DEF StopConnection
<1>2. CASE TakeCancel(s)
  BY <1>2 DEF TakeCancel
<1>3. CASE CancelConnect(s)
  BY <1>3 DEF CancelConnect
<1>4. CASE BeginStopping(s)
  BY <1>4 DEF BeginStopping
<1>5. CASE StopSwap(s)
  BY <1>5 DEF StopSwap
<1>6. CASE StopClose(s)
  BY <1>6, CloseType DEF StopClose
<1>7. CASE StopRestore(s)
  BY <1>7 DEF StopRestore
<1>8. CASE StopSettle(s)
  BY <1>8 DEF StopSettle
<1> QED
  BY <1>1, <1>2, <1>3, <1>4, <1>5, <1>6, <1>7, <1>8 DEF StopStep

LEMMA NextTypes == Types /\ [Next]_vars => Types'
<1> SUFFICES ASSUME Types, [Next]_vars PROVE Types'
  OBVIOUS
<1>1. ASSUME NEW a \in Attempts, WatchStep(a) PROVE Types'
  BY <1>1 DEF Types, TypeOK, HoldsSomething, Statuses, WatchStep, WatchTick, RecoverConnection,
     Recovered, AnnounceRecovered, start, stop
<1>2. CASE UNCHANGED vars
  BY <1>2 DEF Types, TypeOK, HoldsSomething, vars
<1> QED
  BY <1>1, <1>2, StartTypes, StopTypes DEF Next

\* The types, in every reachable state, whatever fails and whoever starts.
THEOREM TypeCorrect == Spec => []TypeOK
<1>1. Types => TypeOK
  BY DEF Types
<1> QED
  BY <1>1, InitTypes, NextTypes, PTL DEF Spec

-----------------------------------------------------------------------------
(* Every connect can be stopped.                                             *)

\* Of two starts in flight one has been stopped.
OneInFlight ==
    \A a, b \in Attempts :
        a # b /\ pc[a] \notin {"idle", "done"} /\ pc[b] \notin {"idle", "done"}
            => a \in cancelled \/ b \in cancelled

Stoppable == OneInFlight /\ EveryConnectCanBeStopped

LEMMA InitStoppable == Init => Stoppable
BY DEF Init, Stoppable, OneInFlight, EveryConnectCanBeStopped, Connecting

LEMMA StartStoppable ==
    ASSUME OneStartAtATime, Types, Stoppable, NEW a \in Attempts, StartCheck(a) \/ StartStep(a)
    PROVE  Stoppable'
<1> USE DEF Types, TypeOK, HoldsSomething, Maybe, Before, Connecting, After, Goto, start, stop,
    Stoppable, OneInFlight, EveryConnectCanBeStopped, OneStartAtATime
<1>1. CASE StartCheck(a)
  BY <1>1 DEF StartCheck
<1>2. CASE Cleanup(a)
  BY <1>2 DEF Cleanup
<1>3. CASE ClosePrevious(a)
  BY <1>3, CloseType DEF ClosePrevious
<1>4. CASE ClearSlot(a)
  BY <1>4 DEF ClearSlot
<1>5. CASE RestoreProxy(a)
  BY <1>5 DEF RestoreProxy
<1>6. CASE BeginConnect(a)
  BY <1>6, LifecycleAssumption DEF BeginConnect
<1>7. CASE Supersede(a)
  BY <1>7 DEF Supersede
<1>8. CASE AnnounceConnecting(a)
  BY <1>8 DEF AnnounceConnecting
<1>9. CASE Fetch(a)
  BY <1>9 DEF Fetch
<1>10. CASE Spawn(a)
  BY <1>10 DEF Spawn
<1>11. CASE Prove(a)
  BY <1>11 DEF Prove
<1>12. CASE CloseFailed(a)
  BY <1>12, CloseType DEF CloseFailed
<1>13. CASE Retain(a)
  BY <1>13 DEF Retain
<1>14. CASE ReportConnectFailure(a)
  BY <1>14 DEF ReportConnectFailure
<1>15. CASE Report(a)
  BY <1>15 DEF Report, ReturnWith
<1>16. CASE AdoptSession(a)
  BY <1>16 DEF AdoptSession
<1>17. CASE CloseReplaced(a)
  BY <1>17, CloseType DEF CloseReplaced
<1>18. CASE Unadopt(a)
  BY <1>18, CloseType DEF Unadopt
<1>19. CASE CaptureProxy(a)
  BY <1>19 DEF CaptureProxy
<1>20. CASE AnnounceConnected(a)
  BY <1>20 DEF AnnounceConnected, ReturnWith
<1> QED
  BY <1>1, <1>2, <1>3, <1>4, <1>5, <1>6, <1>7, <1>8, <1>9, <1>10, <1>11, <1>12, <1>13, <1>14,
     <1>15, <1>16, <1>17, <1>18, <1>19, <1>20
  DEF StartStep

LEMMA StopStoppable ==
    ASSUME Types, Stoppable, NEW s \in Stops, StopConnection(s) \/ StopStep(s)
    PROVE  Stoppable'
<1> USE DEF Types, TypeOK, HoldsSomething, Maybe, Before, Connecting, After, StopGoto, start,
    stop, Stoppable, OneInFlight, EveryConnectCanBeStopped
<1>1. CASE StopConnection(s)
  BY <1>1 DEF StopConnection
<1>2. CASE TakeCancel(s)
  BY <1>2 DEF TakeCancel
<1>3. CASE CancelConnect(s)
  BY <1>3 DEF CancelConnect
<1>4. CASE BeginStopping(s)
  BY <1>4 DEF BeginStopping
<1>5. CASE StopSwap(s)
  BY <1>5 DEF StopSwap
<1>6. CASE StopClose(s)
  BY <1>6, CloseType DEF StopClose
<1>7. CASE StopRestore(s)
  BY <1>7 DEF StopRestore
<1>8. CASE StopSettle(s)
  BY <1>8 DEF StopSettle
<1> QED
  BY <1>1, <1>2, <1>3, <1>4, <1>5, <1>6, <1>7, <1>8
  DEF StopStep

LEMMA NextStoppable == OneStartAtATime /\ Types /\ Stoppable /\ [Next]_vars => Stoppable'
<1> SUFFICES ASSUME OneStartAtATime, Types, Stoppable, [Next]_vars PROVE Stoppable'
  OBVIOUS
<1>1. ASSUME NEW a \in Attempts, WatchStep(a) PROVE Stoppable'
  BY <1>1 DEF Stoppable, OneInFlight, EveryConnectCanBeStopped, WatchStep, WatchTick,
     RecoverConnection, Recovered, AnnounceRecovered, start, stop
<1>2. CASE UNCHANGED vars
  BY <1>2 DEF Stoppable, OneInFlight, EveryConnectCanBeStopped, vars
<1> QED
  BY <1>1, <1>2, StartStoppable, StopStoppable DEF Next

\* A connect that is under way can always be stopped (mihomo_connect.go:353-357).
THEOREM ConnectsCanBeStopped == ASSUME OneStartAtATime PROVE Spec => []EveryConnectCanBeStopped
<1>1. Stoppable => EveryConnectCanBeStopped
  BY DEF Stoppable
<1> QED
  BY <1>1, InitTypes, NextTypes, InitStoppable, NextStoppable, PTL DEF Spec

-----------------------------------------------------------------------------
(* No engine is orphaned.                                                    *)

\* An attempt that has not begun to connect has no context anybody could cancel.
Unregistered ==
    \A a \in Attempts : pc[a] \in Before =>
        /\ a \notin cancelled /\ cancelReg # a
        /\ \A b \in Attempts : pc[b] = "supersede" => prev[b] # a
        /\ \A s \in Stops : stopPc[s] = "cancel" => took[s] # a

\* An engine exists once it was spawned, and who holds one holds a spawned one.
Spawned ==
    /\ \A a \in Attempts :
        /\ pc[a] \in Before \cup {"supersede", "connecting", "fetch", "spawn"} =>
                engine[a] = "none"
        /\ pc[a] \in {"prove", "closeFailed", "adopt", "unadopt"} => engine[a] # "none"
        /\ pc[a] \in {"closePrevious", "closeReplaced"} => engine[prev[a]] # "none"
        /\ engine[a] # "stuck" /\ pc[a] # "retain"
    /\ slot # None => engine[slot] # "none"
    /\ \A s \in Stops : stopPc[s] = "close" => engine[took[s]] # "none"

\* What a start finds in the slot stays there until it clears it, or a stop does.
Clearing ==
    \A a \in Attempts :
        /\ pc[a] \in {"closePrevious", "clearSlot"} => slot \in {None, prev[a]}
        /\ pc[a] = "clearSlot" => prev[a] \in Attempts /\ engine[prev[a]] = "stopped"

Custody == Unregistered /\ Spawned /\ Clearing /\ NoOrphan

LEMMA InitCustody == Init => Custody
BY LifecycleAssumption
DEF Init, Custody, Unregistered, Spawned, Clearing, NoOrphan, Before

LEMMA StartCustody ==
    ASSUME OneStartAtATime, CloseWorks, Types, OneInFlight, Custody, NEW a \in Attempts,
           StartCheck(a) \/ StartStep(a)
    PROVE  Custody'
<1> USE DEF Types, TypeOK, HoldsSomething, Maybe, Before, Connecting, After, Goto, start, stop,
    Custody, Unregistered, Spawned, Clearing, NoOrphan, Owned, OneInFlight, OneStartAtATime
<1>1. CASE StartCheck(a)
  BY <1>1 DEF StartCheck
<1>2. CASE Cleanup(a)
  BY <1>2 DEF Cleanup
<1>3. CASE ClosePrevious(a)
  BY <1>3, CloseType DEF ClosePrevious
<1>4. CASE ClearSlot(a)
  BY <1>4 DEF ClearSlot
<1>5. CASE RestoreProxy(a)
  BY <1>5 DEF RestoreProxy
<1>6. CASE BeginConnect(a)
  BY <1>6 DEF BeginConnect
<1>7. CASE Supersede(a)
  BY <1>7 DEF Supersede
<1>8. CASE AnnounceConnecting(a)
  BY <1>8 DEF AnnounceConnecting
<1>9. CASE Fetch(a)
  BY <1>9 DEF Fetch
<1>10. CASE Spawn(a)
  BY <1>10 DEF Spawn
<1>11. CASE Prove(a)
  BY <1>11 DEF Prove
<1>12. CASE CloseFailed(a)
  BY <1>12, CloseType DEF CloseFailed
<1>13. CASE Retain(a)
  BY <1>13 DEF Retain
<1>14. CASE ReportConnectFailure(a)
  BY <1>14 DEF ReportConnectFailure
<1>15. CASE Report(a)
  BY <1>15 DEF Report, ReturnWith
<1>16. CASE AdoptSession(a)
  BY <1>16, LifecycleAssumption DEF AdoptSession
<1>17. CASE CloseReplaced(a)
  BY <1>17, CloseType DEF CloseReplaced
<1>18. CASE Unadopt(a)
  BY <1>18, CloseType DEF Unadopt
<1>19. CASE CaptureProxy(a)
  BY <1>19 DEF CaptureProxy
<1>20. CASE AnnounceConnected(a)
  BY <1>20 DEF AnnounceConnected, ReturnWith
<1> QED
  BY <1>1, <1>2, <1>3, <1>4, <1>5, <1>6, <1>7, <1>8, <1>9, <1>10, <1>11, <1>12, <1>13, <1>14,
     <1>15, <1>16, <1>17, <1>18, <1>19, <1>20
  DEF StartStep

LEMMA StopCustody ==
    ASSUME CloseWorks, Types, Custody, NEW s \in Stops, StopConnection(s) \/ StopStep(s)
    PROVE  Custody'
<1> USE DEF Types, TypeOK, HoldsSomething, Maybe, Before, Connecting, After, StopGoto, start,
    stop, Custody, Unregistered, Spawned, Clearing, NoOrphan, Owned
<1>1. CASE StopConnection(s)
  BY <1>1 DEF StopConnection
<1>2. CASE TakeCancel(s)
  BY <1>2, LifecycleAssumption DEF TakeCancel
<1>3. CASE CancelConnect(s)
  BY <1>3 DEF CancelConnect
<1>4. CASE BeginStopping(s)
  BY <1>4 DEF BeginStopping
<1>5. CASE StopSwap(s)
  BY <1>5 DEF StopSwap
<1>6. CASE StopClose(s)
  BY <1>6, CloseType DEF StopClose
<1>7. CASE StopRestore(s)
  BY <1>7 DEF StopRestore
<1>8. CASE StopSettle(s)
  BY <1>8 DEF StopSettle
<1> QED
  BY <1>1, <1>2, <1>3, <1>4, <1>5, <1>6, <1>7, <1>8
  DEF StopStep

LEMMA NextCustody ==
    OneStartAtATime /\ CloseWorks /\ Types /\ OneInFlight /\ Custody /\ [Next]_vars => Custody'
<1> SUFFICES ASSUME OneStartAtATime, CloseWorks, Types, OneInFlight, Custody, [Next]_vars
             PROVE  Custody'
  OBVIOUS
<1>1. ASSUME NEW a \in Attempts, WatchStep(a) PROVE Custody'
  BY <1>1 DEF Custody, Unregistered, Spawned, Clearing, NoOrphan, Owned, WatchStep, WatchTick,
     RecoverConnection, Recovered, AnnounceRecovered, start, stop
<1>2. CASE UNCHANGED vars
  BY <1>2 DEF Custody, Unregistered, Spawned, Clearing, NoOrphan, Owned, vars
<1> QED
  BY <1>1, <1>2, StartCustody, StopCustody DEF Next

\* No engine runs with nothing pointing at it, however a stop and a connect
\* overlap (mihomo_connect.go:387-390).
THEOREM NoEngineIsOrphaned == ASSUME OneStartAtATime, CloseWorks PROVE Spec => []NoOrphan
<1>1. Custody => NoOrphan
  BY DEF Custody
<1>2. Stoppable => OneInFlight
  BY DEF Stoppable
<1> QED
  BY <1>1, <1>2, InitTypes, NextTypes, InitStoppable, NextStoppable, InitCustody, NextCustody,
     PTL
  DEF Spec

-----------------------------------------------------------------------------
(* A stopped connect is not adopted.                                         *)

\* What is retained is not running.
RetainedIsStuck == \A a \in Attempts : pc[a] = "retain" => engine[a] # "running"

StaysOut ==
    \A a \in Attempts : a \in cancelled /\ slot # a /\ engine[a] = "running" => slot' # a

\* The steps of a start that leave the slot alone or empty it.
LEMMA OtherStartSteps ==
    ASSUME Types, RetainedIsStuck, NEW a \in Attempts,
           StartCheck(a) \/ StartStep(a), ~CloseFailed(a), ~Retain(a), ~AdoptSession(a)
    PROVE  RetainedIsStuck' /\ slot' \in {slot, None}
<1> USE DEF Types, TypeOK, HoldsSomething, Goto, RetainedIsStuck, start, stop
<1>1. CASE ClosePrevious(a) \/ CloseReplaced(a) \/ Unadopt(a)
  BY <1>1, CloseType DEF ClosePrevious, CloseReplaced, Unadopt
<1>2. CASE ~ClosePrevious(a) /\ ~CloseReplaced(a) /\ ~Unadopt(a)
  BY <1>2 DEF StartStep, ReturnWith, StartCheck, Cleanup, ClearSlot, RestoreProxy, BeginConnect,
     Supersede, AnnounceConnecting, Fetch, Spawn, Prove, ReportConnectFailure, Report,
     CaptureProxy, AnnounceConnected
<1> QED
  BY <1>1, <1>2

LEMMA NextRetained == Types /\ RetainedIsStuck /\ [Next]_vars => RetainedIsStuck' /\ StaysOut
<1> SUFFICES ASSUME Types, RetainedIsStuck, [Next]_vars PROVE RetainedIsStuck' /\ StaysOut
  OBVIOUS
<1> USE LifecycleAssumption
<1>1. ASSUME NEW a \in Attempts, CloseFailed(a) PROVE RetainedIsStuck' /\ slot' = slot
  BY <1>1, CloseType DEF CloseFailed, RetainedIsStuck, Goto, Types, TypeOK
<1>2. ASSUME NEW a \in Attempts, AdoptSession(a)
      PROVE  RetainedIsStuck' /\ (slot' = slot \/ (slot' = a /\ a \notin cancelled))
  BY <1>2 DEF AdoptSession, RetainedIsStuck, Goto, Types, TypeOK
<1>3. ASSUME NEW a \in Attempts, Retain(a)
      PROVE  RetainedIsStuck' /\ slot' = a /\ engine[a] # "running"
  BY <1>3 DEF Retain, RetainedIsStuck, Goto, Types, TypeOK
<1>4. ASSUME NEW a \in Attempts, WatchStep(a) PROVE RetainedIsStuck' /\ slot' = slot
  BY <1>4 DEF RetainedIsStuck, WatchStep, WatchTick, RecoverConnection, Recovered,
     AnnounceRecovered, start
<1>5. ASSUME NEW s \in Stops, StopConnection(s) \/ StopStep(s)
      PROVE  RetainedIsStuck' /\ slot' \in {slot, None}
  <2>1. CASE StopClose(s)
    BY <2>1, CloseType DEF StopClose, RetainedIsStuck, start, Types, TypeOK, HoldsSomething
  <2>2. CASE ~StopClose(s)
    BY <1>5, <2>2 DEF RetainedIsStuck, StopConnection, StopStep, TakeCancel, CancelConnect,
       BeginStopping, StopSwap, StopRestore, StopSettle, start
  <2> QED
    BY <2>1, <2>2
<1>6. CASE UNCHANGED vars
  BY <1>6 DEF RetainedIsStuck, StaysOut, vars
<1> QED
  BY <1>1, <1>2, <1>3, <1>4, <1>5, <1>6, OtherStartSteps DEF Next, StartStep, StaysOut

\* Deciding under the lock cancelConnect takes is enough: a running session whose
\* attempt was stopped does not become the app's (mihomo_connect.go:387-390).
THEOREM StoppedStaysOut == Spec => StoppedIsNotAdopted
<1>1. Init => RetainedIsStuck
  BY DEF Init, RetainedIsStuck
<1>2. Types /\ RetainedIsStuck /\ [Next]_vars =>
        [\A a \in Attempts :
            a \in cancelled /\ slot # a /\ engine[a] = "running" => slot' # a]_slot
  BY NextRetained DEF StaysOut
<1> QED
  BY <1>1, <1>2, InitTypes, NextTypes, NextRetained, PTL DEF Spec, StoppedIsNotAdopted

\* Nothing that runs or is on its way is out of reach of a stop, when a start is called only
\* once those before it have returned or been stopped, and Close works.
THEOREM NothingIsOutOfReach == ASSUME OneStartAtATime, CloseWorks PROVE Spec => []NothingOutOfReach
BY NoEngineIsOrphaned, ConnectsCanBeStopped, PTL DEF NothingOutOfReach

-----------------------------------------------------------------------------
(* The engines are EngineHandles.                                            *)

\* An attempt's engine is started at one place, and whoever is to close one has one.
StartedOnce ==
    /\ \A a \in Attempts :
        /\ pc[a] \in Before \cup {"supersede", "connecting", "fetch", "spawn"} => engine[a] = "none"
        /\ pc[a] \in {"prove", "closeFailed", "adopt", "unadopt", "retain"} => engine[a] # "none"
        /\ pc[a] \in {"closePrevious", "closeReplaced"} => engine[prev[a]] # "none"
    /\ slot # None => engine[slot] # "none"
    /\ \A s \in Stops : stopPc[s] = "close" => engine[took[s]] # "none"

EngineSteps == \A a \in Attempts : [Handle(a)!Next]_(Handle(a)!vars)

\* A step that leaves the engines alone, starts one, or closes one that was started.
LEMMA HandledSteps ==
    ASSUME Types, UNCHANGED engine \/ \E e \in Attempts :
               \/ engine[e] = "none" /\ engine' = [engine EXCEPT ![e] = "running"]
               \/ engine[e] # "none" /\ Close(e)
    PROVE  EngineSteps
<1> SUFFICES ASSUME NEW a \in Attempts PROVE [Handle(a)!Next]_(Handle(a)!vars)
  BY DEF EngineSteps
<1> USE DEF Handle!vars, Handle!Next, Handle!Start, Handle!Confirm, Handle!Doubt, Types, TypeOK
<1>1. CASE UNCHANGED engine
  BY <1>1
<1>2. ASSUME NEW e \in Attempts, engine[e] = "none", engine' = [engine EXCEPT ![e] = "running"]
      PROVE  [Handle(a)!Next]_(Handle(a)!vars)
  BY <1>2
<1>3. ASSUME NEW e \in Attempts, engine[e] # "none", Close(e)
      PROVE  [Handle(a)!Next]_(Handle(a)!vars)
  <2>1. PICK outcome \in {"stopped", "stuck"} :
            /\ engine' = [engine EXCEPT ![e] = outcome]
            /\ outcome = "stuck" => engine[e] # "stopped"
    BY <1>3 DEF Close
  <2> QED
    BY <1>3, <2>1
<1> QED
  BY <1>1, <1>2, <1>3

LEMMA StartHandled ==
    ASSUME Types, StartedOnce, NEW a \in Attempts, StartCheck(a) \/ StartStep(a)
    PROVE  StartedOnce' /\ EngineSteps
<1> USE DEF Types, TypeOK, HoldsSomething, Maybe, Before, Connecting, After, Goto, start, stop,
    StartedOnce
<1>1. CASE StartCheck(a)
  BY <1>1, HandledSteps DEF StartCheck
<1>2. CASE Cleanup(a)
  BY <1>2, HandledSteps DEF Cleanup
<1>3. CASE ClosePrevious(a)
  BY <1>3, CloseType, HandledSteps DEF ClosePrevious
<1>4. CASE ClearSlot(a)
  BY <1>4, HandledSteps DEF ClearSlot
<1>5. CASE RestoreProxy(a)
  BY <1>5, HandledSteps DEF RestoreProxy
<1>6. CASE BeginConnect(a)
  BY <1>6, HandledSteps DEF BeginConnect
<1>7. CASE Supersede(a)
  BY <1>7, HandledSteps DEF Supersede
<1>8. CASE AnnounceConnecting(a)
  BY <1>8, HandledSteps DEF AnnounceConnecting
<1>9. CASE Fetch(a)
  BY <1>9, HandledSteps DEF Fetch
<1>10. CASE Spawn(a)
  BY <1>10, HandledSteps DEF Spawn
<1>11. CASE Prove(a)
  BY <1>11, HandledSteps DEF Prove
<1>12. CASE CloseFailed(a)
  BY <1>12, CloseType, HandledSteps DEF CloseFailed
<1>13. CASE Retain(a)
  BY <1>13, HandledSteps DEF Retain
<1>14. CASE ReportConnectFailure(a)
  BY <1>14, HandledSteps DEF ReportConnectFailure
<1>15. CASE Report(a)
  BY <1>15, HandledSteps DEF Report, ReturnWith
<1>16. CASE AdoptSession(a)
  BY <1>16, LifecycleAssumption, HandledSteps DEF AdoptSession
<1>17. CASE CloseReplaced(a)
  BY <1>17, CloseType, HandledSteps DEF CloseReplaced
<1>18. CASE Unadopt(a)
  BY <1>18, CloseType, HandledSteps DEF Unadopt
<1>19. CASE CaptureProxy(a)
  BY <1>19, HandledSteps DEF CaptureProxy
<1>20. CASE AnnounceConnected(a)
  BY <1>20, HandledSteps DEF AnnounceConnected, ReturnWith
<1> QED
  BY <1>1, <1>2, <1>3, <1>4, <1>5, <1>6, <1>7, <1>8, <1>9, <1>10, <1>11, <1>12, <1>13, <1>14,
     <1>15, <1>16, <1>17, <1>18, <1>19, <1>20
  DEF StartStep

LEMMA NextHandled == Types /\ StartedOnce /\ [Next]_vars => StartedOnce' /\ EngineSteps
<1> SUFFICES ASSUME Types, StartedOnce, [Next]_vars PROVE StartedOnce' /\ EngineSteps
  OBVIOUS
<1> USE DEF StartedOnce
<1>1. ASSUME NEW s \in Stops, StopConnection(s) \/ StopStep(s) PROVE StartedOnce' /\ EngineSteps
  <2>1. CASE StopClose(s)
    BY <2>1, CloseType, HandledSteps
    DEF StopClose, Types, TypeOK, HoldsSomething, Maybe, StopGoto, start
  <2>2. CASE StopSwap(s)
    BY <2>2, HandledSteps DEF StopSwap, Types, TypeOK, StopGoto, start
  <2>3. CASE ~StopClose(s) /\ ~StopSwap(s)
    BY <1>1, <2>3, HandledSteps DEF StopConnection, StopStep, TakeCancel, CancelConnect,
       BeginStopping, StopRestore, StopSettle, StopGoto, start, Types, TypeOK
  <2> QED
    BY <2>1, <2>2, <2>3
<1>2. ASSUME NEW a \in Attempts, WatchStep(a) PROVE StartedOnce' /\ EngineSteps
  BY <1>2, HandledSteps DEF WatchStep, WatchTick, RecoverConnection, Recovered,
     AnnounceRecovered, start, stop
<1>3. CASE UNCHANGED vars
  BY <1>3, HandledSteps DEF vars
<1> QED
  BY <1>1, <1>2, <1>3, StartHandled DEF Next

\* An engine is started once for its attempt, and whoever closes it, again or after somebody
\* else has, is told what its process says: once it was seen to end it is never said to be
\* running (spawn.go:253-321, mihomo_connect.go:118-138, 413-431).
THEOREM EnginesHandled == Spec => EnginesAreHandled
<1>1. Init => StartedOnce
  BY LifecycleAssumption DEF Init, StartedOnce, Before
<1>2. Init => \A a \in Attempts : Handle(a)!Init
  BY DEF Init, Handle!Init
<1>3. Types /\ StartedOnce /\ [Next]_vars =>
        [\A a \in Attempts : [Handle(a)!Next]_(Handle(a)!vars)]_vars
  BY NextHandled DEF EngineSteps
<1> QED
  BY <1>1, <1>2, <1>3, InitTypes, NextTypes, NextHandled, PTL DEF Spec, EnginesAreHandled

\* What was stopped stays stopped: an attempt is not adopted and an engine does not return.
THEOREM StoppedForGood == Spec => StoppedStaysStopped
BY StoppedStaysOut, EnginesHandled, PTL DEF StoppedStaysStopped

-----------------------------------------------------------------------------
(* The status settles.                                                       *)

NeverRecovers == ~Recovery

\* The starts that have said they are connecting, and will say how it ended, ...
WillReport == {"fetch", "spawn", "prove", "closeFailed", "adopt", "retain", "report",
               "reportStopped", "reportFailed", "unadopt", "closeReplaced", "capture", "announce"}
\* ... and the stops that have said so, and will settle it.
WillSettle == {"swap", "close", "restore", "settle"}

Accounted ==
    /\ \A a \in Attempts : watch[a] # "seen"
    /\ status = "Connecting" => \E a \in Attempts : pc[a] \in WillReport
    /\ status = "Stopping" => \E s \in Stops : stopPc[s] \in WillSettle

\* A step of a start keeps to WillReport until it has set the status.
LEMMA StartAccounted ==
    ASSUME Types, Accounted, NEW a \in Attempts, StartCheck(a) \/ StartStep(a)
    PROVE  Accounted'
<1>1. PICK label : /\ pc' = [pc EXCEPT ![a] = label] /\ UNCHANGED stopPc
                   /\ \/ pc[a] \in WillReport /\ label \in WillReport /\ status' = status
                      \/ pc[a] \notin WillReport /\ status' = status
                      \/ label \in WillReport /\ status' = "Connecting"
                      \/ status' \notin {"Connecting", "Stopping"}
                   /\ \A b \in Attempts : watch'[b] # "seen"
  BY DEF StartCheck, StartStep, Cleanup, ClosePrevious, ClearSlot, RestoreProxy, BeginConnect,
     Supersede, AnnounceConnecting, Fetch, Spawn, Prove, CloseFailed, Retain,
     ReportConnectFailure, Report, AdoptSession, CloseReplaced, Unadopt, CaptureProxy,
     AnnounceConnected, ReturnWith, Goto, WillReport, Accounted, stop, Types, TypeOK
<1>2. \A b \in Attempts : pc'[b] = IF b = a THEN label ELSE pc[b]
  BY <1>1 DEF Types, TypeOK
<1> QED
  BY <1>1, <1>2 DEF Accounted

\* A step of a stop keeps to WillSettle until it has.
LEMMA StopAccounted ==
    ASSUME Types, Accounted, NEW s \in Stops, StopConnection(s) \/ StopStep(s)
    PROVE  Accounted'
<1>1. PICK label : /\ stopPc' = [stopPc EXCEPT ![s] = label] /\ UNCHANGED <<pc, watch>>
                   /\ \/ stopPc[s] \in WillSettle /\ label \in WillSettle /\ status' = status
                      \/ stopPc[s] \notin WillSettle /\ status' = status
                      \/ label \in WillSettle /\ status' = "Stopping"
                      \/ status' \notin {"Connecting", "Stopping"}
  BY DEF StopConnection, StopStep, TakeCancel, CancelConnect, BeginStopping, StopSwap,
     StopClose,
     StopRestore, StopSettle, StopGoto, WillSettle, start
<1>2. \A t \in Stops : stopPc'[t] = IF t = s THEN label ELSE stopPc[t]
  BY <1>1 DEF Types, TypeOK
<1> QED
  BY <1>1, <1>2 DEF Accounted

LEMMA NextAccounted == NeverRecovers /\ Types /\ Accounted /\ [Next]_vars => Accounted'
<1> SUFFICES ASSUME NeverRecovers, Types, Accounted, [Next]_vars PROVE Accounted'
  OBVIOUS
<1>1. ASSUME NEW a \in Attempts, WatchStep(a) PROVE Accounted'
  BY <1>1 DEF NeverRecovers, Accounted, WatchStep, WatchTick, RecoverConnection, Recovered,
     AnnounceRecovered, start, stop, Types, TypeOK
<1>2. CASE UNCHANGED vars
  BY <1>2 DEF Accounted, vars
<1> QED
  BY <1>1, <1>2, StartAccounted, StopAccounted DEF Next

\* Once every call has returned the status is settled, whatever starts and stops
\* overlap and whether or not Close works, as long as no health watch starts a
\* recovery (mihomo_watchdog.go:96-100).
THEOREM StatusSettles == ASSUME NeverRecovers PROVE Spec => []RestIsSettled
<1>1. Init => Accounted
  BY DEF Init, Accounted
<1>2. Accounted => RestIsSettled
  BY DEF Accounted, RestIsSettled, AtRest, WillReport, WillSettle
<1> QED
  BY <1>1, <1>2, InitTypes, NextTypes, NextAccounted, PTL DEF Spec

-----------------------------------------------------------------------------
(* The engine itself: for any number of calls and of Stops, any buffer of      *)
(* events, and whatever may go wrong.                                        *)

\* A start that has a process to stop has finished, the core that was waited for
\* has gone, and a Stop that tidies up, or is through, has seen that.
ProcessInv ==
    /\ exitDone => /\ core = "exited" \/ child = "pkexec"
                   /\ starting \in {"accepting", "failing", "connected", "failed"}
    /\ \A s \in StopCalls :
        /\ stopping[s] # Idle => starting \in {"connected", "failed"}
        /\ stopping[s] \in {"gone", "tidying", "ok"} => exitDone

\* A waiter is registered, or held by the reader, or by finish, or it has been sent
\* its one message.
ClientInv ==
    /\ failing # {} => reader = "finish"
    /\ starting # "connected" => reader = "off"
    /\ \A id \in Ids :
        /\ call[id] = Idle =>
               id \notin pending /\ id \notin failing /\ reader # id /\ mailbox[id] = "empty"
        /\ id \in pending => mailbox[id] = "empty" /\ id \notin failing /\ reader # id
        /\ id \in failing \/ reader = id => mailbox[id] = "empty"
        /\ id \in pending => call[id] \in {"write", "wait"}

-----------------------------------------------------------------------------
(* Each part of the invariant is kept by every step.                         *)

LEMMA EngineInitInv == EngineInit => EngineTypeOK /\ ProcessInv /\ ClientInv
<1> SUFFICES ASSUME EngineInit PROVE EngineTypeOK /\ ProcessInv /\ ClientInv
  OBVIOUS
<1>1. exitDone \in BOOLEAN /\ listener \in BOOLEAN /\ closed \in BOOLEAN /\ ~exitDone
  BY Zenon DEF EngineInit
<1>2. EngineTypeOK
  BY <1>1, EngineAssumption DEF EngineInit, EngineTypeOK, Ids, Idle, StopEnds, CallEnds
<1>3. ProcessInv
  BY <1>1 DEF EngineInit, ProcessInv, Idle
<1>4. ClientInv
  BY EngineAssumption DEF EngineInit, ClientInv, Ids, Idle
<1> QED
  BY <1>2, <1>3, <1>4

\* Variables keep their types.
LEMMA EngineTypeStep == EngineTypeOK /\ [EngineNext]_engineVars => EngineTypeOK'
<1> SUFFICES ASSUME EngineTypeOK, [EngineNext]_engineVars PROVE EngineTypeOK'
  OBVIOUS
<1> USE EngineAssumption DEF Ids, EngineTypeOK, process, wire, client, stops, Idle, CallEnds,
    StopEnds
<1>1. ASSUME Listen PROVE EngineTypeOK'
  <2>1. listener' \in BOOLEAN /\ closed' \in BOOLEAN /\ exitDone' \in BOOLEAN
    BY <1>1, Zenon DEF EngineTypeOK, process, client, Listen
  <2> QED
    BY <1>1, <2>1 DEF Listen
<1>2. ASSUME StartChild PROVE EngineTypeOK'
  <2>1. listener' \in BOOLEAN /\ closed' \in BOOLEAN /\ exitDone' \in BOOLEAN
    BY <1>2, Zenon DEF EngineTypeOK, process, client, StartChild
  <2> QED
    BY <1>2, <2>1 DEF StartChild
<1>3. ASSUME Supervise PROVE EngineTypeOK'
  <2>1. listener' \in BOOLEAN /\ closed' \in BOOLEAN /\ exitDone' \in BOOLEAN
    BY <1>3, Zenon DEF EngineTypeOK, process, client, Supervise
  <2> QED
    BY <1>3, <2>1 DEF Supervise
<1>4. ASSUME AcceptWithin PROVE EngineTypeOK'
  BY <1>4 DEF AcceptWithin
<1>5. ASSUME AcceptFails PROVE EngineTypeOK'
  BY <1>5 DEF AcceptFails
<1>6. ASSUME CloseListener PROVE EngineTypeOK'
  <2>1. listener' \in BOOLEAN /\ closed' \in BOOLEAN /\ exitDone' \in BOOLEAN
    BY <1>6, Zenon DEF EngineTypeOK, process, client, CloseListener
  <2> QED
    BY <1>6, <2>1 DEF CloseListener
<1>7. ASSUME ChildWaited PROVE EngineTypeOK'
  BY <1>7 DEF ChildWaited
<1>8. ASSUME CoreDials PROVE EngineTypeOK'
  BY <1>8 DEF CoreDials
<1>9. ASSUME CoreExits PROVE EngineTypeOK'
  BY <1>9 DEF CoreExits
<1>10. ASSUME CoreLeaves PROVE EngineTypeOK'
  BY <1>10 DEF CoreLeaves
<1>11. ASSUME CoreWedges PROVE EngineTypeOK'
  BY <1>11 DEF CoreWedges
<1>12. ASSUME NEW id \in Ids, CoreAnswers(id) PROVE EngineTypeOK'
  BY <1>12 DEF CoreAnswers
<1>13. ASSUME NEW id \in Ids, ReadReply(id) PROVE EngineTypeOK'
  BY <1>13 DEF ReadReply, KeepOrDrop, Readable
<1>14. ASSUME NEW id \in Ids, DeliverReply(id) PROVE EngineTypeOK'
  BY <1>14 DEF DeliverReply
<1>15. ASSUME ReadEvent PROVE EngineTypeOK'
  BY <1>15 DEF ReadEvent, KeepOrDrop, Readable
<1>16. ASSUME ReadFails PROVE EngineTypeOK'
  BY <1>16 DEF ReadFails, StopReading
<1>17. ASSUME RefuseFrame PROVE EngineTypeOK'
  BY <1>17 DEF RefuseFrame, StopReading, Readable
<1>18. ASSUME NEW id \in Ids, FailWaiter(id) PROVE EngineTypeOK'
  BY <1>18 DEF FailWaiter
<1>19. ASSUME Finish PROVE EngineTypeOK'
  BY <1>19 DEF Finish
<1>20. ASSUME NEW id \in Ids, Invoke(id) PROVE EngineTypeOK'
  BY <1>20 DEF Invoke, MayInvoke
<1>21. ASSUME NEW id \in Ids, WriteFrame(id) PROVE EngineTypeOK'
  BY <1>21 DEF WriteFrame
<1>22. ASSUME NEW id \in Ids, WriteFails(id) PROVE EngineTypeOK'
  BY <1>22 DEF WriteFails
<1>23. ASSUME NEW id \in Ids, Await(id) PROVE EngineTypeOK'
  BY <1>23 DEF Await
<1>24. ASSUME NEW id \in Ids, Deadline(id) PROVE EngineTypeOK'
  BY <1>24 DEF Deadline
<1>25. ASSUME NEW s \in StopCalls, BeginStop(s) PROVE EngineTypeOK'
  BY <1>25 DEF BeginStop, StopGoes, HasClient
<1>26. ASSUME NEW s \in StopCalls, ShutdownAsked(s) PROVE EngineTypeOK'
  BY <1>26 DEF ShutdownAsked, StopGoes
<1>27. ASSUME NEW s \in StopCalls, CloseConnection(s) PROVE EngineTypeOK'
  BY <1>27 DEF CloseConnection, StopGoes
<1>28. ASSUME NEW s \in StopCalls, ReaderDone(s) PROVE EngineTypeOK'
  <2>1. listener' \in BOOLEAN /\ closed' \in BOOLEAN /\ exitDone' \in BOOLEAN
    BY <1>28, Zenon DEF EngineTypeOK, process, client, ReaderDone, StopGoes
  <2> QED
    BY <1>28, <2>1 DEF ReaderDone, StopGoes
<1>29. ASSUME NEW s \in StopCalls, ConfirmedExit(s) PROVE EngineTypeOK'
  BY <1>29 DEF ConfirmedExit, StopGoes, HasClient
<1>30. ASSUME NEW s \in StopCalls, StopTimesOut(s) PROVE EngineTypeOK'
  BY <1>30 DEF StopTimesOut, StopGoes
<1>31. ASSUME NEW s \in StopCalls, KillAfterFailedShutdown(s) PROVE EngineTypeOK'
  <2>1. exitDone' \in BOOLEAN /\ closed' \in BOOLEAN /\ listener' \in BOOLEAN
    BY <1>31, Zenon DEF EngineTypeOK, process, client, KillAfterFailedShutdown, StopGoes
  <2> QED
    BY <1>31, <2>1 DEF KillAfterFailedShutdown, StopGoes
<1>32. ASSUME NEW s \in StopCalls, KilledTooLate(s) PROVE EngineTypeOK'
  BY <1>32 DEF KilledTooLate, StopGoes
<1>33. ASSUME UNCHANGED engineVars PROVE EngineTypeOK'
  BY <1>33 DEF engineVars
<1> QED
  BY <1>1, <1>2, <1>3, <1>4, <1>5, <1>6, <1>7, <1>8, <1>9, <1>10, <1>11, <1>12,
     <1>13, <1>14, <1>15, <1>16, <1>17, <1>18, <1>19, <1>20, <1>21, <1>22, <1>23, <1>24,
     <1>25, <1>26, <1>27, <1>28, <1>29, <1>30, <1>31, <1>32, <1>33
  DEF EngineNext, SpawnOwned, Core, Receive, ReaderStep, CallStep, StopProcess

\* What is known of the core is never taken back.
LEMMA ProcessStep == EngineTypeOK /\ ProcessInv /\ [EngineNext]_engineVars => ProcessInv'
<1> SUFFICES ASSUME EngineTypeOK, ProcessInv, [EngineNext]_engineVars PROVE ProcessInv'
  OBVIOUS
<1> USE DEF EngineTypeOK, process, wire, client, stops, Idle, CallEnds, StopEnds, ProcessInv
<1>1. ASSUME Listen PROVE ProcessInv'
  BY <1>1 DEF Listen
<1>2. ASSUME StartChild PROVE ProcessInv'
  BY <1>2 DEF StartChild
<1>3. ASSUME Supervise PROVE ProcessInv'
  BY <1>3 DEF Supervise
<1>4. ASSUME AcceptWithin PROVE ProcessInv'
  BY <1>4 DEF AcceptWithin
<1>5. ASSUME AcceptFails PROVE ProcessInv'
  BY <1>5 DEF AcceptFails
<1>6. ASSUME CloseListener PROVE ProcessInv'
  BY <1>6 DEF CloseListener
<1>7. ASSUME ChildWaited PROVE ProcessInv'
  BY <1>7 DEF ChildWaited
<1>8. ASSUME CoreDials PROVE ProcessInv'
  BY <1>8 DEF CoreDials
<1>9. ASSUME CoreExits PROVE ProcessInv'
  BY <1>9 DEF CoreExits
<1>10. ASSUME CoreLeaves PROVE ProcessInv'
  BY <1>10 DEF CoreLeaves
<1>11. ASSUME CoreWedges PROVE ProcessInv'
  BY <1>11 DEF CoreWedges
<1>12. ASSUME NEW id \in Ids, CoreAnswers(id) PROVE ProcessInv'
  BY <1>12 DEF CoreAnswers
<1>13. ASSUME NEW id \in Ids, ReadReply(id) PROVE ProcessInv'
  BY <1>13 DEF ReadReply, KeepOrDrop, Readable
<1>14. ASSUME NEW id \in Ids, DeliverReply(id) PROVE ProcessInv'
  BY <1>14 DEF DeliverReply
<1>15. ASSUME ReadEvent PROVE ProcessInv'
  BY <1>15 DEF ReadEvent, KeepOrDrop, Readable
<1>16. ASSUME ReadFails PROVE ProcessInv'
  BY <1>16 DEF ReadFails, StopReading
<1>17. ASSUME RefuseFrame PROVE ProcessInv'
  BY <1>17 DEF RefuseFrame, StopReading, Readable
<1>18. ASSUME NEW id \in Ids, FailWaiter(id) PROVE ProcessInv'
  BY <1>18 DEF FailWaiter
<1>19. ASSUME Finish PROVE ProcessInv'
  BY <1>19 DEF Finish
<1>20. ASSUME NEW id \in Ids, Invoke(id) PROVE ProcessInv'
  BY <1>20 DEF Invoke, MayInvoke
<1>21. ASSUME NEW id \in Ids, WriteFrame(id) PROVE ProcessInv'
  BY <1>21 DEF WriteFrame
<1>22. ASSUME NEW id \in Ids, WriteFails(id) PROVE ProcessInv'
  BY <1>22 DEF WriteFails
<1>23. ASSUME NEW id \in Ids, Await(id) PROVE ProcessInv'
  BY <1>23 DEF Await
<1>24. ASSUME NEW id \in Ids, Deadline(id) PROVE ProcessInv'
  BY <1>24 DEF Deadline
<1>25. ASSUME NEW s \in StopCalls, BeginStop(s) PROVE ProcessInv'
  BY <1>25 DEF BeginStop, StopGoes, HasClient
<1>26. ASSUME NEW s \in StopCalls, ShutdownAsked(s) PROVE ProcessInv'
  BY <1>26 DEF ShutdownAsked, StopGoes
<1>27. ASSUME NEW s \in StopCalls, CloseConnection(s) PROVE ProcessInv'
  BY <1>27 DEF CloseConnection, StopGoes
<1>28. ASSUME NEW s \in StopCalls, ReaderDone(s) PROVE ProcessInv'
  BY <1>28 DEF ReaderDone, StopGoes
<1>29. ASSUME NEW s \in StopCalls, ConfirmedExit(s) PROVE ProcessInv'
  BY <1>29 DEF ConfirmedExit, StopGoes, HasClient
<1>30. ASSUME NEW s \in StopCalls, StopTimesOut(s) PROVE ProcessInv'
  BY <1>30 DEF StopTimesOut, StopGoes
<1>31. ASSUME NEW s \in StopCalls, KillAfterFailedShutdown(s) PROVE ProcessInv'
  BY <1>31 DEF KillAfterFailedShutdown, StopGoes
<1>32. ASSUME NEW s \in StopCalls, KilledTooLate(s) PROVE ProcessInv'
  BY <1>32 DEF KilledTooLate, StopGoes
<1>33. ASSUME UNCHANGED engineVars PROVE ProcessInv'
  BY <1>33 DEF engineVars
<1> QED
  BY <1>1, <1>2, <1>3, <1>4, <1>5, <1>6, <1>7, <1>8, <1>9, <1>10, <1>11, <1>12,
     <1>13, <1>14, <1>15, <1>16, <1>17, <1>18, <1>19, <1>20, <1>21, <1>22, <1>23, <1>24,
     <1>25, <1>26, <1>27, <1>28, <1>29, <1>30, <1>31, <1>32, <1>33
  DEF EngineNext, SpawnOwned, Core, Receive, ReaderStep, CallStep, StopProcess

\* A waiter passes from the table to the reader or to finish, and gets one message.
LEMMA ClientStep == EngineTypeOK /\ ClientInv /\ [EngineNext]_engineVars => ClientInv'
<1> SUFFICES ASSUME EngineTypeOK, ClientInv, [EngineNext]_engineVars PROVE ClientInv'
  OBVIOUS
<1> USE EngineAssumption DEF Ids, EngineTypeOK, process, wire, client, stops, Idle, CallEnds,
    StopEnds, ClientInv
<1>1. ASSUME Listen PROVE ClientInv'
  BY <1>1 DEF Listen
<1>2. ASSUME StartChild PROVE ClientInv'
  BY <1>2 DEF StartChild
<1>3. ASSUME Supervise PROVE ClientInv'
  BY <1>3 DEF Supervise
<1>4. ASSUME AcceptWithin PROVE ClientInv'
  BY <1>4 DEF AcceptWithin
<1>5. ASSUME AcceptFails PROVE ClientInv'
  BY <1>5 DEF AcceptFails
<1>6. ASSUME CloseListener PROVE ClientInv'
  BY <1>6 DEF CloseListener
<1>7. ASSUME ChildWaited PROVE ClientInv'
  BY <1>7 DEF ChildWaited
<1>8. ASSUME CoreDials PROVE ClientInv'
  BY <1>8 DEF CoreDials
<1>9. ASSUME CoreExits PROVE ClientInv'
  BY <1>9 DEF CoreExits
<1>10. ASSUME CoreLeaves PROVE ClientInv'
  BY <1>10 DEF CoreLeaves
<1>11. ASSUME CoreWedges PROVE ClientInv'
  BY <1>11 DEF CoreWedges
<1>12. ASSUME NEW id \in Ids, CoreAnswers(id) PROVE ClientInv'
  BY <1>12 DEF CoreAnswers
<1>13. ASSUME NEW id \in Ids, ReadReply(id) PROVE ClientInv'
  BY <1>13 DEF ReadReply, KeepOrDrop, Readable
<1>14. ASSUME NEW id \in Ids, DeliverReply(id) PROVE ClientInv'
  BY <1>14 DEF DeliverReply
<1>15. ASSUME ReadEvent PROVE ClientInv'
  BY <1>15 DEF ReadEvent, KeepOrDrop, Readable
<1>16. ASSUME ReadFails PROVE ClientInv'
  BY <1>16 DEF ReadFails, StopReading
<1>17. ASSUME RefuseFrame PROVE ClientInv'
  BY <1>17 DEF RefuseFrame, StopReading, Readable
<1>18. ASSUME NEW id \in Ids, FailWaiter(id) PROVE ClientInv'
  BY <1>18 DEF FailWaiter
<1>19. ASSUME Finish PROVE ClientInv'
  BY <1>19 DEF Finish
<1>20. ASSUME NEW id \in Ids, Invoke(id) PROVE ClientInv'
  BY <1>20 DEF Invoke, MayInvoke
<1>21. ASSUME NEW id \in Ids, WriteFrame(id) PROVE ClientInv'
  BY <1>21 DEF WriteFrame
<1>22. ASSUME NEW id \in Ids, WriteFails(id) PROVE ClientInv'
  BY <1>22 DEF WriteFails
<1>23. ASSUME NEW id \in Ids, Await(id) PROVE ClientInv'
  BY <1>23 DEF Await
<1>24. ASSUME NEW id \in Ids, Deadline(id) PROVE ClientInv'
  BY <1>24 DEF Deadline
<1>25. ASSUME NEW s \in StopCalls, BeginStop(s) PROVE ClientInv'
  BY <1>25 DEF BeginStop, StopGoes, HasClient
<1>26. ASSUME NEW s \in StopCalls, ShutdownAsked(s) PROVE ClientInv'
  BY <1>26 DEF ShutdownAsked, StopGoes
<1>27. ASSUME NEW s \in StopCalls, CloseConnection(s) PROVE ClientInv'
  BY <1>27 DEF CloseConnection, StopGoes
<1>28. ASSUME NEW s \in StopCalls, ReaderDone(s) PROVE ClientInv'
  BY <1>28 DEF ReaderDone, StopGoes
<1>29. ASSUME NEW s \in StopCalls, ConfirmedExit(s) PROVE ClientInv'
  BY <1>29 DEF ConfirmedExit, StopGoes, HasClient
<1>30. ASSUME NEW s \in StopCalls, StopTimesOut(s) PROVE ClientInv'
  BY <1>30 DEF StopTimesOut, StopGoes
<1>31. ASSUME NEW s \in StopCalls, KillAfterFailedShutdown(s) PROVE ClientInv'
  BY <1>31 DEF KillAfterFailedShutdown, StopGoes
<1>32. ASSUME NEW s \in StopCalls, KilledTooLate(s) PROVE ClientInv'
  BY <1>32 DEF KilledTooLate, StopGoes
<1>33. ASSUME UNCHANGED engineVars PROVE ClientInv'
  BY <1>33 DEF engineVars
<1> QED
  BY <1>1, <1>2, <1>3, <1>4, <1>5, <1>6, <1>7, <1>8, <1>9, <1>10, <1>11, <1>12,
     <1>13, <1>14, <1>15, <1>16, <1>17, <1>18, <1>19, <1>20, <1>21, <1>22, <1>23, <1>24,
     <1>25, <1>26, <1>27, <1>28, <1>29, <1>30, <1>31, <1>32, <1>33
  DEF EngineNext, SpawnOwned, Core, Receive, ReaderStep, CallStep, StopProcess

LEMMA EngineInvariant == EngineSpec => [](EngineTypeOK /\ ProcessInv /\ ClientInv)
<1>1. EngineTypeOK /\ ProcessInv /\ ClientInv /\ [EngineNext]_engineVars =>
        (EngineTypeOK /\ ProcessInv /\ ClientInv)'
  BY EngineTypeStep, ProcessStep, ClientStep
<1> QED
  BY <1>1, EngineInitInv, PTL DEF EngineSpec

-----------------------------------------------------------------------------
(* The engine as its holder sees it.                                         *)

\* There is a process once it was started; one Stop at a time is under way; and after
\* one was through, the others find the process gone.
HandleInv ==
    /\ starting \in {"idle", "listening"} => core = "none"
    /\ starting \notin {"idle", "listening", "refused"} => core # "none"
    /\ \A s \in StopCalls : stopping[s] \notin {Idle} \cup StopEnds => stopMu = s
    /\ (\E t \in StopCalls : stopping[t] = "ok") =>
           \A s \in StopCalls : stopping[s] \in {Idle, "gone", "tidying"} \cup StopEnds

\* What a step may show the holder.
HandleStep ==
    /\ [Held!Next]_(Held!vars)
    /\ (\E t \in StopCalls : stopping[t] = "ok") =>
           \A s \in StopCalls : stopping'[s] = "error" => stopping[s] = "error"

EngineInv == EngineTypeOK /\ ProcessInv /\ ClientInv /\ HandleInv

\* Steps that neither start nor stop anything.
LEMMA QuietStep ==
    ASSUME EngineInv, UNCHANGED <<starting, stopping, stopMu, exitDone, core>>
    PROVE  HandleInv' /\ HandleStep
<1>1. Told' = Told
  BY DEF Told
<1>2. UNCHANGED Held!vars
  BY <1>1 DEF Held!vars
<1> QED
  BY <1>2 DEF EngineInv, HandleInv, HandleStep

\* A Stop is asked for only of what was started.
LEMMA NotStopped ==
    ASSUME EngineInv, starting \notin {"connected", "failed"} PROVE Told = "nothing"
BY DEF EngineInv, ProcessInv, Told, Idle

\* The start, and the end of the process.
LEMMA ProcessShown ==
    ASSUME EngineInv, SpawnOwned \/ ChildWaited \/ CoreExits \/ CoreLeaves
    PROVE  HandleInv' /\ HandleStep
<1> USE DEF EngineInv, EngineTypeOK
<1>1. UNCHANGED stops
  BY DEF SpawnOwned, Listen, StartChild, Supervise, AcceptWithin, AcceptFails, CloseListener,
     ChildWaited, CoreExits, CoreLeaves
<1>2. HandleInv'
  <2>1. starting' \in {"idle", "listening"} => core' = "none"
    BY DEF HandleInv, SpawnOwned, Listen, StartChild, Supervise, AcceptWithin, AcceptFails,
       CloseListener, ChildWaited, CoreExits, CoreLeaves
  <2>2. starting' \notin {"idle", "listening", "refused"} => core' # "none"
    BY DEF HandleInv, SpawnOwned, Listen, StartChild, Supervise, AcceptWithin, AcceptFails,
       CloseListener, ChildWaited, CoreExits, CoreLeaves
  <2> QED
    BY <1>1, <2>1, <2>2 DEF HandleInv, stops
<1>3. CASE AcceptWithin
  <2>1. Told = "nothing" /\ Told' = "started" /\ UNCHANGED <<core, exitDone>> /\ core # "none"
    BY <1>1, <1>3, NotStopped DEF AcceptWithin, Told, HandleInv, ProcessInv, stops, Idle
  <2>2. Held!Hand
    BY <2>1 DEF Held!Hand
  <2> QED
    BY <1>1, <1>2, <2>2 DEF HandleStep, Held!Next, stops
<1>4. CASE ~AcceptWithin
  <2>1. Told' = Told
    BY <1>1, <1>4 DEF Told, stops, SpawnOwned, Listen, StartChild, Supervise, AcceptFails,
       CloseListener, ChildWaited, CoreExits, CoreLeaves
  <2>2. CASE StartChild /\ core' # core
    <3>1. Told = "nothing" /\ core = "none" /\ core' = "running" /\ ~exitDone /\ ~exitDone'
      BY <2>2, NotStopped DEF StartChild, HandleInv, ProcessInv
    <3> QED
      BY <1>1, <1>2, <2>1, <3>1 DEF HandleStep, Held!Next, Held!Start, stops
  <2>3. CASE ~(StartChild /\ core' # core)
    <3>1. \/ UNCHANGED <<core, exitDone>>
          \/ ~exitDone /\ core # "none" /\ (core' = "exited" \/ exitDone')
          \/ exitDone /\ exitDone'
      BY <1>4, <2>3 DEF HandleInv, ProcessInv, SpawnOwned, Listen, StartChild, Supervise,
         AcceptFails,
         CloseListener, ChildWaited, CoreExits, CoreLeaves
    <3>2. Held!Exit \/ UNCHANGED Held!vars
      BY <2>1, <3>1 DEF Held!Exit, Held!vars
    <3> QED
      BY <1>1, <1>2, <3>2 DEF HandleStep, Held!Next, stops
  <2> QED
    BY <2>2, <2>3
<1> QED
  BY <1>3, <1>4

\* A Stop: it goes on, or it is through.
LEMMA StopShown ==
    ASSUME EngineInv, NEW s \in StopCalls, BeginStop(s) \/ StopProcess(s)
    PROVE  HandleInv' /\ HandleStep
<1> USE DEF EngineInv, EngineTypeOK
<1>1. PICK label :
          /\ StopGoes(s, label)
          /\ label = "ok" => exitDone /\ UNCHANGED <<core, exitDone>>
          /\ label = "error" => stopping[s] \in {"kill", "killed"} /\ UNCHANGED <<core, exitDone>>
          /\ stopping[s] = Idle => stopMu = Nobody /\ (exitDone => label = "gone")
          /\ stopping[s] \notin StopEnds
          /\ stopping[s] = "gone" => label \in {"tidying", "ok"}
          /\ stopping[s] = "tidying" => label = "ok"
          /\ \/ UNCHANGED <<core, exitDone>>
             \/ core' = "exited" /\ UNCHANGED exitDone
             \/ UNCHANGED core /\ exitDone'
          /\ label \in {"ok", "error", "gone", "shutdown", "close", "closing", "tidying", "wait",
                        "kill", "killed"}
  BY DEF BeginStop, StopProcess, ShutdownAsked, CloseConnection, ReaderDone, ConfirmedExit,
     StopTimesOut, KillAfterFailedShutdown, KilledTooLate, ProcessInv, process, Idle, StopEnds,
     HasClient
<1>2. UNCHANGED starting /\ stopping[s] # "ok"
  BY <1>1 DEF BeginStop, StopProcess, ShutdownAsked, CloseConnection, ReaderDone, ConfirmedExit,
     StopTimesOut, KillAfterFailedShutdown, KilledTooLate, process, StopEnds
<1>3. starting \in {"connected", "failed"} /\ core # "none"
  BY DEF BeginStop, StopProcess, ShutdownAsked, CloseConnection, ReaderDone, ConfirmedExit,
     StopTimesOut, KillAfterFailedShutdown, KilledTooLate, ProcessInv, HandleInv, Idle
<1>4. /\ \A t \in StopCalls \ {s} :
             stopping'[t] = stopping[t] /\ stopping[t] \in {Idle} \cup StopEnds
      /\ stopping'[s] = label
      /\ stopMu' = IF label \in StopEnds THEN Nobody ELSE s
  BY <1>1, EngineAssumption DEF StopGoes, HandleInv, Idle
<1>5. core' # "none"
  BY <1>1, <1>3
<1>6. ASSUME \E t \in StopCalls : stopping[t] = "ok" PROVE label \in {"gone", "tidying", "ok"}
  <2>1. exitDone /\ stopping[s] \in {Idle, "gone", "tidying"}
    BY <1>1, <1>6 DEF HandleInv, ProcessInv
  <2> QED
    BY <1>1, <2>1
<1>7. HandleInv'
  BY <1>1, <1>2, <1>3, <1>4, <1>5, <1>6 DEF HandleInv, StopEnds, Idle
<1>8. (\E t \in StopCalls : stopping[t] = "ok") =>
          \A t \in StopCalls : stopping'[t] = "error" => stopping[t] = "error"
  BY <1>1, <1>4, <1>6
<1>9. CASE label = "ok"
  <2>1. Told' = "stopped" /\ exitDone /\ UNCHANGED <<core, exitDone>>
    BY <1>1, <1>4, <1>9 DEF Told
  <2>2. Held!Confirm \/ UNCHANGED Held!vars
    BY <2>1 DEF Held!Confirm, Held!vars
  <2> QED
    BY <1>7, <1>8, <2>2 DEF HandleStep, Held!Next
<1>10. CASE label = "error"
  <2>1. Told # "stopped" /\ Told' = "in doubt" /\ UNCHANGED <<core, exitDone>>
    BY <1>1, <1>2, <1>4, <1>6, <1>10 DEF Told
  <2>2. Held!Doubt
    BY <1>3, <2>1 DEF Held!Doubt
  <2> QED
    BY <1>7, <1>8, <2>2 DEF HandleStep, Held!Next
<1>11. CASE label \notin StopEnds
  <2>1. stopping[s] \notin StopEnds
    BY <1>1
  <2>2. Told' = Told
    BY <1>2, <1>4, <1>11, <2>1 DEF Told, StopEnds
  <2>3. Held!Exit \/ UNCHANGED Held!vars
    BY <1>1, <1>3, <2>2 DEF Held!Exit, Held!vars
  <2> QED
    BY <1>7, <1>8, <2>3 DEF HandleStep, Held!Next
<1> QED
  BY <1>9, <1>10, <1>11 DEF StopEnds

LEMMA NextHandle == EngineInv /\ [EngineNext]_engineVars => HandleInv' /\ HandleStep
<1> SUFFICES ASSUME EngineInv, [EngineNext]_engineVars PROVE HandleInv' /\ HandleStep
  OBVIOUS
<1>1. CASE SpawnOwned \/ ChildWaited \/ CoreExits \/ CoreLeaves
  BY <1>1, ProcessShown
<1>2. CASE CoreDials \/ CoreWedges \/ \E id \in Ids : CoreAnswers(id)
  BY <1>2, QuietStep DEF CoreDials, CoreWedges, CoreAnswers, stops, process
<1>3. CASE Receive \/ ReaderStep
  BY <1>3, QuietStep DEF Receive, ReadEvent, RefuseFrame, StopReading, ReadReply, ReaderStep,
     ReadFails, Finish, DeliverReply, FailWaiter, stops, process
<1>4. ASSUME NEW id \in Ids, Invoke(id) \/ CallStep(id) \/ Deadline(id)
      PROVE  HandleInv' /\ HandleStep
  BY <1>4, QuietStep DEF Invoke, CallStep, WriteFrame, WriteFails, Await, Deadline, stops,
     process
<1>5. CASE \E s \in StopCalls : BeginStop(s) \/ StopProcess(s)
  BY <1>5, StopShown
<1>6. CASE UNCHANGED engineVars
  BY <1>6, QuietStep DEF engineVars
<1> QED
  BY <1>1, <1>2, <1>3, <1>4, <1>5, <1>6 DEF EngineNext, Core

-----------------------------------------------------------------------------
(* Theorems.                                                                 *)

\* The variables keep their types: the buffer of events never holds more than its
\* size, and a call ends in one of its ways (client.go:122-126, 174-183).
THEOREM EngineTypeCorrect == EngineSpec => []EngineTypeOK
BY EngineInvariant, PTL

\* A Stop that reports success has seen the process end, or killed the pkexec in
\* its place (spawn.go:292-321).
THEOREM StopsAreConfirmed == EngineSpec => []StopIsConfirmed
<1>1. ProcessInv => StopIsConfirmed
  BY DEF ProcessInv, StopIsConfirmed
<1> QED
  BY <1>1, EngineInvariant, PTL

\* What a Stop says is so: after one that reports success none reports a failure, and to
\* whoever holds it the engine starts once and, once it was seen to end, has ended
\* (spawn.go:158-247, 253-321).
THEOREM HandleKept == EngineSpec => HandleIsKept
<1>1. EngineInit => HandleInv
  BY DEF EngineInit, HandleInv, Idle
<1>2. EngineInit => Held!Init
  <2> SUFFICES ASSUME EngineInit PROVE Held!Init
    OBVIOUS
  <2>1. ~exitDone
    BY Zenon DEF EngineInit
  <2> QED
    BY <2>1 DEF EngineInit, Held!Init, Told, Idle
<1>3. EngineInv /\ [EngineNext]_engineVars => HandleInv' /\ HandleStep
  BY NextHandle
<1>4. HandleStep => [Held!Next]_(Held!vars)
  BY DEF HandleStep
<1>5. HandleStep =>
        [(\E t \in StopCalls : stopping[t] = "ok") =>
            \A s \in StopCalls : stopping'[s] = "error" => stopping[s] = "error"]_engineVars
  BY DEF HandleStep
<1>6. EngineSpec => [](EngineTypeOK /\ ProcessInv /\ ClientInv)
  BY EngineInvariant
<1>7. EngineSpec => []EngineInv
  BY <1>1, <1>3, <1>6, PTL DEF EngineSpec, EngineInv
<1> QED
  BY <1>2, <1>3, <1>4, <1>5, <1>7, PTL
  DEF EngineSpec, HandleIsKept, Held!Spec, SuccessIsFinal

\* The table of calls never keeps one that has ended (client.go:152-190).
THEOREM TableIsOfLiveCalls == EngineSpec => []OnlyLiveCallsPend
<1>1. EngineTypeOK /\ ClientInv => OnlyLiveCallsPend
  BY DEF EngineTypeOK, ClientInv, OnlyLiveCallsPend
<1> QED
  BY <1>1, EngineInvariant, PTL

\* Neither readLoop nor finish ever waits for a call to take its message
\* (client.go:118-121, 140-142).
THEOREM ReaderNeverWaits == EngineSpec => []ReaderIsNeverHeldUp
<1>1. EngineTypeOK /\ ClientInv => ReaderIsNeverHeldUp
  BY DEF EngineTypeOK, ClientInv, ReaderIsNeverHeldUp
<1> QED
  BY <1>1, EngineInvariant, PTL

\* The table of calls holds live calls only, and the reader is never held up by one.
THEOREM TableServes == EngineSpec => []TableServesTheReader
BY TableIsOfLiveCalls, ReaderNeverWaits, PTL DEF TableServesTheReader
=============================================================================
