-------------------------- MODULE ValidatorRunProofs --------------------------
(***************************************************************************)
(* Proofs about ValidatorRun for any number of scans, workers and endpoints,  *)
(* any size of the channels, and any limits of the worker controller.         *)
(***************************************************************************)
EXTENDS ValidatorRun, FiniteSetTheorems, TLAPS

-----------------------------------------------------------------------------
(* The worker controller (scanner.go:584-616).                               *)

LEMMA NewControllerType ==
    ASSUME NEW adaptive \in BOOLEAN, DefaultWorkers \in Nat
    PROVE  NewController(adaptive, DefaultWorkers) \in Controllers
BY ControllerAssumption DEF NewController, Controllers, MinInt, MaxInt

LEMMA AcquiredType ==
    ASSUME NEW c \in Controllers, MayAcquire(c)
    PROVE  Acquired(c) \in Controllers
BY ControllerAssumption DEF Acquired, MayAcquire, Controllers

\* However many results come in under pressure, at least one worker may probe.
LEMMA PressureType ==
    ASSUME NEW c \in Controllers
    PROVE  UnderPressure(c) \in Controllers /\ UnderPressure(c).effective <= c.effective
<1>1. PICK e \in 1..Ceiling : e = c.effective
  BY DEF Controllers
<1>2. (e * 3) \div 4 \in Int /\ (e * 3) \div 4 <= e
  BY <1>1, ControllerAssumption
<1>3. MinInt(e, MaxInt(1, (e * 3) \div 4)) \in 1..Ceiling
      /\ MinInt(e, MaxInt(1, (e * 3) \div 4)) <= e
  BY <1>1, <1>2, ControllerAssumption DEF MinInt, MaxInt
<1> QED
  BY <1>1, <1>3 DEF UnderPressure, Controllers

\* However many come in without it, no more than the ceiling may.
LEMMA SuccessType ==
    ASSUME NEW c \in Controllers
    PROVE  WithoutPressure(c) \in Controllers
<1>1. PICK e \in 1..Ceiling : e = c.effective
  BY DEF Controllers
<1>2. PICK d \in Int : d = Ceiling \div 16
  BY ControllerAssumption
<1>3. MinInt(Ceiling, e + MaxInt(1, d)) \in 1..Ceiling
  BY <1>1, <1>2, ControllerAssumption DEF MinInt, MaxInt
<1>4. c.effective + MaxInt(1, Ceiling \div 16) = e + MaxInt(1, d)
  BY <1>1, <1>2
<1>5. c.successes + 1 \in Nat /\ 0 \in Nat
  BY DEF Controllers
<1>6. CASE c.successes + 1 < Threshold(c)
  BY <1>5, <1>6 DEF WithoutPressure, Controllers
<1>7. CASE ~(c.successes + 1 < Threshold(c))
  BY <1>3, <1>4, <1>5, <1>7 DEF WithoutPressure, Controllers
<1> QED
  BY <1>6, <1>7

LEMMA ReleasedType ==
    ASSUME NEW c \in Controllers, NEW pressure \in BOOLEAN
    PROVE  Released(c, pressure) \in Controllers
<1> DEFINE returned == [c EXCEPT !.active = IF @ > 0 THEN @ - 1 ELSE @]
<1>1. returned \in Controllers
  BY ControllerAssumption DEF Controllers
<1>2. UnderPressure(returned) \in Controllers /\ WithoutPressure(returned) \in Controllers
  BY <1>1, PressureType, SuccessType
<1> QED
  BY <1>1, <1>2 DEF Released

-----------------------------------------------------------------------------
(* Types.                                                                    *)

LEMMA InitTypes == Init => TypeOK
<1> SUFFICES ASSUME Init PROVE TypeOK
  OBVIOUS
<1>1. controller \in [Runs -> Controllers]
  BY NewControllerType, ValidatorAssumption DEF Init
<1>2. /\ Zero \in ValidatorStates /\ "none" \in RunPcs /\ "off" \in WorkerPcs
      /\ [phase |-> "none", queued |-> 0, rows |-> 0, err |-> FALSE] \in Files
  BY DEF Zero, ValidatorStates, Statuses, RunPcs, WorkerPcs, Files
<1>3. state \in ValidatorStates /\ runPc \in [Runs -> RunPcs] /\ csv \in [Runs -> Files]
  BY <1>2 DEF Init
<1>4. /\ workerPc \in [Runs -> [Workers -> WorkerPcs]]
      /\ workerRows \in [Runs -> [Workers -> Nat]]
  BY <1>2 DEF Init
<1>5. /\ runID \in Runs \cup {0} /\ fed \in [Runs -> Nat] /\ jobs \in [Runs -> 0..JobBuffer]
      /\ writer \in Runs \cup {None} /\ cancelReg \in Runs \cup {None}
  BY ValidatorAssumption DEF Init
<1>6. /\ meta \in [Runs -> Metadata \cup {None}] /\ final \in [Runs -> Metadata \cup {None}]
      /\ ctxDone \subseteq Runs /\ feedErr \subseteq Runs
      /\ quit \in {"no", "cancelled", "waiting", "exited", "timedOut"}
  BY DEF Init
<1> QED
  BY <1>1, <1>3, <1>4, <1>5, <1>6 DEF TypeOK

\* Where a goroutine goes, and where the others stay.
LEMMA GotoType ==
    ASSUME runPc \in [Runs -> RunPcs], NEW r \in Runs, NEW label \in RunPcs, Goto(r, label)
    PROVE  /\ runPc' \in [Runs -> RunPcs]
           /\ \A s \in Runs : runPc'[s] = IF s = r THEN label ELSE runPc[s]
BY DEF Goto

LEMMA WorkerGotoType ==
    ASSUME workerPc \in [Runs -> [Workers -> WorkerPcs]],
           NEW r \in Runs, NEW w \in Workers, NEW label \in WorkerPcs, WorkerGoto(r, w, label)
    PROVE  /\ workerPc' \in [Runs -> [Workers -> WorkerPcs]]
           /\ \A s \in Runs, v \in Workers :
                 workerPc'[s][v] = IF s = r /\ v = w THEN label ELSE workerPc[s][v]
<1> DEFINE crewOf == [workerPc[r] EXCEPT ![w] = label]
<1>1. /\ crewOf \in [Workers -> WorkerPcs]
      /\ \A v \in Workers : crewOf[v] = IF v = w THEN label ELSE workerPc[r][v]
  OBVIOUS
<1>2. workerPc' = [workerPc EXCEPT ![r] = crewOf]
  BY DEF WorkerGoto
<1> QED
  BY <1>1, <1>2

LEMMA Labels ==
    /\ {"none", "begin", "feed", "send", "close", "wait", "finish", "finishCanceled",
        "closeWriter", "drain", "settle", "metadata", "done"} \subseteq RunPcs
    /\ {"off", "take", "resume", "acquire", "probe", "write", "push", "countWrote",
        "countSkipped", "metadata"} \subseteq WorkerPcs
    /\ \A r : Continue(r) \in WorkerPcs
BY DEF RunPcs, Feeding, Finishing, WorkerPcs, Probing, Continue

\* What the calls and the goroutines make of validatorState.
LEMMA StateTypes ==
    ASSUME state \in ValidatorStates
    PROVE  /\ Zero \in ValidatorStates /\ [Zero EXCEPT !.status = "Running"] \in ValidatorStates
           /\ Cancelled \in ValidatorStates
           /\ [state EXCEPT !.paused = ~@] \in ValidatorStates
           /\ [state EXCEPT !.status = "Failed", !.paused = FALSE] \in ValidatorStates
           /\ \A n \in Nat :
                 [state EXCEPT !.status = "Completed", !.paused = FALSE, !.completed = n]
                    \in ValidatorStates
           /\ \A n \in Nat :
                 /\ [state EXCEPT !.rows = n] \in ValidatorStates
                 /\ [state EXCEPT !.rows = n, !.status = "Failed", !.paused = FALSE]
                       \in ValidatorStates
           /\ [state EXCEPT !.completed = @ + 1, !.rows = @ + 1, !.retained = @ + 1]
                 \in ValidatorStates
           /\ [state EXCEPT !.completed = @ + 1, !.gradeF = @ + 1] \in ValidatorStates
<1>1. Zero \in ValidatorStates /\ [Zero EXCEPT !.status = "Running"] \in ValidatorStates
  BY DEF Zero, ValidatorStates, Statuses
<1>2. Cancelled \in ValidatorStates
  BY DEF Cancelled, ValidatorStates, Statuses
<1>3. [state EXCEPT !.paused = ~@] \in ValidatorStates
  BY DEF ValidatorStates, Statuses
<1>4. [state EXCEPT !.status = "Failed", !.paused = FALSE] \in ValidatorStates
  BY DEF ValidatorStates, Statuses
<1>5. ASSUME NEW n \in Nat
      PROVE  [state EXCEPT !.status = "Completed", !.paused = FALSE, !.completed = n]
                \in ValidatorStates
  BY DEF ValidatorStates, Statuses
<1>6. ASSUME NEW n \in Nat
      PROVE  /\ [state EXCEPT !.rows = n] \in ValidatorStates
             /\ [state EXCEPT !.rows = n, !.status = "Failed", !.paused = FALSE]
                   \in ValidatorStates
  BY DEF ValidatorStates, Statuses
<1>7. /\ state.completed + 1 \in Nat /\ state.gradeF + 1 \in Nat
      /\ state.rows + 1 \in Nat /\ state.retained + 1 \in Nat
  BY DEF ValidatorStates
<1>8. [state EXCEPT !.completed = @ + 1, !.rows = @ + 1, !.retained = @ + 1]
        \in ValidatorStates
  BY <1>7 DEF ValidatorStates, Statuses
<1>9. [state EXCEPT !.completed = @ + 1, !.gradeF = @ + 1] \in ValidatorStates
  BY <1>7 DEF ValidatorStates, Statuses
<1> QED
  BY <1>1, <1>2, <1>3, <1>4, <1>5, <1>6, <1>8, <1>9

LEMMA CancelTypes ==
    ASSUME TypeOK, CancelRegistered
    PROVE  cancelReg' \in Runs \cup {None} /\ ctxDone' \subseteq Runs
BY DEF TypeOK, CancelRegistered

LEMMA FailTypes ==
    ASSUME TypeOK, NEW r \in Runs, FailValidatorRun(r)
    PROVE  /\ state' \in ValidatorStates
           /\ cancelReg' \in Runs \cup {None} /\ ctxDone' \subseteq Runs
BY StateTypes, CancelTypes DEF TypeOK, FailValidatorRun

\* A file: opened, closed, and its rows queued, written and lost.
LEMMA FileTypes ==
    ASSUME NEW f \in Files
    PROVE  /\ \A phase \in {"none", "open", "closing", "closed"} :
                 [f EXCEPT !.phase = phase] \in Files
           /\ [f EXCEPT !.queued = @ + 1] \in Files
           /\ [f EXCEPT !.err = TRUE] \in Files
           /\ f.queued > 0 => /\ [f EXCEPT !.queued = @ - 1, !.rows = @ + 1] \in Files
                              /\ [f EXCEPT !.queued = @ - 1, !.err = TRUE] \in Files
<1>1. \A phase \in {"none", "open", "closing", "closed"} : [f EXCEPT !.phase = phase] \in Files
  BY DEF Files
<1>2. [f EXCEPT !.queued = @ + 1] \in Files /\ [f EXCEPT !.err = TRUE] \in Files
  <2>1. f.queued + 1 \in Nat
    BY DEF Files
  <2>2. [f EXCEPT !.queued = @ + 1] \in Files
    BY <2>1 DEF Files
  <2>3. [f EXCEPT !.err = TRUE] \in Files
    BY DEF Files
  <2> QED
    BY <2>2, <2>3
<1>3. ASSUME f.queued > 0 PROVE f.queued - 1 \in Nat /\ f.rows + 1 \in Nat
  BY <1>3 DEF Files
<1>4. ASSUME f.queued > 0 PROVE [f EXCEPT !.queued = @ - 1, !.rows = @ + 1] \in Files
  BY <1>3, <1>4 DEF Files
<1>5. ASSUME f.queued > 0 PROVE [f EXCEPT !.queued = @ - 1, !.err = TRUE] \in Files
  BY <1>3, <1>5 DEF Files
<1> QED
  BY <1>1, <1>2, <1>4, <1>5

LEMMA InterfaceTypes ==
    ASSUME TypeOK, Interface
    PROVE  TypeOK'
<1>1. CASE StartValidatorRun
  <2>1. state' \in ValidatorStates
    BY <1>1, StateTypes DEF StartValidatorRun, TypeOK
  <2>2. runPc' \in [Runs -> RunPcs]
    BY <1>1, GotoType, Labels DEF StartValidatorRun, TypeOK
  <2>3. csv' \in [Runs -> Files]
    BY <1>1, FileTypes DEF StartValidatorRun, TypeOK
  <2>4. runID' \in Runs /\ writer' \in Runs /\ cancelReg' \in Runs
    BY <1>1 DEF StartValidatorRun, TypeOK
  <2> QED
    BY <1>1, <2>1, <2>2, <2>3, <2>4 DEF StartValidatorRun, TypeOK, app, feed, crew, disk
<1>2. CASE CancelValidatorScan
  <2>1. state' \in ValidatorStates
    BY <1>2, StateTypes DEF CancelValidatorScan, TypeOK
  <2>2. cancelReg' \in Runs \cup {None} /\ ctxDone' \subseteq Runs
    BY <1>2, CancelTypes DEF CancelValidatorScan, TypeOK
  <2> QED
    BY <1>2, <2>1, <2>2 DEF CancelValidatorScan, TypeOK, app, feed, crew, disk
<1>3. CASE SetValidatorPaused
  <2>1. state' \in ValidatorStates
    BY <1>3, StateTypes DEF SetValidatorPaused, TypeOK
  <2> QED
    BY <1>3, <2>1 DEF SetValidatorPaused, TypeOK, app, feed, crew, disk
<1>4. CASE ClearValidatorResults
  <2>1. state' \in ValidatorStates
    BY <1>4, StateTypes DEF ClearValidatorResults, TypeOK
  <2> QED
    BY <1>4, <2>1 DEF ClearValidatorResults, TypeOK, app, feed, crew, disk
<1>5. CASE Shutdown
  <2>1. state' \in ValidatorStates
    BY <1>5, StateTypes DEF Shutdown, TypeOK
  <2>2. cancelReg' \in Runs \cup {None} /\ ctxDone' \subseteq Runs
    BY <1>5, CancelTypes DEF Shutdown, TypeOK
  <2> QED
    BY <1>5, <2>1, <2>2 DEF Shutdown, TypeOK, app, feed, crew, disk
<1>6. CASE WaitValidatorStopped
  BY <1>6 DEF WaitValidatorStopped, TypeOK, app, feed, crew, disk
<1>7. CASE StopWaiting
  BY <1>7 DEF StopWaiting, TypeOK, app, feed, crew, disk
<1> QED
  BY <1>1, <1>2, <1>3, <1>4, <1>5, <1>6, <1>7 DEF Interface

LEMMA RunStepTypes ==
    ASSUME TypeOK, NEW r \in Runs, RunStep(r)
    PROVE  TypeOK'
<1>1. CASE BeginRun(r)
  <2>1. runPc' \in [Runs -> RunPcs]
    BY <1>1, GotoType, Labels DEF BeginRun, TypeOK
  <2>2. meta' \in [Runs -> Metadata \cup {None}]
    BY <1>1 DEF BeginRun, TypeOK, Metadata, Statuses
  <2>3. workerPc' \in [Runs -> [Workers -> WorkerPcs]]
    BY <1>1, Labels DEF BeginRun, TypeOK
  <2> QED
    BY <1>1, <2>1, <2>2, <2>3 DEF BeginRun, TypeOK, app, feed, crew, disk
<1>2. CASE FeedResume(r)
  <2>1. runPc' \in [Runs -> RunPcs]
    BY <1>2, GotoType, Labels DEF FeedResume, TypeOK, FeedStopped
  <2>2. feedErr' \subseteq Runs
    BY <1>2 DEF FeedResume, TypeOK, FeedStopped
  <2> QED
    BY <1>2, <2>1, <2>2 DEF FeedResume, TypeOK, app, feed, crew, disk
<1>3. CASE FeedSend(r)
  <2>1. runPc' \in [Runs -> RunPcs]
    BY <1>3, GotoType, Labels DEF FeedSend, TypeOK, FeedStopped
  <2>2. feedErr' \subseteq Runs
    BY <1>3 DEF FeedSend, TypeOK, FeedStopped
  <2>3. CASE jobs[r] < JobBuffer
    <3>1. jobs[r] \in Nat /\ fed[r] \in Nat /\ jobs[r] + 1 \in 0..JobBuffer /\ fed[r] + 1 \in Nat
      BY <2>3, ValidatorAssumption DEF TypeOK
    <3>2. fed' \in [Runs -> Nat] /\ jobs' \in [Runs -> 0..JobBuffer]
      BY <1>3, <3>1 DEF FeedSend, TypeOK
    <3> QED
      BY <1>3, <2>1, <2>2, <3>2 DEF FeedSend, TypeOK, app, feed, crew, disk
  <2>4. CASE ~(jobs[r] < JobBuffer)
    BY <1>3, <2>1, <2>2, <2>4 DEF FeedSend, TypeOK, app, feed, crew, disk
  <2> QED
    BY <2>3, <2>4
<1>4. CASE CloseJobs(r)
  <2>1. runPc' \in [Runs -> RunPcs]
    BY <1>4, GotoType, Labels DEF CloseJobs, TypeOK
  <2> QED
    BY <1>4, <2>1 DEF CloseJobs, TypeOK, app, feed, crew, disk
<1>5. CASE WaitForWorkers(r)
  <2>1. runPc' \in [Runs -> RunPcs]
    BY <1>5, GotoType, Labels DEF WaitForWorkers, TypeOK
  <2> QED
    BY <1>5, <2>1 DEF WaitForWorkers, TypeOK, app, feed, crew, disk
<1>6. CASE FinishValidatorRun(r)
  <2>1. runPc' \in [Runs -> RunPcs]
    BY <1>6, GotoType, Labels DEF FinishValidatorRun, TypeOK
  <2>2. state' \in ValidatorStates
    <3>1. runID = r => Totals[runID] \in Nat
      BY ValidatorAssumption DEF Runs
    <3>2. /\ state \in ValidatorStates /\ Cancelled \in ValidatorStates
          /\ runID = r =>
                [state EXCEPT !.status = "Completed", !.paused = FALSE,
                              !.completed = Totals[runID]] \in ValidatorStates
      BY <3>1, StateTypes DEF TypeOK
    <3>3. ASSUME NEW canceled \in BOOLEAN, runID = r
          PROVE  Outcome(r, canceled) \in ValidatorStates
      BY <3>2, <3>3 DEF Outcome
    <3> QED
      BY <1>6, <3>2, <3>3 DEF FinishValidatorRun
  <2>3. cancelReg' \in Runs \cup {None}
    BY <1>6 DEF FinishValidatorRun, TypeOK
  <2> QED
    BY <1>6, <2>1, <2>2, <2>3 DEF FinishValidatorRun, TypeOK, app, feed, crew, disk
<1>7. CASE CloseWriter(r)
  <2>1. runPc' \in [Runs -> RunPcs]
    BY <1>7, GotoType, Labels DEF CloseWriter, TypeOK
  <2>2. csv' \in [Runs -> Files]
    BY <1>7, FileTypes DEF CloseWriter, TypeOK
  <2> QED
    BY <1>7, <2>1, <2>2 DEF CloseWriter, TypeOK, app, feed, crew, disk
<1>8. CASE SettleValidatorRun(r)
  <2>1. runPc' \in [Runs -> RunPcs]
    BY <1>8, GotoType, Labels DEF SettleValidatorRun, TypeOK
  <2>2. csv[r].rows \in Nat
    BY <1>8 DEF SettleValidatorRun, TypeOK, Files
  <2>3. state' \in ValidatorStates
    BY <1>8, <2>2, StateTypes DEF SettleValidatorRun, TypeOK
  <2>4. MetaOf(state') \in Metadata
    BY <1>8, <2>3 DEF SettleValidatorRun, MetaOf, Metadata, ValidatorStates
  <2>5. final' \in [Runs -> Metadata \cup {None}]
    BY <1>8, <2>4 DEF SettleValidatorRun, TypeOK
  <2> QED
    BY <1>8, <2>1, <2>2, <2>3, <2>4, <2>5 DEF SettleValidatorRun, TypeOK, app, feed, crew, disk
<1>9. CASE WriteFinalMetadata(r)
  <2>1. runPc' \in [Runs -> RunPcs]
    BY <1>9, GotoType, Labels DEF WriteFinalMetadata, TypeOK
  <2> QED
    BY <1>9, <2>1 DEF WriteFinalMetadata, TypeOK, app, feed, crew, disk
<1> QED
  BY <1>1, <1>2, <1>3, <1>4, <1>5, <1>6, <1>7, <1>8, <1>9 DEF RunStep

LEMMA WorkerStepTypes ==
    ASSUME TypeOK, NEW r \in Runs, NEW w \in Workers, WorkerStep(r, w)
    PROVE  TypeOK'
<1>1. CASE TakeJob(r, w)
  <2>1. workerPc' \in [Runs -> [Workers -> WorkerPcs]]
    BY <1>1, WorkerGotoType, Labels DEF TakeJob, TypeOK
  <2>2. jobs' \in [Runs -> 0..JobBuffer]
    <3>1. JobBuffer \in Nat
      BY ValidatorAssumption
    <3>2. jobs[r] > 0 => jobs[r] - 1 \in 0..JobBuffer
      BY <3>1 DEF TypeOK
    <3> QED
      BY <1>1, <3>2 DEF TakeJob, TypeOK
  <2> QED
    BY <1>1, <2>1, <2>2 DEF TakeJob, TypeOK, app, feed, crew, disk
<1>2. CASE WorkerResume(r, w)
  <2>1. workerPc' \in [Runs -> [Workers -> WorkerPcs]]
    BY <1>2, WorkerGotoType, Labels DEF WorkerResume, TypeOK
  <2> QED
    BY <1>2, <2>1 DEF WorkerResume, TypeOK, app, feed, crew, disk
<1>3. CASE AcquireWorker(r, w)
  <2>1. workerPc' \in [Runs -> [Workers -> WorkerPcs]]
    BY <1>3, WorkerGotoType, Labels DEF AcquireWorker, TypeOK
  <2>2. controller' \in [Runs -> Controllers]
    BY <1>3, ReleasedType, AcquiredType DEF AcquireWorker, TypeOK
  <2> QED
    BY <1>3, <2>1, <2>2 DEF AcquireWorker, TypeOK, app, feed, crew, disk
<1>4. CASE ReleaseWorker(r, w)
  <2>1. workerPc' \in [Runs -> [Workers -> WorkerPcs]]
    BY <1>4, WorkerGotoType, Labels DEF ReleaseWorker, TypeOK
  <2>2. controller' \in [Runs -> Controllers]
    BY <1>4, ReleasedType, AcquiredType DEF ReleaseWorker, TypeOK
  <2> QED
    BY <1>4, <2>1, <2>2 DEF ReleaseWorker, TypeOK, app, feed, crew, disk
<1>5. CASE ProbePanics(r, w)
  <2>1. workerPc' \in [Runs -> [Workers -> WorkerPcs]]
    BY <1>5, WorkerGotoType, Labels DEF ProbePanics, TypeOK
  <2>2. controller' \in [Runs -> Controllers]
    BY <1>5, ReleasedType, AcquiredType DEF ProbePanics, TypeOK
  <2>3. state' \in ValidatorStates /\ cancelReg' \in Runs \cup {None} /\ ctxDone' \subseteq Runs
    BY <1>5, FailTypes DEF ProbePanics, TypeOK
  <2> QED
    BY <1>5, <2>1, <2>2, <2>3 DEF ProbePanics, TypeOK, app, feed, crew, disk
<1>6. CASE WriteCSVResult(r, w)
  <2>1. workerPc' \in [Runs -> [Workers -> WorkerPcs]]
    BY <1>6, WorkerGotoType, Labels DEF WriteCSVResult, TypeOK
  <2> QED
    BY <1>6, <2>1 DEF WriteCSVResult, TypeOK, app, feed, crew, disk
<1>7. CASE PushRecord(r, w)
  <2>1. workerPc' \in [Runs -> [Workers -> WorkerPcs]]
    BY <1>7, WorkerGotoType, Labels DEF PushRecord, TypeOK
  <2>2. csv' \in [Runs -> Files]
    <3>1. csv[r] \in Files /\ [csv[r] EXCEPT !.queued = @ + 1] \in Files
      BY FileTypes DEF TypeOK
    <3>2. csv' = csv \/ csv' = [csv EXCEPT ![r] = [csv[r] EXCEPT !.queued = @ + 1]]
      BY <1>7 DEF PushRecord
    <3> QED
      BY <3>1, <3>2 DEF TypeOK
  <2>3. state' \in ValidatorStates /\ cancelReg' \in Runs \cup {None} /\ ctxDone' \subseteq Runs
    BY <1>7, FailTypes DEF PushRecord, TypeOK
  <2> QED
    BY <1>7, <2>1, <2>2, <2>3 DEF PushRecord, TypeOK, app, feed, crew, disk
<1>8. CASE RecordResult(r, w)
  <2>1. state' \in ValidatorStates
    BY <1>8, StateTypes DEF RecordResult, TypeOK
  <2>2. workerPc' \in [Runs -> [Workers -> WorkerPcs]]
    BY <1>8, WorkerGotoType, Labels DEF RecordResult, TypeOK
  <2>3. workerRows' \in [Runs -> [Workers -> Nat]]
    <3>1. state'.rows \in Nat
      BY <2>1 DEF ValidatorStates
    <3>2. [workerRows[r] EXCEPT ![w] = state'.rows] \in [Workers -> Nat]
      BY <3>1 DEF TypeOK
    <3>3. \/ workerRows' = workerRows
          \/ workerRows' = [workerRows EXCEPT ![r] = [workerRows[r] EXCEPT ![w] = state'.rows]]
      BY <1>8 DEF RecordResult
    <3> QED
      BY <3>2, <3>3 DEF TypeOK
  <2> QED
    BY <1>8, <2>1, <2>2, <2>3 DEF RecordResult, TypeOK, app, feed, crew, disk
<1>9. CASE WriteMetadata(r, w)
  <2>1. workerPc' \in [Runs -> [Workers -> WorkerPcs]]
    BY <1>9, WorkerGotoType, Labels DEF WriteMetadata, TypeOK
  <2>2. meta' \in [Runs -> Metadata \cup {None}]
    BY <1>9 DEF WriteMetadata, TypeOK, Metadata, Statuses
  <2> QED
    BY <1>9, <2>1, <2>2 DEF WriteMetadata, TypeOK, app, feed, crew, disk
<1> QED
  BY <1>1, <1>2, <1>3, <1>4, <1>5, <1>6, <1>7, <1>8, <1>9 DEF WorkerStep

LEMMA WriterStepTypes ==
    ASSUME TypeOK, NEW r \in Runs, WriterStep(r)
    PROVE  TypeOK'
<1>1. CASE WriteRow(r)
  <2>1. csv' \in [Runs -> Files]
    <3>1. csv[r].queued > 0
      BY <1>1 DEF WriteRow
    <3>2. /\ [csv[r] EXCEPT !.queued = @ - 1, !.rows = @ + 1] \in Files
          /\ [csv[r] EXCEPT !.queued = @ - 1, !.err = TRUE] \in Files
      BY <3>1, FileTypes DEF TypeOK
    <3>3. \/ csv' = [csv EXCEPT ![r] = [csv[r] EXCEPT !.queued = @ - 1, !.rows = @ + 1]]
          \/ csv' = [csv EXCEPT ![r] = [csv[r] EXCEPT !.queued = @ - 1, !.err = TRUE]]
      BY <1>1 DEF WriteRow, TypeOK
    <3> QED
      BY <3>2, <3>3 DEF TypeOK
  <2> QED
    BY <1>1, <2>1 DEF WriteRow, TypeOK, app, feed, crew, disk
<1>2. CASE FlushFails(r)
  <2>1. csv' \in [Runs -> Files]
    BY <1>2, FileTypes DEF FlushFails, TypeOK
  <2> QED
    BY <1>2, <2>1 DEF FlushFails, TypeOK, app, feed, crew, disk
<1>3. CASE EndWriter(r)
  <2>1. csv' \in [Runs -> Files]
    BY <1>3, FileTypes DEF EndWriter, TypeOK
  <2> QED
    BY <1>3, <2>1 DEF EndWriter, TypeOK, app, feed, crew, disk
<1> QED
  BY <1>1, <1>2, <1>3 DEF WriterStep

LEMMA NextTypes == TypeOK /\ [Next]_vars => TypeOK'
<1> SUFFICES ASSUME TypeOK, [Next]_vars PROVE TypeOK'
  OBVIOUS
<1>1. CASE UNCHANGED vars
  BY <1>1 DEF TypeOK, vars
<1> QED
  BY <1>1, InterfaceTypes, RunStepTypes, WorkerStepTypes, WriterStepTypes DEF Next

\* The types, whatever fails and whenever the interface calls.
THEOREM TypeCorrect == Spec => []TypeOK
BY InitTypes, NextTypes, PTL DEF Spec

-----------------------------------------------------------------------------
(* One run at a time.                                                        *)

\* Where the goroutine of a run is says how far its file and its workers are.
RunOwnsFile ==
    /\ \A r \in Runs : csv[r].phase \in {"open", "closing"} => runID = r /\ writer = r
    /\ \A r \in Runs : csv[r].phase = "open" <=>
            runPc[r] \in Feeding \cup {"finish", "finishCanceled", "closeWriter"}
    /\ \A r \in Runs : csv[r].phase = "closing" => runPc[r] = "drain"
    /\ \A r \in Runs : runPc[r] = "drain" => writer = r
    /\ \A r \in Runs : r > runID => runPc[r] = "none"

WorkersBelong ==
    \A r \in Runs, w \in Workers :
        workerPc[r][w] # "off" => runPc[r] \in Feeding \ {"begin"}

Order == RunOwnsFile /\ WorkersBelong

LEMMA InitOrder == Init => Order
BY ValidatorAssumption DEF Init, Order, RunOwnsFile, WorkersBelong, Feeding, Runs

\* A step that moves no run goroutine, opens or closes no file and starts no
\* worker.
LEMMA OrderStable ==
    ASSUME TypeOK, Order, UNCHANGED <<runID, writer, runPc>>,
           \A s \in Runs : csv'[s].phase = csv[s].phase,
           \A s \in Runs, v \in Workers : workerPc'[s][v] # "off" => workerPc[s][v] # "off"
    PROVE  Order'
BY DEF Order, RunOwnsFile, WorkersBelong

LEMMA InterfaceOrder ==
    ASSUME TypeOK, Order, Interface
    PROVE  Order'
<1>1. CASE StartValidatorRun
  <2> DEFINE next == runID + 1
  <2>1. next \in Runs /\ runID' = next /\ writer' = next /\ writer = None
    BY <1>1 DEF StartValidatorRun, NoActiveRun
  <2>2. \A s \in Runs : csv[s].phase \notin {"open", "closing"} /\ runPc[s] # "drain"
    BY <2>1, ValidatorAssumption DEF Order, RunOwnsFile, Runs
  <2>3. \A s \in Runs : csv'[s].phase = IF s = next THEN "open" ELSE csv[s].phase
    BY <1>1, <2>1 DEF StartValidatorRun, TypeOK, Files
  <2>4. \A s \in Runs : runPc'[s] = IF s = next THEN "begin" ELSE runPc[s]
    BY <1>1, <2>1 DEF StartValidatorRun, TypeOK, Goto
  <2>5. runPc[next] = "none" /\ UNCHANGED workerPc
    BY <1>1, <2>1 DEF StartValidatorRun, Order, RunOwnsFile, TypeOK, Runs, crew
  <2>6. RunOwnsFile'
    <3>1. \A s \in Runs : s > next => runPc'[s] = "none"
      BY <2>1, <2>4 DEF Order, RunOwnsFile, TypeOK, Runs
    <3> QED
      BY <2>1, <2>2, <2>3, <2>4, <3>1 DEF Order, RunOwnsFile, Feeding
  <2>7. WorkersBelong'
    BY <2>4, <2>5 DEF Order, WorkersBelong, Feeding
  <2> QED
    BY <2>6, <2>7 DEF Order
<1>2. CASE CancelValidatorScan
  BY <1>2, OrderStable DEF CancelValidatorScan, app, feed, crew, disk
<1>3. CASE SetValidatorPaused
  BY <1>3, OrderStable DEF SetValidatorPaused, app, feed, crew, disk
<1>4. CASE ClearValidatorResults
  BY <1>4, OrderStable DEF ClearValidatorResults, app, feed, crew, disk
<1>5. CASE Shutdown
  BY <1>5, OrderStable DEF Shutdown, app, feed, crew, disk
<1>6. CASE WaitValidatorStopped
  BY <1>6, OrderStable DEF WaitValidatorStopped, app, feed, crew, disk
<1>7. CASE StopWaiting
  BY <1>7, OrderStable DEF StopWaiting, app, feed, crew, disk
<1> QED
  BY <1>1, <1>2, <1>3, <1>4, <1>5, <1>6, <1>7 DEF Interface

\* A step of the run's goroutine that leaves every file's phase.
LEMMA RunMoves ==
    ASSUME TypeOK, Order, NEW r \in Runs, NEW label \in RunPcs, Goto(r, label),
           UNCHANGED <<runID, writer, csv, workerPc>>, runPc[r] # "none", runPc[r] # "drain",
           label # "drain",
           runPc[r] \in Feeding \cup {"finish", "finishCanceled", "closeWriter"}
             <=> label \in Feeding \cup {"finish", "finishCanceled", "closeWriter"},
           runPc[r] \in Feeding \ {"begin"} =>
             \/ label \in Feeding \ {"begin"}
             \/ \A w \in Workers : workerPc[r][w] = "off"
    PROVE  Order'
<1>1. \A s \in Runs : runPc'[s] = IF s = r THEN label ELSE runPc[s]
  BY GotoType DEF TypeOK
<1>2. RunOwnsFile'
  BY <1>1 DEF Order, RunOwnsFile
<1>3. WorkersBelong'
  BY <1>1 DEF Order, WorkersBelong
<1> QED
  BY <1>2, <1>3 DEF Order

LEMMA RunStepOrder ==
    ASSUME TypeOK, Order, NEW r \in Runs, RunStep(r)
    PROVE  Order'
<1>1. CASE BeginRun(r)
  <2>1. runPc[r] = "begin" /\ UNCHANGED <<runID, writer, csv>>
    BY <1>1 DEF BeginRun, app
  <2>2. \A s \in Runs : runPc'[s] = IF s = r THEN "feed" ELSE runPc[s]
    BY <1>1, GotoType, Labels DEF BeginRun, TypeOK
  <2>3. \A s \in Runs, v \in Workers : s # r => workerPc'[s][v] = workerPc[s][v]
    BY <1>1 DEF BeginRun, TypeOK
  <2>4. RunOwnsFile'
    BY <2>1, <2>2 DEF Order, RunOwnsFile, Feeding
  <2>5. WorkersBelong'
    BY <2>2, <2>3 DEF Order, WorkersBelong, Feeding
  <2> QED
    BY <2>4, <2>5 DEF Order
<1>2. CASE FeedResume(r)
  BY <1>2, RunMoves, Labels DEF FeedResume, FeedStopped, Feeding, app, crew, disk
<1>3. CASE FeedSend(r)
  BY <1>3, RunMoves, Labels DEF FeedSend, FeedStopped, Feeding, app, crew, disk
<1>4. CASE CloseJobs(r)
  BY <1>4, RunMoves, Labels DEF CloseJobs, Feeding, app, crew, disk
<1>5. CASE WaitForWorkers(r)
  BY <1>5, RunMoves, Labels DEF WaitForWorkers, Feeding, app, crew, disk
<1>6. CASE FinishValidatorRun(r)
  <2>1. csv[r].phase = "open"
    BY <1>6 DEF FinishValidatorRun, Order, RunOwnsFile
  <2>2. runID = r
    BY <2>1 DEF Order, RunOwnsFile
  <2> QED
    BY <1>6, <2>2, RunMoves, Labels DEF FinishValidatorRun, Feeding, crew, disk
<1>7. CASE CloseWriter(r)
  <2>1. runPc[r] = "closeWriter" /\ UNCHANGED <<runID, writer, workerPc>>
    BY <1>7 DEF CloseWriter, app, crew
  <2>2. csv[r].phase = "open" /\ writer = r /\ runID = r
    BY <2>1 DEF Order, RunOwnsFile
  <2>3. \A s \in Runs : runPc'[s] = IF s = r THEN "drain" ELSE runPc[s]
    BY <1>7, GotoType, Labels DEF CloseWriter, TypeOK
  <2>4. \A s \in Runs : csv'[s].phase = IF s = r THEN "closing" ELSE csv[s].phase
    BY <1>7 DEF CloseWriter, TypeOK, Files
  <2>5. RunOwnsFile'
    BY <2>1, <2>2, <2>3, <2>4 DEF Order, RunOwnsFile, Feeding
  <2>6. WorkersBelong'
    BY <2>1, <2>3 DEF Order, WorkersBelong, Feeding
  <2> QED
    BY <2>5, <2>6 DEF Order
<1>8. CASE SettleValidatorRun(r)
  <2>1. /\ runPc[r] = "drain" /\ csv[r].phase = "closed" /\ writer' = None
        /\ UNCHANGED <<runID, csv, workerPc>>
    BY <1>8 DEF SettleValidatorRun, crew
  <2>2. writer = r
    BY <2>1 DEF Order, RunOwnsFile
  <2>3. \A s \in Runs : runPc'[s] = IF s = r THEN "metadata" ELSE runPc[s]
    BY <1>8, GotoType, Labels DEF SettleValidatorRun, TypeOK
  <2>4. \A s \in Runs : s # r => csv[s].phase \notin {"open", "closing"} /\ runPc[s] # "drain"
    BY <2>2 DEF Order, RunOwnsFile
  <2>5. RunOwnsFile'
    BY <2>1, <2>3, <2>4 DEF Order, RunOwnsFile, Feeding
  <2>6. WorkersBelong'
    BY <2>1, <2>3 DEF Order, WorkersBelong, Feeding
  <2> QED
    BY <2>5, <2>6 DEF Order
<1>9. CASE WriteFinalMetadata(r)
  BY <1>9, RunMoves, Labels DEF WriteFinalMetadata, Feeding, app, crew
<1> QED
  BY <1>1, <1>2, <1>3, <1>4, <1>5, <1>6, <1>7, <1>8, <1>9 DEF RunStep

LEMMA WorkerStepOrder ==
    ASSUME TypeOK, Order, NEW r \in Runs, NEW w \in Workers, WorkerStep(r, w)
    PROVE  Order'
<1>1. CASE TakeJob(r, w)
  <2>1. \A s \in Runs, v \in Workers : workerPc'[s][v] # "off" => workerPc[s][v] # "off"
    <3>1. workerPc[r][w] # "off"
      BY <1>1 DEF TakeJob
    <3>2. \E label \in WorkerPcs : WorkerGoto(r, w, label)
      BY <1>1, Labels DEF TakeJob
    <3> QED
      BY <3>1, <3>2, WorkerGotoType DEF TypeOK
  <2> QED
    BY <1>1, <2>1, OrderStable DEF TakeJob, app, feed, disk
<1>2. CASE WorkerResume(r, w)
  <2>1. \A s \in Runs, v \in Workers : workerPc'[s][v] # "off" => workerPc[s][v] # "off"
    <3>1. workerPc[r][w] # "off"
      BY <1>2 DEF WorkerResume
    <3>2. \E label \in WorkerPcs : WorkerGoto(r, w, label)
      BY <1>2, Labels DEF WorkerResume
    <3> QED
      BY <3>1, <3>2, WorkerGotoType DEF TypeOK
  <2> QED
    BY <1>2, <2>1, OrderStable DEF WorkerResume, app, feed, disk
<1>3. CASE AcquireWorker(r, w)
  <2>1. \A s \in Runs, v \in Workers : workerPc'[s][v] # "off" => workerPc[s][v] # "off"
    <3>1. workerPc[r][w] # "off"
      BY <1>3 DEF AcquireWorker
    <3>2. \E label \in WorkerPcs : WorkerGoto(r, w, label)
      BY <1>3, Labels DEF AcquireWorker
    <3> QED
      BY <3>1, <3>2, WorkerGotoType DEF TypeOK
  <2> QED
    BY <1>3, <2>1, OrderStable DEF AcquireWorker, app, feed, disk
<1>4. CASE ReleaseWorker(r, w)
  <2>1. \A s \in Runs, v \in Workers : workerPc'[s][v] # "off" => workerPc[s][v] # "off"
    <3>1. workerPc[r][w] # "off"
      BY <1>4 DEF ReleaseWorker
    <3>2. \E label \in WorkerPcs : WorkerGoto(r, w, label)
      BY <1>4, Labels DEF ReleaseWorker
    <3> QED
      BY <3>1, <3>2, WorkerGotoType DEF TypeOK
  <2> QED
    BY <1>4, <2>1, OrderStable DEF ReleaseWorker, app, feed, disk
<1>5. CASE ProbePanics(r, w)
  <2>1. \A s \in Runs, v \in Workers : workerPc'[s][v] # "off" => workerPc[s][v] # "off"
    <3>1. workerPc[r][w] # "off"
      BY <1>5 DEF ProbePanics
    <3>2. \E label \in WorkerPcs : WorkerGoto(r, w, label)
      BY <1>5, Labels DEF ProbePanics
    <3> QED
      BY <3>1, <3>2, WorkerGotoType DEF TypeOK
  <2> QED
    BY <1>5, <2>1, OrderStable DEF ProbePanics, app, feed, disk
<1>6. CASE WriteCSVResult(r, w)
  <2>1. \A s \in Runs, v \in Workers : workerPc'[s][v] # "off" => workerPc[s][v] # "off"
    <3>1. workerPc[r][w] # "off"
      BY <1>6 DEF WriteCSVResult
    <3>2. \E label \in WorkerPcs : WorkerGoto(r, w, label)
      BY <1>6, Labels DEF WriteCSVResult
    <3> QED
      BY <3>1, <3>2, WorkerGotoType DEF TypeOK
  <2> QED
    BY <1>6, <2>1, OrderStable DEF WriteCSVResult, app, feed, disk
<1>7. CASE PushRecord(r, w)
  <2>1. \A s \in Runs, v \in Workers : workerPc'[s][v] # "off" => workerPc[s][v] # "off"
    <3>1. workerPc[r][w] # "off"
      BY <1>7 DEF PushRecord
    <3>2. \E label \in WorkerPcs : WorkerGoto(r, w, label)
      BY <1>7, Labels DEF PushRecord
    <3> QED
      BY <3>1, <3>2, WorkerGotoType DEF TypeOK
  <2>2. csv' = csv \/ csv' = [csv EXCEPT ![r] = [csv[r] EXCEPT !.queued = @ + 1]]
    BY <1>7 DEF PushRecord
  <2>3. \A s \in Runs : csv'[s].phase = csv[s].phase
    <3>1. csv[r] \in Files /\ csv \in [Runs -> Files]
      BY DEF TypeOK
    <3>2. [csv[r] EXCEPT !.queued = @ + 1].phase = csv[r].phase
      BY <3>1 DEF Files
    <3> QED
      BY <2>2, <3>1, <3>2
  <2> QED
    BY <1>7, <2>1, <2>3, OrderStable DEF PushRecord, app, feed, disk
<1>8. CASE RecordResult(r, w)
  <2>1. \A s \in Runs, v \in Workers : workerPc'[s][v] # "off" => workerPc[s][v] # "off"
    <3>1. workerPc[r][w] # "off"
      BY <1>8 DEF RecordResult
    <3>2. \E label \in WorkerPcs : WorkerGoto(r, w, label)
      BY <1>8, Labels DEF RecordResult
    <3> QED
      BY <3>1, <3>2, WorkerGotoType DEF TypeOK
  <2> QED
    BY <1>8, <2>1, OrderStable DEF RecordResult, app, feed, disk
<1>9. CASE WriteMetadata(r, w)
  <2>1. \A s \in Runs, v \in Workers : workerPc'[s][v] # "off" => workerPc[s][v] # "off"
    <3>1. workerPc[r][w] # "off"
      BY <1>9 DEF WriteMetadata
    <3>2. \E label \in WorkerPcs : WorkerGoto(r, w, label)
      BY <1>9, Labels DEF WriteMetadata
    <3> QED
      BY <3>1, <3>2, WorkerGotoType DEF TypeOK
  <2> QED
    BY <1>9, <2>1, OrderStable DEF WriteMetadata, app, feed, disk
<1> QED
  BY <1>1, <1>2, <1>3, <1>4, <1>5, <1>6, <1>7, <1>8, <1>9 DEF WorkerStep

LEMMA WriterStepOrder ==
    ASSUME TypeOK, Order, NEW r \in Runs, WriterStep(r)
    PROVE  Order'
<1>1. CASE WriteRow(r)
  <2>1. \A s \in Runs : csv'[s].phase = csv[s].phase
    <3>1. csv[r] \in Files /\ csv \in [Runs -> Files]
      BY DEF TypeOK
    <3>2. /\ [csv[r] EXCEPT !.queued = @ - 1, !.rows = @ + 1].phase = csv[r].phase
          /\ [csv[r] EXCEPT !.queued = @ - 1, !.err = TRUE].phase = csv[r].phase
      BY <3>1 DEF Files
    <3>3. \/ csv' = [csv EXCEPT ![r] = [csv[r] EXCEPT !.queued = @ - 1, !.rows = @ + 1]]
          \/ csv' = [csv EXCEPT ![r] = [csv[r] EXCEPT !.queued = @ - 1, !.err = TRUE]]
      BY <1>1 DEF WriteRow, TypeOK
    <3> QED
      BY <3>1, <3>2, <3>3
  <2> QED
    BY <1>1, <2>1, OrderStable DEF WriteRow, app, feed, crew
<1>2. CASE FlushFails(r)
  <2>1. \A s \in Runs : csv'[s].phase = csv[s].phase
    BY <1>2 DEF FlushFails, TypeOK, Files
  <2> QED
    BY <1>2, <2>1, OrderStable DEF FlushFails, app, feed, crew
<1>3. CASE EndWriter(r)
  <2>1. \A s \in Runs : csv'[s].phase = IF s = r THEN "closed" ELSE csv[s].phase
    BY <1>3 DEF EndWriter, TypeOK, Files
  <2>2. csv[r].phase = "closing" /\ UNCHANGED <<runID, writer, runPc, workerPc>>
    BY <1>3 DEF EndWriter, app, feed, crew
  <2> QED
    BY <2>1, <2>2 DEF Order, RunOwnsFile, WorkersBelong
<1> QED
  BY <1>1, <1>2, <1>3 DEF WriterStep

LEMMA NextOrder == TypeOK /\ Order /\ [Next]_vars => Order'
<1> SUFFICES ASSUME TypeOK, Order, [Next]_vars PROVE Order'
  OBVIOUS
<1>1. CASE UNCHANGED vars
  BY <1>1 DEF Order, RunOwnsFile, WorkersBelong, vars
<1> QED
  BY <1>1, InterfaceOrder, RunStepOrder, WorkerStepOrder, WriterStepOrder DEF Next

\* Files and workers of two runs never overlap (scanner.go:130).
THEOREM RunsDoNotOverlap == Spec => []OneRunAtATime
<1>1. TypeOK /\ Order => OneRunAtATime
  BY DEF Order, RunOwnsFile, WorkersBelong, OneRunAtATime, Feeding
<1> QED
  BY <1>1, InitTypes, NextTypes, InitOrder, NextOrder, PTL DEF Spec

\* No worker sends on a closed channel (validator_results.go:237-251).
THEOREM SendsAreSafe == Spec => []NoSendOnClosed
<1>1. TypeOK /\ Order => NoSendOnClosed
  BY DEF Order, RunOwnsFile, WorkersBelong, NoSendOnClosed, Feeding
<1> QED
  BY <1>1, InitTypes, NextTypes, InitOrder, NextOrder, PTL DEF Spec

-----------------------------------------------------------------------------
(* Quitting.                                                                 *)

\* Once the program has exited nothing moves, and it exits without a timeout
\* only when no file is open.
LEMMA NextSaves == TypeOK /\ Order /\ QuitSavesRows /\ [Next]_vars => QuitSavesRows'
<1> SUFFICES ASSUME TypeOK, Order, QuitSavesRows, [Next]_vars PROVE QuitSavesRows'
  OBVIOUS
<1>1. CASE UNCHANGED vars
  BY <1>1 DEF QuitSavesRows, vars
<1>2. CASE quit' # "exited"
  BY <1>2 DEF QuitSavesRows
<1>3. CASE WaitValidatorStopped /\ quit' = "exited"
  <2>1. writer = None /\ UNCHANGED csv
    BY <1>3 DEF WaitValidatorStopped, StillActive, disk
  <2>2. \A r \in Runs : csv[r].phase \notin {"open", "closing"}
    BY <2>1, ValidatorAssumption DEF Order, RunOwnsFile, Runs
  <2>3. \A r \in Runs : csv[r].phase \in {"none", "open", "closing", "closed"}
    BY DEF TypeOK, Files
  <2> QED
    BY <2>1, <2>2, <2>3 DEF QuitSavesRows
<1>4. CASE StopWaiting /\ quit' = "exited"
  <2>1. runPc[runID] = "done" /\ UNCHANGED csv
    BY <1>4 DEF StopWaiting, disk
  <2>2. \A r \in Runs : csv[r].phase \notin {"open", "closing"}
    BY <2>1 DEF Order, RunOwnsFile, Feeding
  <2>3. \A r \in Runs : csv[r].phase \in {"none", "open", "closing", "closed"}
    BY DEF TypeOK, Files
  <2> QED
    BY <2>1, <2>2, <2>3 DEF QuitSavesRows
<1>5. CASE Next /\ ~WaitValidatorStopped /\ ~StopWaiting /\ ~UNCHANGED vars
  <2>1. quit # "exited" /\ (quit' = quit \/ quit' = "cancelled")
    <3>1. CASE Interface
      BY <1>5, <3>1
      DEF Interface, StartValidatorRun, CancelValidatorScan, SetValidatorPaused,
          ClearValidatorResults, Shutdown, Alive
    <3>2. ASSUME NEW r \in Runs, Alive, RunStep(r) PROVE quit # "exited" /\ quit' = quit
      BY <3>2
      DEF RunStep, BeginRun, FeedResume, FeedSend, CloseJobs, WaitForWorkers,
          FinishValidatorRun, CloseWriter, SettleValidatorRun, WriteFinalMetadata, Alive
    <3>3. ASSUME NEW r \in Runs, Alive, WriterStep(r) PROVE quit # "exited" /\ quit' = quit
      BY <3>3 DEF WriterStep, WriteRow, FlushFails, EndWriter, Alive
    <3>4. ASSUME NEW r \in Runs, NEW w \in Workers, Alive, WorkerStep(r, w)
          PROVE  quit # "exited" /\ quit' = quit
      BY <3>4
      DEF WorkerStep, TakeJob, WorkerResume, AcquireWorker, ReleaseWorker, ProbePanics,
          WriteCSVResult, PushRecord, RecordResult, WriteMetadata, Alive
    <3> QED
      BY <1>5, <3>1, <3>2, <3>3, <3>4 DEF Next
  <2> QED
    BY <2>1 DEF QuitSavesRows
<1> QED
  BY <1>1, <1>2, <1>3, <1>4, <1>5

\* Quitting, short of its timeout, leaves no rows behind (scanner.go:367-381).
THEOREM QuittingSavesRows == Spec => []QuitSavesRows
<1>1. Init => QuitSavesRows
  BY DEF Init, QuitSavesRows
<1> QED
  BY <1>1, InitTypes, NextTypes, InitOrder, NextOrder, NextSaves, PTL DEF Spec

-----------------------------------------------------------------------------
(* The places of the worker controller.                                      *)

Holders(r) == {w \in Workers : workerPc[r][w] = "probe"}

LEMMA HoldersFinite ==
    ASSUME NEW r
    PROVE  /\ IsFiniteSet(Holders(r)) /\ Cardinality(Holders(r)) \in Nat
           /\ IsFiniteSet(Holders(r))' /\ Cardinality(Holders(r))' \in Nat
<1>1. Holders(r) \subseteq Workers /\ Holders(r)' \subseteq Workers
  BY DEF Holders
<1> QED
  BY <1>1, FS_Subset, FS_CardinalityType, ValidatorAssumption

\* Steps that neither take nor return a place.
LEMMA PlacesStable ==
    ASSUME PlacesAreHeld, \A s \in Runs : controller'[s].active = controller[s].active,
           \A s \in Runs, v \in Workers :
              workerPc'[s][v] = "probe" <=> workerPc[s][v] = "probe"
    PROVE  PlacesAreHeld'
<1>1. \A s \in Runs :
        {v \in Workers : workerPc'[s][v] = "probe"} = {v \in Workers : workerPc[s][v] = "probe"}
  OBVIOUS
<1> QED
  BY <1>1 DEF PlacesAreHeld

\* A worker takes a place.
LEMMA PlaceTaken ==
    ASSUME TypeOK, PlacesAreHeld, NEW r \in Runs, NEW w \in Workers,
           workerPc[r][w] # "probe", WorkerGoto(r, w, "probe"),
           controller' = [controller EXCEPT ![r] = Acquired(@)]
    PROVE  PlacesAreHeld'
<1>1. \A s \in Runs, v \in Workers :
        workerPc'[s][v] = IF s = r /\ v = w THEN "probe" ELSE workerPc[s][v]
  BY WorkerGotoType, Labels DEF TypeOK
<1>2. \A s \in Runs : controller'[s].active =
                      IF s = r THEN controller[s].active + 1 ELSE controller[s].active
  BY DEF TypeOK, Acquired, Controllers
<1>3. Holders(r)' = Holders(r) \cup {w} /\ w \notin Holders(r)
  BY <1>1 DEF Holders
<1>4. Cardinality(Holders(r)') = Cardinality(Holders(r)) + 1
  BY <1>3, HoldersFinite, FS_AddElement
<1>5. \A s \in Runs : s # r => Holders(s)' = Holders(s)
  BY <1>1 DEF Holders
<1>6. \A s \in Runs : controller[s].active = Cardinality(Holders(s))
  BY DEF PlacesAreHeld, Holders
<1>7. \A s \in Runs : controller'[s].active = Cardinality(Holders(s)')
  BY <1>2, <1>4, <1>5, <1>6
<1> QED
  BY <1>7 DEF PlacesAreHeld, Holders

\* The place is returned whatever the limit becomes.
LEMMA ReleasedActive ==
    ASSUME NEW c \in Controllers, NEW pressure \in BOOLEAN, c.active > 0
    PROVE  Released(c, pressure).active = c.active - 1
<1> DEFINE returned == [c EXCEPT !.active = IF @ > 0 THEN @ - 1 ELSE @]
<1>1. returned \in Controllers /\ returned.active = c.active - 1
  BY ControllerAssumption DEF Controllers
<1>2. UnderPressure(returned).active = returned.active
  BY <1>1 DEF UnderPressure, Controllers
<1>3. WithoutPressure(returned).active = returned.active
  BY <1>1 DEF WithoutPressure, Controllers
<1> QED
  BY <1>1, <1>2, <1>3 DEF Released

\* A worker returns its place.
LEMMA PlaceReturned ==
    ASSUME TypeOK, PlacesAreHeld, NEW r \in Runs, NEW w \in Workers, NEW pressure \in BOOLEAN,
           workerPc[r][w] = "probe", NEW label \in WorkerPcs, label # "probe",
           WorkerGoto(r, w, label),
           controller' = [controller EXCEPT ![r] = Released(@, pressure)]
    PROVE  PlacesAreHeld'
<1>1. \A s \in Runs, v \in Workers :
        workerPc'[s][v] = IF s = r /\ v = w THEN label ELSE workerPc[s][v]
  BY WorkerGotoType DEF TypeOK
<1>2. Holders(r)' = Holders(r) \ {w} /\ w \in Holders(r)
  BY <1>1 DEF Holders
<1>3. Cardinality(Holders(r)') = Cardinality(Holders(r)) - 1
  BY <1>2, HoldersFinite, FS_RemoveElement
<1>4. \A s \in Runs : controller[s].active = Cardinality(Holders(s))
  BY DEF PlacesAreHeld, Holders
<1>5. controller[r] \in Controllers /\ controller[r].active > 0
  <2>1. Cardinality(Holders(r)) \in Nat /\ Cardinality(Holders(r)') \in Nat
    BY HoldersFinite
  <2> QED
    BY <1>3, <1>4, <2>1 DEF TypeOK
<1>6. \A s \in Runs : controller'[s].active =
                      IF s = r THEN controller[s].active - 1 ELSE controller[s].active
  BY <1>5, ReleasedActive DEF TypeOK
<1>7. \A s \in Runs : s # r => Holders(s)' = Holders(s)
  BY <1>1 DEF Holders
<1>8. \A s \in Runs : controller'[s].active = Cardinality(Holders(s)')
  BY <1>3, <1>4, <1>6, <1>7
<1> QED
  BY <1>8 DEF PlacesAreHeld, Holders

LEMMA WorkerStepPlaces ==
    ASSUME TypeOK, PlacesAreHeld, NEW r \in Runs, NEW w \in Workers, WorkerStep(r, w)
    PROVE  PlacesAreHeld'
<1>1. CASE TakeJob(r, w)
  <2>1. workerPc[r][w] # "probe" /\ \E label \in WorkerPcs \ {"probe"} : WorkerGoto(r, w, label)
    BY <1>1, Labels DEF TakeJob, Continue
  <2>2. \A s \in Runs, v \in Workers : workerPc'[s][v] = "probe" <=> workerPc[s][v] = "probe"
    BY <2>1, WorkerGotoType DEF TypeOK
  <2> QED
    BY <1>1, <2>2, PlacesStable DEF TakeJob
<1>2. CASE WorkerResume(r, w)
  <2>1. workerPc[r][w] # "probe" /\ \E label \in WorkerPcs \ {"probe"} : WorkerGoto(r, w, label)
    BY <1>2, Labels DEF WorkerResume, Continue
  <2>2. \A s \in Runs, v \in Workers : workerPc'[s][v] = "probe" <=> workerPc[s][v] = "probe"
    BY <2>1, WorkerGotoType DEF TypeOK
  <2> QED
    BY <1>2, <2>2, PlacesStable DEF WorkerResume
<1>3. CASE AcquireWorker(r, w)
  <2>1. CASE r \in ctxDone
    <3>1. \A s \in Runs, v \in Workers :
            workerPc'[s][v] = IF s = r /\ v = w THEN "off" ELSE workerPc[s][v]
      BY <1>3, <2>1, WorkerGotoType, Labels DEF AcquireWorker, TypeOK
    <3> QED
      BY <1>3, <2>1, <3>1, PlacesStable DEF AcquireWorker
  <2>2. CASE r \notin ctxDone
    BY <1>3, <2>2, PlaceTaken DEF AcquireWorker
  <2> QED
    BY <2>1, <2>2
<1>4. CASE ReleaseWorker(r, w)
  BY <1>4, PlaceReturned, Labels DEF ReleaseWorker
<1>5. CASE ProbePanics(r, w)
  BY <1>5, PlaceReturned, Labels DEF ProbePanics
<1>6. CASE WriteCSVResult(r, w)
  <2>1. workerPc[r][w] # "probe" /\ \E label \in WorkerPcs \ {"probe"} : WorkerGoto(r, w, label)
    BY <1>6, Labels DEF WriteCSVResult, Continue
  <2>2. \A s \in Runs, v \in Workers : workerPc'[s][v] = "probe" <=> workerPc[s][v] = "probe"
    BY <2>1, WorkerGotoType DEF TypeOK
  <2> QED
    BY <1>6, <2>2, PlacesStable DEF WriteCSVResult
<1>7. CASE PushRecord(r, w)
  <2>1. workerPc[r][w] # "probe" /\ \E label \in WorkerPcs \ {"probe"} : WorkerGoto(r, w, label)
    BY <1>7, Labels DEF PushRecord, Continue
  <2>2. \A s \in Runs, v \in Workers : workerPc'[s][v] = "probe" <=> workerPc[s][v] = "probe"
    BY <2>1, WorkerGotoType DEF TypeOK
  <2> QED
    BY <1>7, <2>2, PlacesStable DEF PushRecord
<1>8. CASE RecordResult(r, w)
  <2>1. workerPc[r][w] # "probe" /\ \E label \in WorkerPcs \ {"probe"} : WorkerGoto(r, w, label)
    BY <1>8, Labels DEF RecordResult, Continue
  <2>2. \A s \in Runs, v \in Workers : workerPc'[s][v] = "probe" <=> workerPc[s][v] = "probe"
    BY <2>1, WorkerGotoType DEF TypeOK
  <2> QED
    BY <1>8, <2>2, PlacesStable DEF RecordResult
<1>9. CASE WriteMetadata(r, w)
  <2>1. workerPc[r][w] # "probe" /\ \E label \in WorkerPcs \ {"probe"} : WorkerGoto(r, w, label)
    BY <1>9, Labels DEF WriteMetadata, Continue
  <2>2. \A s \in Runs, v \in Workers : workerPc'[s][v] = "probe" <=> workerPc[s][v] = "probe"
    BY <2>1, WorkerGotoType DEF TypeOK
  <2> QED
    BY <1>9, <2>2, PlacesStable DEF WriteMetadata
<1> QED
  BY <1>1, <1>2, <1>3, <1>4, <1>5, <1>6, <1>7, <1>8, <1>9 DEF WorkerStep

LEMMA NextPlaces == TypeOK /\ Order /\ PlacesAreHeld /\ [Next]_vars => PlacesAreHeld'
<1> SUFFICES ASSUME TypeOK, Order, PlacesAreHeld, [Next]_vars PROVE PlacesAreHeld'
  OBVIOUS
<1>1. CASE UNCHANGED vars
  BY <1>1 DEF PlacesAreHeld, vars
<1>2. CASE Interface
  <2>1. UNCHANGED <<workerPc, controller>>
    BY <1>2
    DEF Interface, StartValidatorRun, CancelValidatorScan, SetValidatorPaused,
        ClearValidatorResults, Shutdown, WaitValidatorStopped, StopWaiting, crew
  <2> QED
    BY <2>1, PlacesStable
<1>3. ASSUME NEW r \in Runs, BeginRun(r) PROVE PlacesAreHeld'
  <2>1. \A v \in Workers : workerPc[r][v] = "off"
    BY <1>3 DEF BeginRun, Order, WorkersBelong
  <2>2. \A s \in Runs, v \in Workers :
          workerPc'[s][v] = IF s = r THEN "take" ELSE workerPc[s][v]
    BY <1>3 DEF BeginRun, TypeOK
  <2> QED
    BY <1>3, <2>1, <2>2, PlacesStable DEF BeginRun
<1>4. ASSUME NEW r \in Runs, RunStep(r), ~BeginRun(r) PROVE PlacesAreHeld'
  <2>1. UNCHANGED <<workerPc, controller>>
    BY <1>4
    DEF RunStep, FeedResume, FeedSend, CloseJobs, WaitForWorkers,
        FinishValidatorRun, CloseWriter, SettleValidatorRun, WriteFinalMetadata, crew
  <2> QED
    BY <2>1, PlacesStable
<1>5. ASSUME NEW r \in Runs, WriterStep(r) PROVE PlacesAreHeld'
  <2>1. UNCHANGED <<workerPc, controller>>
    BY <1>5 DEF WriterStep, WriteRow, FlushFails, EndWriter, crew
  <2> QED
    BY <2>1, PlacesStable
<1> QED
  BY <1>1, <1>2, <1>3, <1>4, <1>5, WorkerStepPlaces DEF Next

\* No place of the controller is lost or taken twice, by a panic or otherwise, for
\* any number of workers and any ceiling (scanner.go:443-479, 584-616).
THEOREM PlacesAreNeverLost == Spec => []PlacesAreHeld
<1>1. Init => PlacesAreHeld
  <2> SUFFICES ASSUME Init PROVE PlacesAreHeld
    OBVIOUS
  <2>1. \A r \in Runs : controller[r].active = 0
    BY DEF Init, NewController
  <2>2. \A r \in Runs : {w \in Workers : workerPc[r][w] = "probe"} = {}
    BY DEF Init
  <2> QED
    BY <2>1, <2>2, FS_EmptySet DEF PlacesAreHeld
<1> QED
  BY <1>1, InitTypes, NextTypes, InitOrder, NextOrder, NextPlaces, PTL DEF Spec

-----------------------------------------------------------------------------
(* How a run ends.                                                           *)

\* A run that is reported as running has a context nobody has ended, and its
\* goroutine has not come to the end of finishValidatorRun.
LiveRun ==
    /\ cancelReg \in {None, runID}
    /\ \A r \in Runs : r > runID => r \notin ctxDone \cup feedErr
    /\ \A r \in Runs : Active(r) => /\ cancelReg = r /\ r \notin ctxDone \cup feedErr
                                    /\ runPc[r] \in Feeding \cup {"finish"}

LEMMA InitLive == Init => LiveRun
BY ValidatorAssumption DEF Init, LiveRun, Active, Running, Zero, Runs

\* What leaves the run's goroutine alone, and either leaves the status too or
\* makes it another than Running.
LEMMA LiveStable ==
    ASSUME TypeOK, LiveRun, UNCHANGED <<runID, runPc, feedErr>>,
           \/ UNCHANGED <<cancelReg, ctxDone>> /\ (Running' => Running)
           \/ CancelRegistered /\ ~Running'
    PROVE  LiveRun'
<1>1. \A r \in Runs : r > runID => r # runID
  BY DEF TypeOK, Runs
<1> QED
  BY <1>1 DEF LiveRun, Active, CancelRegistered

LEMMA FailLive ==
    ASSUME TypeOK, LiveRun, NEW r \in Runs, FailValidatorRun(r), UNCHANGED <<runID, runPc, feedErr>>
    PROVE  LiveRun'
<1>1. CASE Active(r)
  <2>1. ~Running' /\ CancelRegistered
    BY <1>1 DEF FailValidatorRun, Running, TypeOK, ValidatorStates
  <2> QED
    BY <2>1, LiveStable
<1>2. CASE ~Active(r)
  BY <1>2, LiveStable DEF FailValidatorRun, Running
<1> QED
  BY <1>1, <1>2

LEMMA InterfaceLive ==
    ASSUME TypeOK, Order, LiveRun, Interface
    PROVE  LiveRun'
<1>1. CASE StartValidatorRun
  <2>1. /\ runID' \in Runs /\ runID' = runID + 1 /\ cancelReg' = runID'
        /\ UNCHANGED <<ctxDone, feedErr>>
    BY <1>1 DEF StartValidatorRun
  <2>2. runPc'[runID'] = "begin"
    BY <1>1 DEF StartValidatorRun, Goto, TypeOK
  <2>3. runID \in Int
    BY DEF TypeOK, Runs
  <2> QED
    BY <2>1, <2>2, <2>3 DEF LiveRun, Active, Feeding, Runs
<1>2. CASE CancelValidatorScan
  <2>1. ~Running'
    BY <1>2 DEF CancelValidatorScan, Cancelled, Running, TypeOK, ValidatorStates
  <2> QED
    BY <1>2, <2>1, LiveStable DEF CancelValidatorScan, feed
<1>3. CASE SetValidatorPaused
  <2>1. Running' => Running
    BY <1>3 DEF SetValidatorPaused
  <2> QED
    BY <1>3, <2>1, LiveStable DEF SetValidatorPaused, feed
<1>4. CASE ClearValidatorResults
  <2>1. ~Running'
    BY <1>4 DEF ClearValidatorResults, Zero, Running
  <2> QED
    BY <1>4, <2>1, LiveStable DEF ClearValidatorResults, feed
<1>5. CASE Shutdown
  <2>1. ~Running'
    BY <1>5 DEF Shutdown, Cancelled, Running, TypeOK, ValidatorStates
  <2> QED
    BY <1>5, <2>1, LiveStable DEF Shutdown, feed
<1>6. CASE WaitValidatorStopped
  BY <1>6, LiveStable DEF WaitValidatorStopped, app, feed, Running
<1>7. CASE StopWaiting
  BY <1>7, LiveStable DEF StopWaiting, app, feed, Running
<1> QED
  BY <1>1, <1>2, <1>3, <1>4, <1>5, <1>6, <1>7 DEF Interface

\* The run's goroutine moves on, and the run stays as live as it was.
LEMMA LiveMoves ==
    ASSUME TypeOK, LiveRun, NEW r \in Runs, NEW label \in RunPcs, Goto(r, label),
           UNCHANGED <<runID, cancelReg, ctxDone>>, Running' => Running,
           feedErr' = feedErr \/ (feedErr' = feedErr \cup {r} /\ ~Active(r) /\ r <= runID),
           Active(r) => label \in Feeding \cup {"finish"}
    PROVE  LiveRun'
<1>1. \A s \in Runs : runPc'[s] = IF s = r THEN label ELSE runPc[s]
  BY GotoType DEF TypeOK
<1> QED
  BY <1>1 DEF LiveRun, Active, TypeOK, Runs

\* A run whose file is open is the current one.
LEMMA OpenIsCurrent ==
    ASSUME Order, NEW r \in Runs,
           runPc[r] \in Feeding \cup {"finish", "finishCanceled", "closeWriter"}
    PROVE  runID = r /\ writer = r /\ csv[r].phase = "open"
BY DEF Order, RunOwnsFile

LEMMA RunStepLive ==
    ASSUME TypeOK, Order, LiveRun, NEW r \in Runs, RunStep(r)
    PROVE  LiveRun'
<1> USE DEF app, feed, crew, disk
<1>1. CASE BeginRun(r)
  BY <1>1, LiveMoves, Labels DEF BeginRun, Feeding, Running
<1>2. CASE FeedResume(r)
  <2>1. r <= runID
    BY <1>2, OpenIsCurrent DEF FeedResume, Feeding, Runs
  <2>2. (r \in ctxDone \/ ~Active(r)) => ~Active(r)
    BY DEF LiveRun
  <2> QED
    BY <1>2, <2>1, <2>2, LiveMoves, Labels DEF FeedResume, FeedStopped, Feeding, Running
<1>3. CASE FeedSend(r)
  <2>1. r <= runID
    BY <1>3, OpenIsCurrent DEF FeedSend, Feeding, Runs
  <2>2. r \in ctxDone => ~Active(r)
    BY DEF LiveRun
  <2> QED
    BY <1>3, <2>1, <2>2, LiveMoves, Labels DEF FeedSend, FeedStopped, Feeding, Running
<1>4. CASE CloseJobs(r)
  BY <1>4, LiveMoves, Labels DEF CloseJobs, Feeding, Running
<1>5. CASE WaitForWorkers(r)
  <2>1. Active(r) => r \notin feedErr \cup ctxDone
    BY DEF LiveRun
  <2> QED
    BY <1>5, <2>1, LiveMoves, Labels DEF WaitForWorkers, Feeding, Running
<1>6. CASE FinishValidatorRun(r)
  <2>1. runID = r
    BY <1>6, OpenIsCurrent DEF FinishValidatorRun
  <2>2. cancelReg' = None /\ Goto(r, "closeWriter") /\ UNCHANGED <<runID, ctxDone, feedErr>>
    BY <1>6, <2>1 DEF FinishValidatorRun
  <2>3. ~Running'
    BY <1>6, <2>1 DEF FinishValidatorRun, Outcome, Cancelled, Running, TypeOK, ValidatorStates
  <2> QED
    BY <2>1, <2>2, <2>3 DEF LiveRun, Active
<1>7. CASE CloseWriter(r)
  <2>1. ~Active(r)
    BY <1>7 DEF LiveRun, CloseWriter, Feeding
  <2> QED
    BY <1>7, <2>1, LiveMoves, Labels DEF CloseWriter, Running
<1>8. CASE SettleValidatorRun(r)
  <2>1. ~Active(r)
    BY <1>8 DEF LiveRun, SettleValidatorRun, Feeding
  <2>2. Running' => Running
    BY <1>8 DEF SettleValidatorRun, Running, TypeOK, ValidatorStates
  <2> QED
    BY <1>8, <2>1, <2>2, LiveMoves, Labels DEF SettleValidatorRun
<1>9. CASE WriteFinalMetadata(r)
  <2>1. ~Active(r)
    BY <1>9 DEF LiveRun, WriteFinalMetadata, Feeding
  <2> QED
    BY <1>9, <2>1, LiveMoves, Labels DEF WriteFinalMetadata, Running
<1> QED
  BY <1>1, <1>2, <1>3, <1>4, <1>5, <1>6, <1>7, <1>8, <1>9 DEF RunStep

LEMMA WorkerStepLive ==
    ASSUME TypeOK, Order, LiveRun, NEW r \in Runs, NEW w \in Workers, WorkerStep(r, w)
    PROVE  LiveRun'
<1>1. CASE ProbePanics(r, w)
  BY <1>1, FailLive DEF ProbePanics, feed
<1>2. CASE PushRecord(r, w)
  <2>1. CASE FailValidatorRun(r)
    BY <1>2, <2>1, FailLive DEF PushRecord, feed
  <2>2. CASE UNCHANGED <<state, cancelReg, ctxDone>>
    BY <1>2, <2>2, LiveStable DEF PushRecord, feed, Running
  <2> QED
    BY <1>2, <2>1, <2>2 DEF PushRecord
<1>3. CASE RecordResult(r, w)
  <2>1. Running' => Running
    BY <1>3 DEF RecordResult, Running, TypeOK, ValidatorStates
  <2> QED
    BY <1>3, <2>1, LiveStable DEF RecordResult, feed
<1>4. CASE TakeJob(r, w)
  BY <1>4, LiveStable DEF TakeJob, app, Running
<1>5. CASE WorkerResume(r, w) \/ AcquireWorker(r, w) \/ ReleaseWorker(r, w)
           \/ WriteCSVResult(r, w) \/ WriteMetadata(r, w)
  BY <1>5, LiveStable
  DEF WorkerResume, AcquireWorker, ReleaseWorker, WriteCSVResult, WriteMetadata, app, feed, Running
<1> QED
  BY <1>1, <1>2, <1>3, <1>4, <1>5 DEF WorkerStep

LEMMA NextLive == TypeOK /\ Order /\ LiveRun /\ [Next]_vars => LiveRun'
<1> SUFFICES ASSUME TypeOK, Order, LiveRun, [Next]_vars PROVE LiveRun'
  OBVIOUS
<1>1. CASE UNCHANGED vars
  BY <1>1, LiveStable DEF vars, Running
<1>2. ASSUME NEW r \in Runs, WriterStep(r) PROVE LiveRun'
  BY <1>2, LiveStable DEF WriterStep, WriteRow, FlushFails, EndWriter, app, feed, Running
<1> QED
  BY <1>1, <1>2, InterfaceLive, RunStepLive, WorkerStepLive DEF Next

\* From the end of the drain the file is closed, and what is written, or has
\* been, as the run's metadata is how it ended and how many rows it has.
Told(r, m) == m # None /\ m.status # "Running" /\ m.rows = csv[r].rows

Ended ==
    \A r \in Runs :
        /\ runPc[r] = "drain" => runID = r
        /\ runPc[r] \in {"metadata", "done"} => csv[r].phase = "closed"
        /\ runPc[r] = "metadata" => Told(r, final[r])
        /\ runPc[r] = "done" => Told(r, meta[r])

LEMMA InitEnded == Init => Ended
BY DEF Init, Ended

\* The metadata and the file of a run at its end are left alone.
LEMMA EndedStable ==
    ASSUME Ended, UNCHANGED <<runID, runPc, final>>,
           \A s \in Runs : runPc[s] \in {"metadata", "done"} =>
              meta'[s] = meta[s] /\ csv'[s].phase = csv[s].phase /\ csv'[s].rows = csv[s].rows
    PROVE  Ended'
BY DEF Ended, Told

LEMMA RunStepEnded ==
    ASSUME TypeOK, Order, LiveRun, Ended, NEW r \in Runs, RunStep(r)
    PROVE  Ended'
<1> USE DEF app, feed, crew, disk
\* All the steps before the settling one.
<1>1. ASSUME NEW label \in RunPcs \ {"metadata", "done"}, Goto(r, label),
             runPc[r] \notin {"metadata", "done"}, UNCHANGED <<runID, final>>,
             label = "drain" => runID = r,
             \A s \in Runs \ {r} : meta'[s] = meta[s] /\ csv'[s] = csv[s]
      PROVE  Ended'
  <2>1. \A s \in Runs : runPc'[s] = IF s = r THEN label ELSE runPc[s]
    BY <1>1, GotoType DEF TypeOK
  <2> QED
    BY <1>1, <2>1 DEF Ended, Told
<1>2. CASE BeginRun(r)
  BY <1>1, <1>2, Labels DEF BeginRun, TypeOK
<1>3. CASE FeedResume(r)
  BY <1>1, <1>3, Labels DEF FeedResume, FeedStopped
<1>4. CASE FeedSend(r)
  BY <1>1, <1>4, Labels DEF FeedSend, FeedStopped
<1>5. CASE CloseJobs(r)
  BY <1>1, <1>5, Labels DEF CloseJobs
<1>6. CASE WaitForWorkers(r)
  BY <1>1, <1>6, Labels DEF WaitForWorkers
<1>7. CASE FinishValidatorRun(r)
  <2>1. runID = r
    BY <1>7, OpenIsCurrent DEF FinishValidatorRun
  <2> QED
    BY <1>1, <1>7, <2>1, Labels DEF FinishValidatorRun
<1>8. CASE CloseWriter(r)
  <2>1. runID = r
    BY <1>8, OpenIsCurrent DEF CloseWriter
  <2> QED
    BY <1>1, <1>8, <2>1, Labels DEF CloseWriter, TypeOK
<1>9. CASE SettleValidatorRun(r)
  <2>1. runPc[r] = "drain" /\ csv[r].phase = "closed" /\ UNCHANGED <<csv, meta>>
    BY <1>9 DEF SettleValidatorRun
  <2>2. \A s \in Runs : runPc'[s] = IF s = r THEN "metadata" ELSE runPc[s]
    BY <1>9, GotoType, Labels DEF SettleValidatorRun, TypeOK
  <2>3. state.status # "Running"
    BY <2>1 DEF Ended, LiveRun, Active, Running, Feeding
  <2>4. state'.status # "Running" /\ state'.rows = csv[r].rows
    BY <1>9, <2>3 DEF SettleValidatorRun, TypeOK, ValidatorStates
  <2>5. /\ MetaOf(state') = [status |-> state'.status, rows |-> state'.rows]
        /\ MetaOf(state') \in Metadata
    BY <2>4, RunStepTypes, <1>9 DEF RunStep, MetaOf, TypeOK, ValidatorStates, Metadata
  <2>6. \A s \in Runs : final'[s] = IF s = r THEN MetaOf(state') ELSE final[s]
    BY <1>9 DEF SettleValidatorRun, TypeOK
  <2>7. MetaOf(state') # None
    BY <2>5, ValidatorAssumption
  <2> QED
    BY <1>9, <2>1, <2>2, <2>4, <2>5, <2>6, <2>7 DEF SettleValidatorRun, Ended, Told
<1>10. CASE WriteFinalMetadata(r)
  <2>1. \A s \in Runs : runPc'[s] = IF s = r THEN "done" ELSE runPc[s]
    BY <1>10, GotoType, Labels DEF WriteFinalMetadata, TypeOK
  <2>2. \A s \in Runs : meta'[s] = IF s = r THEN final[r] ELSE meta[s]
    BY <1>10 DEF WriteFinalMetadata, TypeOK
  <2> QED
    BY <1>10, <2>1, <2>2 DEF WriteFinalMetadata, Ended, Told
<1> QED
  BY <1>2, <1>3, <1>4, <1>5, <1>6, <1>7, <1>8, <1>9, <1>10 DEF RunStep

LEMMA WorkerStepEnded ==
    ASSUME TypeOK, Order, Ended, NEW r \in Runs, NEW w \in Workers, WorkerStep(r, w)
    PROVE  Ended'
<1> USE DEF app, feed, crew, disk
<1>1. workerPc[r][w] # "off"
  BY DEF WorkerStep, TakeJob, WorkerResume, AcquireWorker, ReleaseWorker, ProbePanics,
         WriteCSVResult, PushRecord, RecordResult, WriteMetadata
<1>2. runPc[r] \in Feeding
  BY <1>1 DEF Order, WorkersBelong
<1>3. CASE PushRecord(r, w)
  <2>1. \A s \in Runs : s # r => csv'[s] = csv[s]
    BY <1>3 DEF PushRecord, TypeOK
  <2> QED
    BY <1>2, <1>3, <2>1, EndedStable DEF PushRecord, Feeding
<1>4. CASE WriteMetadata(r, w)
  <2>1. \A s \in Runs : s # r => meta'[s] = meta[s]
    BY <1>4 DEF WriteMetadata, TypeOK
  <2> QED
    BY <1>2, <1>4, <2>1, EndedStable DEF WriteMetadata, Feeding
<1>5. CASE TakeJob(r, w) \/ WorkerResume(r, w) \/ AcquireWorker(r, w) \/ ReleaseWorker(r, w)
  BY <1>5, EndedStable DEF TakeJob, WorkerResume, AcquireWorker, ReleaseWorker
<1>6. CASE ProbePanics(r, w) \/ WriteCSVResult(r, w) \/ RecordResult(r, w)
  BY <1>6, EndedStable DEF ProbePanics, WriteCSVResult, RecordResult
<1> QED
  BY <1>3, <1>4, <1>5, <1>6 DEF WorkerStep

LEMMA WriterStepEnded ==
    ASSUME TypeOK, Ended, NEW r \in Runs, WriterStep(r)
    PROVE  Ended'
<1> USE DEF app, feed, crew, disk
<1>1. CASE WriteRow(r)
  <2>1. csv[r].phase # "closed" /\ \A s \in Runs : s # r => csv'[s] = csv[s]
    BY <1>1 DEF WriteRow, TypeOK
  <2>2. \A s \in Runs : runPc[s] \in {"metadata", "done"} => s # r
    BY <2>1 DEF Ended
  <2> QED
    BY <1>1, <2>1, <2>2, EndedStable DEF WriteRow
<1>2. CASE FlushFails(r)
  <2>1. csv[r].phase # "closed" /\ \A s \in Runs : s # r => csv'[s] = csv[s]
    BY <1>2 DEF FlushFails, TypeOK
  <2>2. \A s \in Runs : runPc[s] \in {"metadata", "done"} => s # r
    BY <2>1 DEF Ended
  <2> QED
    BY <1>2, <2>1, <2>2, EndedStable DEF FlushFails
<1>3. CASE EndWriter(r)
  <2>1. csv[r].phase # "closed" /\ \A s \in Runs : s # r => csv'[s] = csv[s]
    BY <1>3 DEF EndWriter, TypeOK
  <2>2. \A s \in Runs : runPc[s] \in {"metadata", "done"} => s # r
    BY <2>1 DEF Ended
  <2> QED
    BY <1>3, <2>1, <2>2, EndedStable DEF EndWriter
<1> QED
  BY <1>1, <1>2, <1>3 DEF WriterStep

LEMMA NextEnded == TypeOK /\ Order /\ LiveRun /\ Ended /\ [Next]_vars => Ended'
<1> SUFFICES ASSUME TypeOK, Order, LiveRun, Ended, [Next]_vars PROVE Ended'
  OBVIOUS
<1> USE DEF app, feed, crew, disk
<1>1. CASE UNCHANGED vars
  BY <1>1, EndedStable DEF vars
<1>2. CASE StartValidatorRun
  <2> DEFINE next == runID + 1
  <2>1. next \in Runs /\ runID' = next /\ writer = None /\ UNCHANGED <<meta, final>>
    BY <1>2 DEF StartValidatorRun, NoActiveRun
  <2>2. \A s \in Runs : runPc[s] # "drain"
    BY <2>1, ValidatorAssumption DEF Order, RunOwnsFile, Runs
  <2>3. \A s \in Runs : runPc'[s] = IF s = next THEN "begin" ELSE runPc[s]
    BY <1>2, <2>1 DEF StartValidatorRun, TypeOK, Goto
  <2>4. \A s \in Runs : s # next => csv'[s] = csv[s]
    BY <1>2, <2>1 DEF StartValidatorRun, TypeOK
  <2> QED
    BY <2>1, <2>2, <2>3, <2>4 DEF Ended, Told
<1>3. CASE Interface /\ ~StartValidatorRun
  BY <1>3, EndedStable
  DEF Interface, CancelValidatorScan, SetValidatorPaused, ClearValidatorResults, Shutdown,
      WaitValidatorStopped, StopWaiting
<1> QED
  BY <1>1, <1>2, <1>3, RunStepEnded, WorkerStepEnded, WriterStepEnded DEF Next

-----------------------------------------------------------------------------
(* A completed scan is complete.                                             *)

\* The workers of a run that hold a job, and those whose row is not yet counted.
BusyPcs == {"resume", "acquire", "probe", "write", "push", "countWrote", "countSkipped"}
WrotePcs == {"countWrote"}

Number(pcs, r) == Cardinality({w \in Workers : workerPc[r][w] \in pcs})
Bit(pcs, pc) == IF pc \in pcs THEN 1 ELSE 0

LEMMA NumberType ==
    ASSUME NEW r, NEW pcs
    PROVE  Number(pcs, r) \in Nat /\ Number(pcs, r)' \in Nat
<1>1. /\ {w \in Workers : workerPc[r][w] \in pcs} \subseteq Workers
      /\ {w \in Workers : workerPc[r][w] \in pcs}' \subseteq Workers
  OBVIOUS
<1> QED
  BY <1>1, FS_Subset, FS_CardinalityType, ValidatorAssumption DEF Number

LEMMA NumberZero ==
    ASSUME NEW r, NEW pcs, \A w \in Workers : workerPc[r][w] \notin pcs
    PROVE  Number(pcs, r) = 0
<1>1. {w \in Workers : workerPc[r][w] \in pcs} = {}
  OBVIOUS
<1> QED
  BY <1>1, FS_EmptySet DEF Number

LEMMA NumberStays ==
    ASSUME NEW r, NEW pcs,
           \A w \in Workers : workerPc'[r][w] \in pcs <=> workerPc[r][w] \in pcs
    PROVE  Number(pcs, r)' = Number(pcs, r)
<1>1. {w \in Workers : workerPc[r][w] \in pcs}' = {w \in Workers : workerPc[r][w] \in pcs}
  OBVIOUS
<1> QED
  BY <1>1 DEF Number

LEMMA NumberMoves ==
    ASSUME TypeOK, NEW r \in Runs, NEW w \in Workers, NEW label \in WorkerPcs,
           WorkerGoto(r, w, label), NEW pcs
    PROVE  Number(pcs, r)' = Number(pcs, r) + Bit(pcs, label) - Bit(pcs, workerPc[r][w])
<1> DEFINE members == {v \in Workers : workerPc[r][v] \in pcs}
<1>1. \A v \in Workers : workerPc'[r][v] = IF v = w THEN label ELSE workerPc[r][v]
  BY WorkerGotoType DEF TypeOK
<1>2. IsFiniteSet(members) /\ Cardinality(members) \in Nat
  BY FS_Subset, FS_CardinalityType, ValidatorAssumption
<1>3. members' = IF label \in pcs THEN members \cup {w} ELSE members \ {w}
  BY <1>1
<1>4. w \in members <=> workerPc[r][w] \in pcs
  OBVIOUS
<1>5. Cardinality(members') = Cardinality(members) + Bit(pcs, label) - Bit(pcs, workerPc[r][w])
  <2> HIDE DEF members
  <2>1. CASE label \in pcs
    <3>1. Cardinality(members \cup {w})
            = IF w \in members THEN Cardinality(members) ELSE Cardinality(members) + 1
      BY <1>2, FS_AddElement
    <3>2. Cardinality(members') = Cardinality(members \cup {w})
      BY <1>3, <2>1
    <3> QED
      BY <1>2, <1>4, <2>1, <3>1, <3>2 DEF Bit
  <2>2. CASE label \notin pcs
    <3>1. Cardinality(members \ {w})
            = IF w \in members THEN Cardinality(members) - 1 ELSE Cardinality(members)
      BY <1>2, FS_RemoveElement
    <3>2. Cardinality(members') = Cardinality(members \ {w})
      BY <1>3, <2>2
    <3> QED
      BY <1>2, <1>4, <2>2, <3>1, <3>2 DEF Bit
  <2> QED
    BY <2>1, <2>2
<1> QED
  BY <1>5 DEF Number

Fresh ==
    \A r \in Runs : runPc[r] \in {"none", "begin"} =>
        /\ fed[r] = 0 /\ jobs[r] = 0
        /\ csv[r].queued = 0 /\ csv[r].rows = 0 /\ ~csv[r].err

Drained == \A r \in Runs : csv[r].phase = "closed" => csv[r].queued = 0

\* While a run is live, every job it fed is waiting, with a worker, or counted,
\* and no worker has left while there may be more.
JobsCounted ==
    \A r \in Runs : Active(r) =>
        /\ fed[r] = jobs[r] + Number(BusyPcs, r) + state.retained + state.gradeF
        /\ runPc[r] \in {"close", "wait", "finish"} => fed[r] = Totals[r]
        /\ runPc[r] = "finish" => jobs[r] = 0
        /\ \A w \in Workers : workerPc[r][w] = "off" /\ runPc[r] # "begin" =>
                jobs[r] = 0 /\ runPc[r] \in {"wait", "finish"}

\* As long as its file takes them, every row is in it, or on its way.
RowsCounted ==
    \A r \in Runs : runID = r =>
        /\ Running => state.rows = state.retained
        /\ state.status \in {"Running", "Completed"} /\ ~csv[r].err =>
              csv[r].rows + csv[r].queued = state.retained + Number(WrotePcs, r)

Complete ==
    state.status = "Completed" =>
        /\ runID \in Runs /\ runPc[runID] \in {"closeWriter", "drain", "metadata", "done"}
        /\ state.retained + state.gradeF = Totals[runID]
        /\ runPc[runID] \in {"metadata", "done"} =>
              state.rows = state.retained /\ ~csv[runID].err

Sums == Fresh /\ Drained /\ JobsCounted /\ RowsCounted /\ Complete

LEMMA InitSums == Init => Sums
BY DEF Init, Sums, Fresh, Drained, JobsCounted, RowsCounted, Complete, Active, Running, Zero

\* The interface ends a run, or leaves it.
LEMMA SumsStable ==
    ASSUME Sums, UNCHANGED <<runID, csv, runPc, fed, jobs, workerPc>>,
           \/ state'.status \notin {"Running", "Completed"}
           \/ /\ state'.status = state.status /\ state'.retained = state.retained
              /\ state'.gradeF = state.gradeF /\ state'.rows = state.rows
    PROVE  Sums'
<1>1. \A r \in Runs : /\ Number(BusyPcs, r)' = Number(BusyPcs, r)
                      /\ Number(WrotePcs, r)' = Number(WrotePcs, r)
  BY NumberStays
<1>2. Fresh' /\ Drained'
  BY DEF Sums, Fresh, Drained
<1>3. JobsCounted'
  BY <1>1 DEF Sums, JobsCounted, Active, Running
<1>4. RowsCounted'
  BY <1>1 DEF Sums, RowsCounted, Running
<1>5. Complete'
  BY DEF Sums, Complete
<1> QED
  BY <1>2, <1>3, <1>4, <1>5 DEF Sums

LEMMA InterfaceSums ==
    ASSUME TypeOK, Order, Sums, Interface
    PROVE  Sums'
<1> USE DEF app, feed, crew, disk
<1>1. CASE StartValidatorRun
  <2> DEFINE next == runID + 1
  <2>1. next \in Runs /\ runID' = next /\ state' = [Zero EXCEPT !.status = "Running"]
        /\ UNCHANGED <<fed, jobs, workerPc>>
    BY <1>1 DEF StartValidatorRun
  <2>2. \A s \in Runs : runPc'[s] = IF s = next THEN "begin" ELSE runPc[s]
    BY <1>1, <2>1 DEF StartValidatorRun, TypeOK, Goto
  <2>3. runPc[next] = "none"
    BY <2>1 DEF Order, RunOwnsFile, TypeOK, Runs
  <2>4. /\ \A s \in Runs : s # next => csv'[s] = csv[s]
        /\ csv'[next].phase = "open" /\ csv'[next].queued = csv[next].queued
        /\ csv'[next].rows = csv[next].rows /\ csv'[next].err = csv[next].err
    BY <1>1, <2>1 DEF StartValidatorRun, TypeOK, Files
  <2>5. Fresh' /\ Drained'
    BY <2>1, <2>2, <2>3, <2>4 DEF Sums, Fresh, Drained
  <2>6. \A v \in Workers : workerPc[next][v] = "off"
    BY <2>1, <2>3 DEF Order, WorkersBelong, Feeding
  <2>7. ASSUME NEW n \in Runs, n = next, NEW pcs, "off" \notin pcs
        PROVE  Number(pcs, n)' = 0
    <3>1. Number(pcs, n) = 0
      BY <2>6, <2>7, NumberZero
    <3>2. Number(pcs, n)' = Number(pcs, n)
      BY <2>1, NumberStays
    <3> QED
      BY <3>1, <3>2
  <2>8. \A n \in Runs : n = next => Number(BusyPcs, n)' = 0 /\ Number(WrotePcs, n)' = 0
    BY <2>7 DEF BusyPcs, WrotePcs
  <2>9. /\ state'.status = "Running" /\ state'.rows = 0 /\ state'.retained = 0
        /\ state'.gradeF = 0
    BY <2>1 DEF Zero
  <2>10. JobsCounted'
    BY <2>1, <2>2, <2>3, <2>8, <2>9 DEF Sums, Fresh, JobsCounted, Active
  <2>11. RowsCounted'
    BY <2>1, <2>3, <2>4, <2>8, <2>9 DEF Sums, Fresh, RowsCounted
  <2>12. Complete'
    BY <2>9 DEF Complete
  <2> QED
    BY <2>5, <2>10, <2>11, <2>12 DEF Sums
<1>2. CASE CancelValidatorScan
  <2>1. state'.status = "Cancelled" \/ state' = state
    BY <1>2 DEF CancelValidatorScan, Cancelled, TypeOK, ValidatorStates
  <2> QED
    BY <1>2, <2>1, SumsStable DEF CancelValidatorScan
<1>3. CASE SetValidatorPaused
  <2>1. /\ state'.status = state.status /\ state'.retained = state.retained
        /\ state'.gradeF = state.gradeF /\ state'.rows = state.rows
    BY <1>3 DEF SetValidatorPaused, TypeOK, ValidatorStates
  <2> QED
    BY <1>3, <2>1, SumsStable DEF SetValidatorPaused
<1>4. CASE ClearValidatorResults
  <2>1. state'.status = "Idle"
    BY <1>4 DEF ClearValidatorResults, Zero
  <2> QED
    BY <1>4, <2>1, SumsStable DEF ClearValidatorResults
<1>5. CASE Shutdown
  <2>1. state'.status = "Cancelled" \/ state' = state
    BY <1>5 DEF Shutdown, Cancelled, TypeOK, ValidatorStates
  <2> QED
    BY <1>5, <2>1, SumsStable DEF Shutdown
<1>6. CASE WaitValidatorStopped
  BY <1>6, SumsStable DEF WaitValidatorStopped
<1>7. CASE StopWaiting
  BY <1>7, SumsStable DEF StopWaiting
<1> QED
  BY <1>1, <1>2, <1>3, <1>4, <1>5, <1>6, <1>7 DEF Interface

\* A worker of a run, which is the current one, moves: what must hold of its step
\* for the sums to be kept.
LEMMA WorkerSums ==
    ASSUME TypeOK, Order, Sums, NEW r \in Runs, NEW w \in Workers, NEW label \in WorkerPcs,
           workerPc[r][w] # "off", WorkerGoto(r, w, label), UNCHANGED <<runID, runPc, fed>>,
           \A s \in Runs : s # r => jobs'[s] = jobs[s] /\ csv'[s] = csv[s],
           csv'[r].phase = csv[r].phase, jobs'[r] \in Nat, jobs'[r] <= jobs[r],
           state'.status # "Completed", Running' => Running,
           Active(r)' =>
             /\ jobs'[r] + Bit(BusyPcs, label) + state'.retained + state'.gradeF
                  = jobs[r] + Bit(BusyPcs, workerPc[r][w]) + state.retained + state.gradeF
             /\ label = "off" => jobs'[r] = 0 /\ runPc[r] = "wait"
             /\ state'.rows - state'.retained = state.rows - state.retained,
           Active(r)' /\ ~csv'[r].err =>
             /\ ~csv[r].err
             /\ csv'[r].rows + csv'[r].queued - state'.retained - Bit(WrotePcs, label)
                  = csv[r].rows + csv[r].queued - state.retained
                      - Bit(WrotePcs, workerPc[r][w]),
           TypeOK'
    PROVE  Sums'
<1>1. runPc[r] \in Feeding \ {"begin"}
  BY DEF Order, WorkersBelong
<1>2. runID = r /\ csv[r].phase = "open"
  BY <1>1, OpenIsCurrent
<1>3. Fresh' /\ Drained'
  BY <1>1, <1>2 DEF Sums, Fresh, Drained, Feeding
<1>4. \A v \in Workers : workerPc'[r][v] = IF v = w THEN label ELSE workerPc[r][v]
  BY WorkerGotoType DEF TypeOK
<1>5. /\ Number(BusyPcs, r)'
           = Number(BusyPcs, r) + Bit(BusyPcs, label) - Bit(BusyPcs, workerPc[r][w])
      /\ Number(WrotePcs, r)'
           = Number(WrotePcs, r) + Bit(WrotePcs, label) - Bit(WrotePcs, workerPc[r][w])
  BY NumberMoves
<1>6. /\ Number(BusyPcs, r) \in Nat /\ Number(WrotePcs, r) \in Nat
      /\ Bit(BusyPcs, label) \in Nat /\ Bit(BusyPcs, workerPc[r][w]) \in Nat
      /\ Bit(WrotePcs, label) \in Nat /\ Bit(WrotePcs, workerPc[r][w]) \in Nat
  BY NumberType DEF Bit
<1>7. /\ state.rows \in Nat /\ state.retained \in Nat /\ state.gradeF \in Nat
      /\ state'.rows \in Nat /\ state'.retained \in Nat /\ state'.gradeF \in Nat
      /\ csv[r].rows \in Nat /\ csv[r].queued \in Nat
      /\ csv'[r].rows \in Nat /\ csv'[r].queued \in Nat /\ jobs[r] \in Nat /\ fed[r] \in Nat
  BY DEF TypeOK, ValidatorStates, Files
<1>8. JobsCounted'
  <2> SUFFICES ASSUME Active(r)'
               PROVE  /\ fed[r] = jobs'[r] + Number(BusyPcs, r)' + state'.retained + state'.gradeF
                      /\ runPc[r] \in {"close", "wait", "finish"} => fed[r] = Totals[r]
                      /\ \A v \in Workers : workerPc'[r][v] = "off" =>
                            jobs'[r] = 0 /\ runPc[r] \in {"wait", "finish"}
    BY <1>1, <1>2 DEF JobsCounted, Active, Feeding
  <2>1. Active(r)
    BY <1>2 DEF Active
  <2>2. fed[r] = jobs[r] + Number(BusyPcs, r) + state.retained + state.gradeF
    BY <2>1 DEF Sums, JobsCounted
  <2>3. fed[r] = jobs'[r] + Number(BusyPcs, r)' + state'.retained + state'.gradeF
    BY <1>5, <1>6, <1>7, <2>2
  <2>4. ASSUME NEW v \in Workers, workerPc'[r][v] = "off"
        PROVE  jobs'[r] = 0 /\ runPc[r] \in {"wait", "finish"}
    <3>1. CASE v = w
      BY <1>4, <2>4, <3>1
    <3>2. CASE v # w
      <4>1. workerPc[r][v] = "off"
        BY <1>4, <2>4, <3>2
      <4>2. jobs[r] = 0 /\ runPc[r] \in {"wait", "finish"}
        BY <1>1, <2>1, <4>1 DEF Sums, JobsCounted
      <4> QED
        BY <4>2
    <3> QED
      BY <3>1, <3>2
  <2> QED
    BY <2>1, <2>3, <2>4 DEF Sums, JobsCounted
<1>9. RowsCounted'
  <2>1. ASSUME Active(r)' PROVE state'.rows = state'.retained
    <3>1. Active(r)
      BY <1>2, <2>1 DEF Active
    <3>2. state.rows = state.retained
      BY <1>2, <3>1 DEF Sums, RowsCounted, Active
    <3> QED
      BY <1>7, <2>1, <3>2
  <2>2. ASSUME Active(r)', ~csv'[r].err
        PROVE  csv'[r].rows + csv'[r].queued = state'.retained + Number(WrotePcs, r)'
    <3>1. Active(r) /\ ~csv[r].err
      BY <1>2, <2>2 DEF Active
    <3>2. csv[r].rows + csv[r].queued = state.retained + Number(WrotePcs, r)
      BY <1>2, <3>1 DEF Sums, RowsCounted, Active, Running
    <3> QED
      BY <1>5, <1>6, <1>7, <2>2, <3>2
  <2> QED
    BY <1>2, <2>1, <2>2 DEF RowsCounted, Active, Running
<1>10. Complete'
  BY DEF Complete
<1> QED
  BY <1>3, <1>8, <1>9, <1>10 DEF Sums

\* What a worker that is not off knows.
LEMMA WorkerKnows ==
    ASSUME Order, Sums, NEW r \in Runs, NEW w \in Workers, workerPc[r][w] # "off"
    PROVE  /\ runPc[r] \in Feeding \ {"begin"} /\ runID = r /\ writer = r
           /\ csv[r].phase = "open" /\ state.status # "Completed"
<1>1. runPc[r] \in Feeding \ {"begin"}
  BY DEF Order, WorkersBelong
<1>2. runID = r /\ writer = r /\ csv[r].phase = "open"
  BY <1>1, OpenIsCurrent
<1> QED
  BY <1>1, <1>2 DEF Sums, Complete, Feeding

LEMMA WorkerStepSums ==
    ASSUME TypeOK, Order, LiveRun, Sums, NEW r \in Runs, NEW w \in Workers, WorkerStep(r, w)
    PROVE  Sums'
<1> USE DEF app, feed, crew, disk
<1>1. workerPc[r][w] # "off"
  BY DEF WorkerStep, TakeJob, WorkerResume, AcquireWorker, ReleaseWorker, ProbePanics,
         WriteCSVResult, PushRecord, RecordResult, WriteMetadata
<1>2. /\ runPc[r] \in Feeding \ {"begin"} /\ runID = r /\ writer = r
      /\ csv[r].phase = "open" /\ state.status # "Completed"
  BY <1>1, WorkerKnows
<1>3. TypeOK'
  BY WorkerStepTypes
<1>4. /\ jobs[r] \in Nat /\ fed[r] \in Nat /\ jobs'[r] \in Nat
      /\ csv[r].rows \in Nat /\ csv[r].queued \in Nat
      /\ state.rows \in Nat /\ state.retained \in Nat /\ state.gradeF \in Nat
  BY <1>3 DEF TypeOK, Files, ValidatorStates
<1>5. Active(r) => r \notin ctxDone
  BY DEF LiveRun
<1>6. \A label : Bit(BusyPcs, label) \in Nat /\ Bit(WrotePcs, label) \in Nat
  BY DEF Bit
\* A step from one busy place to another that touches neither counts nor file.
<1>7. ASSUME NEW label \in WorkerPcs, WorkerGoto(r, w, label),
             UNCHANGED <<runID, runPc, fed, jobs, csv>>,
             \/ UNCHANGED state
             \/ state'.status = "Failed",
             ~Running' \/ (Bit(BusyPcs, label) = Bit(BusyPcs, workerPc[r][w])
                           /\ Bit(WrotePcs, label) = Bit(WrotePcs, workerPc[r][w])
                           /\ label # "off")
      PROVE  Sums'
  BY <1>1, <1>2, <1>3, <1>4, <1>6, <1>7, WorkerSums DEF Running, Active
<1>8. CASE TakeJob(r, w)
  <2>1. CASE /\ jobs[r] > 0 /\ jobs' = [jobs EXCEPT ![r] = @ - 1] /\ WorkerGoto(r, w, "resume")
    <3>1. jobs'[r] = jobs[r] - 1 /\ \A s \in Runs : s # r => jobs'[s] = jobs[s]
      BY <2>1 DEF TypeOK
    <3>2. /\ Bit(BusyPcs, "resume") = 1 /\ Bit(BusyPcs, workerPc[r][w]) = 0
          /\ Bit(WrotePcs, "resume") = 0 /\ Bit(WrotePcs, workerPc[r][w]) = 0
      BY <1>8 DEF TakeJob, Bit, BusyPcs, WrotePcs
    <3>3. UNCHANGED <<runID, runPc, fed, csv, state>> /\ "resume" \in WorkerPcs
      BY <1>8, Labels DEF TakeJob
    <3> QED
      BY <1>1, <1>2, <1>3, <1>4, <2>1, <3>1, <3>2, <3>3, WorkerSums DEF Running
  <2>2. CASE /\ jobs[r] = 0 /\ runPc[r] \notin Feeding \ {"wait"} /\ WorkerGoto(r, w, "off")
             /\ UNCHANGED jobs
    <3>1. /\ Bit(BusyPcs, "off") = 0 /\ Bit(BusyPcs, workerPc[r][w]) = 0
          /\ Bit(WrotePcs, "off") = 0 /\ Bit(WrotePcs, workerPc[r][w]) = 0
      BY <1>8 DEF TakeJob, Bit, BusyPcs, WrotePcs
    <3>2. UNCHANGED <<runID, runPc, fed, csv, state>> /\ "off" \in WorkerPcs /\ runPc[r] = "wait"
      BY <1>2, <1>8, <2>2, Labels DEF TakeJob
    <3> QED
      BY <1>1, <1>2, <1>3, <1>4, <2>2, <3>1, <3>2, WorkerSums DEF Running
  <2> QED
    BY <1>8, <2>1, <2>2 DEF TakeJob
<1>9. CASE WorkerResume(r, w)
  <2>1. CASE ~Active(r)
    BY <1>2, <1>7, <1>9, <2>1, Labels DEF WorkerResume, Active, Running
  <2>2. CASE Active(r)
    BY <1>5, <1>7, <1>9, <2>2, Labels DEF WorkerResume, Bit, BusyPcs, WrotePcs
  <2> QED
    BY <2>1, <2>2
<1>10. CASE AcquireWorker(r, w)
  <2>1. CASE ~Active(r)
    BY <1>2, <1>7, <1>10, <2>1, Labels DEF AcquireWorker, Active, Running
  <2>2. CASE Active(r)
    BY <1>5, <1>7, <1>10, <2>2, Labels DEF AcquireWorker, Bit, BusyPcs, WrotePcs
  <2> QED
    BY <2>1, <2>2
<1>11. CASE ReleaseWorker(r, w)
  BY <1>7, <1>11, Labels DEF ReleaseWorker, Bit, BusyPcs, WrotePcs
<1>12. CASE ProbePanics(r, w)
  <2>1. UNCHANGED state \/ state'.status = "Failed"
    BY <1>12 DEF ProbePanics, FailValidatorRun, TypeOK, ValidatorStates
  <2>2. ~Running'
    BY <1>2, <1>12 DEF ProbePanics, FailValidatorRun, Active, Running, TypeOK, ValidatorStates
  <2> QED
    BY <1>7, <1>12, <2>1, <2>2, Labels DEF ProbePanics
<1>13. CASE WriteCSVResult(r, w)
  BY <1>7, <1>13, Labels DEF WriteCSVResult, Bit, BusyPcs, WrotePcs
<1>14. CASE PushRecord(r, w)
  <2>1. \A s \in Runs : s # r => csv'[s] = csv[s]
    BY <1>14 DEF PushRecord, TypeOK
  <2>2. csv' = csv \/ (/\ csv'[r].phase = csv[r].phase /\ csv'[r].rows = csv[r].rows
                       /\ csv'[r].queued = csv[r].queued + 1 /\ csv'[r].err = csv[r].err)
    BY <1>14 DEF PushRecord, TypeOK, Files
  <2>3. UNCHANGED <<runID, runPc, fed, jobs>>
    BY <1>14 DEF PushRecord
  <2>4. CASE csv[r].err
    <3>1. PICK label \in {"off", "take"} : WorkerGoto(r, w, label)
      BY <1>14, <2>4 DEF PushRecord
    <3>2. state'.status # "Completed" /\ ~Running'
      BY <1>2, <1>14, <2>4
      DEF PushRecord, FailValidatorRun, Active, Running, TypeOK, ValidatorStates
    <3>3. label \in WorkerPcs
      BY <3>1, Labels
    <3> QED
      BY <1>1, <1>2, <1>3, <1>4, <2>1, <2>2, <2>3, <3>1, <3>2, <3>3, WorkerSums DEF Active
  <2>5. CASE ~csv[r].err /\ csv'[r].queued = csv[r].queued + 1 /\ WorkerGoto(r, w, "countWrote")
             /\ UNCHANGED state
    <3>1. /\ Bit(BusyPcs, "countWrote") = 1 /\ Bit(BusyPcs, workerPc[r][w]) = 1
          /\ Bit(WrotePcs, "countWrote") = 1 /\ Bit(WrotePcs, workerPc[r][w]) = 0
      BY <1>14 DEF PushRecord, Bit, BusyPcs, WrotePcs
    <3>2. "countWrote" \in WorkerPcs /\ csv'[r].rows = csv[r].rows /\ csv'[r].phase = csv[r].phase
      BY <2>2, Labels
    <3> QED
      BY <1>1, <1>2, <1>3, <1>4, <2>1, <2>3, <2>5, <3>1, <3>2, WorkerSums DEF Running
  <2>6. CASE ~csv[r].err /\ r \in ctxDone /\ WorkerGoto(r, w, "off") /\ UNCHANGED <<csv, state>>
    <3>1. ~Running'
      BY <1>2, <1>5, <2>6 DEF Active, Running
    <3> QED
      BY <1>7, <2>3, <2>6, <3>1, Labels
  <2>7. \/ csv[r].err
        \/ ~csv[r].err /\ csv' = [csv EXCEPT ![r].queued = @ + 1]
             /\ WorkerGoto(r, w, "countWrote") /\ UNCHANGED state
        \/ ~csv[r].err /\ r \in ctxDone /\ WorkerGoto(r, w, "off") /\ UNCHANGED <<csv, state>>
    BY <1>14 DEF PushRecord
  <2>8. csv' = [csv EXCEPT ![r].queued = @ + 1] => csv'[r].queued = csv[r].queued + 1
    BY DEF TypeOK, Files
  <2> QED
    BY <2>4, <2>5, <2>6, <2>7, <2>8
<1>15. CASE RecordResult(r, w)
  <2>1. PICK label \in WorkerPcs :
          WorkerGoto(r, w, label) /\ (~Active(r) \/ label \in {"metadata", "take"})
    <3>1. Active(r) => Continue(r) = "take"
      BY <1>5 DEF Continue
    <3> QED
      BY <1>15, <3>1, Labels DEF RecordResult
  <2>2. CASE ~Active(r)
    BY <1>2, <1>7, <1>15, <2>1, <2>2 DEF RecordResult, Active, Running
  <2>3. CASE Active(r)
    <3>1. UNCHANGED <<runID, runPc, fed, jobs, csv>>
      BY <1>15 DEF RecordResult
    <3>2. Bit(BusyPcs, label) = 0 /\ Bit(BusyPcs, workerPc[r][w]) = 1 /\ Bit(WrotePcs, label) = 0
      BY <1>15, <2>1, <2>3 DEF RecordResult, Bit, BusyPcs, WrotePcs
    <3>3. CASE workerPc[r][w] = "countWrote"
      <4>1. /\ state'.status = state.status /\ state'.rows = state.rows + 1
            /\ state'.retained = state.retained + 1 /\ state'.gradeF = state.gradeF
        BY <1>15, <2>3, <3>3 DEF RecordResult, TypeOK, ValidatorStates
      <4>2. Bit(WrotePcs, workerPc[r][w]) = 1
        BY <3>3 DEF Bit, WrotePcs
      <4> QED
        BY <1>1, <1>2, <1>3, <1>4, <2>1, <2>3, <3>1, <3>2, <4>1, <4>2, WorkerSums DEF Running
    <3>4. CASE workerPc[r][w] = "countSkipped"
      <4>1. /\ state'.status = state.status /\ state'.rows = state.rows
            /\ state'.retained = state.retained /\ state'.gradeF = state.gradeF + 1
        BY <1>15, <2>3, <3>4 DEF RecordResult, TypeOK, ValidatorStates
      <4>2. Bit(WrotePcs, workerPc[r][w]) = 0
        BY <3>4 DEF Bit, WrotePcs
      <4> QED
        BY <1>1, <1>2, <1>3, <1>4, <2>1, <2>3, <3>1, <3>2, <4>1, <4>2, WorkerSums DEF Running
    <3> QED
      BY <1>15, <3>3, <3>4 DEF RecordResult
  <2> QED
    BY <2>2, <2>3
<1>16. CASE WriteMetadata(r, w)
  <2>1. CASE ~Active(r)
    BY <1>2, <1>7, <1>16, <2>1, Labels DEF WriteMetadata, Active, Running
  <2>2. CASE Active(r)
    BY <1>5, <1>7, <1>16, <2>2, Labels DEF WriteMetadata, Continue, Bit, BusyPcs, WrotePcs
  <2> QED
    BY <2>1, <2>2
<1> QED
  BY <1>8, <1>9, <1>10, <1>11, <1>12, <1>13, <1>14, <1>15, <1>16 DEF WorkerStep

LEMMA WriterStepSums ==
    ASSUME TypeOK, Order, Ended, Sums, NEW r \in Runs, WriterStep(r)
    PROVE  Sums'
<1> USE DEF app, feed, crew, disk
<1>1. UNCHANGED <<state, runID, runPc, fed, jobs, workerPc>>
  BY DEF WriterStep, WriteRow, FlushFails, EndWriter
<1>2. /\ \A s \in Runs : Number(BusyPcs, s)' = Number(BusyPcs, s)
      /\ \A s \in Runs : Number(WrotePcs, s)' = Number(WrotePcs, s)
  BY <1>1, NumberStays
<1>3. JobsCounted'
  BY <1>1, <1>2 DEF Sums, JobsCounted, Active, Running
<1>4. csv[r].phase \in {"open", "closing"} /\ runID = r
  BY DEF WriterStep, WriteRow, FlushFails, EndWriter, Order, RunOwnsFile
<1>5. \A s \in Runs : s # r => csv'[s] = csv[s]
  BY DEF WriterStep, WriteRow, FlushFails, EndWriter, TypeOK
<1>6. runPc[r] \notin {"metadata", "done"}
  BY <1>4 DEF Ended
<1>7. Complete'
  BY <1>1, <1>4, <1>6 DEF Sums, Complete
<1>8. csv[r].rows \in Nat /\ csv[r].queued \in Nat
  BY DEF TypeOK, Files
<1>9. CASE WriteRow(r)
  <2>1. /\ csv[r].queued > 0 /\ csv'[r].phase = csv[r].phase
        /\ \/ /\ ~csv[r].err /\ csv'[r].queued = csv[r].queued - 1
              /\ csv'[r].rows = csv[r].rows + 1
           \/ csv'[r].err
    BY <1>9 DEF WriteRow, TypeOK, Files
  <2>2. runPc[r] \notin {"none", "begin"}
    BY <1>8, <2>1 DEF Sums, Fresh
  <2>3. Fresh' /\ Drained'
    BY <1>1, <1>4, <1>5, <2>1, <2>2 DEF Sums, Fresh, Drained
  <2>4. RowsCounted'
    BY <1>1, <1>2, <1>4, <1>8, <2>1 DEF Sums, RowsCounted, Running
  <2> QED
    BY <1>3, <1>7, <2>3, <2>4 DEF Sums
<1>10. CASE FlushFails(r)
  <2>1. csv[r].rows > 0 /\ csv'[r].phase = csv[r].phase /\ csv'[r].err
    BY <1>10 DEF FlushFails, TypeOK, Files
  <2>2. runPc[r] \notin {"none", "begin"}
    BY <1>8, <2>1 DEF Sums, Fresh
  <2>3. Fresh' /\ Drained'
    BY <1>1, <1>4, <1>5, <2>1, <2>2 DEF Sums, Fresh, Drained
  <2>4. RowsCounted'
    BY <1>1, <1>2, <1>4, <2>1 DEF Sums, RowsCounted, Running
  <2> QED
    BY <1>3, <1>7, <2>3, <2>4 DEF Sums
<1>11. CASE EndWriter(r)
  <2>1. /\ csv[r].queued = 0 /\ csv'[r].queued = 0 /\ csv'[r].rows = csv[r].rows
        /\ csv'[r].err = csv[r].err
    BY <1>11 DEF EndWriter, TypeOK, Files
  <2>2. Fresh' /\ Drained'
    BY <1>1, <1>5, <2>1 DEF Sums, Fresh, Drained
  <2>3. RowsCounted'
    BY <1>1, <1>2, <1>4, <2>1 DEF Sums, RowsCounted, Running
  <2> QED
    BY <1>3, <1>7, <2>2, <2>3 DEF Sums
<1> QED
  BY <1>9, <1>10, <1>11 DEF WriterStep

\* The run's goroutine moves before its end.
LEMMA FeedSums ==
    ASSUME TypeOK, Order, Sums, NEW r \in Runs, NEW label \in RunPcs \ {"none", "begin"},
           Goto(r, label), runPc[r] \in Feeding, UNCHANGED <<runID, state, csv>>,
           \A s \in Runs : s # r => fed'[s] = fed[s] /\ jobs'[s] = jobs[s],
           \A s \in Runs, v \in Workers : s # r => workerPc'[s][v] = workerPc[s][v],
           Number(WrotePcs, r)' = Number(WrotePcs, r),
           Active(r) =>
             /\ fed'[r] = jobs'[r] + Number(BusyPcs, r)' + state.retained + state.gradeF
             /\ label \in {"close", "wait", "finish"} => fed'[r] = Totals[r]
             /\ label = "finish" => jobs'[r] = 0
             /\ \A v \in Workers : workerPc'[r][v] = "off" =>
                   jobs'[r] = 0 /\ label \in {"wait", "finish"}
    PROVE  Sums'
<1>1. \A s \in Runs : runPc'[s] = IF s = r THEN label ELSE runPc[s]
  BY GotoType DEF TypeOK
<1>2. runID = r /\ csv[r].phase = "open"
  BY OpenIsCurrent
<1>3. Fresh' /\ Drained'
  BY <1>1 DEF Sums, Fresh, Drained
<1>4. JobsCounted'
  BY <1>1, <1>2 DEF JobsCounted, Active, Running
<1>5. RowsCounted'
  BY <1>2 DEF Sums, RowsCounted, Running
<1>6. Complete'
  BY <1>2 DEF Sums, Complete, Feeding
<1> QED
  BY <1>3, <1>4, <1>5, <1>6 DEF Sums

\* At the end of a run: nobody is at work any more.
LEMMA NobodyWorks ==
    ASSUME Order, NEW r \in Runs, runPc[r] \notin Feeding \ {"begin"}
    PROVE  Number(BusyPcs, r) = 0 /\ Number(WrotePcs, r) = 0
<1>1. \A w \in Workers : workerPc[r][w] = "off"
  BY DEF Order, WorkersBelong
<1> QED
  BY <1>1, NumberZero DEF BusyPcs, WrotePcs

LEMMA RunStepSums ==
    ASSUME TypeOK, Order, LiveRun, Ended, Sums, NEW r \in Runs, RunStep(r)
    PROVE  Sums'
<1> USE DEF app, feed, crew, disk
<1>1. /\ jobs[r] \in Nat /\ fed[r] \in Nat /\ csv[r].rows \in Nat /\ csv[r].queued \in Nat
      /\ state.rows \in Nat /\ state.retained \in Nat /\ state.gradeF \in Nat
  BY DEF TypeOK, Files, ValidatorStates
<1>2. Number(BusyPcs, r) \in Nat /\ Number(WrotePcs, r) \in Nat
  BY NumberType
<1>3. Active(r) => r \notin ctxDone \cup feedErr
  BY DEF LiveRun
<1>4. workerPc' = workerPc =>
        \A s \in Runs : /\ Number(BusyPcs, s)' = Number(BusyPcs, s)
                        /\ Number(WrotePcs, s)' = Number(WrotePcs, s)
  BY NumberStays
<1>5. CASE BeginRun(r)
  <2>1. runPc[r] = "begin" /\ Goto(r, "feed") /\ UNCHANGED <<runID, state, csv, fed, jobs>>
    BY <1>5 DEF BeginRun
  <2>2. /\ \A v \in Workers : workerPc'[r][v] = "take"
        /\ \A s \in Runs, v \in Workers : s # r => workerPc'[s][v] = workerPc[s][v]
    BY <1>5 DEF BeginRun, TypeOK
  <2>3. \A v \in Workers : workerPc[r][v] = "off"
    BY <2>1 DEF Order, WorkersBelong
  <2>4. Number(BusyPcs, r)' = Number(BusyPcs, r) /\ Number(WrotePcs, r)' = Number(WrotePcs, r)
    <3>1. /\ \A v \in Workers : workerPc'[r][v] \in BusyPcs <=> workerPc[r][v] \in BusyPcs
          /\ \A v \in Workers : workerPc'[r][v] \in WrotePcs <=> workerPc[r][v] \in WrotePcs
      BY <2>2, <2>3 DEF BusyPcs, WrotePcs
    <3> QED
      BY <3>1, NumberStays
  <2>5. Active(r) => fed[r] = jobs[r] + Number(BusyPcs, r) + state.retained + state.gradeF
    BY DEF Sums, JobsCounted
  <2>6. "feed" \in RunPcs \ {"none", "begin"} /\ runPc[r] \in Feeding
    BY <2>1, Labels DEF Feeding
  <2> QED
    BY <2>1, <2>2, <2>4, <2>5, <2>6, FeedSums
<1>6. CASE FeedResume(r)
  <2>1. runPc[r] = "feed" /\ UNCHANGED <<runID, state, csv, fed, jobs, workerPc>>
    BY <1>6 DEF FeedResume
  <2>2. PICK label \in {"close", "send"} :
          Goto(r, label) /\ (Active(r) /\ label = "close" => fed[r] = Totals[r])
    BY <1>3, <1>6 DEF FeedResume, FeedStopped
  <2>3. Active(r) => /\ fed[r] = jobs[r] + Number(BusyPcs, r) + state.retained + state.gradeF
                     /\ \A v \in Workers : workerPc[r][v] # "off"
    BY <2>1 DEF Sums, JobsCounted
  <2>4. label \in RunPcs \ {"none", "begin"} /\ runPc[r] \in Feeding
    BY <2>1, Labels DEF Feeding
  <2> QED
    BY <1>4, <2>1, <2>2, <2>3, <2>4, FeedSums
<1>7. CASE FeedSend(r)
  <2>1. runPc[r] = "send" /\ UNCHANGED <<runID, state, csv, workerPc>>
    BY <1>7 DEF FeedSend
  <2>2. PICK label \in {"close", "feed"} :
          Goto(r, label) /\ (Active(r) => label = "feed" /\ fed'[r] = fed[r] + 1
                                          /\ jobs'[r] = jobs[r] + 1)
    BY <1>3, <1>7 DEF FeedSend, FeedStopped, TypeOK
  <2>3. \A s \in Runs : s # r => fed'[s] = fed[s] /\ jobs'[s] = jobs[s]
    BY <1>7 DEF FeedSend, TypeOK
  <2>4. Active(r) => /\ fed[r] = jobs[r] + Number(BusyPcs, r) + state.retained + state.gradeF
                     /\ \A v \in Workers : workerPc[r][v] # "off"
    BY <2>1 DEF Sums, JobsCounted
  <2>5. label \in RunPcs \ {"none", "begin"} /\ runPc[r] \in Feeding
    BY <2>1, Labels DEF Feeding
  <2>6. Active(r) =>
          fed'[r] = jobs'[r] + Number(BusyPcs, r)' + state.retained + state.gradeF
    BY <1>1, <1>2, <1>4, <2>1, <2>2, <2>4
  <2> QED
    BY <1>4, <2>1, <2>2, <2>3, <2>4, <2>5, <2>6, FeedSums
<1>8. CASE CloseJobs(r)
  <2>1. /\ runPc[r] = "close" /\ Goto(r, "wait")
        /\ UNCHANGED <<runID, state, csv, fed, jobs, workerPc>>
    BY <1>8 DEF CloseJobs
  <2>2. Active(r) => /\ fed[r] = jobs[r] + Number(BusyPcs, r) + state.retained + state.gradeF
                     /\ fed[r] = Totals[r] /\ \A v \in Workers : workerPc[r][v] # "off"
    BY <2>1 DEF Sums, JobsCounted
  <2>3. "wait" \in RunPcs \ {"none", "begin"} /\ runPc[r] \in Feeding
    BY <2>1, Labels DEF Feeding
  <2> QED
    BY <1>4, <2>1, <2>2, <2>3, FeedSums
<1>9. CASE WaitForWorkers(r)
  <2>1. /\ runPc[r] = "wait" /\ UNCHANGED <<runID, state, csv, fed, jobs, workerPc>>
        /\ \A v \in Workers : workerPc[r][v] = "off"
    BY <1>9 DEF WaitForWorkers
  <2>2. PICK label \in {"finish", "finishCanceled"} :
          Goto(r, label) /\ (Active(r) => label = "finish")
    BY <1>3, <1>9 DEF WaitForWorkers
  <2>3. Active(r) => /\ fed[r] = jobs[r] + Number(BusyPcs, r) + state.retained + state.gradeF
                     /\ fed[r] = Totals[r] /\ jobs[r] = 0
    BY <2>1, ValidatorAssumption DEF Sums, JobsCounted
  <2>4. label \in RunPcs \ {"none", "begin"} /\ runPc[r] \in Feeding
    BY <2>1, Labels DEF Feeding
  <2> QED
    BY <1>4, <2>1, <2>2, <2>3, <2>4, FeedSums
<1>10. CASE FinishValidatorRun(r)
  <2>1. runID = r /\ csv[r].phase = "open"
    BY <1>10, OpenIsCurrent DEF FinishValidatorRun
  <2>2. /\ state' = Outcome(r, runPc[r] = "finishCanceled") /\ Goto(r, "closeWriter")
        /\ UNCHANGED <<runID, csv, fed, jobs, workerPc>>
    BY <1>10, <2>1 DEF FinishValidatorRun
  <2>3. \A s \in Runs : runPc'[s] = IF s = r THEN "closeWriter" ELSE runPc[s]
    BY <2>2, GotoType, Labels DEF TypeOK
  <2>4. Fresh' /\ Drained'
    BY <2>2, <2>3 DEF Sums, Fresh, Drained
  <2>5. \/ state'.status \notin {"Running", "Completed"}
        \/ /\ Active(r) /\ runPc[r] = "finish" /\ state'.status = "Completed"
           /\ state'.retained = state.retained /\ state'.gradeF = state.gradeF
    <3>1. state.status # "Completed"
      BY <1>10, <2>1 DEF FinishValidatorRun, Sums, Complete
    <3> QED
      BY <1>10, <2>1, <2>2, <3>1
      DEF FinishValidatorRun, Outcome, Cancelled, Active, Running, TypeOK, ValidatorStates
  <2>6. JobsCounted'
    BY <2>5 DEF JobsCounted, Active, Running
  <2>7. RowsCounted'
    BY <1>4, <2>1, <2>2, <2>5 DEF Sums, RowsCounted, Active, Running
  <2>8. ASSUME Active(r), runPc[r] = "finish" PROVE state.retained + state.gradeF = Totals[r]
    <3>1. Number(BusyPcs, r) = 0
      BY <2>8, NobodyWorks DEF Feeding
    <3>2. fed[r] = jobs[r] + Number(BusyPcs, r) + state.retained + state.gradeF
          /\ fed[r] = Totals[r] /\ jobs[r] = 0
      BY <2>8 DEF Sums, JobsCounted
    <3> QED
      BY <1>1, <3>1, <3>2
  <2>9. Complete'
    BY <2>1, <2>2, <2>3, <2>5, <2>8 DEF Complete
  <2> QED
    BY <2>4, <2>6, <2>7, <2>9 DEF Sums
<1>11. CASE CloseWriter(r)
  <2>1. runID = r /\ runPc[r] = "closeWriter" /\ UNCHANGED <<state, runID, fed, jobs, workerPc>>
    BY <1>11, OpenIsCurrent DEF CloseWriter
  <2>2. \A s \in Runs : runPc'[s] = IF s = r THEN "drain" ELSE runPc[s]
    BY <1>11, GotoType, Labels DEF CloseWriter, TypeOK
  <2>3. /\ \A s \in Runs : csv'[s].phase = IF s = r THEN "closing" ELSE csv[s].phase
        /\ \A s \in Runs : /\ csv'[s].queued = csv[s].queued /\ csv'[s].rows = csv[s].rows
                           /\ csv'[s].err = csv[s].err
    BY <1>11 DEF CloseWriter, TypeOK, Files
  <2>4. Fresh' /\ Drained'
    BY <2>1, <2>2, <2>3 DEF Sums, Fresh, Drained
  <2>5. ~Active(r)
    BY <2>1 DEF LiveRun, Feeding
  <2>6. JobsCounted'
    BY <2>1, <2>5 DEF JobsCounted, Active, Running
  <2>7. RowsCounted'
    BY <1>4, <2>1, <2>3 DEF Sums, RowsCounted, Running
  <2>8. Complete'
    BY <2>1, <2>2, <2>3 DEF Sums, Complete
  <2> QED
    BY <2>4, <2>6, <2>7, <2>8 DEF Sums
<1>12. CASE SettleValidatorRun(r)
  <2>1. /\ runPc[r] = "drain" /\ csv[r].phase = "closed" /\ runID = r
        /\ UNCHANGED <<runID, csv, fed, jobs, workerPc>>
    BY <1>12 DEF SettleValidatorRun, Ended
  <2>2. \A s \in Runs : runPc'[s] = IF s = r THEN "metadata" ELSE runPc[s]
    BY <1>12, GotoType, Labels DEF SettleValidatorRun, TypeOK
  <2>3. Fresh' /\ Drained'
    BY <2>1, <2>2 DEF Sums, Fresh, Drained
  <2>4. state.status # "Running"
    BY <2>1 DEF LiveRun, Active, Running, Feeding
  <2>5. /\ state'.status # "Running"
        /\ state'.status = "Completed" =>
              /\ state.status = "Completed" /\ ~csv[r].err /\ state'.rows = csv[r].rows
              /\ state'.retained = state.retained /\ state'.gradeF = state.gradeF
    BY <1>12, <2>4 DEF SettleValidatorRun, TypeOK, ValidatorStates
  <2>6. JobsCounted'
    BY <2>5 DEF JobsCounted, Active, Running
  <2>7. RowsCounted'
    BY <1>4, <2>1, <2>5 DEF Sums, RowsCounted, Running
  <2>8. ASSUME state'.status = "Completed" PROVE state'.rows = state'.retained
    <3>1. csv[r].queued = 0 /\ Number(WrotePcs, r) = 0
      BY <2>1, NobodyWorks DEF Sums, Drained, Feeding
    <3>2. csv[r].rows + csv[r].queued = state.retained + Number(WrotePcs, r)
      BY <2>1, <2>5, <2>8 DEF Sums, RowsCounted
    <3> QED
      BY <1>1, <2>5, <2>8, <3>1, <3>2
  <2>9. Complete'
    BY <2>1, <2>2, <2>5, <2>8 DEF Sums, Complete
  <2> QED
    BY <2>3, <2>6, <2>7, <2>9 DEF Sums
<1>13. CASE WriteFinalMetadata(r)
  <2>1. runPc[r] = "metadata" /\ UNCHANGED <<state, runID, csv, fed, jobs, workerPc>>
    BY <1>13 DEF WriteFinalMetadata
  <2>2. \A s \in Runs : runPc'[s] = IF s = r THEN "done" ELSE runPc[s]
    BY <1>13, GotoType, Labels DEF WriteFinalMetadata, TypeOK
  <2>3. Fresh' /\ Drained'
    BY <2>1, <2>2 DEF Sums, Fresh, Drained
  <2>4. ~Active(r)
    BY <2>1 DEF LiveRun, Feeding
  <2>5. JobsCounted'
    BY <1>4, <2>1, <2>2, <2>4 DEF Sums, JobsCounted, Active, Running
  <2>6. RowsCounted'
    BY <1>4, <2>1 DEF Sums, RowsCounted, Running
  <2>7. Complete'
    BY <2>1, <2>2 DEF Sums, Complete
  <2> QED
    BY <2>3, <2>5, <2>6, <2>7 DEF Sums
<1> QED
  BY <1>5, <1>6, <1>7, <1>8, <1>9, <1>10, <1>11, <1>12, <1>13 DEF RunStep

LEMMA NextSums == TypeOK /\ Order /\ LiveRun /\ Ended /\ Sums /\ [Next]_vars => Sums'
<1> SUFFICES ASSUME TypeOK, Order, LiveRun, Ended, Sums, [Next]_vars PROVE Sums'
  OBVIOUS
<1>1. CASE UNCHANGED vars
  BY <1>1, SumsStable DEF vars
<1> QED
  BY <1>1, InterfaceSums, RunStepSums, WorkerStepSums, WriterStepSums DEF Next

\* A scan reported as completed has counted every endpoint and has in its file
\* every row it kept, and the metadata of a run that is done says how it ended
\* and how many rows its file has, whichever worker wrote it last (scanner.go:333-360).
THEOREM EndsAreToldRight == Spec => []EndIsToldRight
<1>1. Order /\ Sums => CompletedIsComplete
  <2> SUFFICES ASSUME Order, Sums, state.status = "Completed", writer = None
               PROVE  /\ state.retained + state.gradeF = Totals[runID]
                      /\ state.rows = state.retained /\ ~csv[runID].err
    BY DEF CompletedIsComplete
  <2>1. /\ runID \in Runs /\ runPc[runID] \in {"closeWriter", "drain", "metadata", "done"}
        /\ state.retained + state.gradeF = Totals[runID]
    BY DEF Sums, Complete
  <2>2. runPc[runID] \notin {"closeWriter", "drain"}
    BY <2>1, ValidatorAssumption DEF Order, RunOwnsFile, Runs
  <2> QED
    BY <2>1, <2>2 DEF Sums, Complete
<1>2. Ended => MetadataIsFinal
  BY DEF Ended, Told, MetadataIsFinal
<1> QED
  BY <1>1, <1>2, InitTypes, NextTypes, InitOrder, NextOrder, InitLive, NextLive,
     InitEnded, NextEnded, InitSums, NextSums, PTL DEF Spec, EndIsToldRight
=============================================================================
