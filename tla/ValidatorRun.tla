---------------------------- MODULE ValidatorRun ----------------------------
(***************************************************************************)
(* A scan by the validator (scanner.go) and the CSV file it writes            *)
(* (validator_results.go): the goroutine that feeds jobs and finishes the     *)
(* run, the workers, the goroutine that writes the file, and the calls of the *)
(* interface -- start, cancel, pause, clear, quit -- at any moment.           *)
(*                                                                          *)
(* An action is one critical section of validatorMu, one channel operation or *)
(* one write to disk.  The metadata file beside a CSV is its last row count    *)
(* and status; the channels are counters, since no result differs from        *)
(* another but by its grade.                                                  *)
(***************************************************************************)
EXTENDS FiniteSets, WorkerController

CONSTANTS
    MaxRuns,     \* bound: the scans started
    Workers,     \* the workers of a run
    Totals,      \* the endpoints of each run
    JobBuffer,   \* the jobs channel holds 2 * workerCount
    RecordBuffer,\* the records channel holds validatorResultWriteChannelSize
    DefaultWorkers, \* defaultValidatorWorkerCount
    Adaptive,    \* the platforms considered: TRUE is Windows
    Faults,      \* what may go wrong: "panic" in a probe, "write" to the CSV file
    None

Statuses == {"Idle", "Running", "Completed", "Cancelled", "Failed"}
Metadata == [status: Statuses, rows: Nat]

ASSUME ValidatorAssumption ==
    /\ MaxRuns \in Nat
    /\ IsFiniteSet(Workers) /\ Workers # {}
    /\ Totals \in [1..MaxRuns -> Nat \ {0}]
    /\ JobBuffer \in Nat \ {0} /\ RecordBuffer \in Nat \ {0}
    /\ DefaultWorkers \in Nat /\ Adaptive \subseteq BOOLEAN /\ None \notin 0..MaxRuns
    /\ None \notin Metadata

VARIABLES
    state,      \* validatorState: status, paused and the counters
    runID,      \* validatorRunID
    writer,     \* validatorResultWriter: the run whose file it writes
    cancelReg,  \* validatorCancel: the run it cancels
    ctxDone,    \* the runs whose context is done
    runPc,      \* each run's feeding and finishing goroutine
    fed, jobs,  \* each run's jobs sent, and waiting in its channel
    feedErr,    \* the runs whose feed returned an error
    workerPc,   \* each run's workers
    workerRows, \* the row count a worker is about to write as metadata
    controller, \* each run's worker controller
    csv,        \* each run's file and writer goroutine
    meta,       \* each run's metadata on disk
    final,      \* what finishValidatorRun is about to write as metadata
    quit        \* shutdown: "no", "cancelled", "waiting", "exited", "timedOut"

vars == <<state, runID, writer, cancelReg, ctxDone, runPc, fed, jobs, feedErr, workerPc,
          workerRows, controller, csv, meta, final, quit>>
app == <<state, runID, writer, cancelReg, ctxDone>>
feed == <<runPc, fed, jobs, feedErr>>
crew == <<workerPc, workerRows, controller>>
disk == <<csv, meta, final>>

Runs == 1..MaxRuns

\* The feeding goroutine is in runValidatorRequests ...
Feeding == {"begin", "feed", "send", "close", "wait"}
\* ... and then in finishValidatorRun.
Finishing == {"finish", "finishCanceled", "closeWriter", "drain", "settle", "metadata", "done"}
\* A worker holds one of the controller's places.
Probing == {"probe"}
WorkerPcs == {"off", "take", "resume", "acquire", "write", "push", "countWrote",
              "countSkipped", "metadata"} \cup Probing

RunPcs == {"none"} \cup Feeding \cup Finishing

ValidatorStates == [status: Statuses, paused: BOOLEAN, completed: Nat, retained: Nat,
                    gradeF: Nat, rows: Nat]
Files == [phase: {"none", "open", "closing", "closed"}, queued: Nat, rows: Nat,
          err: BOOLEAN]

TypeOK ==
    /\ state \in ValidatorStates
    /\ runID \in Runs \cup {0}
    /\ writer \in Runs \cup {None} /\ cancelReg \in Runs \cup {None}
    /\ ctxDone \subseteq Runs /\ feedErr \subseteq Runs
    /\ runPc \in [Runs -> RunPcs]
    /\ fed \in [Runs -> Nat] /\ jobs \in [Runs -> 0..JobBuffer]
    /\ workerPc \in [Runs -> [Workers -> WorkerPcs]]
    /\ workerRows \in [Runs -> [Workers -> Nat]]
    /\ controller \in [Runs -> Controllers]
    /\ csv \in [Runs -> Files]
    /\ meta \in [Runs -> Metadata \cup {None}] /\ final \in [Runs -> Metadata \cup {None}]
    /\ quit \in {"no", "cancelled", "waiting", "exited", "timedOut"}

Zero == [status |-> "Idle", paused |-> FALSE, completed |-> 0, retained |-> 0, gradeF |-> 0,
         rows |-> 0]

Init ==
    /\ state = Zero
    /\ runID = 0 /\ writer = None /\ cancelReg = None
    /\ ctxDone = {} /\ feedErr = {}
    /\ runPc = [r \in Runs |-> "none"]
    /\ fed = [r \in Runs |-> 0] /\ jobs = [r \in Runs |-> 0]
    /\ workerPc = [r \in Runs |-> [w \in Workers |-> "off"]]
    /\ workerRows = [r \in Runs |-> [w \in Workers |-> 0]]
    /\ \E adaptive \in Adaptive :
            controller = [r \in Runs |-> NewController(adaptive, DefaultWorkers)]
    /\ csv = [r \in Runs |-> [phase |-> "none", queued |-> 0, rows |-> 0, err |-> FALSE]]
    /\ meta = [r \in Runs |-> None] /\ final = [r \in Runs |-> None]
    /\ quit = "no"

Goto(r, label) == runPc' = [runPc EXCEPT ![r] = label]
WorkerGoto(r, w, label) == workerPc' = [workerPc EXCEPT ![r][w] = label]

Running == state.status = "Running"
Active(r) == runID = r /\ Running
Alive == quit \in {"no", "cancelled", "waiting"}
MetaOf(s) == [status |-> s.status, rows |-> s.rows]

-----------------------------------------------------------------------------
(* The interface.                                                            *)

\* startValidatorRun refuses while a run is active or its file still open.
IdleIsEnough == ~Running \* a mutant of:
NoActiveRun == ~Running /\ writer = None

StartValidatorRun ==
    /\ quit = "no" /\ NoActiveRun
    /\ runID + 1 \in Runs
    /\ LET r == runID + 1
       IN  /\ runID' = r
           /\ state' = [Zero EXCEPT !.status = "Running"]
           /\ writer' = r /\ cancelReg' = r
           /\ csv' = [csv EXCEPT ![r].phase = "open"]
           /\ Goto(r, "begin")
    /\ UNCHANGED <<ctxDone, fed, jobs, feedErr, crew, meta, final, quit>>

\* What ends the registered context.
CancelRegistered ==
    /\ ctxDone' = ctxDone \cup ({cancelReg} \ {None})
    /\ cancelReg' = None

Cancelled == [state EXCEPT !.status = "Cancelled", !.paused = FALSE]

CancelValidatorScan ==
    /\ Alive /\ (cancelReg # None \/ Running)
    /\ CancelRegistered
    /\ state' = IF Running THEN Cancelled ELSE state
    /\ UNCHANGED <<runID, writer, feed, crew, disk, quit>>

SetValidatorPaused ==
    /\ quit = "no" /\ Running
    /\ state' = [state EXCEPT !.paused = ~@]
    /\ UNCHANGED <<runID, writer, cancelReg, ctxDone, feed, crew, disk, quit>>

ClearValidatorResults ==
    /\ quit = "no" /\ NoActiveRun
    /\ state' = Zero
    /\ UNCHANGED <<runID, writer, cancelReg, ctxDone, feed, crew, disk, quit>>

\* shutdown: the scan is cancelled ...
Shutdown ==
    /\ quit = "no"
    /\ quit' = "cancelled"
    /\ CancelRegistered
    /\ state' = IF Running THEN Cancelled ELSE state
    /\ UNCHANGED <<runID, writer, feed, crew, disk>>

\* ... and, if it is still active, waited for ...
OnlyRunning == Running \* a mutant of:
StillActive == Running \/ writer # None

WaitValidatorStopped ==
    /\ quit = "cancelled"
    /\ quit' = IF StillActive THEN "waiting" ELSE "exited"
    /\ UNCHANGED <<app, feed, crew, disk>>

\* ... until finishValidatorRun closes its channel, or for five seconds.
StopWaiting ==
    /\ quit = "waiting"
    /\ quit' \in (IF runPc[runID] = "done" THEN {"exited"} ELSE {"timedOut"})
    /\ UNCHANGED <<app, feed, crew, disk>>

-----------------------------------------------------------------------------
(* The goroutine of a run: runValidatorBatch, runValidatorRequests.          *)

\* startValidatorRun's own metadata, and then the workers.
BeginRun(r) ==
    /\ runPc[r] = "begin"
    /\ meta' = [meta EXCEPT ![r] = [status |-> "Running", rows |-> 0]]
    /\ workerPc' = [workerPc EXCEPT ![r] = [w \in Workers |-> "take"]]
    /\ Goto(r, "feed")
    /\ UNCHANGED <<app, fed, jobs, feedErr, workerRows, controller, csv, final, quit>>

\* sendValidatorJob waits while the run is paused ...
FeedStopped(r) == feedErr' = feedErr \cup {r} /\ Goto(r, "close")

FeedResume(r) ==
    /\ runPc[r] = "feed"
    /\ \/ fed[r] = Totals[r] /\ Goto(r, "close") /\ UNCHANGED feedErr
       \/ fed[r] < Totals[r] /\ (r \in ctxDone \/ ~Active(r)) /\ FeedStopped(r)
       \/ /\ fed[r] < Totals[r] /\ r \notin ctxDone /\ Active(r) /\ ~state.paused
          /\ Goto(r, "send") /\ UNCHANGED feedErr
    /\ UNCHANGED <<app, fed, jobs, crew, disk, quit>>

\* ... and then until a worker has room for the job, or the run was cancelled.
FeedSendOnly(r) == \* a mutant of:
    /\ runPc[r] = "send" /\ jobs[r] < JobBuffer
    /\ jobs' = [jobs EXCEPT ![r] = @ + 1] /\ fed' = [fed EXCEPT ![r] = @ + 1]
    /\ Goto(r, "feed")
    /\ UNCHANGED <<app, feedErr, crew, disk, quit>>
FeedSend(r) ==
    /\ runPc[r] = "send"
    /\ \/ /\ jobs[r] < JobBuffer
          /\ jobs' = [jobs EXCEPT ![r] = @ + 1] /\ fed' = [fed EXCEPT ![r] = @ + 1]
          /\ Goto(r, "feed") /\ UNCHANGED feedErr
       \/ r \in ctxDone /\ FeedStopped(r) /\ UNCHANGED <<fed, jobs>>
    /\ UNCHANGED <<app, crew, disk, quit>>

CloseJobs(r) ==
    /\ runPc[r] = "close"
    /\ Goto(r, "wait")
    /\ UNCHANGED <<app, fed, jobs, feedErr, crew, disk, quit>>

\* wg.Wait, and what runValidatorRequests returns.
WaitForNobody(r) == \* a mutant of:
    /\ runPc[r] = "wait"
    /\ Goto(r, IF r \in feedErr \cup ctxDone THEN "finishCanceled" ELSE "finish")
    /\ UNCHANGED <<app, fed, jobs, feedErr, crew, disk, quit>>
WaitForWorkers(r) ==
    /\ runPc[r] = "wait" /\ \A w \in Workers : workerPc[r][w] = "off"
    /\ Goto(r, IF r \in feedErr \cup ctxDone THEN "finishCanceled" ELSE "finish")
    /\ UNCHANGED <<app, fed, jobs, feedErr, crew, disk, quit>>

-----------------------------------------------------------------------------
(* finishValidatorRun.                                                       *)

Outcome(r, canceled) ==
    CASE ~Running -> state
      [] Running /\ canceled -> Cancelled
      [] Running /\ ~canceled ->
            [state EXCEPT !.status = "Completed", !.paused = FALSE, !.completed = Totals[runID]]

FinishValidatorRun(r) ==
    /\ runPc[r] \in {"finish", "finishCanceled"}
    /\ IF runID = r
       THEN /\ cancelReg' = None
            /\ state' = Outcome(r, runPc[r] = "finishCanceled")
            /\ Goto(r, "closeWriter")
       ELSE Goto(r, "done") /\ UNCHANGED <<cancelReg, state>>
    /\ UNCHANGED <<runID, writer, ctxDone, fed, jobs, feedErr, crew, disk, quit>>

\* validatorCSVWriter.Close closes the channel of records ...
CloseWriter(r) ==
    /\ runPc[r] = "closeWriter"
    /\ csv' = [csv EXCEPT ![r].phase = "closing"]
    /\ Goto(r, "drain")
    /\ UNCHANGED <<app, fed, jobs, feedErr, crew, meta, final, quit>>

\* ... and waits until the file is written.
SettleIgnoringError(r) == \* a mutant of:
    /\ runPc[r] = "drain" /\ csv[r].phase = "closed"
    /\ writer' = None
    /\ state' = [state EXCEPT !.rows = csv[r].rows]
    /\ final' = [final EXCEPT ![r] = MetaOf(state')]
    /\ Goto(r, "metadata")
    /\ UNCHANGED <<runID, cancelReg, ctxDone, fed, jobs, feedErr, crew, csv, meta, quit>>
SettleValidatorRun(r) ==
    /\ runPc[r] = "drain" /\ csv[r].phase = "closed"
    /\ writer' = None
    /\ state' = IF csv[r].err /\ state.status # "Cancelled"
                THEN [state EXCEPT !.rows = csv[r].rows, !.status = "Failed", !.paused = FALSE]
                ELSE [state EXCEPT !.rows = csv[r].rows]
    /\ final' = [final EXCEPT ![r] = MetaOf(state')]
    /\ Goto(r, "metadata")
    /\ UNCHANGED <<runID, cancelReg, ctxDone, fed, jobs, feedErr, crew, csv, meta, quit>>

WriteFinalMetadata(r) ==
    /\ runPc[r] = "metadata"
    /\ meta' = [meta EXCEPT ![r] = final[r]]
    /\ Goto(r, "done")
    /\ UNCHANGED <<app, fed, jobs, feedErr, crew, csv, final, quit>>

-----------------------------------------------------------------------------
(* A worker.                                                                 *)

TakeJob(r, w) ==
    /\ workerPc[r][w] = "take"
    /\ \/ /\ jobs[r] > 0
          /\ jobs' = [jobs EXCEPT ![r] = @ - 1]
          /\ WorkerGoto(r, w, "resume")
       \/ /\ jobs[r] = 0 /\ runPc[r] \notin Feeding \ {"wait"}
          /\ WorkerGoto(r, w, "off") /\ UNCHANGED jobs
    /\ UNCHANGED <<app, runPc, fed, feedErr, workerRows, controller, disk, quit>>

WorkerResume(r, w) ==
    /\ workerPc[r][w] = "resume"
    /\ \/ (r \in ctxDone \/ ~Active(r)) /\ WorkerGoto(r, w, "off")
       \/ r \notin ctxDone /\ Active(r) /\ ~state.paused /\ WorkerGoto(r, w, "acquire")
    /\ UNCHANGED <<app, feed, workerRows, controller, disk, quit>>

AcquireWorker(r, w) ==
    /\ workerPc[r][w] = "acquire"
    /\ \/ r \in ctxDone /\ WorkerGoto(r, w, "off") /\ UNCHANGED controller
       \/ /\ r \notin ctxDone /\ MayAcquire(controller[r])
          /\ controller' = [controller EXCEPT ![r] = Acquired(@)]
          /\ WorkerGoto(r, w, "probe")
    /\ UNCHANGED <<app, feed, workerRows, disk, quit>>

\* The probe ends, under pressure or not, with a grade the file keeps or an F.
ReleaseWorker(r, w) ==
    /\ workerPc[r][w] = "probe"
    /\ \E pressure \in BOOLEAN :
            controller' = [controller EXCEPT ![r] = Released(@, pressure)]
    /\ \E grade \in {"write", "countSkipped"} : WorkerGoto(r, w, grade)
    /\ UNCHANGED <<app, feed, workerRows, disk, quit>>

\* failValidatorRun, in the state and the context.
FailValidatorRun(r) ==
    IF Active(r)
    THEN CancelRegistered /\ state' = [state EXCEPT !.status = "Failed", !.paused = FALSE]
    ELSE UNCHANGED <<cancelReg, ctxDone, state>>

\* A panic in the probe gives the place back, and fails the run.
ProbePanics(r, w) ==
    /\ "panic" \in Faults /\ workerPc[r][w] = "probe"
    /\ controller' = [controller EXCEPT ![r] = Released(@, FALSE)]
    /\ FailValidatorRun(r)
    /\ WorkerGoto(r, w, "off")
    /\ UNCHANGED <<runID, writer, feed, workerRows, disk, quit>>

\* writeValidatorCSVResult: a result that comes in after a cancel is kept too.
WriteCSVResult(r, w) ==
    /\ workerPc[r][w] = "write"
    /\ WorkerGoto(r, w, IF runID = r /\ state.status \in {"Running", "Cancelled"}
                               /\ writer # None
                        THEN "push" ELSE "countSkipped")
    /\ UNCHANGED <<app, feed, workerRows, controller, disk, quit>>

\* Where a worker goes from a result it does not count or has counted.
Continue(r) == IF r \in ctxDone THEN "off" ELSE "take"

\* validatorCSVWriter.Write.
PushRecord(r, w) ==
    /\ workerPc[r][w] = "push"
    /\ \/ /\ csv[r].err \* before the record was sent, or right after
          /\ FailValidatorRun(r)
          /\ \/ UNCHANGED csv
             \/ csv[r].queued < RecordBuffer /\ csv' = [csv EXCEPT ![r].queued = @ + 1]
          /\ WorkerGoto(r, w, IF r \in ctxDone' THEN "off" ELSE "take")
       \/ /\ ~csv[r].err /\ csv[r].queued < RecordBuffer
          /\ csv' = [csv EXCEPT ![r].queued = @ + 1]
          /\ WorkerGoto(r, w, "countWrote") /\ UNCHANGED <<state, cancelReg, ctxDone>>
       \/ /\ ~csv[r].err /\ r \in ctxDone
          /\ WorkerGoto(r, w, "off") /\ UNCHANGED <<csv, state, cancelReg, ctxDone>>
    /\ UNCHANGED <<runID, writer, feed, workerRows, controller, meta, final, quit>>

\* recordValidatorResult.  The last result, and now and then another, is
\* followed by the metadata, which is copied here and written after the unlock.
RecordResult(r, w) ==
    /\ workerPc[r][w] \in {"countWrote", "countSkipped"}
    /\ IF ~Active(r)
       THEN UNCHANGED <<state, workerRows>> /\ WorkerGoto(r, w, Continue(r))
       ELSE /\ state' = IF workerPc[r][w] = "countWrote"
                        THEN [state EXCEPT !.completed = @ + 1, !.rows = @ + 1, !.retained = @ + 1]
                        ELSE [state EXCEPT !.completed = @ + 1, !.gradeF = @ + 1]
            /\ \/ workerRows' = [workerRows EXCEPT ![r][w] = state'.rows]
                  /\ WorkerGoto(r, w, "metadata")
               \/ /\ state.completed + 1 < Totals[runID]
                  /\ UNCHANGED workerRows /\ WorkerGoto(r, w, Continue(r))
    /\ UNCHANGED <<runID, writer, cancelReg, ctxDone, feed, controller, disk, quit>>

WriteMetadata(r, w) ==
    /\ workerPc[r][w] = "metadata"
    /\ meta' = [meta EXCEPT ![r] = [status |-> "Running", rows |-> workerRows[r][w]]]
    /\ WorkerGoto(r, w, Continue(r))
    /\ UNCHANGED <<app, feed, workerRows, controller, csv, final, quit>>

-----------------------------------------------------------------------------
(* validatorCSVWriter.run.                                                   *)

\* A row is written, or fails to be, or is dropped after a failure.
WriteRow(r) ==
    /\ csv[r].phase \in {"open", "closing"} /\ csv[r].queued > 0
    /\ \/ ~csv[r].err /\ csv' = [csv EXCEPT ![r].queued = @ - 1, ![r].rows = @ + 1]
       \/ /\ csv[r].err \/ "write" \in Faults
          /\ csv' = [csv EXCEPT ![r].queued = @ - 1, ![r].err = TRUE]
    /\ UNCHANGED <<app, feed, crew, meta, final, quit>>

\* A flush, by the ticker or at the end, that fails.
FlushFails(r) ==
    /\ "write" \in Faults /\ ~csv[r].err
    /\ csv[r].phase \in {"open", "closing"} /\ csv[r].rows > 0
    /\ csv' = [csv EXCEPT ![r].err = TRUE]
    /\ UNCHANGED <<app, feed, crew, meta, final, quit>>

\* The channel is closed and drained: flush, close the file, say so.
EndWriter(r) ==
    /\ csv[r].phase = "closing" /\ csv[r].queued = 0
    /\ csv' = [csv EXCEPT ![r].phase = "closed"]
    /\ UNCHANGED <<app, feed, crew, meta, final, quit>>

-----------------------------------------------------------------------------
RunStep(r) ==
    \/ BeginRun(r) \/ FeedResume(r) \/ FeedSend(r) \/ CloseJobs(r) \/ WaitForWorkers(r)
    \/ FinishValidatorRun(r) \/ CloseWriter(r) \/ SettleValidatorRun(r)
    \/ WriteFinalMetadata(r)

WorkerStep(r, w) ==
    \/ TakeJob(r, w) \/ WorkerResume(r, w) \/ AcquireWorker(r, w) \/ ReleaseWorker(r, w)
    \/ ProbePanics(r, w) \/ WriteCSVResult(r, w) \/ PushRecord(r, w) \/ RecordResult(r, w)
    \/ WriteMetadata(r, w)

WriterStep(r) == WriteRow(r) \/ FlushFails(r) \/ EndWriter(r)

Interface ==
    \/ StartValidatorRun \/ CancelValidatorScan \/ SetValidatorPaused
    \/ ClearValidatorResults \/ Shutdown \/ WaitValidatorStopped \/ StopWaiting

Next ==
    \/ Interface
    \/ Alive /\ \E r \in Runs :
            RunStep(r) \/ WriterStep(r) \/ \E w \in Workers : WorkerStep(r, w)

Spec == Init /\ [][Next]_vars

\* A goroutine that can run runs; nobody has to press a button, or to resume.
FairSpec ==
    /\ Spec
    /\ \A r \in Runs :
        /\ WF_vars(Alive /\ RunStep(r)) /\ WF_vars(Alive /\ WriterStep(r))
        /\ \A w \in Workers : WF_vars(Alive /\ WorkerStep(r, w))

-----------------------------------------------------------------------------
(* Properties.                                                               *)

\* A run is started only when the one before has closed its file: no two files
\* are written at once, and the workers are those of the current run
\* (scanner.go:130).
OneRunAtATime ==
    /\ \A r \in Runs : csv[r].phase \in {"open", "closing"} => runID = r /\ writer = r
    /\ \A r \in Runs, w \in Workers : workerPc[r][w] # "off" => runID = r

\* No worker is left that could send on the closed channel of records, which
\* panics (validator_results.go:237-251).
NoSendOnClosed ==
    \A r \in Runs, w \in Workers : workerPc[r][w] = "push" => csv[r].phase = "open"

\* A run that ended as completed has all its results counted, and every one that
\* is not an F in the file (scanner.go:349-354).
CompletedIsComplete ==
    state.status = "Completed" /\ writer = None =>
        /\ state.retained + state.gradeF = Totals[runID]
        /\ state.rows = state.retained /\ ~csv[runID].err

\* When a run is done its metadata says how it ended and how many rows its file
\* has, whichever worker wrote metadata last (scanner.go:333-360).
MetadataIsFinal ==
    \A r \in Runs : runPc[r] = "done" =>
        meta[r] # None /\ meta[r].status # "Running" /\ meta[r].rows = csv[r].rows

\* The places of the controller are those of the workers that probe, so that
\* none is lost to a panic and no more workers probe than the ceiling.
PlacesAreHeld ==
    \A r \in Runs :
        controller[r].active = Cardinality({w \in Workers : workerPc[r][w] = "probe"})

\* Quitting, short of the timeout, leaves no rows behind in memory
\* (scanner.go:367-381).
QuitSavesRows ==
    quit = "exited" => \A r \in Runs : csv[r].phase \in {"none", "closed"}

\* A scan that is not paused comes to its end, and one that was cancelled or has
\* failed lets the next one start.
ScanEnds ==
    \A r \in Runs : runID = r ~> (writer # r \/ state.paused \/ ~Alive)

\* What is told of a run's end is so: in its status, its counts and its metadata.
EndIsToldRight == CompletedIsComplete /\ MetadataIsFinal
=============================================================================
