---------------------------- MODULE EngineProcess ----------------------------
(***************************************************************************)
(* One core process and the client that talks to it (internal/engine): the    *)
(* start, in which the core dials back (spawn.go), the calls and their        *)
(* replies over one connection (client.go), and the stop.                     *)
(*                                                                          *)
(* Its names are its own, so that it can be used beside ConnectLifecycle.     *)
(* The core and the pipe are the environment: a core may die, stop reading,   *)
(* or never answer; a reply may come after its call has given up.  A call is  *)
(* its id.  Deadlines and timers may expire at any time.                      *)
(***************************************************************************)
EXTENDS Naturals

CONSTANTS
    Calls,       \* the calls made by the rest of the program, each with its context
    StopCalls,   \* the calls of Stop; each one's Shutdown is a call as well
    EventBuffer, \* how many unread events are kept
    Faults,      \* what may go wrong: "start", "supervise", "frame", "wedged", "full"
    Nobody       \* who holds a lock that is free

ASSUME EngineAssumption ==
    /\ Calls \cap StopCalls = {}
    /\ EventBuffer \in Nat \ {0}
    /\ (Calls \cup StopCalls) \cap {Nobody, "off", "reading", "finish", "done"} = {}

Ids == Calls \cup StopCalls

VARIABLES
    starting,  \* how far SpawnOwned is
    child,     \* how the core was started: "direct", elevated by "windows" or "pkexec"
    core,      \* the core process: "none", "running", "exited"
    exitDone,  \* whether child.Wait has returned
    listener,  \* whether the endpoint is listened on
    link,      \* the connection: "none", "dialled", "open", "closed", "dropped"
    reading,   \* whether the core reads: "yes", "wedged", and then "full": no room to write
    requests,  \* frames written and not answered
    replies,   \* frames the core sent and nobody has read
    reader,    \* readLoop and finish
    failing,   \* the waiters finish has yet to fail
    pending,   \* Client.pending
    mailbox,   \* each call's waiter, a channel of one
    closed,    \* Client.closed
    events,    \* the events nobody has read; nothing in the program reads them
    call,      \* each call
    stopping,  \* each Stop
    stopMu     \* who holds the lock of Stop

engineVars == <<starting, child, core, exitDone, listener, link, reading, requests, replies,
                reader, failing, pending, mailbox, closed, events, call, stopping, stopMu>>
process == <<starting, child, core, exitDone, listener, link, reading>>
wire == <<requests, replies>>
client == <<reader, failing, pending, mailbox, closed, events>>
stops == <<stopping, stopMu>>

Idle == "idle"
CallEnds == {"reply", "failure", "noreply", "closed", "unwritten"}
StopEnds == {"ok", "error"}

EngineTypeOK ==
    /\ starting \in {"idle", "listening", "supervise", "accepting", "failing",
                  "connected", "failed", "refused"}
    /\ child \in {"none", "direct", "windows", "pkexec"}
    /\ core \in {"none", "running", "exited"}
    /\ exitDone \in BOOLEAN /\ listener \in BOOLEAN
    /\ link \in {"none", "dialled", "open", "closed", "dropped"}
    /\ reading \in {"yes", "wedged", "full"}
    /\ requests \subseteq Ids /\ replies \subseteq Ids
    /\ reader \in {"off", "reading", "finish", "done"} \cup Ids
    /\ failing \subseteq Ids /\ pending \subseteq Ids
    /\ mailbox \in [Ids -> {"empty", "reply", "failure"}]
    /\ closed \in BOOLEAN
    /\ events \in 0..EventBuffer
    /\ call \in [Ids -> {Idle, "write", "wait"} \cup CallEnds]
    /\ stopping \in [StopCalls -> {Idle, "gone", "shutdown", "close", "closing", "tidying",
                                   "wait", "kill", "killed"} \cup StopEnds]
    /\ stopMu \in StopCalls \cup {Nobody}

EngineInit ==
    /\ starting = "idle" /\ child = "none" /\ core = "none" /\ exitDone = FALSE
    /\ listener = FALSE /\ link = "none" /\ reading = "yes"
    /\ requests = {} /\ replies = {}
    /\ reader = "off" /\ failing = {} /\ pending = {} /\ mailbox = [i \in Ids |-> "empty"]
    /\ closed = FALSE /\ events = 0
    /\ call = [i \in Ids |-> Idle]
    /\ stopping = [s \in StopCalls |-> Idle] /\ stopMu = Nobody

-----------------------------------------------------------------------------
(* SpawnOwned.                                                               *)

Listen ==
    /\ starting = "idle"
    /\ \/ starting' = "listening" /\ listener' = TRUE
       \/ "start" \in Faults /\ starting' = "refused" /\ UNCHANGED listener
    /\ UNCHANGED <<child, core, exitDone, link, reading, wire, client, call, stops>>

StartChild ==
    /\ starting = "listening"
    /\ \/ /\ "start" \in Faults \* or the prompt was declined
          /\ starting' = "refused" /\ listener' = FALSE /\ UNCHANGED <<child, core>>
       \/ /\ child' \in {"direct", "windows", "pkexec"} /\ core' = "running"
          /\ starting' = IF child' = "direct" THEN "supervise" ELSE "accepting"
          /\ UNCHANGED listener
    /\ UNCHANGED <<exitDone, link, reading, wire, client, call, stops>>

\* A core that cannot be supervised is killed and waited for.
Supervise ==
    /\ starting = "supervise"
    /\ \/ starting' = "accepting" /\ UNCHANGED <<core, listener>>
       \/ "supervise" \in Faults /\ starting' = "refused" /\ listener' = FALSE /\ core' = "exited"
    /\ UNCHANGED <<child, exitDone, link, reading, wire, client, call, stops>>

\* acceptWithin: the core dialled, and this was the case the select took ...
AcceptWithin ==
    /\ starting = "accepting" /\ link = "dialled"
    /\ starting' = "connected" /\ link' = "open" /\ reader' = "reading"
    /\ UNCHANGED <<child, core, exitDone, listener, reading, wire, failing, pending, mailbox,
                   closed, events, call, stops>>

\* ... or it exited, the timer fired, or the connect was cancelled ...
AcceptFails ==
    /\ starting = "accepting"
    /\ starting' = "failing"
    /\ UNCHANGED <<child, core, exitDone, listener, link, reading, wire, client, call, stops>>

\* ... which closes the listener, and leaves a connection accepted meanwhile in a
\* channel that nobody receives from.
CloseListener ==
    /\ starting = "failing"
    /\ starting' = "failed" /\ listener' = FALSE
    /\ link' \in (IF link = "dialled" THEN {"dropped", "closed"} ELSE {link})
    /\ UNCHANGED <<child, core, exitDone, reading, wire, client, call, stops>>

\* The goroutine that waits for the child.
ChildWaited ==
    /\ starting \in {"accepting", "failing", "connected", "failed"}
    /\ core = "exited" /\ ~exitDone
    /\ exitDone' = TRUE
    /\ UNCHANGED <<starting, child, core, listener, link, reading, wire, client, call, stops>>

-----------------------------------------------------------------------------
(* The core, as this side sees it.                                           *)

CoreDials ==
    /\ core = "running" /\ reading = "yes" /\ link = "none" /\ listener
    /\ link' = "dialled"
    /\ UNCHANGED <<starting, child, core, exitDone, listener, reading, wire, client, call, stops>>

\* It can die at any time.
CoreExits ==
    /\ core = "running" /\ core' = "exited"
    /\ UNCHANGED <<starting, child, exitDone, listener, link, reading, wire, client, call, stops>>

\* The end of the connection, or nothing to dial, ends a core that still reads.
CoreLeaves ==
    /\ core = "running" /\ reading = "yes"
    /\ link = "closed" \/ (link = "none" /\ starting = "failed")
    /\ core' = "exited"
    /\ UNCHANGED <<starting, child, exitDone, listener, link, reading, wire, client, call, stops>>

CoreWedges ==
    /\ core = "running"
    /\ \/ "wedged" \in Faults /\ reading = "yes" /\ reading' = "wedged"
       \/ "full" \in Faults /\ reading = "wedged" /\ reading' = "full"
    /\ UNCHANGED <<starting, child, core, exitDone, listener, link, wire, client, call, stops>>

\* Requests are answered in any order, late, or never.
CoreAnswers(id) ==
    /\ core = "running" /\ reading = "yes" /\ link = "open" /\ id \in requests
    /\ requests' = requests \ {id} /\ replies' = replies \cup {id}
    /\ UNCHANGED <<process, client, call, stops>>

-----------------------------------------------------------------------------
(* The reader of a connection.                                               *)

Readable == reader = "reading" /\ link = "open"

\* A frame nobody waits for is an event, dropped when there is no room for it.
KeepOrDrop == events' = IF events < EventBuffer THEN events + 1 ELSE events

LeaveWaiting(id) == \* a mutant of ReadReply:
    /\ Readable /\ id \in replies
    /\ replies' = replies \ {id}
    /\ IF id \in pending
       THEN reader' = id /\ UNCHANGED <<pending, events>>
       ELSE KeepOrDrop /\ UNCHANGED <<reader, pending>>
    /\ UNCHANGED <<process, requests, failing, mailbox, closed, call, stops>>

ReadReply(id) ==
    /\ Readable /\ id \in replies
    /\ replies' = replies \ {id}
    /\ IF id \in pending
       THEN pending' = pending \ {id} /\ reader' = id /\ UNCHANGED events
       ELSE KeepOrDrop /\ UNCHANGED <<reader, pending>>
    /\ UNCHANGED <<process, requests, failing, mailbox, closed, call, stops>>

DeliverReply(id) ==
    /\ reader = id /\ mailbox[id] = "empty"
    /\ mailbox' = [mailbox EXCEPT ![id] = "reply"]
    /\ reader' = "reading"
    /\ UNCHANGED <<process, wire, failing, pending, closed, events, call, stops>>

\* A frame with no call behind it: the core's log.
ReadEvent ==
    /\ Readable /\ core = "running"
    /\ KeepOrDrop
    /\ UNCHANGED <<process, wire, reader, failing, pending, mailbox, closed, call, stops>>

StopReading ==
    /\ closed' = TRUE
    /\ failing' = pending /\ pending' = {}
    /\ reader' = "finish"
    /\ UNCHANGED <<process, wire, mailbox, events, call, stops>>

\* The connection has ended, at either end ...
ReadFails ==
    /\ reader = "reading"
    /\ link = "closed" \/ (core = "exited" /\ replies = {})
    /\ StopReading

\* ... or a frame is refused for its size, with the connection as it was.
RefuseFrame ==
    /\ "frame" \in Faults /\ Readable /\ core = "running"
    /\ StopReading

\* finish fails the calls that were waiting, and says that the connection is gone.
FailWaiter(id) ==
    /\ reader = "finish" /\ id \in failing /\ mailbox[id] = "empty"
    /\ mailbox' = [mailbox EXCEPT ![id] = "failure"]
    /\ failing' = failing \ {id}
    /\ UNCHANGED <<process, wire, reader, pending, closed, events, call, stops>>

Finish ==
    /\ reader = "finish" /\ failing = {}
    /\ reader' = "done"
    /\ UNCHANGED <<process, wire, failing, pending, mailbox, closed, events, call, stops>>

-----------------------------------------------------------------------------
(* Client.invoke, for the program's calls and for the Shutdown of a Stop.     *)

MayInvoke(id) ==
    /\ call[id] = Idle /\ starting = "connected"
    /\ id \in StopCalls => stopping[id] = "shutdown"

InvokeUnchecked(id) == \* a mutant of Invoke:
    /\ MayInvoke(id)
    /\ pending' = pending \cup {id}
    /\ call' = [call EXCEPT ![id] = "write"]
    /\ UNCHANGED <<process, wire, reader, failing, mailbox, closed, events, stops>>

Invoke(id) ==
    /\ MayInvoke(id)
    /\ pending' = IF closed THEN pending ELSE pending \cup {id}
    /\ call' = [call EXCEPT ![id] = IF closed THEN "closed" ELSE "write"]
    /\ UNCHANGED <<process, wire, reader, failing, mailbox, closed, events, stops>>

\* The frame is written, whatever the context says, as soon as there is room ...
WriteFrame(id) ==
    /\ call[id] = "write" /\ link = "open" /\ core = "running" /\ reading # "full"
    /\ requests' = requests \cup {id}
    /\ call' = [call EXCEPT ![id] = "wait"]
    /\ UNCHANGED <<process, replies, client, stops>>

\* ... or cannot be any more.
WriteFails(id) ==
    /\ call[id] = "write" /\ (link # "open" \/ core = "exited")
    /\ pending' = pending \ {id}
    /\ call' = [call EXCEPT ![id] = "unwritten"]
    /\ UNCHANGED <<process, wire, reader, failing, mailbox, closed, events, stops>>

Await(id) ==
    /\ call[id] = "wait" /\ mailbox[id] # "empty"
    /\ call' = [call EXCEPT ![id] = mailbox[id]]
    /\ UNCHANGED <<process, wire, client, stops>>

Deadline(id) ==
    /\ call[id] = "wait"
    /\ pending' = pending \ {id}
    /\ call' = [call EXCEPT ![id] = "noreply"]
    /\ UNCHANGED <<process, wire, reader, failing, mailbox, closed, events, stops>>

-----------------------------------------------------------------------------
(* Process.Stop.                                                             *)

HasClient == starting = "connected"

StopGoes(s, label) ==
    /\ stopping' = [stopping EXCEPT ![s] = label]
    /\ stopMu' = IF label \in StopEnds THEN Nobody ELSE s

\* A process that has already gone is only tidied up after.
BeginStop(s) ==
    /\ stopping[s] = Idle /\ stopMu = Nobody /\ starting \in {"connected", "failed"}
    /\ StopGoes(s, CASE exitDone -> "gone"
                     [] ~exitDone /\ HasClient -> "shutdown"
                     [] ~exitDone /\ ~HasClient -> "wait")
    /\ UNCHANGED <<process, wire, client, call>>

\* Shutdown has been asked for, or could not be: its error is not looked at.
ShutdownAsked(s) ==
    /\ stopping[s] = "shutdown" /\ call[s] \in CallEnds
    /\ StopGoes(s, "close")
    /\ UNCHANGED <<process, wire, client, call>>

\* Client.Close closes the connection ...
KeepConnection(s) == \* a mutant of CloseConnection:
    /\ stopping[s] = "close"
    /\ StopGoes(s, "wait")
    /\ UNCHANGED <<process, wire, client, call>>

CloseConnection(s) ==
    /\ \/ stopping[s] = "close" /\ StopGoes(s, "closing")
       \/ stopping[s] = "gone" /\ HasClient /\ StopGoes(s, "tidying")
    /\ link' = "closed"
    /\ UNCHANGED <<starting, child, core, exitDone, listener, reading, wire, client, call>>

\* ... and waits until the reader is through.
ReaderDone(s) ==
    /\ reader = "done"
    /\ \/ stopping[s] = "closing" /\ StopGoes(s, "wait")
       \/ stopping[s] = "tidying" /\ StopGoes(s, "ok")
    /\ listener' = FALSE
    /\ UNCHANGED <<starting, child, core, exitDone, link, reading, wire, client, call>>

\* The core has ended, and Wait has said so.
ConfirmedExit(s) ==
    /\ stopping[s] \in {"wait", "killed"} \/ (stopping[s] = "gone" /\ ~HasClient)
    /\ exitDone
    /\ StopGoes(s, "ok")
    /\ UNCHANGED <<process, wire, client, call>>

\* Five seconds, or the caller's patience.
StopTimesOut(s) ==
    /\ stopping[s] = "wait"
    /\ StopGoes(s, "kill")
    /\ UNCHANGED <<process, wire, client, call>>

KillUnconfirmed(s) == \* a mutant of KillAfterFailedShutdown:
    /\ stopping[s] = "kill"
    /\ \/ core' = "exited" /\ child = "direct"
       \/ UNCHANGED core /\ child # "direct"
    /\ StopGoes(s, "ok")
    /\ UNCHANGED <<starting, child, exitDone, listener, link, reading, wire, client, call>>

\* A core that was started with more privileges than this program has need not let
\* itself be killed; pkexec, if it is still there, can be, and with it goes only the
\* wait.  A process that ended a moment ago cannot be killed either.
KillAfterFailedShutdown(s) ==
    /\ stopping[s] = "kill"
    /\ \/ core' = "exited" /\ UNCHANGED exitDone /\ StopGoes(s, "killed")
       \/ /\ child # "direct" \/ core = "exited"
          /\ UNCHANGED <<core, exitDone>> /\ StopGoes(s, "error")
       \/ child = "pkexec" /\ exitDone' = TRUE /\ UNCHANGED core /\ StopGoes(s, "killed")
    /\ UNCHANGED <<starting, child, listener, link, reading, wire, client, call>>

\* The caller's context ends before the killed core does.
KilledTooLate(s) ==
    /\ stopping[s] = "killed" /\ StopGoes(s, "error")
    /\ UNCHANGED <<process, wire, client, call>>

-----------------------------------------------------------------------------
SpawnOwned ==
    \/ Listen \/ StartChild \/ Supervise \/ AcceptWithin \/ AcceptFails \/ CloseListener

Core == CoreDials \/ CoreExits \/ CoreLeaves \/ CoreWedges \/ \E id \in Ids : CoreAnswers(id)

Receive == ReadEvent \/ RefuseFrame \/ \E id \in Ids : ReadReply(id)

ReaderStep == ReadFails \/ Finish \/ \E id \in Ids : DeliverReply(id) \/ FailWaiter(id)

CallStep(id) == WriteFrame(id) \/ WriteFails(id) \/ Await(id)

StopProcess(s) ==
    \/ ShutdownAsked(s) \/ CloseConnection(s) \/ ReaderDone(s) \/ ConfirmedExit(s)
    \/ StopTimesOut(s) \/ KillAfterFailedShutdown(s) \/ KilledTooLate(s)

EngineNext ==
    \/ SpawnOwned \/ ChildWaited \/ Core \/ Receive \/ ReaderStep
    \/ \E id \in Ids : Invoke(id) \/ CallStep(id) \/ Deadline(id)
    \/ \E s \in StopCalls : BeginStop(s) \/ StopProcess(s)

EngineSpec == EngineInit /\ [][EngineNext]_engineVars

\* Goroutines that can run do, and timers fire.  Nobody has to make a call, and the
\* core answers or dies as it likes, but one that reads notices its connection end.
\* The deadline of a Shutdown comes; those of other calls are left out on purpose.
FairEngineSpec ==
    /\ EngineSpec
    /\ WF_engineVars(SpawnOwned) /\ WF_engineVars(ChildWaited)
    /\ WF_engineVars(CoreLeaves) /\ WF_engineVars(ReaderStep)
    /\ \A id \in Ids : WF_engineVars(CallStep(id))
    /\ \A s \in StopCalls : WF_engineVars(StopProcess(s) \/ Invoke(s) \/ Deadline(s))

-----------------------------------------------------------------------------
(* Properties.                                                               *)

\* A Stop that reports success has seen the process end; the one exception is a
\* pkexec that was killed in its core's place (spawn.go:292-321,
\* elevate_linux.go:92-96).
StopIsConfirmed ==
    \A s \in StopCalls : stopping[s] = "ok" => core = "exited" \/ (child = "pkexec" /\ exitDone)

\* What the rest of the program is told of the process, and what is so: a wait that is
\* over counts for an exit, and a pkexec that was killed for its core.
Told ==
    IF \E s \in StopCalls : stopping[s] = "ok" THEN "stopped"
    ELSE IF \E s \in StopCalls : stopping[s] = "error" THEN "in doubt"
    ELSE IF starting = "connected" THEN "started" ELSE "nothing"

Held == INSTANCE EngineHandle WITH
    process <- IF exitDone THEN "exited" ELSE core, told <- Told

\* Once a Stop has reported success no other reports a failure: they find the process
\* gone (spawn.go:258-271).
SuccessIsFinal ==
    [][(\E t \in StopCalls : stopping[t] = "ok") =>
           \A s \in StopCalls : stopping'[s] = "error" => stopping[s] = "error"]_engineVars

\* What a Stop says is so, and the engine is to whoever holds it what EngineHandle says.
HandleIsKept == Held!Spec /\ SuccessIsFinal

\* The table of calls is that of the calls under way: one that gave up, or was
\* answered, has left nothing in it for a late reply to find (client.go:152-190).
OnlyLiveCallsPend == \A id \in pending : call[id] \in {"write", "wait"}

\* The reader, who serves every call, is never held up by one of them: the waiter
\* it sends to has room, since it gets one message only (client.go:112-121).
ReaderIsNeverHeldUp ==
    /\ \A id \in Ids : reader = id => mailbox[id] = "empty"
    /\ \A id \in failing : mailbox[id] = "empty"

\* Nobody waits on a connection already known to be gone, whatever their deadline
\* (client.go:130-146), unless the pipe takes no more.
NoCallOutlivesConnection ==
    \A id \in Ids : (closed /\ call[id] \in {"write", "wait"})
                        ~> (call[id] \in CallEnds \/ reading = "full")

\* A Stop ends, whatever the core does, as long as its own request can be written.
EveryStopReturns ==
    \A s \in StopCalls : stopping[s] # Idle ~> (stopping[s] \in StopEnds \/ reading = "full")

\* And what it leaves behind ends too, however little may be killed: the end of
\* the connection is enough for a core that reads, unless the connection was the
\* one nobody received (spawn.go:285-289).
StoppedCoreEnds ==
    \A s \in StopCalls : stopping[s] \in StopEnds
                        ~> (core = "exited" \/ reading # "yes" \/ link = "dropped")

\* The table of calls holds live calls only, and so the reader is never held up.
TableServesTheReader == OnlyLiveCallsPend /\ ReaderIsNeverHeldUp

\* A Stop ends, and so does the core it was to stop.
StopsEnd == EveryStopReturns /\ StoppedCoreEnds
=============================================================================
