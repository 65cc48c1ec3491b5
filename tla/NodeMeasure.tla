---------------------------- MODULE NodeMeasure ----------------------------
(***************************************************************************)
(* Testing nodes (whitevpn_measure.go, internal/session/measure.go): a run,     *)
(* asked for by the Servers page, dials the nodes of one list or of each list   *)
(* in turn, then measures them through an engine of its own.  Results go into   *)
(* the cached lists, which the user refreshes and drops meanwhile; the page     *)
(* learns of the end from events.                                               *)
(*                                                                          *)
(* A result is that the test was run: what it found is left out, as no step     *)
(* depends on it.  When a cached list is too old is any choice.  Nodes are      *)
(* numbered in the order of the catalogue.                                      *)
(***************************************************************************)
EXTENDS FiniteSets, Naturals, Sequences

CONSTANTS
    Lists,      \* the subscriptions, and the configs pasted by hand
    All,        \* the row among them that merges every list
    NodeCount,
    Hidden,     \* the nodes the user has hidden, <<list, node>>, ...
    NoAddress,  \* ... and those with nothing to dial
    Bodies,     \* the nodes a fetch of a list may find
    Requests,   \* what the page may ask for
    Workers,    \* ReachabilityWorkers and DelayWorkers
    SpeedNodes, \* maxSpeedNodes
    MaxRuns,    \* how many tests are asked for, ...
    MaxActs,    \* ... and how often the user refreshes or drops a list
    Absent, None

Nodes == 1 .. NodeCount
Tests == {"reach", "delay", "speed"}

ASSUME NodeMeasureAssumption ==
    /\ IsFiniteSet(Lists) /\ All \in Lists /\ {NodeCount, MaxRuns, MaxActs} \subseteq Nat
    /\ {Workers, SpeedNodes} \subseteq Nat \ {0}
    /\ Hidden \cup NoAddress \subseteq Lists \X Nodes
    /\ Bodies \subseteq (SUBSET Nodes) \ {{}}
    /\ Requests \subseteq [tests : (SUBSET Tests) \ {{}}, lists : SUBSET Lists, everywhere : BOOLEAN]
    /\ \A r \in Requests : ~r.everywhere => \E l \in Lists \ {All} : r.lists = {l}
    /\ None \notin Requests /\ \A S \in SUBSET Tests : S # Absent

VARIABLES
    cache,     \* App.nodes: of each list, the nodes in it and the tests run on them
    page,      \* nodeTestRunning in the page: whether it shows a test going on
    asked,     \* the request on its way to StartNodeTest
    events,    \* nodes:test-error and nodes:test-done on their way to the page
    running,   \* measureState.running
    cancelled, \* the context of the run
    run,       \* the goroutine of the run
    probe,     \* its workers
    engine,    \* the measuring engine that is held: the list it was built of
    owed,      \* goroutines that have still to emit nodes:test-done
    runs, acts, \* bounds
    \* ghosts
    evidence,  \* the results that a probe of that node of that list gave
    left,      \* the nodes that left a cached list during the run
    erred      \* a test of one list could not start its engine

screen == <<page, asked, events, owed, erred>>
ghosts == <<evidence, left>>
vars == <<cache, screen, running, cancelled, run, probe, engine, runs, acts, ghosts>>

Pcs == {"next", "list", "reach", "reaching", "check", "start", "starting", "delay", "speed", "download",
        "close", "blocked", "finish"}

ProbeStates == {"none", "waiting", "busy", "blocked", "done"}

RunStates ==
    [pc : Pcs, request : Requests, todo : SUBSET Lists, list : Lists \cup {None},
     nodes : SUBSET Nodes, speed : SUBSET Nodes]

ASSUME NoRunAssumption == None \notin RunStates

TypeOK ==
    /\ cache \in [Lists -> [Nodes -> (SUBSET Tests) \cup {Absent}]]
    /\ page \in {"idle", "testing"} /\ asked \in Requests \cup {None}
    /\ events \in Seq({"error", "done"}) /\ owed \in Nat
    /\ {running, cancelled, erred} \subseteq BOOLEAN /\ (running <=> run # None)
    /\ run \in RunStates \cup {None}
    /\ probe \in [Nodes -> ProbeStates]
    /\ engine \in Lists \cup {None}
    /\ runs \in 0 .. MaxRuns /\ acts \in 0 .. MaxActs
    /\ evidence \subseteq Lists \X Nodes \X Tests /\ left \subseteq Lists \X Nodes

NoProbes == [n \in Nodes |-> "none"]

Init ==
    /\ cache = [l \in Lists |-> [n \in Nodes |-> Absent]]
    /\ page = "idle" /\ asked = None /\ events = <<>> /\ owed = 0 /\ erred = FALSE
    /\ running = FALSE /\ cancelled = FALSE /\ run = None
    /\ probe = NoProbes /\ engine = None
    /\ runs = 0 /\ acts = 0 /\ evidence = {} /\ left = {}

First(S) == CHOOSE n \in S : \A m \in S : n <= m

-----------------------------------------------------------------------------
(* The cached lists                                                           *)

Listed(l) == {n \in Nodes : cache[l][n] # Absent}
Visible(l, S) == {n \in S : <<l, n>> \notin Hidden}

StoredAnew(l, body) ==  \* mutant: the results of what was in the list are not carried over
    [n \in Nodes |-> IF n \in body THEN {} ELSE Absent]

StoredByName(l, body) ==  \* mutant: results are looked up by name, in whatever list
    [n \in Nodes |-> IF n \notin body THEN Absent
                     ELSE LET known == {k \in Lists : cache[k][n] # Absent} IN
                          IF known = {} THEN {} ELSE cache[CHOOSE k \in known : TRUE][n]]

\* storeWhiteVPNNodes: what was measured of a node stays while the node is in the list.
Stored(l, body) ==
    [n \in Nodes |-> IF n \notin body THEN Absent
                     ELSE IF cache[l][n] = Absent THEN {} ELSE cache[l][n]]

\* A list is replaced, whole: what is no longer in it is gone with its results.
Replace(l, nodes) ==
    LET gone == {n \in Listed(l) : nodes[n] = Absent} IN
    /\ cache' = [cache EXCEPT ![l] = nodes]
    /\ left' = left \cup {<<l, n>> : n \in gone}
    /\ evidence' = {e \in evidence : e[1] = l => e[2] \notin gone}

\* The user refreshes a list, but not All, whose reading does not come to an end: see List.
RefreshList(l) ==
    /\ l # All
    /\ acts < MaxActs /\ acts' = acts + 1
    /\ \E body \in Bodies : Replace(l, Stored(l, body))
    /\ UNCHANGED <<screen, running, cancelled, run, probe, engine, runs>>

\* ... or it is edited or deleted: forgetWhiteVPNNodes.
ForgetList(l) ==
    /\ acts < MaxActs /\ acts' = acts + 1 /\ Listed(l) # {}
    /\ Replace(l, [n \in Nodes |-> Absent])
    /\ UNCHANGED <<screen, running, cancelled, run, probe, engine, runs>>

\* recordNodeMeasurement, of several nodes: nothing is kept of a node that is not in the list.
Record(l, S, test) ==
    cache' = [cache EXCEPT ![l] = [n \in Nodes |->
                IF n \in S /\ @[n] # Absent THEN @[n] \cup {test} ELSE @[n]]]

Found(l, S, test) == evidence' = evidence \cup {<<l, n, test>> : n \in S \cap Listed(l)}

-----------------------------------------------------------------------------
(* The page, and the beginning and the end of a run                           *)

\* runNodeTest in App.tsx: the buttons that start a test are there while none is shown.
Press(request) ==
    /\ page = "idle" /\ asked = None /\ runs < MaxRuns
    /\ page' = "testing" /\ asked' = request /\ runs' = runs + 1
    /\ UNCHANGED <<cache, events, owed, erred, running, cancelled, run, probe, engine, acts, ghosts>>

StartNodeTest ==
    /\ asked # None /\ asked' = None
    /\ IF running
       THEN page' = "idle" /\ UNCHANGED <<running, cancelled, run, left>>
       ELSE /\ running' = TRUE /\ cancelled' = FALSE /\ left' = {}
            /\ run' = [pc |-> "next", request |-> asked, todo |-> asked.lists, list |-> None,
                       nodes |-> {}, speed |-> {}]
            /\ UNCHANGED page
    /\ UNCHANGED <<cache, events, owed, erred, probe, engine, runs, acts, evidence>>

CancelNodeTest ==
    /\ page = "testing" /\ running /\ ~cancelled
    /\ cancelled' = TRUE
    /\ UNCHANGED <<cache, screen, running, run, probe, engine, runs, acts, ghosts>>

\* The page hears the events in the order they were emitted.
Hear ==
    /\ events # <<>> /\ events' = Tail(events) /\ page' = "idle"
    /\ UNCHANGED <<cache, asked, owed, erred, running, cancelled, run, probe, engine, runs, acts, ghosts>>

FinishSilent ==  \* mutant: the end of a cancelled run is not told
    /\ run # None /\ run.pc = "finish"
    /\ running' = FALSE /\ run' = None /\ owed' = IF cancelled THEN owed ELSE owed + 1
    /\ UNCHANGED <<cache, page, asked, events, erred, cancelled, probe, engine, runs, acts, ghosts>>

\* The deferred end of the goroutine: first the lock, ...
Finish ==
    /\ run # None /\ run.pc = "finish"
    /\ running' = FALSE /\ run' = None /\ owed' = owed + 1
    /\ UNCHANGED <<cache, page, asked, events, erred, cancelled, probe, engine, runs, acts, ghosts>>

\* ... then the event.
EmitDone ==
    /\ owed > 0 /\ owed' = owed - 1
    /\ events' = Append(events, "done")
    /\ UNCHANGED <<cache, page, asked, erred, running, cancelled, run, probe, engine, runs, acts, ghosts>>

-----------------------------------------------------------------------------
(* The run                                                                    *)

At(pc) == run # None /\ run.pc = pc
Goto(pc) == run' = [run EXCEPT !.pc = pc]
Asked(test) == test \in run.request.tests

\* runNodeTestEverywhere asks before each list whether the run was cancelled.
NextList ==
    /\ At("next")
    /\ IF run.todo = {} \/ (run.request.everywhere /\ cancelled) THEN Goto("finish")
       ELSE \E l \in run.todo :
              run' = [run EXCEPT !.pc = "list", !.list = l, !.todo = @ \ {l}]
    /\ UNCHANGED <<cache, screen, running, cancelled, probe, engine, runs, acts, ghosts>>

\* runNodeTestFor with these nodes, from the test it begins with.
Begin(S) ==
    LET nodes == IF run.request.everywhere THEN Visible(run.list, S) ELSE S IN
    run' = [run EXCEPT !.nodes = nodes,
                       !.pc = IF nodes = {} THEN "next" ELSE IF Asked("reach") THEN "reach" ELSE "check"]

\* ListSubscriptionNodes, or nodesByName, which takes a cached list of any age: the test of
\* one list names all its nodes.  A fetch has its deadline (v2ray.go:945), and skips the list when it
\* fails.  All is no list to read: it is among those everySubscriptionBody reads, without end.
List ==
    /\ At("list") /\ run.list # All
    /\ \/ Listed(run.list) # {} /\ Begin(Listed(run.list)) /\ UNCHANGED <<cache, ghosts>>
       \/ /\ run.request.everywhere \/ Listed(run.list) = {}
          /\ \E body \in Bodies : Replace(run.list, Stored(run.list, body)) /\ Begin(body)
       \/ /\ run.request.everywhere \/ Listed(run.list) = {}
          /\ Goto("next") /\ UNCHANGED <<cache, ghosts>>
    /\ UNCHANGED <<screen, running, cancelled, probe, engine, runs, acts>>

ReachSkipping ==  \* mutant: a node with nothing to dial is passed over
    /\ At("reach") /\ Goto("reaching")
    /\ probe' = [n \in Nodes |-> IF n \in run.nodes /\ <<run.list, n>> \notin NoAddress THEN "waiting" ELSE "none"]
    /\ UNCHANGED <<cache, screen, running, cancelled, engine, runs, acts, ghosts>>

\* measureReachability: a node with nothing to dial has failed, the others get a worker each.
Reach ==
    LET unreachable == {n \in run.nodes : <<run.list, n>> \in NoAddress} IN
    /\ At("reach") /\ Goto("reaching")
    /\ Record(run.list, unreachable, "reach") /\ Found(run.list, unreachable, "reach")
    /\ probe' = [n \in Nodes |-> IF n \in run.nodes \ unreachable THEN "waiting" ELSE "none"]
    /\ UNCHANGED <<screen, running, cancelled, engine, runs, acts, left>>

Probing == At("reaching") \/ At("delay")
InState(state) == {n \in Nodes : probe[n] = state}

\* A worker passes the gate, even of a run that is cancelled: both cases of its select may be
\* ready.  forEachBounded starts the workers in order.
ProbeStarts(n) ==
    /\ Probing /\ probe[n] = "waiting" /\ Cardinality(InState("busy")) < Workers
    /\ At("delay") => n = First(InState("waiting"))
    /\ probe' = [probe EXCEPT ![n] = "busy"]
    /\ UNCHANGED <<cache, screen, running, cancelled, run, engine, runs, acts, ghosts>>

\* Those that wait see that the run is cancelled: each by itself, or their dispatcher for all.
ProbeGivesUp(n) ==
    /\ Probing /\ cancelled /\ probe[n] = "waiting"
    /\ probe' = [m \in Nodes |-> IF m = n \/ (At("delay") /\ probe[m] = "waiting") THEN "done" ELSE probe[m]]
    /\ UNCHANGED <<cache, screen, running, cancelled, run, engine, runs, acts, ghosts>>

Measured == IF At("delay") THEN "delay" ELSE "reach"

\* A probe ends with a result, that of a cancelled run too: its context fails it.
ProbeEnds(n) ==
    /\ Probing /\ probe[n] = "busy" /\ probe' = [probe EXCEPT ![n] = "done"]
    /\ Record(run.list, {n}, Measured)
    /\ Found(IF At("delay") THEN engine ELSE run.list, {n}, Measured)
    /\ UNCHANGED <<screen, running, cancelled, run, engine, runs, acts, left>>

ProbesEnd ==
    /\ Probing /\ \A n \in Nodes : probe[n] \in {"none", "done"}
    /\ Goto(IF At("reaching") THEN "check" ELSE IF Asked("speed") /\ ~cancelled THEN "speed" ELSE "close")
    /\ probe' = NoProbes
    /\ UNCHANGED <<cache, screen, running, cancelled, engine, runs, acts, ghosts>>

Check ==
    /\ At("check")
    /\ Goto(IF cancelled \/ run.request.tests = {"reach"} THEN "next" ELSE "start")
    /\ UNCHANGED <<cache, screen, running, cancelled, probe, engine, runs, acts, ghosts>>

TellAlways ==  \* mutant: the page is told of every list whose engine does not start
    /\ Goto("next") /\ events' = Append(events, "error") /\ erred' = (erred \/ ~run.request.everywhere)

\* What startMeasurer returned is told to the page, unless there are lists still to come.
Tell ==
    /\ Goto("next")
    /\ IF run.request.everywhere THEN UNCHANGED <<events, erred>>
       ELSE events' = Append(events, "error") /\ erred' = TRUE

\* startMeasurer: no core, no body, nothing in it to configure or no process; or a process.
StartMeasurer ==
    /\ At("start")
    /\ \/ Tell /\ UNCHANGED engine
       \/ Goto("starting") /\ engine' = run.list /\ UNCHANGED <<events, erred>>
    /\ UNCHANGED <<cache, page, asked, owed, running, cancelled, probe, runs, acts, ghosts>>

\* startCore: Init, ValidateConfig, SetupConfig and StartListener in the time of the run.
StartCore ==
    /\ At("starting")
    /\ \/ Tell /\ engine' = None /\ UNCHANGED probe
       \/ /\ ~cancelled /\ UNCHANGED <<engine, events, erred>>
          /\ IF Asked("delay")
             THEN Goto("delay") /\ probe' = [n \in Nodes |-> IF n \in run.nodes THEN "waiting" ELSE "none"]
             ELSE Goto("speed") /\ UNCHANGED probe
    /\ UNCHANGED <<cache, page, asked, owed, running, cancelled, runs, acts, ghosts>>

SpeedTargets == {n \in run.nodes : Cardinality({m \in run.nodes : m < n}) < SpeedNodes}

\* One download after another, of the first nodes only.
NextDownload ==
    /\ At("speed")
    /\ IF cancelled \/ SpeedTargets \subseteq run.speed THEN Goto("close")
       ELSE run' = [run EXCEPT !.pc = "download", !.speed = @ \cup {First(SpeedTargets \ @)}]
    /\ UNCHANGED <<cache, screen, running, cancelled, probe, engine, runs, acts, ghosts>>

\* Speed, of the node added last.
Download ==
    LET n == CHOOSE m \in run.speed : \A o \in run.speed : o <= m IN
    /\ At("download") /\ Goto("speed")
    /\ Record(run.list, {n}, "speed") /\ Found(engine, {n}, "speed")
    /\ UNCHANGED <<screen, running, cancelled, probe, engine, runs, acts, left>>

\* A call of the engine is written without a deadline.  When the core does not read and its pipe is
\* full, it does not return, and the Shutdown of the deferred Close no more than another.
WriteBlocks ==
    /\ engine # None
    /\ \/ \E n \in InState("busy") : At("delay") /\ probe' = [probe EXCEPT ![n] = "blocked"] /\ UNCHANGED run
       \/ run.pc \in {"starting", "download", "close"} /\ Goto("blocked") /\ UNCHANGED probe
    /\ UNCHANGED <<cache, screen, running, cancelled, engine, runs, acts, ghosts>>

\* The deferred close of the measurer, which drops the error of Stop: a core that could not be killed
\* (EngineProcess) runs on and is no one's.
Close ==
    /\ At("close") /\ run' = [run EXCEPT !.pc = "next", !.speed = {}]
    /\ engine' = None
    /\ UNCHANGED <<cache, screen, running, cancelled, probe, runs, acts, ghosts>>

Work ==
    \/ NextList \/ List \/ Reach \/ ProbesEnd \/ Check \/ StartMeasurer \/ StartCore
    \/ NextDownload \/ Download \/ Close \/ Finish
    \/ \E n \in Nodes : ProbeStarts(n) \/ ProbeEnds(n) \/ ProbeGivesUp(n)

User ==
    \/ \E r \in Requests : Press(r)
    \/ CancelNodeTest
    \/ \E l \in Lists : RefreshList(l) \/ ForgetList(l)

Next == User \/ StartNodeTest \/ Hear \/ EmitDone \/ WriteBlocks \/ Work

Spec == Init /\ [][Next]_vars

\* The goroutine of the run, its workers and the runtime that carries calls and events go on: every
\* probe, fetch and answer of the engine has a deadline, a write has not.  The user need do nothing.
FairSpec ==
    /\ Spec /\ WF_vars(StartNodeTest) /\ WF_vars(Hear) /\ WF_vars(EmitDone) /\ WF_vars(Work)

-----------------------------------------------------------------------------
(* Correctness                                                                *)

\* A result shown of a node of a list was found by a probe of that node, of that list; a
\* delay or a speed by an engine that was built of it.  Lists share names, and nodes come and
\* go between the listing, the probe and the record.
ResultsAreOfTheirList ==
    \A l \in Lists, n \in Nodes :
        n \in Listed(l) => \A t \in cache[l][n] : <<l, n, t>> \in evidence

\* No measuring engine is held longer than the run it was started for, or for another list.
NoEngineIsLeft ==
    engine # None => run # None /\ run.list = engine
                     /\ run.pc \in {"starting", "delay", "speed", "download", "close", "blocked"}

\* A run that was not cancelled leaves no row unresolved: when its engine is closed, every
\* node it covers, and that stayed in its list, has a result of each test asked for.
RunIsComplete ==
    At("close") /\ ~cancelled =>
        \A n \in run.nodes, t \in run.request.tests :
            <<run.list, n>> \in left \/ (t = "speed" /\ n \notin SpeedTargets)
            \/ t \in cache[run.list][n]

\* The page shows a test exactly from the request to the last event, until a test could not
\* start its engine: that error stops the spinner of a run that has not ended.
PageShowsTheRun ==
    erred \/ (page = "testing" <=> asked # None \/ running \/ owed > 0 \/ events # <<>>)

\* A test that was run on a node is not forgotten while the node stays in its list: neither a
\* refresh nor another run takes its row back to untested.
MeasuredStaysMeasured ==
    [][\A l \in Lists, n \in Nodes :
         cache[l][n] # Absent /\ cache'[l][n] # Absent => cache[l][n] \subseteq cache'[l][n]]_vars

\* What no run returns from, cancelled or not: it reads the row All, or writes to a full pipe.
Stuck == (At("list") /\ run.list = All) \/ At("blocked") \/ (At("delay") /\ InState("blocked") # {})

\* A run that is not stuck comes to its end, cancelled or not, whatever the nodes and the engine do, ...
RunEnds == running ~> ~running \/ Stuck

\* ... and the page does not go on showing it.
SpinnerStops == page = "testing" ~> page = "idle" \/ Stuck

\* A measuring engine is that of the run, and its results are those of the run's list.
EngineMeasuresItsList == TypeOK /\ NoEngineIsLeft /\ ResultsAreOfTheirList

\* A test ends, for the program and for the page, unless it is stuck.
TestEnds == RunEnds /\ SpinnerStops
=============================================================================
