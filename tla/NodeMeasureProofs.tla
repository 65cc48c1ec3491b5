------------------------- MODULE NodeMeasureProofs -------------------------
(***************************************************************************)
(* Proofs about NodeMeasure for any lists and nodes, any number of workers,   *)
(* tests and refreshes, and whatever fails.                                 *)
(***************************************************************************)
EXTENDS NodeMeasure, FiniteSetTheorems, TLAPS

EnginePcs == {"starting", "delay", "speed", "download", "close", "blocked"}

\* A run that has begun with a list knows which, and its engine is of that list.
ListKnown ==
    /\ run # None /\ run.pc \notin {"next", "finish"} => run.list \in Lists
    /\ run # None /\ run.pc \in EnginePcs => engine = run.list

\* The cached lists are what they should be, after a step ...
CacheTyped ==
    /\ cache \in [Lists -> [Nodes -> (SUBSET Tests) \cup {Absent}]]
    /\ evidence \subseteq Lists \X Nodes \X Tests /\ left \subseteq Lists \X Nodes

\* ... that forgets no test of a node that stays.
NothingForgotten ==
    \A l \in Lists, n \in Nodes :
        cache[l][n] # Absent /\ cache'[l][n] # Absent => cache[l][n] \subseteq cache'[l][n]

-----------------------------------------------------------------------------
(* What becomes of the cached lists.                                         *)

\* A list that replaces another brings along what was measured, and no more.
Carried(l, nodes) ==
    /\ nodes \in [Nodes -> (SUBSET Tests) \cup {Absent}]
    /\ \A n \in Nodes : nodes[n] # Absent =>
          nodes[n] = IF cache[l][n] = Absent THEN {} ELSE cache[l][n]

\* storeWhiteVPNNodes carries over the measurements of the nodes that stay.
LEMMA StoredIsCarried ==
    ASSUME CacheTyped, NEW l \in Lists, NEW body PROVE Carried(l, Stored(l, body))
<1> DEFINE new == Stored(l, body)
<1>1. ASSUME NEW n \in Nodes
      PROVE  /\ new[n] \in (SUBSET Tests) \cup {Absent}
             /\ new[n] # Absent => new[n] = IF cache[l][n] = Absent THEN {} ELSE cache[l][n]
  BY DEF Stored, CacheTyped
<1>2. new \in [Nodes -> (SUBSET Tests) \cup {Absent}]
  BY <1>1 DEF Stored
<1> QED
  BY <1>1, <1>2 DEF Carried

\* A list is replaced: results are still of their nodes, and those that stay keep theirs.
LEMMA Replaced ==
    ASSUME CacheTyped, ResultsAreOfTheirList, NEW l \in Lists, NEW nodes, Carried(l, nodes),
           Replace(l, nodes)
    PROVE  CacheTyped' /\ ResultsAreOfTheirList' /\ NothingForgotten
<1> DEFINE gone == {n \in Listed(l) : nodes[n] = Absent}
<1>1. /\ cache' = [cache EXCEPT ![l] = nodes]
      /\ left' = left \cup {<<l, n>> : n \in gone}
      /\ evidence' = {e \in evidence : e[1] = l => e[2] \notin gone}
  BY DEF Replace
<1>2. cache' \in [Lists -> [Nodes -> (SUBSET Tests) \cup {Absent}]]
  BY <1>1 DEF CacheTyped, Carried
<1>3. CacheTyped'
  <2>1. gone \subseteq Nodes
    BY DEF Listed
  <2>2. left' \subseteq Lists \X Nodes
    BY <1>1, <2>1 DEF CacheTyped
  <2> QED
    BY <1>1, <1>2, <2>2 DEF CacheTyped
<1>4. ASSUME NEW k \in Lists, NEW n \in Nodes, cache'[k][n] # Absent
      PROVE  /\ cache'[k][n] = IF k = l /\ cache[k][n] = Absent THEN {} ELSE cache[k][n]
             /\ k = l => n \notin gone
  BY <1>1, <1>4 DEF CacheTyped, Carried
<1>5. NothingForgotten
  BY <1>4 DEF NothingForgotten
<1>6. ResultsAreOfTheirList'
  <2> SUFFICES ASSUME NEW k \in Lists, NEW n \in Nodes, cache'[k][n] # Absent, NEW t \in cache'[k][n]
               PROVE  <<k, n, t>> \in evidence'
    BY DEF ResultsAreOfTheirList, Listed
  <2>1. cache[k][n] # Absent /\ t \in cache[k][n]
    BY <1>4
  <2>2. <<k, n, t>> \in evidence
    BY <2>1 DEF ResultsAreOfTheirList, Listed
  <2> QED
    BY <1>1, <1>4, <2>2
<1> QED
  BY <1>3, <1>5, <1>6

\* Results are recorded: of nodes in the list, and each has its evidence.
LEMMA Recorded ==
    ASSUME CacheTyped, ResultsAreOfTheirList, NEW l \in Lists, NEW S \in SUBSET Nodes,
           NEW test \in Tests, Record(l, S, test), Found(l, S, test), UNCHANGED left
    PROVE  CacheTyped' /\ ResultsAreOfTheirList' /\ NothingForgotten
<1>1. /\ cache' = [cache EXCEPT ![l] = [n \in Nodes |->
                     IF n \in S /\ cache[l][n] # Absent THEN cache[l][n] \cup {test} ELSE cache[l][n]]]
      /\ evidence' = evidence \cup {<<l, n, test>> : n \in S \cap Listed(l)}
  BY DEF Record, Found
<1>2. ASSUME NEW k \in Lists, NEW n \in Nodes
      PROVE  cache'[k][n] = IF k = l /\ n \in S /\ cache[k][n] # Absent
                            THEN cache[k][n] \cup {test} ELSE cache[k][n]
  BY <1>1 DEF CacheTyped
<1>3. CacheTyped'
  <2>1. ASSUME NEW n \in Nodes
        PROVE (IF n \in S /\ cache[l][n] # Absent THEN cache[l][n] \cup {test} ELSE cache[l][n])
                   \in (SUBSET Tests) \cup {Absent}
    BY DEF CacheTyped
  <2>2. cache' \in [Lists -> [Nodes -> (SUBSET Tests) \cup {Absent}]]
    BY <1>1, <2>1 DEF CacheTyped
  <2>3. evidence' \subseteq Lists \X Nodes \X Tests
    BY <1>1 DEF CacheTyped, Listed
  <2> QED
    BY <2>2, <2>3 DEF CacheTyped
<1>4. NothingForgotten
  BY <1>2 DEF NothingForgotten
<1>5. ResultsAreOfTheirList'
  <2> SUFFICES ASSUME NEW k \in Lists, NEW n \in Nodes, cache'[k][n] # Absent, NEW t \in cache'[k][n]
               PROVE  <<k, n, t>> \in evidence'
    BY DEF ResultsAreOfTheirList, Listed
  <2>1. cache[k][n] # Absent
    BY <1>2
  <2>2. CASE t \in cache[k][n]
    BY <1>1, <2>1, <2>2 DEF ResultsAreOfTheirList, Listed
  <2>3. CASE k = l /\ n \in S /\ t = test
    BY <1>1, <2>1, <2>3 DEF Listed
  <2> QED
    BY <1>2, <2>1, <2>2, <2>3
<1> QED
  BY <1>3, <1>4, <1>5

\* Steps that leave the cached lists alone.
Aside ==
    \/ \E r \in Requests : Press(r)
    \/ StartNodeTest \/ CancelNodeTest \/ Hear \/ EmitDone \/ WriteBlocks \/ NextList \/ ProbesEnd \/ Check
    \/ StartMeasurer \/ StartCore \/ NextDownload \/ Close \/ Finish
    \/ \E n \in Nodes : ProbeStarts(n) \/ ProbeGivesUp(n)

\* The test that the probe in hand is of is a test.
LEMMA MeasuredIsATest == Measured \in Tests
BY DEF Measured, Tests

\* Every step keeps the results where they belong and forgets none.
LEMMA ListsStep ==
    ASSUME TypeOK, ListKnown, ResultsAreOfTheirList, [Next]_vars
    PROVE  CacheTyped' /\ ResultsAreOfTheirList' /\ NothingForgotten
<1>1. CacheTyped /\ run \in RunStates \cup {None}
  BY DEF TypeOK, CacheTyped
<1>2. ASSUME UNCHANGED <<cache, evidence>>, left' \in {left, {}}
      PROVE  CacheTyped' /\ ResultsAreOfTheirList' /\ NothingForgotten
  BY <1>1, <1>2 DEF CacheTyped, ResultsAreOfTheirList, NothingForgotten, Listed
<1>3. CASE Aside
  BY <1>2, <1>3 DEF Aside, ghosts, Press, StartNodeTest, CancelNodeTest, Hear, EmitDone, WriteBlocks, NextList,
     ProbesEnd, Check, StartMeasurer, StartCore, NextDownload, Close, Finish, ProbeStarts, ProbeGivesUp
<1>4. ASSUME NEW l \in Lists, RefreshList(l)
      PROVE  CacheTyped' /\ ResultsAreOfTheirList' /\ NothingForgotten
  <2>1. PICK body \in Bodies : Replace(l, Stored(l, body))
    BY <1>4 DEF RefreshList
  <2>2. Carried(l, Stored(l, body))
    BY <1>1, StoredIsCarried
  <2> QED
    BY <1>1, <2>1, <2>2, Replaced
<1>5. ASSUME NEW l \in Lists, ForgetList(l)
      PROVE  CacheTyped' /\ ResultsAreOfTheirList' /\ NothingForgotten
  <2>1. Carried(l, [n \in Nodes |-> Absent])
    BY DEF Carried
  <2>2. Replace(l, [n \in Nodes |-> Absent])
    BY <1>5 DEF ForgetList
  <2> QED
    BY <1>1, <2>1, <2>2, Replaced
<1>6. CASE List
  <2>1. run.list \in Lists
    BY <1>1, <1>6 DEF List, At, ListKnown
  <2>2. CASE UNCHANGED <<cache, ghosts>>
    BY <1>2, <2>2 DEF ghosts
  <2>3. ASSUME NEW body \in Bodies, Replace(run.list, Stored(run.list, body))
        PROVE  CacheTyped' /\ ResultsAreOfTheirList' /\ NothingForgotten
    <3>1. Carried(run.list, Stored(run.list, body))
      BY <1>1, <2>1, StoredIsCarried
    <3> QED
      BY <1>1, <2>1, <2>3, <3>1, Replaced
  <2> QED
    BY <1>6, <2>2, <2>3 DEF List
<1>7. CASE Reach
  <2>1. run.list \in Lists /\ run.nodes \subseteq Nodes
    BY <1>1, <1>7 DEF Reach, At, ListKnown, RunStates
  <2>2. Record(run.list, {n \in run.nodes : <<run.list, n>> \in NoAddress}, "reach")
        /\ Found(run.list, {n \in run.nodes : <<run.list, n>> \in NoAddress}, "reach")
        /\ UNCHANGED left
    BY <1>7 DEF Reach
  <2> QED
    BY <1>1, <2>1, <2>2, Recorded DEF Tests
<1>8. ASSUME NEW n \in Nodes, ProbeEnds(n)
      PROVE  CacheTyped' /\ ResultsAreOfTheirList' /\ NothingForgotten
  <2>1. run.list \in Lists /\ (At("delay") => engine = run.list)
    BY <1>1, <1>8 DEF ProbeEnds, Probing, At, ListKnown, EnginePcs
  <2>2. Record(run.list, {n}, Measured) /\ Found(run.list, {n}, Measured) /\ UNCHANGED left
    BY <1>8, <2>1 DEF ProbeEnds
  <2> QED
    BY <1>1, <2>1, <2>2, MeasuredIsATest, Recorded
<1>9. CASE Download
  <2>1. run.list \in Lists /\ engine = run.list
    BY <1>1, <1>9 DEF Download, At, ListKnown, EnginePcs
  <2> DEFINE n == CHOOSE m \in run.speed : \A o \in run.speed : o <= m
  <2>2. Record(run.list, {n} \cap Nodes, "speed") /\ Found(run.list, {n} \cap Nodes, "speed") /\ UNCHANGED left
    <3>1. Record(run.list, {n}, "speed") /\ Found(run.list, {n}, "speed") /\ UNCHANGED left
      BY <1>9, <2>1 DEF Download
    <3> HIDE DEF n
    <3> QED
      BY <1>1, <3>1 DEF Record, Found, Listed
  <2> QED
    BY <1>1, <2>1, <2>2, Recorded DEF Tests
<1>10. CASE UNCHANGED vars
  BY <1>2, <1>10 DEF vars, ghosts
<1> QED
  BY <1>3, <1>4, <1>5, <1>6, <1>7, <1>8, <1>9, <1>10 DEF Next, Aside, User, Work

-----------------------------------------------------------------------------
(* The run and its engine.                                                   *)

\* The variables of the run have their types.
RunTyped ==
    /\ page \in {"idle", "testing"} /\ asked \in Requests \cup {None}
    /\ events \in Seq({"error", "done"}) /\ owed \in Nat
    /\ run \in RunStates \cup {None}
    /\ probe \in [Nodes -> ProbeStates]
    /\ engine \in Lists \cup {None}
    /\ runs \in 0 .. MaxRuns /\ acts \in 0 .. MaxActs

\* A new run is a run.
LEMMA NewRun ==
    ASSUME NEW r \in Requests
    PROVE  [pc |-> "next", request |-> r, todo |-> r.lists, list |-> None, nodes |-> {}, speed |-> {}]
               \in RunStates
BY NodeMeasureAssumption DEF RunStates, Pcs

\* One more event is an event.
LEMMA ErrorTold == \A s \in Seq({"error", "done"}) : Append(s, "error") \in Seq({"error", "done"})
OBVIOUS

\* The steps that may tell of an error leave a queue of events.
LEMMA EventsTyped ==
    ASSUME RunTyped, StartMeasurer \/ StartCore PROVE events' \in Seq({"error", "done"})
<1>1. events \in Seq({"error", "done"})
  BY DEF RunTyped
<1>2. events' = events \/ events' = Append(events, "error")
  BY DEF StartMeasurer, StartCore, Tell
<1> QED
  BY <1>1, <1>2, ErrorTold

\* A run goes on with one of the lists it has still to do.
LEMMA NextListed ==
    ASSUME NEW r \in RunStates, NEW l \in r.todo
    PROVE  LET next == [r EXCEPT !.pc = "list", !.list = l, !.todo = @ \ {l}]
           IN  next \in RunStates /\ next.pc = "list" /\ next.list = l /\ l \in Lists
<1> DEFINE next == [r EXCEPT !.pc = "list", !.list = l, !.todo = @ \ {l}]
<1>1. l \in Lists
  BY DEF RunStates
<1>2. next \in RunStates
  BY <1>1 DEF RunStates, Pcs
<1>3. next.pc = "list" /\ next.list = l
  BY DEF RunStates
<1> QED
  BY <1>1, <1>2, <1>3

\* Of some nodes one is the first.
LEMMA FirstIsOne == \A S \in SUBSET Nodes : S # {} => First(S) \in S /\ \A m \in S : First(S) <= m
<1> SUFFICES ASSUME NEW S \in SUBSET Nodes, S # {} PROVE First(S) \in S /\ \A m \in S : First(S) <= m
  OBVIOUS
<1> DEFINE upTo == {1 .. n : n \in S}
<1>1. IsWellFoundedOn(StrictSubsetOrdering(Nodes), SUBSET Nodes)
  <2>1. IsFiniteSet(Nodes)
    BY NodeMeasureAssumption, FS_Interval DEF Nodes
  <2> QED
    BY <2>1, FS_FiniteSubsetsOfFinite, FS_StrictSubsetOrderingWellFounded, Zenon
<1>2. upTo \subseteq SUBSET Nodes /\ upTo # {}
  <2>1. ASSUME NEW n \in S PROVE 1 .. n \subseteq Nodes
    BY NodeMeasureAssumption DEF Nodes
  <2> QED
    BY <2>1, Zenon
<1>3. PICK shortest \in upTo : \A other \in upTo : ~(<<other, shortest>> \in StrictSubsetOrdering(Nodes))
  <2> HIDE DEF upTo
  <2> QED
    BY <1>1, <1>2, WFMin
<1>4. PICK n \in S : shortest = 1 .. n
  OBVIOUS
<1>5. ASSUME NEW m \in S, m < n PROVE FALSE
  <2>1. 1 .. m \in upTo /\ 1 .. m \subseteq 1 .. n /\ n \in 1 .. n /\ n \notin 1 .. m
    BY NodeMeasureAssumption, <1>5 DEF Nodes
  <2> QED
    BY <1>2, <1>3, <1>4, <2>1 DEF StrictSubsetOrdering
<1>6. \A m \in S : n <= m
  BY NodeMeasureAssumption, <1>5 DEF Nodes
<1> QED
  BY <1>6 DEF First

\* Every step keeps them so; a run knows its list, its engine is of it, and it stays to its end.
LEMMA RunStep ==
    ASSUME TypeOK, ListKnown, NoEngineIsLeft, [Next]_vars
    PROVE  RunTyped' /\ ListKnown' /\ NoEngineIsLeft' /\ (run' = None => run = None \/ Finish)
<1> DEFINE Goal == RunTyped' /\ ListKnown' /\ NoEngineIsLeft' /\ (run' = None => run = None \/ Finish)
<1>0. RunTyped
  BY DEF TypeOK, RunTyped
<1> USE <1>0, NodeMeasureAssumption, NoRunAssumption DEF ProbeStates, RunTyped, ListKnown, NoEngineIsLeft, RunStates, EnginePcs, Pcs, At, Goto
<1>1. ASSUME NEW r \in Requests, Press(r) PROVE Goal
  BY <1>1 DEF Press, vars, screen, ghosts
<1>2. ASSUME StartNodeTest PROVE Goal
  <2>1. asked \in Requests
    BY <1>2 DEF StartNodeTest
  <2>2. CASE running
    BY <1>2, <2>1, <2>2 DEF StartNodeTest
  <2>3. CASE ~running
    <3>1. run' \in RunStates /\ run'.pc = "next"
      BY <1>2, <2>1, <2>3, NewRun DEF StartNodeTest
    <3>2. engine = None /\ engine' = None
      BY <1>2, <2>3, <3>1 DEF StartNodeTest, TypeOK
    <3> QED
      BY <1>2, <2>1, <2>3, <3>1, <3>2 DEF StartNodeTest
  <2> QED
    BY <2>2, <2>3
<1>3. ASSUME CancelNodeTest PROVE Goal
  BY <1>3 DEF CancelNodeTest, vars, screen, ghosts
<1>4. ASSUME Hear PROVE Goal
  BY <1>4 DEF Hear, vars, screen, ghosts
<1>5. ASSUME EmitDone PROVE Goal
  BY <1>5 DEF EmitDone, vars, screen, ghosts
<1>6. ASSUME NEW l \in Lists, RefreshList(l) PROVE Goal
  BY <1>6 DEF RefreshList, vars, screen, ghosts
<1>7. ASSUME NEW l \in Lists, ForgetList(l) PROVE Goal
  BY <1>7 DEF ForgetList, vars, screen, ghosts
<1>8. ASSUME NextList PROVE Goal
  <2>1. CASE run' = [run EXCEPT !.pc = "finish"]
    BY <1>8, <2>1 DEF NextList, screen, ghosts
  <2>2. ASSUME NEW l \in run.todo, run' = [run EXCEPT !.pc = "list", !.list = l, !.todo = @ \ {l}]
        PROVE  Goal
    <3>1. run' \in RunStates /\ run'.pc = "list" /\ run'.list = l /\ l \in Lists
      BY <1>8, <2>2, NextListed DEF NextList
    <3> QED
      BY <1>8, <2>2, <3>1 DEF NextList, screen, ghosts
  <2> QED
    BY <1>8, <2>1, <2>2 DEF NextList
<1>9. ASSUME List PROVE Goal
  <2>1. run' \in RunStates /\ run'.pc \in {"next", "reach", "check"} /\ run'.list = run.list
    <3>1. ASSUME NEW S \in SUBSET Nodes, Begin(S)
          PROVE  run' \in RunStates /\ run'.pc \in {"next", "reach", "check"} /\ run'.list = run.list
      BY <1>9, <3>1 DEF List, Begin, Visible
    <3>2. Listed(run.list) \in SUBSET Nodes
      BY DEF Listed
    <3> QED
      BY <1>9, <3>1, <3>2 DEF List
  <2> QED
    BY <1>9, <2>1 DEF List, screen
<1>10. ASSUME Reach PROVE Goal
  BY <1>10 DEF Reach, vars, screen, ghosts
<1>11. ASSUME ProbesEnd PROVE Goal
  <2>1. run' \in RunStates /\ run'.pc \in {"check", "speed", "close"} /\ run'.list = run.list
        /\ (run'.pc = "check" <=> run.pc = "reaching")
    BY <1>11 DEF ProbesEnd, Probing
  <2>2. probe' \in [Nodes -> ProbeStates]
    BY <1>11 DEF ProbesEnd, NoProbes
  <2>3. engine' = engine /\ run # None
        /\ UNCHANGED <<page, asked, events, owed, runs, acts>>
    BY <1>11 DEF ProbesEnd, Probing, screen
  <2>4. run.pc = "reaching" \/ run.pc = "delay"
    BY <1>11 DEF ProbesEnd, Probing
  <2>5. RunTyped'
    BY <2>1, <2>2, <2>3
  <2>6. ListKnown'
    BY <2>1, <2>3, <2>4
  <2>7. NoEngineIsLeft'
    BY <2>1, <2>3, <2>4
  <2> QED
    BY <2>1, <2>5, <2>6, <2>7
<1>12. ASSUME Check PROVE Goal
  BY <1>12 DEF Check, vars, screen, ghosts
<1>13. ASSUME StartMeasurer PROVE Goal
  <2>1. run' \in RunStates /\ run'.list = run.list /\ run.list \in Lists
        /\ run'.pc \in {"next", "starting"}
        /\ engine' = IF run'.pc = "next" THEN engine ELSE run.list
    <3>1. run \in RunStates /\ run.pc = "start"
      BY <1>13 DEF StartMeasurer
    <3>2. run.list \in Lists
      BY <3>1
    <3>3. \E pc \in {"next", "starting"} :
            run' = [run EXCEPT !.pc = pc] /\ engine' = IF pc = "next" THEN engine ELSE run.list
      BY <1>13 DEF StartMeasurer, Tell
    <3>4. PICK pc \in {"next", "starting"} :
            run' = [run EXCEPT !.pc = pc] /\ engine' = IF pc = "next" THEN engine ELSE run.list
      BY <3>3
    <3>5. run' \in RunStates /\ run'.pc = pc /\ run'.list = run.list
      BY <3>1, <3>4
    <3> QED
      BY <3>2, <3>4, <3>5
  <2>2. engine = None
    BY <1>13 DEF StartMeasurer
  <2>3. events' \in {events, Append(events, "error")} /\ UNCHANGED <<page, asked, owed, probe, runs, acts>>
    BY <1>13 DEF StartMeasurer, Tell
  <2>4. events' \in Seq({"error", "done"})
    BY <1>0, <1>13, EventsTyped, Zenon
  <2>5. RunTyped'
    BY <2>1, <2>2, <2>3, <2>4
  <2>6. ListKnown'
    BY <2>1, <2>2, <2>3
  <2>7. NoEngineIsLeft'
    BY <2>1, <2>2, <2>3
  <2> QED
    BY <2>1, <2>5, <2>6, <2>7
<1>14. ASSUME StartCore PROVE Goal
  <2>1. run' \in RunStates /\ run'.list = run.list /\ run.list \in Lists
        /\ run'.pc \in {"next", "delay", "speed"}
        /\ engine' = IF run'.pc = "next" THEN None ELSE engine
    <3>1. run \in RunStates /\ run.pc = "starting"
      BY <1>14 DEF StartCore
    <3>2. run.list \in Lists
      BY <3>1
    <3>3. \E pc \in {"next", "delay", "speed"} :
            run' = [run EXCEPT !.pc = pc] /\ engine' = IF pc = "next" THEN None ELSE engine
      BY <1>14 DEF StartCore, Tell
    <3>4. PICK pc \in {"next", "delay", "speed"} :
            run' = [run EXCEPT !.pc = pc] /\ engine' = IF pc = "next" THEN None ELSE engine
      BY <3>3
    <3>5. run' \in RunStates /\ run'.pc = pc /\ run'.list = run.list
      BY <3>1, <3>4
    <3> QED
      BY <3>2, <3>4, <3>5
  <2>2. engine = run.list
    BY <1>14 DEF StartCore
  <2>3. events' \in {events, Append(events, "error")} /\ UNCHANGED <<page, asked, owed, runs, acts>>
    BY <1>14 DEF StartCore, Tell
  <2>4. probe' \in [Nodes -> ProbeStates]
    BY <1>14 DEF StartCore
  <2>5. events' \in Seq({"error", "done"})
    BY <1>0, <1>14, EventsTyped, Zenon
  <2>6. RunTyped'
    BY <2>1, <2>2, <2>3, <2>4, <2>5
  <2>7. ListKnown'
    BY <2>1, <2>2, <2>3, <2>4
  <2>8. NoEngineIsLeft'
    BY <2>1, <2>2, <2>3, <2>4
  <2> QED
    BY <2>1, <2>6, <2>7, <2>8
<1>15. ASSUME NextDownload PROVE Goal
  <2>1. run' \in RunStates /\ run'.pc \in {"close", "download"} /\ run'.list = run.list
    <3>1. CASE run' = [run EXCEPT !.pc = "close"]
      BY <1>15, <3>1 DEF NextDownload
    <3>2. CASE ~(SpeedTargets \subseteq run.speed)
               /\ run' = [run EXCEPT !.pc = "download", !.speed = @ \cup {First(SpeedTargets \ @)}]
      <4>1. run \in RunStates
        BY <1>15 DEF NextDownload
      <4>2. SpeedTargets \in SUBSET Nodes
        BY <4>1 DEF SpeedTargets
      <4>3. First(SpeedTargets \ run.speed) \in Nodes
        BY <3>2, <4>2, FirstIsOne
      <4> QED
        BY <1>15, <3>2, <4>1, <4>3 DEF NextDownload
    <3> QED
      BY <1>15, <3>1, <3>2 DEF NextDownload
  <2> QED
    BY <1>15, <2>1 DEF NextDownload, screen
<1>16. ASSUME Download PROVE Goal
  <2>1. run' \in RunStates /\ run'.pc = "speed" /\ run'.list = run.list /\ run.pc = "download"
    BY <1>16 DEF Download
  <2> QED
    BY <1>16, <2>1 DEF Download, screen
<1>17. ASSUME Close PROVE Goal
  BY <1>17 DEF Close, vars, screen, ghosts
<1>18. ASSUME Finish PROVE Goal
  BY <1>18 DEF Finish, vars, screen, ghosts
<1>19. ASSUME NEW n \in Nodes, ProbeStarts(n) PROVE Goal
  BY <1>19 DEF ProbeStarts, vars, screen, ghosts
<1>20. ASSUME NEW n \in Nodes, ProbeEnds(n) PROVE Goal
  BY <1>20 DEF ProbeEnds, vars, screen, ghosts
<1>21. ASSUME NEW n \in Nodes, ProbeGivesUp(n) PROVE Goal
  BY <1>21 DEF ProbeGivesUp, vars, screen, ghosts
<1>22. CASE UNCHANGED vars
  BY <1>22 DEF vars, vars, screen, ghosts
<1>23. ASSUME WriteBlocks PROVE Goal
  <2>1. UNCHANGED <<page, asked, events, owed, engine, runs, acts>>
    BY <1>23 DEF WriteBlocks, screen
  <2>2. CASE UNCHANGED run /\ \E n \in Nodes : probe' = [probe EXCEPT ![n] = "blocked"]
    BY <2>1, <2>2
  <2>3. CASE UNCHANGED probe /\ run.pc \in {"starting", "download", "close"} /\ run' = [run EXCEPT !.pc = "blocked"]
            /\ engine # None
    <3>1. run \in RunStates /\ run # None /\ run.list = engine
      BY <2>3
    <3>2. run' \in RunStates /\ run'.pc = "blocked" /\ run'.list = run.list /\ run' # None
      BY <2>3, <3>1
    <3> QED
      BY <2>1, <2>3, <3>1, <3>2
  <2> QED
    BY <1>23, <2>2, <2>3 DEF WriteBlocks, InState
<1> QED
  BY <1>23, <1>1, <1>2, <1>3, <1>4, <1>5, <1>6, <1>7, <1>8, <1>9, <1>10, <1>11, <1>12, <1>13, <1>14, <1>15, <1>16, <1>17, <1>18, <1>19, <1>20, <1>21, <1>22 DEF Next, User, Work

-----------------------------------------------------------------------------
(* What the page shows.                                                      *)

\* A run is under way while one is marked.
Flags ==
    /\ running \in BOOLEAN /\ cancelled \in BOOLEAN /\ erred \in BOOLEAN
    /\ running <=> run # None

\* Until an engine failed to start: a request, a run, the end it owes and its event follow one
\* another, and there is one of them at most.
OneAtATime ==
    ~erred => /\ page = "testing" <=> asked # None \/ running \/ owed > 0 \/ events # <<>>
              /\ asked # None => ~running
              /\ asked # None \/ running => owed = 0
              /\ asked # None \/ running \/ owed > 0 => events = <<>>
              /\ owed <= 1 /\ Len(events) <= 1

\* Every step keeps the flags and the order of events.
LEMMA PageStep ==
    ASSUME RunTyped, Flags, OneAtATime, NoEngineIsLeft, run' = None => run = None \/ Finish, [Next]_vars
    PROVE  Flags' /\ OneAtATime'
<1> DEFINE Goal == Flags' /\ OneAtATime'
<1> USE NodeMeasureAssumption, NoRunAssumption DEF Flags, OneAtATime
<1>0. events \in Seq({"error", "done"}) /\ owed \in Nat /\ page \in {"idle", "testing"}
  BY DEF RunTyped
<1>1. ASSUME UNCHANGED <<screen, running, cancelled, run>> PROVE Goal
  BY <1>1 DEF screen
<1>2. ASSUME UNCHANGED <<screen, running, cancelled>>, run # None, ~Finish PROVE Goal
  BY <1>2 DEF screen
<1>3. ASSUME NEW r \in Requests, Press(r) PROVE Goal
  BY <1>0, <1>3 DEF Press
<1>4. ASSUME StartNodeTest PROVE Goal
  <2>1. CASE running
    BY <1>0, <1>4, <2>1 DEF StartNodeTest
  <2>2. CASE ~running
    <3>1. asked \in Requests /\ run' # None
      BY <1>4, <2>2, NewRun DEF StartNodeTest, RunTyped
    <3> QED
      BY <1>0, <1>4, <2>2, <3>1 DEF StartNodeTest
  <2> QED
    BY <2>1, <2>2
<1>5. ASSUME CancelNodeTest PROVE Goal
  BY <1>5 DEF CancelNodeTest, screen
<1>6. ASSUME Hear PROVE Goal
  <2>1. events' \in Seq({"error", "done"}) /\ Len(events') = Len(events) - 1
    BY <1>0, <1>6 DEF Hear
  <2>2. ~erred => asked = None /\ ~running /\ owed = 0
    BY <1>0, <1>6 DEF Hear
  <2>3. ~erred => events' = <<>>
    BY <1>0, <2>1
  <2> QED
    BY <1>0, <1>6, <2>1, <2>2, <2>3 DEF Hear
<1>7. ASSUME EmitDone PROVE Goal
  <2>1. events' \in Seq({"error", "done"}) /\ Len(events') = Len(events) + 1 /\ events' # <<>>
    BY <1>0, <1>7 DEF EmitDone
  <2> QED
    BY <1>0, <1>7, <2>1 DEF EmitDone
<1>8. ASSUME StartMeasurer \/ StartCore PROVE Goal
  <2>1. UNCHANGED <<page, asked, owed, running, cancelled>> /\ run # None
        /\ (UNCHANGED <<events, erred>> \/ erred' = TRUE)
    BY <1>8 DEF StartMeasurer, StartCore, Tell, At
  <2>2. ~Finish
    BY <1>8 DEF StartMeasurer, StartCore, Finish, At
  <2>3. CASE UNCHANGED <<events, erred>>
    BY <1>2, <2>1, <2>2, <2>3 DEF screen
  <2>4. CASE erred' = TRUE
    <3>1. run' # None /\ running' = running /\ cancelled' = cancelled
      BY <2>1, <2>2
    <3>2. erred' \in BOOLEAN
      BY <2>4
    <3>3. running' \in BOOLEAN /\ cancelled' \in BOOLEAN /\ (running' <=> run' # None)
      <4>1. running <=> run # None
        OBVIOUS
      <4> QED
        BY <2>1, <3>1, <4>1, Zenon
    <3>4. OneAtATime'
      BY <2>4
    <3> QED
      BY <3>2, <3>3, <3>4, Zenon
  <2> QED
    BY <2>1, <2>3, <2>4
<1>9. ASSUME Finish PROVE Goal
  <2>1. running /\ running' = FALSE /\ run' = None /\ owed' = owed + 1
        /\ UNCHANGED <<page, asked, events, erred, cancelled>>
    BY <1>9 DEF Finish
  <2>2. ~erred => page = "testing" /\ asked = None /\ owed = 0 /\ events = <<>>
    BY <1>0, <2>1
  <2>3. Flags'
    BY <2>1, Zenon
  <2>4. OneAtATime'
    BY <1>0, <2>1, <2>2
  <2> QED
    BY <2>3, <2>4
<1>10. ASSUME \/ NextList \/ List \/ Reach \/ ProbesEnd \/ Check \/ NextDownload \/ Download \/ Close
              \/ \E n \in Nodes : ProbeStarts(n) \/ ProbeEnds(n) \/ ProbeGivesUp(n)
       PROVE  Goal
  <2>1. UNCHANGED <<screen, running, cancelled>> /\ run # None
    BY <1>10 DEF NextList, List, Reach, ProbesEnd, Check, NextDownload, Download, Close, ProbeStarts,
       ProbeEnds, ProbeGivesUp, At, Probing
  <2>2. ~Finish
    BY <1>10, <2>1 DEF Finish, Flags, screen
  <2> QED
    BY <1>2, <2>1, <2>2
<1>11. ASSUME NEW l \in Lists, RefreshList(l) \/ ForgetList(l) PROVE Goal
  BY <1>1, <1>11 DEF RefreshList, ForgetList
<1>12. CASE UNCHANGED vars
  BY <1>1, <1>12 DEF vars
<1>13. ASSUME WriteBlocks PROVE Goal
  <2>1. UNCHANGED <<screen, running, cancelled>> /\ (UNCHANGED run \/ (run # None /\ run' # None))
    <3>1. CASE UNCHANGED run
      BY <1>13, <3>1 DEF WriteBlocks
    <3>2. CASE run' = [run EXCEPT !.pc = "blocked"] /\ run.pc \in {"starting", "download", "close"}
               /\ engine # None
      <4>1. run # None /\ run \in RunStates
        BY <3>2 DEF NoEngineIsLeft, RunTyped
      <4>2. run' \in RunStates
        BY <3>2, <4>1 DEF RunStates, Pcs
      <4> QED
        BY <1>13, <4>1, <4>2 DEF WriteBlocks
    <3> QED
      BY <1>13, <3>1, <3>2 DEF WriteBlocks, Goto
  <2> QED
    BY <1>1, <2>1 DEF screen
<1> QED
  BY <1>3, <1>4, <1>5, <1>6, <1>7, <1>8, <1>9, <1>10, <1>11, <1>12, <1>13 DEF Next, User, Work


-----------------------------------------------------------------------------
(* How far the run has come.                                                 *)

\* A node of the run's list is still there, or it left meanwhile; it has a result of a test,
\* or it left.
Present(n) == <<run.list, n>> \in left \/ cache[run.list][n] # Absent
Covered(n, t) == <<run.list, n>> \in left \/ (cache[run.list][n] # Absent /\ t \in cache[run.list][n])

Downloading == {"speed", "download"}

\* What a run that is not cancelled has behind it at each place.
ProbesDone ==
    /\ run.pc \notin {"next", "list", "finish"} => \A n \in run.nodes : Present(n)
    /\ run.pc = "reaching" => \A n \in run.nodes : probe[n] \in {"none", "done"} => Covered(n, "reach")
    /\ run.pc \in EnginePcs \cup {"check", "start"} /\ "reach" \in run.request.tests =>
          \A n \in run.nodes : Covered(n, "reach")
    /\ run.pc = "delay" => \A n \in run.nodes : probe[n] \in {"none", "done"} => Covered(n, "delay")
    /\ run.pc \in Downloading \cup {"close"} /\ "delay" \in run.request.tests =>
          \A n \in run.nodes : Covered(n, "delay")

\* Downloads go from the first node on, and all but the one in hand are done.
SpeedsDone ==
    /\ run.pc \notin Downloading \cup {"close", "blocked"} => run.speed = {}
    /\ run.pc \in Downloading => /\ run.speed \subseteq SpeedTargets
                                 /\ \A m \in run.speed, o \in SpeedTargets \ run.speed : m < o
    /\ run.pc = "speed" => \A n \in run.speed : Covered(n, "speed")
    /\ run.pc = "download" => \E last \in run.speed :
          /\ \A o \in run.speed : o <= last
          /\ \A n \in run.speed \ {last} : Covered(n, "speed")
    /\ run.pc = "close" /\ "speed" \in run.request.tests => \A n \in SpeedTargets : Covered(n, "speed")

Progress == run # None /\ ~cancelled => ProbesDone /\ SpeedsDone

\* What leaves a list is noted.
LeavingIsNoted ==
    /\ left \subseteq left'
    /\ \A l \in Lists, n \in Nodes : cache[l][n] # Absent /\ cache'[l][n] = Absent => <<l, n>> \in left'

\* A list is replaced: what is gone is noted.
LEMMA ReplacedIsNoted ==
    ASSUME CacheTyped, NEW l \in Lists, NEW nodes, Replace(l, nodes) PROVE LeavingIsNoted
BY DEF Replace, LeavingIsNoted, CacheTyped, Listed

\* A record takes nothing out of a list.
LEMMA RecordedIsNoted ==
    ASSUME CacheTyped, NEW l, NEW S, NEW test \in Tests, Record(l, S, test), UNCHANGED left
    PROVE  LeavingIsNoted
<1>1. ASSUME NEW k \in Lists, NEW n \in Nodes
      PROVE  cache'[k][n] = IF k = l /\ n \in S /\ cache[k][n] # Absent
                            THEN cache[k][n] \cup {test} ELSE cache[k][n]
  BY DEF Record, CacheTyped
<1>2. ASSUME NEW k \in Lists, NEW n \in Nodes, cache[k][n] # Absent PROVE cache'[k][n] # Absent
  <2>1. cache[k][n] \in SUBSET Tests
    BY <1>2 DEF CacheTyped
  <2>2. cache'[k][n] \in SUBSET Tests
    BY <1>1, <2>1
  <2> QED
    BY <2>2, NodeMeasureAssumption
<1> QED
  BY <1>2 DEF LeavingIsNoted

\* Every step notes what leaves, but the beginning of a run.
LEMMA Noted ==
    ASSUME TypeOK, ListKnown, [Next]_vars, ~(StartNodeTest /\ ~running) PROVE LeavingIsNoted
<1>1. CacheTyped
  BY DEF TypeOK, CacheTyped
<1>2. ASSUME UNCHANGED <<cache, left>> PROVE LeavingIsNoted
  BY <1>2 DEF LeavingIsNoted
<1>3. CASE Aside
  BY <1>2, <1>3 DEF Aside, ghosts, Press, StartNodeTest, CancelNodeTest, Hear, EmitDone, WriteBlocks, NextList,
     ProbesEnd, Check, StartMeasurer, StartCore, NextDownload, Close, Finish, ProbeStarts, ProbeGivesUp
<1>4. ASSUME NEW l \in Lists, RefreshList(l) \/ ForgetList(l) PROVE LeavingIsNoted
  BY <1>1, <1>4, ReplacedIsNoted DEF RefreshList, ForgetList
<1>5. CASE List
  <2>1. CASE UNCHANGED <<cache, ghosts>>
    BY <1>2, <2>1 DEF ghosts
  <2>2. run.list \in Lists
    BY <1>5 DEF List, At, ListKnown
  <2>3. ASSUME NEW body \in Bodies, Replace(run.list, Stored(run.list, body)) PROVE LeavingIsNoted
    BY <1>1, <2>2, <2>3, ReplacedIsNoted
  <2> QED
    BY <1>5, <2>1, <2>3 DEF List
<1>6. CASE Reach
  BY <1>1, <1>6, RecordedIsNoted DEF Reach, Tests
<1>7. ASSUME NEW n \in Nodes, ProbeEnds(n) PROVE LeavingIsNoted
  BY <1>1, <1>7, RecordedIsNoted, MeasuredIsATest DEF ProbeEnds
<1>8. CASE Download
  <2> DEFINE n == CHOOSE m \in run.speed : \A o \in run.speed : o <= m
  <2>1. Record(run.list, {n}, "speed") /\ UNCHANGED left
    BY <1>8 DEF Download
  <2> HIDE DEF n
  <2> QED
    BY <1>1, <2>1, RecordedIsNoted DEF Tests
<1>9. CASE UNCHANGED vars
  BY <1>2, <1>9 DEF vars, ghosts
<1> QED
  BY <1>3, <1>4, <1>5, <1>6, <1>7, <1>8, <1>9 DEF Next, Aside, User, Work

\* So what a run has covered stays covered.
LEMMA CoveredStays ==
    ASSUME LeavingIsNoted, NothingForgotten, run.list \in Lists, run'.list = run.list, NEW n \in Nodes
    PROVE  /\ Present(n) => Present(n)'
           /\ \A t : Covered(n, t) => Covered(n, t)'
BY DEF LeavingIsNoted, NothingForgotten, Present, Covered

\* A step that records covers the nodes it records.
LEMMA RecordCovers ==
    ASSUME CacheTyped, run.list \in Lists, run'.list = run.list, NEW S, NEW test \in Tests,
           Record(run.list, S, test), UNCHANGED left, NEW n \in Nodes, n \in S, Present(n)
    PROVE  Covered(n, test)'
<1>1. cache'[run.list][n] = IF cache[run.list][n] # Absent
                            THEN cache[run.list][n] \cup {test} ELSE cache[run.list][n]
  BY DEF Record, CacheTyped
<1>2. CASE cache[run.list][n] # Absent
  <2>1. cache[run.list][n] \in SUBSET Tests
    BY <1>2 DEF CacheTyped
  <2>2. cache'[run.list][n] \in SUBSET Tests /\ test \in cache'[run.list][n]
    BY <1>1, <1>2, <2>1
  <2>3. cache'[run.list][n] # Absent
    BY <2>2, NodeMeasureAssumption
  <2> QED
    BY <2>2, <2>3 DEF Covered
<1> QED
  BY <1>2 DEF Present, Covered

\* A run that goes on was there before, and not cancelled.
LEMMA GoesOn ==
    ASSUME TypeOK, NoEngineIsLeft, [Next]_vars, ~(StartNodeTest /\ ~running), run' # None, ~cancelled'
    PROVE  run # None /\ ~cancelled
<1>1. run # None
  BY DEF NoEngineIsLeft, WriteBlocks, Next, User, Work, vars, Press, StartNodeTest, CancelNodeTest, Hear, EmitDone, RefreshList, ForgetList,
     NextList, List, Reach, ProbesEnd, Check, StartMeasurer, StartCore, NextDownload, Download, Close,
     Finish, ProbeStarts, ProbeEnds, ProbeGivesUp, At, Probing
<1>2. ~cancelled
  BY DEF WriteBlocks, Next, User, Work, vars, Press, StartNodeTest, CancelNodeTest, Hear, EmitDone, RefreshList, ForgetList,
     NextList, List, Reach, ProbesEnd, Check, StartMeasurer, StartCore, NextDownload, Download, Close,
     Finish, ProbeStarts, ProbeEnds, ProbeGivesUp
<1> QED
  BY <1>1, <1>2

\* Steps of others than the run.
Others ==
    \/ \E r \in Requests : Press(r)
    \/ StartNodeTest \/ CancelNodeTest \/ Hear \/ EmitDone
    \/ \E l \in Lists : RefreshList(l) \/ ForgetList(l)
    \/ UNCHANGED vars

\* They leave the run where it is.
LEMMA OthersAside ==
    ASSUME Others, ~(StartNodeTest /\ ~running) PROVE UNCHANGED <<run, probe>>
BY DEF Others, Press, StartNodeTest, CancelNodeTest, Hear, EmitDone, RefreshList, ForgetList, vars

\* What a run that goes on has behind it of dials and delays.
LEMMA ProbesStep ==
    ASSUME TypeOK, ListKnown, run # None, run' # None, ~cancelled, ~cancelled', ProbesDone, [Next]_vars,
           ~(StartNodeTest /\ ~running), LeavingIsNoted, NothingForgotten
    PROVE  ProbesDone'
<1>1. run \in RunStates /\ CacheTyped /\ probe \in [Nodes -> ProbeStates]
  BY DEF TypeOK, CacheTyped
<1>2. run.nodes \subseteq Nodes /\ (run.pc \notin {"next", "finish"} => run.list \in Lists)
  BY <1>1 DEF RunStates, ListKnown
<1>3. ASSUME run.pc \notin {"next", "finish"}, run'.list = run.list, NEW n \in Nodes
      PROVE  /\ Present(n) => Present(n)'
             /\ \A t : Covered(n, t) => Covered(n, t)'
  BY <1>2, <1>3, CoveredStays
<1>4. ASSUME run'.pc \in {"next", "list", "finish"} PROVE ProbesDone'
  BY <1>4 DEF ProbesDone, EnginePcs, Downloading
<1>5. ASSUME run.pc \notin {"next", "list", "finish"}, run'.list = run.list, run'.nodes = run.nodes
      PROVE  \A n \in run'.nodes : Present(n)'
  BY <1>2, <1>3, <1>5 DEF ProbesDone
<1>6. ASSUME run.pc \notin {"next", "finish"}, run'.list = run.list, run'.nodes = run.nodes, NEW t,
             \A n \in run.nodes : Covered(n, t)
      PROVE  \A n \in run'.nodes : Covered(n, t)'
  BY <1>2, <1>3, <1>6
<1>7. CASE UNCHANGED <<run, probe>>
  <2>1. CASE run.pc \in {"next", "list", "finish"}
    BY <1>4, <1>7, <2>1
  <2>2. CASE run.pc \notin {"next", "list", "finish"}
    BY <1>2, <1>3, <1>7, <2>2 DEF ProbesDone
  <2> QED
    BY <2>1, <2>2
<1>8. CASE NextList
  BY <1>1, <1>4, <1>8 DEF NextList, Goto, At, RunStates
<1>9. CASE List
  <2>1. CASE run' = [run EXCEPT !.pc = "next"]
    BY <1>1, <1>4, <2>1 DEF RunStates
  <2>2. ASSUME NEW S \in SUBSET Nodes, Begin(S), \A n \in S : cache'[run.list][n] # Absent
        PROVE  ProbesDone'
    <3>1. /\ run'.pc \in {"next", "reach", "check"} /\ run'.list = run.list /\ run'.nodes \subseteq S
          /\ run'.request = run.request
          /\ run'.pc = "check" => "reach" \notin run.request.tests
      BY <1>1, <2>2 DEF Begin, RunStates, Visible, Asked
    <3>2. \A n \in run'.nodes : Present(n)'
      BY <2>2, <3>1 DEF Present
    <3> QED
      BY <3>1, <3>2 DEF ProbesDone, EnginePcs, Downloading
  <2>3. ASSUME Begin(Listed(run.list)), UNCHANGED cache PROVE ProbesDone'
    <3>1. Listed(run.list) \in SUBSET Nodes /\ \A n \in Listed(run.list) : cache'[run.list][n] # Absent
      BY <2>3 DEF Listed
    <3> QED
      BY <2>2, <2>3, <3>1
  <2>4. ASSUME NEW body \in Bodies, Replace(run.list, Stored(run.list, body)), Begin(body) PROVE ProbesDone'
    <3>1. body \in SUBSET Nodes
      BY NodeMeasureAssumption
    <3>2. run.list \in Lists
      BY <1>2, <1>9 DEF List, At
    <3>3. cache'[run.list] = Stored(run.list, body)
      BY <1>1, <2>4, <3>2 DEF Replace, CacheTyped
    <3>4. ASSUME NEW n \in body PROVE Stored(run.list, body)[n] # Absent
      <4>1. Stored(run.list, body)[n] = IF cache[run.list][n] = Absent THEN {} ELSE cache[run.list][n]
        BY <3>1 DEF Stored
      <4>2. {} # Absent
        BY NodeMeasureAssumption
      <4> QED
        BY <4>1, <4>2
    <3> QED
      BY <2>2, <2>4, <3>1, <3>3, <3>4
  <2> QED
    BY <1>9, <2>1, <2>3, <2>4 DEF List, Goto
<1>10. CASE Reach
  <2> DEFINE unreachable == {n \in run.nodes : <<run.list, n>> \in NoAddress}
  <2>1. /\ run.pc = "reach" /\ run'.pc = "reaching" /\ run'.list = run.list /\ run'.nodes = run.nodes
        /\ Record(run.list, unreachable, "reach") /\ UNCHANGED left
        /\ probe' = [n \in Nodes |-> IF n \in run.nodes \ unreachable THEN "waiting" ELSE "none"]
    BY <1>1, <1>10 DEF Reach, At, Goto, RunStates
  <2>2. \A n \in run'.nodes : Present(n)'
    BY <1>5, <2>1
  <2>3. ASSUME NEW n \in run'.nodes, probe'[n] \in {"none", "done"} PROVE Covered(n, "reach")'
    <3>1. n \in Nodes /\ n \in unreachable
      BY <1>2, <2>1, <2>3
    <3>2. Present(n) /\ run.list \in Lists
      BY <1>2, <2>1, <3>1 DEF ProbesDone
    <3> HIDE DEF unreachable
    <3> QED
      BY <1>1, <2>1, <3>1, <3>2, RecordCovers DEF Tests
  <2> QED
    BY <2>1, <2>2, <2>3 DEF ProbesDone, EnginePcs, Downloading
<1>11. ASSUME NEW n \in Nodes, ProbeStarts(n) PROVE ProbesDone'
  <2>1. UNCHANGED run /\ run.pc \in {"reaching", "delay"} /\ probe' = [probe EXCEPT ![n] = "busy"]
    BY <1>11 DEF ProbeStarts, Probing, At
  <2>2. \A m \in Nodes : probe'[m] \in {"none", "done"} => probe[m] \in {"none", "done"}
    BY <1>1, <2>1
  <2> QED
    BY <1>2, <1>3, <2>1, <2>2 DEF ProbesDone, EnginePcs, Downloading
<1>12. ASSUME NEW n \in Nodes, ProbeEnds(n) PROVE ProbesDone'
  <2>1. /\ UNCHANGED <<run, left>> /\ run.pc \in {"reaching", "delay"} /\ probe' = [probe EXCEPT ![n] = "done"]
        /\ Record(run.list, {n}, Measured) /\ Measured = IF run.pc = "delay" THEN "delay" ELSE "reach"
    BY <1>12 DEF ProbeEnds, Probing, At, Measured
  <2>2. \A m \in Nodes : m # n /\ probe'[m] \in {"none", "done"} => probe[m] \in {"none", "done"}
    BY <1>1, <2>1
  <2>3. run.list \in Lists /\ run'.list = run.list /\ (n \in run.nodes => Present(n))
    BY <1>2, <2>1 DEF ProbesDone
  <2>4. CASE run.pc = "reaching"
    <3>1. Record(run.list, {n}, "reach")
      BY <2>1, <2>4
    <3>2. n \in run.nodes => Covered(n, "reach")'
      BY <1>1, <2>1, <2>3, <3>1, RecordCovers DEF Tests
    <3>3. \A m \in run.nodes : probe'[m] \in {"none", "done"} => Covered(m, "reach")'
      BY <1>2, <1>3, <2>2, <2>3, <2>4, <3>2 DEF ProbesDone
    <3> QED
      BY <1>5, <2>1, <2>4, <3>3 DEF ProbesDone, EnginePcs, Downloading
  <2>5. CASE run.pc = "delay"
    <3>1. Record(run.list, {n}, "delay")
      BY <2>1, <2>5
    <3>2. n \in run.nodes => Covered(n, "delay")'
      BY <1>1, <2>1, <2>3, <3>1, RecordCovers DEF Tests
    <3>3. \A m \in run.nodes : probe'[m] \in {"none", "done"} => Covered(m, "delay")'
      BY <1>2, <1>3, <2>2, <2>3, <2>5, <3>2 DEF ProbesDone
    <3>4. "reach" \in run.request.tests => \A m \in run'.nodes : Covered(m, "reach")'
      BY <1>6, <2>1, <2>3, <2>5 DEF ProbesDone, EnginePcs
    <3> QED
      BY <1>5, <2>1, <2>5, <3>3, <3>4 DEF ProbesDone, EnginePcs, Downloading
  <2> QED
    BY <2>1, <2>4, <2>5
<1>13. ASSUME NEW n \in Nodes, ProbeGivesUp(n) PROVE ProbesDone'
  BY <1>13 DEF ProbeGivesUp
<1>14. CASE ProbesEnd
  <2>1. /\ run.pc \in {"reaching", "delay"} /\ run'.list = run.list /\ run'.nodes = run.nodes
        /\ run'.request = run.request
        /\ run'.pc \in IF run.pc = "reaching" THEN {"check"} ELSE {"speed", "close"}
    BY <1>1, <1>14 DEF ProbesEnd, Probing, At, Goto, RunStates
  <2>2. \A m \in Nodes : probe[m] \in {"none", "done"}
    BY <1>14 DEF ProbesEnd
  <2>3. \A m \in run.nodes : run.pc = "reaching" => Covered(m, "reach")
    BY <1>2, <2>2 DEF ProbesDone
  <2>4. \A m \in run.nodes : run.pc = "delay" => Covered(m, "delay")
    BY <1>2, <2>2 DEF ProbesDone
  <2>5. run.pc = "delay" /\ "reach" \in run.request.tests => \A m \in run.nodes : Covered(m, "reach")
    BY DEF ProbesDone, EnginePcs
  <2>6. \A m \in run'.nodes : Present(m)'
    BY <1>5, <2>1
  <2>7. CASE run.pc = "reaching"
    BY <1>6, <2>1, <2>3, <2>6, <2>7 DEF ProbesDone, EnginePcs, Downloading
  <2>8. CASE run.pc = "delay"
    BY <1>6, <2>1, <2>4, <2>5, <2>6, <2>8 DEF ProbesDone, EnginePcs, Downloading
  <2> QED
    BY <2>1, <2>7, <2>8
<1>15. CASE Check \/ StartMeasurer
  <2>1. /\ run.pc \in {"check", "start"} /\ run'.list = run.list /\ run'.nodes = run.nodes
        /\ run'.request = run.request /\ run'.pc \in {"next", "start", "starting"}
    BY <1>1, <1>15 DEF Check, StartMeasurer, Tell, At, Goto, RunStates
  <2> QED
    BY <1>4, <1>5, <1>6, <2>1 DEF ProbesDone, EnginePcs, Downloading
<1>16. CASE StartCore
  <2>1. /\ run.pc = "starting" /\ run'.list = run.list /\ run'.nodes = run.nodes
        /\ run'.request = run.request /\ run'.pc \in {"next", "delay", "speed"}
        /\ run'.pc = "speed" => "delay" \notin run.request.tests
        /\ run'.pc = "delay" => probe' = [n \in Nodes |-> IF n \in run.nodes THEN "waiting" ELSE "none"]
    BY <1>1, <1>16 DEF StartCore, Tell, At, Goto, Asked, RunStates
  <2>2. run'.pc = "delay" => \A n \in run'.nodes : probe'[n] \notin {"none", "done"}
    BY <1>2, <2>1
  <2> QED
    BY <1>4, <1>5, <1>6, <2>1, <2>2 DEF ProbesDone, EnginePcs, Downloading
<1>17. CASE NextDownload \/ Download
  <2>1. /\ run.pc \in Downloading /\ run'.list = run.list /\ run'.nodes = run.nodes
        /\ run'.request = run.request /\ run'.pc \in Downloading \cup {"close"}
    <3>1. CASE NextDownload
      <4>1. run.pc = "speed"
            /\ \/ run' = [run EXCEPT !.pc = "close"]
               \/ run' = [run EXCEPT !.pc = "download", !.speed = @ \cup {First(SpeedTargets \ @)}]
        BY <3>1 DEF NextDownload, At, Goto
      <4> DEFINE speed == run.speed \cup {First(SpeedTargets \ run.speed)}
      <4>2. run' = [run EXCEPT !.pc = "close"] \/ run' = [run EXCEPT !.pc = "download", !.speed = speed]
        BY <4>1
      <4> HIDE DEF speed
      <4> QED
        BY <1>1, <4>1, <4>2 DEF RunStates, Downloading
    <3>2. CASE Download
      BY <1>1, <3>2 DEF Download, At, Goto, RunStates, Downloading
    <3> QED
      BY <1>17, <3>1, <3>2
  <2> QED
    BY <1>5, <1>6, <2>1 DEF ProbesDone, EnginePcs, Downloading
<1>18. CASE Close
  BY <1>1, <1>4, <1>18 DEF Close, RunStates
<1>19. CASE Finish
  BY <1>19 DEF Finish
<1>20. CASE Others
  BY <1>7, <1>20, OthersAside
<1>21. CASE WriteBlocks
  <2>1. CASE \E n \in Nodes : UNCHANGED run /\ probe' = [probe EXCEPT ![n] = "blocked"]
    <3>1. \A m \in Nodes : probe'[m] \in {"none", "done"} => probe[m] \in {"none", "done"}
      BY <1>1, <2>1
    <3>2. CASE run.pc \in {"next", "list", "finish"}
      BY <1>4, <2>1, <3>2
    <3>3. CASE run.pc \notin {"next", "list", "finish"}
      BY <1>2, <1>3, <2>1, <3>1, <3>3 DEF ProbesDone
    <3> QED
      BY <3>2, <3>3
  <2>2. CASE run.pc \in {"starting", "download", "close"} /\ run' = [run EXCEPT !.pc = "blocked"]
    <3>1. run'.list = run.list /\ run'.nodes = run.nodes /\ run'.request = run.request /\ run'.pc = "blocked"
      BY <1>1, <2>2 DEF RunStates
    <3> QED
      BY <1>5, <1>6, <2>2, <3>1 DEF ProbesDone, EnginePcs, Downloading
  <2> QED
    BY <1>21, <2>1, <2>2 DEF WriteBlocks, Goto, InState
<1> QED
  BY <1>21, <1>8, <1>9, <1>10, <1>11, <1>12, <1>13, <1>14, <1>15, <1>16, <1>17, <1>18, <1>19, <1>20
     DEF Next, User, Work, Others

\* What it has behind it of downloads.
LEMMA SpeedsStep ==
    ASSUME TypeOK, ListKnown, run # None, run' # None, ~cancelled, ~cancelled', ProbesDone, SpeedsDone,
           [Next]_vars, ~(StartNodeTest /\ ~running), LeavingIsNoted, NothingForgotten
    PROVE  SpeedsDone'
<1>1. run \in RunStates /\ CacheTyped
  BY DEF TypeOK, CacheTyped
<1>2. run.nodes \subseteq Nodes /\ (run.pc \notin {"next", "finish"} => run.list \in Lists)
      /\ SpeedTargets \subseteq run.nodes
  BY <1>1 DEF RunStates, ListKnown, SpeedTargets
<1>3. ASSUME run.pc \notin {"next", "finish"}, run'.list = run.list, NEW n \in Nodes
      PROVE  Covered(n, "speed") => Covered(n, "speed")'
  BY <1>2, <1>3, CoveredStays
<1>4. ASSUME run'.nodes = run.nodes PROVE SpeedTargets' = SpeedTargets
  BY <1>4 DEF SpeedTargets
<1>5. ASSUME run'.pc \notin Downloading \cup {"close", "blocked"}, run'.speed = {} PROVE SpeedsDone'
  BY <1>5 DEF SpeedsDone, Downloading
<1>6. ASSUME run.pc \notin Downloading \cup {"close", "blocked"},
             run'.pc \notin Downloading \cup {"close", "blocked"}, run'.speed = run.speed
      PROVE  SpeedsDone'
  BY <1>5, <1>6 DEF SpeedsDone
<1>7. ASSUME run.pc \notin Downloading \cup {"close", "blocked"}, run'.speed = run.speed, run'.pc = "speed"
      PROVE  SpeedsDone'
  BY <1>7 DEF SpeedsDone, Downloading
<1>8. CASE UNCHANGED run
  <2>1. SpeedTargets' = SpeedTargets /\ run'.list = run.list
    BY <1>4, <1>8
  <2>2. CASE run.pc \notin Downloading \cup {"close", "blocked"}
    BY <1>6, <1>8, <2>2
  <2>6. CASE run.pc = "blocked"
    BY <1>8, <2>6 DEF SpeedsDone, Downloading
  <2>3. CASE run.pc = "speed"
    BY <1>2, <1>3, <1>8, <2>1, <2>3 DEF SpeedsDone, Downloading
  <2>4. CASE run.pc = "download"
    <3>1. PICK last \in run.speed : /\ \A o \in run.speed : o <= last
                                    /\ \A n \in run.speed \ {last} : Covered(n, "speed")
      BY <2>4 DEF SpeedsDone
    <3>2. run.speed \subseteq Nodes
      BY <1>1 DEF RunStates
    <3>3. \A n \in run.speed \ {last} : Covered(n, "speed")'
      BY <1>3, <2>1, <2>4, <3>1, <3>2
    <3>4. run'.speed = run.speed /\ run'.pc = "download"
      BY <1>8, <2>4
    <3>5. run.speed \subseteq SpeedTargets /\ \A m \in run.speed, o \in SpeedTargets \ run.speed : m < o
      BY <2>4 DEF SpeedsDone, Downloading
    <3> QED
      BY <2>1, <3>1, <3>3, <3>4, <3>5 DEF SpeedsDone, Downloading
  <2>5. CASE run.pc = "close"
    BY <1>2, <1>3, <1>8, <2>1, <2>5 DEF SpeedsDone, Downloading
  <2> QED
    BY <2>2, <2>3, <2>4, <2>5, <2>6 DEF Downloading
<1>9. CASE NextList \/ List \/ Reach \/ Check \/ StartMeasurer
  <2>1. run.pc \notin Downloading \cup {"close", "blocked"} /\ run'.pc \notin Downloading \cup {"close", "blocked"}
        /\ run'.speed = run.speed
    <3>1. CASE NextList
      BY <1>1, <3>1 DEF NextList, Goto, At, RunStates, Downloading
    <3>2. CASE List
      <4>1. run.pc = "list" /\ (Goto("next") \/ \E S \in SUBSET Nodes : Begin(S))
        <5>1. \A body \in Bodies : body \in SUBSET Nodes
          BY NodeMeasureAssumption
        <5>2. Listed(run.list) \in SUBSET Nodes
          BY DEF Listed
        <5> QED
          BY <3>2, <5>1, <5>2 DEF List, At
      <4>2. CASE Goto("next")
        BY <1>1, <4>1, <4>2 DEF Goto, RunStates, Downloading
      <4>3. ASSUME NEW S \in SUBSET Nodes, Begin(S)
            PROVE  run'.pc \in {"next", "reach", "check"} /\ run'.speed = run.speed
        BY <1>1, <4>3 DEF Begin, RunStates
      <4> QED
        BY <4>1, <4>2, <4>3 DEF Downloading
    <3>3. CASE Reach
      BY <1>1, <3>3 DEF Reach, At, Goto, RunStates, Downloading
    <3>4. CASE Check
      BY <1>1, <3>4 DEF Check, At, Goto, RunStates, Downloading
    <3>5. CASE StartMeasurer
      BY <1>1, <3>5 DEF StartMeasurer, Tell, At, Goto, RunStates, Downloading
    <3> QED
      BY <1>9, <3>1, <3>2, <3>3, <3>4, <3>5
  <2> QED
    BY <1>6, <2>1
<1>10. CASE StartCore
  <2>1. run.pc = "starting" /\ run'.pc \in {"next", "delay", "speed"} /\ run'.speed = run.speed
    BY <1>1, <1>10 DEF StartCore, Tell, At, Goto, RunStates
  <2> QED
    BY <1>6, <1>7, <2>1 DEF Downloading
<1>11. CASE ProbesEnd
  <2>1. /\ run.pc \in {"reaching", "delay"} /\ run'.pc \in {"check", "speed", "close"}
        /\ run'.speed = run.speed /\ run'.request = run.request
        /\ run'.pc = "close" => "speed" \notin run.request.tests
    BY <1>1, <1>11 DEF ProbesEnd, Probing, At, Goto, Asked, RunStates
  <2>2. CASE run'.pc = "close"
    BY <2>1, <2>2 DEF SpeedsDone, Downloading
  <2> QED
    BY <1>6, <1>7, <2>1, <2>2 DEF Downloading
<1>12. CASE NextDownload
  <2>1. /\ run.pc = "speed" /\ run.speed \subseteq SpeedTargets
        /\ \A m \in run.speed, o \in SpeedTargets \ run.speed : m < o
        /\ \A n \in run.speed : Covered(n, "speed")
    BY <1>12 DEF NextDownload, At, SpeedsDone, Downloading
  <2>2. CASE SpeedTargets \subseteq run.speed
    <3>1. run' = [run EXCEPT !.pc = "close"]
      BY <1>12, <2>2 DEF NextDownload, Goto
    <3>2. run'.pc = "close" /\ run'.list = run.list /\ run'.nodes = run.nodes
      BY <1>1, <3>1 DEF RunStates
    <3>3. \A n \in SpeedTargets : Covered(n, "speed")'
      BY <1>2, <1>3, <2>1, <2>2, <3>2
    <3> QED
      BY <1>4, <3>2, <3>3 DEF SpeedsDone, Downloading
  <2>3. CASE ~(SpeedTargets \subseteq run.speed)
    <3> DEFINE next == First(SpeedTargets \ run.speed)
    <3>1. next \in SpeedTargets \ run.speed /\ \A m \in SpeedTargets \ run.speed : next <= m
      BY <1>2, <2>3, FirstIsOne
    <3>2. run' = [run EXCEPT !.pc = "download", !.speed = @ \cup {next}]
      BY <1>12, <2>3 DEF NextDownload
    <3> HIDE DEF next
    <3>3. /\ run'.pc = "download" /\ run'.list = run.list /\ run'.nodes = run.nodes
          /\ run'.speed = run.speed \cup {next}
      BY <1>1, <3>2 DEF RunStates
    <3>4. run'.speed \subseteq SpeedTargets /\ SpeedTargets \subseteq Nat
      BY <1>2, <2>1, <3>1, <3>3, NodeMeasureAssumption DEF Nodes
    <3>5. ASSUME NEW o \in run'.speed PROVE o <= next
      <4>1. o \in Nat /\ next \in Nat
        BY <3>1, <3>4
      <4>2. CASE o \in run.speed
        BY <2>1, <3>1, <4>1, <4>2
      <4> QED
        BY <3>3, <4>1, <4>2
    <3>6. ASSUME NEW m \in run'.speed, NEW o \in SpeedTargets \ run'.speed PROVE m < o
      <4>1. o \in SpeedTargets \ run.speed /\ o # next /\ o \in Nat /\ next \in Nat
        BY <3>1, <3>3, <3>4
      <4>2. CASE m = next
        BY <3>1, <4>1, <4>2
      <4>3. CASE m \in run.speed
        BY <2>1, <4>1, <4>3
      <4> QED
        BY <3>3, <4>2, <4>3
    <3>7. \A n \in run'.speed \ {next} : Covered(n, "speed")'
      BY <1>2, <1>3, <2>1, <3>3
    <3>8. SpeedTargets' = SpeedTargets /\ next \in run'.speed
      BY <1>4, <3>3
    <3> QED
      BY <3>3, <3>4, <3>5, <3>6, <3>7, <3>8 DEF SpeedsDone, Downloading
  <2> QED
    BY <2>2, <2>3
<1>13. CASE Download
  <2>1. PICK last \in run.speed : /\ \A o \in run.speed : o <= last
                                  /\ \A n \in run.speed \ {last} : Covered(n, "speed")
    BY <1>13 DEF Download, At, SpeedsDone
  <2>2. run.speed \subseteq SpeedTargets /\ \A m \in run.speed, o \in SpeedTargets \ run.speed : m < o
    BY <1>13 DEF Download, At, SpeedsDone, Downloading
  <2>3. run.speed \subseteq Nat
    BY <1>2, <2>2, NodeMeasureAssumption DEF Nodes
  <2>4. (CHOOSE m \in run.speed : \A o \in run.speed : o <= m) = last
    <3>1. \A m \in run.speed : (\A o \in run.speed : o <= m) => m = last
      BY <2>1, <2>3
    <3> QED
      BY <2>1, <3>1
  <2>5. Record(run.list, {last}, "speed") /\ UNCHANGED left /\ Goto("speed") /\ run.pc = "download"
    BY <1>13, <2>4 DEF Download, At
  <2>6. run'.pc = "speed" /\ run'.list = run.list /\ run'.nodes = run.nodes /\ run'.speed = run.speed
    BY <1>1, <2>5 DEF Goto, RunStates
  <2>7. last \in Nodes /\ Present(last) /\ run.list \in Lists
    BY <1>2, <2>2, <2>5 DEF ProbesDone
  <2>8. Covered(last, "speed")'
    BY <1>1, <2>5, <2>6, <2>7, RecordCovers DEF Tests
  <2>9. \A n \in run'.speed : Covered(n, "speed")'
    BY <1>2, <1>3, <2>1, <2>2, <2>5, <2>6, <2>8
  <2> QED
    BY <1>4, <2>2, <2>6, <2>9 DEF SpeedsDone, Downloading
<1>14. CASE Close
  <2>1. run'.pc = "next" /\ run'.speed = {}
    BY <1>1, <1>14 DEF Close, RunStates
  <2> QED
    BY <1>5, <2>1 DEF Downloading
<1>15. CASE Finish
  BY <1>15 DEF Finish
<1>16. ASSUME NEW n \in Nodes, ProbeStarts(n) \/ ProbeEnds(n) \/ ProbeGivesUp(n) PROVE SpeedsDone'
  BY <1>8, <1>16 DEF ProbeStarts, ProbeEnds, ProbeGivesUp
<1>17. CASE Others
  BY <1>8, <1>17, OthersAside
<1>18. CASE WriteBlocks
  <2>1. CASE UNCHANGED run
    BY <1>8, <2>1
  <2>2. CASE run' = [run EXCEPT !.pc = "blocked"]
    <3>1. run'.pc = "blocked"
      BY <1>1, <2>2 DEF RunStates
    <3> QED
      BY <3>1 DEF SpeedsDone, Downloading
  <2> QED
    BY <1>18, <2>1, <2>2 DEF WriteBlocks, Goto
<1> QED
  BY <1>18, <1>9, <1>10, <1>11, <1>12, <1>13, <1>14, <1>15, <1>16, <1>17 DEF Next, User, Work, Others

\* So progress is kept.
LEMMA ProgressStep ==
    ASSUME TypeOK, ListKnown, NoEngineIsLeft, Progress, [Next]_vars, NothingForgotten PROVE Progress'
<1> SUFFICES ASSUME run' # None, ~cancelled' PROVE ProbesDone' /\ SpeedsDone'
  BY DEF Progress
<1>1. CASE StartNodeTest /\ ~running
  <2>1. run'.pc = "next" /\ run'.speed = {}
    BY <1>1 DEF StartNodeTest
  <2> QED
    BY <2>1 DEF ProbesDone, SpeedsDone, EnginePcs, Downloading
<1>2. CASE ~(StartNodeTest /\ ~running)
  <2>1. run # None /\ ~cancelled
    BY <1>2, GoesOn
  <2>2. LeavingIsNoted
    BY <1>2, Noted
  <2>3. ProbesDone /\ SpeedsDone
    BY <2>1 DEF Progress
  <2> QED
    BY <1>2, <2>1, <2>2, <2>3, ProbesStep, SpeedsStep
<1> QED
  BY <1>1, <1>2

-----------------------------------------------------------------------------
(* The theorems.                                                             *)

Inv == TypeOK /\ ListKnown /\ NoEngineIsLeft /\ ResultsAreOfTheirList /\ OneAtATime /\ Progress

\* Type correctness is that of the lists, of the run and of the flags, ...
LEMMA TypeParts == TypeOK <=> CacheTyped /\ RunTyped /\ Flags
<1>1. {running, cancelled, erred} \subseteq BOOLEAN
      <=> running \in BOOLEAN /\ cancelled \in BOOLEAN /\ erred \in BOOLEAN
  BY Zenon
<1> QED
  BY <1>1, Zenon DEF TypeOK, CacheTyped, RunTyped, Flags

\* ... after a step as before it.
LEMMA TypePartsNext == TypeOK' <=> CacheTyped' /\ RunTyped' /\ Flags'
<1>1. {running', cancelled', erred'} \subseteq BOOLEAN
      <=> running' \in BOOLEAN /\ cancelled' \in BOOLEAN /\ erred' \in BOOLEAN
  BY Zenon
<1> QED
  BY <1>1, Zenon DEF TypeOK, CacheTyped, RunTyped, Flags

\* A program that has just started satisfies the invariant, ...
LEMMA Initially == Init => Inv
<1> SUFFICES ASSUME Init PROVE Inv
  OBVIOUS
<1> USE NodeMeasureAssumption, NoRunAssumption DEF Init
<1>1. CacheTyped
  BY DEF CacheTyped
<1>2. RunTyped
  BY DEF RunTyped, NoProbes, ProbeStates
<1>3. Flags
  BY DEF Flags
<1>4. ListKnown /\ NoEngineIsLeft
  BY DEF ListKnown, NoEngineIsLeft
<1>5. ResultsAreOfTheirList
  BY DEF ResultsAreOfTheirList, Listed
<1>6. OneAtATime
  BY DEF OneAtATime
<1>7. Progress
  BY DEF Progress
<1> QED
  BY <1>1, <1>2, <1>3, <1>4, <1>5, <1>6, <1>7, TypeParts DEF Inv

\* ... and every step keeps it, and forgets no measurement.
LEMMA Inductive == Inv /\ [Next]_vars => Inv' /\ NothingForgotten
<1> SUFFICES ASSUME Inv, [Next]_vars PROVE Inv' /\ NothingForgotten
  OBVIOUS
<1>1. RunTyped /\ Flags
  BY TypeParts DEF Inv
<1>2. CacheTyped' /\ ResultsAreOfTheirList' /\ NothingForgotten
  BY ListsStep DEF Inv
<1>3. RunTyped' /\ ListKnown' /\ NoEngineIsLeft' /\ (run' = None => run = None \/ Finish)
  BY RunStep DEF Inv
<1>4. Flags' /\ OneAtATime'
  BY <1>1, <1>3, PageStep DEF Inv
<1>5. Progress'
  BY <1>2, ProgressStep DEF Inv
<1> QED
  BY <1>2, <1>3, <1>4, <1>5, TypePartsNext DEF Inv

\* Of lists and evidence, run and engine, events and progress together: whatever the user, the
\* nodes and the engine do, each knows of the others what its next step relies on.
THEOREM Invariant == Spec => []Inv
BY Initially, Inductive, PTL DEF Spec

\* measure.go and whitevpn_measure.go: whatever is tested, refreshed, dropped and cancelled, a
\* measuring engine belongs to the run in hand and to its list, and every result shown was
\* found by a probe of that node of that list.
THEOREM MeasuringIsOfItsList == Spec => []EngineMeasuresItsList
<1>1. Inv => EngineMeasuresItsList
  BY DEF Inv, EngineMeasuresItsList
<1> QED
  BY <1>1, Invariant, PTL

\* The page shows a test from the request to the event of its end, and none else.
THEOREM PageIsRight == Spec => []PageShowsTheRun
<1>1. Inv => PageShowsTheRun
  BY DEF Inv, OneAtATime, PageShowsTheRun
<1> QED
  BY <1>1, Invariant, PTL

\* storeWhiteVPNNodes and recordNodeMeasurement: no step takes the row of a node that stays in
\* its list back to untested.
THEOREM MeasuredStays == Spec => MeasuredStaysMeasured
<1>1. Inv /\ [Next]_vars => [NothingForgotten]_vars
  BY Inductive
<1> QED
  BY <1>1, Invariant, PTL DEF Spec, MeasuredStaysMeasured, NothingForgotten

\* measureReachability, Delay, Speed: when the engine of a run that was not cancelled is closed,
\* no node it covers is left without a result, whatever the user does to the lists meanwhile.
THEOREM RunLeavesNoGap == Spec => []RunIsComplete
<1>1. Inv => RunIsComplete
  <2> SUFFICES ASSUME Inv, At("close"), ~cancelled, NEW n \in run.nodes, NEW t \in run.request.tests
               PROVE  <<run.list, n>> \in left \/ (t = "speed" /\ n \notin SpeedTargets)
                      \/ t \in cache[run.list][n]
    BY DEF RunIsComplete
  <2>1. run \in RunStates /\ run # None /\ run.pc = "close" /\ ProbesDone /\ SpeedsDone
    BY NoRunAssumption DEF Inv, TypeOK, At, Progress
  <2>2. t \in {"reach", "delay", "speed"}
    BY <2>1, NodeMeasureAssumption DEF RunStates, Tests
  <2>3. Covered(n, t) \/ (t = "speed" /\ n \notin SpeedTargets)
    BY <2>1, <2>2 DEF ProbesDone, SpeedsDone, EnginePcs, Downloading
  <2> QED
    BY <2>3 DEF Covered
<1> QED
  BY <1>1, Invariant, PTL
=============================================================================
