------------------------ MODULE SubscriptionsProofs ------------------------
(***************************************************************************)
(* Proofs about Subscriptions for any lists, catalogues, addresses and bodies,  *)
(* any number of operations in flight, and whatever the providers answer.       *)
(***************************************************************************)
EXTENDS Subscriptions, TLAPS

\* What holds of a task wherever it is: a merged read has something to merge, what is used of a
\* body has nodes in it, and only what can be stored is fetched.
TaskOK(tk) ==
    /\ tk \in TaskStates
    /\ tk.pc = "merge" => tk.stack # <<>>
    /\ tk.pc \in {"commit", "mark", "store", "build", "open"} => tk.got # {}
    /\ tk.pc \in {"wait", "discard"} /\ tk.kind # "refresh" => tk.src \in Stored

TasksOK == task \in [Tasks -> TaskStates] /\ \A t \in Tasks : TaskOK(task[t])

\* The rest of type correctness.
RowsTyped ==
    /\ rows \subseteq Subs \cup {All} /\ unfilled \subseteq Subs \cup {All}
    /\ url \in [Subs -> Addresses \cup {None}]
    /\ profiles \in [Subs \cup {Manual} -> SUBSET Nodes]
    /\ selected \in Sources
    /\ retry \in {"off", "scan", "run"} /\ todo \subseteq Subs \cup {All}
    /\ acts \in 0 .. MaxActs
ListsTyped ==
    /\ hidden \in [Sources -> SUBSET Nodes]
    /\ cache \in [Sources -> CachedLists \cup {None}]
    /\ snapshot \in [Stored -> (SUBSET Nodes) \cup {None}]
    /\ session \in Sessions \cup {None}

\* A list in the cache has nodes.
CacheUsable == \A s \in Sources : cache[s] # None => cache[s].nodes # {}

-----------------------------------------------------------------------------
(* Tasks                                                                      *)

\* A task at rest, and one that begins to read a source.
LEMMA RestingOK == TaskOK(Resting)
BY SubscriptionsAssumption DEF TaskOK, TaskStates, Resting, Pcs, Kinds, Sources, Stored

\* ... whichever, for whatever.
LEMMA ReadingOK == \A kind \in Kinds, id \in Sources : TaskOK(Reading(kind, id))
<1> SUFFICES ASSUME NEW kind \in Kinds, NEW id \in Sources PROVE TaskOK(Reading(kind, id))
  OBVIOUS
<1>1. Resting \in TaskStates
  BY RestingOK DEF TaskOK
<1>2. Reading(kind, id) \in TaskStates /\ Reading(kind, id).pc = "ask"
  BY <1>1 DEF Reading, TaskStates, Pcs
<1> QED
  BY <1>2 DEF TaskOK

\* One that is to refresh a list.
LEMMA RefreshOK ==
    ASSUME RowsTyped, NEW s \in rows PROVE TaskOK(RefreshOf(s))
<1>1. Resting \in TaskStates /\ s \in Sources /\ (s \in Subs => url[s] \in Addresses \cup {None})
  BY RestingOK DEF TaskOK, RowsTyped, Sources
<1>2. RefreshOf(s) \in TaskStates /\ RefreshOf(s).pc = "wait" /\ RefreshOf(s).kind = "refresh"
  BY <1>1 DEF RefreshOf, TaskStates, Pcs, Kinds
<1> QED
  BY <1>2 DEF TaskOK

\* The sources of a fall back, and of a merged read, are sources.
LEMMA EverySourceTyped == ASSUME RowsTyped PROVE EverySource \subseteq Sources
BY DEF EverySource, Sources, RowsTyped

\* After a failure: at rest, or about to read another source.
LEMMA FailureOK ==
    ASSUME RowsTyped, NEW tk \in TaskStates, NEW next \in AfterFailure(tk) PROVE TaskOK(next)
<1> DEFINE candidates == IF tk.fell THEN tk.candidates ELSE FallbackSources(tk.id)
<1>1. candidates \subseteq Sources
  BY EverySourceTyped DEF FallbackSources, TaskStates
<1>2. CASE next = Resting
  BY <1>2, RestingOK
<1>3. CASE next # Resting
  <2>1. PICK s \in Foremost(candidates) :
          next = [tk EXCEPT !.pc = "ask", !.id = s, !.src = s, !.stack = <<>>, !.got = {},
                            !.fell = TRUE, !.candidates = candidates \ {s}]
    BY <1>3 DEF AfterFailure
  <2> HIDE DEF candidates
  <2>2. s \in Sources
    BY <1>1 DEF Foremost
  <2>3. <<>> \in Seq(SUBSET Sources) /\ candidates \ {s} \in SUBSET Sources /\ {} \in SUBSET Nodes
    BY <1>1
  <2> DEFINE rest == candidates \ {s} none == {} empty == <<>>
  <2>4. next = [tk EXCEPT !.pc = "ask", !.id = s, !.src = s, !.stack = empty, !.got = none,
                          !.fell = TRUE, !.candidates = rest]
    BY <2>1
  <2>5. empty \in Seq(SUBSET Sources) /\ rest \in SUBSET Sources /\ none \in SUBSET Nodes
    BY <2>3
  <2> HIDE DEF rest, none, empty
  <2>6. next \in TaskStates /\ next.pc = "ask"
    BY <2>2, <2>4, <2>5 DEF TaskStates, Pcs
  <2> QED
    BY <2>6 DEF TaskOK
<1> QED
  BY <1>2, <1>3

\* After a body: on with the merge, with another source, or with what is to be done with it.
LEMMA BodyOK ==
    ASSUME RowsTyped, NEW tk \in TaskStates, NEW body \in SUBSET Nodes, NEW next \in AfterBody(tk, body)
    PROVE  TaskOK(next)
<1>1. CASE tk.stack # <<>>
  <2>1. next = [tk EXCEPT !.pc = "merge", !.got = @ \cup body]
    BY <1>1 DEF AfterBody
  <2>2. next \in TaskStates /\ next.pc = "merge" /\ next.stack = tk.stack
    BY <2>1 DEF TaskStates, Pcs
  <2> QED
    BY <1>1, <2>2 DEF TaskOK
<1>2. CASE tk.stack = <<>> /\ body = {}
  BY <1>2, FailureOK DEF AfterBody
<1>3. CASE tk.stack = <<>> /\ body # {}
  <2>1. next = [tk EXCEPT !.pc = IF tk.kind = "connect" THEN "store" ELSE "mark", !.got = body]
    BY <1>3 DEF AfterBody
  <2>2. next \in TaskStates /\ next.pc \in {"store", "mark"} /\ next.got = body
    BY <2>1 DEF TaskStates, Pcs
  <2> QED
    BY <1>3, <2>2 DEF TaskOK
<1> QED
  BY <1>1, <1>2, <1>3

\* A task is put in the place of another.
LEMMA PutOK ==
    ASSUME TasksOK, NEW t, NEW tk, TaskOK(tk), Put(t, tk) PROVE TasksOK'
BY DEF TasksOK, Put, TaskOK

\* What the next of a body is put in place of a task.
LEMMA AdvanceOK ==
    ASSUME RowsTyped, TasksOK, NEW t \in Tasks, NEW body \in SUBSET Nodes, Advance(t, body)
    PROVE  TasksOK'
<1>1. PICK next \in AfterBody(task[t], body) : Put(t, next)
  BY DEF Advance
<1>2. TaskOK(next)
  BY <1>1, BodyOK DEF TasksOK
<1> QED
  BY <1>1, <1>2, PutOK

\* Every call that begins is sound.
LEMMA CallsOK ==
    ASSUME RowsTyped, TasksOK, NEW t \in Tasks, Calls(t) PROVE TasksOK'
<1>0. Resting \in TaskStates
  BY RestingOK DEF TaskOK
<1>1. CASE ListSubscriptionNodes(t)
  <2>1. PICK s \in Sources : Put(t, Reading("list", s))
    BY <1>1 DEF ListSubscriptionNodes, Begin
  <2> QED
    BY <2>1, ReadingOK, PutOK DEF Kinds
<1>2. CASE StartConnection(t)
  <2>1. Put(t, Reading("connect", selected)) /\ selected \in Sources
    BY <1>2 DEF StartConnection, Begin, RowsTyped
  <2>2. TaskOK(Reading("connect", selected))
    BY <2>1, ReadingOK DEF Kinds
  <2> QED
    BY <2>1, <2>2, PutOK
<1>3. CASE RefreshV2RaySubscription(t)
  <2>1. PICK s \in rows : Put(t, RefreshOf(s))
    BY <1>3 DEF RefreshV2RaySubscription, Begin
  <2>2. TaskOK(RefreshOf(s))
    BY RefreshOK
  <2> QED
    BY <2>1, <2>2, PutOK
<1>4. CASE SetNodesHidden(t)
  <2>1. PICK s \in Sources, n \in Nodes, kind \in {"hide", "unhide"} :
          Put(t, [Resting EXCEPT !.pc = "commit", !.kind = kind, !.id = s, !.got = {n}])
    BY <1>4 DEF SetNodesHidden, Begin
  <2> DEFINE tk == [Resting EXCEPT !.pc = "commit", !.kind = kind, !.id = s, !.got = {n}]
  <2>2. tk \in TaskStates /\ tk.pc = "commit"
    BY <1>0 DEF TaskStates, Pcs, Kinds
  <2>3. TaskOK(tk)
    BY <2>2 DEF TaskOK
  <2> QED
    BY <2>1, <2>3, PutOK
<1>5. CASE DeleteManualNodes(t)
  <2>1. PICK n \in profiles[Manual] :
          Put(t, [Resting EXCEPT !.pc = "commit", !.kind = "remove", !.id = Manual, !.got = {n}])
    BY <1>5 DEF DeleteManualNodes, Begin
  <2> DEFINE tk == [Resting EXCEPT !.pc = "commit", !.kind = "remove", !.id = Manual, !.got = {n}]
  <2>2. n \in Nodes /\ Manual \in Sources
    BY DEF RowsTyped, Sources
  <2>3. tk \in TaskStates /\ tk.pc = "commit"
    BY <1>0, <2>2 DEF TaskStates, Pcs, Kinds
  <2>4. TaskOK(tk)
    BY <2>3 DEF TaskOK
  <2> QED
    BY <2>1, <2>4, PutOK
<1> QED
  BY <1>1, <1>2, <1>3, <1>4, <1>5 DEF Calls

\* Of more than one there is a rest.
LEMMA LongTail == \A S, q : q \in Seq(S) /\ Len(q) > 1 => Tail(q) \in Seq(S) /\ Tail(q) # <<>>
<1> SUFFICES ASSUME NEW S, NEW q \in Seq(S), Len(q) > 1 PROVE Tail(q) \in Seq(S) /\ Tail(q) # <<>>
  BY Zenon
<1>1. Tail(q) \in Seq(S) /\ Len(Tail(q)) = Len(q) - 1 /\ Len(q) \in Nat
  OBVIOUS
<1>2. Len(Tail(q)) # 0
  BY <1>1
<1>3. Len(<<>>) = 0
  OBVIOUS
<1> QED
  BY <1>1, <1>2, <1>3, Zenon

\* A step of the first kind of work: a source is read.
LEMMA ReadsOK ==
    ASSUME RowsTyped, ListsTyped, TasksOK, NEW t \in Tasks,
           Ask(t) \/ Fetched(t) \/ FetchFails(t) \/ Discard(t) \/ Merge(t)
    PROVE  TasksOK'
<1> DEFINE tk == task[t]
<1>1. TaskOK(tk) /\ tk \in TaskStates
  BY DEF TasksOK
<1> HIDE DEF tk
<1>2. CASE Ask(t)
  <2>1. CASE Advance(t, profiles[Manual])
    <3>1. profiles[Manual] \in SUBSET Nodes
      BY DEF RowsTyped
    <3> QED
      BY <2>1, <3>1, AdvanceOK
  <2>2. CASE Put(t, [tk EXCEPT !.pc = "merge", !.stack = <<EverySource>> \o @])
    <3>1. <<EverySource>> \o tk.stack \in Seq(SUBSET Sources) /\ <<EverySource>> \o tk.stack # <<>>
      BY <1>1, EverySourceTyped DEF TaskStates
    <3> DEFINE stack == <<EverySource>> \o tk.stack
               next == [tk EXCEPT !.pc = "merge", !.stack = stack]
    <3>2. stack \in Seq(SUBSET Sources) /\ stack # <<>> /\ Put(t, next)
      BY <2>2, <3>1
    <3> HIDE DEF stack
    <3>3. next \in TaskStates /\ next.pc = "merge" /\ next.stack = stack
      BY <1>1, <3>2 DEF TaskStates, Pcs
    <3>4. TaskOK(next)
      BY <3>2, <3>3 DEF TaskOK
    <3> QED
      BY <3>2, <3>4, PutOK
  <2>3. CASE tk.src \in Catalogues /\ Put(t, [tk EXCEPT !.pc = "wait"])
    <3> DEFINE next == [tk EXCEPT !.pc = "wait"]
    <3>1. next \in TaskStates /\ next.pc = "wait" /\ next.src = tk.src
      BY <1>1 DEF TaskStates, Pcs
    <3>2. TaskOK(next)
      BY <2>3, <3>1 DEF TaskOK, Stored
    <3> QED
      BY <2>3, <3>2, PutOK
  <2>4. CASE tk.src \in Subs /\ Put(t, [tk EXCEPT !.pc = "wait", !.address = url[tk.src]])
    <3> DEFINE next == [tk EXCEPT !.pc = "wait", !.address = url[tk.src]]
    <3>1. url[tk.src] \in Addresses \cup {None}
      BY <2>4 DEF RowsTyped
    <3>2. next \in TaskStates /\ next.pc = "wait" /\ next.src = tk.src
      BY <1>1, <3>1 DEF TaskStates, Pcs
    <3>3. TaskOK(next)
      BY <2>4, <3>2 DEF TaskOK, Stored
    <3> QED
      BY <2>4, <3>3, PutOK
  <2> QED
    BY <1>2, <2>1, <2>2, <2>3, <2>4 DEF Ask, Move, tk
<1>3. CASE Fetched(t)
  <2>1. PICK body \in Bodies : Advance(t, body)
    BY <1>3 DEF Fetched
  <2> QED
    BY <2>1, AdvanceOK, SubscriptionsAssumption
<1>4. CASE FetchFails(t)
  <2>1. tk.src \in Stored
    BY <1>1, <1>4 DEF FetchFails, At, TaskOK, tk
  <2>2. CASE Move(t, "discard")
    <3> DEFINE next == [tk EXCEPT !.pc = "discard"]
    <3>1. next \in TaskStates /\ next.pc = "discard" /\ next.src = tk.src
      BY <1>1 DEF TaskStates, Pcs
    <3>2. TaskOK(next)
      BY <2>1, <3>1 DEF TaskOK
    <3> QED
      BY <2>2, <3>2, PutOK DEF Move, tk
  <2>3. CASE Advance(t, {})
    BY <2>3, AdvanceOK
  <2>4. CASE snapshot[tk.src] # None /\ Advance(t, snapshot[tk.src])
    <3>1. snapshot[tk.src] \in SUBSET Nodes
      BY <2>1, <2>4 DEF ListsTyped
    <3> QED
      BY <2>4, <3>1, AdvanceOK
  <2> QED
    BY <1>4, <2>2, <2>3, <2>4 DEF FetchFails, tk
<1>5. CASE Discard(t)
  <2>1. Advance(t, {})
    BY <1>5 DEF Discard
  <2> QED
    BY <2>1, AdvanceOK
<1>6. CASE Merge(t)
  <2>1. tk.pc = "merge" /\ tk.stack # <<>> /\ tk.stack \in Seq(SUBSET Sources)
    BY <1>1, <1>6 DEF Merge, At, TaskOK, TaskStates, tk
  <2>2. Head(tk.stack) \in SUBSET Sources /\ Tail(tk.stack) \in Seq(SUBSET Sources)
    BY <2>1
  <2>3. ASSUME NEW s \in Foremost(Head(tk.stack)),
               Put(t, [tk EXCEPT !.pc = "ask", !.src = s, !.stack = <<Head(tk.stack) \ {s}>> \o Tail(@)])
        PROVE  TasksOK'
    <3> DEFINE stack == <<Head(tk.stack) \ {s}>> \o Tail(tk.stack)
               next == [tk EXCEPT !.pc = "ask", !.src = s, !.stack = stack]
    <3>1. s \in Sources /\ Head(tk.stack) \ {s} \in SUBSET Sources
      BY <2>2 DEF Foremost
    <3>2. stack \in Seq(SUBSET Sources)
      BY <2>2, <3>1
    <3>3. Put(t, next)
      BY <2>3
    <3> HIDE DEF stack
    <3>4. next \in TaskStates /\ next.pc = "ask"
      BY <1>1, <3>1, <3>2 DEF TaskStates, Pcs
    <3>5. TaskOK(next)
      BY <3>4 DEF TaskOK
    <3> QED
      BY <3>3, <3>5, PutOK
  <2>4. ASSUME Len(tk.stack) > 1, Put(t, [tk EXCEPT !.stack = Tail(@)]) PROVE TasksOK'
    <3> DEFINE stack == Tail(tk.stack)
               next == [tk EXCEPT !.stack = stack]
    <3>1. stack \in Seq(SUBSET Sources) /\ stack # <<>>
      BY <2>1, <2>4, LongTail
    <3>2. Put(t, next)
      BY <2>4
    <3> HIDE DEF stack
    <3>3. next \in TaskStates /\ next.pc = "merge" /\ next.stack = stack
      BY <1>1, <2>1, <3>1 DEF TaskStates
    <3>4. TaskOK(next)
      BY <3>1, <3>3 DEF TaskOK
    <3> QED
      BY <3>2, <3>4, PutOK
  <2>5. ASSUME NEW next \in AfterBody([tk EXCEPT !.stack = <<>>], tk.got), Put(t, next) PROVE TasksOK'
    <3>1. [tk EXCEPT !.stack = <<>>] \in TaskStates /\ tk.got \in SUBSET Nodes
      <4> DEFINE none == <<>>
      <4>1. none \in Seq(SUBSET Sources)
        OBVIOUS
      <4> HIDE DEF none
      <4>2. [tk EXCEPT !.stack = none] \in TaskStates /\ tk.got \in SUBSET Nodes
        BY <1>1, <4>1 DEF TaskStates
      <4> QED
        BY <4>2 DEF none
    <3>2. TaskOK(next)
      BY <2>5, <3>1, BodyOK
    <3> QED
      BY <2>5, <3>2, PutOK
  <2> QED
    BY <1>6, <2>3, <2>4, <2>5 DEF Merge, tk
<1> QED
  BY <1>2, <1>3, <1>4, <1>5, <1>6

\* A step of the second kind: something is done with what was read.
LEMMA UsesOK ==
    ASSUME RowsTyped, ListsTyped, TasksOK, NEW t \in Tasks,
           \/ Mark(t) \/ Store(t) \/ Build(t) \/ Open(t) \/ Land(t) \/ CommitHidden(t)
           \/ ReapplyHiddenNodes(t) \/ CommitRemoved(t)
    PROVE  TasksOK'
<1> DEFINE tk == task[t]
<1>1. TaskOK(tk) /\ tk \in TaskStates
  BY DEF TasksOK
<1> HIDE DEF tk
<1>2. ASSUME Put(t, Resting) PROVE TasksOK'
  BY <1>2, RestingOK, PutOK
<1>3. ASSUME NEW pc \in {"store", "open"}, NEW seen \in SUBSET Nodes, tk.got # {},
             Put(t, [tk EXCEPT !.pc = pc, !.seen = seen])
      PROVE  TasksOK'
  <2> DEFINE next == [tk EXCEPT !.pc = pc, !.seen = seen]
  <2>1. next \in TaskStates /\ next.pc = pc /\ next.got = tk.got
    BY <1>1 DEF TaskStates, Pcs
  <2>2. TaskOK(next)
    BY <1>3, <2>1 DEF TaskOK
  <2> QED
    BY <1>3, <2>2, PutOK
<1>4. CASE Mark(t) \/ Build(t)
  <2>1. tk.pc \in {"mark", "build"} /\ hidden[tk.id] \in SUBSET Nodes
    BY <1>1, <1>4 DEF Mark, Build, At, ListsTyped, TaskStates, tk
  <2>2. tk.got # {}
    BY <1>1, <2>1 DEF TaskOK
  <2>3. \/ Put(t, [tk EXCEPT !.pc = "store", !.seen = hidden[tk.id]])
        \/ Put(t, [tk EXCEPT !.pc = "open", !.seen = hidden[tk.id]])
    BY <1>4 DEF Mark, Build, tk
  <2> QED
    BY <1>3, <2>1, <2>2, <2>3
<1>5. CASE Store(t)
  <2>1. CASE tk.kind = "connect"
    <3> DEFINE next == [tk EXCEPT !.pc = "build"]
    <3>1. next \in TaskStates /\ next.pc = "build" /\ next.got = tk.got /\ Put(t, next)
      BY <1>1, <1>5, <2>1 DEF Store, TaskStates, Pcs, tk
    <3>2. tk.got # {}
      BY <1>1, <1>5 DEF Store, At, TaskOK, tk
    <3>3. TaskOK(next)
      BY <3>1, <3>2 DEF TaskOK
    <3> QED
      BY <3>1, <3>3, PutOK
  <2>2. CASE tk.kind # "connect"
    BY <1>2, <1>5, <2>2 DEF Store, tk
  <2> QED
    BY <2>1, <2>2
<1>6. CASE Open(t) \/ Land(t) \/ ReapplyHiddenNodes(t)
  BY <1>2, <1>6 DEF Open, Land, ReapplyHiddenNodes
<1>7. CASE CommitHidden(t)
  <2> DEFINE next == [tk EXCEPT !.pc = "mark"]
  <2>1. Put(t, next) /\ tk.pc = "commit"
    BY <1>7 DEF CommitHidden, Move, At, tk
  <2>2. next \in TaskStates /\ next.pc = "mark" /\ next.got = tk.got
    BY <1>1 DEF TaskStates, Pcs
  <2>3. tk.got # {}
    BY <1>1, <2>1 DEF TaskOK
  <2>4. TaskOK(next)
    BY <2>2, <2>3 DEF TaskOK
  <2> QED
    BY <2>1, <2>4, PutOK
<1>8. CASE CommitRemoved(t)
  <2>1. TaskOK(Reading("list", Manual)) /\ Put(t, Reading("list", Manual))
    BY <1>8, ReadingOK DEF CommitRemoved, Kinds, Sources
  <2> QED
    BY <2>1, PutOK
<1> QED
  BY <1>4, <1>5, <1>6, <1>7, <1>8

\* Every step keeps the tasks sound.
LEMMA TasksStep ==
    ASSUME RowsTyped, ListsTyped, TasksOK, [Next]_vars PROVE TasksOK'
<1>1. ASSUME UNCHANGED task PROVE TasksOK'
  BY <1>1 DEF TasksOK, TaskOK
<1>2. CASE StopConnection
  <2>1. ASSUME NEW t \in Tasks PROVE TaskOK(task'[t]) /\ task'[t] \in TaskStates
    <3>1. TaskOK(task[t]) /\ task[t] \in TaskStates
      BY DEF TasksOK
    <3>2. CASE task'[t] = task[t]
      BY <3>1, <3>2
    <3>3. CASE task'[t] = [task[t] EXCEPT !.live = FALSE]
      <4> DEFINE tk == task[t]
                 next == [tk EXCEPT !.live = FALSE]
      <4> HIDE DEF tk
      <4>1. /\ next \in TaskStates /\ next.pc = tk.pc /\ next.got = tk.got /\ next.stack = tk.stack
            /\ next.kind = tk.kind /\ next.src = tk.src
        BY <3>1 DEF TaskStates, tk
      <4>2. TaskOK(next)
        BY <3>1, <4>1 DEF TaskOK, tk
      <4> QED
        BY <3>3, <4>1, <4>2 DEF tk
    <3> QED
      BY <1>2, <3>2, <3>3 DEF StopConnection
  <2>2. task' \in [Tasks -> TaskStates]
    BY <1>2, <2>1 DEF StopConnection
  <2> QED
    BY <2>1, <2>2 DEF TasksOK, TaskOK
<1>3. CASE Restart
  BY <1>3, RestingOK DEF Restart, TasksOK, TaskOK
<1>4. CASE RetryNext
  <2>1. CASE UNCHANGED task
    BY <1>1, <2>1
  <2>2. ASSUME NEW s \in rows, Put(Retrier, RefreshOf(s)) PROVE TasksOK'
    BY <2>2, RefreshOK, PutOK
  <2> QED
    BY <1>4, <2>1, <2>2 DEF RetryNext
<1>5. CASE \/ SaveV2RaySubscription \/ DeleteV2RaySubscription \/ SelectSubscription
           \/ ImportManual \/ CopyNodeToManual \/ RetryScan \/ UNCHANGED vars
  BY <1>1, <1>5 DEF SaveV2RaySubscription, DeleteV2RaySubscription, SelectSubscription, ImportManual,
     CopyNodeToManual, RetryScan, vars
<1>6. ASSUME NEW t \in Threads, Calls(t) PROVE TasksOK'
  BY <1>6, CallsOK DEF Tasks
<1>7. ASSUME NEW t \in Tasks, Works(t) PROVE TasksOK'
  BY <1>7, ReadsOK, UsesOK DEF Works
<1> QED
  BY <1>2, <1>3, <1>4, <1>5, <1>6, <1>7 DEF Next, User

-----------------------------------------------------------------------------
(* Rows, and lists                                                            *)

\* A selection that is kept names a source that can be read.
LEMMA KeptIsThere ==
    ASSUME NEW choice \in Sources, NEW present \in SUBSET (Subs \cup {All}), NEW configs
    PROVE  /\ Kept(choice, present, configs) \in Sources
           /\ \/ Kept(choice, present, configs) \in Catalogues \cup present \cup {All}
              \/ Kept(choice, present, configs) = Manual /\ configs[Manual] # {}
<1>1. Home \in Catalogues /\ Catalogues \subseteq Sources
  BY SubscriptionsAssumption DEF Sources
<1>2. CASE choice \in Catalogues \cup present \cup {All} \/ (choice = Manual /\ configs[Manual] # {})
  <2>1. Kept(choice, present, configs) = choice
    BY <1>2, Zenon DEF Kept
  <2> QED
    BY <1>2, <2>1, Zenon
<1>3. CASE ~(choice \in Catalogues \cup present \cup {All} \/ (choice = Manual /\ configs[Manual] # {}))
  <2>1. Kept(choice, present, configs) = Home
    BY <1>3, Zenon DEF Kept
  <2> QED
    BY <1>1, <2>1
<1> QED
  BY <1>2, <1>3

\* Operations are counted.
LEMMA ActsStep ==
    ASSUME RowsTyped, [Next]_vars PROVE acts' \in {acts, acts + 1} /\ acts' \in 0 .. MaxActs
<1>1. Acts \/ UNCHANGED acts
  BY DEF Next, User, Calls, Works, Begin, vars, SaveV2RaySubscription, DeleteV2RaySubscription,
     SelectSubscription, ImportManual, CopyNodeToManual, StopConnection, Restart, RetryScan, RetryNext,
     ListSubscriptionNodes, StartConnection, RefreshV2RaySubscription, SetNodesHidden, DeleteManualNodes,
     Ask, Fetched, FetchFails, Discard, Merge, Mark, Store, Build, Open, Land, CommitHidden,
     ReapplyHiddenNodes, CommitRemoved
<1> QED
  BY <1>1, SubscriptionsAssumption DEF Acts, RowsTyped

\* Every step keeps the rows typed, stores nothing for a list that is gone, and leaves a
\* selection that can be read.
LEMMA RowsStep ==
    ASSUME RowsTyped, ListsTyped, TasksOK, NoOrphans, SelectionExists, [Next]_vars
    PROVE  RowsTyped' /\ NoOrphans' /\ SelectionExists'
<1> DEFINE Goal == RowsTyped' /\ NoOrphans' /\ SelectionExists'
<1> USE SubscriptionsAssumption
<1>1. ASSUME UNCHANGED <<state, background>>, acts' \in {acts, acts + 1}, acts' \in 0 .. MaxActs PROVE Goal
  BY <1>1 DEF state, background, RowsTyped, NoOrphans, SelectionExists
<1>0. acts' \in {acts, acts + 1} /\ acts' \in 0 .. MaxActs
  BY ActsStep
<1>2. CASE SaveV2RaySubscription
  <2>1. PICK s \in Subs, a \in Addresses :
          /\ rows' = rows \cup {s} /\ url' = [url EXCEPT ![s] = a]
          /\ unfilled' = IF s \in rows THEN unfilled ELSE unfilled \cup {s}
          /\ UNCHANGED <<profiles, selected, background>>
    BY <1>2 DEF SaveV2RaySubscription
  <2>2. RowsTyped'
    BY <1>0, <2>1 DEF RowsTyped, background
  <2>3. NoOrphans'
    BY <2>1 DEF NoOrphans, RowsTyped
  <2>4. SelectionExists'
    BY <2>1 DEF SelectionExists
  <2> QED
    BY <2>2, <2>3, <2>4
<1>3. CASE DeleteV2RaySubscription
  <2>1. PICK s \in rows :
          /\ rows' = rows \ {s} /\ unfilled' = unfilled \ {s}
          /\ url' = IF s \in Subs THEN [url EXCEPT ![s] = None] ELSE url
          /\ profiles' = IF s \in Subs THEN [profiles EXCEPT ![s] = {}] ELSE profiles
          /\ selected' = Kept(selected, rows', profiles')
          /\ UNCHANGED background
    BY <1>3 DEF DeleteV2RaySubscription
  <2>2. rows' \in SUBSET (Subs \cup {All}) /\ selected \in Sources
    BY <2>1 DEF RowsTyped
  <2>3. selected' \in Sources /\ SelectionExists'
    BY <2>1, <2>2, KeptIsThere DEF SelectionExists
  <2>4. RowsTyped'
    BY <1>0, <2>1, <2>2, <2>3 DEF RowsTyped, background
  <2>5. NoOrphans'
    BY <2>1 DEF NoOrphans, RowsTyped
  <2> QED
    BY <2>3, <2>4, <2>5
<1>4. CASE SelectSubscription
  <2>1. PICK s \in EverySource \cup {All} : selected' = s /\ UNCHANGED <<rows, url, unfilled, profiles, background>>
    BY <1>4 DEF SelectSubscription
  <2>2. s \in Sources
    BY <2>1, EverySourceTyped DEF Sources
  <2>3. RowsTyped'
    BY <1>0, <2>1, <2>2 DEF RowsTyped, background
  <2>4. SelectionExists'
    BY <2>1 DEF SelectionExists, EverySource
  <2>5. NoOrphans'
    BY <2>1 DEF NoOrphans
  <2> QED
    BY <2>3, <2>4, <2>5
<1>5. CASE ImportManual \/ CopyNodeToManual
  <2>1. PICK n \in Nodes : /\ profiles' = [profiles EXCEPT ![Manual] = @ \cup {n}]
                           /\ UNCHANGED <<rows, url, unfilled, selected, background>>
    <3>1. \A s \in Sources : Listed(s) \subseteq Nodes
      BY DEF Listed, ListsTyped, CachedLists
    <3> QED
      BY <1>5, <3>1 DEF ImportManual, CopyNodeToManual
  <2>2. RowsTyped'
    BY <1>0, <2>1 DEF RowsTyped, background
  <2>3. NoOrphans'
    BY <2>1 DEF NoOrphans, RowsTyped, Stored
  <2>4. SelectionExists'
    BY <2>1 DEF SelectionExists, RowsTyped
  <2> QED
    BY <2>2, <2>3, <2>4
<1>6. CASE Restart
  <2>1. /\ rows' \in {rows \cup {All}, rows \ {All}} /\ unfilled' \subseteq Subs \cup {All}
        /\ selected' \in {Home, selected} /\ retry' = "off" /\ todo' = {} /\ UNCHANGED <<url, profiles>>
    BY <1>6 DEF Restart, RowsTyped
  <2>2. RowsTyped'
    BY <1>0, <2>1 DEF RowsTyped, Sources
  <2>3. NoOrphans'
    BY <2>1 DEF NoOrphans, Stored
  <2>4. SelectionExists'
    BY <2>1 DEF SelectionExists
  <2> QED
    BY <2>2, <2>3, <2>4
<1>7. CASE RetryScan \/ RetryNext
  <2>1. UNCHANGED state /\ retry' \in {"off", "scan", "run"} /\ todo' \subseteq Subs \cup {All}
    BY <1>7 DEF RetryScan, RetryNext, RowsTyped
  <2> QED
    BY <1>0, <2>1 DEF RowsTyped, NoOrphans, SelectionExists, state
<1>8. ASSUME NEW t \in Tasks, Land(t) PROVE Goal
  <2>1. UNCHANGED <<rows, url, selected, background>> /\ task[t].id \in Sources
    BY <1>8 DEF Land, TasksOK, TaskStates
  <2>2. unfilled' \subseteq Subs \cup {All}
    BY <1>8 DEF Land, RowsTyped
  <2>3. /\ profiles' \in [Subs \cup {Manual} -> SUBSET Nodes]
        /\ \A s \in Subs \cup {Manual} : s \notin rows => profiles'[s] = profiles[s]
    BY <1>8 DEF Land, RowsTyped
  <2>4. RowsTyped'
    BY <1>0, <2>1, <2>2, <2>3 DEF RowsTyped, background
  <2>5. NoOrphans'
    BY <2>1, <2>3 DEF NoOrphans
  <2>6. SelectionExists'
    <3>1. Manual \notin rows
      BY DEF RowsTyped, Stored
    <3> QED
      BY <2>1, <2>3, <3>1 DEF SelectionExists
  <2> QED
    BY <2>4, <2>5, <2>6
<1>9. ASSUME NEW t \in Tasks, CommitRemoved(t) PROVE Goal
  <2>1. /\ profiles' = [profiles EXCEPT ![Manual] = @ \ task[t].got]
        /\ selected' = Kept(selected, rows, profiles') /\ UNCHANGED <<rows, url, unfilled, background>>
    BY <1>9 DEF CommitRemoved
  <2>2. selected' \in Sources /\ SelectionExists'
    BY <2>1, KeptIsThere DEF SelectionExists, RowsTyped
  <2>3. RowsTyped'
    BY <1>0, <2>1, <2>2 DEF RowsTyped, background
  <2>4. NoOrphans'
    BY <2>1 DEF NoOrphans, RowsTyped, Stored
  <2> QED
    BY <2>2, <2>3, <2>4
<1>10. ASSUME NEW t \in Tasks, Open(t) PROVE Goal
  <2>1. UNCHANGED <<state, todo>> /\ retry' \in {"scan", retry}
    BY <1>10 DEF Open
  <2> QED
    BY <1>0, <2>1 DEF RowsTyped, NoOrphans, SelectionExists, state
<1>11. ASSUME NEW t \in Tasks, \/ Calls(t) \/ Ask(t) \/ Fetched(t) \/ FetchFails(t) \/ Discard(t) \/ Merge(t)
                              \/ Mark(t) \/ Store(t) \/ Build(t) \/ CommitHidden(t) \/ ReapplyHiddenNodes(t)
       PROVE  Goal
  <2>1. UNCHANGED <<state, background>>
    BY <1>11 DEF Calls, ListSubscriptionNodes, StartConnection, RefreshV2RaySubscription, SetNodesHidden,
       DeleteManualNodes, Ask, Fetched, FetchFails, Discard, Merge, Mark, Store, Build, CommitHidden,
       ReapplyHiddenNodes
  <2> QED
    BY <1>0, <1>1, <2>1
<1>12. CASE StopConnection \/ UNCHANGED vars
  BY <1>0, <1>1, <1>12 DEF StopConnection, vars
<1> QED
  BY <1>2, <1>3, <1>4, <1>5, <1>6, <1>7, <1>8, <1>9, <1>10, <1>11, <1>12 DEF Next, User, Works, Tasks

\* A list that is filed is one of nodes, with some of them flagged.
LEMMA ListingIsUsable ==
    ASSUME NEW tk \in TaskStates, tk.got # {}
    PROVE  Listing(tk) \in CachedLists /\ Listing(tk).nodes # {}
BY DEF Listing, CachedLists, TaskStates

\* Lists are typed and have nodes, after every step.
LEMMA ListsStep ==
    ASSUME RowsTyped, ListsTyped, TasksOK, CacheUsable, [Next]_vars PROVE ListsTyped' /\ CacheUsable'
<1> DEFINE Goal == ListsTyped' /\ CacheUsable'
           Cached == cache' \in [Sources -> CachedLists \cup {None}] /\ CacheUsable'
<1> USE SubscriptionsAssumption
<1>1. ASSUME UNCHANGED <<hidden, snapshot, session>>, Cached PROVE Goal
  BY <1>1 DEF ListsTyped
<1>2. ASSUME UNCHANGED cache PROVE Cached
  BY <1>2 DEF ListsTyped, CacheUsable
<1>3. ASSUME NEW s, Forget(s) PROVE Cached
  <2>1. cache' = [cache EXCEPT ![s] = None]
    BY <1>3 DEF Forget
  <2>2. cache' \in [Sources -> CachedLists \cup {None}]
    BY <2>1 DEF ListsTyped
  <2>3. \A r \in Sources : cache'[r] # None => cache'[r] = cache[r]
    BY <2>1 DEF ListsTyped
  <2> QED
    BY <2>2, <2>3 DEF CacheUsable
<1>4. CASE SaveV2RaySubscription \/ ImportManual \/ CopyNodeToManual
  <2>1. UNCHANGED <<hidden, snapshot, session>> /\ (UNCHANGED cache \/ \E s : Forget(s))
    BY <1>4 DEF SaveV2RaySubscription, ImportManual, CopyNodeToManual
  <2> QED
    BY <1>1, <1>2, <1>3, <2>1
<1>5. CASE DeleteV2RaySubscription
  <2>1. PICK s \in rows : /\ Forget(s) /\ UNCHANGED <<hidden, session>>
                          /\ snapshot' = IF s \in Subs THEN [snapshot EXCEPT ![s] = None] ELSE snapshot
    BY <1>5 DEF DeleteV2RaySubscription
  <2>2. snapshot' \in [Stored -> (SUBSET Nodes) \cup {None}]
    BY <2>1 DEF ListsTyped
  <2>3. Cached
    BY <1>3, <2>1
  <2> QED
    BY <2>1, <2>2, <2>3 DEF ListsTyped
<1>6. CASE Restart
  <2>1. cache' = [s \in Sources |-> None] /\ session' = None /\ UNCHANGED <<hidden, snapshot>>
    BY <1>6 DEF Restart
  <2> QED
    BY <2>1 DEF ListsTyped, CacheUsable
<1>7. CASE StopConnection
  <2>1. session' = None /\ UNCHANGED <<hidden, snapshot, cache>>
    BY <1>7 DEF StopConnection
  <2> QED
    BY <1>2, <2>1 DEF ListsTyped
<1>8. CASE SelectSubscription \/ RetryScan \/ RetryNext \/ UNCHANGED vars
  BY <1>1, <1>2, <1>8 DEF SelectSubscription, RetryScan, RetryNext, vars
<1>9. ASSUME NEW t \in Tasks, \/ Calls(t) \/ Ask(t) \/ FetchFails(t) \/ Merge(t) \/ Mark(t) \/ Build(t) PROVE Goal
  <2>1. UNCHANGED <<hidden, snapshot, session, cache>>
    BY <1>9 DEF Calls, ListSubscriptionNodes, StartConnection, RefreshV2RaySubscription, SetNodesHidden,
       DeleteManualNodes, Ask, FetchFails, Merge, Mark, Build
  <2> QED
    BY <1>1, <1>2, <2>1
<1>10. ASSUME NEW t \in Tasks, Fetched(t) PROVE Goal
  <2>1. PICK body \in Bodies : snapshot' \in {snapshot, [snapshot EXCEPT ![task[t].src] = body]}
    BY <1>10 DEF Fetched
  <2>2. UNCHANGED <<hidden, session, cache>>
    BY <1>10 DEF Fetched
  <2>3. snapshot' \in [Stored -> (SUBSET Nodes) \cup {None}]
    BY <2>1 DEF ListsTyped
  <2> QED
    BY <1>2, <2>2, <2>3 DEF ListsTyped
<1>11. ASSUME NEW t \in Tasks, Discard(t) PROVE Goal
  <2>1. snapshot' = [snapshot EXCEPT ![task[t].src] = None] /\ UNCHANGED <<hidden, session, cache>>
    BY <1>11 DEF Discard
  <2>2. snapshot' \in [Stored -> (SUBSET Nodes) \cup {None}]
    BY <2>1 DEF ListsTyped
  <2> QED
    BY <1>2, <2>1, <2>2 DEF ListsTyped
<1>12. ASSUME NEW t \in Tasks, Store(t) PROVE Goal
  <2>1. task[t] \in TaskStates /\ task[t].got # {}
    BY <1>12 DEF Store, At, TasksOK, TaskOK
  <2>2. Listing(task[t]) \in CachedLists /\ Listing(task[t]).nodes # {}
    BY <2>1, ListingIsUsable
  <2>3. cache' = [cache EXCEPT ![task[t].id] = Listing(task[t])] /\ UNCHANGED <<hidden, snapshot, session>>
    BY <1>12 DEF Store
  <2>4. Cached
    BY <2>2, <2>3 DEF ListsTyped, CacheUsable
  <2> QED
    BY <1>1, <2>3, <2>4
<1>13. ASSUME NEW t \in Tasks, Open(t) PROVE Goal
  <2>1. UNCHANGED <<hidden, snapshot, cache>>
    BY <1>13 DEF Open
  <2>2. session' \in Sessions \cup {None}
    <3>1. task[t] \in TaskStates
      BY DEF TasksOK
    <3>2. \A n \in Runnable(task[t]) : [wanted |-> task[t].wanted, used |-> task[t].id, node |-> n] \in Sessions
      BY <3>1 DEF Runnable, Sessions, TaskStates
    <3> QED
      BY <1>13, <3>2 DEF Open, ListsTyped
  <2> QED
    BY <1>2, <2>1, <2>2 DEF ListsTyped
<1>14. ASSUME NEW t \in Tasks, Land(t) \/ CommitRemoved(t) PROVE Goal
  <2>1. UNCHANGED <<hidden, snapshot, session>> /\ (UNCHANGED cache \/ \E s : Forget(s))
    BY <1>14 DEF Land, CommitRemoved
  <2> QED
    BY <1>1, <1>2, <1>3, <2>1
<1>15. ASSUME NEW t \in Tasks, CommitHidden(t) PROVE Goal
  <2>1. task[t] \in TaskStates /\ UNCHANGED <<snapshot, session, cache>>
    BY <1>15 DEF CommitHidden, TasksOK
  <2>2. hidden' \in [Sources -> SUBSET Nodes]
    <3>1. task[t].got \in SUBSET Nodes
      BY <2>1 DEF TaskStates
    <3> QED
      BY <1>15, <3>1 DEF CommitHidden, ListsTyped
  <2> QED
    BY <1>2, <2>1, <2>2 DEF ListsTyped
<1>16. ASSUME NEW t \in Tasks, ReapplyHiddenNodes(t) PROVE Goal
  <2>1. UNCHANGED <<hidden, snapshot, session>>
    BY <1>16 DEF ReapplyHiddenNodes
  <2>2. CASE UNCHANGED cache
    BY <1>1, <1>2, <2>1, <2>2
  <2>3. CASE ~UNCHANGED cache
    <3> DEFINE s == task[t].id
               flagged == cache[s].nodes \cap task[t].seen
    <3>1. cache[s] # None /\ cache' = [cache EXCEPT ![s].flagged = flagged] /\ s \in Sources
      BY <1>16, <2>3 DEF ReapplyHiddenNodes, TasksOK, TaskStates
    <3>2. cache[s] \in CachedLists
      BY <3>1 DEF ListsTyped
    <3>3. flagged \in SUBSET Nodes
      BY <3>2 DEF CachedLists
    <3> HIDE DEF s, flagged
    <3>4. cache'[s] \in CachedLists /\ cache'[s].nodes = cache[s].nodes
      BY <3>1, <3>2, <3>3 DEF CachedLists, ListsTyped
    <3>5. \A r \in Sources : r # s => cache'[r] = cache[r]
      BY <3>1 DEF ListsTyped
    <3>6. cache' \in [Sources -> CachedLists \cup {None}]
      BY <3>1, <3>4, <3>5 DEF ListsTyped
    <3>7. CacheUsable'
      BY <3>1, <3>4, <3>5 DEF CacheUsable
    <3> QED
      BY <1>1, <2>1, <3>6, <3>7
  <2> QED
    BY <2>2, <2>3
<1> QED
  BY <1>4, <1>5, <1>6, <1>7, <1>8, <1>9, <1>10, <1>11, <1>12, <1>13, <1>14, <1>15, <1>16
     DEF Next, User, Works, Tasks

-----------------------------------------------------------------------------
(* What a step may not do                                                     *)

\* GoodCopyStays, of one step.
CopyStays ==
    \A s \in Stored : Usable(snapshot[s]) /\ ~Usable(snapshot'[s])
        => \/ s \in rows \ rows'
           \/ \E t \in Tasks : At(t, "discard") /\ task[t].src = s

\* A copy on disk goes with its list, or by a reader that had found a broken one.
LEMMA CopyStep ==
    ASSUME RowsTyped, ListsTyped, TasksOK, [Next]_vars PROVE CopyStays
<1> USE SubscriptionsAssumption
<1>1. ASSUME UNCHANGED snapshot PROVE CopyStays
  BY <1>1 DEF CopyStays
<1>2. CASE DeleteV2RaySubscription
  <2>1. PICK s \in rows : /\ rows' = rows \ {s}
                          /\ snapshot' = IF s \in Subs THEN [snapshot EXCEPT ![s] = None] ELSE snapshot
    BY <1>2 DEF DeleteV2RaySubscription
  <2> QED
    BY <2>1 DEF CopyStays, ListsTyped
<1>3. ASSUME NEW t \in Tasks, Fetched(t) PROVE CopyStays
  <2>1. PICK body \in Bodies : snapshot' \in {snapshot, [snapshot EXCEPT ![task[t].src] = body]}
    BY <1>3 DEF Fetched
  <2>2. Usable(body)
    BY DEF Usable
  <2> QED
    BY <2>1, <2>2 DEF CopyStays, ListsTyped
<1>4. ASSUME NEW t \in Tasks, Discard(t) PROVE CopyStays
  BY <1>4 DEF Discard, CopyStays, ListsTyped
<1>5. CASE \/ SaveV2RaySubscription \/ SelectSubscription \/ ImportManual \/ CopyNodeToManual
           \/ StopConnection \/ Restart \/ RetryScan \/ RetryNext \/ UNCHANGED vars
  BY <1>1, <1>5 DEF SaveV2RaySubscription, SelectSubscription, ImportManual, CopyNodeToManual,
     StopConnection, Restart, RetryScan, RetryNext, vars
<1>6. ASSUME NEW t \in Tasks, \/ Calls(t) \/ Ask(t) \/ FetchFails(t) \/ Merge(t) \/ Mark(t) \/ Store(t) \/ Build(t)
                             \/ Open(t) \/ Land(t) \/ CommitHidden(t) \/ ReapplyHiddenNodes(t) \/ CommitRemoved(t)
      PROVE  CopyStays
  BY <1>1, <1>6 DEF Calls, ListSubscriptionNodes, StartConnection, RefreshV2RaySubscription, SetNodesHidden,
     DeleteManualNodes, Ask, FetchFails, Merge, Mark, Store, Build, Open, Land, CommitHidden,
     ReapplyHiddenNodes, CommitRemoved
<1> QED
  BY <1>2, <1>3, <1>4, <1>5, <1>6 DEF Next, User, Works, Tasks

-----------------------------------------------------------------------------
(* The theorems                                                               *)

Inv == RowsTyped /\ ListsTyped /\ TasksOK /\ NoOrphans /\ SelectionExists /\ CacheUsable

\* A program that has just been installed satisfies the invariant, ...
LEMMA Initially == Init => Inv
<1> SUFFICES ASSUME Init PROVE Inv
  OBVIOUS
<1> USE SubscriptionsAssumption DEF Init
<1>1. RowsTyped
  BY DEF RowsTyped, Sources
<1>2. ListsTyped
  BY DEF ListsTyped, Stored, Sources
<1>3. TasksOK
  BY RestingOK DEF TasksOK, TaskOK
<1>4. NoOrphans
  BY DEF NoOrphans
<1>5. SelectionExists
  BY DEF SelectionExists
<1>6. CacheUsable
  BY DEF CacheUsable
<1> QED
  BY <1>1, <1>2, <1>3, <1>4, <1>5, <1>6 DEF Inv

\* ... and every step keeps it.
LEMMA Inductive == Inv /\ [Next]_vars => Inv' /\ CopyStays
BY RowsStep, ListsStep, TasksStep, CopyStep DEF Inv

\* Of rows and profiles, lists and tasks together: whatever is in flight, each is as the next
\* step of every task finds it sound.
THEOREM Invariant == Spec => []Inv
BY Initially, Inductive, PTL DEF Spec

\* v2ray.go, whitevpn_nodes.go, whitedns_vpn.go: whatever the user, the providers and the tasks
\* in flight do between two critical sections, nothing is stored for a list that is gone, the
\* selection can be read, and no list without nodes is shown or connected through.
THEOREM SourcesAreKeptSound == Spec => []SourcesAreSound
<1>1. Inv => SourcesAreSound
  <2> SUFFICES ASSUME Inv PROVE SourcesAreSound
    OBVIOUS
  <2>1. TypeOK
    BY DEF Inv, RowsTyped, ListsTyped, TasksOK, TypeOK
  <2>2. ServedIsUsable
    BY DEF Inv, CacheUsable, TasksOK, TaskOK, ServedIsUsable
  <2> QED
    BY <2>1, <2>2 DEF Inv, SourcesAreSound
<1> QED
  BY <1>1, Invariant, PTL

\* subscription_snapshot.go: a copy that works is not lost to a fetch that brings nothing.
THEOREM GoodCopiesStay == Spec => GoodCopyStays
<1>1. Inv /\ [Next]_vars => [CopyStays]_vars
  BY Inductive
<1> QED
  BY <1>1, Invariant, PTL DEF Spec, GoodCopyStays, CopyStays
=============================================================================
