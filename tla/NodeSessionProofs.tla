------------------------- MODULE NodeSessionProofs -------------------------
(***************************************************************************)
(* Proofs about NodeSession for any catalogue of nodes, any choices, any      *)
(* bounds of the walks, and whatever goes wrong together.                    *)
(***************************************************************************)
EXTENDS NodeSession, FiniteSetTheorems, TLAPS

Users == [pc : UserPcs, left : SUBSET Nodes, tries : 0..LiveSwitchAttempts,
          node : Maybe, restore : GroupStates]
Watchers == [pc : WatcherPcs, failures : 0..(WatchFailures - 1), pinned : BOOLEAN,
             tried : SUBSET Nodes, node : Maybe, previous : Maybe]

-----------------------------------------------------------------------------
(* Types.                                                                    *)

\* A connect that has begun is at one of its variants.
Types == TypeOK /\ (phase # "idle" => variant \in 1..Variants)

\* A call that has ended, and a watch between its checks, are as at the start.
LEMMA UserRestingType == UserResting \in Users
BY NodeSessionAssumption DEF UserResting, Users, UserPcs, Maybe, GroupStates

LEMMA WatcherRestingType ==
    ASSUME NEW failures \in 0..(WatchFailures - 1)
    PROVE  WatcherResting(failures) \in Watchers
BY DEF WatcherResting, Watchers, WatcherPcs, Maybe

LEMMA ZeroFailures == 0 \in 0..(WatchFailures - 1)
BY NodeSessionAssumption

LEMMA WatcherGotoType ==
    ASSUME watcher \in Watchers, NEW label \in WatcherPcs, WatcherGoto(label)
    PROVE  watcher' \in Watchers
BY ZeroFailures, WatcherRestingType DEF WatcherGoto, Watchers

LEMMA UserGotoType ==
    ASSUME user \in Users, NEW label \in UserPcs, UserGoto(label)
    PROVE  user' \in Users
BY UserRestingType DEF UserGoto, Users, Maybe, GroupStates

\* What the engine answers is a node, or nothing.
LEMMA LookupsType == Lookups \subseteq Maybe
BY DEF Lookups

LEMMA PairIsItsParts ==
    ASSUME NEW S, NEW T, NEW R \in SUBSET (S \X T), NEW w \in R
    PROVE  w = <<w[1], w[2]>>
OBVIOUS

LEMMA InitTypes == Init => Types
<1> SUFFICES ASSUME Init PROVE Types
  OBVIOUS
<1>1. user \in Users /\ watcher \in Watchers
  BY UserRestingType, ZeroFailures, WatcherRestingType DEF Init
<1>2. variant \in 0..Variants
  BY NodeSessionAssumption DEF Init
<1>3. <<faults, intercepted>> \in Worlds
  <2>1. PICK world \in Worlds : faults = world[1] /\ intercepted = world[2]
    BY DEF Init
  <2> DEFINE FaultSets == SUBSET {"start", "stop", "engine", "deadline", "overlap"}
  <2>2. Worlds \in SUBSET (FaultSets \X (SUBSET Nodes))
    BY NodeSessionAssumption
  <2> HIDE DEF FaultSets
  <2>3. world = <<world[1], world[2]>>
    BY <2>1, <2>2, PairIsItsParts
  <2> QED
    BY <2>1, <2>3
<1> QED
  BY <1>1, <1>2, <1>3 DEF Init, Types, TypeOK, Users, Watchers, Phases, Maybe, GroupStates

\* A connect goes on with what the choice allows, and with one variant more at most.
LEMMA ConnectTypes == Types /\ (BeginConnect \/ Connect \/ GroupMoves) => Types'
<1> SUFFICES ASSUME Types, BeginConnect \/ Connect \/ GroupMoves PROVE Types'
  OBVIOUS
<1> USE DEF Types, TypeOK, Phases, Maybe, GroupStates, env, connect, session, Connecting, Step, Goto
<1>1. CASE BeginConnect
  BY <1>1, NodeSessionAssumption DEF BeginConnect
<1>2. CASE SpawnOwned
  <2>1. automatic' \in BOOLEAN
    BY <1>2, Zenon DEF SpawnOwned
  <2> QED
    BY <1>2, <2>1 DEF SpawnOwned
<1>3. CASE Setup
  BY <1>3 DEF Setup
<1>4. CASE SelectAuto
  BY <1>4 DEF SelectAuto
<1>5. CASE ProbeAuto
  BY <1>5 DEF ProbeAuto
<1>6. CASE AcceptAuto
  BY <1>6, LookupsType DEF AcceptAuto
<1>7. CASE WalkEnds
  BY <1>7 DEF WalkEnds
<1>8. CASE ProbeWalk
  BY <1>8 DEF ProbeWalk
<1>9. CASE AcceptWalk
  BY <1>9 DEF AcceptWalk
<1>10. CASE RetryVariant
  <2>1. variant \in 1..Variants /\ (variant < Variants => variant + 1 \in 1..Variants)
    BY <1>10, NodeSessionAssumption DEF RetryVariant
  <2>2. variant' \in 1..Variants /\ running' \subseteq 1..Variants
    BY <1>10, <2>1 DEF RetryVariant
  <2> QED
    BY <1>10, <2>2 DEF RetryVariant
<1>11. CASE HandBack
  BY <1>11 DEF HandBack
<1>12. ASSUME NEW node \in Nodes, Walk(node) PROVE Types'
  BY <1>12 DEF Walk
<1>13. CASE GroupMoves
  BY <1>13 DEF GroupMoves
<1> QED
  BY <1>1, <1>2, <1>3, <1>4, <1>5, <1>6, <1>7, <1>8, <1>9, <1>10, <1>11, <1>12, <1>13 DEF Connect

\* A choice, and its walk on the live session.
LEMMA UserTypes ==
    Types /\ (UserStep \/ \E chosen \in Choices : SaveSelection(chosen)) => Types'
<1> SUFFICES ASSUME Types, UserStep \/ \E chosen \in Choices : SaveSelection(chosen) PROVE Types'
  OBVIOUS
<1>a. user \in Users
  BY DEF Types, TypeOK, Users
<1>1. CASE CheckSelected
  <2>1. user' \in Users
    BY <1>1, <1>a, UserGotoType DEF CheckSelected, UserPcs
  <2> QED
    BY <1>1, <1>a, <2>1 DEF CheckSelected, Types, TypeOK, Users, ChangeProxy, Moving, env, connect, Maybe, GroupStates
<1>2. CASE SelectCarries
  <2>1. user' \in Users
    BY <1>2, <1>a, UserGotoType DEF SelectCarries, UserPcs
  <2> QED
    BY <1>2, <1>a, <2>1 DEF SelectCarries, Types, TypeOK, Users, ChangeProxy, Moving, env, connect, Maybe, GroupStates
<1>3. CASE SelectFails
  <2>1. user' \in Users
    BY <1>3, <1>a, UserGotoType DEF SelectFails, UserPcs
  <2> QED
    BY <1>3, <1>a, <2>1 DEF SelectFails, Types, TypeOK, Users, ChangeProxy, Moving, env, connect, Maybe, GroupStates
<1>4. CASE RestoreSelection
  <2>1. user' \in Users
    BY <1>4, <1>a, UserGotoType DEF RestoreSelection, UserPcs
  <2> QED
    BY <1>4, <1>a, <2>1 DEF RestoreSelection, Types, TypeOK, Users, ChangeProxy, Moving, env, connect, Maybe, GroupStates
<1>5. CASE RecordSelected
  <2>1. user' \in Users
    BY <1>5, <1>a, UserGotoType DEF RecordSelected, UserPcs
  <2> QED
    BY <1>5, <1>a, <2>1 DEF RecordSelected, Types, TypeOK, Users, ChangeProxy, Moving, env, connect, Maybe, GroupStates
<1>6. CASE SelectionFails
  <2>1. user' \in Users
    BY <1>6, <1>a, UserGotoType DEF SelectionFails, UserPcs
  <2> QED
    BY <1>6, <1>a, <2>1 DEF SelectionFails, Types, TypeOK, Users, ChangeProxy, Moving, env, connect, Maybe, GroupStates
<1>7. ASSUME NEW chosen \in Choices, SaveSelection(chosen) PROVE Types'
  <2>1. user' \in Users
    <3>1. chosen \in SUBSET Nodes /\ 0 \in 0..LiveSwitchAttempts
      BY <1>7, NodeSessionAssumption
    <3>2. user' = user \/ user' = [user EXCEPT !.pc = "check", !.left = chosen, !.tries = 0]
      BY <1>7 DEF SaveSelection
    <3> QED
      BY <3>1, <3>2, <1>a DEF Users, UserPcs
  <2> QED
    BY <1>7, <2>1 DEF SaveSelection, Types, TypeOK, Users, env, connect, session
<1>8. ASSUME NEW node \in Nodes, Select(node) PROVE Types'
  <2>1. user.tries + 1 \in 0..LiveSwitchAttempts
    BY <1>8, <1>a, NodeSessionAssumption DEF Select, Users
  <2>2. selected \in Maybe
    BY DEF Types, TypeOK
  <2>3. user' \in Users
    <3>1. user.left \ {node} \in SUBSET Nodes
      BY <1>a DEF Users
    <3>2. AutoGroup \in GroupStates /\ selected \in GroupStates
      BY <2>2 DEF GroupStates
    <3>3. CASE user' = [pc |-> "probe", left |-> user.left \ {node}, tries |-> user.tries + 1,
                        node |-> node, restore |-> IF automatic THEN AutoGroup ELSE selected]
      <4>1. CASE automatic
        BY <3>1, <3>2, <3>3, <4>1, <1>a, <2>1 DEF Users, UserPcs, Maybe
      <4>2. CASE ~automatic
        BY <3>1, <3>2, <3>3, <4>2, <1>a, <2>1 DEF Users, UserPcs, Maybe
      <4> QED
        BY <4>1, <4>2
    <3>4. CASE user' = [user EXCEPT !.left = @ \ {node}, !.tries = @ + 1]
      BY <3>1, <3>4, <1>a, <2>1 DEF Users
    <3> QED
      BY <1>8, <3>3, <3>4 DEF Select
  <2> QED
    BY <1>8, <2>3 DEF Select, Types, TypeOK, Users, Moving, env, connect, Maybe, GroupStates
<1> QED
  BY <1>1, <1>2, <1>3, <1>4, <1>5, <1>6, <1>7, <1>8 DEF UserStep

\* The checks, and a recovery.
LEMMA WatcherTypes == Types /\ (Tick \/ WatcherStep) => Types'
<1> SUFFICES ASSUME Types, Tick \/ WatcherStep PROVE Types'
  OBVIOUS
<1>a. watcher \in Watchers
  BY DEF Types, TypeOK, Watchers
<1>1. CASE Tick
  <2>1. watcher' \in Watchers
    BY <1>1, <1>a, WatcherGotoType DEF Tick, WatcherPcs, Watchers, Pinned, HandPicked
  <2> QED
    BY <1>1, <1>a, <2>1 DEF Tick, Types, TypeOK, Watchers, ChangeProxy, Moving, env, connect, Maybe, GroupStates
<1>2. CASE Answered
  <2>1. watcher' \in Watchers
    BY <1>2, <1>a, WatcherGotoType DEF Answered, WatcherPcs
  <2> QED
    BY <1>2, <1>a, <2>1 DEF Answered, Types, TypeOK, Watchers, ChangeProxy, Moving, env, connect, Maybe, GroupStates
<1>3. CASE LookUp
  <2>1. watcher' \in Watchers
    BY <1>3, <1>a, WatcherGotoType, LookupsType DEF LookUp, WatcherPcs, Watchers
  <2> QED
    BY <1>3, <1>a, <2>1 DEF LookUp, Types, TypeOK, Watchers, ChangeProxy, Moving, env, connect, Maybe, GroupStates
<1>4. CASE RefreshSelection
  <2>1. watcher' \in Watchers
    BY <1>4, <1>a, WatcherGotoType DEF RefreshSelection, WatcherPcs
  <2> QED
    BY <1>4, <1>a, <2>1 DEF RefreshSelection, Types, TypeOK, Watchers, ChangeProxy, Moving, env, connect, Maybe, GroupStates
<1>5. CASE RecordWatched
  <2>1. watcher' \in Watchers
    BY <1>5, <1>a, WatcherGotoType DEF RecordWatched, WatcherPcs
  <2> QED
    BY <1>5, <1>a, <2>1 DEF RecordWatched, Types, TypeOK, Watchers, ChangeProxy, Moving, env, connect, Maybe, GroupStates
<1>6. CASE Unanswered
  <2>1. watcher' \in Watchers
    <3>1. CASE watcher.failures + 1 < WatchFailures
      <4>1. watcher.failures + 1 \in 0..(WatchFailures - 1)
        BY <1>a, <3>1, NodeSessionAssumption DEF Watchers
      <4> QED
        BY <1>6, <3>1, <4>1, WatcherRestingType DEF Unanswered
    <3>2. CASE ~(watcher.failures + 1 < WatchFailures)
      <4>1. \E label \in {"rest", "recover"} : WatcherGoto(label)
        BY <1>6, <3>2 DEF Unanswered
      <4> QED
        BY <4>1, <1>a, WatcherGotoType DEF WatcherPcs
    <3> QED
      BY <3>1, <3>2
  <2> QED
    BY <1>6, <1>a, <2>1 DEF Unanswered, Types, TypeOK, Watchers, ChangeProxy, Moving, env, connect, Maybe, GroupStates
<1>7. CASE Recover
  <2>1. watcher' \in Watchers
    BY <1>7, <1>a, WatcherGotoType DEF Recover, WatcherPcs, Watchers, Types, TypeOK, Maybe
  <2> QED
    BY <1>7, <1>a, <2>1 DEF Recover, Types, TypeOK, Watchers, ChangeProxy, Moving, env, connect, Maybe, GroupStates
<1>8. CASE RecoverAutomatically
  <2>1. watcher' \in Watchers
    BY <1>8, <1>a, WatcherGotoType DEF RecoverAutomatically, WatcherPcs
  <2> QED
    BY <1>8, <1>a, <2>1 DEF RecoverAutomatically, Types, TypeOK, Watchers, ChangeProxy, Moving, env, connect, Maybe, GroupStates
<1>9. CASE Settle
  <2>1. watcher' \in Watchers
    BY <1>9, <1>a, WatcherGotoType, LookupsType DEF Settle, WatcherPcs, Watchers, Types, TypeOK, Maybe
  <2> QED
    BY <1>9, <1>a, <2>1, LookupsType DEF Settle, Types, TypeOK, Watchers, ChangeProxy, Moving, env, connect, Maybe, GroupStates
<1>10. CASE RecoverProbe
  <2>1. watcher' \in Watchers
    BY <1>10, <1>a, WatcherGotoType DEF RecoverProbe, WatcherPcs
  <2> QED
    BY <1>10, <1>a, <2>1 DEF RecoverProbe, Types, TypeOK, Watchers, ChangeProxy, Moving, env, connect, Maybe, GroupStates
<1>11. CASE GiveBack
  <2>1. watcher' \in Watchers
    BY <1>11, <1>a, WatcherGotoType DEF GiveBack, WatcherPcs
  <2> QED
    BY <1>11, <1>a, <2>1 DEF GiveBack, Types, TypeOK, Watchers, ChangeProxy, Moving, env, connect, Maybe, GroupStates
<1>12. ASSUME NEW node \in Nodes, RecoverWalk(node) PROVE Types'
  <2>1. watcher' \in Watchers
    <3>1. watcher.tried \cup {node} \in SUBSET Nodes /\ node \in Maybe
      BY <1>a DEF Watchers, Maybe
    <3> QED
      BY <1>12, <3>1, <1>a DEF RecoverWalk, Watchers, WatcherPcs
  <2> QED
    BY <1>12, <2>1 DEF RecoverWalk, Types, TypeOK, Watchers, Moving, env, connect, Maybe, GroupStates
<1> QED
  BY <1>1, <1>2, <1>3, <1>4, <1>5, <1>6, <1>7, <1>8, <1>9, <1>10, <1>11, <1>12 DEF WatcherStep

\* All steps keep the types.
LEMMA NextTypes == Types /\ [Next]_vars => Types'
<1>1. Types /\ UNCHANGED vars => Types'
  BY DEF Types, TypeOK, vars, env, connect, session
<1> QED
  BY <1>1, ConnectTypes, UserTypes, WatcherTypes DEF Next

\* The types, for every catalogue, bound and world.
THEOREM TypeCorrect == Spec => []TypeOK
<1>1. Types => TypeOK
  BY DEF Types
<1> QED
  BY <1>1, InitTypes, NextTypes, PTL DEF Spec

-----------------------------------------------------------------------------
(* One engine.                                                               *)

OneEngine == OnlyLastEngineRuns /\ (phase = "idle" => running = {})

\* The variant after next is spawned only when the one before has been confirmed
\* stopped.
LEMMA NextOneEngine == OneEngine /\ [Next]_vars => OneEngine'
<1> SUFFICES ASSUME OneEngine, [Next]_vars PROVE OneEngine'
  OBVIOUS
<1> USE DEF OneEngine, OnlyLastEngineRuns, Connecting, Step, Goto, Moving, connect, session
<1>1. CASE BeginConnect
  BY <1>1 DEF BeginConnect
<1>2. CASE SpawnOwned
  BY <1>2 DEF SpawnOwned
<1>3. CASE RetryVariant \/ HandBack
  BY <1>3 DEF RetryVariant, HandBack
<1>4. CASE Setup \/ SelectAuto \/ ProbeAuto \/ AcceptAuto \/ WalkEnds \/ ProbeWalk \/ AcceptWalk
  BY <1>4 DEF Setup, SelectAuto, ProbeAuto, AcceptAuto, WalkEnds, ProbeWalk, AcceptWalk
<1>5. ASSUME NEW node \in Nodes, Walk(node) PROVE OneEngine'
  BY <1>5 DEF Walk
<1>6. ASSUME UNCHANGED connect PROVE OneEngine'
  BY <1>6
<1>7. CASE GroupMoves \/ UserStep \/ Tick \/ WatcherStep \/ UNCHANGED vars
  BY <1>6, <1>7
  DEF GroupMoves, UserStep, CheckSelected, SelectCarries, SelectFails, RestoreSelection,
      RecordSelected, SelectionFails, Select, Tick, WatcherStep, Answered, LookUp,
      RefreshSelection, RecordWatched, Unanswered, Recover, RecoverAutomatically, Settle,
      RecoverProbe, GiveBack, RecoverWalk, vars
<1>8. ASSUME NEW chosen \in Choices, SaveSelection(chosen) PROVE OneEngine'
  BY <1>6, <1>8 DEF SaveSelection
<1> QED
  BY <1>1, <1>2, <1>3, <1>4, <1>5, <1>7, <1>8 DEF Next, Connect

\* Whatever fails, no variant is started over an engine that may still run, and a
\* connect hands back one engine at most (fragments.go:14-15, 72-86).
THEOREM OneEngineAtATime == Spec => []OnlyLastEngineRuns
<1>1. Init => OneEngine
  BY DEF Init, OneEngine, OnlyLastEngineRuns
<1>2. OneEngine => OnlyLastEngineRuns
  BY DEF OneEngine
<1> QED
  BY <1>1, <1>2, NextOneEngine, PTL DEF Spec

-----------------------------------------------------------------------------
(* The session and the engine agree.                                         *)

Undisturbed == faults \cap {"engine", "deadline", "overlap"} = {}

\* Who chooses: the group, or the session.
Chosen == IF automatic THEN AutoGroup ELSE selected
HasNode == automatic \/ selected \in Nodes
Agrees == group = Chosen /\ shown = selected /\ HasNode

\* Before there is a session nobody moves it, and then one of the two at a time.
InTurn ==
    /\ phase # "ready" => AtRest
    /\ user.pc = "rest" \/ watcher.pc = "rest"

\* A connect that asks the group to choose is automatic.
ConnectKnows ==
    /\ phase \in {"auto", "autoProbe", "autoAccept"} => automatic
    /\ phase \in {"autoProbe", "autoAccept"} => group = AutoGroup

\* What a choice on the live session knows where it is.
UserKnows ==
    /\ user.pc \in {"check", "next"} => Agrees
    /\ user.pc \in {"probe", "restore"} =>
            /\ shown = selected /\ HasNode
            /\ user.restore = Chosen
    /\ user.pc = "probe" => group = user.node /\ user.node \in Nodes
    /\ user.pc = "record" =>
            ~automatic /\ selected = user.node /\ group = user.node /\ user.node \in Nodes

\* What the watchdog knows where it is.
WatcherKnows ==
    /\ watcher.pc \in {"probe", "lookup", "assign", "recover", "autoProbe", "settle"} => Agrees
    /\ watcher.pc \in {"lookup", "assign", "autoProbe", "settle"} => automatic
    /\ watcher.pc = "record" => group = Chosen /\ HasNode /\ selected = watcher.node
    /\ watcher.pc \in {"walk", "walkProbe"} =>
            ~automatic /\ shown = selected /\ watcher.previous = selected /\ selected \in Nodes
    /\ watcher.pc = "walkProbe" => group = watcher.node /\ watcher.node \in Nodes

Known == phase = "ready" => UserKnows /\ WatcherKnows /\ (AtRest => Agrees)

Agreement == Undisturbed => InTurn /\ ConnectKnows /\ Known

\* A connect hands over a session that agrees with its engine.
LEMMA ConnectAgreement ==
    Types /\ Agreement /\ (BeginConnect \/ Connect \/ GroupMoves) => Agreement'
<1> SUFFICES ASSUME Types, InTurn, ConnectKnows, Known, Undisturbed,
                    BeginConnect \/ Connect \/ GroupMoves
             PROVE  InTurn' /\ ConnectKnows' /\ Known'
  BY DEF Agreement, Undisturbed, BeginConnect, Connect, GroupMoves, env, Connecting, SpawnOwned,
     Setup, SelectAuto, ProbeAuto, AcceptAuto, Walk, WalkEnds, ProbeWalk, AcceptWalk, RetryVariant,
     HandBack, Step
<1> USE DEF Types, TypeOK, InTurn, ConnectKnows, Known, AtRest, Connecting, Step, Goto, Undisturbed, MayFail, env
<1>1. ASSUME phase # "ready", phase' # "ready", UNCHANGED <<user, watcher>>, ConnectKnows'
      PROVE  InTurn' /\ ConnectKnows' /\ Known'
  BY <1>1
<1>2. CASE BeginConnect \/ SpawnOwned
  BY <1>1, <1>2 DEF BeginConnect, SpawnOwned
<1>3. CASE Setup
  BY <1>1, <1>3 DEF Setup
<1>4. CASE SelectAuto \/ ProbeAuto
  BY <1>1, <1>4 DEF SelectAuto, ProbeAuto
<1>5. CASE AcceptAuto
  <2>1. CASE phase' = "ready"
    <3>1. AtRest' /\ automatic' /\ group' = AutoGroup /\ shown' = selected'
      BY <1>5, <2>1 DEF AcceptAuto
    <3> QED
      BY <2>1, <3>1 DEF UserKnows, WatcherKnows, Agrees, Chosen, HasNode
  <2>2. CASE phase' # "ready"
    BY <1>1, <1>5, <2>2 DEF AcceptAuto
  <2> QED
    BY <2>1, <2>2
<1>6. CASE AcceptWalk
  <2>1. CASE phase' = "ready"
    <3>1. AtRest' /\ ~automatic' /\ group' = selected' /\ shown' = selected' /\ selected' \in Nodes
      BY <1>6, <2>1 DEF AcceptWalk
    <3> QED
      BY <2>1, <3>1 DEF UserKnows, WatcherKnows, Agrees, Chosen, HasNode
  <2>2. CASE phase' # "ready"
    BY <1>1, <1>6, <2>2 DEF AcceptWalk
  <2> QED
    BY <2>1, <2>2
<1>7. ASSUME NEW node \in Nodes, Walk(node) PROVE InTurn' /\ ConnectKnows' /\ Known'
  BY <1>1, <1>7 DEF Walk
<1>8. CASE WalkEnds \/ ProbeWalk
  BY <1>1, <1>8 DEF WalkEnds, ProbeWalk
<1>9. CASE RetryVariant \/ HandBack
  BY <1>1, <1>9 DEF RetryVariant, HandBack, session
<1>10. CASE GroupMoves
  BY <1>10 DEF GroupMoves, session, connect, UserKnows, WatcherKnows, Agrees, Chosen, HasNode
<1> QED
  BY <1>2, <1>3, <1>4, <1>5, <1>6, <1>7, <1>8, <1>9, <1>10 DEF Connect

\* A choice on the live session puts back what was there, or has the session name
\* the node that the group is on.
LEMMA UserAgreement ==
    Types /\ Agreement /\ (UserStep \/ \E chosen \in Choices : SaveSelection(chosen)) => Agreement'
<1> SUFFICES ASSUME Types, InTurn, ConnectKnows, Known, Undisturbed,
                    UserStep \/ \E chosen \in Choices : SaveSelection(chosen)
             PROVE  InTurn' /\ ConnectKnows' /\ Known'
  BY DEF Agreement, Undisturbed, UserStep, SaveSelection, Moving, env, CheckSelected, SelectCarries, SelectFails,
     RestoreSelection, RecordSelected, SelectionFails, Select
<1> USE DEF InTurn, ConnectKnows, Known, AtRest, Moving, Undisturbed, MayFail, env, connect,
     UserKnows, WatcherKnows, Agrees, Chosen, HasNode, UserResting, UserGoto
<1>0. user \in Users /\ AutoGroup \notin Nodes \cup {None} /\ None \notin Nodes
  BY NodeSessionAssumption DEF Types, TypeOK, Users
<1>1. CASE CheckSelected
  BY <1>0, <1>1 DEF CheckSelected, Users
<1>2. CASE SelectCarries
  BY <1>0, <1>2 DEF SelectCarries, Users
<1>3. CASE SelectFails
  BY <1>0, <1>3 DEF SelectFails, Users
<1>4. CASE RestoreSelection
  BY <1>0, <1>4 DEF RestoreSelection, Users, ChangeProxy
<1>5. CASE RecordSelected
  BY <1>0, <1>5 DEF RecordSelected, Users
<1>6. CASE SelectionFails
  BY <1>0, <1>6 DEF SelectionFails, Users
<1>7. ASSUME NEW chosen \in Choices, SaveSelection(chosen) PROVE InTurn' /\ ConnectKnows' /\ Known'
  BY <1>0, <1>7 DEF SaveSelection, MayBegin, session, Users
<1>8. ASSUME NEW node \in Nodes, Select(node) PROVE InTurn' /\ ConnectKnows' /\ Known'
  BY <1>0, <1>8 DEF Select, Users
<1> QED
  BY <1>1, <1>2, <1>3, <1>4, <1>5, <1>6, <1>7, <1>8 DEF UserStep

\* So do a check and a recovery.
LEMMA WatcherAgreement == Types /\ Agreement /\ (Tick \/ WatcherStep) => Agreement'
<1> SUFFICES ASSUME Types, InTurn, ConnectKnows, Known, Undisturbed, Tick \/ WatcherStep
             PROVE  InTurn' /\ ConnectKnows' /\ Known'
  BY DEF Agreement, Undisturbed, Tick, WatcherStep, Moving, env, Answered, LookUp, RefreshSelection,
     RecordWatched, Unanswered, Recover, RecoverAutomatically, Settle, RecoverProbe, GiveBack, RecoverWalk
<1> USE DEF InTurn, ConnectKnows, Known, AtRest, Moving, Undisturbed, MayFail, env, connect,
     UserKnows, WatcherKnows, Agrees, Chosen, HasNode, WatcherResting, WatcherGoto
<1>0. watcher \in Watchers /\ AutoGroup \notin Nodes /\ None \notin Nodes
  BY NodeSessionAssumption DEF Types, TypeOK, Watchers
<1>1. CASE Tick
  BY <1>0, <1>1 DEF Tick, Watchers, MayBegin
<1>2. CASE Answered
  BY <1>0, <1>2 DEF Answered, Watchers
<1>3. CASE LookUp
  BY <1>0, <1>3 DEF LookUp, Watchers
<1>4. CASE RefreshSelection
  BY <1>0, <1>4 DEF RefreshSelection, Watchers
<1>5. CASE RecordWatched
  BY <1>0, <1>5 DEF RecordWatched, Watchers
<1>6. CASE Unanswered
  BY <1>0, <1>6 DEF Unanswered, Watchers
<1>7. CASE Recover
  BY <1>0, <1>7 DEF Recover, Watchers
<1>8. CASE RecoverAutomatically
  BY <1>0, <1>8 DEF RecoverAutomatically, Watchers
<1>9. CASE Settle
  BY <1>0, <1>9 DEF Settle, Watchers
<1>10. CASE RecoverProbe
  BY <1>0, <1>10 DEF RecoverProbe, Watchers
<1>11. CASE GiveBack
  BY <1>0, <1>11 DEF GiveBack, Watchers, ChangeProxy
<1>12. ASSUME NEW node \in Nodes, RecoverWalk(node) PROVE InTurn' /\ ConnectKnows' /\ Known'
  BY <1>0, <1>12 DEF RecoverWalk, Watchers
<1> QED
  BY <1>1, <1>2, <1>3, <1>4, <1>5, <1>6, <1>7, <1>8, <1>9, <1>10, <1>11, <1>12 DEF WatcherStep

LEMMA NextAgreement == Types /\ Agreement /\ [Next]_vars => Agreement'
<1>1. Agreement /\ UNCHANGED vars => Agreement'
  BY DEF vars, env, connect, session, Agreement, Undisturbed, InTurn, ConnectKnows, Known, AtRest, UserKnows, WatcherKnows,
     Agrees, Chosen, HasNode
<1> QED
  BY <1>1, ConnectAgreement, UserAgreement, WatcherAgreement DEF Next

\* When nobody interferes and nothing is on the move, the group is on what the session
\* says, and that is what is shown, whatever the probes and lookups found on the way
\* (session.go:562-567, 640-676).
THEOREM SessionsAgree == Spec => []SessionAgrees
<1>1. Init => Agreement
  BY DEF Init, Agreement, InTurn, ConnectKnows, Known, AtRest, UserResting, WatcherResting
<1>2. Agreement => SessionAgrees
  BY DEF Agreement, SessionAgrees, Undisturbed, Known, Agrees, Chosen
<1> QED
  BY <1>1, <1>2, InitTypes, NextTypes, NextAgreement, PTL DEF Spec

-----------------------------------------------------------------------------
(* A node picked by hand is kept.                                            *)

Recovering == {"recover", "autoProbe", "settle", "walk", "walkProbe"}

\* The watchdog knows that the node was picked by hand before it could move off it.
PinKnown ==
    ~MayFail("overlap") /\ HandPicked =>
        /\ watcher.pc \notin Recovering
        /\ watcher.pc = "probe" => watcher.pinned

LEMMA NextPinKnown == Types /\ PinKnown /\ [Next]_vars => PinKnown'
<1> SUFFICES ASSUME Types, PinKnown, [Next]_vars PROVE PinKnown'
  OBVIOUS
<1> USE DEF PinKnown, Recovering, HandPicked, MayFail, env, Moving
<1>0. watcher \in Watchers
  BY DEF Types, TypeOK, Watchers
<1>1. CASE UNCHANGED <<env, choice, watcher>>
  BY <1>1
<1>2. CASE BeginConnect \/ GroupMoves \/ UserStep \/ UNCHANGED vars
  BY <1>1, <1>2
  DEF BeginConnect, GroupMoves, UserStep, CheckSelected, SelectCarries, SelectFails,
      RestoreSelection, RecordSelected, SelectionFails, Select, vars
<1>3. CASE Connect
  BY <1>1, <1>3
  DEF Connect, Connecting, Step, SpawnOwned, Setup, SelectAuto, ProbeAuto, AcceptAuto, Walk, WalkEnds,
      ProbeWalk, AcceptWalk, RetryVariant, HandBack
<1>4. ASSUME NEW chosen \in Choices, SaveSelection(chosen) PROVE PinKnown'
  BY <1>4 DEF SaveSelection, MayBegin
<1>5. CASE Tick
  BY <1>0, <1>5 DEF Tick, Pinned, Watchers
<1>6. CASE Answered \/ RecordWatched \/ Unanswered
  BY <1>0, <1>6 DEF Answered, RecordWatched, Unanswered, WatcherGoto, WatcherResting, Watchers
<1>7. CASE LookUp \/ RefreshSelection
  BY <1>0, <1>7 DEF LookUp, RefreshSelection, WatcherGoto, WatcherResting, Watchers
<1>8. CASE Recover \/ RecoverAutomatically \/ Settle \/ RecoverProbe \/ GiveBack
  BY <1>0, <1>8 DEF Recover, RecoverAutomatically, Settle, RecoverProbe, GiveBack, WatcherGoto, WatcherResting,
     Watchers
<1>9. ASSUME NEW node \in Nodes, RecoverWalk(node) PROVE PinKnown'
  BY <1>0, <1>9 DEF RecoverWalk, Watchers
<1> QED
  BY <1>2, <1>3, <1>4, <1>5, <1>6, <1>7, <1>8, <1>9 DEF Next, WatcherStep

\* One step of anybody leaves the group on a node that was picked by hand.
LEMMA PinnedStays ==
    ASSUME Types, PinKnown, [Next]_vars, NEW n \in Nodes,
           choice = {n}, phase = "ready", user.pc = "rest", group = n, ~MayFail("overlap")
    PROVE  group' = n
<1>1. HandPicked
  BY FS_Singleton DEF HandPicked
<1>2. watcher.pc \notin Recovering
  BY <1>1 DEF PinKnown
<1>3. ~Connect
  BY DEF Connect, Step, SpawnOwned, Setup, SelectAuto, ProbeAuto, AcceptAuto, Walk, WalkEnds,
     ProbeWalk, AcceptWalk, RetryVariant, HandBack
<1>4. ~UserStep
  BY DEF UserStep, CheckSelected, SelectCarries, SelectFails, RestoreSelection, RecordSelected,
     SelectionFails, Select
<1>5. CASE BeginConnect \/ GroupMoves \/ Tick \/ \E chosen \in Choices : SaveSelection(chosen)
  BY <1>5 DEF BeginConnect, GroupMoves, Tick, SaveSelection
<1>6. CASE WatcherStep
  BY <1>2, <1>6
  DEF Recovering, WatcherStep, Answered, LookUp, RefreshSelection, RecordWatched, Unanswered, Recover,
      RecoverAutomatically, Settle, RecoverProbe, GiveBack, RecoverWalk
<1>7. CASE UNCHANGED vars
  BY <1>7 DEF vars
<1> QED
  BY <1>3, <1>4, <1>5, <1>6, <1>7 DEF Next

\* As long as the user's call and the watchdog do not overlap, a node picked by hand is
\* kept until the user chooses again (mihomo_watchdog.go:83-89).
THEOREM HandPickedStays == Spec => HandPickedIsKept
<1>1. Init => PinKnown
  BY DEF Init, PinKnown, Recovering, WatcherResting
<1>2. Types /\ PinKnown /\ [Next]_vars =>
        [\A n \in Nodes :
            choice = {n} /\ phase = "ready" /\ user.pc = "rest" /\ group = n /\ ~MayFail("overlap")
                => group' = n]_vars
  BY PinnedStays
<1> QED
  BY <1>1, <1>2, InitTypes, NextTypes, NextPinKnown, PTL DEF Spec, HandPickedIsKept
=============================================================================
