----------------------------- MODULE NodeSession -----------------------------
(***************************************************************************)
(* A session and the node it uses (internal/session): the variants and nodes   *)
(* a connect tries, then, on the live session, the two who move it: the user,  *)
(* through SaveWhiteVPNSelection, and the watchdog (mihomo_watchdog.go).       *)
(*                                                                          *)
(* The engine has a select group, which is on a node or on the automatic       *)
(* group, and an automatic group with a pick of its own.  What a probe finds   *)
(* is up to the network.  The measured order of the nodes is any order.        *)
(***************************************************************************)
EXTENDS FiniteSets, Naturals

CONSTANTS
    Nodes,        \* the nodes of the catalogue that are not hidden
    Choices,      \* what the user may choose: all nodes, which is Automatic, one
                  \* node, picked by hand, or those of a country or of a type
    Variants,     \* how many variants of the fragment settings are tried
    MaxAttempts,  \* the nodes a connect tries, ...
    LiveSwitchAttempts, \* ... a choice on a live session, ...
    WatchAttempts,      \* ... and a recovery
    WatchFailures,      \* the checks in a row that lead to a recovery
    Worlds,       \* what goes wrong together, <<faults, intercepted>>: faults among "start",
                  \* "stop", "engine", "deadline" and "overlap", by which the user and the
                  \* watchdog move the session at once, and the nodes whose certificates
                  \* do not verify
    AutoGroup, None

ASSUME NodeSessionAssumption ==
    /\ IsFiniteSet(Nodes)
    /\ Choices \subseteq SUBSET Nodes /\ Nodes \in Choices
    /\ {Variants, MaxAttempts, LiveSwitchAttempts, WatchAttempts, WatchFailures} \subseteq Nat \ {0}
    /\ AutoGroup \notin Nodes \cup {None} /\ None \notin Nodes
    /\ Worlds \subseteq (SUBSET {"start", "stop", "engine", "deadline", "overlap"}) \X (SUBSET Nodes)

VARIABLES
    faults,      \* what may go wrong in this behaviour, ...
    intercepted, \* ... and with which nodes
    choice,      \* the stored selection
    phase,       \* the connect: ConnectOwned, connectOwnedOnce and start
    variant,     \* the variant of the settings that is being tried
    running,     \* the variants whose engine has not been confirmed stopped
    candidates,  \* Session.candidates
    automatic,   \* Session.automatic
    selected,    \* Session.selected
    group,       \* what the engine's select group is on
    pick,        \* what its automatic group is on
    tried,       \* the nodes that the walk of the connect has tried
    shown,       \* Runtime.NodeName
    user,        \* applySelectionToLiveSession and Select
    watcher      \* watchHealth, RefreshSelection and Recover

session == <<candidates, automatic, selected>>
connect == <<phase, variant, running, tried>>
env == <<faults, intercepted>>
vars == <<env, choice, connect, session, group, pick, shown, user, watcher>>

Maybe == Nodes \cup {None}
GroupStates == Maybe \cup {AutoGroup}
MayFail(fault) == fault \in faults

Phases == {"idle", "spawn", "setup", "auto", "autoProbe", "autoAccept", "walk", "walkProbe",
           "walkAccept", "failed", "ready", "lost"}

UserPcs == {"rest", "check", "next", "probe", "restore", "record"}
WatcherPcs == {"rest", "probe", "lookup", "assign", "record", "recover", "autoProbe", "settle",
               "walk", "walkProbe"}

TypeOK ==
    /\ <<faults, intercepted>> \in Worlds /\ choice \in Choices
    /\ phase \in Phases
    /\ variant \in 0..Variants /\ running \subseteq 1..Variants
    /\ candidates \subseteq Nodes /\ automatic \in BOOLEAN /\ selected \in Maybe
    /\ group \in GroupStates /\ pick \in Maybe
    /\ tried \subseteq Nodes
    /\ shown \in Maybe
    /\ user \in [pc : UserPcs, left : SUBSET Nodes, tries : 0..LiveSwitchAttempts,
                 node : Maybe, restore : GroupStates]
    /\ watcher \in [pc : WatcherPcs, failures : 0..(WatchFailures - 1), pinned : BOOLEAN,
                    tried : SUBSET Nodes, node : Maybe, previous : Maybe]

\* Between calls nothing is remembered but the checks that failed.
UserResting == [pc |-> "rest", left |-> {}, tries |-> 0, node |-> None, restore |-> None]
WatcherResting(failures) ==
    [pc |-> "rest", failures |-> failures, pinned |-> FALSE, tried |-> {}, node |-> None, previous |-> None]

AtRest == user.pc = "rest" /\ watcher.pc = "rest"

Init ==
    /\ \E world \in Worlds : faults = world[1] /\ intercepted = world[2]
    /\ choice \in Choices
    /\ phase = "idle" /\ variant = 0 /\ running = {}
    /\ candidates = {} /\ automatic = FALSE /\ selected = None
    /\ group = None /\ pick = None /\ tried = {} /\ shown = None
    /\ user = UserResting /\ watcher = WatcherResting(0)

-----------------------------------------------------------------------------
(* The engine's groups.                                                      *)

\* resolveGroup follows the groups to the node that carries the traffic.
Carrying == IF group = AutoGroup THEN pick ELSE group

\* The automatic group measures and moves by itself.
GroupMoves ==
    /\ running # {} /\ pick' \in Nodes
    /\ UNCHANGED <<env, choice, connect, session, group, shown, user, watcher>>

\* ChangeProxy, which the engine may refuse.
ChangeProxy(node) ==
    \/ group' = node
    \/ MayFail("engine") /\ UNCHANGED group

\* resolveSelection: no answer, or a group that has not settled, is no node.
Lookups == {Carrying, None} \cap Maybe

-----------------------------------------------------------------------------
(* connectOwnedOnce and start, one variant after the other.                   *)

Connecting == UNCHANGED <<env, choice, pick, user, watcher>>

\* The settings are read once, when the connect begins.
BeginConnect ==
    /\ phase = "idle"
    /\ candidates' = choice /\ variant' = 1 /\ phase' = "spawn"
    /\ UNCHANGED <<env, choice, running, automatic, selected, group, pick, tried, shown, user, watcher>>

\* The engine starts on the first member of its select group.
SpawnOwned ==
    /\ phase = "spawn"
    /\ tried' = {} /\ selected' = None
    /\ automatic' = (candidates = Nodes)
    /\ \/ /\ running' = running \cup {variant} /\ group' = AutoGroup
          /\ phase' = "setup" \/ (MayFail("start") /\ phase' = "failed")
       \/ MayFail("start") /\ phase' = "failed" /\ UNCHANGED <<running, group>>
    /\ Connecting /\ UNCHANGED <<variant, candidates, shown>>

Goto(label) == phase' = label
Step(from, label) ==
    phase = from /\ Goto(label) /\ Connecting /\ UNCHANGED <<variant, running, candidates, shown>>

\* The engine is set up and a sample of the nodes measured.
Setup ==
    \/ Step("setup", IF automatic THEN "auto" ELSE "walk") /\ UNCHANGED <<automatic, selected, group, tried>>
    \/ MayFail("start") /\ Step("setup", "failed") /\ UNCHANGED <<automatic, selected, group, tried>>

SelectAuto ==
    /\ \/ group' = AutoGroup /\ Step("auto", "autoProbe")
       \/ MayFail("engine") /\ UNCHANGED group /\ Step("auto", "walk")
    /\ UNCHANGED <<automatic, selected, tried>>

ProbeAuto ==
    /\ Step("autoProbe", "walk") \/ (pick # None /\ Step("autoProbe", "autoAccept"))
    /\ UNCHANGED <<automatic, selected, group, tried>>

\* acceptHealthy: the certificates, and the tunnel if there is one.
AcceptAuto ==
    /\ \/ Carrying \in intercepted /\ Step("autoAccept", "walk") /\ UNCHANGED selected
       \/ Carrying \notin intercepted /\ MayFail("start") /\ Step("autoAccept", "failed") /\ UNCHANGED selected
       \/ /\ Carrying \notin intercepted /\ selected' \in Lookups
          /\ phase = "autoAccept" /\ Goto("ready") /\ shown' = selected'
          /\ Connecting /\ UNCHANGED <<variant, running, candidates>>
    /\ UNCHANGED <<automatic, group, tried>>

\* The nodes are walked in the order of their delays, each tried once.
Walk(node) ==
    /\ node \in candidates \ tried /\ Cardinality(tried) < MaxAttempts
    /\ tried' = tried \cup {node}
    /\ \/ group' = node /\ Step("walk", "walkProbe")
       \/ MayFail("engine") /\ UNCHANGED group /\ Step("walk", "walk")
    /\ UNCHANGED <<automatic, selected>>

WalkEnds ==
    /\ candidates \subseteq tried \/ Cardinality(tried) >= MaxAttempts
    /\ Step("walk", "failed") /\ tried' = {}
    /\ UNCHANGED <<automatic, selected, group>>

\* The connect may be stopped meanwhile, which ends the walk.
ProbeWalk ==
    /\ \/ (Step("walkProbe", "walkAccept") \/ Step("walkProbe", "walk")) /\ UNCHANGED tried
       \/ MayFail("deadline") /\ Step("walkProbe", "failed") /\ tried' = {}
    /\ UNCHANGED <<automatic, selected, group>>

\* The group is on this node now, so the engine does not choose any more.
AcceptWalk ==
    /\ \/ group \in intercepted /\ Step("walkAccept", "walk") /\ UNCHANGED <<automatic, selected, tried>>
       \/ /\ group \notin intercepted /\ MayFail("start") /\ Step("walkAccept", "failed")
          /\ tried' = {} /\ UNCHANGED <<automatic, selected>>
       \/ /\ group \notin intercepted /\ group \in Nodes
          /\ automatic' = FALSE /\ selected' = group /\ shown' = group /\ tried' = {}
          /\ phase = "walkAccept" /\ Goto("ready")
          /\ Connecting /\ UNCHANGED <<variant, running, candidates>>
    /\ UNCHANGED group

RetryAtOnce == \* a mutant of:
    /\ phase = "failed" /\ variant < Variants
    /\ variant' = variant + 1 /\ Goto("spawn")
    /\ Connecting /\ UNCHANGED <<running, session, group, tried, shown>>

\* The next variant is tried once the engine of this one is known to be gone.
RetryVariant ==
    /\ phase = "failed" /\ variant < Variants
    /\ \/ running' = running \ {variant} /\ variant' = variant + 1 /\ Goto("spawn")
       \/ MayFail("stop") /\ running # {} /\ Goto("lost") /\ UNCHANGED <<running, variant>>
    /\ Connecting /\ UNCHANGED <<session, group, tried, shown>>

\* The last one has failed, or the connect was stopped: the session is handed back
\* with its error, for the caller to close.
HandBack ==
    /\ phase = "failed" /\ (variant = Variants \/ MayFail("deadline"))
    /\ Goto("lost")
    /\ Connecting /\ UNCHANGED <<variant, running, session, group, tried, shown>>

-----------------------------------------------------------------------------
(* SaveWhiteVPNSelection on whatever runs, and Session.Select.                *)

MayBegin(other) == MayFail("overlap") \/ other.pc = "rest"
UserGoto(label) ==
    user' = CASE label = "rest" -> UserResting
              [] label = "next" -> [user EXCEPT !.pc = label, !.node = None, !.restore = None]
              [] OTHER -> [user EXCEPT !.pc = label]
Moving == UNCHANGED <<env, choice, connect, candidates, pick>>

\* The choice is stored, and applied to the session that is there.
SaveSelection(chosen) ==
    /\ user.pc = "rest" /\ chosen # choice
    /\ MayBegin(watcher) /\ (MayFail("overlap") \/ phase \in {"idle", "ready", "lost"})
    /\ choice' = chosen
    /\ user' = IF phase = "ready" /\ chosen # Nodes
               THEN [user EXCEPT !.pc = "check", !.left = chosen, !.tries = 0] ELSE user
    /\ UNCHANGED <<env, connect, session, group, pick, shown, watcher>>

\* A node that the choice allows is left alone.
CheckSelected ==
    /\ user.pc = "check"
    /\ UserGoto(IF selected \in user.left THEN "rest" ELSE "next")
    /\ Moving /\ UNCHANGED <<automatic, selected, group, shown, watcher>>

SelectRestoringNode(node) == \* a mutant of:
    /\ user.pc = "next" /\ node \in user.left /\ user.tries < LiveSwitchAttempts
    /\ group' = node
    /\ user' = [user EXCEPT !.pc = "probe", !.left = @ \ {node}, !.tries = @ + 1,
                            !.node = node, !.restore = selected]
    /\ Moving /\ UNCHANGED <<automatic, selected, shown, watcher>>

\* Select remembers what to put back, which is the group when that was choosing.
Select(node) ==
    /\ user.pc = "next" /\ node \in user.left /\ user.tries < LiveSwitchAttempts
    /\ \/ /\ group' = node
          /\ user' = [pc |-> "probe", left |-> user.left \ {node}, tries |-> user.tries + 1,
                      node |-> node, restore |-> IF automatic THEN AutoGroup ELSE selected]
       \/ /\ MayFail("engine") \/ MayFail("deadline")
          /\ UNCHANGED group
          /\ user' = [user EXCEPT !.left = @ \ {node}, !.tries = @ + 1]
    /\ Moving /\ UNCHANGED <<automatic, selected, shown, watcher>>

SelectCarries ==
    /\ user.pc = "probe"
    /\ automatic' = FALSE /\ selected' = user.node
    /\ UserGoto("record")
    /\ Moving /\ UNCHANGED <<group, shown, watcher>>

SelectFails ==
    /\ user.pc = "probe"
    /\ UserGoto(IF user.restore \in {None, user.node} THEN "next" ELSE "restore")
    /\ Moving /\ UNCHANGED <<automatic, selected, group, shown, watcher>>

\* Under the deadline of the whole call, which may have passed.
RestoreSelection ==
    /\ user.pc = "restore"
    /\ ChangeProxy(user.restore) \/ (MayFail("deadline") /\ UNCHANGED group)
    /\ UserGoto("next")
    /\ Moving /\ UNCHANGED <<automatic, selected, shown, watcher>>

RecordSelected ==
    /\ user.pc = "record"
    /\ shown' = user.node
    /\ UserGoto("rest")
    /\ Moving /\ UNCHANGED <<automatic, selected, group, watcher>>

\* No node of the choice carried traffic, which the user is told.
SelectionFails ==
    /\ user.pc = "next" /\ (user.left = {} \/ user.tries = LiveSwitchAttempts)
    /\ UserGoto("rest")
    /\ Moving /\ UNCHANGED <<automatic, selected, group, shown, watcher>>

-----------------------------------------------------------------------------
(* watchHealth, RefreshSelection, and Recover.                                *)

WatcherGoto(label) ==
    watcher' = [IF label \in {"rest", "lookup", "recover"} THEN WatcherResting(0) ELSE watcher
                EXCEPT !.pc = label]
HandPicked == Cardinality(choice) = 1

NeverPinned == FALSE \* a mutant of:
Pinned == HandPicked

\* A tick reads the settings and then probes.
Tick ==
    /\ phase = "ready" /\ watcher.pc = "rest" /\ MayBegin(user)
    /\ watcher' = [watcher EXCEPT !.pc = "probe", !.pinned = Pinned]
    /\ Moving /\ UNCHANGED <<automatic, selected, group, shown, user>>

\* Only under automatic selection is the name read again.
Answered ==
    /\ watcher.pc = "probe"
    /\ WatcherGoto(IF automatic THEN "lookup" ELSE "rest")
    /\ Moving /\ UNCHANGED <<automatic, selected, group, shown, user>>

LookUp ==
    /\ watcher.pc = "lookup"
    /\ \E name \in Lookups : watcher' = [watcher EXCEPT !.pc = "assign", !.node = name]
    /\ Moving /\ UNCHANGED <<automatic, selected, group, shown, user>>

AssignUnrecorded == \* a mutant of:
    /\ watcher.pc = "assign"
    /\ WatcherGoto("rest") /\ selected' = IF watcher.node = None THEN selected ELSE watcher.node
    /\ Moving /\ UNCHANGED <<automatic, group, shown, user>>

\* A lookup without an answer changes nothing.
RefreshSelection ==
    /\ watcher.pc = "assign"
    /\ IF watcher.node \in {None, selected}
       THEN WatcherGoto("rest") /\ UNCHANGED selected
       ELSE WatcherGoto("record") /\ selected' = watcher.node
    /\ Moving /\ UNCHANGED <<automatic, group, shown, user>>

RecordWatched ==
    /\ watcher.pc = "record"
    /\ shown' = watcher.node
    /\ WatcherGoto("rest")
    /\ Moving /\ UNCHANGED <<automatic, selected, group, user>>

\* One check may fail; a node picked by hand is not moved off.
Unanswered ==
    /\ watcher.pc = "probe"
    /\ IF watcher.failures + 1 < WatchFailures
       THEN watcher' = WatcherResting(watcher.failures + 1)
       ELSE WatcherGoto(IF watcher.pinned THEN "rest" ELSE "recover")
    /\ Moving /\ UNCHANGED <<automatic, selected, group, shown, user>>

\* The automatic group is told to choose again, or the other nodes are walked.
Recover ==
    /\ watcher.pc = "recover"
    /\ IF automatic
       THEN \/ group' = AutoGroup
               /\ watcher' = [watcher EXCEPT !.pc = "autoProbe", !.previous = selected]
            \/ MayFail("engine") /\ UNCHANGED group /\ WatcherGoto("rest")
       ELSE /\ UNCHANGED group
            /\ watcher' = [watcher EXCEPT !.pc = "walk", !.previous = selected, !.tried = {}]
    /\ Moving /\ UNCHANGED <<automatic, selected, shown, user>>

RecoverAutomatically ==
    /\ watcher.pc = "autoProbe"
    /\ WatcherGoto("rest") \/ WatcherGoto("settle")
    /\ Moving /\ UNCHANGED <<automatic, selected, group, shown, user>>

Settle ==
    /\ watcher.pc = "settle"
    /\ \E name \in Lookups :
        /\ selected' = IF name = None THEN watcher.previous ELSE name
        /\ watcher' = [watcher EXCEPT !.pc = "record", !.node = selected']
    /\ Moving /\ UNCHANGED <<automatic, group, shown, user>>

\* recoveryOrder: the other candidates, up to a number of them, each tried once.
RecoverWalk(node) ==
    /\ watcher.pc = "walk" /\ node \in candidates \ (watcher.tried \cup {watcher.previous})
    /\ Cardinality(watcher.tried) < WatchAttempts
    /\ \/ /\ group' = node
          /\ watcher' = [watcher EXCEPT !.pc = "walkProbe", !.tried = @ \cup {node}, !.node = node]
       \/ /\ MayFail("engine") /\ UNCHANGED group
          /\ watcher' = [watcher EXCEPT !.tried = @ \cup {node}]
    /\ Moving /\ UNCHANGED <<automatic, selected, shown, user>>

RecoverProbe ==
    /\ watcher.pc = "walkProbe"
    /\ \/ WatcherGoto("walk") /\ UNCHANGED selected
       \/ WatcherGoto("record") /\ selected' = watcher.node
    /\ Moving /\ UNCHANGED <<automatic, group, shown, user>>

\* Nothing else carried traffic, or the recovery took too long: the previous node is
\* put back, with time of its own.
GiveBack ==
    /\ watcher.pc = "walk"
    /\ \/ candidates \subseteq watcher.tried \cup {watcher.previous}
       \/ Cardinality(watcher.tried) = WatchAttempts
       \/ MayFail("deadline")
    /\ IF watcher.previous = None THEN UNCHANGED group ELSE ChangeProxy(watcher.previous)
    /\ WatcherGoto("rest")
    /\ Moving /\ UNCHANGED <<automatic, selected, shown, user>>

-----------------------------------------------------------------------------
Connect ==
    \/ SpawnOwned \/ Setup \/ SelectAuto \/ ProbeAuto \/ AcceptAuto
    \/ \E node \in Nodes : Walk(node)
    \/ WalkEnds \/ ProbeWalk \/ AcceptWalk \/ RetryVariant \/ HandBack

UserStep ==
    \/ CheckSelected \/ SelectCarries \/ SelectFails \/ RestoreSelection \/ RecordSelected
    \/ SelectionFails \/ \E node \in Nodes : Select(node)

WatcherStep ==
    \/ Answered \/ LookUp \/ RefreshSelection \/ RecordWatched \/ Unanswered
    \/ Recover \/ RecoverAutomatically \/ Settle \/ RecoverProbe \/ GiveBack
    \/ \E node \in Nodes : RecoverWalk(node)

Next ==
    \/ BeginConnect \/ Connect \/ GroupMoves
    \/ (\E chosen \in Choices : SaveSelection(chosen)) \/ UserStep
    \/ Tick \/ WatcherStep

Spec == Init /\ [][Next]_vars

\* Calls and ticks go on; nobody has to connect or to choose.
FairSpec ==
    Spec /\ WF_vars(Connect) /\ WF_vars(UserStep) /\ WF_vars(WatcherStep) /\ WF_vars(Tick)

-----------------------------------------------------------------------------
(* Properties.                                                               *)

\* No variant is started over an engine that may still run, and a connect that is
\* handed back has no more than one to close (fragments.go:14-15, 72-86).
OnlyLastEngineRuns == running \subseteq {variant}

\* When nothing is on the move and nobody interfered, the session and the engine agree:
\* either the group chooses, or it is on the node the session names; and that
\* node is the one shown (session.go:562-567, 640-676).
SessionAgrees ==
    phase = "ready" /\ AtRest /\ faults \cap {"engine", "deadline", "overlap"} = {} =>
        /\ group = IF automatic THEN AutoGroup ELSE selected
        /\ shown = selected

\* A node picked by hand is kept until the user chooses again, whatever the checks
\* say (mihomo_watchdog.go:83-89).
HandPickedIsKept ==
    [][\A n \in Nodes :
        choice = {n} /\ phase = "ready" /\ user.pc = "rest" /\ group = n /\ ~MayFail("overlap")
            => group' = n]_vars

\* A connect comes to an end, one way or the other, however its nodes fare.
ConnectEnds == phase = "spawn" ~> phase \in {"ready", "lost"}

\* So does every move of a live session.
MovesEnd == (user.pc # "rest" ~> user.pc = "rest") /\ (watcher.pc = "recover" ~> watcher.pc = "rest")

Settled(n) == phase = "ready" /\ automatic /\ group = AutoGroup /\ pick = n

\* Under automatic selection the name that is shown catches up with the group, as
\* long as checks keep being answered (session.go:183-203).
ShownCatchesUp ==
    \A n \in Nodes :
        <>[]Settled(n) /\ []<>(watcher.pc = "assign" /\ watcher.node = n) => <>[](shown = n)

\* Whatever is begun ends, and what is shown catches up with what is used.
SessionSettles == ConnectEnds /\ MovesEnd /\ ShownCatchesUp
=============================================================================
