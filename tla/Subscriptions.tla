--------------------------- MODULE Subscriptions ---------------------------
(***************************************************************************)
(* The server sources: the lists the user added, the catalogues of the build,  *)
(* the configs pasted by hand and All, which merges them.  Their rows are in   *)
(* the saved state (v2ray.go, whitedns_vpn.go); of each there may be a cached   *)
(* node list (whitevpn_nodes.go), a copy on disk of the last body that worked   *)
(* (subscription_snapshot.go) and names the user hid (subscription_nodes.go).   *)
(*                                                                          *)
(* An operation holds App.mu or App.nodesMu between two fetches, never across   *)
(* one: a read, a refresh, a connect and a hiding are steps of a task, and what *)
(* other tasks and the user do comes between.  A body is the set of the names   *)
(* in it, the empty set one that is unusable.  The counts and messages shown in *)
(* a row, and the filter of the selected list, are left out.                   *)
(***************************************************************************)
EXTENDS FiniteSets, Naturals, Sequences

CONSTANTS
    Subs,        \* the lists the user may add
    Catalogues,  \* the built-in catalogues this build can reach, ...
    Home,        \* ... the one selected by default, ...
    Manual, All, \* ... and the two sources that are no list
    Addresses,   \* where a list may be fetched from
    Nodes,
    Bodies,      \* the usable bodies a provider may serve
    Threads,     \* the calls of the interface that may be in flight at once
    Retrier,     \* the goroutine of retryBlockedSubscriptions
    MaxActs,     \* how many operations the user may begin
    MaxNesting,  \* how deep merged reads are followed
    None

Sources == Subs \cup Catalogues \cup {Manual, All}
Stored == Subs \cup Catalogues  \* subscriptionIsStorable
Tasks == Threads \cup {Retrier}

ASSUME SubscriptionsAssumption ==
    /\ Home \in Catalogues /\ {Manual, All} \cap Stored = {} /\ Manual # All
    /\ Subs \cap Catalogues = {} /\ None \notin Sources \cup Addresses
    /\ Bodies \subseteq (SUBSET Nodes) \ {{}} /\ Retrier \notin Threads
    /\ {MaxActs, MaxNesting} \subseteq Nat /\ \A S \in SUBSET Nodes : S # None

VARIABLES
    rows,      \* V2RaySubscriptions, but the catalogues, which are always in it
    url,       \* the address in a row
    unfilled,  \* the rows that imported nothing or whose last refresh failed
    profiles,  \* V2RayProfiles by the source they belong to
    selected,  \* SelectedSubscriptionID
    hidden,    \* HiddenNodes
    cache,     \* App.nodes
    snapshot,  \* the files of subscription_snapshot.go: names, or {} for a broken one
    session,   \* the session: the source wanted, the one used, and the node
    task,      \* the operations in flight
    retry,     \* retryingBlockedSubscriptions and its goroutine, ...
    todo,      \* ... and the rows it has still to refresh
    acts

state == <<rows, url, unfilled, profiles, selected>>
background == <<retry, todo>>
vars == <<state, hidden, cache, snapshot, session, task, background, acts>>

Kinds == {"list", "refresh", "connect", "hide", "unhide", "remove"}
Pcs == {"idle", "ask", "wait", "discard", "merge", "mark", "store", "build", "open", "commit"}

CachedLists == [nodes : SUBSET Nodes, flagged : SUBSET Nodes]
Sessions == [wanted : Sources, used : Sources, node : Nodes]
\* wanted is the source asked for, id the one a connect fell back to, src the one being
\* fetched, from address; stack holds what each merged read has still to read.
TaskStates ==
    [pc : Pcs, kind : Kinds, wanted : Sources, id : Sources, src : Sources,
     address : Addresses \cup {None}, stack : Seq(SUBSET Sources), got : SUBSET Nodes, seen : SUBSET Nodes,
     fell : BOOLEAN, candidates : SUBSET Sources, live : BOOLEAN]

TypeOK ==
    /\ rows \subseteq Subs \cup {All} /\ unfilled \subseteq Subs \cup {All}
    /\ url \in [Subs -> Addresses \cup {None}]
    /\ profiles \in [Subs \cup {Manual} -> SUBSET Nodes]
    /\ selected \in Sources
    /\ hidden \in [Sources -> SUBSET Nodes]
    /\ cache \in [Sources -> CachedLists \cup {None}]
    /\ snapshot \in [Stored -> (SUBSET Nodes) \cup {None}]
    /\ session \in Sessions \cup {None}
    /\ task \in [Tasks -> TaskStates]
    /\ retry \in {"off", "scan", "run"} /\ todo \subseteq Subs \cup {All}
    /\ acts \in 0 .. MaxActs

Resting == [pc |-> "idle", kind |-> "list", wanted |-> Home, id |-> Home, src |-> Home,
            address |-> None, stack |-> <<>>, got |-> {}, seen |-> {}, fell |-> FALSE, candidates |-> {},
            live |-> TRUE]
Reading(kind, id) ==
    [Resting EXCEPT !.pc = "ask", !.kind = kind, !.wanted = id, !.id = id, !.src = id]

Init ==  \* a first start, or one that finds a copy that was damaged
    /\ rows = {} /\ url = [s \in Subs |-> None] /\ unfilled = {}
    /\ profiles = [s \in Subs \cup {Manual} |-> {}]
    /\ selected = Home
    /\ hidden = [s \in Sources |-> {}]
    /\ cache = [s \in Sources |-> None]
    /\ snapshot \in {[s \in Stored |-> IF s = Home THEN file ELSE None] : file \in {{}, None}}
    /\ session = None
    /\ task = [t \in Tasks |-> Resting]
    /\ retry = "off" /\ todo = {} /\ acts = 0

-----------------------------------------------------------------------------
(* The list of the sources                                                    *)

Acts == acts < MaxActs /\ acts' = acts + 1

\* saveLocked: a selection of a source that is gone falls back to the default.
Kept(choice, present, configs) ==
    IF \/ choice \in Catalogues \cup present \cup {All}
       \/ choice = Manual /\ configs[Manual] # {}
    THEN choice ELSE Home

Listed(s) == IF cache[s] = None THEN {} ELSE cache[s].nodes

Forget(s) == cache' = [cache EXCEPT ![s] = None]

SaveV2RaySubscription ==
    \E s \in Subs, a \in Addresses :
        /\ Acts
        /\ rows' = rows \cup {s}
        /\ url' = [url EXCEPT ![s] = a]
        /\ unfilled' = IF s \in rows THEN unfilled ELSE unfilled \cup {s}
        /\ Forget(s)
        /\ UNCHANGED <<profiles, selected, hidden, snapshot, session, task, background>>

\* The guard on the active subscription is left out: no stored profile is ever the active
\* connection, the engine's sessions have none.
DeleteV2RaySubscription ==
    \E s \in rows :
        /\ Acts
        /\ rows' = rows \ {s} /\ unfilled' = unfilled \ {s}
        /\ url' = IF s \in Subs THEN [url EXCEPT ![s] = None] ELSE url
        /\ profiles' = IF s \in Subs THEN [profiles EXCEPT ![s] = {}] ELSE profiles
        /\ Forget(s)
        /\ snapshot' = IF s \in Subs THEN [snapshot EXCEPT ![s] = None] ELSE snapshot
        /\ selected' = Kept(selected, rows', profiles')
        /\ UNCHANGED <<hidden, session, task, background>>

\* The lists All draws from.
EverySource == Catalogues \cup rows \cup (IF profiles[Manual] # {} THEN {Manual} ELSE {})

SelectSubscription ==
    \E s \in (EverySource \cup {All}) \ {selected} :
        /\ Acts
        /\ session = None
        /\ selected' = s
        /\ UNCHANGED <<rows, url, unfilled, profiles, hidden, cache, snapshot, session, task, background>>

\* ImportV2RayProfiles, and ImportV2RayWhiteIPProfiles, which keeps the cached list.
ImportManual ==
    \E n \in Nodes :
        /\ Acts
        /\ profiles' = [profiles EXCEPT ![Manual] = @ \cup {n}]
        /\ Forget(Manual) \/ UNCHANGED cache
        /\ UNCHANGED <<rows, url, unfilled, selected, hidden, snapshot, session, task, background>>

\* CopyNodeToManual: a node with a link, out of the list on the page.
CopyNodeToManual ==
    \E s \in Sources : \E n \in Listed(s) :
        /\ Acts
        /\ profiles' = [profiles EXCEPT ![Manual] = @ \cup {n}]
        /\ Forget(Manual)
        /\ UNCHANGED <<rows, url, unfilled, selected, hidden, snapshot, session, task, background>>

-----------------------------------------------------------------------------
(* Reading a source: resolveSubscriptionBody                                  *)

At(t, pc) == task[t].pc = pc
Put(t, tk) == task' = [task EXCEPT ![t] = tk]
Move(t, pc) == Put(t, [task[t] EXCEPT !.pc = pc])

Begin(t, tk) == Acts /\ At(t, "idle") /\ Put(t, tk)

ListSubscriptionNodes(t) ==  \* one that the cache does not answer
    /\ \E s \in Sources : Begin(t, Reading("list", s))
    /\ UNCHANGED <<state, hidden, cache, snapshot, session, background>>

\* StartWhiteDNSVPNConnection, once the status says that nothing runs.
StartConnection(t) ==
    /\ session = None /\ \A u \in Tasks : ~(task[u].pc # "idle" /\ task[u].kind = "connect" /\ task[u].live)
    /\ Begin(t, Reading("connect", selected))
    /\ UNCHANGED <<state, hidden, cache, snapshot, session, background>>

\* fallbackSubscriptionIDs: the catalogues, then the lists, then the pasted configs.
FallbackSources(exclude) == EverySource \ {exclude, All}
Rank(s) == IF s \in Catalogues THEN 1 ELSE IF s = Manual THEN 3 ELSE 2
Foremost(set) == {s \in set : \A other \in set : Rank(s) <= Rank(other)}

AfterFailureAgain(tk) ==  \* mutant: the source that was tried stays on the list
    LET candidates == FallbackSources(tk.wanted)
    IN  IF tk.kind # "connect" \/ candidates = {} THEN {Resting}
        ELSE {[tk EXCEPT !.pc = "ask", !.id = s, !.src = s, !.stack = <<>>, !.got = {},
                         !.fell = TRUE, !.candidates = candidates] : s \in Foremost(candidates)}

\* What becomes of a task whose source could not be read: staleWhiteVPNNodes answers a
\* list, a connect tries the next source.
AfterFailure(tk) ==
    LET candidates == IF tk.fell THEN tk.candidates ELSE FallbackSources(tk.id)
    IN  IF tk.kind # "connect" \/ candidates = {} THEN {Resting}
        ELSE {[tk EXCEPT !.pc = "ask", !.id = s, !.src = s, !.stack = <<>>, !.got = {},
                         !.fell = TRUE, !.candidates = candidates \ {s}] : s \in Foremost(candidates)}

AfterBody(tk, body) ==
    IF tk.stack # <<>> THEN {[tk EXCEPT !.pc = "merge", !.got = @ \cup body]}
    ELSE IF body = {} THEN AfterFailure(tk)
    ELSE {[tk EXCEPT !.pc = IF tk.kind = "connect" THEN "store" ELSE "mark", !.got = body]}

Advance(t, body) == \E tk \in AfterBody(task[t], body) : Put(t, tk)

\* fetchSubscriptionBodyFor, up to the request.
Ask(t) ==
    /\ At(t, "ask")
    /\ \/ /\ task[t].src = Manual
          /\ Advance(t, profiles[Manual])
       \/ /\ task[t].src = All /\ Len(task[t].stack) < MaxNesting
          /\ Put(t, [task[t] EXCEPT !.pc = "merge", !.stack = <<EverySource>> \o @])
       \/ /\ task[t].src \in Catalogues
          /\ Move(t, "wait")
       \/ /\ task[t].src \in Subs
          /\ Put(t, [task[t] EXCEPT !.pc = "wait", !.address = url[task[t].src]])
    /\ UNCHANGED <<state, hidden, cache, snapshot, session, background, acts>>

Reachable(tk) == tk.live /\ (tk.src \in Catalogues \/ tk.address # None)

FetchedAnything(t) ==  \* mutant: the copy is written whatever was served
    /\ At(t, "wait") /\ task[t].kind # "refresh" /\ Reachable(task[t])
    /\ \E body \in Bodies \cup {{}} :
          Advance(t, body) /\ snapshot' = [snapshot EXCEPT ![task[t].src] = body]
    /\ UNCHANGED <<state, hidden, cache, session, background, acts>>

\* A body that holds nodes; what could not be stored is used all the same.
Fetched(t) ==
    /\ At(t, "wait") /\ task[t].kind # "refresh" /\ Reachable(task[t])
    /\ \E body \in Bodies :
          /\ Advance(t, body)
          /\ snapshot' \in {snapshot, [snapshot EXCEPT ![task[t].src] = body]}
    /\ UNCHANGED <<state, hidden, cache, session, background, acts>>

\* lastKnownGoodSubscription: the copy, if it holds nodes; a broken one is to be removed.
FetchFails(t) ==
    /\ At(t, "wait") /\ task[t].kind # "refresh"
    /\ LET s == task[t].src IN
          IF snapshot[s] = None THEN Advance(t, {})
          ELSE IF snapshot[s] = {} THEN Move(t, "discard")
          ELSE Advance(t, snapshot[s])
    /\ UNCHANGED <<state, hidden, cache, snapshot, session, background, acts>>

\* discardSubscriptionSnapshot removes what is in the file by then.
Discard(t) ==
    /\ At(t, "discard")
    /\ snapshot' = [snapshot EXCEPT ![task[t].src] = None]
    /\ Advance(t, {})
    /\ UNCHANGED <<state, hidden, cache, session, background, acts>>

\* everySubscriptionBody: one source after the other; one that cannot be read is skipped.
Merge(t) ==
    /\ At(t, "merge")
    /\ LET tk == task[t] left == Head(tk.stack) IN
          \/ \E s \in Foremost(left) : Put(t, [tk EXCEPT !.pc = "ask", !.src = s,
                                               !.stack = <<left \ {s}>> \o Tail(@)])
          \/ left = {} /\ Len(tk.stack) > 1 /\ Put(t, [tk EXCEPT !.stack = Tail(@)])
          \/ /\ left = {} /\ Len(tk.stack) = 1
             /\ \E next \in AfterBody([tk EXCEPT !.stack = <<>>], tk.got) : Put(t, next)
    /\ UNCHANGED <<state, hidden, cache, snapshot, session, background, acts>>

-----------------------------------------------------------------------------
(* What is done with a body                                                   *)

\* markHiddenNodes and reapplyHiddenNodes read what is hidden before they lock the list.
Mark(t) ==
    /\ At(t, "mark")
    /\ Put(t, [task[t] EXCEPT !.pc = "store", !.seen = hidden[task[t].id]])
    /\ UNCHANGED <<state, hidden, cache, snapshot, session, background, acts>>

Listing(tk) == [nodes |-> tk.got, flagged |-> tk.got \cap tk.seen]

\* storeWhiteVPNNodes, for a list on the page and for a connect, which marks nothing.
Store(t) ==
    /\ At(t, "store") /\ task[t].kind \in {"list", "connect"}
    /\ cache' = [cache EXCEPT ![task[t].id] = Listing(task[t])]
    /\ Put(t, IF task[t].kind = "connect" THEN [task[t] EXCEPT !.pc = "build"] ELSE Resting)
    /\ UNCHANGED <<state, hidden, snapshot, session, background, acts>>

\* The rest of a connect, whose engine runs nodes that are in the body and not hidden.
Build(t) ==
    /\ At(t, "build")
    /\ Put(t, [task[t] EXCEPT !.pc = "open", !.seen = hidden[task[t].id]])
    /\ UNCHANGED <<state, hidden, cache, snapshot, session, background, acts>>

RunnableAll(tk) == tk.got  \* mutant: hidden nodes are configured

Runnable(tk) == tk.got \ tk.seen

Open(t) ==
    /\ At(t, "open")
    /\ Put(t, Resting)
    /\ \/ UNCHANGED <<session, retry>>
       \/ /\ task[t].live
          /\ \E n \in Runnable(task[t]) :
                session' = [wanted |-> task[t].wanted, used |-> task[t].id, node |-> n]
          /\ retry' = IF retry = "off" THEN "scan" ELSE retry
    /\ UNCHANGED <<state, hidden, cache, snapshot, todo, acts>>

\* A connect that is called off goes on with the copies on disk until it looks.
StopConnection ==
    /\ Acts
    /\ session' = None
    /\ task' = [t \in Tasks |-> IF task[t].kind = "connect" THEN [task[t] EXCEPT !.live = FALSE]
                                                            ELSE task[t]]
    /\ UNCHANGED <<state, hidden, cache, snapshot, background>>

-----------------------------------------------------------------------------
(* Refreshing a list: two critical sections, and the fetch between them        *)

RefreshOf(s) ==
    [Resting EXCEPT !.pc = "wait", !.kind = "refresh", !.id = s, !.src = s,
                    !.address = IF s \in Subs THEN url[s] ELSE None]

RefreshV2RaySubscription(t) ==
    /\ \E s \in rows : Begin(t, RefreshOf(s))
    /\ UNCHANGED <<state, hidden, cache, snapshot, session, background>>

LandUnchecked(t) ==  \* mutant: the second section trusts the first
    /\ At(t, "wait") /\ task[t].kind = "refresh" /\ task[t].id \in Subs
    /\ Put(t, Resting)
    /\ \E body \in Bodies : profiles' = [profiles EXCEPT ![task[t].id] = body]
    /\ Forget(task[t].id)
    /\ unfilled' = unfilled \ {task[t].id}
    /\ UNCHANGED <<rows, url, selected, hidden, snapshot, session, background, acts>>

\* A list that was removed meanwhile is left alone; a document with no share links in it
\* fills the list and stores no configs.
Land(t) ==
    /\ At(t, "wait") /\ task[t].kind = "refresh"
    /\ Put(t, Resting)
    /\ LET s == task[t].id IN
          \/ s \notin rows /\ UNCHANGED <<unfilled, profiles, cache>>
          \/ s \in rows /\ unfilled' = unfilled \cup {s} /\ UNCHANGED <<profiles, cache>>
          \/ /\ s \in rows /\ task[t].address # None
             /\ \E body \in Bodies : profiles' \in {[profiles EXCEPT ![s] = body], [profiles EXCEPT ![s] = {}]}
             /\ Forget(s)
             /\ unfilled' = unfilled \ {s}
    /\ UNCHANGED <<rows, url, selected, hidden, snapshot, session, background, acts>>

\* retryBlockedSubscriptions: one round at a time, over what is empty when it starts.
RetryScan ==
    /\ retry = "scan"
    /\ retry' = "run" /\ todo' = unfilled
    /\ UNCHANGED <<state, hidden, cache, snapshot, session, task, acts>>

RetryNext ==
    /\ retry = "run" /\ At(Retrier, "idle")
    /\ \/ todo = {} /\ retry' = "off" /\ UNCHANGED <<task, todo>>
       \/ \E s \in todo : /\ todo' = todo \ {s}
                          /\ IF s \in rows THEN Put(Retrier, RefreshOf(s)) ELSE UNCHANGED task
                          /\ UNCHANGED retry
    /\ UNCHANGED <<state, hidden, cache, snapshot, session, acts>>

-----------------------------------------------------------------------------
(* Taking nodes out of a source                                               *)

\* visibleNodeCount looks without the lock under which the name is then hidden.
LeavesOne(s, n) == Listed(s) # {} => Listed(s) \ (hidden[s] \cup {n}) # {}

SetNodesHidden(t) ==
    /\ \E s \in Sources, n \in Nodes, kind \in {"hide", "unhide"} :
          /\ kind = "hide" => LeavesOne(s, n)
          /\ Begin(t, [Resting EXCEPT !.pc = "commit", !.kind = kind, !.id = s, !.got = {n}])
    /\ UNCHANGED <<state, hidden, cache, snapshot, session, background>>

CommitHidden(t) ==
    /\ At(t, "commit") /\ task[t].kind \in {"hide", "unhide"}
    /\ hidden' = [hidden EXCEPT ![task[t].id] = IF task[t].kind = "hide" THEN @ \cup task[t].got
                                                                      ELSE @ \ task[t].got]
    /\ Move(t, "mark")
    /\ UNCHANGED <<state, cache, snapshot, session, background, acts>>

ReapplyHiddenNodes(t) ==
    /\ At(t, "store") /\ task[t].kind \in {"hide", "unhide"}
    /\ cache' = IF cache[task[t].id] = None THEN cache
                ELSE [cache EXCEPT ![task[t].id].flagged = cache[task[t].id].nodes \cap task[t].seen]
    /\ Put(t, Resting)
    /\ UNCHANGED <<state, hidden, snapshot, session, background, acts>>

\* manualProfileIsCarryingTraffic goes by the source that is selected.
Carrying(n) == session # None /\ selected = Manual /\ session.node = n

\* DeleteManualNodes looks first and deletes later, then reads the list again.
DeleteManualNodes(t) ==
    /\ \E n \in profiles[Manual] :
          /\ ~Carrying(n)
          /\ Begin(t, [Resting EXCEPT !.pc = "commit", !.kind = "remove", !.id = Manual, !.got = {n}])
    /\ UNCHANGED <<state, hidden, cache, snapshot, session, background>>

CommitRemoved(t) ==
    /\ At(t, "commit") /\ task[t].kind = "remove"
    /\ profiles' = [profiles EXCEPT ![Manual] = @ \ task[t].got]
    /\ selected' = Kept(selected, rows, profiles')
    /\ Forget(Manual)
    /\ Put(t, Reading("list", Manual))
    /\ UNCHANGED <<rows, url, unfilled, hidden, snapshot, session, background, acts>>

-----------------------------------------------------------------------------

\* ensureBuiltInCataloguesLocked, which a start and a reset call: All has a row once the
\* user has a list or a config of their own.
Restart ==
    /\ Acts
    /\ LET mine == rows \cap Subs # {} \/ profiles[Manual] # {} IN
          /\ rows' = IF mine THEN rows \cup {All} ELSE rows \ {All}
          /\ unfilled' = IF mine /\ All \notin rows THEN unfilled \cup {All} ELSE unfilled \cap rows'
          /\ selected' = IF selected = All /\ ~mine /\ All \in rows THEN Home ELSE selected
    /\ cache' = [s \in Sources |-> None]
    /\ session' = None /\ task' = [t \in Tasks |-> Resting]
    /\ retry' = "off" /\ todo' = {}
    /\ UNCHANGED <<url, profiles, hidden, snapshot>>

User == \/ SaveV2RaySubscription \/ DeleteV2RaySubscription \/ SelectSubscription
        \/ ImportManual \/ CopyNodeToManual \/ StopConnection \/ Restart

Calls(t) == \/ ListSubscriptionNodes(t) \/ StartConnection(t) \/ RefreshV2RaySubscription(t)
            \/ SetNodesHidden(t) \/ DeleteManualNodes(t)

Works(t) == \/ Ask(t) \/ Fetched(t) \/ FetchFails(t) \/ Discard(t) \/ Merge(t) \/ Mark(t)
            \/ Store(t) \/ Build(t) \/ Open(t) \/ Land(t) \/ CommitHidden(t) \/ ReapplyHiddenNodes(t)
            \/ CommitRemoved(t)

Next == \/ User \/ RetryScan \/ RetryNext
        \/ \E t \in Threads : Calls(t)
        \/ \E t \in Tasks : Works(t)

Spec == Init /\ [][Next]_vars

\* A goroutine that can take its next step does; a request answers or runs into its deadline.
Fairness == WF_vars(RetryScan) /\ WF_vars(RetryNext) /\ \A t \in Tasks : WF_vars(Works(t))

FairSpec == Spec /\ Fairness

-----------------------------------------------------------------------------
(* Properties                                                                 *)

\* No server is kept for a list that is no longer there, though a refresh fetches between
\* its two critical sections and the list may be removed meanwhile.
NoOrphans == \A s \in Subs \ rows : profiles[s] = {} /\ url[s] = None

\* The selection always names a source that can be read, whatever is removed.
SelectionExists ==
    \/ selected \in Catalogues \cup rows \cup {All}
    \/ selected = Manual /\ profiles[Manual] # {}

\* No list on a page is empty and no connection runs on a body without nodes, whatever was
\* in the file: a page keeps what it had and a connect moves on to another source.
ServedIsUsable ==
    /\ \A s \in Sources : cache[s] # None => cache[s].nodes # {}
    /\ \A t \in Tasks : task[t].pc \in {"store", "build", "open"} /\ task[t].kind \in {"list", "connect"}
          => task[t].got # {}

Usable(file) == file \notin {None, {}}

\* A copy that works is given up only with its list, or to a reader that had found a broken
\* one in its place; a fetch that brings nothing leaves it.
GoodCopyStays ==
    [][\A s \in Stored : Usable(snapshot[s]) /\ ~Usable(snapshot'[s])
          => \/ s \in rows \ rows'
             \/ \E t \in Tasks : At(t, "discard") /\ task[t].src = s]_vars

\* A connection opens on no node the user had hidden when its configuration was built, and
\* only on one of the source it is filed under.
HiddenStaysOut ==
    [][session = None /\ session' # None =>
          \E t \in Tasks : /\ At(t, "open") /\ task[t].id = session'.used
                           /\ session'.node \in task[t].got \ task[t].seen]_vars

\* Nothing is retried twice at once: the retries never overlap, and a round ends.
RetryReleased == retry # "off" ~> retry = "off"

\* A read, refresh, hiding or connect ends, through all the sources it falls back to; but
\* for a merged read that met the row of All, which then draws from itself (whitedns_vpn.go:352).
ReadsOthers(tk) == tk.wanted # All \/ (All \notin rows /\ Len(tk.stack) <= 1)
ReadsEnd == \A t \in Tasks : (~At(t, "idle") /\ ReadsOthers(task[t])) ~> At(t, "idle")

\* What is kept and what is served of the sources is sound, whatever came between two
\* sections of the operations in flight.
SourcesAreSound == TypeOK /\ NoOrphans /\ SelectionExists /\ ServedIsUsable

\* All that fetches ends: the reads, and the retries.
FetchingEnds == ReadsEnd /\ RetryReleased
=============================================================================
