# WhiteVPN Desktop in TLA+

WhiteVPN Desktop is a Go program (Wails) that connects a machine through nodes
of a subscription. It runs an engine — the mihomo core — as a child process,
talks to it over a local socket, points the machine's proxy setting or a tunnel
adapter at it, watches the connection, keeps lists of servers from several
sources, measures them, and has a validator that scans endpoints.
This directory models the parts of it where goroutines, processes, files and failures
meet, and the translation of servers into what the engine is told. Paths below are
relative to `src/desktop/`.

`PROJECT.json` lists, for every definition, the lines it stands for; for every
run, its properties; for every property, a change of the code that breaks it
(the definitions commented "a mutant" in the modules); the hazards; and the
theorems.

## 1. Inventory

### Modelled

**System proxy** — `system_proxy.go`, `internal/sysproxy/`.
State: the machine's setting, the record on disk of what the user had
(`system-proxy.json`), two flags of the runtime (`SystemProxy`,
`SystemProxyStranded`). Operations: `captureSystemProxy`, `restoreSystemProxy`;
`startup` restores what a crash left. Called from a connect's tail, a stop and the
tray, without a lock. Hard: a crash between any two steps, several writes one of
which fails, three platforms that read back less than they write and take many a read
that fails for "off", two callers. Right when: the user's setting is not lost, the record is the
user's, and what is reported is what happened. The code is not right in that sense once a read
fails without an error, or the app is reset while the machine is stranded (section 4).

**Connection lifecycle** — `mihomo_connect.go`, `app.go` (`StopConnection`),
`mihomo_watchdog.go`, `whitedns_vpn.go` (the check before a start).
State: the status (under `a.mu`), the registered cancel function (under
`connectMu`), the session slot (under its own lock), one engine per attempt.
Operations: start, stop, recover. No lock is held from one of these states to the
next. Hard: a stop at every moment of a start, a start that supersedes another, a
recovery that outlives its session. Right when: no engine runs without an
owner, every connect can be stopped, and the status in the end is right.

**Session and node selection** — `internal/session/`, `whitevpn_nodes.go`,
`mihomo_watchdog.go`. State: the session's candidates, mode and node; the engine's
select group and automatic group; the name shown. Operations: connect over
variants of the fragment settings and over nodes; `Select` on a live session;
`RefreshSelection`; `Recover`. The user's and the watchdog's goroutines both write the
session, without a lock. Hard: a try that fails has to put back what was there; the
group moves by itself; an engine may refuse to start, to change or to stop. Right
when: session, engine and display agree, a node picked by hand is kept, and
every walk ends.

**Engine process and client** — `internal/engine/`. State: the child process,
the listener, the connection, the table of pending calls, the buffer of events.
Operations: `SpawnOwned` (the core dials back), calls, `readLoop`, `finish`,
`Stop`. Hard: the dial-back races its timeout, a cancel and the core's death; a
reply races its deadline and the end of the connection; a wedged or elevated core
must be ended all the same. Right when: a successful Stop means that the process
is gone, every call ends once, and the reader never blocks.

**Validator runs** — `scanner.go`, `validator_results.go`. State:
`validatorState`, the run's id, its writer, its cancel function, two channels, the
worker controller, the CSV and its metadata. Operations: start, cancel, pause,
clear, quit, and the goroutines that feed, probe, write and finish. Hard: runs
that follow each other, panics, a disk that fails, a channel that is closed while
others send, metadata written by whoever comes last. Right when: runs do not overlap,
counters, file and metadata agree, quitting loses no row, and a scan ends.

**Subscriptions, snapshots and the catalogue of nodes** — `v2ray.go`, `whitedns_vpn.go`,
`subscription_*.go`, `whitevpn_nodes.go`, `manual_nodes.go`. State: the rows and their
addresses, the servers stored of each, the source selected, the names hidden, the cached
node lists, a copy on disk of the last body that worked. Operations: add, edit,
delete, select, refresh, list, hide, paste, copy, remove, connect with fallback, and
the retries after a connect. Every fetch is between two critical sections. Hard:
what a fetch finds when it comes back is not what it left; a copy may be broken; All merges
the others; a provider may serve nothing. Right when: nothing is kept for a
row that is gone, whatever is served can be used, a copy that works is not lost, a
hidden node is not used, and every read ends.

**Stored state, reset and backup** — `internal/profiles/store.go`, `backup.go`,
`import_legacy.go`, `internal/model/whitevpn_settings.go`, `reset.go`, and the methods of `App`
that save. State: the state in memory and on disk, resolver lists in files of
their own, the last backup, what the page holds, the filter in force and those
parked. Operations: everything that edits and saves, load and normalise, backup,
restore, inherit from the older program, reset. Hard: each of several writes may fail,
memory then keeps a change that is not on disk; a correction of one field has to move
another; a page sends back what it read long ago. Right when: what a state
names exists, a restart brings back what was saved, filters stay with their source,
and nothing goes unasked.

**Engine configuration** — `internal/mihomoconf/`, `internal/profiles/v2ray_import.go`,
`v2ray_export.go`, `PrepareConfig` of `internal/session`. No state: texts of share links,
sing-box, Xray and mihomo configurations become servers, which are named, merged, optioned,
chained and routed, and become a document. Hard: ten schemes with their options, of which each
of four readers and one writer knows its own; names that are keys; rules whose order
counts; a document edited line by line. Right when: no list loses a
server, what protects a connection survives, one server is one server however it came,
and traffic goes where the user sent it.

**Node measuring** — `whitevpn_measure.go`, `internal/session/measure.go`. State: the
test that runs and its cancel function, a measuring engine, its workers, the cached
lists into which results go, and the spinner of the page, which follows events. Hard: the
lists change under the test, a cancel comes at any point, events are emitted after the
lock. Right when: a result is of the node and list it is shown with, a run leaves no
row unresolved, and a test ends, for the program and for the page. One that reads All, or writes
to an engine that no longer reads, does not (section 4).

### How they interact

```
 interface, tray ── start / stop ──► connection lifecycle ── capture / restore ─► system proxy ─► machine
    │  │   │                          │  ▲  slot, cancel
    │  │   │ choose                   ▼  │
    │  │   └──────────────────► session and nodes ◄── checks ── watchdog
    │  │                         ▲    │ Spawn, calls, Stop
    │  │  add, refresh,  the     │    ▼
    │  │  hide, select   document│   engine process and client ◄─ socket ─► core
    │  ▼                         │
    │ subscriptions ── bodies ─► engine configuration ── document ─► node measuring (an engine of its own)
    │  │      ▲ cached lists ◄───────────────────────── results ────────┘
    │  ▼      │
    │ stored state ─► state.json, resolver files, backups
    └── start / pause / cancel ─► validator runs ─► results on disk
```

The modules meet at these interfaces. An engine in ConnectLifecycle is one word
(none, running, stopped, or stuck when it would not close). What that word promises is
`EngineHandle`: EngineProcess implements it (`HandleIsKept`), and every engine of
ConnectLifecycle is one (`EnginesAreHandled`), so that nothing is asked above of an
engine that is not given below. The others meet by summaries: the nodes that a start tries are one
step there and NodeSession here; the steps of the proxy's capture are one step in
ConnectLifecycle and SystemProxy here. A connect in Subscriptions goes from the
source it asks for to the nodes it may run, and ends where EngineConfig begins; a body
there is the set of names that EngineConfig reads out of its text. The cached lists of
Subscriptions are those NodeMeasure writes into.

### Not modelled

| Part | Why |
| --- | --- |
| Requests of a subscription: clients, TLS fragments, fronting addresses, decryption (`subscription_fetch.go`, `subscription_fragment.go`) | A fetch is its outcome: a body, or none. |
| Connection, resolver and settings profiles of the older program (`store.go`) | The same operations as on configs, on lists the present interface does not show; the resolver lists' files are modelled. |
| White-IP configs, imports of other programs' profiles (`white_ips.go`, `import.go`) | Fill in addresses; the import of WhiteDNS Desktop's state is modelled. |
| Pings and tests of profiles (`ping.go`) | Requests whose answer is shown. |
| Tunnel adapter | Reads the system's adapters and routes; one outcome of a start in NodeSession. |
| Exit country, update check | Requests whose answer is shown. |
| Probe engine of the validator | A probe is one step of a worker with any outcome. |
| Resolver checks, logs, traffic, firewall status | Observers, without effect on the parts above. |
| Tray, windows, front end, packaging | User interface and build; what they ask for is in the modules of what they call. |
| Listing and deleting result files, parsing of ranges (`validator_results.go`, `scanner.go`) | Pure reading, and a removal that meets a run only through its file's name. |
| The end of the program with a connect in flight (`app.go:192`) | `shutdown` cancels none; ConnectLifecycle has no end of the program. |

## 2. Modules

| Module | What it is |
| --- | --- |
| `ProxyLoan` | Abstract: the machine's proxy as a loan. What was there is on record before it is changed, and the record goes only when it is back. |
| `SystemProxy` | Capture and restore, one action per call that leaves the process (read the record, read the machine, open, write, apply, verify, remove), on three platforms; crash, startup, and a user who changes settings. `Loan == INSTANCE ProxyLoan WITH …` maps the machine to where its traffic goes, and the readable record to what is owed. |
| `ConnectLifecycle` | Starts (`StartStep`), stops (`StopStep`) and watchers, one action per critical section or call. `pc`, `stopPc` and `watch` are the goroutines' positions. |
| `WorkerController` | The adaptive limit of the validator: pure operators on a record, one per critical section. |
| `ValidatorRun` | Extends it: the run's goroutine, its workers and its writer, one action per critical section of `validatorMu`, channel operation or write to disk, and the calls of the interface. |
| `EngineHandle` | Abstract: an engine as its holder knows it. It starts once and is handed over at most once; a stop that reports success is the truth, and the end; one that fails leaves it in doubt. `Held` in EngineProcess and `Handle(a)` in ConnectLifecycle are its instances. |
| `EngineProcess` | `SpawnOwned` with `acceptWithin`, `Client` (invoke, readLoop, finish), `Stop` with `kill`; the core and the pipe are the environment. |
| `NodeSession` | `connectOwnedOnce` and `start` over variants and nodes, then `Select`, `RefreshSelection` and `Recover` on the live session; `group` and `pick` are the engine's. |
| `Subscriptions` | The sources. A read, a refresh, a connect, a hiding and a removal are tasks; a task's step is what it does under one lock or one request. A read of All keeps a stack of what it has still to read. `retry` and `todo` are the goroutine of `retryBlockedSubscriptions`. |
| `StoredState` | `App.state` and the files. An operation is one action, as it holds `App.mu`; each that saves ends in `Save`, which normalises and may fail at either write. `Starts` is what `NewApp` may find itself with. The reset's check, removal and save are three. |
| `ShareLinks` | Pure: what each reader of a server keeps of it, and what the program writes of one it has stored. |
| `EngineConfig` | Extends it. A world (what the providers wrote and the user chose) is read, merged, shaped and built, in the steps of `everySubscriptionBody` and `PrepareConfig`. |
| `NodeMeasure` | A test from the button to its last event: the goroutine of the run, its workers, its engine, what is recorded, and the lists that change under it. |
| `MC…` | The constants and symmetries of the runs; in `MCEngineConfig` the worlds. |
| `…Proofs` | The theorems about the module of that name; those about EngineProcess are in `ConnectLifecycleProofs`, which has both (hence `EngineInit`, `EngineNext`, `EngineSpec`). |

Names follow the source: an action is named after its function, or after what the
step of the function does; a variable after the field, whose name stands beside it.

### What is abstracted

- *SystemProxy.* Addresses and exception lists are a few values: the default list,
  the same without the `<local>` token, the user's, none. A machine has places, which are written
  one after another: network services on macOS, GNOME and KDE on Linux, one on Windows. In a place
  there are the route that the code reads back and the rest, which it only writes, as one; the
  exceptions are written with the rest. WinINET is told everything in one call, and its flags are the
  switch. A change may stop after any of its writes, by an error or a crash. A user has one proxy for
  all routes of a place, sets up each place as he likes, and does so only while nothing is on record or
  reported as lent; services and desktops do not come and go. Clearing the flags is one step with the
  attempt to remove the record. Whether a connection is up is known by the badge alone, so that a reset
  is possible in a few states in which the code would refuse it.
- *ConnectLifecycle.* Fetching, spawning and proving each succeed or fail. The
  engine does not die by itself. The program's own exit is left out.
- *ValidatorRun.* Results differ by their grade only. Buffers and floors are
  constants of the run. What is emitted to the interface after the lock is
  released is left out. Metadata is written in one step. The feed's only error is
  a cancelled context. Once the program quits no new call begins.
- *EngineProcess.* A frame is the id of its call. The count of dropped events is
  left out. Deadlines and timers may expire at any moment.
- *NodeSession.* What a probe finds is nondeterministic, and the measured order of
  the nodes is any order. The tunnel's adapter is one of the ways a start fails.
  Adopting the session and recording its node is one step. Certificates are
  checked; a world in which none is intercepted stands for the setting being off.
  Documents of a provider, which have no candidates, are left out.
- *Subscriptions.* A body is the set of names in it, the empty set one that cannot be
  used. Counts and messages of a row are whether it is unfilled. The cache does not age:
  a list is read anew whenever it is read.
- *StoredState.* A config is its identifier, its source and the key by which
  duplicates are found; a filter is the source it was chosen in; one resolver list stands for
  all. A temporary file that is never renamed is not there. A crash is a write that
  failed, then a start. A backup is a copy under the lock, then a write without it; what the lists and
  the map of filters, which the copy shares with memory, hold by then is any of what the operations
  in between may leave. That Go may end the program over a map read and written at once is left out.
- *ShareLinks, EngineConfig.* Text is what it carries. A credential is the shape that matters
  to the readers (a pair, a plus sign, an escape, base64), an option is its presence. Names
  are sequences of parts, so that numbering and qualifying are appending; a number is written in
  ones, and what the parts are is a constant (`Texts`). A document with providers is its lines by
  kind. What the providers may write, for every length of list, is `WorldsAssumption`.
- *NodeMeasure.* A result is the fact that the test was run. When a cached list is too
  old is any choice; what the page may press is what it shows. `evidence`, `left` and
  `erred` are ghosts.

## 3. Runs

| Run | Instance | Shows |
| --- | --- | --- |
| `proxy` | one caller, three platforms with up to two services or desktops, one port of the program, one proxy of the user, two calls that fail, one crash | Until a read fails silently or a reset takes the record: the user's setting is not lost (`NothingLost`), the record is theirs, the code implements the loan (`LoanSpec`), and a start in which no call fails gives the machine back (`StartupGivesBack`). The badge is true whatever fails. |
| `connect` | two starts, the second only once the first has returned or been stopped; two stoppers, fair | No engine is orphaned and every connect can be stopped (`NothingOutOfReach`); the status settles; a stop stops. |
| `connect_concurrent` | two starts at any time, one stopper, recoveries, Close may fail | Even so what was stopped stays stopped (`StoppedStaysStopped`): no running session of a stopped attempt is adopted, and no engine that was seen to end is said to be anything else. |
| `validator` | a scan of two endpoints and one of one, two workers, buffers of one; panics and a failing disk | Scans do not overlap, nobody sends on a closed channel, what is told of the end is right (`EndIsToldRight`: a completed run is complete, its metadata final), quitting saves the rows. |
| `validator_ends` | one scan of four endpoints: more than two workers and the buffer hold; fair | It ends unless it is paused. |
| `engine` | one call, one Stop with its Shutdown call, one event kept, everything may go wrong | The engine is the one that EngineHandle describes (`HandleIsKept`): a successful Stop has seen the process end; Stop returns and what it leaves ends (`StopsEnd`); no call waits on a dead connection; the table holds live calls and the reader is never held up (`TableServesTheReader`). |
| `node_session` | three nodes (one picked by hand, a country of two), two variants, two tries in each walk, two failed checks | No variant starts over an engine that may run; session, engine and display agree; a hand-picked node is kept; connects and moves end and the name shown catches up (`SessionSettles`). |
| `subscriptions` | one list the user may add, one catalogue, pasted configs, All; two nodes; one call of the interface and the retrier in flight; four acts | What is kept and served is sound (`SourcesAreSound`: no servers of a row that is gone, a selection that exists, nothing served that is unusable); a good copy stays; hidden nodes stay out; reads and retries end (`FetchingEnds`). |
| `stored_state` | five configs of three sources (two the same server, one incomplete, one of an older build), a list, two files for resolver lists, four operations; begun without a file, with a broken one, or with an older build's, whose resolvers may fail to move | What is named exists; a restart changes nothing but the row of All; filters stay home until one has strayed (`FiltersStayHome`: parked once, with their own source, for none that is gone); nothing goes unasked but by a start on the defaults (`NothingGoesUnasked`: duplicates, other removals, the choice under a connection). |
| `engine_config` | every scheme with each shape of credential, security, transport and option, alone, as a link, pasted, and in sing-box, Xray and mihomo documents, with and without a front in each; lists of up to three merged, hidden, chained, allowed, split, sent direct; documents of up to five lines | Lists are whole (`ListsAreWhole`: every name a key, no server lost in the merge); protection is kept (`ProtectionIsKept`: encryption, verification, the name behind a front, with the exceptions of section 4); one server every way (`OneServerEveryWay`: pasted as subscribed, shared as stored, stored as dialled, but for what section 4 lists as lost); traffic goes as asked (`TrafficGoesAsAsked`: the rules against a reference definition, the chain, hidden and allowed nodes); the runtime's settings hold in a document that is passed through. |
| `engine_config_wireguard` | the same, pasted servers | *Violated:* a stored WireGuard configuration does not reach the engine. |
| `node_measure` | two lists that share their names and the row of All, two nodes in each (one hidden, one with no address), one worker, one download; two tests, of every list with All or without, or of one, and one refresh or removal; engines that no longer read | Results are of their list and no engine is left (`EngineMeasuresItsList`); a run is complete; the page shows it; what was measured stays; tests end, for program and page, unless they read All or write to a full pipe (`TestEnds`). |

Several properties are conjunctions of named parts that are about one thing; each part is
stated, with a comment of its own, in its module.

**Bounds, and why they suffice.** Every property is about one or two actors and the
state they share, so two of a kind reach the interleavings. In `proxy` two failures and a crash
make a change that is cut in half, a restore of it that fails, and the start after that; a second place
is what can be left behind by one that is read back; how often calls fail and the process dies, and
how many services there are, is open in the proofs. `validator_ends` exceeds all its
capacities at once, so each queue does block. `validator` has a second run, so
that what the first leaves can meet it. Two tries in each walk let a second try follow a
first that failed and let the walk run out with a node left. Two variants make one
retry; two failures are the least at which a failure can be forgiven. The worlds of
`node_session` put together the faults that can make each other matter: a start or a
stop that fails; an engine that refuses and a deadline that passes; and the overlap
of user and watchdog by itself. `engine` has a single Stop, so that it stays small;
what several do is proved. In `SystemProxy`, `Callers` is one where the properties
need it (see the proofs). In `subscriptions` the acts are four: add a list, let a
refresh or a connect begin, delete or edit the list, and one more; what the tasks do in between is
not bounded. `MaxNesting = 2` lets All meet itself once, which is as far as is needed to see that
it does. Four operations in `stored_state` make a state, spoil it and act on what
is left, a backup being one with its two steps; its starts from an older build's file begin with something to lose. The worlds of
`engine_config` are pure inputs, so that its bounds are the combinations: each option by itself and all
that go together. Two tests in `node_measure` are what it takes for the end of one to meet the next.
The counters of Go are not close to their width here, so they are natural numbers.

Deadlock is not checked in runs that end: all runs of the validator started and the program
exited, the engine stopped, a world built, or the acts of the user used up. Symmetry is
used only in runs without liveness.

**Fairness.** Goroutines that can run do, so each goroutine's next step is weakly fair:
callers of capture and restore, and `StartupDone`; starts and stops, whose probes and
fetches have deadlines in the code; the run, worker and writer of a scan while the
program is alive; in the engine, the spawn, the waiter on the child, the reader, each
call, each Stop with its own 2-second deadline, and a core that reads and sees its
connection end; each task of `Subscriptions`, whose request has a deadline, and its
retrier; in `NodeMeasure` the run with its workers, whose probes, fetches and answers have
deadlines (a write to the engine has none, and is not made to end), and the runtime that carries
calls and events between program and page. Nobody is made to press a button, to resume a scan, or to make a
call; the core never has to answer; ordinary calls' deadlines are not fair, so that
`NoCallOutlivesConnection` cannot hold because of them. In NodeSession the connect,
the user's call, the watcher's call and its ticker are fair. `ShownCatchesUp` assumes
that lookups keep being answered, in its own premise.

**Limits of single properties.** Where a property is false of the code it says so in its own
premise, and the hazard is in `PROJECT.json`:
`NothingLost`, `RecordIsTheirs`, `LoanSpec` and `StartupGivesBack` end with the first slip (`Noticed`:
a decision on a read that failed silently, or a reset that took the record), and of places that are
not read back they promise something only after a change that was not cut in half (defects 13 to 15).
`FiltersStayHome` excepts what has strayed (defects 6, 8 and 16), `LossIsAsked` a start on the defaults
(defect 17), `TestEnds` what is `Stuck` (defect 18). `NameStillTravels` excepts the trojan links
and the transports of defect 19, `PastedIsSubscribed` the credentials that are not in
`CredentialsKept` (defect 11).
`SessionAgrees` excepts worlds in which the engine refuses, the deadline passes or user and
watchdog overlap, and `HandPickedIsKept` the overlap.
`StopsEnd` and `NoCallOutlivesConnection` except the full pipe (defect 5 below).
`RestIsSettled` is checked without recoveries (defect 4).
`FetchingEnds` excepts reads that met the row of All (defect 6), `PageShowsTheRun` what follows a
test whose engine did not start (defect 9). `OneServerEveryWay` excepts, by name of option and form,
what is lost in pasting and sharing (section 4). `Stale` is off in `engine_config`: with it the
properties meet defect 10.

## 4. Defects met

`engine_config_wireguard` is a run: `internal/profiles/v2ray_export.go:261` writes a stored WireGuard
profile as an INI configuration, which the reader of the manual list passes over line by line, while
`manual_nodes.go:46-50` says that storing what cannot be expressed as a link "would put a row
on the page that fails at connect".

These too are behaviours of the models, against which properties were restricted as said above:

1. `internal/sysproxy/linuxdesktop.go:177`: on Linux the exceptions are written without
   `<local>`, and the read-back compares them with a list that has it. A capture that
   took is never confirmed; the same comparison calls a restore stranded (`sysproxy_linux.go:124`).
2. `system_proxy.go:59`: two captures at once, by a connect and the tray. The second
   reads the machine after the first has changed it, and files the program's own
   proxy as what the user had.
3. `mihomo_connect.go:417`: the status is written by whichever of a stop, an older
   attempt's late report and a newer attempt comes last; Disconnected may stand over a
   running engine.
4. `mihomo_watchdog.go:98`: a recovery announces Connecting on a status it read before
   its probes. If a stop has finished in between nobody ever settles it.
5. `internal/engine/spawn.go:274`: Stop sends a request before it closes anything, and
   the write looks at no deadline. Against a core that no longer reads, with its pipe
   full, Stop never reaches the kill that is meant for exactly that core.
6. `whitedns_vpn.go:352`: All, once it has a row, is among the sources that All merges, and
   draws from itself without end. `whitedns_vpn.go:837-841`: a start that finds the row no longer
   needed takes it away, and the selection with it, but not the filter chosen in it, which is then in
   force in the default catalogue, or leaves two answers, one in force and one parked for it.
7. `subscription_nodes.go:86`: two hidings at once may leave no node. `mihomo_connect.go:97`
   stores a list without its hidden flags. `v2ray.go:212` forgets the list but not the copy when an
   address is edited, so that a fetch that fails serves the servers of the old one; a fetch in
   flight stores its copy after `v2ray.go:341` has removed it.
8. `whitevpn_nodes.go:165-190`: a filter is saved with settings that were read before a fetch: a
   selection in between gets the filter of another source.
9. `whitevpn_measure.go:186-191`: a test of one list whose engine does not start emits an error and
   then its end; the page stops its spinner at the first, and the second stops that of the next test.
   A cancel records nodes that were being probed as failed, while `whitevpn_measure.go:91` says
   that what was measured stays measured.
10. `internal/mihomoconf/xrayjson.go`: a hop that dials through one the user has hidden names a
    dialer that is not in the document.
11. Links: a plus sign in a Trojan, AnyTLS or Hysteria2 credential becomes a space; a WireGuard
    key is decoded twice; a password without a user drops a SOCKS or HTTP server; a SOCKS
    pair in base64 is taken for a name when pasted; of `user:password` in a Trojan or Hysteria2 link a
    subscription takes the whole (`links.go:428`, `links.go:721-723`) and pasting the user alone
    (`v2ray_import.go:134`, `v2ray_import.go:230`), which is what the comment at
    `v2ray_import.go:154-156` warns of; pins, obfuscation, port ranges,
    plugins and the VLESS `encryption` are lost in pasting; `xtls` loses its encryption in pasting;
    a header of type http is lost. Merging looks at no WireGuard key
    (`merge.go:97`), and numbering does not note the name it gives (`links.go:1447`), so that "A", "A" and "A-01"
    make one name twice, and so do two sources of one name with "A" twice in each, merged after a
    third list that has "A" twice. `ProtectionIsKept`, `OneServerEveryWay` and `ListsAreWhole` are stated
    for the rest.
12. `internal/mihomoconf/config.go:506` and `session.go:875`: a comment or an item at the margin
    ends a block, so that part of what was to be replaced stays.
13. `internal/sysproxy`: many a read that fails is no error but "off" or "empty": a macOS service that
    cannot be read is passed over, and no service at all is no proxy (`sysproxy_darwin.go:35-44`); so are
    the values of GNOME, and all of KDE (`sysproxy_linux.go:151-153`, `184-191`), and the registry
    (`sysproxy_windows.go:29-45`). A restore then finds the user's "off" satisfied, removes the record
    and leaves the machine on the program's dead port; a capture files "off" as what the user had. A record
    that cannot be read is taken for none (`system_proxy.go:168-170`), so that the next capture reads
    the machine while it is the program's, and files that.
14. `internal/sysproxy/sysproxy_linux.go:71-80, 119-128`, `sysproxy_darwin.go:24-44`: what is read before a
    restore is one route of the first desktop, or of the first service that has anything. If the process
    died in the middle of a change, or a desktop refused while another took it, what is read may be the user's
    and the rest the program's: the restore finds nothing to do and removes the record. Likewise a
    restore gives every service and desktop, and every route, what that first one had.
15. `reset.go:45-64`: a machine that is stranded is no running connection, so that a reset goes ahead,
    and removes the record with the other files.
16. `app.go:281-286`, `internal/profiles/backup.go:35`: a backup is normalised and written outside the
    lock, from a copy that shares its lists and the map of parked filters with the state in memory, in which
    `whitevpn_settings.go:441-449` exchanges filters in place and `v2ray.go:328-333` shifts configs. What is
    written may be of two moments, with blank configs, and normalising it can drop from memory a filter
    that was just parked (`store.go:539-543`). Go may also end the program over it.
17. `internal/profiles/store.go:51-57`: a state file that does not parse, or whose resolvers cannot be
    moved to a file of their own, leaves the program on the defaults; the next save that succeeds
    writes those over every config on disk.
18. `whitevpn_measure.go:154-156`: a test of everything takes the row of All with the others, whose
    read does not end (defect 6). A write to an engine whose pipe is full has no deadline, so that a test and its
    Close may hang (`internal/engine/spawn.go:274`), and `whitevpn_measure.go:197` drops the error of Close.
19. `fronting.go:65-75`: whether there is a handshake to put the name in is asked of the `tls` key, which a
    trojan link over ws or grpc does not have (`links.go:423-458`): without an sni its name is lost.
    `fronting.go:80-93` counts grpc among the transports that carry a name, but writes none there;
    a transport without options gets none either (`fronting.go:159-164`); and the host of h2 or xhttp is
    looked for where links and documents do not have it (`fronting.go:128-131`, `148-152`).

## 5. Proofs

TLAPS proves these for every value of the constants that satisfies the named
assumptions of the modules. They are checked from nothing by `tlapm`.

| Theorem | Under | Argument |
| --- | --- | --- |
| `SystemProxyProofs`: `TypeCorrect` | — | Inductive as it stands. |
| `NothingIsLost`, `RecordIsTrue`, `StrandedIsRecorded` | one caller at a time (`OneCaller`); in the properties themselves: no slip yet (`Noticed`) | `IInv`: the properties are not inductive alone, since what a step may do depends on what the call has seen. `CallerInv` says what each position knows: past `CaptureWriteBackup` there is a record; before it there is none and `previous` is the user's; before the record is removed the machine is read to be back. `Whole`: after a change that was not cut in half either the machine is read to be on the program's proxy, or no place of it is. |
| `BadgeIsTrue` | `OneCaller` | `BadgeInv`: a capture that fails half way leaves a machine that already was on the program's proxy there; only a restore takes it off, and that one either clears the badge or reports the machine stranded. |
| `LoanImplemented` | `OneCaller` | Under `IInv` each step maps to borrow, redirect, settle, user's choice, the first slip, after which the loan promises nothing, or a stutter. Writing the record is the borrowing, removing it the settling. |
| `LoanIsReturned` | `OneCaller`, no slip yet | What is owed was the user's: so in the loan (`LoanKeepsFaith`), and by `LoanImplemented` in the code. |
| `ConnectLifecycleProofs`: `TypeCorrect` | — | With `HoldsSomething`: who closes or cancels holds something. |
| `ConnectsCanBeStopped` | a start is called only once those before have returned or been stopped | Of two starts in flight one is cancelled. |
| `NoEngineIsOrphaned` | the same, and Close works | `Custody`: who may cancel whom, when an engine exists, and what the slot holds while it is being cleared. |
| `NothingIsOutOfReach` | the same | The two together. |
| `StoppedStaysOut` | — | Only an engine that would not close is put in the slot after a stop. |
| `StatusSettles` | no recovery begins (`NeverRecovers`) | `Accounted`: while the status is Connecting some start is between saying so and saying how it ended, while it is Stopping some stop is; each keeps to that stretch until it has set the status. |
| `ValidatorRunProofs`: `TypeCorrect`, `RunsDoNotOverlap`, `SendsAreSafe` | — | `Order`: the position of the run's goroutine says how far its file and its workers are. |
| `QuittingSavesRows` | — | Inductive with `Order`. |
| `EndsAreToldRight` | — | `LiveRun`: what is reported as running has a context nobody ended and all its jobs fed or to be fed. `Sums`: every job it fed is waiting, with a worker, or counted (`JobsCounted`), every row it counted is in the file or on its way there unless the file failed (`RowsCounted`), and a worker leaves only when the channel is closed and empty. When the workers are gone the sums are the totals. `Ended`: the last metadata is written after the workers have left. |
| `PlacesAreNeverLost` | — | The count equals the cardinality of the probing workers; one lemma each for a place taken and one returned. |
| `EnginesHandled`, `StoppedForGood` | — | `StartedOnce`: an engine is started at one place, and whoever is to close one holds one that was started. |
| `EngineTypeCorrect`, `StopsAreConfirmed` (of EngineProcess) | — | `ProcessInv`: the wait is over only once the core is gone or a pkexec was in its place. |
| `HandleKept` | — | `HandleInv`: one Stop at a time is under way, and after one was through the others find the process gone. Each step maps to one of EngineHandle's or a stutter. |
| `TableIsOfLiveCalls`, `ReaderNeverWaits` | — | `ClientInv`: a waiter is in the table, with the reader, with `finish`, or has had its one message: exactly one of these. |
| `TableServes` | — | The two together. |
| `NodeSessionProofs`: `TypeCorrect`, `OneEngineAtATime` | — | A connect that has begun is at one of its variants; it leaves a variant only with its engine confirmed stopped. |
| `SessionsAgree` | in `SessionAgrees` itself: the engine refuses nothing, the deadline does not pass, user and watchdog do not overlap | `Agreement`: one of the two moves at a time, and what each knows at its position (`UserKnows`, `WatcherKnows`): what it will put back is who chose before, and a session that is not automatic names a node. |
| `HandPickedStays` | in `HandPickedIsKept` itself: no overlap | `PinKnown`: the watchdog that finds its checks failing has read that the node was picked by hand. |
| `SubscriptionsProofs`: `SourcesAreKeptSound` | — | `TaskOK` says what a task in flight may rely on wherever it is: a merged read has something to merge, what is used of a body has nodes, what is fetched can be stored. Nothing is assumed of rows, lists and selection between its steps; a refresh looks again when it lands, and `saveLocked` puts right what a removal leaves. |
| `GoodCopiesStay` | — | Of each step, from the types. |
| `StoredStateProofs`: `FiltersStay` | in `FiltersStayHome` itself: no filter has strayed yet | What is saved may be `Loose`: each filter is its source's and parked or in force, not both. Normalising makes it `Tidy`: nothing parked for a list that is gone (`NormalizedIsTidy`), since the selection is corrected, with its filter, before that is dropped. Memory is tidy after every operation, and so is what a backup copies of it; the file, which an older build may have written, and the backup need only be loose. Writing a backup keeps memory tidy as long as the source it copied is still selected. |
| `FilesAreThere` | — | `RInv`: a state in memory or on disk names a file that is there, a backup names none. A file is written before the state that names it, and only a reset takes files away (`SaveKeepsFiles`). |
| `NamedExists` | — | `IInv`: whatever is stored is `Valid` (no config twice) and what was ever saved is `Settled` (it chooses something it has). `StepKinds` reduces every step to five: it saves a `Sound` state, leaves what is stored alone, starts the program, restores a backup, or deletes. What a list keeps of a set is `KeepingIs`, by induction over its prefixes (`UpTo`). |
| `RestartBringsBack` | — | Normalising what is normalised changes nothing (`NormalizedIsValid`), nor does moving its resolver list to a file (`FiledIsValid`), and nothing in memory is of the catalogue; so a start, which normalises, moves and forgets, finds nothing to do (`SavedStays`) but to add or take away the row of All, which it does the same the next time. |
| `NothingGoes` | — | Of several configs of one server the chosen one or the first is kept, which exists since positions are numbers (`Least`), and no other (`OnlyOneIsKept`). `DInv`: what is on disk is in memory while no save has failed and no start fell to the defaults (`standing`); what a step saves that is no removal has all that memory had, and the same choice under a connection (`Sound`). |
| `NodeMeasureProofs`: `MeasuringIsOfItsList`, `MeasuredStays` | — | `ListKnown`: where a run works it knows its list, and its engine is of that list. A list is replaced by one that carries over what was measured (`Replaced`), a result is recorded only of a node in it (`Recorded`). |
| `PageIsRight` | no test yet whose engine did not start, in `PageShowsTheRun` itself | `OneAtATime`: request, run, the end it owes and its event follow one another, and there is never more than one of them. |
| `RunLeavesNoGap` | — | `Progress`: what a run that is not cancelled has behind it at each place, of dials, delays and downloads, for nodes that may leave meanwhile (`LeavingIsNoted`). Downloads go upwards from the first node, which exists because sets of nodes are well founded under inclusion (`FirstIsOne`). |
| `EngineConfigProofs`: `EngineConfigTyped`, `EngineConfigSettingsHold` | — | `Held(N, A)`: what has been read is `SourceRead` from its source, what is read, merged and shaped keeps to the names N and addresses A that the worlds keep to, and `engine` is `Rendered` or `Passed`, each with what the code says of it, place by place. N and A are parameters, so that each theorem may choose what it has to exclude. |
| `EngineConfigProtects` | no server is at the front's address (`NoneAtTheFront`); in `NameStillTravels` itself: not the servers of defect 19 | Every reader is followed from the description to the node, for each scheme and option (`SourceIsRead`), and a pasted server through import, export and reading again (`PastedComes`). What says TLS says so by a key, but for trojan, AnyTLS and Hysteria2 (`TLSKeyed`), so that the front finds it. With A without the front's address, what is at it was put there by `FrontProxy`, which looks first whether the name travels. |
| `EngineConfigOneServer` | in `OneServerEveryWay` itself: not what is `Lost`, nor credentials that are not in `CredentialsKept`, nor WireGuard | From `PastedRead` in `Held`: what a pasted server is read as, against the link it was. |
| `EngineConfigRoutes` | no server is named as the second hop is, and none hidden under that name (`Unreserved`) | With N without that name. Rules are taken apart by place: the first that fits is among the direct ones, of the split, or the last. The group is what the hop's kind leaves, so each of it can carry it: what needs datagrams has only those in front of it whose description says they carry them. |
| `EngineConfigMerges` | no server's secret is empty (`Keyed`) | `MergeHeld`: the pool serves every identity it has noted, each server read so far has its own noted, and numbering the pool again changes names only. |
| `EngineConfigListsWhole` | no label is another label with a number; with All, sources have names of their own, which no server's name is or begins with (`LabelsApart`); and `Keyed` | `KeysHeld`: each list is told apart by names that come of its labels, and the nodes are. A name with a number is one name's, with one number, since numbers are written in ones behind a dash (`NumberedOnce`); so what is registered is given once (`RegisteredApart`). In the pool every name is a node's own or its source in front of it (`PoolTells`), and a pair of source and name comes once (`MergedApart`). |

The conditions in the second column are not conveniences. With two callers the record
is not the user's (defect 2), and what rests on the record falls with it; with
overlapping starts, or an engine that would not close, the two theorems of the lifecycle
fail as the hazard at `mihomo_connect.go:400` says; and a recovery that a stop overtakes leaves
the status at Connecting (defect 4). Nor are the exceptions the properties make themselves: a read that
failed silently drops the record of a machine that is still the program's (defect 13), a start that takes
All away, settings saved of a source left behind and a backup written late leave a filter in force in
another source (defects 6, 8 and 16), and a start on the defaults ends with every config overwritten (defect 17). That a scan has a worker at all, without which it would
complete having counted nothing, is `scanner.go:516`. A server that is
at the front's address already is not asked for by name, one that is called "WhiteVPN Exit" makes the
second hop's name twice, and merging takes an empty secret for that of any other server at the
address that needs none. With a label that is numbered already, or with sources of one name, a name is given
twice (defect 11); the run has sources of one name too, of which one has a single server.

**Only model-checked.** Liveness, since fairness is beyond this prover:
`StartupGivesBack`, `StopStops`, `ScanEnds`, `NoCallOutlivesConnection`, `StopsEnd`,
`SessionSettles`, `FetchingEnds`, `TestEnds`. What the engine does with a document is not modelled.

Recursive definitions are functions on 0..n here, and what they compute for a list of any length is
proved by induction over its prefixes: `UpTo`, which follows from the library's theorem on well-founded
orders, and `Iterated`, that such a function exists.

## 6. Plan

The order was: what can leave the machine unusable (SystemProxy), what decides who owns an
engine (ConnectLifecycle), the component with the most goroutines (ValidatorRun), the process
below (EngineProcess), the session between (NodeSession), what all of them are fed with
(Subscriptions, StoredState, EngineConfig), and the tests beside it (NodeMeasure). What is left:

1. Composition: ConnectLifecycle's session implemented by NodeSession, as its engine is by
   EngineProcess; the exit of the program with a connect in flight (`app.go:192`).
2. Pure operators not yet modelled: the ranges and grades of the validator's probe engine, versions, and
   the comparison that finds whether a desktop's proxy is the program's.
3. The tray's menu and the tunnel adapter, each as a caller of the lifecycle.

Other behaviours met while modelling, not yet covered by a property:
stopMihomo closes the engine before it restores the proxy, while its comment promises the
other order (`mihomo_connect.go:430`); the exit country of an earlier node may land on the
present one (`mihomo_connect.go:327`); a frame over the limit ends the reader but leaves the
connection open (`internal/engine/client.go:97`); the validator's writer is cleared
before its last metadata is written, so that a quit does not wait for it (`scanner.go:370`);
a recovery walks the candidates of the connect and not those of a later choice
(`internal/session/session.go:517`).
