---------------------------- MODULE SystemProxy ----------------------------
(***************************************************************************)
(* The machine's proxy setting, lent to the app while it is connected in    *)
(* proxy mode, and the record on disk (system-proxy.json) of what the user  *)
(* had.  Models captureSystemProxy and restoreSystemProxy of                *)
(* system_proxy.go step by step over the three implementations of           *)
(* internal/sysproxy, with failing calls, crashes in the middle of either,  *)
(* and the restore that every start of the app begins with.                 *)
(*                                                                          *)
(* A machine keeps the setting in several places, written one after another *)
(* and not all read back: macOS in every network service, Linux in GNOME's  *)
(* settings and in KDE's, Windows in one.  Many a read that fails is taken   *)
(* for "off" or "empty" and no error is returned.                            *)
(*                                                                          *)
(* Neither function takes a lock.  A caller is a goroutine that runs one of  *)
(* them: the tail of a connect, a stop, a click in the tray.                *)
(***************************************************************************)
EXTENDS Naturals, FiniteSets

CONSTANTS
    Callers,     \* the goroutines that capture and restore
    Platforms,   \* the implementations of internal/sysproxy considered
    MaxServices, \* bound: the network services of a Mac
    OurServers,  \* 127.0.0.1:port for the ports the engine may listen on
    UserServers, \* proxies the user may have configured
    UserBypasses, \* and exception lists: "theirs", "empty"
    Faults,      \* what may go wrong: "apply", "read", "write"
    NoFile,      \* there is no backup
    Corrupt,     \* a backup that does not parse: its writing was cut short
    MaxFailures, \* bound: how many calls go wrong
    MaxCrashes   \* bound: how often the process dies

ASSUME SystemProxyAssumption ==
    /\ Platforms \subseteq {"windows", "darwin", "linux"}
    /\ OurServers \cap UserServers = {}
    /\ OurServers \cup UserServers \subseteq STRING \ {"none", "direct"}
    /\ UserBypasses \subseteq {"theirs", "empty"}
    /\ MaxServices \in Nat /\ MaxFailures \in Nat /\ MaxCrashes \in Nat

\* sysproxy.State.  A bypass list is "default" (DefaultBypass), the same list
\* without WinINET's <local> token, the user's own, or empty.
Servers == OurServers \cup UserServers \cup {"none"}
Bypasses == {"default", "defaultNoLocal", "theirs", "empty"}
States == [enabled: BOOLEAN, server: Servers, bypass: Bypasses]

\* One place: the route that is read back (HTTPS on macOS, HTTP on the desktops),
\* the other routes, which are only written, and the bypass list.
Switches == [enabled: BOOLEAN, server: Servers]
Settings == [read: Switches, rest: Switches, bypass: Bypasses]

ASSUME BackupAssumption ==
    /\ NoFile # Corrupt /\ {NoFile, Corrupt} \cap States = {}
    /\ NoFile \notin Servers \cup {"direct"}

VARIABLES
    machine,     \* what each place of the machine holds now
    file,        \* the backup file
    systemProxy, \* Runtime.SystemProxy
    stranded,    \* Runtime.SystemProxyStranded
    pc, next, previous, \* each caller's position and locals
    phase,       \* the app: "down", "starting" (startup's restore), "running"
    crashes,
    platform,    \* the implementation compiled in; never changes
    failures,    \* how many calls have gone wrong
    theirs,      \* history: what the user last chose while nothing was lent
    slips        \* history: what has gone wrong since without being noticed:
                 \* "blind", "torn", "reset" (see below)

vars == <<machine, file, systemProxy, stranded, pc, next, previous, phase, crashes,
          platform, failures, theirs, slips>>
locals == <<next, previous>>
app == <<phase, crashes, platform, theirs>>

-----------------------------------------------------------------------------
(* internal/sysproxy.                                                        *)

\* The places of a machine.  A desktop's are numbered in the order of
\* availableBackends: GNOME, then KDE; one of them may be missing.
KDE == 2
Layouts ==
    CASE platform = "windows" -> {{1}}
      [] platform = "linux" -> {{1}, {KDE}, {1, KDE}}
      [] platform = "darwin" -> {1..n : n \in 1..MaxServices}
Machines == UNION {[places -> Settings] : places \in Layouts}

\* What a user may have set up, by hand, before the app touches anything: each
\* place as he likes, with one proxy for all its routes.
Chosen(sw) == sw.server \in UserServers \cup {"none"} /\ (sw.enabled => sw.server # "none")
UserSettings ==
    {x \in Settings : /\ Chosen(x.read) /\ x.bypass \in UserBypasses
                      /\ x.rest = x.read}
UserMachines == UNION {[places -> UserSettings] : places \in Layouts}

NoState == [enabled |-> FALSE, server |-> "none", bypass |-> "empty"]

SameAs(s, other) == s = other

SatisfiesSwitchOnly(s, want) == s.enabled = want.enabled \* a mutant of:
Satisfies(s, want) ==
    IF want.enabled THEN s.enabled /\ s.server = want.server ELSE ~s.enabled

Pointing(endpoint) == [enabled |-> TRUE, server |-> endpoint, bypass |-> "default"]

\* bypassEntries and bypassDomains drop the token the desktop does not know.
BypassEntries(b) == IF b = "default" THEN "defaultNoLocal" ELSE b

\* What one place is read as; macOS has no read for the bypass list.
ReadPlace(x) == [enabled |-> x.read.enabled, server |-> x.read.server, bypass |-> x.bypass]
ServiceProxy(x) == [ReadPlace(x) EXCEPT !.bypass = "empty"]

First(places) == CHOOSE p \in places : \A q \in places : p <= q

\* Current when every read succeeds: the first service that has anything set, the
\* first desktop.
HasAny(m) == {p \in DOMAIN m : m[p].read.enabled \/ m[p].read.server # "none"}
Seen(m) ==
    IF platform # "darwin" THEN ReadPlace(m[First(DOMAIN m)])
    ELSE IF HasAny(m) = {} THEN NoState ELSE ServiceProxy(m[First(HasAny(m))])

\* A value that could not be read is taken for its absence.  Only GNOME's mode
\* is an error when it cannot be read: then the next desktop is asked.
Misread(x, switch) ==
    [enabled: {x.read.enabled} \cup (IF switch THEN {FALSE} ELSE {}),
     server: {x.read.server, "none"}, bypass: {x.bypass, "empty"}]

\* What Current may answer, without an error, when some reads fail.  A service that
\* cannot be read is passed over, so that another answers, or none.
Answers(m) ==
    CASE platform = "windows" -> UNION {Misread(m[p], TRUE) : p \in DOMAIN m}
      [] platform = "linux" -> UNION {Misread(m[p], p = KDE) : p \in DOMAIN m}
      [] platform = "darwin" -> {NoState} \cup {ServiceProxy(m[p]) : p \in HasAny(m)}

MayFail(call) == call \in Faults /\ failures < MaxFailures
Fails(call) == MayFail(call) /\ failures' = failures + 1

Current(got) ==
    \/ got = Seen(machine) /\ UNCHANGED failures
    \/ got \in Answers(machine) /\ Fails("read")

\* What Apply(s) leaves in a place when all of it takes.  Windows writes every
\* value; the desktops and networksetup only flip the switch when the proxy
\* goes off, and networksetup is given no bypass list if there is none.
Everywhere(s, bypass) ==
    LET sw == [enabled |-> s.enabled, server |-> s.server]
    IN  [read |-> sw, rest |-> sw, bypass |-> bypass]
ApplyPerConnection(s) == Everywhere(s, s.bypass)
DesktopApply(x, s) ==
    IF s.enabled THEN Everywhere(s, BypassEntries(s.bypass))
                 ELSE [x EXCEPT !.read.enabled = FALSE, !.rest.enabled = FALSE]
ProxyScript(x, s) ==
    IF s.enabled /\ s.bypass = "empty" THEN Everywhere(s, x.bypass) ELSE DesktopApply(x, s)

AppliedTo(x, s) ==
    CASE platform = "windows" -> ApplyPerConnection(s)
      [] platform = "linux" -> DesktopApply(x, s)
      [] platform = "darwin" -> ProxyScript(x, s)

Applied(m, s) == [p \in DOMAIN m |-> AppliedTo(m[p], s)]

\* What is in a place when some of its writes are done: a desktop has one switch for
\* all routes, and WinINET is told everything in one call.  The bypass list is written
\* with the other routes.
Parts == CASE platform = "windows" -> {"read"}
           [] platform = "linux" -> {"switch", "read", "rest"}
           [] platform = "darwin" -> {"read", "rest"}
Switched(old, new, done, part) ==
    IF platform = "linux"
    THEN [enabled |-> IF "switch" \in done THEN new.enabled ELSE old.enabled,
          server |-> IF part \in done THEN new.server ELSE old.server]
    ELSE IF part \in done THEN new ELSE old
Partly(x, s, done) ==
    LET new == AppliedTo(x, s)
    IN  IF done = {} THEN x
        ELSE IF done = Parts THEN new
        ELSE [read |-> Switched(x.read, new.read, done, "read"),
              rest |-> Switched(x.rest, new.rest, done, "rest"),
              bypass |-> IF "rest" \in done THEN new.bypass ELSE x.bypass]

\* What is in the machine when Apply stops half way: all of what comes before one
\* place is written, nothing of what comes after it.
InOrder(m) ==
    UNION {{[p \in DOMAIN m |-> IF p < cut THEN Parts ELSE IF p > cut THEN {} ELSE done] :
                done \in SUBSET Parts} : cut \in DOMAIN m}
Done(m, s, done) == [p \in DOMAIN m |-> Partly(m[p], s, done[p])]
CutShort(m, s) == {Done(m, s, done) : done \in InOrder(m)}

\* What is there when it returns an error: a desktop that refuses is passed over, and
\* so each of them may be left anywhere.
Refused(m, s) ==
    IF platform = "linux" THEN {Done(m, s, done) : done \in [DOMAIN m -> SUBSET Parts]}
                          ELSE CutShort(m, s)

\* What it may leave and report as done: the desktops that refused while another
\* took it; on macOS nothing, when the administrator's prompt was dismissed.
TakenForDone(m, s) ==
    CASE platform = "windows" -> {}
      [] platform = "linux" -> {k \in Refused(m, s) :
                                   \E p \in DOMAIN m : k[p] = AppliedTo(m[p], s)}
      [] platform = "darwin" -> {m}

\* What Verify reads, and what it makes of it: macOS reads every service again and
\* takes a failed read for an error, Windows asks WinINET about the switch first,
\* Linux compares what Current answers.
ReadBack(got) ==
    IF platform = "darwin" THEN got = Seen(machine) /\ UNCHANGED failures ELSE Current(got)
VerifyAssumed(m, want, got) == TRUE \* a mutant of:
VerifyOK(m, want, got) ==
    CASE platform = "windows" ->
            /\ \A p \in DOMAIN m : m[p].read.enabled = want.enabled
            /\ Satisfies(got, want) /\ (want.enabled => got.bypass = want.bypass)
      [] platform = "darwin" -> \A p \in DOMAIN m : Satisfies(ServiceProxy(m[p]), want)
      [] platform = "linux" -> SameAs(got, want)

-----------------------------------------------------------------------------
(* What the properties are about.                                            *)

\* Where settings send the traffic.
Route(s) == IF s.enabled THEN s.server ELSE "direct"

\* Where the machine is read to send its traffic, and where its user chose.
Now == Route(Seen(machine))
Users == Route(Seen(theirs))

OnOurs(sw) == sw.enabled /\ sw.server \in OurServers
NowhereOurs(m) == \A p \in DOMAIN m : ~OnOurs(m[p].read) /\ ~OnOurs(m[p].rest)
PointedAtUs == \E p \in DOMAIN machine : OnOurs(machine[p].read)

\* Slips.  "blind": a decision was taken on a read that failed without an error and
\* told another route than the machine's, or hid the record.  "torn": the last Apply left a part of
\* the machine unwritten.  "reset": the record went with the app's data while the
\* machine was still lent.
Unread == IF file \in States THEN {"blind"} ELSE {}
Unseen(got) == IF Route(got) = Now THEN {} ELSE {"blind"}
Wrote(k, s) ==
    /\ machine' = k
    /\ slips' = IF k = Applied(machine, s) THEN slips \ {"torn"}
                ELSE IF k = machine THEN slips ELSE slips \cup {"torn"}

\* Apply when it reports that it is done, and when it reports an error.
Apply(s) ==
    \/ Wrote(Applied(machine, s), s) /\ UNCHANGED failures
    \/ Fails("apply") /\ \E k \in TakenForDone(machine, s) : Wrote(k, s)
ApplyError(s) == Fails("apply") /\ \E k \in Refused(machine, s) : Wrote(k, s)

-----------------------------------------------------------------------------
TypeOK ==
    /\ machine \in Machines
    /\ file \in States \cup {NoFile, Corrupt}
    /\ systemProxy \in BOOLEAN
    /\ stranded \in BOOLEAN
    /\ pc \in [Callers -> {"idle", "capRead", "capCurrent", "capWrite", "capWriting",
                           "capApply", "capVerify", "resRead", "resCheck", "resApply",
                           "resVerify", "resRemove"}]
    /\ next \in [Callers -> States]
    /\ previous \in [Callers -> States]
    /\ phase \in {"down", "starting", "running"}
    /\ crashes \in 0..MaxCrashes
    /\ platform \in Platforms /\ failures \in 0..MaxFailures
    /\ theirs \in UserMachines
    /\ slips \subseteq {"blind", "torn", "reset"}

Init ==
    /\ platform \in Platforms /\ failures = 0
    /\ theirs \in UserMachines
    /\ machine = theirs /\ slips = {}
    /\ file = NoFile
    /\ systemProxy = FALSE /\ stranded = FALSE
    /\ pc = [c \in Callers |-> "idle"]
    /\ next = [c \in Callers |-> NoState]
    /\ previous = [c \in Callers |-> NoState]
    /\ phase = "running"
    /\ crashes = 0

\* The locals end with the call.
At(c, label) == pc' = [pc EXCEPT ![c] = label]
Goto(c, label) == At(c, label) /\ UNCHANGED locals
Return(c) ==
    /\ At(c, "idle")
    /\ next' = [next EXCEPT ![c] = NoState]
    /\ previous' = [previous EXCEPT ![c] = NoState]

-----------------------------------------------------------------------------
(* captureSystemProxy(port), one action per call that leaves the process.    *)

CaptureSystemProxy(c) ==
    /\ phase = "running" /\ pc[c] = "idle"
    /\ \E endpoint \in OurServers : next' = [next EXCEPT ![c] = Pointing(endpoint)]
    /\ At(c, "capRead")
    /\ UNCHANGED <<machine, file, systemProxy, stranded, previous, failures, app, slips>>

\* A backup already on disk is the last run's, and it is left alone.
NeverHeld == FALSE \* a mutant of:
Held == file \in States

\* readSystemProxyBackup: a backup that does not parse is removed, and one that
\* cannot be read is taken for none.
CaptureReadBackup(c) ==
    /\ pc[c] = "capRead"
    /\ \/ /\ IF Held
             THEN previous' = [previous EXCEPT ![c] = file] /\ UNCHANGED next /\ At(c, "capApply")
             ELSE Goto(c, "capCurrent")
          /\ file' = IF file = Corrupt THEN NoFile ELSE file
          /\ UNCHANGED <<failures, slips>>
       \/ /\ Fails("read") /\ Goto(c, "capCurrent") /\ UNCHANGED file
          /\ slips' = slips \cup Unread
    /\ UNCHANGED <<machine, systemProxy, stranded, app>>

CaptureReadCurrent(c) ==
    /\ pc[c] = "capCurrent"
    /\ \/ \E got \in States :
             /\ Current(got)
             /\ previous' = [previous EXCEPT ![c] = got]
             /\ slips' = slips \cup Unseen(got)
             /\ UNCHANGED next /\ At(c, "capWrite")
       \/ Fails("read") /\ UNCHANGED slips /\ Return(c)
    /\ UNCHANGED <<machine, file, systemProxy, stranded, app>>

\* os.WriteFile truncates before it writes, so a crash here leaves a file
\* that does not parse.
CaptureOpenBackup(c) ==
    /\ pc[c] = "capWrite"
    /\ \/ file' = Corrupt /\ UNCHANGED failures /\ Goto(c, "capWriting")
       \/ Fails("write") /\ UNCHANGED file /\ Return(c)
    /\ UNCHANGED <<machine, systemProxy, stranded, app, slips>>

CaptureWriteBackup(c) ==
    /\ pc[c] = "capWriting"
    /\ \/ file' = previous[c] /\ UNCHANGED failures /\ Goto(c, "capApply")
       \/ Fails("write") /\ UNCHANGED file /\ Return(c)
    /\ UNCHANGED <<machine, systemProxy, stranded, app, slips>>

CaptureApply(c) ==
    /\ pc[c] = "capApply"
    /\ \/ Apply(next[c]) /\ Goto(c, "capVerify")
       \/ ApplyError(next[c]) /\ Return(c)
    /\ UNCHANGED <<file, systemProxy, stranded, app>>

CaptureVerify(c) ==
    /\ pc[c] = "capVerify"
    /\ \/ \E got \in States :
             /\ ReadBack(got)
             /\ IF VerifyOK(machine, next[c], got) THEN systemProxy' = TRUE /\ stranded' = FALSE
                                                   ELSE UNCHANGED <<systemProxy, stranded>>
       \/ Fails("read") /\ UNCHANGED <<systemProxy, stranded>>
    /\ Return(c)
    /\ UNCHANGED <<machine, file, app, slips>>

-----------------------------------------------------------------------------
(* restoreSystemProxy.                                                       *)

RestoreSystemProxy(c) ==
    /\ phase = "running" /\ pc[c] = "idle"
    /\ Goto(c, "resRead")
    /\ UNCHANGED <<machine, file, systemProxy, stranded, failures, app, slips>>

RestoreReadBackup(c) ==
    /\ pc[c] = "resRead"
    /\ \/ /\ IF file \in States
             THEN previous' = [previous EXCEPT ![c] = file] /\ UNCHANGED next /\ At(c, "resCheck")
             ELSE Return(c)
          /\ file' = IF file = Corrupt THEN NoFile ELSE file
          /\ UNCHANGED failures
       \/ Fails("read") /\ UNCHANGED file /\ Return(c)
    /\ UNCHANGED <<machine, systemProxy, stranded, app, slips>>

\* Nothing to put back, and so nothing to ask permission for.
RestoreCheckCurrent(c) ==
    /\ pc[c] = "resCheck"
    /\ \/ \E got \in States :
             /\ Current(got)
             /\ IF Satisfies(got, previous[c])
                THEN slips' = slips \cup Unseen(got) /\ Goto(c, "resRemove")
                ELSE UNCHANGED slips /\ Goto(c, "resApply")
       \/ Fails("read") /\ UNCHANGED slips /\ Goto(c, "resApply")
    /\ UNCHANGED <<machine, file, systemProxy, stranded, app>>

StrandedSystemProxy == systemProxy' = TRUE /\ stranded' = TRUE

RestoreApply(c) ==
    /\ pc[c] = "resApply"
    /\ \/ Apply(previous[c]) /\ Goto(c, "resVerify") /\ UNCHANGED <<systemProxy, stranded>>
       \/ ApplyError(previous[c]) /\ Return(c) /\ StrandedSystemProxy
    /\ UNCHANGED <<file, app>>

RestoreVerify(c) ==
    /\ pc[c] = "resVerify"
    /\ \/ \E got \in States :
             /\ ReadBack(got)
             /\ IF VerifyOK(machine, previous[c], got)
                THEN /\ slips' = slips \cup Unseen(got)
                     /\ Goto(c, "resRemove") /\ UNCHANGED <<systemProxy, stranded>>
                ELSE UNCHANGED slips /\ Return(c) /\ StrandedSystemProxy
       \/ Fails("read") /\ UNCHANGED slips /\ Return(c) /\ StrandedSystemProxy
    /\ UNCHANGED <<machine, file, app>>

\* The error of os.Remove is dropped.
RestoreRemoveBackup(c) ==
    /\ pc[c] = "resRemove"
    /\ \/ file' = NoFile /\ UNCHANGED failures
       \/ Fails("write") /\ UNCHANGED file
    /\ systemProxy' = FALSE /\ stranded' = FALSE
    /\ Return(c)
    /\ UNCHANGED <<machine, app, slips>>

-----------------------------------------------------------------------------
(* The process and the user.                                                 *)

Quiet == \A c \in Callers : pc[c] = "idle"
Applying(c) == CASE pc[c] = "capApply" -> {next[c]}
                 [] pc[c] = "resApply" -> {previous[c]}
                 [] OTHER -> {}

\* The process, or the machine with it, dies between two steps or in the middle of
\* the writes of an Apply.
Crash ==
    /\ phase # "down" /\ crashes < MaxCrashes
    /\ \/ UNCHANGED <<machine, slips>>
       \/ \E c \in Callers : \E s \in Applying(c) : \E k \in CutShort(machine, s) : Wrote(k, s)
    /\ phase' = "down" /\ crashes' = crashes + 1
    /\ pc' = [c \in Callers |-> "idle"]
    /\ next' = [c \in Callers |-> NoState]
    /\ previous' = [c \in Callers |-> NoState]
    /\ systemProxy' = FALSE /\ stranded' = FALSE
    /\ UNCHANGED <<file, platform, failures, theirs>>

\* startup() restores before anything else can connect.
Startup(c) ==
    /\ phase = "down"
    /\ phase' = "starting"
    /\ Goto(c, "resRead")
    /\ UNCHANGED <<machine, file, systemProxy, stranded, crashes, platform, failures,
                   theirs, slips>>

StartupDone ==
    /\ phase = "starting" /\ Quiet
    /\ phase' = "running"
    /\ UNCHANGED <<machine, file, systemProxy, stranded, pc, locals, crashes, platform, failures,
                   theirs, slips>>

\* The user sets up a machine that the app neither has on record nor reports as lent.
UserChangesSettings ==
    /\ Quiet /\ file \notin States /\ ~systemProxy
    /\ theirs' \in [DOMAIN machine -> UserSettings]
    /\ machine' = theirs' /\ slips' = {}
    /\ UNCHANGED <<file, systemProxy, stranded, pc, locals, phase, crashes, platform,
                   failures>>

\* Told that the machine is stranded, the user turns the proxy off.
UserTurnsProxyOff ==
    /\ Quiet /\ stranded
    /\ machine' = [p \in DOMAIN machine |-> [machine[p] EXCEPT !.read.enabled = FALSE,
                                                             !.rest.enabled = FALSE]]
    /\ slips' = slips \ {"torn"}
    /\ UNCHANGED <<file, systemProxy, stranded, pc, locals, failures, app>>

\* ResetAppData is refused while a connection is up, but not while the machine is
\* stranded; it deletes the record with everything else.  Whether a connection is up
\* is not known here: without the badge it may be down.
ResetAppData ==
    /\ phase = "running" /\ Quiet /\ ~(systemProxy /\ ~stranded)
    /\ file' = NoFile
    /\ systemProxy' = FALSE /\ stranded' = FALSE
    /\ slips' = IF file \in States /\ Now # Route(file)
                THEN slips \cup {"reset"} ELSE slips
    /\ UNCHANGED <<machine, pc, locals, failures, app>>

Capture(c) ==
    \/ CaptureReadBackup(c) \/ CaptureReadCurrent(c) \/ CaptureOpenBackup(c)
    \/ CaptureWriteBackup(c) \/ CaptureApply(c) \/ CaptureVerify(c)

Restore(c) ==
    \/ RestoreReadBackup(c) \/ RestoreCheckCurrent(c) \/ RestoreApply(c)
    \/ RestoreVerify(c) \/ RestoreRemoveBackup(c)

Next ==
    \/ \E c \in Callers : \/ CaptureSystemProxy(c) \/ RestoreSystemProxy(c) \/ Startup(c)
                          \/ Capture(c) \/ Restore(c)
    \/ Crash \/ StartupDone \/ UserChangesSettings \/ UserTurnsProxyOff
    \/ ResetAppData

Spec == Init /\ [][Next]_vars

\* A goroutine that is running keeps running; nobody has to click or restart.
FairSpec ==
    /\ Spec
    /\ \A c \in Callers : WF_vars(Capture(c) \/ Restore(c))
    /\ WF_vars(StartupDone)

-----------------------------------------------------------------------------
(* Properties.                                                               *)

\* Nothing was filed or deleted on the word of a read that had silently failed, and
\* no record was deleted with the app's data.
Noticed == slips \cap {"blind", "reset"} = {}

\* What the code reads as the machine's setting is the user's again; and unless the
\* last change was left half made, no place or route uses the app's proxy.
GivenBack ==
    /\ Now = Users
    /\ "torn" \notin slips => NowhereOurs(machine)

\* Whenever there is no readable record on disk the machine is given back, however
\* many services or desktops it has, whatever fails with an error, and wherever
\* between two writes the process dies (system_proxy.go:50-58, 61-63, 120-125).
\* Reads that fail without an error, and a reset, are taken out: see README.
NothingLost == Noticed /\ file \notin States => GivenBack

\* The record is what the code read of the user's own setting, and never the app's
\* proxy, however many captures, failed restores and crashes lie between, with the
\* same two taken out (system_proxy.go:52-58).
RecordIsTheirs == Noticed /\ file \in States => Route(file) = Users

\* The badge: outside a call, of a machine reported as using the app's proxy and not
\* as stranded some place does use it, whatever read or write fails
\* (system_proxy.go:75-77).
BadgeTruth == Quiet /\ systemProxy /\ ~stranded => PointedAtUs

\* What is reported as lent or stranded still has its record, so that a stop or the
\* next start can try again (system_proxy.go:144-146).
StrandedKeepsRecord == Noticed /\ systemProxy => file \in States

Starting == phase = "starting" /\ \E c \in Callers : pc[c] = "resRead"

\* A start of the app in which no call fails any more gives the machine back, even if
\* calls have failed before and the process has died in the middle of a change.
StartupGivesBack ==
    Starting /\ failures = MaxFailures /\ Noticed ~> phase = "down" \/ GivenBack

-----------------------------------------------------------------------------
(* The machine as a loan: see ProxyLoan.                                     *)

Owes == IF file \in States THEN Route(file) ELSE NoFile

Loan == INSTANCE ProxyLoan WITH
            Routes <- Servers \cup {"direct"},
            UserRoutes <- UserServers \cup {"direct"},
            Nothing <- NoFile,
            route <- Now,
            owed <- Owes,
            kept <- Noticed

LoanSpec == Loan!Spec
=============================================================================
