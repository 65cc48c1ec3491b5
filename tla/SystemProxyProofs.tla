------------------------- MODULE SystemProxyProofs -------------------------
(***************************************************************************)
(* Proofs about SystemProxy for any number of services, ports, user proxies,  *)
(* failures and crashes, and any of the platforms.  All but the types need   *)
(* that one goroutine at a time captures or restores: with two RecordIsTheirs *)
(* is false (README, section 4).                                             *)
(***************************************************************************)
EXTENDS SystemProxy, FiniteSetTheorems, WellFoundedInduction, TLAPS

OneCaller == \A c, d \in Callers : c = d

Clean == NowhereOurs(machine)

\* Unless the last change was left half made, a machine that is read as another's is
\* nowhere the app's.
Whole == "torn" \notin slips => Now \in OurServers \/ Clean

\* What each step of a call knows.
CallerInv(c) ==
    /\ pc[c] \in {"capCurrent", "capWrite", "capWriting"} => file \notin States
    /\ pc[c] \in {"capWrite", "capWriting"} => Route(previous[c]) = Users
    /\ pc[c] \in {"capApply", "capVerify"} => file \in States
    /\ pc[c] \in {"resCheck", "resApply", "resVerify", "resRemove"} =>
            file \in States /\ file = previous[c]
    /\ pc[c] = "resRemove" => Now = Route(previous[c])

\* What holds as long as nothing has gone wrong unnoticed.
Kept ==
    /\ file \notin States => Now = Users
    /\ file \in States => Route(file) = Users
    /\ systemProxy => file \in States
    /\ \A c \in Callers : CallerInv(c)

IInv == TypeOK /\ Whole /\ (stranded => systemProxy) /\ (Noticed => Kept)

-----------------------------------------------------------------------------
(* internal/sysproxy.                                                        *)

\* The first of some places is one of them.
LEMMA FirstIsPlace ==
    ASSUME NEW n \in Nat, NEW places \in SUBSET (1 .. n), places # {}
    PROVE  First(places) \in places
<1> DEFINE below == {0 .. p : p \in places}
<1>1. IsWellFoundedOn(StrictSubsetOrdering(0 .. n), SUBSET (0 .. n))
  <2>1. IsFiniteSet(0 .. n)
    BY FS_Interval
  <2> QED
    BY <2>1, FS_FiniteSubsetsOfFinite, FS_StrictSubsetOrderingWellFounded, Zenon
<1>2. below \subseteq SUBSET (0 .. n) /\ below # {}
  <2>1. ASSUME NEW p \in places PROVE 0 .. p \subseteq 0 .. n
    OBVIOUS
  <2> QED
    BY <2>1
<1>3. PICK least \in below : \A other \in below : ~(<<other, least>> \in StrictSubsetOrdering(0 .. n))
  <2> HIDE DEF below
  <2> QED
    BY <1>1, <1>2, WFMin
<1>4. PICK p \in places : least = 0 .. p
  OBVIOUS
<1>5. ASSUME NEW q \in places PROVE p <= q
  <2> SUFFICES ASSUME q < p PROVE FALSE
    OBVIOUS
  <2>1. /\ 0 .. q \in below /\ 0 .. q \subseteq 0 .. p
        /\ p \in 0 .. p /\ p \notin 0 .. q /\ 0 .. p \subseteq 0 .. n
    OBVIOUS
  <2>2. 0 .. q # 0 .. p
    BY <2>1
  <2>3. 0 .. q \in SUBSET (0 .. n) /\ 0 .. p \in SUBSET (0 .. n)
    BY <2>1
  <2>4. <<0 .. q, 0 .. p>> \in StrictSubsetOrdering(0 .. n)
    BY <2>1, <2>2, <2>3 DEF StrictSubsetOrdering
  <2> QED
    BY <1>3, <1>4, <2>1, <2>4
<1> QED
  BY <1>5 DEF First

\* Every machine has a first place, and so has every part of it that is not empty.
LEMMA MachinePlaces ==
    ASSUME platform \in Platforms, NEW m \in Machines
    PROVE  /\ m \in [DOMAIN m -> Settings] /\ DOMAIN m \in Layouts
           /\ DOMAIN m # {} /\ DOMAIN m \subseteq Nat
           /\ \A places \in SUBSET DOMAIN m : places # {} => First(places) \in places
<1>1. PICK layout \in Layouts : m \in [layout -> Settings]
  BY DEF Machines
<1>2. PICK n \in Nat : layout \subseteq 1 .. n /\ layout # {}
  <2>1. CASE platform = "windows"
    BY <1>1, <2>1 DEF Layouts
  <2>2. CASE platform = "linux"
    BY <1>1, <2>2 DEF Layouts, KDE
  <2>3. CASE platform = "darwin"
    <3>1. Layouts = {1 .. n : n \in 1 .. MaxServices}
      BY <2>3 DEF Layouts
    <3>2. PICK n \in 1 .. MaxServices : layout = 1 .. n
      BY <3>1
    <3>3. n \in Nat /\ 1 \in 1 .. n
      BY <3>2, SystemProxyAssumption
    <3> QED
      BY <3>2, <3>3
  <2> QED
    BY <2>1, <2>2, <2>3, SystemProxyAssumption
<1>3. DOMAIN m = layout
  BY <1>1
<1>4. ASSUME NEW places \in SUBSET layout, places # {} PROVE First(places) \in places
  BY <1>2, <1>4, FirstIsPlace
<1> QED
  BY <1>1, <1>2, <1>3, <1>4

\* One place of it, read.
LEMMA PlaceType ==
    ASSUME NEW x \in Settings
    PROVE  /\ ReadPlace(x) \in States /\ ServiceProxy(x) \in States
           /\ \A switch \in BOOLEAN : Misread(x, switch) \subseteq States
BY DEF ReadPlace, ServiceProxy, Misread, Settings, Switches, States, Servers, Bypasses

\* A read that fails turns nothing on, and invents no server.
LEMMA PlaceFields ==
    ASSUME NEW x \in Settings
    PROVE  /\ \A got \in {ReadPlace(x), ServiceProxy(x)} :
                  (got.enabled <=> x.read.enabled) /\ got.server = x.read.server
           /\ \A switch \in BOOLEAN : \A got \in Misread(x, switch) :
                  (got.enabled => x.read.enabled) /\ got.server \in {x.read.server, "none"}
<1>1. x.read.enabled \in BOOLEAN
  BY DEF Settings, Switches
<1>2. \A got \in {ReadPlace(x), ServiceProxy(x)} :
          (got.enabled <=> x.read.enabled) /\ got.server = x.read.server
  BY DEF ReadPlace, ServiceProxy
<1>3. ASSUME NEW switch \in BOOLEAN, NEW got \in Misread(x, switch)
      PROVE  (got.enabled => x.read.enabled) /\ got.server \in {x.read.server, "none"}
  <2>1. got.enabled \in {x.read.enabled, FALSE} /\ got.server \in {x.read.server, "none"}
    BY <1>3 DEF Misread
  <2> QED
    BY <1>1, <2>1
<1> QED
  BY <1>2, <1>3

LEMMA AnswersAre ==
    ASSUME platform \in Platforms, NEW m, NEW got \in Answers(m)
    PROVE  \/ got = NoState
           \/ \E p \in DOMAIN m : got = ServiceProxy(m[p])
           \/ \E p \in DOMAIN m : \E switch \in BOOLEAN : got \in Misread(m[p], switch)
<1>1. CASE platform = "windows"
  BY <1>1 DEF Answers
<1>2. CASE platform = "linux"
  BY <1>2 DEF Answers
<1>3. CASE platform = "darwin"
  BY <1>3 DEF Answers, HasAny
<1> QED
  BY <1>1, <1>2, <1>3, SystemProxyAssumption

LEMMA NoStateType == NoState \in States
BY DEF NoState, States, Servers, Bypasses

\* What a machine is read as is what one of its places holds, or on a Mac where none
\* has anything set, nothing.
LEMMA SeenPlace ==
    ASSUME platform \in Platforms, NEW m \in Machines
    PROVE  \/ \E p \in DOMAIN m : Seen(m) \in {ReadPlace(m[p]), ServiceProxy(m[p])}
           \/ Seen(m) = NoState /\ \A p \in DOMAIN m : ~m[p].read.enabled
<1>1. First(DOMAIN m) \in DOMAIN m
  BY MachinePlaces
<1>2. HasAny(m) # {} => First(HasAny(m)) \in DOMAIN m
  BY MachinePlaces DEF HasAny
<1> QED
  BY <1>1, <1>2 DEF Seen, HasAny

LEMMA SeenType ==
    ASSUME platform \in Platforms, NEW m \in Machines
    PROVE  Seen(m) \in States /\ Answers(m) \subseteq States
<1>1. \A p \in DOMAIN m : m[p] \in Settings
  BY MachinePlaces
<1>2. Seen(m) \in States
  BY <1>1, SeenPlace, PlaceType, NoStateType
<1>3. Answers(m) \subseteq States
  BY <1>1, AnswersAre, PlaceType, NoStateType
<1> QED
  BY <1>2, <1>3

\* An answer that is on the app's proxy was read in a place that is.
LEMMA AnswerOnOurs ==
    ASSUME platform \in Platforms, NEW m \in Machines, NEW got \in Answers(m) \cup {Seen(m)},
           got.enabled, got.server \in OurServers
    PROVE  \E p \in DOMAIN m : OnOurs(m[p].read)
<1>1. "none" \notin OurServers /\ ~NoState.enabled /\ \A p \in DOMAIN m : m[p] \in Settings
  BY SystemProxyAssumption, MachinePlaces DEF NoState
<1>2. ASSUME NEW p \in DOMAIN m, got \in {ReadPlace(m[p]), ServiceProxy(m[p])}
      PROVE  OnOurs(m[p].read)
  BY <1>1, <1>2, PlaceFields DEF OnOurs
<1>3. ASSUME NEW p \in DOMAIN m, NEW switch \in BOOLEAN, got \in Misread(m[p], switch)
      PROVE  OnOurs(m[p].read)
  <2>1. (got.enabled => m[p].read.enabled) /\ got.server \in {m[p].read.server, "none"}
    BY <1>1, <1>3, PlaceFields
  <2> QED
    BY <1>1, <2>1 DEF OnOurs
<1>4. got # NoState
  BY <1>1
<1>5. CASE got = Seen(m)
  BY <1>2, <1>4, <1>5, SeenPlace
<1>6. CASE got \in Answers(m)
  BY <1>2, <1>3, <1>4, <1>6, AnswersAre
<1> QED
  BY <1>5, <1>6

\* A change, whole or in part, leaves a machine with the same places.
LEMMA AppliedToType ==
    ASSUME platform \in Platforms, NEW x \in Settings, NEW s \in States
    PROVE  AppliedTo(x, s) \in Settings /\ \A done : Partly(x, s, done) \in Settings
<1>1. AppliedTo(x, s) \in Settings
  BY SystemProxyAssumption
  DEF AppliedTo, ApplyPerConnection, DesktopApply, ProxyScript, Everywhere, BypassEntries,
      Settings, Switches, States, Bypasses
<1> HIDE DEF AppliedTo
<1> QED
  BY <1>1 DEF Partly, Switched, Settings, Switches

LEMMA ChangedType ==
    ASSUME platform \in Platforms, NEW m \in Machines, NEW s \in States
    PROVE  /\ Applied(m, s) \in Machines
           /\ \A done : Done(m, s, done) \in Machines
<1>1. m \in [DOMAIN m -> Settings] /\ DOMAIN m \in Layouts
  BY MachinePlaces
<1>2. Applied(m, s) \in [DOMAIN m -> Settings]
  BY <1>1, AppliedToType DEF Applied
<1>3. ASSUME NEW done PROVE Done(m, s, done) \in [DOMAIN m -> Settings]
  BY <1>1, AppliedToType DEF Done
<1> QED
  BY <1>1, <1>2, <1>3 DEF Machines

\* Everything that an Apply may leave behind is a change done in part, or the machine.
LEMMA LeftBehind ==
    ASSUME platform \in Platforms, NEW m, NEW s,
           NEW k \in CutShort(m, s) \cup Refused(m, s) \cup TakenForDone(m, s)
    PROVE  k = m \/ \E done : k = Done(m, s, done)
BY SystemProxyAssumption DEF CutShort, Refused, TakenForDone

\* Settings that satisfy a state send the traffic where the state does.
LEMMA SatisfiesRoute ==
    \A s, w \in States : Satisfies(s, w) => Route(s) = Route(w)
BY DEF Satisfies, States, Route

\* What verifies sends the traffic where it was asked to, if the read did not deceive.
LEMMA VerifyRoute ==
    ASSUME platform \in Platforms, machine \in Machines, NEW got \in States, NEW w \in States,
           VerifyOK(machine, w, got)
    PROVE  /\ Unseen(got) = {} /\ platform # "darwin" => Now = Route(w)
           /\ platform = "darwin" => Now = Route(w)
<1>1. CASE platform = "darwin"
  <2>1. DOMAIN machine # {} /\ \A p \in DOMAIN machine : machine[p] \in Settings
    BY MachinePlaces
  <2>2. \A p \in DOMAIN machine : Satisfies(ServiceProxy(machine[p]), w)
    BY <1>1 DEF VerifyOK
  <2>3. \A p \in DOMAIN machine :
            /\ ServiceProxy(machine[p]) \in States
            /\ ServiceProxy(machine[p]).enabled <=> machine[p].read.enabled
    BY <2>1, PlaceType, PlaceFields
  <2>4. CASE \A p \in DOMAIN machine : ~machine[p].read.enabled
    <3>1. ~w.enabled
      BY <2>1, <2>2, <2>3, <2>4 DEF Satisfies
    <3>2. ~Seen(machine).enabled
      <4>1. \A p \in DOMAIN machine : ~ReadPlace(machine[p]).enabled /\ ~ServiceProxy(machine[p]).enabled
        BY <2>1, <2>4, PlaceFields
      <4> QED
        BY <4>1, SeenPlace DEF NoState
    <3> QED
      BY <1>1, <3>1, <3>2 DEF Now, Route
  <2>5. CASE ~\A p \in DOMAIN machine : ~machine[p].read.enabled
    <3>1. HasAny(machine) # {}
      BY <2>5 DEF HasAny
    <3>2. First(HasAny(machine)) \in DOMAIN machine
      BY <3>1, MachinePlaces DEF HasAny
    <3>3. Seen(machine) = ServiceProxy(machine[First(HasAny(machine))])
      BY <1>1, <3>1 DEF Seen
    <3>4. Route(Seen(machine)) = Route(w)
      BY <2>2, <2>3, <3>2, <3>3, SatisfiesRoute
    <3> QED
      BY <1>1, <3>4 DEF Now
  <2> QED
    BY <2>4, <2>5
<1>2. CASE platform # "darwin"
  <2>1. Satisfies(got, w)
    BY <1>2, SystemProxyAssumption DEF VerifyOK, SameAs, Satisfies, States
  <2>2. Route(got) = Route(w)
    BY <2>1, SatisfiesRoute
  <2>3. Unseen(got) = {} => Route(got) = Now
    BY DEF Unseen, Now
  <2> QED
    BY <1>2, <2>2, <2>3
<1> QED
  BY <1>1, <1>2

\* The app's own proxy is a state of the machine.
LEMMA PointingType == \A e \in OurServers : Pointing(e) \in States
BY DEF Pointing, States, Servers, Bypasses

\* What a whole change leaves in a place.
LEMMA AppliedToSwitches ==
    ASSUME platform \in Platforms, NEW x \in Settings, NEW s \in States
    PROVE  /\ s.enabled => /\ AppliedTo(x, s).read = [enabled |-> TRUE, server |-> s.server]
                           /\ AppliedTo(x, s).rest = [enabled |-> TRUE, server |-> s.server]
           /\ ~s.enabled => ~AppliedTo(x, s).read.enabled /\ ~AppliedTo(x, s).rest.enabled
BY SystemProxyAssumption
DEF AppliedTo, ApplyPerConnection, DesktopApply, ProxyScript, Everywhere, Settings, Switches, States

\* A machine changed as a whole is read as what it was changed to; if that is not the
\* app's proxy, no place uses it.
LEMMA AppliedWhole ==
    ASSUME platform \in Platforms, NEW m \in Machines, NEW s \in States
    PROVE  Route(Seen(Applied(m, s))) \in OurServers \/ NowhereOurs(Applied(m, s))
<1> DEFINE k == Applied(m, s)
<1>1. k \in Machines /\ DOMAIN k = DOMAIN m /\ \A p \in DOMAIN m : k[p] = AppliedTo(m[p], s)
  BY ChangedType DEF Applied
<1>2. \A p \in DOMAIN m : m[p] \in Settings
  BY MachinePlaces
<1>3. DOMAIN k # {} /\ \A p \in DOMAIN k : k[p] \in Settings
  BY <1>1, MachinePlaces
<1> HIDE DEF k
<1>4. CASE ~s.enabled
  <2>1. ASSUME NEW p \in DOMAIN k PROVE ~k[p].read.enabled /\ ~k[p].rest.enabled
    <3>1. m[p] \in Settings /\ k[p] = AppliedTo(m[p], s)
      BY <1>1, <1>2
    <3>2. ~AppliedTo(m[p], s).read.enabled /\ ~AppliedTo(m[p], s).rest.enabled
      BY <1>4, <3>1, AppliedToSwitches
    <3> QED
      BY <3>1, <3>2, Zenon
  <2> QED
    BY <2>1 DEF NowhereOurs, OnOurs, k
<1>5. CASE s.enabled
  <2>1. \A p \in DOMAIN k : /\ k[p].read = [enabled |-> TRUE, server |-> s.server]
                            /\ k[p].rest = [enabled |-> TRUE, server |-> s.server]
    BY <1>1, <1>2, <1>5, AppliedToSwitches
  <2>2. \A p \in DOMAIN k : k[p].read.enabled /\ k[p].read.server = s.server
    BY <2>1
  <2>3. PICK p \in DOMAIN k : Seen(k) \in {ReadPlace(k[p]), ServiceProxy(k[p])}
    BY <1>1, <1>3, <2>2, SeenPlace
  <2>4. Seen(k).enabled /\ Seen(k).server = s.server
    BY <1>3, <2>2, <2>3, PlaceFields
  <2>5. s.server \notin OurServers => NowhereOurs(k)
    BY <2>1 DEF NowhereOurs, OnOurs
  <2>6. Route(Seen(k)) = s.server
    BY <2>4 DEF Route
  <2> QED
    BY <2>5, <2>6 DEF k
<1> QED
  BY <1>4, <1>5

\* A place on one of the app's ports stays on one, however much of a capture is done.
LEMMA PointingKeeps ==
    ASSUME platform \in Platforms, NEW x \in Settings, OnOurs(x.read), NEW e \in OurServers
    PROVE  /\ OnOurs(AppliedTo(x, Pointing(e)).read)
           /\ \A done : OnOurs(Partly(x, Pointing(e), done).read)
<1>1. Pointing(e) \in States /\ Pointing(e).enabled /\ Pointing(e).server = e
  BY PointingType DEF Pointing
<1> DEFINE new == AppliedTo(x, Pointing(e))
<1>2. new.read = [enabled |-> TRUE, server |-> e]
  BY <1>1, AppliedToSwitches
<1> HIDE DEF new
<1>3. OnOurs(new.read)
  BY <1>2 DEF OnOurs
<1>4. ASSUME NEW done PROVE OnOurs(Partly(x, Pointing(e), done).read)
  <2>1. Partly(x, Pointing(e), done).read \in {x.read, new.read, Switched(x.read, new.read, done, "read")}
    BY DEF Partly, new
  <2>2. OnOurs(Switched(x.read, new.read, done, "read"))
    BY <1>2, <1>3 DEF Switched, OnOurs
  <2> QED
    BY <1>3, <2>1, <2>2
<1> QED
  BY <1>3, <1>4 DEF new

-----------------------------------------------------------------------------
(* The parts of a step.                                                      *)

\* What does not change with what is left alone.
LEMMA Frame ==
    /\ platform' = platform => Machines' = Machines /\ UserMachines' = UserMachines
    /\ UNCHANGED <<platform, machine>> => Now' = Now /\ Clean' = Clean
    /\ UNCHANGED <<platform, theirs>> => Users' = Users
    /\ slips' = slips => Noticed' = Noticed
BY DEF Machines, UserMachines, Layouts, Now, Users, Clean, Seen, Noticed

LEMMA Counted ==
    ASSUME failures \in 0 .. MaxFailures
    PROVE  /\ UNCHANGED failures => failures' \in 0 .. MaxFailures
           /\ \A call : Fails(call) => failures' \in 0 .. MaxFailures
           /\ \A got : Current(got) \/ ReadBack(got) => failures' \in 0 .. MaxFailures
<1>1. MaxFailures \in Nat
  BY SystemProxyAssumption
<1>2. \A call : Fails(call) => failures' \in 0 .. MaxFailures
  BY <1>1 DEF Fails, MayFail
<1> QED
  BY <1>2 DEF Current, ReadBack

\* A change of the machine: whole, in part, or none of it.
LEMMA WroteStep ==
    ASSUME platform \in Platforms, platform' = platform, machine \in Machines,
           slips \subseteq {"blind", "torn", "reset"}, NEW s \in States,
           \/ Apply(s) \/ ApplyError(s)
           \/ \E k \in CutShort(machine, s) : Wrote(k, s)
    PROVE  /\ machine' \in Machines /\ slips' \subseteq {"blind", "torn", "reset"}
           /\ Noticed' = Noticed /\ (Whole => Whole')
           /\ \A e \in OurServers : s = Pointing(e) /\ PointedAtUs => PointedAtUs'
<1>1. PICK k : /\ k \in {Applied(machine, s), machine} \/ \E done : k = Done(machine, s, done)
               /\ machine' = k
               /\ slips' = IF k = Applied(machine, s) THEN slips \ {"torn"}
                           ELSE IF k = machine THEN slips ELSE slips \cup {"torn"}
  <2>1. CASE \E k \in {Applied(machine, s)} : Wrote(k, s)
    BY <2>1 DEF Wrote
  <2>2. CASE \E k \in CutShort(machine, s) \cup Refused(machine, s) \cup TakenForDone(machine, s) :
                Wrote(k, s)
    BY <2>2, LeftBehind DEF Wrote
  <2> QED
    BY <2>1, <2>2 DEF Apply, ApplyError
<1>2. k \in Machines
  BY <1>1, ChangedType
<1>3. slips' \subseteq {"blind", "torn", "reset"} /\ Noticed' = Noticed
  BY <1>1 DEF Noticed
<1>4. Now' = Route(Seen(k)) /\ Clean' = NowhereOurs(k)
  BY <1>1 DEF Now, Clean, Seen
<1>5. ASSUME Whole PROVE Whole'
  <2>1. CASE k = Applied(machine, s)
    BY <1>4, <2>1, AppliedWhole DEF Whole
  <2>2. CASE k # Applied(machine, s) /\ k = machine
    BY <1>1, <1>5, <2>2, Frame DEF Whole
  <2>3. CASE k # Applied(machine, s) /\ k # machine
    BY <1>1, <2>3 DEF Whole
  <2> QED
    BY <2>1, <2>2, <2>3
<1>6. ASSUME NEW e \in OurServers, s = Pointing(e), PointedAtUs PROVE PointedAtUs'
  <2>1. PICK p \in DOMAIN machine : OnOurs(machine[p].read)
    BY <1>6 DEF PointedAtUs
  <2>2. machine[p] \in Settings
    BY MachinePlaces
  <2>3. p \in DOMAIN k /\ OnOurs(k[p].read)
    BY <1>1, <1>6, <2>1, <2>2, PointingKeeps DEF Applied, Done
  <2> QED
    BY <1>1, <2>3 DEF PointedAtUs
<1> QED
  BY <1>1, <1>2, <1>3, <1>5, <1>6

\* A user's own machine is nowhere the app's, and is read as one of the user's routes.
LEMMA UsersMachine ==
    ASSUME platform \in Platforms, NEW m \in UserMachines
    PROVE  /\ m \in Machines /\ NowhereOurs(m)
           /\ Route(Seen(m)) \in UserServers \cup {"direct"}
<1>1. PICK layout \in Layouts : m \in [layout -> UserSettings]
  BY DEF UserMachines
<1>2. m \in Machines /\ \A p \in DOMAIN m : m[p] \in UserSettings
  BY <1>1 DEF Machines, UserSettings
<1>3. \A x \in UserSettings : /\ x.rest = x.read /\ x \in Settings
                              /\ x.read.enabled => x.read.server \in UserServers
  BY DEF UserSettings, Chosen
<1>4. NowhereOurs(m)
  BY <1>2, <1>3, SystemProxyAssumption DEF NowhereOurs, OnOurs
<1>5. Seen(m).enabled => Seen(m).server \in UserServers
  <2>1. CASE Seen(m) = NoState
    BY <2>1 DEF NoState
  <2>2. ASSUME NEW p \in DOMAIN m, Seen(m) \in {ReadPlace(m[p]), ServiceProxy(m[p])}
        PROVE  Seen(m).enabled => Seen(m).server \in UserServers
    <3>1. m[p] \in Settings /\ (m[p].read.enabled => m[p].read.server \in UserServers)
      BY <1>2, <1>3
    <3> QED
      BY <2>2, <3>1, PlaceFields
  <2> QED
    BY <1>2, <2>1, <2>2, SeenPlace
<1> QED
  BY <1>2, <1>4, <1>5 DEF Route

-----------------------------------------------------------------------------
(* The invariant.                                                            *)

\* Before anything has run, nothing is lent and nothing is recorded.
LEMMA InitIInv == Init => IInv
<1> SUFFICES ASSUME Init PROVE IInv
  OBVIOUS
<1>1. MaxCrashes \in Nat /\ MaxFailures \in Nat
  BY SystemProxyAssumption
<1>2. machine \in Machines /\ Clean /\ Now = Users
  BY UsersMachine DEF Init, Clean, Now, Users
<1>3. TypeOK
  <2>1. next \in [Callers -> States] /\ previous \in [Callers -> States]
    BY NoStateType DEF Init
  <2>2. crashes \in 0 .. MaxCrashes /\ failures \in 0 .. MaxFailures
    BY <1>1 DEF Init
  <2> QED
    BY <1>2, <2>1, <2>2 DEF Init, TypeOK
<1> QED
  BY <1>2, <1>3, BackupAssumption DEF Init, IInv, Whole, Kept, CallerInv

\* Every step keeps the types, however many goroutines capture and restore at once.
LEMMA NextTypes == TypeOK /\ [Next]_vars => TypeOK'
<1> SUFFICES ASSUME TypeOK, [Next]_vars PROVE TypeOK'
  OBVIOUS
<1> USE DEF TypeOK, At, Goto, Return, locals, app
<1>1. ASSUME NEW c \in Callers, CaptureSystemProxy(c) PROVE TypeOK'
  <2>1. (next \in [Callers -> States])'
    BY <1>1, PointingType DEF CaptureSystemProxy
  <2> QED
    BY <1>1, <2>1, Frame DEF CaptureSystemProxy
<1>2. ASSUME NEW c \in Callers, CaptureReadBackup(c) PROVE TypeOK'
  BY <1>2, Frame, Counted DEF CaptureReadBackup, Held, Unread
<1>3. ASSUME NEW c \in Callers, CaptureReadCurrent(c) PROVE TypeOK'
  <2>1. (failures \in 0 .. MaxFailures)'
    BY <1>3, Counted DEF CaptureReadCurrent
  <2>2. (previous \in [Callers -> States])' /\ (next \in [Callers -> States])'
    BY <1>3, NoStateType DEF CaptureReadCurrent
  <2>3. (slips \subseteq {"blind", "torn", "reset"})'
    BY <1>3 DEF CaptureReadCurrent, Unseen
  <2> QED
    BY <1>3, <2>1, <2>2, <2>3, Frame DEF CaptureReadCurrent
<1>4. ASSUME NEW c \in Callers, CaptureOpenBackup(c) PROVE TypeOK'
  BY <1>4, Frame, Counted, NoStateType DEF CaptureOpenBackup
<1>5. ASSUME NEW c \in Callers, CaptureWriteBackup(c) PROVE TypeOK'
  BY <1>5, Frame, Counted, NoStateType DEF CaptureWriteBackup
<1>6. ASSUME NEW c \in Callers, CaptureApply(c) PROVE TypeOK'
  <2>1. (machine \in Machines)' /\ (slips \subseteq {"blind", "torn", "reset"})'
    BY <1>6, WroteStep, Frame DEF CaptureApply
  <2>2. (failures \in 0 .. MaxFailures)'
    BY <1>6, Counted DEF CaptureApply, Apply, ApplyError
  <2> QED
    BY <1>6, <2>1, <2>2, Frame, NoStateType DEF CaptureApply
<1>7. ASSUME NEW c \in Callers, CaptureVerify(c) PROVE TypeOK'
  BY <1>7, Frame, Counted, NoStateType DEF CaptureVerify
<1>8. ASSUME NEW c \in Callers, RestoreSystemProxy(c) PROVE TypeOK'
  BY <1>8, Frame DEF RestoreSystemProxy
<1>9. ASSUME NEW c \in Callers, RestoreReadBackup(c) PROVE TypeOK'
  BY <1>9, Frame, Counted, NoStateType DEF RestoreReadBackup
<1>10. ASSUME NEW c \in Callers, RestoreCheckCurrent(c) PROVE TypeOK'
  BY <1>10, Frame, Counted DEF RestoreCheckCurrent, Unseen
<1>11. ASSUME NEW c \in Callers, RestoreApply(c) PROVE TypeOK'
  <2>1. (machine \in Machines)' /\ (slips \subseteq {"blind", "torn", "reset"})'
    BY <1>11, WroteStep, Frame DEF RestoreApply
  <2>2. (failures \in 0 .. MaxFailures)'
    BY <1>11, Counted DEF RestoreApply, Apply, ApplyError
  <2> QED
    BY <1>11, <2>1, <2>2, Frame, NoStateType DEF RestoreApply, StrandedSystemProxy
<1>12. ASSUME NEW c \in Callers, RestoreVerify(c) PROVE TypeOK'
  BY <1>12, Frame, Counted, NoStateType DEF RestoreVerify, StrandedSystemProxy, Unseen
<1>13. ASSUME NEW c \in Callers, RestoreRemoveBackup(c) PROVE TypeOK'
  BY <1>13, Frame, Counted, NoStateType DEF RestoreRemoveBackup
<1>14. ASSUME NEW c \in Callers, Startup(c) PROVE TypeOK'
  BY <1>14, Frame DEF Startup
<1>15. ASSUME Crash PROVE TypeOK'
  <2>1. (machine \in Machines)' /\ (slips \subseteq {"blind", "torn", "reset"})'
    <3>1. CASE UNCHANGED <<machine, slips>>
      BY <1>15, <3>1, Frame DEF Crash
    <3>2. ASSUME NEW c \in Callers, NEW s \in Applying(c), \E k \in CutShort(machine, s) : Wrote(k, s)
          PROVE  (machine \in Machines)' /\ (slips \subseteq {"blind", "torn", "reset"})'
      <4>1. s \in States
        BY <3>2 DEF Applying
      <4> QED
        BY <1>15, <3>2, <4>1, WroteStep, Frame DEF Crash
    <3> QED
      BY <1>15, <3>1, <3>2 DEF Crash
  <2>2. (next \in [Callers -> States])' /\ (previous \in [Callers -> States])'
    BY <1>15, NoStateType DEF Crash
  <2>3. (crashes \in 0 .. MaxCrashes)'
    BY <1>15, SystemProxyAssumption DEF Crash
  <2> QED
    BY <1>15, <2>1, <2>2, <2>3, Frame DEF Crash
<1>16. ASSUME StartupDone PROVE TypeOK'
  BY <1>16, Frame DEF StartupDone
<1>17. ASSUME UserChangesSettings PROVE TypeOK'
  <2>1. theirs' \in UserMachines
    <3>1. DOMAIN machine \in Layouts
      BY MachinePlaces
    <3> QED
      BY <1>17, <3>1 DEF UserChangesSettings, UserMachines
  <2> QED
    BY <1>17, <2>1, Frame, UsersMachine DEF UserChangesSettings
<1>18. ASSUME UserTurnsProxyOff PROVE TypeOK'
  <2>1. machine \in [DOMAIN machine -> Settings] /\ DOMAIN machine \in Layouts
    BY MachinePlaces
  <2>2. machine' \in [DOMAIN machine -> Settings]
    <3>1. \A x \in Settings :
              [x EXCEPT !.read.enabled = FALSE, !.rest.enabled = FALSE] \in Settings
      BY DEF Settings, Switches
    <3> QED
      BY <1>18, <2>1, <3>1 DEF UserTurnsProxyOff
  <2>3. machine' \in Machines
    BY <2>1, <2>2 DEF Machines
  <2> QED
    BY <1>18, <2>3, Frame DEF UserTurnsProxyOff
<1>19. ASSUME ResetAppData PROVE TypeOK'
  BY <1>19, Frame DEF ResetAppData
<1>20. CASE UNCHANGED vars
  BY <1>20, Frame DEF vars
<1> QED
  BY <1>1, <1>2, <1>3, <1>4, <1>5, <1>6, <1>7, <1>8, <1>9, <1>10, <1>11, <1>12,
     <1>13, <1>14, <1>15, <1>16, <1>17, <1>18, <1>19, <1>20 DEF Next, Capture, Restore

\* The types, in every reachable state, whoever captures and restores at once.
THEOREM TypeCorrect == Spec => []TypeOK
<1>1. Init => TypeOK
  BY InitIInv DEF IInv
<1> QED
  BY <1>1, NextTypes, PTL DEF Spec

\* A step that leaves the machine alone keeps what is known of it.
LEMMA StaysWhole ==
    ASSUME UNCHANGED <<platform, machine>>, slips \subseteq slips', Whole
    PROVE  Whole'
BY Frame DEF Whole

\* A slip that was noted before is noted after, and what is found now is noted.
LEMMA Noting ==
    ASSUME NEW found, slips' = slips \cup found
    PROVE  Noticed' => Noticed /\ found \cap {"blind", "reset"} = {}
BY DEF Noticed

Steady == Whole /\ (stranded => systemProxy) /\ (Noticed => Kept)

\* Every step of a call, of the process or of the user keeps the invariant.
LEMMA NextIInv == OneCaller /\ IInv /\ [Next]_vars => IInv'
<1> SUFFICES ASSUME OneCaller, TypeOK, Steady, [Next]_vars PROVE Steady'
  BY NextTypes DEF IInv, Steady
<1> USE DEF OneCaller, At, Goto, Return, locals, app
<1>1. ASSUME NEW c \in Callers, CaptureSystemProxy(c) PROVE Steady'
  BY <1>1, Frame, StaysWhole DEF Steady, TypeOK, Kept, CallerInv, CaptureSystemProxy
<1>2. ASSUME NEW c \in Callers, CaptureReadBackup(c) PROVE Steady'
  <2>1. CASE /\ IF file \in States
                THEN previous' = [previous EXCEPT ![c] = file] /\ pc' = [pc EXCEPT ![c] = "capApply"]
                ELSE UNCHANGED previous /\ pc' = [pc EXCEPT ![c] = "capCurrent"]
             /\ file' = IF file = Corrupt THEN NoFile ELSE file
             /\ UNCHANGED slips
    BY <1>2, <2>1, BackupAssumption, Frame, StaysWhole
    DEF Steady, TypeOK, Kept, CallerInv, CaptureReadBackup
  <2>2. CASE slips' = slips \cup Unread /\ UNCHANGED file /\ pc' = [pc EXCEPT ![c] = "capCurrent"]
    <3>1. Noticed' => Noticed /\ file \notin States
      BY <2>2, Noting DEF Unread
    <3> QED
      BY <1>2, <2>2, <3>1, Frame, StaysWhole DEF Steady, TypeOK, Kept, CallerInv, CaptureReadBackup
  <2> QED
    BY <1>2, <2>1, <2>2 DEF CaptureReadBackup, Held
<1>3. ASSUME NEW c \in Callers, CaptureReadCurrent(c) PROVE Steady'
  <2>1. CASE UNCHANGED slips /\ pc' = [pc EXCEPT ![c] = "idle"]
    BY <1>3, <2>1, Frame, StaysWhole DEF Steady, TypeOK, Kept, CallerInv, CaptureReadCurrent
  <2>2. ASSUME NEW got \in States, slips' = slips \cup Unseen(got),
               previous' = [previous EXCEPT ![c] = got], pc' = [pc EXCEPT ![c] = "capWrite"]
        PROVE  Steady'
    <3>1. Noticed' => Noticed /\ Route(got) = Now
      BY <2>2, Noting DEF Unseen, Now
    <3> QED
      BY <1>3, <2>2, <3>1, Frame, StaysWhole DEF Steady, TypeOK, Kept, CallerInv, CaptureReadCurrent
  <2> QED
    BY <1>3, <2>1, <2>2 DEF CaptureReadCurrent
<1>4. ASSUME NEW c \in Callers, CaptureOpenBackup(c) PROVE Steady'
  BY <1>4, BackupAssumption, Frame, StaysWhole DEF Steady, TypeOK, Kept, CallerInv, CaptureOpenBackup
<1>5. ASSUME NEW c \in Callers, CaptureWriteBackup(c) PROVE Steady'
  BY <1>5, Frame, StaysWhole DEF Steady, TypeOK, Kept, CallerInv, CaptureWriteBackup
<1>6. ASSUME NEW c \in Callers, CaptureApply(c) PROVE Steady'
  <2>1. Noticed' = Noticed /\ Whole'
    BY <1>6, WroteStep DEF Steady, TypeOK, CaptureApply
  <2> QED
    BY <1>6, <2>1, Frame DEF Steady, TypeOK, Kept, CallerInv, CaptureApply
<1>7. ASSUME NEW c \in Callers, CaptureVerify(c) PROVE Steady'
  BY <1>7, Frame, StaysWhole DEF Steady, TypeOK, Kept, CallerInv, CaptureVerify
<1>8. ASSUME NEW c \in Callers, RestoreSystemProxy(c) PROVE Steady'
  BY <1>8, Frame, StaysWhole DEF Steady, TypeOK, Kept, CallerInv, RestoreSystemProxy
<1>9. ASSUME NEW c \in Callers, RestoreReadBackup(c) PROVE Steady'
  BY <1>9, BackupAssumption, Frame, StaysWhole
  DEF Steady, TypeOK, Kept, CallerInv, RestoreReadBackup
<1>10. ASSUME NEW c \in Callers, RestoreCheckCurrent(c) PROVE Steady'
  <2>1. CASE UNCHANGED slips /\ pc' = [pc EXCEPT ![c] = "resApply"]
    BY <1>10, <2>1, Frame, StaysWhole DEF Steady, TypeOK, Kept, CallerInv, RestoreCheckCurrent
  <2>2. ASSUME NEW got \in States, Satisfies(got, previous[c]), slips' = slips \cup Unseen(got),
               pc' = [pc EXCEPT ![c] = "resRemove"]
        PROVE  Steady'
    <3>1. Noticed' => Noticed /\ Route(got) = Now
      BY <2>2, Noting DEF Unseen, Now
    <3>2. Route(got) = Route(previous[c])
      BY <2>2, SatisfiesRoute DEF TypeOK
    <3> QED
      BY <1>10, <2>2, <3>1, <3>2, Frame, StaysWhole
      DEF Steady, TypeOK, Kept, CallerInv, RestoreCheckCurrent
  <2> QED
    BY <1>10, <2>1, <2>2 DEF RestoreCheckCurrent
<1>11. ASSUME NEW c \in Callers, RestoreApply(c) PROVE Steady'
  <2>1. Noticed' = Noticed /\ Whole'
    BY <1>11, WroteStep DEF Steady, TypeOK, RestoreApply
  <2> QED
    BY <1>11, <2>1, Frame DEF Steady, TypeOK, Kept, CallerInv, RestoreApply, StrandedSystemProxy
<1>12. ASSUME NEW c \in Callers, RestoreVerify(c) PROVE Steady'
  <2>1. CASE UNCHANGED slips /\ pc' = [pc EXCEPT ![c] = "idle"] /\ StrandedSystemProxy
    BY <1>12, <2>1, Frame, StaysWhole
    DEF Steady, TypeOK, Kept, CallerInv, RestoreVerify, StrandedSystemProxy
  <2>2. ASSUME NEW got \in States, VerifyOK(machine, previous[c], got), slips' = slips \cup Unseen(got),
               pc' = [pc EXCEPT ![c] = "resRemove"], UNCHANGED <<systemProxy, stranded>>
        PROVE  Steady'
    <3>1. Noticed' => Noticed /\ Unseen(got) = {}
      BY <2>2, Noting DEF Unseen
    <3>2. Noticed' => Now = Route(previous[c])
      BY <2>2, <3>1, VerifyRoute DEF TypeOK
    <3> QED
      BY <1>12, <2>2, <3>1, <3>2, Frame, StaysWhole
      DEF Steady, TypeOK, Kept, CallerInv, RestoreVerify
  <2> QED
    BY <1>12, <2>1, <2>2 DEF RestoreVerify
<1>13. ASSUME NEW c \in Callers, RestoreRemoveBackup(c) PROVE Steady'
  BY <1>13, BackupAssumption, Frame, StaysWhole
  DEF Steady, TypeOK, Kept, CallerInv, RestoreRemoveBackup
<1>14. ASSUME NEW c \in Callers, Startup(c) PROVE Steady'
  BY <1>14, Frame, StaysWhole DEF Steady, TypeOK, Kept, CallerInv, Startup
<1>15. ASSUME Crash PROVE Steady'
  <2>1. CASE UNCHANGED <<machine, slips>>
    BY <1>15, <2>1, Frame, StaysWhole DEF Steady, TypeOK, Kept, CallerInv, Crash
  <2>2. ASSUME NEW c \in Callers, NEW s \in Applying(c), \E k \in CutShort(machine, s) : Wrote(k, s)
        PROVE  Steady'
    <3>1. s \in States /\ pc[c] \in {"capApply", "resApply"}
      BY <2>2 DEF Applying, TypeOK
    <3>2. Noticed' = Noticed /\ Whole'
      BY <1>15, <2>2, <3>1, WroteStep DEF Steady, TypeOK, Crash
    <3>3. Noticed => file \in States
      BY <3>1 DEF Steady, Kept, CallerInv
    <3> QED
      BY <1>15, <3>2, <3>3, Frame DEF Steady, TypeOK, Kept, CallerInv, Crash
  <2> QED
    BY <1>15, <2>1, <2>2 DEF Crash
<1>16. ASSUME StartupDone PROVE Steady'
  BY <1>16, Frame, StaysWhole DEF Steady, TypeOK, Kept, CallerInv, StartupDone
<1>17. ASSUME UserChangesSettings PROVE Steady'
  <2>1. theirs' \in UserMachines
    BY <1>17, MachinePlaces DEF UserChangesSettings, UserMachines, TypeOK
  <2>2. Now' = Users' /\ Clean'
    BY <1>17, <2>1, UsersMachine DEF UserChangesSettings, Now, Users, Clean, Seen, TypeOK
  <2>3. UNCHANGED <<file, systemProxy, stranded, pc>> /\ file \notin States /\ ~systemProxy
    BY <1>17 DEF UserChangesSettings
  <2>4. \A c \in Callers : pc'[c] = "idle"
    BY <1>17, <2>3 DEF UserChangesSettings, Quiet
  <2>5. \A c \in Callers : CallerInv(c)'
    BY <2>4 DEF CallerInv
  <2> QED
    BY <2>2, <2>3, <2>5 DEF Steady, Whole, Kept, TypeOK
<1>18. ASSUME UserTurnsProxyOff PROVE Steady'
  <2>1. Clean'
    <3>1. \A x \in Settings : LET off == [x EXCEPT !.read.enabled = FALSE, !.rest.enabled = FALSE]
                              IN  ~OnOurs(off.read) /\ ~OnOurs(off.rest)
      BY DEF OnOurs, Settings, Switches
    <3>2. \A p \in DOMAIN machine : machine[p] \in Settings
      BY MachinePlaces DEF TypeOK
    <3> QED
      BY <1>18, <3>1, <3>2 DEF UserTurnsProxyOff, Clean, NowhereOurs
  <2>2. Noticed' = Noticed
    BY <1>18 DEF UserTurnsProxyOff, Noticed
  <2> QED
    BY <1>18, <2>1, <2>2, Frame DEF Steady, Whole, TypeOK, Kept, CallerInv, Quiet, UserTurnsProxyOff
<1>19. ASSUME ResetAppData PROVE Steady'
  <2>1. Noticed' => Noticed /\ (file \in States => Now = Route(file))
    BY <1>19 DEF ResetAppData, Noticed, Now
  <2> QED
    BY <1>19, <2>1, BackupAssumption, Frame, StaysWhole
    DEF Steady, TypeOK, Kept, CallerInv, Quiet, ResetAppData
<1>20. CASE UNCHANGED vars
  BY <1>20, Frame, StaysWhole DEF Steady, Kept, CallerInv, vars
<1> QED
  BY <1>1, <1>2, <1>3, <1>4, <1>5, <1>6, <1>7, <1>8, <1>9, <1>10, <1>11, <1>12,
     <1>13, <1>14, <1>15, <1>16, <1>17, <1>18, <1>19, <1>20 DEF Next, Capture, Restore

\* IInv holds always.
LEMMA Invariance == ASSUME OneCaller PROVE Spec => []IInv
BY InitIInv, NextIInv, PTL DEF Spec

\* Whenever there is no record on disk the machine is read as the user's again, and
\* unless its last change was left half made no service, desktop or route of it uses the
\* app's proxy: captureSystemProxy records before it changes, and restoreSystemProxy
\* verifies before it forgets.  Taken out are a decision on a read that failed silently,
\* and a reset of the app's data.
THEOREM NothingIsLost == ASSUME OneCaller PROVE Spec => []NothingLost
<1>1. ASSUME IInv PROVE NothingLost
  <2>1. Users \notin OurServers
    BY <1>1, UsersMachine, SystemProxyAssumption DEF IInv, TypeOK, Users
  <2>2. Noticed /\ file \notin States => Now = Users
    BY <1>1 DEF IInv, Kept
  <2> QED
    BY <1>1, <2>1, <2>2 DEF IInv, Whole, NothingLost, GivenBack, Now, Users, Clean
<1> QED
  BY <1>1, Invariance, PTL

\* The record is of the user's route and never of the app's own proxy, with the same
\* two taken out (system_proxy.go:50-58).
THEOREM RecordIsTrue == ASSUME OneCaller PROVE Spec => []RecordIsTheirs
<1>1. IInv => RecordIsTheirs
  BY DEF IInv, Kept, RecordIsTheirs, Users
<1> QED
  BY <1>1, Invariance, PTL

\* A machine that is reported as lent or stranded has its record, for the next start to
\* try again (system_proxy.go:144-146).
THEOREM StrandedIsRecorded == ASSUME OneCaller PROVE Spec => []StrandedKeepsRecord
<1>1. IInv => StrandedKeepsRecord
  BY DEF IInv, Kept, StrandedKeepsRecord
<1> QED
  BY <1>1, Invariance, PTL

-----------------------------------------------------------------------------
(* The badge.                                                                *)

Capturing == {"capRead", "capCurrent", "capWrite", "capWriting", "capApply", "capVerify"}

\* A capture is to one of the app's ports; and while the badge is shown some place uses
\* the app's proxy, but for a restore that is about to take the badge away.
BadgeInv ==
    /\ \A c \in Callers : pc[c] \in Capturing => \E e \in OurServers : next[c] = Pointing(e)
    /\ phase = "down" => Quiet /\ ~systemProxy
    /\ systemProxy /\ ~stranded =>
            PointedAtUs \/ \E c \in Callers : pc[c] \in {"resVerify", "resRemove"}

\* A capture that verifies has pointed some place at the app, whatever reads fail.
LEMMA VerifiedIsPointed ==
    ASSUME platform \in Platforms, machine \in Machines, NEW e \in OurServers,
           NEW got \in States, ReadBack(got), VerifyOK(machine, Pointing(e), got)
    PROVE  PointedAtUs
<1>1. Pointing(e) \in States /\ Pointing(e).enabled /\ Pointing(e).server = e
  BY PointingType DEF Pointing
<1>2. got \in Answers(machine) \cup {Seen(machine)}
  BY DEF ReadBack, Current
<1>3. CASE platform # "darwin"
  <2>1. got.enabled /\ got.server = e
    BY <1>1, <1>3, SystemProxyAssumption DEF VerifyOK, SameAs, Satisfies, States
  <2> QED
    BY <1>2, <2>1, AnswerOnOurs DEF PointedAtUs
<1>4. CASE platform = "darwin"
  <2>1. PICK p \in DOMAIN machine : machine[p] \in Settings
    BY MachinePlaces
  <2>2. Satisfies(ServiceProxy(machine[p]), Pointing(e))
    BY <1>4 DEF VerifyOK
  <2>3. ServiceProxy(machine[p]).enabled /\ ServiceProxy(machine[p]).server = e
    BY <1>1, <2>2 DEF Satisfies
  <2>4. OnOurs(machine[p].read)
    BY <2>1, <2>3, PlaceFields DEF OnOurs
  <2> QED
    BY <2>4 DEF PointedAtUs
<1> QED
  BY <1>3, <1>4

\* Every step keeps the badge true.
LEMMA NextBadge == OneCaller /\ TypeOK /\ BadgeInv /\ [Next]_vars => BadgeInv'
<1> SUFFICES ASSUME OneCaller, TypeOK, BadgeInv, [Next]_vars PROVE BadgeInv'
  OBVIOUS
<1> USE DEF OneCaller, At, Goto, Return, locals, app
<1>0. UNCHANGED machine => PointedAtUs' = PointedAtUs
  BY DEF PointedAtUs
<1>1. ASSUME NEW c \in Callers,
             \/ CaptureSystemProxy(c) \/ CaptureReadBackup(c) \/ CaptureReadCurrent(c)
             \/ CaptureOpenBackup(c) \/ CaptureWriteBackup(c)
      PROVE  BadgeInv'
  BY <1>0, <1>1 DEF BadgeInv, TypeOK, Quiet, Capturing,
     CaptureSystemProxy, CaptureReadBackup, CaptureReadCurrent, CaptureOpenBackup, CaptureWriteBackup
<1>2. ASSUME NEW c \in Callers, CaptureApply(c) PROVE BadgeInv'
  <2>1. PICK e \in OurServers : next[c] = Pointing(e)
    BY <1>2 DEF BadgeInv, Capturing, CaptureApply
  <2>2. PointedAtUs => PointedAtUs'
    BY <1>2, <2>1, WroteStep DEF TypeOK, CaptureApply
  <2> QED
    BY <1>2, <2>2 DEF BadgeInv, TypeOK, Quiet, Capturing, CaptureApply
<1>3. ASSUME NEW c \in Callers, CaptureVerify(c) PROVE BadgeInv'
  <2>1. PICK e \in OurServers : next[c] = Pointing(e)
    BY <1>3 DEF BadgeInv, Capturing, CaptureVerify
  <2>2. /\ pc' = [pc EXCEPT ![c] = "idle"] /\ pc[c] = "capVerify"
        /\ UNCHANGED <<machine, phase>> /\ phase # "down"
        /\ \A d \in Callers : d = c
    BY <1>3 DEF CaptureVerify, BadgeInv, Quiet
  <2>3. UNCHANGED <<systemProxy, stranded>> \/ PointedAtUs
    BY <1>3, <2>1, VerifiedIsPointed DEF TypeOK, CaptureVerify
  <2>4. pc'[c] = "idle"
    BY <2>2 DEF TypeOK
  <2> QED
    BY <1>0, <2>2, <2>3, <2>4 DEF BadgeInv, TypeOK, Quiet, Capturing
<1>4. ASSUME NEW c \in Callers, RestoreSystemProxy(c) \/ RestoreReadBackup(c) \/ RestoreCheckCurrent(c)
      PROVE  BadgeInv'
  BY <1>0, <1>4 DEF BadgeInv, TypeOK, Quiet, Capturing,
     RestoreSystemProxy, RestoreReadBackup, RestoreCheckCurrent
<1>5. ASSUME NEW c \in Callers, RestoreApply(c) \/ RestoreVerify(c) \/ RestoreRemoveBackup(c)
      PROVE  BadgeInv'
  <2>1. /\ UNCHANGED phase /\ phase # "down"
        /\ pc' \in {[pc EXCEPT ![c] = l] : l \in {"idle", "resVerify", "resRemove"}}
        /\ pc'[c] \in {"resVerify", "resRemove"} \/ stranded' \/ ~systemProxy'
    BY <1>5 DEF BadgeInv, TypeOK, Quiet, RestoreApply, RestoreVerify, RestoreRemoveBackup,
       StrandedSystemProxy
  <2> QED
    BY <2>1 DEF BadgeInv, TypeOK, Quiet, Capturing
<1>6. ASSUME NEW c \in Callers, Startup(c) PROVE BadgeInv'
  BY <1>0, <1>6 DEF BadgeInv, TypeOK, Quiet, Capturing, Startup
<1>7. CASE Crash
  BY <1>7 DEF BadgeInv, Capturing, Quiet, Crash
<1>8. CASE StartupDone \/ UNCHANGED vars
  BY <1>0, <1>8 DEF BadgeInv, Quiet, StartupDone, vars
<1>9. CASE UserChangesSettings
  BY <1>9 DEF BadgeInv, TypeOK, Quiet, Capturing, UserChangesSettings
<1>10. CASE UserTurnsProxyOff
  BY <1>10 DEF BadgeInv, Quiet, UserTurnsProxyOff
<1>11. CASE ResetAppData
  BY <1>11 DEF BadgeInv, Quiet, ResetAppData
<1> QED
  BY <1>1, <1>2, <1>3, <1>4, <1>5, <1>6, <1>7, <1>8, <1>9, <1>10, <1>11 DEF Next, Capture, Restore

\* The badge is true: outside a call, of a machine reported as using the app's proxy, and
\* not as stranded, some place does use it, even after reads that failed silently
\* (system_proxy.go:75-77).
THEOREM BadgeIsTrue == ASSUME OneCaller PROVE Spec => []BadgeTruth
<1>1. Init => BadgeInv
  BY DEF Init, BadgeInv, Quiet, Capturing
<1>2. BadgeInv => BadgeTruth
  BY DEF BadgeInv, BadgeTruth, Quiet
<1> QED
  BY <1>1, <1>2, NextBadge, TypeCorrect, PTL DEF Spec

-----------------------------------------------------------------------------
(* The refinement: see ProxyLoan.                                            *)

LEMMA RouteType ==
    \A s \in States : Route(s) \in Servers \cup {"direct"} /\ Route(s) # NoFile
BY BackupAssumption DEF States, Route

Typed == Now \in Servers \cup {"direct"} /\ Owes \in Servers \cup {"direct", NoFile}

LEMMA LoanTypes == IInv => Typed
<1> SUFFICES ASSUME IInv PROVE Typed
  OBVIOUS
<1>1. Now \in Servers \cup {"direct"}
  BY SeenType, RouteType DEF IInv, TypeOK, Now
<1>2. Owes \in Servers \cup {"direct", NoFile}
  BY RouteType DEF Owes
<1> QED
  BY <1>1, <1>2 DEF Typed

\* Calls of captureSystemProxy and restoreSystemProxy are steps of the loan; whatever
\* follows a slip is one of its slips.
LEMMA LoanStep == OneCaller /\ IInv /\ IInv' /\ [Next]_vars => [Loan!Next]_Loan!loan
<1> SUFFICES ASSUME OneCaller, IInv, IInv', [Next]_vars PROVE [Loan!Next]_Loan!loan
  OBVIOUS
<1> USE DEF OneCaller, At, Goto, Return, locals, app
<1>1. ~Noticed' => Loan!Slip
  <2>1. Typed'
    BY LoanTypes, PTL
  <2> QED
    BY <2>1 DEF Typed, Loan!Slip
<1> SUFFICES ASSUME Noticed' PROVE Loan!Next \/ UNCHANGED Loan!loan
  BY <1>1 DEF Loan!Next
<1>2. ASSUME UserChangesSettings PROVE Loan!UserChooses
  <2>1. theirs' \in UserMachines /\ platform \in Platforms
    BY <1>2, MachinePlaces DEF UserChangesSettings, UserMachines, IInv, TypeOK
  <2>2. Now' = Route(Seen(theirs'))
    BY <1>2 DEF UserChangesSettings, Now, Seen
  <2>3. Now' \in UserServers \cup {"direct"}
    BY <2>1, <2>2, UsersMachine
  <2> QED
    BY <1>2, <2>3 DEF UserChangesSettings, Owes, Loan!UserChooses
<1>3. ASSUME Noticed, UNCHANGED <<machine, platform, file>> PROVE UNCHANGED Loan!loan
  BY <1>3, Frame DEF Owes, Loan!loan
<1>4. ASSUME Noticed, file \in States, UNCHANGED file PROVE Loan!Redirect
  <2>1. Typed'
    BY LoanTypes, PTL
  <2> QED
    BY <1>4, <2>1, RouteType DEF Typed, Owes, Loan!Redirect
<1>5. ASSUME Noticed, file \notin States, file' \notin States, UNCHANGED <<machine, platform>>
      PROVE  UNCHANGED Loan!loan
  BY <1>5, Frame DEF Owes, Loan!loan
<1>6. ASSUME Noticed, file \in States, Now = Route(file), file' = NoFile, UNCHANGED <<machine, platform>>
      PROVE  Loan!Settle
  BY <1>6, BackupAssumption, Frame DEF Owes, Loan!Settle
<1>7. ASSUME NEW c \in Callers, CaptureWriteBackup(c), Noticed PROVE Loan!Borrow \/ UNCHANGED Loan!loan
  <2>1. CASE UNCHANGED file
    BY <1>3, <1>7, <2>1 DEF CaptureWriteBackup
  <2>2. CASE file' = previous[c]
    <3>1. file \notin States /\ previous[c] \in States /\ Route(previous[c]) = Now
      BY <1>7 DEF IInv, TypeOK, Kept, CallerInv, CaptureWriteBackup
    <3> QED
      BY <1>7, <2>2, <3>1, Frame DEF CaptureWriteBackup, Owes, Loan!Borrow
  <2> QED
    BY <1>7, <2>1, <2>2 DEF CaptureWriteBackup
<1>8. ASSUME NEW c \in Callers, CaptureApply(c) \/ RestoreApply(c), Noticed PROVE Loan!Redirect
  BY <1>4, <1>8 DEF IInv, Kept, CallerInv, CaptureApply, RestoreApply
<1>9. ASSUME NEW c \in Callers, RestoreRemoveBackup(c), Noticed
      PROVE  Loan!Settle \/ UNCHANGED Loan!loan
  BY <1>3, <1>6, <1>9 DEF IInv, Kept, CallerInv, RestoreRemoveBackup
<1>10. ASSUME NEW c \in Callers, Noticed,
              CaptureReadBackup(c) \/ CaptureOpenBackup(c) \/ RestoreReadBackup(c)
       PROVE  UNCHANGED Loan!loan
  <2>1. UNCHANGED <<machine, platform>> /\ (UNCHANGED file \/ (file \notin States /\ file' \notin States))
    BY <1>10, BackupAssumption
    DEF IInv, Kept, CallerInv, CaptureReadBackup, CaptureOpenBackup, RestoreReadBackup
  <2> QED
    BY <1>3, <1>5, <1>10, <2>1
<1>11. ASSUME NEW c \in Callers, Noticed,
              \/ CaptureSystemProxy(c) \/ CaptureReadCurrent(c) \/ CaptureVerify(c)
              \/ RestoreSystemProxy(c) \/ RestoreCheckCurrent(c) \/ RestoreVerify(c) \/ Startup(c)
       PROVE  UNCHANGED Loan!loan
  BY <1>3, <1>11 DEF CaptureSystemProxy, CaptureReadCurrent, CaptureVerify, RestoreSystemProxy,
     RestoreCheckCurrent, RestoreVerify, Startup
<1>12. ASSUME Crash, Noticed PROVE Loan!Redirect \/ UNCHANGED Loan!loan
  <2>1. CASE UNCHANGED machine
    BY <1>3, <1>12, <2>1 DEF Crash
  <2>2. ASSUME NEW c \in Callers, NEW s \in Applying(c) PROVE Loan!Redirect
    <3>1. file \in States
      BY <1>12, <2>2 DEF Applying, IInv, Kept, CallerInv
    <3> QED
      BY <1>4, <1>12, <3>1 DEF Crash
  <2> QED
    BY <1>12, <2>1, <2>2 DEF Crash
<1>13. ASSUME UserTurnsProxyOff, Noticed PROVE Loan!Redirect
  BY <1>4, <1>13 DEF IInv, Kept, UserTurnsProxyOff
<1>14. ASSUME ResetAppData, Noticed PROVE Loan!Settle \/ UNCHANGED Loan!loan
  <2>1. file \in States => Now = Route(file)
    BY <1>14 DEF ResetAppData, Noticed
  <2>2. file' = NoFile /\ NoFile \notin States /\ UNCHANGED <<machine, platform>>
    BY <1>14, BackupAssumption DEF ResetAppData
  <2> QED
    BY <1>5, <1>6, <1>14, <2>1, <2>2
<1>15. ASSUME StartupDone \/ UNCHANGED vars, Noticed PROVE UNCHANGED Loan!loan
  BY <1>3, <1>15 DEF StartupDone, vars
<1>16. Noticed \/ UserChangesSettings
  <2>1. \A c \in Callers :
            CaptureReadBackup(c) \/ CaptureReadCurrent(c) \/ RestoreCheckCurrent(c) \/ RestoreVerify(c)
                => Noticed
    BY DEF CaptureReadBackup, CaptureReadCurrent, RestoreCheckCurrent, RestoreVerify, Noticed
  <2>2. ASSUME Crash \/ \E c \in Callers : CaptureApply(c) \/ RestoreApply(c) PROVE Noticed
    <3>1. ASSUME NEW k, NEW s, Wrote(k, s) PROVE Noticed
      BY <3>1 DEF Wrote, Noticed
    <3>2. ASSUME NEW s, Apply(s) PROVE Noticed
      BY <3>1, <3>2 DEF Apply, Wrote, Noticed
    <3> QED
      BY <2>2, <3>1, <3>2, Frame DEF Crash, CaptureApply, RestoreApply, ApplyError
  <2>3. ASSUME UserTurnsProxyOff \/ ResetAppData PROVE Noticed
    BY <2>3 DEF UserTurnsProxyOff, ResetAppData, Noticed
  <2>4. UNCHANGED slips => Noticed
    BY Frame
  <2> QED
    BY <2>1, <2>2, <2>3, <2>4 DEF Next, Capture, Restore, CaptureSystemProxy, CaptureOpenBackup,
       CaptureWriteBackup, CaptureVerify, RestoreSystemProxy, RestoreReadBackup, RestoreRemoveBackup,
       Startup, StartupDone, vars
<1> QED
  BY <1>2, <1>7, <1>8, <1>9, <1>10, <1>11, <1>12, <1>13, <1>14, <1>15, <1>16
  DEF Next, Capture, Restore, Loan!Next

\* The capture and the restore, step by step, implement the loan: until a read fails
\* silently or a reset takes the record, the machine is borrowed only on record and the
\* record is given up only when the machine is back.
THEOREM LoanImplemented == ASSUME OneCaller PROVE Spec => LoanSpec
<1>1. Init => Loan!Init
  <2> SUFFICES ASSUME Init PROVE Loan!Init
    OBVIOUS
  <2>1. Now \in UserServers \cup {"direct"}
    BY UsersMachine DEF Init, Now
  <2>2. Owes = NoFile /\ Noticed
    BY BackupAssumption DEF Init, Owes, Noticed
  <2> QED
    BY <2>1, <2>2 DEF Loan!Init
<1> QED
  BY <1>1, LoanStep, Invariance, PTL DEF Spec, LoanSpec, Loan!Spec

\* What is owed was the user's when it was borrowed, and is paid back as it was.
LEMMA LoanKeepsFaith == Loan!Spec => []Loan!UsersOwn
<1>1. Loan!Init => Loan!UsersOwn /\ Loan!Owed
  BY DEF Loan!Init, Loan!UsersOwn, Loan!Owed
<1>2. Loan!UsersOwn /\ Loan!Owed /\ [Loan!Next]_Loan!loan => (Loan!UsersOwn /\ Loan!Owed)'
  BY DEF Loan!Next, Loan!Borrow, Loan!Redirect, Loan!Settle, Loan!UserChooses, Loan!Slip, Loan!loan,
     Loan!UsersOwn, Loan!Owed
<1> QED
  BY <1>1, <1>2, PTL DEF Loan!Spec

\* A machine that owes its user nothing is where its user sent it, until a read fails
\* silently or a reset takes the record: this is what the record of system_proxy.go is
\* for.
THEOREM LoanIsReturned == ASSUME OneCaller PROVE Spec => []Loan!UsersOwn
BY LoanImplemented, LoanKeepsFaith, PTL DEF LoanSpec
=============================================================================
