------------------------- MODULE StoredStateProofs -------------------------
(***************************************************************************)
(* Proofs about StoredState, for any lists, configs and files: where the       *)
(* filters of the sources are, and that a file a state names is there.        *)
(***************************************************************************)
EXTENDS StoredState, FiniteSetTheorems, SequenceTheorems, WellFoundedInduction, TLAPS

-----------------------------------------------------------------------------
(* What is left of a list.                                                    *)

\* Induction up to a number, over a set.
LEMMA UpTo ==
    ASSUME NEW n \in Nat, NEW H, 0 \in H, \A i \in 0 .. n - 1 : i \in H => i + 1 \in H
    PROVE  0 .. n \subseteq H
<1> DEFINE Out == (0 .. n) \ H
           below == {0 .. m : m \in Out}
<1> SUFFICES ASSUME Out # {} PROVE FALSE
  OBVIOUS
<1>1. IsWellFoundedOn(StrictSubsetOrdering(0 .. n), SUBSET (0 .. n))
  <2>1. IsFiniteSet(0 .. n)
    BY FS_Interval
  <2> QED
    BY <2>1, FS_FiniteSubsetsOfFinite, FS_StrictSubsetOrderingWellFounded, Zenon
<1>2. below \subseteq SUBSET (0 .. n) /\ below # {}
  <2>1. ASSUME NEW m \in Out PROVE 0 .. m \subseteq 0 .. n
    OBVIOUS
  <2> HIDE DEF Out
  <2> QED
    BY <2>1, Zenon
<1>3. PICK least \in below : \A other \in below : ~(<<other, least>> \in StrictSubsetOrdering(0 .. n))
  <2> HIDE DEF below
  <2> QED
    BY <1>1, <1>2, WFMin
<1>4. PICK m \in Out : least = 0 .. m
  OBVIOUS
<1>5. m - 1 \in 0 .. n - 1 /\ (m - 1) + 1 = m
  BY <1>4
<1>6. m - 1 \in Out
  BY <1>5
<1>7. 0 .. m - 1 \in below /\ 0 .. m - 1 \subseteq 0 .. m /\ m \in 0 .. m /\ m \notin 0 .. m - 1
  BY <1>5, <1>6
<1> QED
  BY <1>2, <1>3, <1>4, <1>7 DEF StrictSubsetOrdering

LEMMA AppendedSet ==
    ASSUME NEW S, NEW list \in Seq(S), NEW x \in S
    PROVE  ToSet(Append(list, x)) = ToSet(list) \cup {x}
<1>1. /\ DOMAIN Append(list, x) = 1 .. Len(list) + 1 /\ DOMAIN list = 1 .. Len(list)
      /\ Append(list, x)[Len(list) + 1] = x
      /\ \A i \in 1 .. Len(list) : Append(list, x)[i] = list[i]
  OBVIOUS
<1>2. Len(list) \in Nat /\ 1 .. Len(list) + 1 = (1 .. Len(list)) \cup {Len(list) + 1}
  OBVIOUS
<1>3. ToSet(Append(list, x)) \subseteq ToSet(list) \cup {x}
  BY <1>1, <1>2 DEF ToSet
<1>4. ToSet(list) \cup {x} \subseteq ToSet(Append(list, x))
  BY <1>1, <1>2, Zenon DEF ToSet
<1> QED
  BY <1>3, <1>4

\* The step by which Keeping goes through a list.
KeptAt(list, set, kept, n) ==
    IF n = 0 THEN <<>>
    ELSE IF list[n] \in set THEN Append(kept[n - 1], list[n]) ELSE kept[n - 1]

\* There is a function that goes through it so.
LEMMA KeepingSteps ==
    ASSUME NEW S, NEW list \in Seq(S), NEW set
    PROVE  \E kept : /\ kept = [n \in 0 .. Len(list) |-> KeptAt(list, set, kept, n)]
                     /\ Keeping(list, set) = kept[Len(list)]
<1> DEFINE Upto(kept, m) == kept = [n \in 0 .. m |-> KeptAt(list, set, kept, n)]
           H == {m \in 0 .. Len(list) : \E kept : Upto(kept, m)}
<1>1. 0 \in H
  <2>1. Upto([n \in 0 .. 0 |-> <<>>], 0)
    BY DEF KeptAt
  <2> QED
    BY <2>1
<1>2. ASSUME NEW m \in 0 .. Len(list) - 1, m \in H
      PROVE  m + 1 \in H
  <2>1. PICK kept : Upto(kept, m)
    BY <1>2
  <2> DEFINE more == [n \in 0 .. m + 1 |-> IF n = m + 1 THEN KeptAt(list, set, kept, n) ELSE kept[n]]
  <2>2. \A n \in 0 .. m : kept[n] = KeptAt(list, set, kept, n)
    BY <2>1
  <2>3. \A n \in 0 .. m + 1 : KeptAt(list, set, more, n) = KeptAt(list, set, kept, n)
    BY DEF KeptAt
  <2>4. \A n \in 0 .. m + 1 : more[n] = KeptAt(list, set, more, n)
    BY <2>2, <2>3
  <2>5. Upto(more, m + 1)
    BY <2>4
  <2>6. m + 1 \in 0 .. Len(list)
    OBVIOUS
  <2> HIDE DEF more
  <2> QED
    BY <2>5, <2>6
<1>3. Len(list) \in H
  <2>1. Len(list) \in Nat
    OBVIOUS
  <2> HIDE DEF H
  <2>2. 0 .. Len(list) \subseteq H
    BY <1>1, <1>2, <2>1, UpTo
  <2> QED
    BY <2>1, <2>2
<1>4. \E kept : Upto(kept, Len(list))
  BY <1>3
<1> DEFINE chosen == CHOOSE kept : Upto(kept, Len(list))
<1>5. Upto(chosen, Len(list))
  BY <1>4
<1>6. Keeping(list, set) = chosen[Len(list)]
  BY DEF Keeping, KeptAt
<1> QED
  BY <1>5, <1>6

\* The elements of a prefix.
Firsts(list, n) == {list[i] : i \in 1 .. n}

\* What is left is what there was of it in the set, nothing twice, and all if all was in it.
LEMMA KeepingIs ==
    ASSUME NEW S, NEW list \in Seq(S), NEW set
    PROVE  LET left == Keeping(list, set) IN
           /\ left \in Seq(S) /\ ToSet(left) = ToSet(list) \cap set
           /\ IsInjective(list) => IsInjective(left)
           /\ ToSet(list) \subseteq set => left = list
<1>1. PICK kept : /\ kept = [n \in 0 .. Len(list) |-> KeptAt(list, set, kept, n)]
                  /\ Keeping(list, set) = kept[Len(list)]
  BY KeepingSteps
<1>2. \A n \in 0 .. Len(list) : kept[n] = KeptAt(list, set, kept, n)
  BY <1>1
<1> DEFINE Right(n) ==
             /\ kept[n] \in Seq(S) /\ ToSet(kept[n]) = Firsts(list, n) \cap set
             /\ IsInjective(list) => IsInjective(kept[n])
             /\ Firsts(list, n) \subseteq set => kept[n] = SubSeq(list, 1, n)
           H == {n \in 0 .. Len(list) : Right(n)}
<1>3. 0 \in H
  <2>1. kept[0] = <<>>
    BY <1>2 DEF KeptAt
  <2>2. Firsts(list, 0) = {} /\ SubSeq(list, 1, 0) = <<>>
    BY DEF Firsts
  <2>3. ToSet(<<>>) = {} /\ IsInjective(<<>>)
    BY DEF ToSet, IsInjective
  <2>4. <<>> \in Seq(S) /\ 0 \in 0 .. Len(list)
    OBVIOUS
  <2>5. Right(0)
    BY <2>1, <2>2, <2>3, <2>4, Zenon
  <2> QED
    BY <2>4, <2>5
<1>4. ASSUME NEW n \in 0 .. Len(list) - 1, n \in H
      PROVE  n + 1 \in H
  <2> DEFINE x == list[n + 1]
             t == kept[n]
  <2>1. n \in 0 .. Len(list) /\ n + 1 \in 0 .. Len(list) /\ n + 1 \in 1 .. Len(list) /\ Right(n)
    BY <1>4
  <2>2. kept[n + 1] = IF x \in set THEN Append(t, x) ELSE t
    BY <1>2, <2>1 DEF KeptAt
  <2>3. x \in S /\ t \in Seq(S)
    BY <2>1
  <2>4. Firsts(list, n + 1) = Firsts(list, n) \cup {x}
    BY <2>1 DEF Firsts
  <2>5. IsInjective(list) => x \notin Firsts(list, n)
    BY <2>1 DEF Firsts, IsInjective
  <2> HIDE DEF x, t
  <2>6. CASE x \in set
    <3>1. kept[n + 1] = Append(t, x) /\ Append(t, x) \in Seq(S)
      BY <2>2, <2>3, <2>6
    <3>2. ToSet(Append(t, x)) = ToSet(t) \cup {x}
      BY <2>3, AppendedSet
    <3>3. IsInjective(t) /\ x \notin ToSet(t) => IsInjective(Append(t, x))
      BY <2>3 DEF ToSet, IsInjective
    <3>4. t = SubSeq(list, 1, n) => Append(t, x) = SubSeq(list, 1, n + 1)
      BY <2>1, <2>3 DEF x
    <3>5. ToSet(t) \subseteq Firsts(list, n)
      BY <2>1 DEF t
    <3> QED
      BY <2>1, <2>4, <2>5, <2>6, <3>1, <3>2, <3>3, <3>4, <3>5 DEF t
  <2>7. CASE x \notin set
    BY <2>1, <2>2, <2>4, <2>7 DEF t
  <2> QED
    BY <2>6, <2>7
<1>5. Right(Len(list))
  <2>1. Len(list) \in Nat
    OBVIOUS
  <2> HIDE DEF H
  <2>2. 0 .. Len(list) \subseteq H
    BY <1>3, <1>4, <2>1, UpTo
  <2>3. Len(list) \in H
    BY <2>1, <2>2
  <2> QED
    BY <2>3 DEF H
<1>6. Firsts(list, Len(list)) = ToSet(list) /\ SubSeq(list, 1, Len(list)) = list
  BY DEF Firsts, ToSet
<1> QED
  BY <1>1, <1>5, <1>6

-----------------------------------------------------------------------------
(* The filters of the sources.                                               *)

Fields == {"configs", "chosen", "rows", "selected", "choice", "parked", "resolver"}

\* What saving may rely on: every filter is that of its source and in one place.
Loose(s) ==
    /\ DOMAIN s = Fields
    /\ s.selected \in Sources /\ DOMAIN s.parked = Sources /\ s.rows \subseteq Sources
    /\ s.choice \in {Automatic, s.selected} /\ s.parked[s.selected] = Automatic
    /\ \A x \in Sources : s.parked[x] \in {Automatic, x}

\* What it leaves: no filter of a list that is gone, either.
Tidy(s) == Loose(s) /\ \A l \in Lists \ s.rows : s.parked[l] = Automatic

\* A state that differs only in its configs, what is chosen, its rows or its resolver.
LEMMA LooseAlike ==
    ASSUME NEW s, NEW t, Loose(s), DOMAIN t = Fields, t.selected = s.selected,
           t.choice = s.choice, t.parked = s.parked, t.rows \subseteq Sources
    PROVE  Loose(t)
BY DEF Loose

LEMMA TidyAlike ==
    ASSUME NEW s, NEW t, Tidy(s), DOMAIN t = Fields, t.selected = s.selected,
           t.choice = s.choice, t.parked = s.parked, s.rows \subseteq t.rows,
           t.rows \subseteq Sources
    PROVE  Tidy(t)
BY LooseAlike DEF Tidy

LEMMA DefaultIsTidy == Tidy(Default)
BY DEF Default, Tidy, Loose, Fields, Sources

LEMMA OldIsLoose == Loose(Old)
BY OldAssumption DEF States, Loose, Fields, Sources

LEMMA SwapIsLoose ==
    ASSUME NEW s, Loose(s), NEW to \in Sources
    PROVE  Loose(Swap(s, to)) /\ Swap(s, to).selected = to
<1>1. CASE s.selected = to
  BY <1>1 DEF Swap
<1>2. CASE s.selected # to
  <2> DEFINE parked == [s.parked EXCEPT ![s.selected] = s.choice, ![to] = Automatic]
             t == [s EXCEPT !.parked = parked, !.choice = s.parked[to], !.selected = to]
  <2>1. Swap(s, to) = t
    BY <1>2 DEF Swap
  <2>2. /\ DOMAIN t = Fields /\ t.parked = parked /\ t.choice = s.parked[to]
        /\ t.selected = to /\ t.rows = s.rows
    BY DEF Loose, Fields
  <2>3. /\ DOMAIN parked = Sources /\ parked[to] = Automatic
        /\ \A x \in Sources : parked[x] \in {Automatic, x}
    BY <1>2 DEF Loose
  <2> HIDE DEF parked, t
  <2>4. Loose(t)
    BY <2>2, <2>3 DEF Loose
  <2> QED
    BY <2>1, <2>2, <2>4
<1> QED
  BY <1>1, <1>2

\* NormalizeState: the selection is corrected, with its filter, and then what is
\* parked for lists that are gone is dropped.
LEMMA NormalizedIsTidy ==
    ASSUME NEW s, Loose(s)
    PROVE  /\ Tidy(Normalized(s)) /\ Normalized(s).resolver = s.resolver
           /\ Normalized(s).selected = s.selected =>
                 \A x \in Sources : Normalized(s).parked[x] \in {Automatic, s.parked[x]}
<1> DEFINE swapped == Swap(s, SelectedIn(s))
           parked == [x \in Sources |-> KeptParked(swapped, x)]
           t == [swapped EXCEPT !.chosen = ChosenIn(s), !.parked = parked]
<1>1. SelectedIn(s) \in Sources
  BY DEF SelectedIn, Sources, Loose
<1>2. Loose(swapped)
  BY <1>1, SwapIsLoose
<1>3. Normalized(s) = t
  BY DEF Normalized
<1>4. swapped.resolver = s.resolver /\ (swapped.selected = s.selected => swapped = s)
  BY DEF Swap, Loose, Fields
<1> HIDE DEF swapped
<1>5. /\ DOMAIN t = Fields /\ t.parked = parked /\ t.choice = swapped.choice
      /\ t.selected = swapped.selected /\ t.rows = swapped.rows
      /\ t.resolver = swapped.resolver
  BY <1>2 DEF Loose, Fields
<1>6. \A x \in Sources : parked[x] \in {Automatic, swapped.parked[x]}
  BY DEF KeptParked
<1>7. \A l \in Lists \ swapped.rows : parked[l] = Automatic
  BY StoredStateAssumption DEF KeptParked, Sources
<1> HIDE DEF parked, t
<1>8. Loose(t)
  <2>1. DOMAIN parked = Sources
    BY DEF parked
  <2> QED
    BY <1>2, <1>5, <1>6, <2>1 DEF Loose
<1> QED
  BY <1>3, <1>4, <1>5, <1>6, <1>7, <1>8 DEF Tidy

\* What moves a resolver list to a file of its own.
LEMMA FiledIsAlike ==
    ASSUME NEW s, NEW present, DOMAIN s = Fields
    PROVE  LET t == Filed(s, present) IN
           /\ DOMAIN t = Fields /\ t.selected = s.selected /\ t.choice = s.choice
           /\ t.parked = s.parked /\ t.rows = s.rows
           /\ Unfiled(s) => t.resolver = FreshPath(present)
           /\ ~Unfiled(s) => t.resolver = s.resolver
BY DEF Filed, Fields

LEMMA FiledIsTidy ==
    ASSUME NEW s, NEW present, Tidy(s)
    PROVE  Tidy(Filed(s, present))
BY FiledIsAlike, TidyAlike DEF Tidy, Loose

\* A start that moves the selection moves it to where no filter is, and with none.
LEMMA WithAllRowIsTidy ==
    ASSUME NEW s, Tidy(s),
           WithAllRow(s).selected = s.selected \/ (s.choice = Automatic /\ s.parked[Home] = Automatic)
    PROVE  Tidy(WithAllRow(s))
<1> DEFINE t == WithAllRow(s)
<1>1. /\ DOMAIN t = Fields /\ t.choice = s.choice /\ t.parked = s.parked
      /\ t.rows \in {s.rows \cup {All}, s.rows \ {All}} /\ t.selected \in {s.selected, Home}
  BY DEF WithAllRow, Tidy, Loose, Fields
<1> HIDE DEF t
<1>2. Loose(t)
  BY <1>1 DEF t, Tidy, Loose, Sources
<1>3. \A l \in Lists \ t.rows : l \notin s.rows
  BY <1>1, StoredStateAssumption
<1> QED
  BY <1>1, <1>2, <1>3 DEF t, Tidy

LEMMA OpenedIsTidy ==
    ASSUME NEW s, Tidy(s), ~Displaces(s)
    PROVE  Tidy(Opened(s))
<1> DEFINE t == WithoutCatalogue(s)
<1>1. /\ DOMAIN t = Fields /\ t.selected = s.selected /\ t.choice = s.choice
      /\ t.parked = s.parked /\ t.rows = s.rows
  BY DEF WithoutCatalogue, Tidy, Loose, Fields
<1>2. Opened(s) = WithAllRow(t)
  BY DEF Opened
<1> HIDE DEF t
<1>3. Tidy(t)
  BY <1>1, TidyAlike DEF Tidy, Loose
<1> QED
  BY <1>1, <1>2, <1>3, WithAllRowIsTidy DEF Displaces

LEMMA OpenedDefaultIsTidy == Tidy(Opened(Default))
<1>1. ~Displaces(Default)
  BY DEF Displaces, Default, Sources
<1> QED
  BY <1>1, OpenedIsTidy, DefaultIsTidy

-----------------------------------------------------------------------------
(* Where the filters are, through every operation.                            *)

\* The page holds what it read: a source, and a filter of it.
InPlace ==
    /\ Tidy(mem)
    /\ disk \notin {None, Broken} => Loose(disk)
    /\ backup # None => Loose(backup)
    /\ copy # None => Tidy(copy)
    /\ page.choice \in {Automatic, page.of}

FInv == strayed \/ InPlace

LEMMA SaveKeepsFilters ==
    ASSUME InPlace, NEW s, Loose(s), Save(s)
    PROVE  Tidy(mem') /\ (disk' \notin {None, Broken} => Loose(disk'))
<1> DEFINE next == Normalized(s)
<1>1. Tidy(next)
  BY NormalizedIsTidy
<1>2. Tidy(Filed(next, files))
  BY <1>1, FiledIsTidy
<1>3. \/ mem' = Filed(next, files) /\ disk' = mem'
      \/ mem' = next /\ disk' = disk
  BY DEF Save
<1> QED
  BY <1>1, <1>2, <1>3 DEF InPlace, Tidy

\* An operation that saves, and does nothing to the backup or the page.
LEMMA SavingKeepsFilters ==
    ASSUME InPlace, NEW s, Loose(s), Save(s), UNCHANGED <<backup, copy, page>>
    PROVE  InPlace'
BY SaveKeepsFilters DEF InPlace

LEMMA LoadedIsTidy ==
    ASSUME NEW file, file \notin {None, Broken} => Loose(file)
    PROVE  Tidy(Loaded(file))
BY DefaultIsTidy, NormalizedIsTidy DEF Loaded

\* What NewApp may find itself with, case by case.
LEMMA StartsAre ==
    ASSUME NEW file, NEW present, NEW start \in Starts(file, present)
    PROVE  LET s == Loaded(file)
               t == Filed(s, present)
               more == present \cup {FreshPath(present)}
           IN  IF Unfiled(s)
               THEN start \in {[mem |-> Opened(t), disk |-> t, files |-> more, standing |-> "saved",
                                strays |-> Displaces(t)],
                               [mem |-> Opened(t), disk |-> file, files |-> more, standing |-> "ahead",
                                strays |-> Displaces(t)],
                               [mem |-> Opened(Default), disk |-> file, files |-> present,
                                standing |-> "unread", strays |-> FALSE]}
               ELSE start = [mem |-> Opened(t), disk |-> file, files |-> present,
                             standing |-> "saved", strays |-> Displaces(t)]
<1> DEFINE s == Loaded(file)
           t == Filed(s, present)
<1> HIDE DEF s, t
<1> QED
  BY DEF Starts, s, t

LEMMA StraysIsBoolean ==
    ASSUME NEW file, NEW present, NEW start \in Starts(file, present)
    PROVE  start.strays \in BOOLEAN
<1> DEFINE t == Filed(Loaded(file), present)
<1>1. start.strays = Displaces(t) \/ start.strays = FALSE
  BY StartsAre
<1>2. Displaces(t) \in BOOLEAN
  BY Zenon DEF Displaces
<1> QED
  BY <1>1, <1>2, Zenon

LEMMA StartIsTidy ==
    ASSUME NEW file, NEW present, file \notin {None, Broken} => Loose(file),
           NEW start \in Starts(file, present), ~start.strays
    PROVE  Tidy(start.mem) /\ (start.disk \notin {None, Broken} => Loose(start.disk))
<1> DEFINE s == Loaded(file)
           t == Filed(s, present)
<1>1. Tidy(s) /\ Tidy(t)
  BY LoadedIsTidy, FiledIsTidy
<1>2. \/ start.mem = Opened(t) /\ start.strays = Displaces(t)
      \/ start.mem = Opened(Default)
  BY StartsAre
<1>3. start.disk \in {file, t}
  BY StartsAre
<1> HIDE DEF s, t
<1>4. Tidy(start.mem)
  <2>1. CASE start.mem = Opened(t) /\ start.strays = Displaces(t)
    <3>1. ~Displaces(t)
      BY <2>1, Zenon
    <3> QED
      BY <1>1, <2>1, <3>1, OpenedIsTidy
  <2>2. CASE start.mem = Opened(Default)
    BY <2>2, OpenedDefaultIsTidy
  <2> QED
    BY <1>2, <2>1, <2>2
<1> QED
  BY <1>1, <1>3, <1>4 DEF Tidy

LEMMA FInvInit ==
    ASSUME Init
    PROVE  FInv
<1> SUFFICES ASSUME ~strayed PROVE InPlace
  BY DEF FInv
<1>0. PICK file \in {None, Broken, Old} :
         \E start \in Starts(file, {}) : mem = start.mem /\ disk = start.disk /\ strayed = start.strays
  BY DEF Init
<1>1. PICK start \in Starts(file, {}) :
         mem = start.mem /\ disk = start.disk /\ strayed = start.strays
  BY <1>0
<1>2. Tidy(mem) /\ (disk \notin {None, Broken} => Loose(disk))
  BY <1>1, StartIsTidy, OldIsLoose
<1>3. backup = None /\ copy = None /\ page = PageOf(mem)
  BY DEF Init
<1> QED
  BY <1>2, <1>3 DEF InPlace, PageOf, Tidy, Loose

\* The operations on configs, rows and the choice of a config leave the filters alone.
LEMMA StrayedStays ==
    ASSUME [Next]_vars, strayed
    PROVE  strayed'
<1>1. CASE \/ SaveV2RayProfile \/ ImportV2RayProfiles \/ DeleteV2RayProfiles
           \/ DeleteDuplicateV2RayProfiles \/ SelectV2RayProfile \/ ReorderV2RayProfiles
           \/ RefreshV2RaySubscription \/ SaveV2RaySubscription \/ DeleteV2RaySubscription
           \/ SelectSubscription \/ ResetWhiteVPNSettings \/ ImportBackup
  BY <1>1, Zenon
  DEF SaveV2RayProfile, ImportV2RayProfiles, DeleteV2RayProfiles, DeleteDuplicateV2RayProfiles,
      SelectV2RayProfile, ReorderV2RayProfiles, RefreshV2RaySubscription, SaveV2RaySubscription,
      DeleteV2RaySubscription, SelectSubscription, ResetWhiteVPNSettings, ImportBackup, aside
<1>2. CASE \/ ImportLegacyProfiles \/ ResetAppData \/ RemoveConfigDirContents \/ ReadPage
           \/ ExportBackup \/ ResetCheck \/ SetRuntime \/ UNCHANGED vars
  BY <1>2
  DEF ImportLegacyProfiles, ResetAppData, RemoveConfigDirContents, ReadPage, ExportBackup,
      ResetCheck, SetRuntime, vars
<1>3. CASE Restart \/ SaveWhiteVPNSettings \/ WriteBackup
  BY <1>3, Zenon DEF Restart, SaveWhiteVPNSettings, WriteBackup
<1> QED
  BY <1>1, <1>2, <1>3 DEF Next, Removals

LEMMA LooseHolding ==
    ASSUME InPlace, NEW configs, NEW chosen
    PROVE  Loose(Holding(configs, chosen))
BY LooseAlike DEF InPlace, Tidy, Loose, Holding, Fields

LEMMA FInvNext ==
    ASSUME FInv, [Next]_vars
    PROVE  FInv'
<1> SUFFICES ASSUME ~strayed' PROVE InPlace'
  BY DEF FInv
<1>0. InPlace
  BY StrayedStays DEF FInv
<1> USE <1>0 DEF aside, still
<1>1. CASE DeleteV2RayProfiles
  BY <1>1, SavingKeepsFilters, LooseHolding DEF DeleteV2RayProfiles
<1>2. CASE DeleteDuplicateV2RayProfiles
  BY <1>2, SavingKeepsFilters, LooseHolding DEF DeleteDuplicateV2RayProfiles
<1>3. CASE DeleteV2RaySubscription
  <2>1. PICK l \in mem.rows \cap Lists :
           Save([mem EXCEPT !.rows = @ \ {l}, !.parked[l] = Automatic,
                            !.configs = Keeping(@, NotOf(l))])
    BY <1>3 DEF DeleteV2RaySubscription
  <2> DEFINE configs == Keeping(mem.configs, NotOf(l))
             parked == [mem.parked EXCEPT ![l] = Automatic]
             t == [mem EXCEPT !.rows = @ \ {l}, !.parked[l] = Automatic,
                              !.configs = configs]
  <2>2. Save(t)
    BY <2>1
  <2>3. /\ DOMAIN t = Fields /\ t.parked = parked /\ t.choice = mem.choice
        /\ t.selected = mem.selected /\ t.rows \subseteq Sources
    <3> HIDE DEF configs
    <3> QED
      BY DEF InPlace, Tidy, Loose, Fields
  <2>4. /\ DOMAIN parked = Sources /\ parked[mem.selected] = Automatic
        /\ \A x \in Sources : parked[x] \in {Automatic, x}
    BY DEF InPlace, Tidy, Loose
  <2> HIDE DEF t, parked
  <2>5. Loose(t)
    BY <2>3, <2>4 DEF InPlace, Tidy, Loose
  <2> QED
    BY <1>3, <2>2, <2>5, SavingKeepsFilters DEF DeleteV2RaySubscription
<1>4. CASE RefreshV2RaySubscription
  BY <1>4, SavingKeepsFilters, LooseHolding DEF RefreshV2RaySubscription
<1>5. CASE ImportBackup
  <2>1. CASE UNCHANGED <<mem, disk, standing>>
    BY <1>5, <2>1 DEF ImportBackup, InPlace
  <2>2. CASE disk' = Normalized(Restored(backup, files)) /\ mem' = WithoutCatalogue(disk')
    <3>1. Loose(backup)
      BY <1>5 DEF ImportBackup, InPlace
    <3>2. Loose(Restored(backup, files))
      BY <3>1, FiledIsAlike, LooseAlike DEF Restored, Loose
    <3>3. Tidy(disk')
      BY <2>2, <3>2, NormalizedIsTidy
    <3>4. Tidy(mem')
      <4>1. /\ DOMAIN mem' = Fields /\ mem'.selected = disk'.selected
            /\ mem'.choice = disk'.choice /\ mem'.parked = disk'.parked
            /\ mem'.rows = disk'.rows
        BY <2>2, <3>3 DEF WithoutCatalogue, Tidy, Loose, Fields
      <4> QED
        BY <3>3, <4>1, TidyAlike DEF Tidy, Loose
    <3> QED
      BY <1>5, <3>3, <3>4 DEF ImportBackup, InPlace, Tidy
  <2> QED
    BY <1>5, <2>1, <2>2 DEF ImportBackup
<1>6. CASE RemoveConfigDirContents
  BY <1>6 DEF RemoveConfigDirContents, InPlace
<1>7. CASE ResetAppData
  <2>1. Default.choice = Automatic /\ Default.parked[Home] = Automatic
    BY DEF Default, Sources
  <2>2. Tidy(WithAllRow(Default))
    BY <2>1, DefaultIsTidy, WithAllRowIsTidy
  <2> QED
    BY <1>7, <2>2, SavingKeepsFilters DEF ResetAppData, Tidy
<1>8. CASE Restart
  <2>1. PICK start \in Starts(disk, files) :
           mem' = start.mem /\ disk' = start.disk /\ ~start.strays
    BY <1>8 DEF Restart
  <2>2. Tidy(mem') /\ (disk' \notin {None, Broken} => Loose(disk'))
    BY <2>1, StartIsTidy DEF InPlace
  <2> QED
    BY <1>8, <2>2 DEF Restart, InPlace, PageOf, Tidy, Loose
<1>9. CASE SaveV2RayProfile
  BY <1>9, SavingKeepsFilters, LooseHolding DEF SaveV2RayProfile
<1>10. CASE ImportV2RayProfiles
  BY <1>10, SavingKeepsFilters, LooseHolding DEF ImportV2RayProfiles
<1>11. CASE SelectV2RayProfile
  <2>1. \A c : Loose([mem EXCEPT !.chosen = c])
    BY LooseAlike DEF InPlace, Tidy, Loose, Fields
  <2> QED
    BY <1>11, <2>1, SavingKeepsFilters DEF SelectV2RayProfile
<1>12. CASE ReorderV2RayProfiles
  <2>1. \A ids : Loose([mem EXCEPT !.configs = ids])
    BY LooseAlike DEF InPlace, Tidy, Loose, Fields
  <2> QED
    BY <1>12, <2>1, SavingKeepsFilters DEF ReorderV2RayProfiles
<1>13. CASE SaveV2RaySubscription
  <2>1. \A l \in Lists : Loose([mem EXCEPT !.rows = @ \cup {l}])
    BY LooseAlike DEF Sources, InPlace, Tidy, Loose, Fields
  <2> QED
    BY <1>13, <2>1, SavingKeepsFilters DEF SaveV2RaySubscription
<1>14. CASE SelectSubscription
  <2>1. PICK s \in Sources : Save(Swap(mem, s))
    BY <1>14 DEF SelectSubscription, Sources, InPlace, Tidy, Loose
  <2> QED
    BY <1>14, <2>1, SavingKeepsFilters, SwapIsLoose DEF SelectSubscription, InPlace, Tidy
<1>15. CASE SaveWhiteVPNSettings
  <2>1. PICK choice \in {Automatic, page.of, page.choice} :
           /\ Save([mem EXCEPT !.choice = choice])
           /\ strayed' = (strayed \/ choice \notin {Automatic, mem.selected})
    BY <1>15 DEF SaveWhiteVPNSettings
  <2>2. choice \in {Automatic, mem.selected}
    BY <2>1
  <2>3. Loose([mem EXCEPT !.choice = choice])
    BY <2>2 DEF InPlace, Tidy, Loose, Fields
  <2> QED
    BY <1>15, <2>1, <2>3, SavingKeepsFilters DEF SaveWhiteVPNSettings
<1>16. CASE ReadPage
  BY <1>16 DEF ReadPage, InPlace, PageOf, Tidy, Loose
<1>17. CASE ResetWhiteVPNSettings
  <2>1. Loose(ResetSettings(mem))
    BY DEF ResetSettings, Default, InPlace, Tidy, Loose, Fields, Sources
  <2> QED
    BY <1>17, <2>1, SavingKeepsFilters DEF ResetWhiteVPNSettings
<1>18. CASE ExportBackup
  BY <1>18 DEF ExportBackup, InPlace
<1>23. CASE WriteBackup
  <2>1. PICK shared \in BOOLEAN, rows \in {copy.rows, copy.rows \cap mem.rows},
             configs \in TornConfigs :
           LET next == Normalized(Torn(shared, rows, configs))
           IN  /\ backup' = IF next.resolver \in Paths \ files THEN backup
                            ELSE [next EXCEPT !.resolver = IF @ \in Paths THEN Text ELSE @]
               /\ mem' = IF shared THEN [mem EXCEPT !.parked = next.parked] ELSE mem
               /\ strayed' = (strayed \/ (shared /\ {copy.selected, next.selected} # {mem.selected}))
    BY <1>23 DEF WriteBackup
  <2> DEFINE read == Torn(shared, rows, configs)
             next == Normalized(read)
  <2>2. Tidy(copy) /\ Tidy(mem)
    BY <1>23 DEF WriteBackup, InPlace
  <2>3. /\ backup' = IF next.resolver \in Paths \ files THEN backup
                     ELSE [next EXCEPT !.resolver = IF @ \in Paths THEN Text ELSE @]
        /\ mem' = IF shared THEN [mem EXCEPT !.parked = next.parked] ELSE mem
        /\ shared => copy.selected = mem.selected /\ next.selected = mem.selected
    BY <2>1
  <2>4. /\ DOMAIN read = Fields /\ read.selected = copy.selected /\ read.choice = copy.choice
        /\ read.parked = (IF shared THEN mem.parked ELSE copy.parked) /\ read.rows \subseteq copy.rows
    BY <2>2 DEF Torn, Tidy, Loose, Fields
  <2> HIDE DEF read
  <2>5. Loose(read)
    BY <2>2, <2>3, <2>4 DEF Tidy, Loose
  <2>6. /\ Tidy(next)
        /\ next.selected = read.selected =>
              \A x \in Sources : next.parked[x] \in {Automatic, read.parked[x]}
    BY <2>5, NormalizedIsTidy
  <2> HIDE DEF next
  <2>7. Tidy(mem')
    <3>1. CASE ~shared
      BY <2>2, <2>3, <3>1
    <3>2. CASE shared
      <4>1. /\ \A x \in Sources : next.parked[x] \in {Automatic, mem.parked[x]}
            /\ DOMAIN next.parked = Sources
        BY <2>3, <2>4, <2>6, <3>2 DEF Tidy, Loose
      <4>2. /\ DOMAIN mem' = Fields /\ mem'.selected = mem.selected /\ mem'.choice = mem.choice
            /\ mem'.rows = mem.rows /\ mem'.parked = next.parked
        BY <2>2, <2>3, <3>2 DEF Tidy, Loose, Fields
      <4> QED
        BY <2>2, <4>1, <4>2, StoredStateAssumption DEF Tidy, Loose, Sources
    <3> QED
      BY <3>1, <3>2
  <2>8. backup' # None => Loose(backup')
    <3>1. Loose([next EXCEPT !.resolver = IF @ \in Paths THEN Text ELSE @])
      BY <2>6, LooseAlike DEF Tidy, Loose, Fields
    <3> QED
      BY <2>3, <3>1 DEF InPlace
  <2> QED
    BY <1>23, <2>7, <2>8 DEF WriteBackup, InPlace
<1>19. CASE ImportLegacyProfiles
  <2>1. CASE UNCHANGED <<mem, disk, files, standing>>
    BY <1>19, <2>1 DEF ImportLegacyProfiles, InPlace
  <2>2. CASE Save(WithoutCatalogue(Apply(mem)))
    <3> DEFINE t == WithoutCatalogue(Apply(mem))
    <3>1. /\ DOMAIN t = Fields /\ t.selected = mem.selected /\ t.choice = mem.choice
          /\ t.parked = mem.parked /\ t.rows \subseteq Sources
      BY StoredStateAssumption DEF Sources, WithoutCatalogue, Apply, InPlace, Tidy, Loose, Fields
    <3>2. Loose(t)
      BY <3>1, LooseAlike DEF InPlace, Tidy
    <3> QED
      BY <1>19, <2>2, <3>2, SavingKeepsFilters DEF ImportLegacyProfiles
  <2> QED
    BY <1>19, <2>1, <2>2 DEF ImportLegacyProfiles
<1>20. CASE ResetCheck
  BY <1>20 DEF ResetCheck, InPlace
<1>21. CASE SetRuntime
  BY <1>21 DEF SetRuntime, InPlace
<1>22. CASE UNCHANGED vars
  BY <1>22 DEF vars, InPlace
<1> QED
  BY <1>1, <1>2, <1>3, <1>4, <1>5, <1>6, <1>7, <1>8, <1>9, <1>10, <1>11, <1>12, <1>13,
     <1>14, <1>15, <1>16, <1>17, <1>18, <1>19, <1>20, <1>21, <1>22, <1>23 DEF Next, Removals

LEMMA FInvAlways == Spec => []FInv
<1>1. Init => FInv
  BY FInvInit
<1>2. FInv /\ [Next]_vars => FInv'
  BY FInvNext
<1> QED
  BY <1>1, <1>2, PTL DEF Spec

\* The filter of a source is in one place and in force only there, whatever is selected,
\* removed, restored or reset, whichever write fails and whatever a backup is written beside,
\* until one of the three ways in which a filter strays (StoredState!FiltersStayHome).
THEOREM FiltersStay == Spec => []FiltersStayHome
<1>1. FInv => FiltersStayHome
  BY DEF FInv, InPlace, Tidy, Loose, FiltersStayHome, ParkedOnce, FilterOfItsSource,
         NoFilterOfTheGone
<1> QED
  BY <1>1, FInvAlways, PTL

-----------------------------------------------------------------------------
(* The files of the resolver lists.                                           *)

Whole(s) == DOMAIN s = Fields

\* The file a state names, if it names one, is among those there are.
Backed(s, present) == s.resolver \in Paths => s.resolver \in present

\* A backup names no file: it holds the text.
RInv ==
    /\ Whole(mem) /\ (disk \notin {None, Broken} => Whole(disk))
    /\ backup # None => Whole(backup) /\ backup.resolver \notin Paths
    /\ copy # None => Whole(copy)
    /\ ~spoiled /\ reset # "removed" =>
          Backed(mem, files) /\ (disk \notin {None, Broken} => Backed(disk, files))

LEMMA NormalizedResolver ==
    ASSUME NEW s, Whole(s)
    PROVE  Whole(Normalized(s)) /\ Normalized(s).resolver = s.resolver
<1> DEFINE swapped == Swap(s, SelectedIn(s))
           chosen == ChosenIn(s)
           parked == [x \in Sources |-> KeptParked(swapped, x)]
<1>1. Whole(swapped) /\ swapped.resolver = s.resolver
  BY DEF Swap, Whole, Fields
<1>2. Normalized(s) = [swapped EXCEPT !.chosen = chosen, !.parked = parked]
  BY DEF Normalized
<1> HIDE DEF swapped, chosen, parked
<1> QED
  BY <1>1, <1>2 DEF Whole, Fields

LEMMA OpenedResolver ==
    ASSUME NEW s, Whole(s)
    PROVE  Whole(Opened(s)) /\ Opened(s).resolver = s.resolver
<1>1. Whole(WithoutCatalogue(s)) /\ WithoutCatalogue(s).resolver = s.resolver
  BY DEF WithoutCatalogue, Whole, Fields
<1>2. \A t : Whole(t) => Whole(WithAllRow(t)) /\ WithAllRow(t).resolver = t.resolver
  BY DEF WithAllRow, Whole, Fields
<1> QED
  BY <1>1, <1>2 DEF Opened

LEMMA DefaultResolver == Whole(Default) /\ \A present : Backed(Default, present)
BY StoredStateAssumption DEF Default, Whole, Fields, Backed

\* A file is written under the name the state will give it, and none is taken away.
LEMMA FiledIsBacked ==
    ASSUME NEW s, Whole(s), Backed(s, files)
    PROVE  /\ Whole(Filed(s, files)) /\ Backed(Filed(s, files), Written(s))
           /\ files \subseteq Written(s)
BY FiledIsAlike DEF Whole, Backed, Written

\* The file is there before the state that names it, and stays if that is not saved.
LEMMA SaveKeepsFiles ==
    ASSUME RInv, NEW s, Whole(s), Save(s)
    PROVE  /\ Whole(mem') /\ (disk' \notin {None, Broken} => Whole(disk'))
           /\ Backed(s, files) /\ (disk \notin {None, Broken} => Backed(disk, files)) =>
                 Backed(mem', files') /\ (disk' \notin {None, Broken} => Backed(disk', files'))
           /\ standing' = "saved" /\ Backed(s, files) =>
                 Backed(mem', files') /\ (disk' \notin {None, Broken} => Backed(disk', files'))
<1> DEFINE next == Normalized(s)
<1>1. Whole(next) /\ (Backed(s, files) => Backed(next, files))
  BY NormalizedResolver DEF Backed
<1>2. Backed(next, files) => Backed(Filed(next, files), Written(next))
  BY <1>1, FiledIsBacked
<1>3. Whole(Filed(next, files)) /\ files \subseteq Written(next)
  BY <1>1, FiledIsAlike DEF Whole, Written
<1>4. \/ mem' = Filed(next, files) /\ disk' = mem' /\ files' = Written(next) /\ standing' = "saved"
      \/ mem' = next /\ disk' = disk /\ files' \in {files, Written(next)} /\ standing' # "saved"
  BY DEF Save, Behind
<1> HIDE DEF next
<1>5. CASE mem' = Filed(next, files) /\ disk' = mem' /\ files' = Written(next) /\ standing' = "saved"
  BY <1>1, <1>2, <1>3, <1>5
<1>6. CASE mem' = next /\ disk' = disk /\ files' \in {files, Written(next)} /\ standing' # "saved"
  <2>1. files \subseteq files'
    BY <1>3, <1>6
  <2> QED
    BY <1>1, <1>6, <2>1 DEF RInv, Backed
<1> QED
  BY <1>4, <1>5, <1>6

LEMMA SavingKeepsFiles ==
    ASSUME RInv, NEW s, Whole(s), s.resolver = mem.resolver, Save(s),
           UNCHANGED <<backup, copy, reset, spoiled>>
    PROVE  RInv'
BY SaveKeepsFiles DEF RInv, Backed

LEMMA StartIsBacked ==
    ASSUME NEW file, NEW present, file \notin {None, Broken} => Whole(file),
           NEW start \in Starts(file, present)
    PROVE  /\ Whole(start.mem) /\ (start.disk \notin {None, Broken} => Whole(start.disk))
           /\ (file \notin {None, Broken} => Backed(file, present)) =>
                 /\ Backed(start.mem, start.files)
                 /\ start.disk \notin {None, Broken} => Backed(start.disk, start.files)
<1> DEFINE s == Loaded(file)
           filed == Filed(s, present)
           more == present \cup {FreshPath(present)}
<1>1. /\ Whole(s)
      /\ (file \notin {None, Broken} => Backed(file, present)) => Backed(s, present)
  BY DefaultResolver, NormalizedResolver DEF Loaded, Backed
<1>2. /\ Whole(filed)
      /\ Unfiled(s) => Backed(filed, more)
      /\ ~Unfiled(s) /\ Backed(s, present) => Backed(filed, present)
  BY <1>1, FiledIsAlike DEF Whole, Backed
<1>3. /\ Whole(Opened(filed)) /\ Opened(filed).resolver = filed.resolver
      /\ Whole(Opened(Default)) /\ Backed(Opened(Default), present)
  BY <1>2, OpenedResolver, DefaultResolver DEF Backed
<1>4. IF Unfiled(s)
      THEN \/ /\ start.mem = Opened(filed) /\ start.disk \in {file, filed} /\ start.files = more
           \/ start.mem = Opened(Default) /\ start.disk = file /\ start.files = present
      ELSE start.mem = Opened(filed) /\ start.disk = file /\ start.files = present
  BY StartsAre
<1> HIDE DEF s, filed, more
<1>5. present \subseteq more
  BY DEF more
<1>6. CASE Unfiled(s)
  BY <1>2, <1>3, <1>4, <1>5, <1>6 DEF Backed
<1>7. CASE ~Unfiled(s)
  BY <1>1, <1>2, <1>3, <1>4, <1>7 DEF Backed
<1> QED
  BY <1>6, <1>7

LEMMA RInvInit ==
    ASSUME Init
    PROVE  RInv
<1>0. PICK file \in {None, Broken, Old} :
         \E start \in Starts(file, {}) :
            mem = start.mem /\ disk = start.disk /\ files = start.files
  BY DEF Init
<1>1. PICK start \in Starts(file, {}) :
         mem = start.mem /\ disk = start.disk /\ files = start.files
  BY <1>0
<1>2. Whole(Old) /\ Backed(Old, {})
  BY OldIsLoose, OldAssumption DEF Loose, Whole, Backed
<1>3. /\ Whole(mem) /\ (disk \notin {None, Broken} => Whole(disk))
      /\ Backed(mem, files) /\ (disk \notin {None, Broken} => Backed(disk, files))
  BY <1>1, <1>2, StartIsBacked
<1> QED
  BY <1>3 DEF Init, RInv

LEMMA RInvNext ==
    ASSUME RInv, [Next]_vars
    PROVE  RInv'
<1> USE DEF aside, still
<1>0. \A configs, chosen : /\ Whole(Holding(configs, chosen))
                           /\ Holding(configs, chosen).resolver = mem.resolver
  BY DEF RInv, Whole, Fields, Holding
<1>1. CASE DeleteV2RayProfiles
  BY <1>0, <1>1, SavingKeepsFiles DEF DeleteV2RayProfiles
<1>2. CASE DeleteDuplicateV2RayProfiles
  BY <1>0, <1>2, SavingKeepsFiles DEF DeleteDuplicateV2RayProfiles
<1>3. CASE DeleteV2RaySubscription
  <2>1. PICK l \in mem.rows \cap Lists :
           Save([mem EXCEPT !.rows = @ \ {l}, !.parked[l] = Automatic,
                            !.configs = Keeping(@, NotOf(l))])
    BY <1>3 DEF DeleteV2RaySubscription
  <2> DEFINE configs == Keeping(mem.configs, NotOf(l))
             t == [mem EXCEPT !.rows = @ \ {l}, !.parked[l] = Automatic,
                              !.configs = configs]
  <2>2. Save(t)
    BY <2>1
  <2>3. Whole(t) /\ t.resolver = mem.resolver
    <3> HIDE DEF configs
    <3> QED
      BY DEF RInv, Whole, Fields
  <2> HIDE DEF t
  <2> QED
    BY <1>3, <2>2, <2>3, SavingKeepsFiles DEF DeleteV2RaySubscription
<1>4. CASE RefreshV2RaySubscription
  BY <1>0, <1>4, SavingKeepsFiles DEF RefreshV2RaySubscription
<1>5. CASE ImportBackup
  <2>1. Whole(backup) /\ Backed(backup, files)
    BY <1>5 DEF ImportBackup, RInv, Backed
  <2>2. files \subseteq Written(backup)
    BY DEF Written
  <2>3. CASE UNCHANGED <<mem, disk, standing>> /\ files' \in {files, Written(backup)}
    BY <1>5, <2>2, <2>3 DEF ImportBackup, RInv, Backed
  <2>4. CASE /\ disk' = Normalized(Restored(backup, files)) /\ files' = Written(backup)
             /\ mem' = WithoutCatalogue(disk')
    <3>1. /\ Whole(Restored(backup, files))
          /\ Backed(Restored(backup, files), Written(backup))
      BY <2>1, FiledIsBacked DEF Restored
    <3>2. Whole(disk') /\ Backed(disk', files')
      BY <2>4, <3>1, NormalizedResolver DEF Backed
    <3>3. Whole(mem') /\ Backed(mem', files')
      BY <2>4, <3>2 DEF WithoutCatalogue, Whole, Fields, Backed
    <3> QED
      BY <1>5, <3>2, <3>3 DEF ImportBackup, RInv
  <2> QED
    BY <1>5, <2>3, <2>4 DEF ImportBackup
<1>6. CASE RemoveConfigDirContents
  BY <1>6 DEF RemoveConfigDirContents, RInv
<1>7. CASE ResetAppData
  <2> DEFINE s == WithAllRow(Default)
  <2>1. Whole(s) /\ Backed(s, files)
    <3>1. Whole(s) /\ s.resolver = Default.resolver
      BY DefaultResolver DEF WithAllRow, Whole, Fields
    <3> QED
      BY <3>1, DefaultResolver DEF Backed
  <2>2. Save(s) /\ reset' = "off" /\ spoiled' = (spoiled \/ standing' # "saved")
        /\ UNCHANGED <<backup, copy>>
    BY <1>7 DEF ResetAppData
  <2> HIDE DEF s
  <2>3. standing' = "saved" => Backed(mem', files') /\ (disk' \notin {None, Broken} => Backed(disk', files'))
    BY <2>1, <2>2, SaveKeepsFiles
  <2>4. Whole(mem') /\ (disk' \notin {None, Broken} => Whole(disk'))
    BY <2>1, <2>2, SaveKeepsFiles
  <2> QED
    BY <2>2, <2>3, <2>4 DEF RInv
<1>8. CASE Restart
  <2>1. PICK start \in Starts(disk, files) :
           mem' = start.mem /\ disk' = start.disk /\ files' = start.files
    BY <1>8 DEF Restart
  <2>2. /\ Whole(mem') /\ (disk' \notin {None, Broken} => Whole(disk'))
        /\ (disk \notin {None, Broken} => Backed(disk, files)) =>
              Backed(mem', files') /\ (disk' \notin {None, Broken} => Backed(disk', files'))
    BY <2>1, StartIsBacked DEF RInv
  <2> QED
    BY <1>8, <2>2 DEF Restart, RInv
<1>9. CASE SaveV2RayProfile
  BY <1>0, <1>9, SavingKeepsFiles DEF SaveV2RayProfile
<1>10. CASE ImportV2RayProfiles
  BY <1>0, <1>10, SavingKeepsFiles DEF ImportV2RayProfiles
<1>11. CASE SelectV2RayProfile
  <2>1. \A c : LET t == [mem EXCEPT !.chosen = c] IN Whole(t) /\ t.resolver = mem.resolver
    BY DEF RInv, Whole, Fields
  <2> QED
    BY <1>11, <2>1, SavingKeepsFiles DEF SelectV2RayProfile
<1>12. CASE ReorderV2RayProfiles
  <2>1. \A ids : LET t == [mem EXCEPT !.configs = ids] IN Whole(t) /\ t.resolver = mem.resolver
    BY DEF RInv, Whole, Fields
  <2> QED
    BY <1>12, <2>1, SavingKeepsFiles DEF ReorderV2RayProfiles
<1>13. CASE SaveV2RaySubscription
  <2>1. \A l : LET t == [mem EXCEPT !.rows = @ \cup {l}] IN
               Whole(t) /\ t.resolver = mem.resolver
    BY DEF RInv, Whole, Fields
  <2> QED
    BY <1>13, <2>1, SavingKeepsFiles DEF SaveV2RaySubscription
<1>14. CASE SelectSubscription
  <2>1. \A s : Whole(Swap(mem, s)) /\ Swap(mem, s).resolver = mem.resolver
    BY DEF RInv, Swap, Whole, Fields
  <2> QED
    BY <1>14, <2>1, SavingKeepsFiles DEF SelectSubscription
<1>15. CASE SaveWhiteVPNSettings
  <2>1. \A f : LET t == [mem EXCEPT !.choice = f] IN Whole(t) /\ t.resolver = mem.resolver
    BY DEF RInv, Whole, Fields
  <2> QED
    BY <1>15, <2>1, SavingKeepsFiles DEF SaveWhiteVPNSettings
<1>16. CASE ReadPage
  BY <1>16 DEF ReadPage, RInv
<1>17. CASE ResetWhiteVPNSettings
  <2>1. Whole(ResetSettings(mem)) /\ ResetSettings(mem).resolver = mem.resolver
    BY DEF ResetSettings, RInv, Whole, Fields
  <2> QED
    BY <1>17, <2>1, SavingKeepsFiles DEF ResetWhiteVPNSettings
<1>18. CASE ExportBackup
  BY <1>18 DEF ExportBackup, RInv
<1>23. CASE WriteBackup
  <2>1. PICK shared \in BOOLEAN, rows \in {copy.rows, copy.rows \cap mem.rows},
             configs \in TornConfigs :
           LET next == Normalized(Torn(shared, rows, configs))
           IN  /\ backup' = IF next.resolver \in Paths \ files THEN backup
                            ELSE [next EXCEPT !.resolver = IF @ \in Paths THEN Text ELSE @]
               /\ mem' = IF shared THEN [mem EXCEPT !.parked = next.parked] ELSE mem
    BY <1>23 DEF WriteBackup
  <2> DEFINE read == Torn(shared, rows, configs)
             next == Normalized(read)
  <2>2. /\ backup' = IF next.resolver \in Paths \ files THEN backup
                     ELSE [next EXCEPT !.resolver = IF @ \in Paths THEN Text ELSE @]
        /\ mem' = IF shared THEN [mem EXCEPT !.parked = next.parked] ELSE mem
    BY <2>1
  <2>3. Whole(read)
    BY <1>23 DEF Torn, WriteBackup, RInv, Whole, Fields
  <2> HIDE DEF read
  <2>4. Whole(next)
    BY <2>3, NormalizedResolver
  <2> HIDE DEF next
  <2>5. Whole(mem') /\ mem'.resolver = mem.resolver
    BY <2>2 DEF RInv, Whole, Fields
  <2>6. backup' # None => Whole(backup') /\ backup'.resolver \notin Paths
    BY <2>2, <2>4, StoredStateAssumption DEF RInv, Whole, Fields
  <2> QED
    BY <1>23, <2>5, <2>6 DEF WriteBackup, RInv, Backed
<1>19. CASE ImportLegacyProfiles
  <2>1. CASE UNCHANGED <<mem, disk, files, standing>>
    BY <1>19, <2>1 DEF ImportLegacyProfiles, RInv
  <2>2. CASE Save(WithoutCatalogue(Apply(mem)))
    <3> DEFINE t == WithoutCatalogue(Apply(mem))
    <3>1. Whole(t) /\ t.resolver = mem.resolver
      BY DEF WithoutCatalogue, Apply, RInv, Whole, Fields
    <3> QED
      BY <1>19, <2>2, <3>1, SavingKeepsFiles DEF ImportLegacyProfiles
  <2> QED
    BY <1>19, <2>1, <2>2 DEF ImportLegacyProfiles
<1>20. CASE ResetCheck
  BY <1>20 DEF ResetCheck, RInv
<1>21. CASE SetRuntime
  BY <1>21 DEF SetRuntime, RInv
<1>22. CASE UNCHANGED vars
  BY <1>22 DEF vars, RInv
<1> QED
  BY <1>1, <1>2, <1>3, <1>4, <1>5, <1>6, <1>7, <1>8, <1>9, <1>10, <1>11, <1>12, <1>13,
     <1>14, <1>15, <1>16, <1>17, <1>18, <1>19, <1>20, <1>21, <1>22, <1>23 DEF Next, Removals

\* Unless a reset stopped half way, the file of the resolver list that memory or the next
\* start names is there, whichever write failed and wherever the app died
\* (StoredState!FilesExist, a part of WhatIsNamedExists).
THEOREM FilesAreThere == Spec => []FilesExist
<1>1. Init => RInv
  BY RInvInit
<1>2. RInv /\ [Next]_vars => RInv'
  BY RInvNext
<1>3. RInv => FilesExist
  BY DEF RInv, FilesExist, Backed
<1> QED
  BY <1>1, <1>2, <1>3, PTL DEF Spec

-----------------------------------------------------------------------------
(* What a state is.                                                           *)

Valid(s) == s \in States /\ IsInjective(s.configs)

\* What is chosen exists, if there is anything.
Settled(s) == s.chosen \in Ids(s) \/ (s.configs = <<>> /\ s.chosen = None)

NoHome(s) == \A c \in Ids(s) : ~Of(c, Home)

\* Normalising corrects nothing.
Normal(s) == Normalized(s) = s

LEMMA DefaultIsValid == Valid(Default) /\ Settled(Default) /\ Normal(Default) /\ NoHome(Default)
<1>1. /\ Default.configs = <<>> /\ Default.chosen = None /\ Default.rows = {}
      /\ Default.selected = Home /\ Default.choice = Automatic /\ Default.resolver = None
      /\ Default.parked = [s \in Sources |-> Automatic] /\ DOMAIN Default = Fields
  BY DEF Default, Fields
<1>2. Valid(Default)
  BY <1>1 DEF Valid, States, Default, Sources, IsInjective
<1>3. Ids(Default) = {}
  BY <1>1 DEF Ids, ToSet
<1>4. Swap(Default, SelectedIn(Default)) = Default
  BY <1>1 DEF Swap, SelectedIn
<1>5. [x \in Sources |-> KeptParked(Default, x)] = Default.parked
  BY <1>1 DEF KeptParked
<1>6. Normal(Default)
  BY <1>1, <1>4, <1>5 DEF Normal, Normalized, ChosenIn, Default
<1> QED
  BY <1>1, <1>2, <1>3, <1>6 DEF Settled, NoHome

LEMMA SwapIsValid ==
    ASSUME NEW s, Valid(s), NEW to \in Sources
    PROVE  /\ Valid(Swap(s, to)) /\ Swap(s, to).selected = to
           /\ Swap(s, to).configs = s.configs /\ Swap(s, to).chosen = s.chosen
           /\ Swap(s, to).rows = s.rows /\ Swap(s, to).resolver = s.resolver
BY DEF Valid, Swap, States

\* NormalizeState keeps the configs and the rows, chooses something there is, and leaves
\* nothing for the next time.
LEMMA NormalizedIsValid ==
    ASSUME NEW s, Valid(s)
    PROVE  LET next == Normalized(s) IN
           /\ Valid(next) /\ Settled(next) /\ Normal(next)
           /\ next.configs = s.configs /\ next.rows = s.rows /\ next.resolver = s.resolver
           /\ s.chosen \in Ids(s) => next.chosen = s.chosen
<1> DEFINE swapped == Swap(s, SelectedIn(s))
           chosen == ChosenIn(s)
           parked == [x \in Sources |-> KeptParked(swapped, x)]
           next == [swapped EXCEPT !.chosen = chosen, !.parked = parked]
<1>1. SelectedIn(s) \in Sources
  BY DEF SelectedIn, Sources, Valid, States
<1>2. /\ Valid(swapped) /\ swapped.selected = SelectedIn(s)
      /\ swapped.configs = s.configs /\ swapped.rows = s.rows /\ swapped.resolver = s.resolver
  BY <1>1, SwapIsValid
<1>3. /\ chosen \in Ids(s) \/ (s.configs = <<>> /\ chosen = None)
      /\ s.chosen \in Ids(s) => chosen = s.chosen
  <2>1. CASE s.configs = <<>>
    BY <2>1 DEF ChosenIn, Ids, ToSet
  <2>2. CASE s.configs # <<>>
    <3>1. s.configs \in Seq(Configs)
      BY DEF Valid, States
    <3>2. Head(s.configs) \in Ids(s)
      BY <2>2, <3>1 DEF Ids, ToSet
    <3> QED
      BY <2>2, <3>2 DEF ChosenIn
  <2> QED
    BY <2>1, <2>2
<1>4. Ids(s) \subseteq Configs
  BY DEF Valid, States, Ids, ToSet
<1>5. parked \in [Sources -> Sources \cup {Automatic}]
  BY <1>2 DEF KeptParked, Valid, States
<1>6. Normalized(s) = next
  BY DEF Normalized
<1> HIDE DEF swapped, parked, chosen
<1>7. /\ next.configs = s.configs /\ next.rows = s.rows /\ next.resolver = s.resolver
      /\ next.chosen = chosen /\ next.parked = parked /\ next.selected = SelectedIn(s)
      /\ next.choice = swapped.choice /\ next \in States
  BY <1>2, <1>3, <1>4, <1>5 DEF Valid, States
<1>8. Valid(next) /\ Settled(next)
  BY <1>3, <1>7 DEF Valid, Settled, Ids
<1> HIDE DEF next
<1>9. SelectedIn(next) = next.selected
  BY <1>7 DEF SelectedIn, HasManual, Ids
<1>10. ChosenIn(next) = next.chosen
  BY <1>8 DEF Settled, ChosenIn, Ids, ToSet
<1>11. [x \in Sources |-> KeptParked(next, x)] = next.parked
  <2>1. \A x \in Sources : KeptParked(next, x) = next.parked[x]
    BY <1>2, <1>7 DEF KeptParked, parked
  <2> QED
    BY <1>5, <1>7, <2>1
<1>12. Normal(next)
  <2>1. Swap(next, SelectedIn(next)) = next
    BY <1>9 DEF Swap
  <2> QED
    BY <1>7, <1>10, <1>11, <2>1 DEF Normal, Normalized, States
<1> QED
  BY <1>3, <1>6, <1>7, <1>8, <1>12

\* A state that differs from another in the file of its resolvers alone.
LEMMA FiledIsValid ==
    ASSUME NEW s, NEW present, Valid(s),
           Unfiled(s) => present # Paths /\ present \subseteq Paths
    PROVE  LET filed == Filed(s, present) IN
           /\ Valid(filed) /\ ~Unfiled(filed)
           /\ filed.configs = s.configs /\ filed.rows = s.rows /\ filed.chosen = s.chosen
           /\ Settled(s) => Settled(filed)
           /\ Normal(s) => Normal(filed)
<1>1. CASE ~Unfiled(s)
  BY <1>1 DEF Filed
<1>2. CASE Unfiled(s)
  <2> DEFINE path == FreshPath(present)
             filed == [s EXCEPT !.resolver = path]
  <2>1. path \in Paths
    BY <1>2 DEF FreshPath
  <2>2. Filed(s, present) = filed
    BY <1>2 DEF Filed
  <2> HIDE DEF path
  <2>3. /\ filed.configs = s.configs /\ filed.rows = s.rows /\ filed.chosen = s.chosen
        /\ filed.selected = s.selected /\ filed.choice = s.choice /\ filed.parked = s.parked
        /\ filed.resolver = path /\ filed \in States
    BY <2>1 DEF Valid, States
  <2>4. Valid(filed) /\ ~Unfiled(filed) /\ (Settled(s) => Settled(filed))
    BY <2>1, <2>3, StoredStateAssumption DEF Valid, Unfiled, Settled, Ids
  <2>5. Normal(s) => Normal(filed)
    <3> SUFFICES ASSUME Normal(s) PROVE Normal(filed)
      OBVIOUS
    <3> HIDE DEF filed
    <3>1. SelectedIn(filed) = SelectedIn(s) /\ ChosenIn(filed) = ChosenIn(s)
      BY <2>3 DEF SelectedIn, HasManual, ChosenIn, Ids
    <3>2. SelectedIn(s) = s.selected /\ ChosenIn(s) = s.chosen
      <4>1. SelectedIn(s) \in Sources
        BY DEF SelectedIn, Sources, Valid, States
      <4>2. Normalized(s).selected = SelectedIn(s) /\ Normalized(s).chosen = ChosenIn(s)
        BY <4>1, SwapIsValid DEF Normalized, Valid, States
      <4> QED
        BY <4>2 DEF Normal
    <3>3. Swap(s, SelectedIn(s)) = s /\ Swap(filed, SelectedIn(filed)) = filed
      BY <2>3, <3>1, <3>2 DEF Swap
    <3>4. [x \in Sources |-> KeptParked(s, x)] = s.parked
      BY <3>3 DEF Normal, Normalized, Valid, States
    <3>5. [x \in Sources |-> KeptParked(filed, x)] = filed.parked
      BY <2>3, <3>4 DEF KeptParked
    <3> QED
      BY <2>3, <3>1, <3>2, <3>3, <3>5 DEF Normal, Normalized, States
  <2> QED
    BY <2>2, <2>3, <2>4, <2>5
<1> QED
  BY <1>1, <1>2

\* forgetBuiltInCatalogueProfiles leaves no config of the catalogue, and all others.
LEMMA WithoutCatalogueIsValid ==
    ASSUME NEW s, Valid(s)
    PROVE  LET left == WithoutCatalogue(s) IN
           /\ Valid(left) /\ NoHome(left) /\ Ids(left) = {c \in Ids(s) : ~Of(c, Home)}
           /\ left.chosen = s.chosen /\ left.rows = s.rows /\ left.resolver = s.resolver
           /\ NoHome(s) => left = s
<1> DEFINE configs == Keeping(s.configs, NotOf(Home))
           left == [s EXCEPT !.configs = configs]
<1>1. s.configs \in Seq(Configs) /\ IsInjective(s.configs) /\ Ids(s) \subseteq Configs
  BY DEF Valid, States, Ids, ToSet
<1>2. /\ configs \in Seq(Configs) /\ IsInjective(configs)
      /\ ToSet(configs) = ToSet(s.configs) \cap NotOf(Home)
      /\ ToSet(s.configs) \subseteq NotOf(Home) => configs = s.configs
  BY <1>1, KeepingIs
<1>3. WithoutCatalogue(s) = left
  BY DEF WithoutCatalogue
<1> HIDE DEF configs
<1>4. /\ left.configs = configs /\ left.chosen = s.chosen /\ left.rows = s.rows
      /\ left.resolver = s.resolver /\ left \in States
      /\ configs = s.configs => left = s
  BY <1>1, <1>2 DEF Valid, States
<1> HIDE DEF left
<1>5. Ids(left) = {c \in Ids(s) : ~Of(c, Home)}
  BY <1>1, <1>2, <1>4 DEF Ids, NotOf
<1>6. NoHome(s) => left = s
  BY <1>1, <1>2, <1>4 DEF NoHome, NotOf, Ids
<1> QED
  BY <1>2, <1>3, <1>4, <1>5, <1>6 DEF Valid, NoHome

LEMMA WithAllRowIsValid ==
    ASSUME NEW s, Valid(s)
    PROVE  LET with == WithAllRow(s) IN
           /\ Valid(with) /\ with.configs = s.configs /\ with.chosen = s.chosen
           /\ with.resolver = s.resolver
           /\ WithAllRow(with) = with
<1> DEFINE with == WithAllRow(s)
<1>1. /\ with \in States /\ with.configs = s.configs /\ with.chosen = s.chosen
      /\ with.resolver = s.resolver
  BY DEF WithAllRow, Valid, States, Sources
<1>2. CASE s.rows \cap Lists # {} \/ HasManual(s)
  <2>1. with = [s EXCEPT !.rows = @ \cup {All}]
    BY <1>2 DEF WithAllRow
  <2>2. (with.rows \cap Lists # {} \/ HasManual(with)) /\ with.rows \cup {All} = with.rows
    BY <1>2, <2>1 DEF HasManual, Ids, Valid, States
  <2> HIDE DEF with
  <2>3. WithAllRow(with) = [with EXCEPT !.rows = @ \cup {All}]
    BY <2>2 DEF WithAllRow
  <2> QED
    BY <1>1, <2>2, <2>3 DEF with, Valid, States
<1>3. CASE ~(s.rows \cap Lists # {} \/ HasManual(s))
  <2>1. with = [s EXCEPT !.rows = @ \ {All},
                         !.selected = IF @ = All /\ All \in s.rows THEN Home ELSE @]
    BY <1>3 DEF WithAllRow
  <2>2. ~(with.rows \cap Lists # {} \/ HasManual(with)) /\ with.rows \ {All} = with.rows
    BY <1>3, <2>1 DEF HasManual, Ids, Valid, States
  <2> HIDE DEF with
  <2>3. WithAllRow(with) = with
    BY <1>1, <2>2 DEF WithAllRow, States
  <2> QED
    BY <1>1, <2>3 DEF with, Valid
<1> QED
  BY <1>2, <1>3

LEMMA OpenedIsValid ==
    ASSUME NEW s, Valid(s)
    PROVE  LET opened == Opened(s) IN
           /\ Valid(opened) /\ NoHome(opened) /\ Ids(opened) = {c \in Ids(s) : ~Of(c, Home)}
           /\ opened.chosen = s.chosen /\ opened.resolver = s.resolver
           /\ WithAllRow(opened) = opened
<1> DEFINE left == WithoutCatalogue(s)
<1>1. /\ Valid(left) /\ NoHome(left) /\ Ids(left) = {c \in Ids(s) : ~Of(c, Home)}
      /\ left.chosen = s.chosen /\ left.resolver = s.resolver
  BY WithoutCatalogueIsValid
<1>2. Opened(s) = WithAllRow(left)
  BY DEF Opened
<1> HIDE DEF left
<1>3. /\ Valid(WithAllRow(left)) /\ WithAllRow(left).configs = left.configs
      /\ WithAllRow(left).chosen = left.chosen /\ WithAllRow(left).resolver = left.resolver
      /\ WithAllRow(WithAllRow(left)) = WithAllRow(left)
  BY <1>1, WithAllRowIsValid
<1> QED
  BY <1>1, <1>2, <1>3 DEF left, Ids, NoHome

-----------------------------------------------------------------------------
(* Sequences of configs.                                                      *)

LEMMA ConcatSet ==
    ASSUME NEW S, NEW a \in Seq(S), NEW b \in Seq(S)
    PROVE  /\ a \o b \in Seq(S) /\ ToSet(a \o b) = ToSet(a) \cup ToSet(b)
           /\ IsInjective(a) /\ IsInjective(b) /\ ToSet(a) \cap ToSet(b) = {} => IsInjective(a \o b)
<1> DEFINE m == Len(a)
           n == Len(b)
           c == a \o b
<1>1. m \in Nat /\ n \in Nat /\ DOMAIN a = 1 .. m /\ DOMAIN b = 1 .. n
  OBVIOUS
<1>2. /\ c \in Seq(S) /\ Len(c) = m + n /\ DOMAIN c = 1 .. m + n
      /\ \A i \in 1 .. m + n : c[i] = IF i <= m THEN a[i] ELSE b[i - m]
  BY ConcatProperties
<1> HIDE DEF m, n, c
<1>3. \A i \in 1 .. m + n : IF i <= m THEN i \in 1 .. m ELSE i - m \in 1 .. n
  BY <1>1
<1>4. \A i \in 1 .. m : i \in 1 .. m + n /\ c[i] = a[i]
  BY <1>1, <1>2
<1>5. \A i \in 1 .. n : i + m \in 1 .. m + n /\ c[i + m] = b[i]
  BY <1>1, <1>2
<1>6. ToSet(c) \subseteq ToSet(a) \cup ToSet(b)
  BY <1>1, <1>2, <1>3 DEF ToSet
<1>7. ToSet(a) \subseteq ToSet(c)
  BY <1>1, <1>2, <1>4 DEF ToSet
<1>8. ToSet(b) \subseteq ToSet(c)
  BY <1>1, <1>2, <1>5 DEF ToSet
<1>9. ASSUME IsInjective(a), IsInjective(b), ToSet(a) \cap ToSet(b) = {},
             NEW i \in 1 .. m + n, NEW j \in 1 .. m + n, c[i] = c[j]
      PROVE  i = j
  <2>1. \A x \in 1 .. m, y \in 1 .. n : a[x] # b[y]
    BY <1>1, <1>9 DEF ToSet
  <2>2. \A x, y \in 1 .. m : a[x] = a[y] => x = y
    BY <1>1, <1>9 DEF IsInjective
  <2>3. \A x, y \in 1 .. n : b[x] = b[y] => x = y
    BY <1>1, <1>9 DEF IsInjective
  <2>4. CASE i <= m /\ j <= m
    BY <1>1, <1>2, <1>3, <1>9, <2>2, <2>4
  <2>5. CASE ~(i <= m) /\ ~(j <= m)
    BY <1>1, <1>2, <1>3, <1>9, <2>3, <2>5
  <2>6. CASE i <= m /\ ~(j <= m)
    BY <1>2, <1>3, <1>9, <2>1, <2>6
  <2>7. CASE ~(i <= m) /\ j <= m
    BY <1>2, <1>3, <1>9, <2>1, <2>7
  <2> QED
    BY <2>4, <2>5, <2>6, <2>7
<1>10. IsInjective(a) /\ IsInjective(b) /\ ToSet(a) \cap ToSet(b) = {} => IsInjective(c)
  BY <1>2, <1>9 DEF IsInjective
<1> QED
  BY <1>2, <1>6, <1>7, <1>8, <1>10 DEF c

LEMMA AppendedConfigs ==
    ASSUME NEW list \in Seq(Configs), IsInjective(list), NEW c \in Configs \ ToSet(list)
    PROVE  Append(list, c) \in Seq(Configs) /\ IsInjective(Append(list, c))
BY DEF ToSet, IsInjective

LEMMA PrependedConfigs ==
    ASSUME NEW list \in Seq(Configs), IsInjective(list), NEW c \in Configs \ ToSet(list)
    PROVE  LET more == <<c>> \o list IN
           more \in Seq(Configs) /\ IsInjective(more) /\ ToSet(more) = ToSet(list) \cup {c}
<1> DEFINE one == <<c>>
<1>1. one \in Seq(Configs) /\ ToSet(one) = {c} /\ IsInjective(one)
  BY DEF ToSet, IsInjective
<1> HIDE DEF one
<1>2. ToSet(one) \cap ToSet(list) = {}
  BY <1>1
<1>3. /\ one \o list \in Seq(Configs) /\ IsInjective(one \o list)
      /\ ToSet(one \o list) = ToSet(one) \cup ToSet(list)
  BY <1>1, <1>2, ConcatSet
<1> QED
  BY <1>1, <1>3 DEF one

LEMMA ReversedConfigs ==
    ASSUME NEW list \in Seq(Configs), IsInjective(list)
    PROVE  /\ Reverse(list) \in Seq(Configs) /\ IsInjective(Reverse(list))
           /\ ToSet(Reverse(list)) = ToSet(list)
<1> DEFINE n == Len(list)
           back == Reverse(list)
<1>1. /\ n \in Nat /\ DOMAIN list = 1 .. n
      /\ \A i \in 1 .. n : n - i + 1 \in 1 .. n /\ n - (n - i + 1) + 1 = i
  OBVIOUS
<1>2. DOMAIN back = 1 .. n /\ \A i \in 1 .. n : back[i] = list[n - i + 1]
  BY DEF Reverse
<1>3. back \in Seq(Configs)
  BY DEF Reverse
<1> HIDE DEF n, back
<1>4. IsInjective(back)
  <2> SUFFICES ASSUME NEW i \in 1 .. n, NEW j \in 1 .. n, back[i] = back[j] PROVE i = j
    BY <1>2 DEF IsInjective
  <2>1. n - i + 1 = n - j + 1
    BY <1>1, <1>2 DEF IsInjective
  <2> QED
    BY <1>1, <2>1
<1>5. ToSet(back) \subseteq ToSet(list)
  BY <1>1, <1>2 DEF ToSet
<1>6. ASSUME NEW i \in 1 .. n PROVE list[i] \in ToSet(back)
  <2>1. back[n - i + 1] = list[i] /\ n - i + 1 \in DOMAIN back
    BY <1>1, <1>2
  <2> QED
    BY <2>1 DEF ToSet
<1>7. ToSet(list) \subseteq ToSet(back)
  BY <1>1, <1>6 DEF ToSet
<1> QED
  BY <1>3, <1>4, <1>5, <1>7 DEF back

\* Two lists of one length, with nothing twice: if all of one is in the other they have
\* the same configs.
LEMMA SameConfigs ==
    ASSUME NEW a \in Seq(Configs), NEW b \in Seq(Configs), IsInjective(a), IsInjective(b),
           Len(a) = Len(b), ToSet(a) \subseteq ToSet(b)
    PROVE  ToSet(a) = ToSet(b)
<1>1. ASSUME NEW list \in Seq(Configs), IsInjective(list)
      PROVE  IsFiniteSet(ToSet(list)) /\ Cardinality(ToSet(list)) = Len(list)
  <2>1. Len(list) \in Nat /\ DOMAIN list = 1 .. Len(list)
    OBVIOUS
  <2>2. IsFiniteSet(1 .. Len(list)) /\ Cardinality(1 .. Len(list)) = Len(list)
    <3>1. Len(list) \in Int /\ 1 \in Int
      BY <2>1
    <3>2. /\ IsFiniteSet(1 .. Len(list))
          /\ Cardinality(1 .. Len(list)) = IF 1 > Len(list) THEN 0 ELSE Len(list) - 1 + 1
      BY <3>1, FS_Interval
    <3> QED
      BY <2>1, <3>2
  <2>3. list \in Bijection(1 .. Len(list), ToSet(list))
    BY <1>1, <2>1 DEF ToSet, IsInjective, Bijection, Injection, Surjection, IsInjective
  <2>4. ExistsBijection(1 .. Len(list), ToSet(list))
    BY <2>3 DEF ExistsBijection
  <2> QED
    BY <2>2, <2>4, FS_Bijection
<1>2. Cardinality(ToSet(a)) = Cardinality(ToSet(b)) /\ IsFiniteSet(ToSet(b))
  BY <1>1
<1> QED
  BY <1>2, FS_Subset

-----------------------------------------------------------------------------
(* The steps that save.                                                       *)

TInv ==
    /\ Valid(mem) /\ mem.resolver # Text
    /\ disk \in {None, Broken} \/ Valid(disk)
    /\ files \subseteq Paths
    /\ backup = None \/ Valid(backup)
    /\ copy = None \/ Valid(copy)
    /\ page.ids \in Seq(Configs) /\ IsInjective(page.ids)
    /\ page \in [ids : Seq(Configs), of : Sources, choice : Sources \cup {Automatic}]
    /\ runtime \in {"off", "connecting", "on"} /\ reset \in {"off", "checked", "removed"}
    /\ standing \in {"saved", "ahead", "unread"}
    /\ offer \in BOOLEAN /\ strayed \in BOOLEAN /\ spoiled \in BOOLEAN
    /\ acts \in 0 .. MaxActs

\* What is in memory is never of the catalogue; what is chosen, in memory and in all that
\* has been saved, exists.
NInv == NoHome(mem) /\ (mem.chosen \in Ids(mem) \cup {None} \/ Of(mem.chosen, Home))
        /\ \A s \in SavedStates : Settled(s)

\* What a save makes of a state: memory and disk agree if it succeeds.
LEMMA SaveLeaves ==
    ASSUME TInv, NEW s, Valid(s), NoHome(s), s.resolver # Text, Save(s)
    PROVE  /\ Valid(mem') /\ Settled(mem') /\ NoHome(mem') /\ Ids(mem') = Ids(s)
           /\ s.chosen \in Ids(s) => mem'.chosen = s.chosen
           /\ mem'.resolver # Text /\ files' \subseteq Paths /\ standing' \in {"saved", "ahead", "unread"}
           /\ disk' \in {disk, mem'}
           /\ standing' = "saved" => disk' = mem' /\ Normal(mem')
<1> DEFINE next == Normalized(s)
           filed == Filed(next, files)
<1>1. /\ Valid(next) /\ Settled(next) /\ Normal(next)
      /\ next.configs = s.configs /\ next.resolver = s.resolver
      /\ s.chosen \in Ids(s) => next.chosen = s.chosen
  BY NormalizedIsValid
<1>2. Unfiled(next) => files # Paths /\ files \subseteq Paths
  BY DEF Save, Room, TInv
<1>3. /\ Valid(filed) /\ Settled(filed) /\ Normal(filed) /\ ~Unfiled(filed)
      /\ filed.configs = s.configs /\ filed.chosen = next.chosen
  BY <1>1, <1>2, FiledIsValid
<1>4. Written(next) \subseteq Paths
  BY <1>2 DEF Written, FreshPath, TInv
<1>5. \/ mem' = filed /\ disk' = mem' /\ files' = Written(next) /\ standing' = "saved"
      \/ mem' = next /\ disk' = disk /\ files' \in {files, Written(next)} /\ standing' \in {"ahead", "unread"}
  BY DEF Save, Behind
<1> HIDE DEF next, filed
<1>6. mem' \in {next, filed} /\ files' \subseteq Paths
  BY <1>4, <1>5 DEF TInv
<1>7. filed.resolver # Text /\ next.resolver # Text
  BY <1>1, <1>3 DEF Unfiled
<1> QED
  BY <1>1, <1>3, <1>5, <1>6, <1>7 DEF Ids, NoHome

\* What holds of the state that an operation saves: it loses nothing that it was not asked
\* to remove, and leaves the choice while a connection is made or used.
Sound(s) ==
    /\ Valid(s) /\ NoHome(s) /\ s.resolver # Text
    /\ Removals \/ Ids(mem) \subseteq Ids(s)
    /\ Locked /\ ~ResetAppData => s.chosen = mem.chosen

LEMMA HoldingIsValid ==
    ASSUME TInv, NEW configs \in Seq(Configs), IsInjective(configs),
           NEW chosen \in Configs \cup {None}
    PROVE  LET s == Holding(configs, chosen) IN
           /\ Valid(s) /\ s.resolver # Text /\ s.chosen = chosen /\ Ids(s) = ToSet(configs)
BY DEF TInv, Holding, Valid, States, Ids

\* What is left of the configs in memory.
LEMMA KeptConfigs ==
    ASSUME TInv, NEW set
    PROVE  LET left == Keeping(mem.configs, set) IN
           /\ left \in Seq(Configs) /\ IsInjective(left) /\ ToSet(left) = Ids(mem) \cap set
BY KeepingIs DEF TInv, Valid, States, Ids

LEMMA MemConfigs ==
    ASSUME TInv
    PROVE  /\ mem.configs \in Seq(Configs) /\ IsInjective(mem.configs)
           /\ ToSet(mem.configs) = Ids(mem) /\ Ids(mem) \subseteq Configs
           /\ mem.chosen \in Configs \cup {None}
BY DEF TInv, Valid, States, Ids, ToSet

Saving == \E s : Save(s) /\ Sound(s)

LEMMA ConfigsAreSaved ==
    ASSUME TInv, NInv,
           \/ SaveV2RayProfile \/ ImportV2RayProfiles \/ DeleteV2RayProfiles
           \/ DeleteDuplicateV2RayProfiles \/ SelectV2RayProfile \/ ReorderV2RayProfiles
           \/ RefreshV2RaySubscription
    PROVE  Saving
<1> USE MemConfigs
<1>1. CASE SaveV2RayProfile
  <2>1. PICK c \in Configs :
           /\ Of(c, Manual)
           /\ Save(Holding(IF c \in Ids(mem) THEN mem.configs ELSE Append(mem.configs, c),
                           ChosenAfter(c)))
    BY <1>1 DEF SaveV2RayProfile
  <2> DEFINE configs == IF c \in Ids(mem) THEN mem.configs ELSE Append(mem.configs, c)
             chosen == ChosenAfter(c)
  <2>2. /\ configs \in Seq(Configs) /\ IsInjective(configs)
        /\ ToSet(configs) = Ids(mem) \cup {c}
    <3>1. CASE c \in Ids(mem)
      BY <3>1
    <3>2. CASE c \notin Ids(mem)
      BY <3>2, AppendedConfigs, AppendedSet
    <3> QED
      BY <3>1, <3>2
  <2>3. chosen \in Configs \cup {None} /\ (Locked => chosen = mem.chosen)
    BY DEF ChosenAfter
  <2> HIDE DEF configs, chosen
  <2>4. Sound(Holding(configs, chosen))
    BY <2>1, <2>2, <2>3, HoldingIsValid, StoredStateAssumption DEF Sound, NInv, NoHome, Of
  <2> QED
    BY <2>1, <2>4 DEF Saving, configs, chosen
<1>2. CASE ImportV2RayProfiles
  <2>1. PICK c \in Configs \ Ids(mem) :
           Of(c, Manual) /\ Save(Holding(<<c>> \o mem.configs, ChosenAfter(c)))
    BY <1>2 DEF ImportV2RayProfiles
  <2> DEFINE configs == <<c>> \o mem.configs
             chosen == ChosenAfter(c)
  <2>2. /\ configs \in Seq(Configs) /\ IsInjective(configs)
        /\ ToSet(configs) = Ids(mem) \cup {c}
    BY PrependedConfigs
  <2>3. chosen \in Configs \cup {None} /\ (Locked => chosen = mem.chosen)
    BY DEF ChosenAfter
  <2>0. Save(Holding(configs, chosen))
    BY <2>1
  <2> HIDE DEF configs, chosen
  <2>4. Sound(Holding(configs, chosen))
    BY <2>1, <2>2, <2>3, HoldingIsValid, StoredStateAssumption DEF Sound, NInv, NoHome, Of
  <2> QED
    BY <2>0, <2>4 DEF Saving
<1>3. ASSUME NEW set, Removals, Save(Holding(Keeping(mem.configs, set), mem.chosen))
      PROVE  Saving
  <2> DEFINE configs == Keeping(mem.configs, set)
  <2>1. configs \in Seq(Configs) /\ IsInjective(configs) /\ ToSet(configs) \subseteq Ids(mem)
    BY KeptConfigs
  <2> HIDE DEF configs
  <2>2. Sound(Holding(configs, mem.chosen))
    BY <1>3, <2>1, HoldingIsValid DEF Sound, NInv, NoHome
  <2> QED
    BY <1>3, <2>2 DEF Saving, configs
<1>4. CASE DeleteV2RayProfiles
  BY <1>3, <1>4 DEF DeleteV2RayProfiles, Removals
<1>5. CASE DeleteDuplicateV2RayProfiles
  BY <1>3, <1>5 DEF DeleteDuplicateV2RayProfiles, Removals
<1>6. CASE SelectV2RayProfile
  <2>1. PICK c \in Ids(mem) : ~Locked /\ Save([mem EXCEPT !.chosen = c])
    BY <1>6 DEF SelectV2RayProfile
  <2>2. Sound([mem EXCEPT !.chosen = c])
    BY <2>1 DEF Sound, TInv, NInv, NoHome, Valid, States, Ids
  <2> QED
    BY <2>1, <2>2 DEF Saving
<1>7. CASE ReorderV2RayProfiles
  <2> DEFINE configs == Reverse(page.ids)
  <2>1. Save([mem EXCEPT !.configs = configs]) /\ Reorderable(page.ids)
    BY <1>7 DEF ReorderV2RayProfiles
  <2>2. ToSet(page.ids) = Ids(mem)
    BY <2>1, SameConfigs DEF Reorderable, TInv
  <2>3. configs \in Seq(Configs) /\ IsInjective(configs) /\ ToSet(configs) = Ids(mem)
    BY <2>2, ReversedConfigs DEF TInv
  <2> HIDE DEF configs
  <2>4. Sound([mem EXCEPT !.configs = configs])
    BY <2>3 DEF Sound, TInv, NInv, NoHome, Valid, States, Ids
  <2> QED
    BY <2>1, <2>4 DEF Saving
<1>8. CASE RefreshV2RaySubscription
  <2>1. PICK l \in mem.rows \cap Lists, c \in Configs \ Ids(mem) :
           /\ Of(c, l)
           /\ Save(Holding(Append(Keeping(mem.configs, NotOf(l)), c), ChosenAfter(c)))
    BY <1>8 DEF RefreshV2RaySubscription
  <2> DEFINE left == Keeping(mem.configs, NotOf(l))
             configs == Append(left, c)
             chosen == ChosenAfter(c)
  <2>2. left \in Seq(Configs) /\ IsInjective(left) /\ ToSet(left) \subseteq Ids(mem)
    BY KeptConfigs
  <2>0. Save(Holding(configs, chosen))
    BY <2>1
  <2> HIDE DEF left
  <2>3. /\ configs \in Seq(Configs) /\ IsInjective(configs)
        /\ ToSet(configs) \subseteq Ids(mem) \cup {c}
    BY <2>2, AppendedConfigs, AppendedSet
  <2>4. chosen \in Configs \cup {None} /\ (Locked => chosen = mem.chosen)
    BY DEF ChosenAfter
  <2>5. Removals
    BY <1>8 DEF Removals
  <2>6. ~Of(c, Home)
    BY <2>1, StoredStateAssumption DEF Of
  <2> HIDE DEF configs, chosen
  <2>7. Sound(Holding(configs, chosen))
    BY <2>3, <2>4, <2>5, <2>6, HoldingIsValid DEF Sound, NInv, NoHome
  <2> QED
    BY <2>0, <2>7 DEF Saving
<1> QED
  BY <1>1, <1>2, <1>4, <1>5, <1>6, <1>7, <1>8

LEMMA SourcesAreSaved ==
    ASSUME TInv, NInv,
           \/ SaveV2RaySubscription \/ DeleteV2RaySubscription \/ SelectSubscription
           \/ SaveWhiteVPNSettings \/ ResetWhiteVPNSettings
    PROVE  Saving
<1> USE MemConfigs
<1>1. CASE SaveV2RaySubscription
  <2>1. PICK l \in Lists : Save([mem EXCEPT !.rows = @ \cup {l}])
    BY <1>1 DEF SaveV2RaySubscription
  <2>2. Sound([mem EXCEPT !.rows = @ \cup {l}])
    BY DEF Sound, TInv, NInv, NoHome, Valid, States, Ids
  <2> QED
    BY <2>1, <2>2 DEF Saving
<1>2. CASE DeleteV2RaySubscription
  <2>1. PICK l \in mem.rows \cap Lists :
           Save([mem EXCEPT !.rows = @ \ {l}, !.parked[l] = Automatic,
                            !.configs = Keeping(@, NotOf(l))])
    BY <1>2 DEF DeleteV2RaySubscription
  <2> DEFINE configs == Keeping(mem.configs, NotOf(l))
             s == [mem EXCEPT !.rows = @ \ {l}, !.parked[l] = Automatic, !.configs = configs]
  <2>2. configs \in Seq(Configs) /\ IsInjective(configs) /\ ToSet(configs) \subseteq Ids(mem)
    BY KeptConfigs
  <2>3. Save(s)
    BY <2>1
  <2> HIDE DEF configs
  <2>4. /\ s \in States /\ s.configs = configs /\ s.chosen = mem.chosen
        /\ s.resolver = mem.resolver
    BY <2>2 DEF TInv, Valid, States
  <2> HIDE DEF s
  <2>5. Sound(s)
    BY <1>2, <2>2, <2>4 DEF Sound, Removals, TInv, NInv, NoHome, Valid, Ids
  <2> QED
    BY <2>3, <2>5 DEF Saving
<1>3. CASE SelectSubscription
  <2>1. PICK to \in Sources : Save(Swap(mem, to))
    BY <1>3 DEF SelectSubscription, Sources, TInv, Valid, States
  <2>2. Sound(Swap(mem, to))
    BY SwapIsValid DEF Sound, TInv, NInv, NoHome, Ids
  <2> QED
    BY <2>1, <2>2 DEF Saving
<1>4. CASE SaveWhiteVPNSettings
  <2>1. PICK choice \in {Automatic, page.of, page.choice} : Save([mem EXCEPT !.choice = choice])
    BY <1>4 DEF SaveWhiteVPNSettings
  <2>2. Sound([mem EXCEPT !.choice = choice])
    BY DEF Sound, TInv, NInv, NoHome, Valid, States, Ids
  <2> QED
    BY <2>1, <2>2 DEF Saving
<1>5. CASE ResetWhiteVPNSettings
  <2>1. Save(ResetSettings(mem))
    BY <1>5 DEF ResetWhiteVPNSettings
  <2>2. Sound(ResetSettings(mem))
    BY DEF ResetSettings, Default, Sources, Sound, TInv, NInv, NoHome, Valid, States, Ids
  <2> QED
    BY <2>1, <2>2 DEF Saving
<1> QED
  BY <1>1, <1>2, <1>3, <1>4, <1>5

\* What another application left is added to what there is, but for its catalogue.
LEMMA LegacyIsSaved ==
    ASSUME TInv, NInv, Save(WithoutCatalogue(Apply(mem)))
    PROVE  Saving
<1> DEFINE more == Keeping(Legacy.configs, Configs \ Ids(mem))
           s == Apply(mem)
<1>1. /\ more \in Seq(Configs) /\ IsInjective(more)
      /\ ToSet(more) = ToSet(Legacy.configs) \cap (Configs \ Ids(mem))
  BY KeepingIs, StoredStateAssumption
<1>2. s = [mem EXCEPT !.configs = @ \o more, !.rows = @ \cup Legacy.rows]
  <2>1. more = Keeping(Legacy.configs, Configs \ Ids(mem))
    OBVIOUS
  <2> HIDE DEF more
  <2> QED
    BY <2>1 DEF Apply
<1> DEFINE configs == mem.configs \o more
<1> HIDE DEF more
<1>3. /\ configs \in Seq(Configs) /\ IsInjective(configs)
      /\ ToSet(configs) = Ids(mem) \cup ToSet(more)
  <2>1. ToSet(mem.configs) \cap ToSet(more) = {}
    BY <1>1, MemConfigs
  <2> QED
    BY <1>1, <2>1, MemConfigs, ConcatSet
<1> HIDE DEF configs
<1>4. /\ s \in States /\ s.configs = configs /\ s.chosen = mem.chosen
      /\ s.resolver = mem.resolver
  <2>1. s = [mem EXCEPT !.configs = configs, !.rows = @ \cup Legacy.rows]
    BY <1>2 DEF configs
  <2>2. Legacy.rows \subseteq Lists \cup {All}
    BY StoredStateAssumption
  <2> HIDE DEF s
  <2> QED
    BY <1>3, <2>1, <2>2 DEF TInv, Valid, States
<1> HIDE DEF s
<1>5. Valid(s) /\ Ids(mem) \subseteq Ids(s)
  BY <1>3, <1>4 DEF Valid, Ids
<1>6. Sound(WithoutCatalogue(s))
  BY <1>4, <1>5, WithoutCatalogueIsValid DEF Sound, TInv, NInv, NoHome
<1> QED
  BY <1>6 DEF Saving, s

LEMMA ResetIsSaved ==
    ASSUME ResetAppData
    PROVE  Saving
<1> DEFINE s == WithAllRow(Default)
<1>1. Save(s) /\ Removals
  BY DEF ResetAppData, Removals
<1>2. Default.resolver # Text
  BY StoredStateAssumption DEF Default
<1>3. Valid(s) /\ s.resolver # Text /\ s.configs = Default.configs
  BY <1>2, DefaultIsValid, WithAllRowIsValid
<1> HIDE DEF s
<1>4. Sound(s)
  BY <1>1, <1>3, DefaultIsValid DEF Sound, NoHome, Ids
<1> QED
  BY <1>1, <1>4 DEF Saving

\* A step saves, leaves all that is stored as it is, starts the program, restores a backup
\* or deletes what is there.
LEMMA StepKinds ==
    ASSUME TInv, NInv, [Next]_vars
    PROVE  \/ Saving /\ UNCHANGED <<backup, copy, page, runtime>>
           \/ UNCHANGED <<mem, disk, files, standing, backup>>
           \/ Restart \/ ImportBackup \/ RemoveConfigDirContents \/ WriteBackup
<1>1. CASE \/ SaveV2RayProfile \/ ImportV2RayProfiles \/ DeleteV2RayProfiles
           \/ DeleteDuplicateV2RayProfiles \/ SelectV2RayProfile \/ ReorderV2RayProfiles
           \/ RefreshV2RaySubscription
  BY <1>1, ConfigsAreSaved
  DEF SaveV2RayProfile, ImportV2RayProfiles, DeleteV2RayProfiles, DeleteDuplicateV2RayProfiles,
      SelectV2RayProfile, ReorderV2RayProfiles, RefreshV2RaySubscription, aside, still
<1>2. CASE \/ SaveV2RaySubscription \/ DeleteV2RaySubscription \/ SelectSubscription
           \/ SaveWhiteVPNSettings \/ ResetWhiteVPNSettings
  BY <1>2, SourcesAreSaved
  DEF SaveV2RaySubscription, DeleteV2RaySubscription, SelectSubscription,
      SaveWhiteVPNSettings, ResetWhiteVPNSettings, aside, still
<1>3. CASE ImportLegacyProfiles
  BY <1>3, LegacyIsSaved DEF ImportLegacyProfiles
<1>4. CASE ResetAppData
  BY <1>4, ResetIsSaved DEF ResetAppData
<1>5. CASE ReadPage \/ ExportBackup \/ ResetCheck \/ SetRuntime \/ UNCHANGED vars
  BY <1>5 DEF ReadPage, ExportBackup, ResetCheck, SetRuntime, vars
<1> QED
  BY <1>1, <1>2, <1>3, <1>4, <1>5 DEF Next, Removals

-----------------------------------------------------------------------------
(* Types, what is chosen, and what a start brings back.                       *)

Readable(file) == file \notin {None, Broken}

LEMMA ValidIsReadable == ASSUME NEW s, Valid(s) PROVE Readable(s)
BY OldAssumption DEF Valid, Readable

LEMMA LoadedIsValid ==
    ASSUME NEW file, Readable(file) => Valid(file)
    PROVE  LET s == Loaded(file) IN
           /\ Valid(s) /\ Settled(s) /\ Normal(s)
           /\ Readable(file) => Ids(s) = Ids(file)
BY DefaultIsValid, NormalizedIsValid DEF Loaded, Readable, Ids

\* A start in which nothing fails has in memory what the next would read from the disk.
LEMMA StartIsValid ==
    ASSUME NEW file, Readable(file) => Valid(file), NEW present, present \subseteq Paths,
           Unfiled(Loaded(file)) => present # Paths, NEW start \in Starts(file, present)
    PROVE  /\ Valid(start.mem) /\ NoHome(start.mem) /\ start.mem.resolver # Text
           /\ start.mem.chosen \in Ids(start.mem) \cup {None} \/ Of(start.mem.chosen, Home)
           /\ start.disk = file \/ (Valid(start.disk) /\ Settled(start.disk)
                                    /\ (Readable(file) => Ids(start.disk) = Ids(file)))
           /\ start.files \subseteq Paths /\ start.standing \in {"saved", "ahead", "unread"}
           /\ start.standing = "saved" => Opened(Loaded(start.disk)) = start.mem
           /\ WithAllRow(start.mem) = start.mem
           /\ start.standing # "unread" /\ Readable(file) => NotHome(file) \subseteq Ids(start.mem)
<1> DEFINE s == Loaded(file)
           filed == Filed(s, present)
           more == present \cup {FreshPath(present)}
<1>1. Valid(s) /\ Settled(s) /\ Normal(s) /\ (Readable(file) => Ids(s) = Ids(file))
  BY LoadedIsValid
<1>2. /\ Valid(filed) /\ Settled(filed) /\ Normal(filed) /\ ~Unfiled(filed)
      /\ Ids(filed) = Ids(s) /\ (~Unfiled(s) => filed = s)
  BY <1>1, FiledIsValid DEF Ids, Filed
<1>3. Opened(Loaded(filed)) = Opened(filed)
  BY <1>2, ValidIsReadable DEF Loaded, Readable, Normal
<1>4. ASSUME NEW t, Valid(t), Settled(t), ~Unfiled(t)
      PROVE  /\ Valid(Opened(t)) /\ NoHome(Opened(t)) /\ Opened(t).resolver # Text
             /\ Opened(t).chosen \in Ids(Opened(t)) \cup {None} \/ Of(Opened(t).chosen, Home)
  BY <1>4, OpenedIsValid DEF Settled, Unfiled
<1>5. Valid(Default) /\ Settled(Default) /\ ~Unfiled(Default)
  BY DefaultIsValid, StoredStateAssumption DEF Unfiled, Default
<1>6. IF Unfiled(s)
      THEN \/ /\ start.mem = Opened(filed) /\ start.disk = filed /\ start.files = more
              /\ start.standing = "saved"
           \/ /\ start.mem = Opened(filed) /\ start.disk = file /\ start.files = more
              /\ start.standing = "ahead"
           \/ /\ start.mem = Opened(Default) /\ start.disk = file /\ start.files = present
              /\ start.standing = "unread"
      ELSE /\ start.mem = Opened(filed) /\ start.disk = file /\ start.files = present
           /\ start.standing = "saved"
  BY StartsAre
<1>7. Unfiled(s) => more \subseteq Paths
  BY DEF FreshPath
<1>10. \A t : Valid(t) => WithAllRow(Opened(t)) = Opened(t)
  BY OpenedIsValid
<1>11. Readable(file) => NotHome(file) \subseteq Ids(Opened(filed))
  BY <1>1, <1>2, OpenedIsValid DEF NotHome
<1> HIDE DEF s, filed, more
<1>8. /\ start.mem \in {Opened(filed), Opened(Default)}
      /\ start.standing \in {"saved", "ahead", "unread"}
      /\ start.disk \in {file, filed} /\ start.files \subseteq Paths
      /\ start.standing # "unread" => start.mem = Opened(filed)
  BY <1>6, <1>7
<1>9. start.standing = "saved" => Opened(Loaded(start.disk)) = start.mem
  BY <1>2, <1>3, <1>6 DEF s
<1> QED
  BY <1>1, <1>2, <1>4, <1>5, <1>8, <1>9, <1>10, <1>11

\* What of the disk is not of the catalogue is in memory, unless memory was changed and not saved.
DInv == standing = "saved" /\ Readable(disk) => NotHome(disk) \subseteq Ids(mem)

IInv == TInv /\ NInv /\ DInv

\* What a backup may read of the copied configs is a list of configs, nothing twice.
LEMMA TornIsValid ==
    ASSUME TInv, copy # None, NEW configs \in TornConfigs
    PROVE  configs \in Seq(Configs) /\ IsInjective(configs)
<1> DEFINE left == Keeping(copy.configs, Ids(mem))
<1>1. copy.configs \in Seq(Configs) /\ IsInjective(copy.configs)
  BY DEF TInv, Valid, States
<1>2. left \in Seq(Configs) /\ IsInjective(left) /\ ToSet(left) \subseteq Ids(mem)
  BY <1>1, KeepingIs
<1>3. \/ configs = copy.configs
      \/ \E blank \in Configs \ (Ids(copy) \cup Ids(mem)) : configs = Append(left, blank)
  BY DEF TornConfigs
<1> HIDE DEF left
<1>4. ASSUME NEW blank \in Configs \ Ids(mem)
      PROVE  Append(left, blank) \in Seq(Configs) /\ IsInjective(Append(left, blank))
  BY <1>2, AppendedConfigs
<1> QED
  BY <1>1, <1>3, <1>4

\* What writing a backup makes of memory, and what it writes.
LEMMA WrittenBackup ==
    ASSUME TInv, WriteBackup
    PROVE  /\ Valid(mem') /\ Ids(mem') = Ids(mem) /\ mem'.chosen = mem.chosen
           /\ mem'.resolver = mem.resolver /\ disk' = disk /\ files' = files
           /\ standing' \in {"saved", "ahead", "unread"}
           /\ standing' = "saved" => standing = "saved" /\ mem' = mem
           /\ backup' = backup \/ (Valid(backup') /\ Settled(backup'))
<1>1. PICK shared \in BOOLEAN, rows \in {copy.rows, copy.rows \cap mem.rows},
           configs \in TornConfigs :
         LET next == Normalized(Torn(shared, rows, configs))
         IN  /\ backup' = IF next.resolver \in Paths \ files THEN backup
                          ELSE [next EXCEPT !.resolver = IF @ \in Paths THEN Text ELSE @]
             /\ mem' = IF shared THEN [mem EXCEPT !.parked = next.parked] ELSE mem
  BY DEF WriteBackup
<1> DEFINE read == Torn(shared, rows, configs)
           next == Normalized(read)
           written == [next EXCEPT !.resolver = IF @ \in Paths THEN Text ELSE @]
<1>2. /\ backup' \in {backup, written}
      /\ mem' = IF shared THEN [mem EXCEPT !.parked = next.parked] ELSE mem
  BY <1>1
<1>3. Valid(read)
  <2>1. configs \in Seq(Configs) /\ IsInjective(configs)
    BY TornIsValid DEF WriteBackup
  <2>2. Valid(copy) /\ Valid(mem)
    BY DEF WriteBackup, TInv
  <2>3. rows \in SUBSET (Lists \cup {All})
    BY <2>2 DEF Valid, States
  <2> QED
    BY <2>1, <2>2, <2>3 DEF Torn, Valid, States
<1> HIDE DEF read
<1>4. Valid(next) /\ Settled(next)
  BY <1>3, NormalizedIsValid
<1> HIDE DEF next
<1>5. Valid(written) /\ Settled(written)
  BY <1>4 DEF Valid, Settled, States, Ids
<1> HIDE DEF written
<1>6. /\ Valid(mem') /\ Ids(mem') = Ids(mem) /\ mem'.chosen = mem.chosen
      /\ mem'.resolver = mem.resolver
  BY <1>2, <1>4 DEF TInv, Valid, States, Ids
<1> QED
  BY <1>2, <1>5, <1>6 DEF WriteBackup, Behind, TInv

\* What a step may do to the rest.
LEMMA StepAside ==
    ASSUME TInv, [Next]_vars
    PROVE  /\ runtime' \in {"off", "connecting", "on"} /\ reset' \in {"off", "checked", "removed"}
           /\ offer' \in BOOLEAN /\ spoiled' \in BOOLEAN /\ acts' \in 0 .. MaxActs
           /\ page' \in {page, PageOf(mem), PageOf(mem')} /\ copy' \in {None, copy, mem}
           /\ strayed' \in BOOLEAN
<1>1. CASE Acts /\ UNCHANGED aside
  BY <1>1, StoredStateAssumption DEF TInv, Acts, aside, still
<1>2. CASE \/ SaveV2RayProfile \/ ImportV2RayProfiles \/ DeleteV2RayProfiles
           \/ DeleteDuplicateV2RayProfiles \/ SelectV2RayProfile \/ ReorderV2RayProfiles
           \/ RefreshV2RaySubscription \/ SaveV2RaySubscription \/ DeleteV2RaySubscription
           \/ SelectSubscription \/ ResetWhiteVPNSettings \/ ImportBackup
  <2>1. Acts /\ UNCHANGED aside
    BY <1>2, Zenon
    DEF SaveV2RayProfile, ImportV2RayProfiles, DeleteV2RayProfiles, DeleteDuplicateV2RayProfiles,
        SelectV2RayProfile, ReorderV2RayProfiles, RefreshV2RaySubscription, SaveV2RaySubscription,
        DeleteV2RaySubscription, SelectSubscription, ResetWhiteVPNSettings,
        ImportBackup
  <2> QED
    BY <1>1, <2>1
<1>3. CASE ImportLegacyProfiles
  <2>1. Acts /\ offer' = FALSE /\ UNCHANGED <<backup, copy, page, runtime, reset, strayed, spoiled>>
    BY <1>3 DEF ImportLegacyProfiles
  <2>2. offer' \in BOOLEAN
    BY <2>1, Zenon
  <2> QED
    BY <2>1, <2>2, StoredStateAssumption DEF TInv, Acts
<1>4. CASE ResetAppData
  BY <1>4 DEF ResetAppData, TInv
<1>5. CASE RemoveConfigDirContents
  BY <1>5 DEF RemoveConfigDirContents, TInv
<1>6. CASE ReadPage \/ SetRuntime \/ ResetCheck \/ UNCHANGED vars
  BY <1>6, StoredStateAssumption DEF ReadPage, SetRuntime, ResetCheck, TInv, Acts, vars
<1>7. CASE Restart
  <2>1. strayed' \in BOOLEAN
    BY <1>7, Zenon DEF Restart
  <2> QED
    BY <1>7, <2>1, StoredStateAssumption DEF Restart, TInv, Acts
<1>8. CASE ExportBackup
  BY <1>8, StoredStateAssumption DEF ExportBackup, TInv, Acts
<1>9. CASE SaveWhiteVPNSettings
  <2>1. Acts /\ UNCHANGED still
    BY <1>9, Zenon DEF SaveWhiteVPNSettings
  <2>2. strayed' \in BOOLEAN
    BY <1>9, Zenon DEF SaveWhiteVPNSettings
  <2> QED
    BY <2>1, <2>2, StoredStateAssumption DEF TInv, Acts, still
<1>10. CASE WriteBackup
  <2>1. strayed' \in BOOLEAN
    BY <1>10, Zenon DEF WriteBackup
  <2> QED
    BY <1>10, <2>1 DEF WriteBackup, TInv
<1> QED
  BY <1>2, <1>3, <1>4, <1>5, <1>6, <1>7, <1>8, <1>9, <1>10 DEF Next, Removals

\* What a step may do to what is stored.
LEMMA StepStores ==
    ASSUME IInv, [Next]_vars
    PROVE  /\ Valid(mem') /\ NoHome(mem') /\ mem'.resolver # Text
           /\ mem'.chosen \in Ids(mem') \cup {None} \/ Of(mem'.chosen, Home)
           /\ disk' \in {None, disk} \/ (Valid(disk') /\ Settled(disk'))
           /\ files' \subseteq Paths /\ standing' \in {"saved", "ahead", "unread"} /\ DInv'
           /\ backup' = backup \/ (Valid(backup') /\ Settled(backup'))
<1> USE DEF IInv
<1>1. CASE Saving /\ UNCHANGED backup
  <2>1. PICK s : Save(s) /\ Valid(s) /\ NoHome(s) /\ s.resolver # Text
    BY <1>1 DEF Saving, Sound
  <2>2. /\ Valid(mem') /\ Settled(mem') /\ NoHome(mem') /\ mem'.resolver # Text
        /\ files' \subseteq Paths /\ standing' \in {"saved", "ahead", "unread"}
        /\ disk' \in {disk, mem'} /\ (standing' = "saved" => disk' = mem')
    BY <2>1, SaveLeaves
  <2>3. UNCHANGED backup
    BY <1>1
  <2> QED
    BY <2>2, <2>3 DEF DInv, Settled, NotHome
<1>2. CASE UNCHANGED <<mem, disk, files, standing, backup>>
  BY <1>2 DEF TInv, NInv, DInv, Readable, NotHome, Ids
<1>3. CASE Restart
  <2>1. PICK start \in Starts(disk, files) :
           /\ mem' = start.mem /\ disk' = start.disk /\ files' = start.files
           /\ standing' = start.standing
    BY <1>3 DEF Restart
  <2>2. (Readable(disk) => Valid(disk)) /\ (Unfiled(Loaded(disk)) => files # Paths)
    BY <1>3 DEF Restart, Room, TInv, Readable
  <2>3. /\ Valid(mem') /\ NoHome(mem') /\ mem'.resolver # Text
        /\ mem'.chosen \in Ids(mem') \cup {None} \/ Of(mem'.chosen, Home)
        /\ disk' = disk \/ (Valid(disk') /\ Settled(disk'))
        /\ files' \subseteq Paths /\ standing' \in {"saved", "ahead", "unread"}
        /\ standing' = "saved" => Opened(Loaded(disk')) = mem'
    BY <2>1, <2>2, StartIsValid DEF TInv
  <2>4. Readable(disk') => Valid(disk')
    BY <2>2, <2>3 DEF Readable
  <2>5. /\ Valid(Loaded(disk')) /\ (Readable(disk') => Ids(Loaded(disk')) = Ids(disk'))
    BY <2>4, LoadedIsValid
  <2>6. Ids(Opened(Loaded(disk'))) = {c \in Ids(Loaded(disk')) : ~Of(c, Home)}
    BY <2>5, OpenedIsValid
  <2>7. DInv'
    BY <2>3, <2>5, <2>6 DEF DInv, Readable, NotHome
  <2> QED
    BY <1>3, <2>3, <2>7 DEF Restart
<1>4. CASE ImportBackup
  <2>1. CASE files' \in {files, Written(backup)} /\ UNCHANGED <<mem, disk, standing>>
    <3>1. files' \subseteq Paths
      BY <1>4, <2>1 DEF ImportBackup, Room, Written, FreshPath, TInv
    <3> QED
      BY <1>4, <2>1, <3>1 DEF ImportBackup, aside, still, TInv, NInv, DInv, Readable, NotHome, Ids
  <2>2. CASE /\ disk' = Normalized(Restored(backup, files)) /\ files' = Written(backup)
             /\ mem' = WithoutCatalogue(disk') /\ standing' = "saved"
    <3>1. Valid(backup) /\ (Unfiled(backup) => files # Paths /\ files \subseteq Paths)
      BY <1>4 DEF ImportBackup, Room, TInv
    <3>2. Valid(Restored(backup, files)) /\ ~Unfiled(Restored(backup, files))
      BY <3>1, FiledIsValid DEF Restored
    <3>3. Valid(disk') /\ Settled(disk') /\ disk'.resolver # Text
      BY <2>2, <3>2, NormalizedIsValid DEF Unfiled
    <3>4. /\ Valid(mem') /\ NoHome(mem') /\ Ids(mem') = {c \in Ids(disk') : ~Of(c, Home)}
          /\ mem'.chosen = disk'.chosen /\ mem'.resolver = disk'.resolver
      BY <2>2, <3>3, WithoutCatalogueIsValid
    <3>5. files' \subseteq Paths
      BY <2>2, <3>1 DEF Written, FreshPath, TInv
    <3>6. DInv'
      BY <3>4 DEF DInv, NotHome
    <3> QED
      BY <1>4, <2>2, <3>3, <3>4, <3>5, <3>6 DEF Settled, ImportBackup, aside, still
  <2> QED
    BY <1>4, <2>1, <2>2 DEF ImportBackup
<1>5. CASE RemoveConfigDirContents
  BY <1>5 DEF RemoveConfigDirContents, Behind, TInv, NInv, DInv
<1>6. CASE WriteBackup
  <2>1. NoHome(mem') /\ (mem'.chosen \in Ids(mem') \cup {None} \/ Of(mem'.chosen, Home))
    BY <1>6, WrittenBackup DEF NInv, NoHome
  <2>2. DInv'
    BY <1>6, WrittenBackup DEF DInv, NotHome, Ids
  <2>3. Valid(mem') /\ mem'.resolver # Text /\ files' \subseteq Paths
    BY <1>6, WrittenBackup DEF TInv
  <2> QED
    BY <1>6, <2>1, <2>2, <2>3, WrittenBackup
<1> QED
  BY <1>1, <1>2, <1>3, <1>4, <1>5, <1>6, StepKinds

LEMMA PageOfIsTyped ==
    ASSUME NEW s, Valid(s)
    PROVE  /\ PageOf(s).ids \in Seq(Configs) /\ IsInjective(PageOf(s).ids)
           /\ PageOf(s) \in [ids : Seq(Configs), of : Sources, choice : Sources \cup {Automatic}]
BY DEF PageOf, Valid, States

LEMMA IInvNext ==
    ASSUME IInv, [Next]_vars
    PROVE  IInv'
<1>1. /\ Valid(mem') /\ NoHome(mem') /\ mem'.resolver # Text
      /\ mem'.chosen \in Ids(mem') \cup {None} \/ Of(mem'.chosen, Home)
      /\ disk' \in {None, disk} \/ (Valid(disk') /\ Settled(disk'))
      /\ files' \subseteq Paths /\ standing' \in {"saved", "ahead", "unread"} /\ DInv'
      /\ backup' = backup \/ (Valid(backup') /\ Settled(backup'))
  BY StepStores
<1>2. /\ runtime' \in {"off", "connecting", "on"} /\ reset' \in {"off", "checked", "removed"}
      /\ offer' \in BOOLEAN /\ spoiled' \in BOOLEAN /\ acts' \in 0 .. MaxActs
      /\ page' \in {page, PageOf(mem), PageOf(mem')} /\ copy' \in {None, copy, mem}
      /\ strayed' \in BOOLEAN
  BY StepAside DEF IInv
<1>3. /\ page'.ids \in Seq(Configs) /\ IsInjective(page'.ids)
      /\ page' \in [ids : Seq(Configs), of : Sources, choice : Sources \cup {Automatic}]
  <2>1. Valid(mem)
    BY DEF IInv, TInv
  <2> QED
    BY <1>1, <1>2, <2>1, PageOfIsTyped DEF IInv, TInv
<1>5. TInv'
  BY <1>1, <1>2, <1>3 DEF IInv, TInv
<1>6. \A s \in SavedStates' : Settled(s)
  BY <1>1, <1>2 DEF IInv, NInv, SavedStates
<1> QED
  BY <1>1, <1>5, <1>6 DEF IInv, NInv

LEMMA IInvInit ==
    ASSUME Init
    PROVE  IInv
<1>0. PICK file \in {None, Broken, Old} :
         \E start \in Starts(file, {}) :
            /\ mem = start.mem /\ disk = start.disk /\ files = start.files /\ standing = start.standing
            /\ strayed = start.strays
  BY DEF Init
<1>1. PICK start \in Starts(file, {}) :
         /\ mem = start.mem /\ disk = start.disk /\ files = start.files /\ standing = start.standing
         /\ strayed = start.strays
  BY <1>0
<1>2. (Readable(file) => Valid(file)) /\ {} \subseteq Paths /\ {} # Paths
  BY OldAssumption, StoredStateAssumption DEF Readable, Valid
<1>3. /\ Valid(mem) /\ NoHome(mem) /\ mem.resolver # Text
      /\ mem.chosen \in Ids(mem) \cup {None} \/ Of(mem.chosen, Home)
      /\ disk = file \/ (Valid(disk) /\ Settled(disk))
      /\ files \subseteq Paths /\ standing \in {"saved", "ahead", "unread"}
      /\ standing = "saved" => Opened(Loaded(disk)) = mem
      /\ WithAllRow(mem) = mem
  BY <1>1, <1>2, StartIsValid
<1>4. Readable(disk) => Valid(disk)
  BY <1>2, <1>3 DEF Readable
<1>5. Valid(Loaded(disk)) /\ (Readable(disk) => Ids(Loaded(disk)) = Ids(disk))
  BY <1>4, LoadedIsValid
<1>6. DInv
  BY <1>3, <1>5, OpenedIsValid DEF DInv, NotHome
<1>7. /\ page.ids \in Seq(Configs) /\ IsInjective(page.ids)
      /\ page \in [ids : Seq(Configs), of : Sources, choice : Sources \cup {Automatic}]
  BY <1>3, PageOfIsTyped DEF Init
<1>8. TInv
  <2>1. /\ runtime \in {"off", "connecting", "on"} /\ reset \in {"off", "checked", "removed"}
        /\ spoiled = FALSE /\ acts \in 0 .. MaxActs /\ backup = None /\ copy = None
    BY StoredStateAssumption DEF Init
  <2>3. offer \in BOOLEAN /\ strayed \in BOOLEAN
    BY <1>1, StraysIsBoolean DEF Init
  <2>2. disk \in {None, Broken} \/ Valid(disk)
    BY <1>4 DEF Readable
  <2> QED
    BY <1>3, <1>7, <2>1, <2>2, <2>3 DEF TInv
<1>9. \A s \in SavedStates : Settled(s)
  BY <1>2, <1>3 DEF Init, SavedStates, Readable
<1> QED
  BY <1>3, <1>6, <1>8, <1>9 DEF IInv, NInv

LEMMA Invariance == Spec => []IInv
<1>1. Init => IInv
  BY IInvInit
<1>2. IInv /\ [Next]_vars => IInv'
  BY IInvNext
<1> QED
  BY <1>1, <1>2, PTL DEF Spec

\* What a state names is there, whatever is removed, restored or reset, whichever write
\* fails and wherever the app dies: the config that is chosen, and the file of its
\* resolvers (StoredState!WhatIsNamedExists).
THEOREM NamedExists == Spec => []WhatIsNamedExists
<1>1. IInv => TypeOK /\ ChosenExists
  <2> SUFFICES ASSUME IInv PROVE TypeOK /\ ChosenExists
    OBVIOUS
  <2>1. TypeOK
    BY DEF IInv, TInv, TypeOK, Valid
  <2>2. ChosenExists
    BY DEF IInv, NInv, ChosenExists, Settled
  <2> QED
    BY <2>1, <2>2
<1> QED
  BY <1>1, Invariance, FilesAreThere, PTL DEF WhatIsNamedExists

-----------------------------------------------------------------------------
(* What a start brings back.                                                  *)

\* Nothing of what a save left is corrected by a start, but for the row All.
LEMMA SavedStays ==
    ASSUME NEW s, Valid(s), Normal(s)
    PROVE  /\ Opened(Loaded(s)) = WithAllRow(WithoutCatalogue(s))
           /\ NoHome(s) => WithoutCatalogue(s) = s
<1>1. Loaded(s) = s
  BY ValidIsReadable DEF Loaded, Readable, Normal
<1> QED
  BY <1>1, WithoutCatalogueIsValid DEF Opened

LEMMA RestartNext ==
    ASSUME IInv, RestartChangesNothing, [Next]_vars
    PROVE  RestartChangesNothing'
<1> USE DEF IInv
<1>1. CASE Saving
  <2>1. PICK s : Save(s) /\ Valid(s) /\ NoHome(s) /\ s.resolver # Text
    BY <1>1 DEF Saving, Sound
  <2>2. Valid(mem') /\ NoHome(mem') /\ (standing' = "saved" => disk' = mem' /\ Normal(mem'))
    BY <2>1, SaveLeaves
  <2> QED
    BY <2>2, SavedStays DEF RestartChangesNothing
<1>2. CASE UNCHANGED <<mem, disk, files, standing>>
  BY <1>2 DEF RestartChangesNothing
<1>3. CASE Restart
  <2>1. PICK start \in Starts(disk, files) :
           mem' = start.mem /\ disk' = start.disk /\ standing' = start.standing
    BY <1>3 DEF Restart
  <2>2. (Readable(disk) => Valid(disk)) /\ (Unfiled(Loaded(disk)) => files # Paths)
    BY <1>3 DEF Restart, Room, TInv, Readable
  <2>3. /\ start.standing = "saved" => Opened(Loaded(start.disk)) = start.mem
        /\ WithAllRow(start.mem) = start.mem
    BY <2>2, StartIsValid DEF TInv
  <2> QED
    BY <2>1, <2>3 DEF RestartChangesNothing
<1>4. CASE ImportBackup
  <2>1. CASE UNCHANGED <<mem, disk, standing>>
    BY <2>1 DEF RestartChangesNothing
  <2>2. CASE /\ disk' = Normalized(Restored(backup, files)) /\ mem' = WithoutCatalogue(disk')
    <3>1. Valid(backup) /\ (Unfiled(backup) => files # Paths /\ files \subseteq Paths)
      BY <1>4 DEF ImportBackup, Room, TInv
    <3>2. Valid(Restored(backup, files))
      BY <3>1, FiledIsValid DEF Restored
    <3>3. Valid(disk') /\ Normal(disk')
      BY <2>2, <3>2, NormalizedIsValid
    <3> QED
      BY <2>2, <3>3, SavedStays DEF RestartChangesNothing
  <2> QED
    BY <1>4, <2>1, <2>2 DEF ImportBackup
<1>5. CASE RemoveConfigDirContents
  BY <1>5 DEF RemoveConfigDirContents, Behind, RestartChangesNothing
<1>6. CASE WriteBackup
  BY <1>6, WrittenBackup DEF RestartChangesNothing
<1> QED
  BY <1>1, <1>2, <1>3, <1>4, <1>5, <1>6, StepKinds

LEMMA RestartInit ==
    ASSUME Init
    PROVE  RestartChangesNothing
<1>1. PICK file \in {None, Broken, Old} :
         \E start \in Starts(file, {}) : mem = start.mem /\ disk = start.disk /\ standing = start.standing
  BY DEF Init
<1>2. PICK start \in Starts(file, {}) : mem = start.mem /\ disk = start.disk /\ standing = start.standing
  BY <1>1
<1>3. (Readable(file) => Valid(file)) /\ {} \subseteq Paths /\ {} # Paths
  BY OldAssumption, StoredStateAssumption DEF Readable, Valid
<1>4. /\ start.standing = "saved" => Opened(Loaded(start.disk)) = start.mem
      /\ WithAllRow(start.mem) = start.mem
  BY <1>3, StartIsValid
<1> QED
  BY <1>2, <1>4 DEF RestartChangesNothing

\* A start brings back what was in memory when the last save succeeded, but for the row All that it
\* adds or takes away, and one after a start the same again: nothing that NormalizeState, the
\* forgetting of the catalogue or the moving of a resolver list does is left for the next time
\* (StoredState!RestartChangesNothing).
THEOREM RestartBringsBack == Spec => []RestartChangesNothing
<1>1. Init => RestartChangesNothing
  BY RestartInit
<1>2. IInv /\ RestartChangesNothing /\ [Next]_vars => RestartChangesNothing'
  BY RestartNext
<1> QED
  BY <1>1, <1>2, Invariance, PTL DEF Spec

-----------------------------------------------------------------------------
(* What goes.                                                                 *)

LEMMA Least ==
    ASSUME NEW n \in Nat, NEW places \in SUBSET (1 .. n), places # {}
    PROVE  \E p \in places : \A q \in places : p <= q
<1> SUFFICES ASSUME ~ \E p \in places : \A q \in places : p <= q PROVE FALSE
  OBVIOUS
<1> DEFINE H == {i \in 0 .. n : \A q \in places : q > i}
<1>1. 0 \in H
  OBVIOUS
<1>2. ASSUME NEW i \in 0 .. n - 1, i \in H PROVE i + 1 \in H
  <2>1. \A q \in places : q >= i + 1
    BY <1>2
  <2>2. i + 1 \notin places
    BY <2>1
  <2> QED
    BY <2>1, <2>2
<1>3. 0 .. n \subseteq H
  <2> HIDE DEF H
  <2> QED
    BY <1>1, <1>2, UpTo
<1>4. n \in 0 .. n
  OBVIOUS
<1>5. n \in H
  BY <1>3, <1>4
<1>6. \A q \in places : q > n
  BY <1>5
<1>7. PICK q \in places : q \in 1 .. n
  OBVIOUS
<1> QED
  BY <1>6, <1>7

LEMMA PositionIs ==
    ASSUME TInv, NEW c \in Ids(mem)
    PROVE  Position(mem, c) \in 1 .. Len(mem.configs) /\ mem.configs[Position(mem, c)] = c
<1>1. DOMAIN mem.configs = 1 .. Len(mem.configs)
  BY MemConfigs
<1>2. \E i \in DOMAIN mem.configs : mem.configs[i] = c
  BY DEF Ids, ToSet
<1> QED
  BY <1>1, <1>2 DEF Position

\* One of every server is kept.
LEMMA OneIsKept ==
    ASSUME TInv, NEW c \in Ids(mem)
    PROVE  \E d \in Ids(mem) : Key[d] = Key[c] /\ IsKept(mem, d)
<1>1. CASE Key[c] = None
  BY <1>1 DEF IsKept
<1>2. CASE mem.chosen \in SameServer(mem, c)
  BY <1>2 DEF IsKept, SameServer
<1>3. CASE mem.chosen \notin SameServer(mem, c)
  <2> DEFINE same == SameServer(mem, c)
             places == {Position(mem, d) : d \in same}
  <2>1. same \subseteq Ids(mem) /\ c \in same /\ \A d \in same : SameServer(mem, d) = same
    BY DEF SameServer
  <2>2. Len(mem.configs) \in Nat
    BY MemConfigs
  <2> HIDE DEF same
  <2>3. places \in SUBSET (1 .. Len(mem.configs)) /\ places # {}
    BY <2>1, PositionIs
  <2>4. PICK p \in places : \A q \in places : p <= q
    <3> HIDE DEF places
    <3> QED
      BY <2>2, <2>3, Least
  <2>5. PICK d \in same : p = Position(mem, d)
    OBVIOUS
  <2>6. \A e \in same : Position(mem, d) <= Position(mem, e)
    BY <2>4, <2>5
  <2>7. SameServer(mem, d) = same /\ d \in Ids(mem)
    BY <2>1, <2>5
  <2>8. mem.chosen \notin same
    BY <1>3 DEF same
  <2>9. IsKept(mem, d)
    BY <2>6, <2>7, <2>8 DEF IsKept
  <2>10. Key[d] = Key[c]
    BY <2>5 DEF same, SameServer
  <2> QED
    BY <2>7, <2>9, <2>10
<1> QED
  BY <1>1, <1>2, <1>3

\* Not two of one server are kept.
LEMMA OnlyOneIsKept ==
    ASSUME TInv, NEW c \in Ids(mem), NEW d \in Ids(mem), IsKept(mem, c), IsKept(mem, d),
           Key[c] = Key[d], Key[c] # None
    PROVE  c = d
<1>1. c \in SameServer(mem, d) /\ d \in SameServer(mem, c)
  BY DEF SameServer
<1>2. CASE c = mem.chosen \/ d = mem.chosen
  BY <1>1, <1>2 DEF IsKept
<1>3. CASE c # mem.chosen /\ d # mem.chosen
  <2>1. Position(mem, c) <= Position(mem, d) /\ Position(mem, d) <= Position(mem, c)
    BY <1>1, <1>3 DEF IsKept
  <2> QED
    BY <2>1, PositionIs
<1> QED
  BY <1>2, <1>3

LEMMA DuplicatesStep ==
    ASSUME IInv, DeleteDuplicateV2RayProfiles
    PROVE  /\ Servers(mem') = Servers(mem)
           /\ mem.chosen \in Ids(mem) => mem'.chosen = mem.chosen
           /\ \A c, d \in Ids(mem') : Key[c] = Key[d] /\ Key[c] # None => c = d
<1> DEFINE kept == {c \in Ids(mem) : IsKept(mem, c)}
           configs == Keeping(mem.configs, kept)
           s == Holding(configs, mem.chosen)
<1>1. TInv /\ NoHome(mem) /\ mem.resolver # Text
  BY DEF IInv, NInv, TInv
<1>2. Save(s)
  BY DEF DeleteDuplicateV2RayProfiles
<1>3. configs \in Seq(Configs) /\ IsInjective(configs) /\ ToSet(configs) = kept
  <2>1. kept \subseteq Ids(mem)
    OBVIOUS
  <2> HIDE DEF kept
  <2> QED
    BY <1>1, <2>1, KeptConfigs
<1> HIDE DEF configs
<1>4. Valid(s) /\ s.resolver # Text /\ s.chosen = mem.chosen /\ Ids(s) = kept
  BY <1>1, <1>3, HoldingIsValid, MemConfigs
<1> HIDE DEF s
<1>5. Ids(mem') = kept /\ (mem.chosen \in kept => mem'.chosen = mem.chosen)
  BY <1>1, <1>2, <1>4, SaveLeaves DEF NoHome
<1>6. Servers(mem') = Servers(mem)
  BY <1>1, <1>5, OneIsKept DEF Servers
<1>7. mem.chosen \in Ids(mem) => mem.chosen \in kept
  BY DEF IsKept
<1>8. \A c, d \in Ids(mem') : Key[c] = Key[d] /\ Key[c] # None => c = d
  BY <1>1, <1>5, OnlyOneIsKept
<1> QED
  BY <1>5, <1>6, <1>7, <1>8

Asked ==
    /\ Ids(mem) \subseteq Ids(mem') \/ Removals \/ Restart
    /\ disk \notin {None, Broken} =>
          /\ NotHome(disk) \subseteq Ids(mem') \/ ~Restart \/ standing' = "unread"
          /\ disk' # None => NotHome(disk) \subseteq Ids(disk') \/ Removals \/ standing # "saved"

\* A step that is no start and removes nothing keeps what is in memory, and puts no less on disk.
LEMMA KeepsStep ==
    ASSUME IInv, [Next]_vars, ~Removals, ~Restart
    PROVE  Ids(mem) \subseteq Ids(mem') /\ disk' \in {disk, mem'}
<1> USE DEF IInv
<1>1. CASE Saving
  <2>1. PICK s : Save(s) /\ Sound(s)
    BY <1>1 DEF Saving
  <2> QED
    BY <2>1, SaveLeaves DEF Sound
<1>2. CASE UNCHANGED <<mem, disk, files, standing>>
  BY <1>2 DEF Ids
<1>3. CASE WriteBackup
  BY <1>3, WrittenBackup
<1> QED
  BY <1>1, <1>2, <1>3, StepKinds DEF Removals

\* A start takes all there is on disk, unless it could not use the file, and leaves it there.
LEMMA StartTakesAll ==
    ASSUME IInv, Restart, Readable(disk)
    PROVE  /\ standing' # "unread" => NotHome(disk) \subseteq Ids(mem')
           /\ disk' = disk \/ Ids(disk') = Ids(disk)
<1> USE DEF IInv
<1>1. PICK start \in Starts(disk, files) :
         mem' = start.mem /\ disk' = start.disk /\ standing' = start.standing
  BY DEF Restart
<1>2. Valid(disk) /\ (Unfiled(Loaded(disk)) => files # Paths)
  BY DEF Restart, Room, TInv, Readable
<1>3. /\ start.standing # "unread" => NotHome(disk) \subseteq Ids(start.mem)
      /\ start.disk = disk \/ Ids(start.disk) = Ids(disk)
  BY <1>2, StartIsValid DEF TInv
<1> QED
  BY <1>1, <1>3

LEMMA LossStep ==
    ASSUME IInv, [Next]_vars
    PROVE  Asked
<1>1. ASSUME Readable(disk), standing = "saved"
      PROVE  NotHome(disk) \subseteq Ids(mem)
  BY <1>1 DEF IInv, DInv
<1>2. NotHome(disk) \subseteq Ids(disk)
  BY DEF NotHome
<1>3. CASE Removals
  BY <1>3, StartTakesAll DEF Asked, Readable
<1>4. CASE Restart
  BY <1>2, <1>4, StartTakesAll DEF Asked, Readable
<1>5. CASE ~Removals /\ ~Restart
  <2>1. Ids(mem) \subseteq Ids(mem') /\ (disk' = disk \/ disk' = mem')
    BY <1>5, KeepsStep
  <2>2. CASE disk' = disk
    BY <1>2, <1>5, <2>1, <2>2 DEF Asked, Readable, Ids
  <2>3. CASE disk' = mem'
    BY <1>1, <1>5, <2>1, <2>3 DEF Asked, Readable
  <2> QED
    BY <2>1, <2>2, <2>3
<1> QED
  BY <1>3, <1>4, <1>5

LEMMA ChoiceStep ==
    ASSUME IInv, [Next]_vars, Locked, runtime' = runtime, mem.chosen \in Ids(mem'), ~ResetAppData
    PROVE  mem'.chosen = mem.chosen
<1> USE DEF IInv
<1>1. CASE Saving
  <2>1. PICK s : Save(s) /\ Sound(s)
    BY <1>1 DEF Saving
  <2>2. s.chosen = mem.chosen /\ Ids(mem') = Ids(s)
        /\ (s.chosen \in Ids(s) => mem'.chosen = s.chosen)
    BY <2>1, SaveLeaves DEF Sound
  <2> QED
    BY <2>2
<1>2. CASE UNCHANGED <<mem, disk, files, standing>>
  BY <1>2
<1>3. CASE Restart \/ ImportBackup
  BY <1>3 DEF Restart, ImportBackup, Locked
<1>4. CASE RemoveConfigDirContents
  BY <1>4 DEF RemoveConfigDirContents
<1>5. CASE WriteBackup
  BY <1>5, WrittenBackup
<1> QED
  BY <1>1, <1>2, <1>3, <1>4, <1>5, StepKinds

\* Nothing goes that the user did not ask to go: what removes duplicates leaves one of every
\* server and what is chosen, nothing but a removal takes a config out of memory or off the disk, a
\* start takes all there is unless it falls to the defaults, and a choice stays while a connection is
\* made or used (StoredState!NothingGoesUnasked).
THEOREM NothingGoes == Spec => NothingGoesUnasked
<1>1. Spec => DuplicatesLoseNothing
  <2>1. IInv /\ [Next]_vars =>
           [DeleteDuplicateV2RayProfiles =>
             /\ Servers(mem') = Servers(mem)
             /\ mem.chosen \in Ids(mem) => mem'.chosen = mem.chosen
             /\ \A c, d \in Ids(mem') : Key[c] = Key[d] /\ Key[c] # None => c = d]_vars
    BY DuplicatesStep
  <2> QED
    BY <2>1, Invariance, PTL DEF Spec, DuplicatesLoseNothing
<1>2. Spec => LossIsAsked
  <2>1. IInv /\ [Next]_vars => [Asked]_vars
    BY LossStep
  <2> QED
    BY <2>1, Invariance, PTL DEF Spec, LossIsAsked, Asked
<1>3. Spec => LockedChoiceStays
  <2>1. IInv /\ [Next]_vars =>
           [Locked /\ runtime' = runtime /\ mem.chosen \in Ids(mem') /\ ~ResetAppData
               => mem'.chosen = mem.chosen]_vars
    BY ChoiceStep
  <2> QED
    BY <2>1, Invariance, PTL DEF Spec, LockedChoiceStays
<1> QED
  BY <1>1, <1>2, <1>3 DEF NothingGoesUnasked
=============================================================================
