------------------------ MODULE EngineConfigProofs ------------------------
(***************************************************************************)
(* Proofs about EngineConfig, for any sources, servers and choices of the      *)
(* user: where traffic goes, what protects a server, and what becomes of the   *)
(* text of a configuration that is passed through.                            *)
(***************************************************************************)
EXTENDS EngineConfig, FiniteSetTheorems, WellFoundedInduction, TLAPS

-----------------------------------------------------------------------------
(* Going through a list.                                                      *)

\* Induction up to a number, over a set.
LEMMA UpTo ==
    ASSUME NEW n \in Nat, NEW H, 0 \in H, \A i \in 0 .. n - 1 : i \in H => i + 1 \in H
    PROVE  0 .. n \subseteq H
<1> DEFINE Out == (0 .. n) \ H
           below == {0 .. m : m \in Out}
<1> SUFFICES ASSUME Out # {} PROVE FALSE
  OBVIOUS
<1>1. IsWellFoundedOn(StrictSubsetOrdering(0 .. n), SUBSET (0 .. n))
  <2>1. IsFiniteSet(0 .. n)
    BY FS_Interval
  <2> QED
    BY <2>1, FS_FiniteSubsetsOfFinite, FS_StrictSubsetOrderingWellFounded, Zenon
<1>2. below \subseteq SUBSET (0 .. n) /\ below # {}
  <2>1. ASSUME NEW m \in Out PROVE 0 .. m \subseteq 0 .. n
    OBVIOUS
  <2> HIDE DEF Out
  <2> QED
    BY <2>1, Zenon
<1>3. PICK least \in below : \A other \in below : ~(<<other, least>> \in StrictSubsetOrdering(0 .. n))
  <2> HIDE DEF below
  <2> QED
    BY <1>1, <1>2, WFMin
<1>4. PICK m \in Out : least = 0 .. m
  OBVIOUS
<1>5. m - 1 \in 0 .. n - 1 /\ (m - 1) + 1 = m
  BY <1>4
<1>6. m - 1 \in Out
  BY <1>5
<1>7. 0 .. m - 1 \in below /\ 0 .. m - 1 \subseteq 0 .. m /\ m \in 0 .. m /\ m \notin 0 .. m - 1
  BY <1>5, <1>6
<1> QED
  BY <1>2, <1>3, <1>4, <1>7 DEF StrictSubsetOrdering

\* A step g can be taken from a beginning as often as there are places.
Iterates(f, start, g, n) ==
    f[0] = start /\ \A i \in 1 .. n : f[i] = g[<<f[i - 1], i>>]

LEMMA Iterated ==
    ASSUME NEW n \in Nat, NEW S, NEW start \in S, NEW g \in [S \X (1 .. n) -> S]
    PROVE  \E f \in [0 .. n -> S] : Iterates(f, start, g, n)
<1> DEFINE H == {m \in 0 .. n : \E f \in [0 .. m -> S] : Iterates(f, start, g, m)}
<1>1. 0 \in H
  <2> DEFINE f0 == [i \in 0 .. 0 |-> start]
  <2>1. f0 \in [0 .. 0 -> S] /\ Iterates(f0, start, g, 0)
    BY DEF Iterates
  <2> QED
    BY <2>1
<1>2. ASSUME NEW m \in 0 .. n - 1, m \in H
      PROVE  m + 1 \in H
  <2>1. PICK f \in [0 .. m -> S] : Iterates(f, start, g, m)
    BY <1>2
  <2> DEFINE more == [i \in 0 .. m + 1 |-> IF i = m + 1 THEN g[<<f[m], m + 1>>] ELSE f[i]]
  <2>2. m \in 0 .. m /\ m + 1 \in 1 .. n /\ m + 1 \in 0 .. n
    OBVIOUS
  <2>3. f[m] \in S /\ <<f[m], m + 1>> \in S \X (1 .. n)
    BY <2>2
  <2>4. g[<<f[m], m + 1>>] \in S
    BY <2>3
  <2>5. more \in [0 .. m + 1 -> S]
    BY <2>4
  <2>6. /\ \A i \in 0 .. m : more[i] = f[i]
        /\ more[m + 1] = g[<<f[m], m + 1>>]
    BY <2>2
  <2>7. \A i \in 1 .. m + 1 : i - 1 \in 0 .. m /\ (i \in 1 .. m \/ i = m + 1)
    OBVIOUS
  <2> HIDE DEF more
  <2>8. \A i \in 1 .. m + 1 : more[i] = g[<<more[i - 1], i>>]
    <3> TAKE i \in 1 .. m + 1
    <3>1. CASE i = m + 1
      BY <2>6, <2>2, <3>1
    <3>2. CASE i \in 1 .. m
      <4>1. f[i] = g[<<f[i - 1], i>>]
        BY <2>1, <3>2 DEF Iterates
      <4>2. more[i] = f[i] /\ more[i - 1] = f[i - 1]
        BY <2>6, <2>7, <3>2
      <4> QED
        BY <4>1, <4>2
    <3> QED
      BY <2>7, <3>1, <3>2
  <2>9. Iterates(more, start, g, m + 1)
    BY <2>1, <2>6, <2>8 DEF Iterates
  <2> QED
    BY <2>2, <2>5, <2>9
<1>3. n \in H
  <2> HIDE DEF H
  <2>1. 0 .. n \subseteq H
    BY <1>1, <1>2, UpTo
  <2> QED
    BY <2>1
<1> QED
  BY <1>3

-----------------------------------------------------------------------------
(* What a list holds at some of its places.                                   *)

\* The sequence left is list at places, up to n: f says where each is from.
Picks(f, left, list, places, n) ==
    /\ f \in [1 .. Len(left) -> places \cap (1 .. n)]
    /\ \A k \in 1 .. Len(left) : left[k] = list[f[k]]
    /\ \A k, l \in 1 .. Len(left) : k < l => f[k] < f[l]
    /\ \A i \in places \cap (1 .. n) : \E k \in 1 .. Len(left) : f[k] = i

\* What At goes through.
AtGoes(kept, S, list, places) ==
    /\ kept \in [0 .. Len(list) -> Seq(S)] /\ kept[0] = <<>>
    /\ \A n \in 1 .. Len(list) :
           kept[n] = IF n \in places THEN Append(kept[n - 1], list[n]) ELSE kept[n - 1]
    /\ At(list, places) = kept[Len(list)]

LEMMA AtSteps ==
    ASSUME NEW S, NEW list \in Seq(S), NEW places
    PROVE  \E kept : AtGoes(kept, S, list, places)
<1> DEFINE N == Len(list)
           g == [x \in Seq(S) \X (1 .. N) |->
                    IF x[2] \in places THEN Append(x[1], list[x[2]]) ELSE x[1]]
           Step(f, n) == IF n = 0 THEN <<>>
                         ELSE IF n \in places THEN Append(f[n - 1], list[n]) ELSE f[n - 1]
           Is(f) == f = [n \in 0 .. N |-> Step(f, n)]
           chosen == CHOOSE f : Is(f)
           T == Seq(S)
<1>1. N \in Nat /\ <<>> \in T /\ \A n \in 1 .. N : list[n] \in S
  OBVIOUS
<1>2. g \in [Seq(S) \X (1 .. N) -> Seq(S)]
  BY <1>1
<1> HIDE DEF g, N
<1>3. PICK f \in [0 .. N -> T] : Iterates(f, <<>>, g, N)
  <2> HIDE DEF T, Is, chosen
  <2>1. g \in [T \X (1 .. N) -> T]
    BY <1>2 DEF T
  <2> QED
    BY <1>1, <2>1, Iterated, Zenon
<1>4. \A i \in 0 .. N : i # 0 => g[<<f[i - 1], i>>] =
          IF i \in places THEN Append(f[i - 1], list[i]) ELSE f[i - 1]
  <2> SUFFICES ASSUME NEW i \in 0 .. N, i # 0
               PROVE  g[<<f[i - 1], i>>] = IF i \in places THEN Append(f[i - 1], list[i]) ELSE f[i - 1]
    OBVIOUS
  <2>1. i \in 1 .. N /\ i - 1 \in 0 .. N
    BY <1>1
  <2>2. f[i - 1] \in Seq(S)
    BY <1>3, <2>1
  <2>3. <<f[i - 1], i>> \in Seq(S) \X (1 .. N)
    BY <2>1, <2>2
  <2> QED
    BY <2>3 DEF g
<1>5. \A i \in 0 .. N : f[i] = Step(f, i)
  <2>1. f[0] = <<>> /\ \A i \in 1 .. N : f[i] = g[<<f[i - 1], i>>]
    BY <1>3 DEF Iterates
  <2>2. \A i \in 0 .. N : i # 0 => i \in 1 .. N
    BY <1>1
  <2> QED
    BY <1>4, <2>1, <2>2, Zenon
<1>6. Is(f)
  <2>1. f = [i \in 0 .. N |-> f[i]]
    BY <1>3
  <2> QED
    BY <1>5, <2>1
<1>7. Is(chosen)
  <2> HIDE DEF Is
  <2> QED
    BY <1>6
<1>8. \A i \in 0 .. N : chosen[i] = Step(chosen, i)
  BY <1>7
<1>11. At(list, places) = chosen[N]
  BY DEF At, N
<1>15. chosen = [i \in 0 .. N |-> chosen[i]]
  BY <1>7
<1> HIDE DEF chosen
<1>14. chosen[0] = <<>>
  BY <1>1, <1>8
<1>9. \A i \in 0 .. N : chosen[i] \in Seq(S)
  <2> DEFINE H == {i \in 0 .. N : chosen[i] \in Seq(S)}
  <2>1. 0 \in H
    <3>1. 0 \in 0 .. N
      BY <1>1
    <3> QED
      BY <1>1, <1>14, <3>1, Zenon
  <2>2. ASSUME NEW m \in 0 .. N - 1, m \in H PROVE m + 1 \in H
    <3>1. m + 1 \in 0 .. N /\ m + 1 # 0 /\ (m + 1) - 1 = m /\ m + 1 \in 1 .. N
      BY <1>1
    <3>2. chosen[m + 1] = IF m + 1 \in places THEN Append(chosen[m], list[m + 1]) ELSE chosen[m]
      BY <1>8, <3>1
    <3>3. chosen[m] \in Seq(S) /\ list[m + 1] \in S
      BY <1>1, <2>2, <3>1
    <3>4. Append(chosen[m], list[m + 1]) \in Seq(S)
      BY <3>3
    <3> QED
      BY <3>1, <3>2, <3>3, <3>4, Zenon
  <2> HIDE DEF H
  <2>3. 0 .. N \subseteq H
    BY <1>1, <2>1, <2>2, UpTo
  <2> QED
    BY <2>3 DEF H
<1>10. chosen \in [0 .. N -> Seq(S)]
  BY <1>9, <1>15
<1>12. \A n \in 1 .. N : n \in 0 .. N /\ n # 0
  OBVIOUS
<1>13. \A n \in 1 .. N : chosen[n] = IF n \in places THEN Append(chosen[n - 1], list[n]) ELSE chosen[n - 1]
  BY <1>8, <1>12
<1> QED
  BY <1>10, <1>11, <1>13, <1>14 DEF N, AtGoes

\* A place more, of a list.
LEMMA PicksMore ==
    ASSUME NEW S, NEW list \in Seq(S), NEW places, NEW n \in 0 .. Len(list) - 1, NEW left \in Seq(S),
           NEW f, Picks(f, left, list, places, n), n + 1 \in places
    PROVE  \E more : Picks(more, Append(left, list[n + 1]), list, places, n + 1)
<1> DEFINE N == Len(left)
           x == list[n + 1]
           more == [k \in 1 .. N + 1 |-> IF k = N + 1 THEN n + 1 ELSE f[k]]
<1>1. N \in Nat /\ n \in Nat /\ x \in S
  OBVIOUS
<1>2. /\ Len(Append(left, x)) = N + 1 /\ Append(left, x)[N + 1] = x
      /\ \A k \in 1 .. N : Append(left, x)[k] = left[k]
  BY <1>1
<1>3. /\ f \in [1 .. N -> places \cap (1 .. n)]
      /\ \A k \in 1 .. N : left[k] = list[f[k]]
      /\ \A k, l \in 1 .. N : k < l => f[k] < f[l]
      /\ \A i \in places \cap (1 .. n) : \E k \in 1 .. N : f[k] = i
  BY DEF Picks
<1>4. /\ more[N + 1] = n + 1 /\ \A k \in 1 .. N : more[k] = f[k]
  BY <1>1
<1>5. \A k \in 1 .. N + 1 : k = N + 1 \/ k \in 1 .. N
  BY <1>1
<1>6. more \in [1 .. N + 1 -> places \cap (1 .. n + 1)]
  <2>1. \A k \in 1 .. N + 1 : more[k] \in places \cap (1 .. n + 1)
    BY <1>1, <1>3, <1>4, <1>5
  <2> QED
    BY <2>1
<1> HIDE DEF more
<1>7. \A k \in 1 .. N + 1 : Append(left, x)[k] = list[more[k]]
  BY <1>2, <1>3, <1>4, <1>5
<1>8. \A k, l \in 1 .. N + 1 : k < l => more[k] < more[l]
  <2> SUFFICES ASSUME NEW k \in 1 .. N + 1, NEW l \in 1 .. N + 1, k < l PROVE more[k] < more[l]
    OBVIOUS
  <2>1. k \in 1 .. N
    BY <1>1
  <2>2. more[k] = f[k] /\ f[k] \in 1 .. n
    BY <1>3, <1>4, <2>1
  <2>3. CASE l = N + 1
    <3>1. more[l] = n + 1 /\ f[k] < n + 1
      BY <1>1, <1>4, <2>2, <2>3
    <3> QED
      BY <2>2, <3>1
  <2>4. CASE l \in 1 .. N
    <3>1. more[l] = f[l] /\ f[k] < f[l]
      BY <1>3, <1>4, <2>1, <2>4
    <3> QED
      BY <2>2, <3>1
  <2> QED
    BY <1>5, <2>3, <2>4
<1>9. \A i \in places \cap (1 .. n + 1) : \E k \in 1 .. N + 1 : more[k] = i
  <2> SUFFICES ASSUME NEW i \in places \cap (1 .. n + 1) PROVE \E k \in 1 .. N + 1 : more[k] = i
    OBVIOUS
  <2>1. CASE i = n + 1
    BY <1>1, <1>4, <2>1
  <2>2. CASE i \in 1 .. n
    <3>1. PICK k \in 1 .. N : f[k] = i
      BY <1>3, <2>2
    <3> QED
      BY <1>1, <1>4, <3>1
  <2> QED
    BY <1>1, <2>1, <2>2
<1>10. Picks(more, Append(left, x), list, places, n + 1)
  BY <1>2, <1>6, <1>7, <1>8, <1>9, Zenon DEF Picks
<1> QED
  BY <1>10

\* What At gives is a list of the elements at these places, each once and in their order.
LEMMA AtIs ==
    ASSUME NEW S, NEW list \in Seq(S), NEW places
    PROVE  /\ At(list, places) \in Seq(S)
           /\ \E f : Picks(f, At(list, places), list, places, Len(list))
<1>11. PICK kept : AtGoes(kept, S, list, places)
  BY AtSteps
<1>1. /\ kept \in [0 .. Len(list) -> Seq(S)] /\ kept[0] = <<>>
      /\ \A n \in 1 .. Len(list) :
             kept[n] = IF n \in places THEN Append(kept[n - 1], list[n]) ELSE kept[n - 1]
      /\ At(list, places) = kept[Len(list)]
  BY <1>11 DEF AtGoes
<1>2. Len(list) \in Nat
  OBVIOUS
<1> DEFINE H == {n \in 0 .. Len(list) : \E f : Picks(f, kept[n], list, places, n)}
<1>3. 0 \in H
  <2>1. Picks(<<>>, <<>>, list, places, 0)
    BY DEF Picks
  <2>2. 0 \in 0 .. Len(list)
    BY <1>2
  <2> QED
    BY <1>1, <2>1, <2>2, Zenon
<1>4. ASSUME NEW n \in 0 .. Len(list) - 1, n \in H
      PROVE  n + 1 \in H
  <2>1. n + 1 \in 1 .. Len(list) /\ n + 1 \in 0 .. Len(list) /\ n \in 0 .. Len(list) /\ (n + 1) - 1 = n
    BY <1>2
  <2>2. PICK f : Picks(f, kept[n], list, places, n)
    BY <1>4, Zenon
  <2>3. kept[n] \in Seq(S)
    BY <1>1, <2>1
  <2>4. CASE n + 1 \in places
    <3>1. kept[n + 1] = Append(kept[n], list[n + 1])
      BY <1>1, <2>1, <2>4
    <3>2. \E more : Picks(more, kept[n + 1], list, places, n + 1)
      BY <2>2, <2>3, <2>4, <3>1, PicksMore
    <3> QED
      BY <2>1, <3>2
  <2>5. CASE n + 1 \notin places
    <3>1. kept[n + 1] = kept[n]
      BY <1>1, <2>1, <2>5
    <3>2. places \cap (1 .. n + 1) = places \cap (1 .. n)
      BY <2>1, <2>5
    <3>3. Picks(f, kept[n + 1], list, places, n + 1)
      BY <2>2, <3>1, <3>2 DEF Picks
    <3> QED
      BY <2>1, <3>3
  <2> QED
    BY <2>4, <2>5
<1>5. Len(list) \in H
  <2> HIDE DEF H
  <2>1. 0 .. Len(list) \subseteq H
    BY <1>2, <1>3, <1>4, UpTo
  <2> QED
    BY <1>2, <2>1
<1>6. Len(list) \in 0 .. Len(list)
  BY <1>2
<1> QED
  BY <1>1, <1>5, <1>6, Zenon

\* What is left is in the list at a place that was asked for, and all of that is left.
LEMMA AtSet ==
    ASSUME NEW S, NEW list \in Seq(S), NEW places
    PROVE  ToSet(At(list, places)) = {list[i] : i \in places \cap DOMAIN list}
<1> DEFINE left == At(list, places)
<1>1. PICK f : Picks(f, left, list, places, Len(list))
  BY AtIs
<1>2. left \in Seq(S)
  BY AtIs
<1>3. DOMAIN left = 1 .. Len(left) /\ DOMAIN list = 1 .. Len(list)
  BY <1>2
<1> HIDE DEF left
<1>4. ToSet(left) \subseteq {list[i] : i \in places \cap DOMAIN list}
  BY <1>1, <1>3 DEF ToSet, Picks
<1>5. {list[i] : i \in places \cap DOMAIN list} \subseteq ToSet(left)
  <2> SUFFICES ASSUME NEW i \in places \cap DOMAIN list PROVE list[i] \in ToSet(left)
    OBVIOUS
  <2>1. PICK k \in 1 .. Len(left) : f[k] = i
    BY <1>1, <1>3 DEF Picks
  <2> QED
    BY <1>1, <1>3, <2>1 DEF ToSet, Picks
<1> QED
  BY <1>4, <1>5 DEF left

LEMMA Listed ==
    ASSUME NEW n \in Nat, NEW S, NEW f, f = [i \in 1 .. n |-> f[i]], \A i \in 1 .. n : f[i] \in S
    PROVE  f \in Seq(S) /\ Len(f) = n /\ DOMAIN f = 1 .. n
<1>1. f \in [1 .. n -> S]
  OBVIOUS
<1> QED
  BY <1>1

LEMMA EmptyIs ==
    ASSUME NEW S, NEW list \in Seq(S)
    PROVE  /\ list = <<>> <=> ToSet(list) = {}
           /\ list = <<>> <=> Len(list) = 0
<1>1. list = <<>> <=> ToSet(list) = {}
  <2>1. list = <<>> => ToSet(list) = {}
    BY DEF ToSet
  <2>2. list # <<>> => 1 \in DOMAIN list
    OBVIOUS
  <2>3. 1 \in DOMAIN list => list[1] \in ToSet(list)
    BY DEF ToSet
  <2> QED
    BY <2>1, <2>2, <2>3
<1>2. list = <<>> <=> Len(list) = 0
  OBVIOUS
<1> QED
  BY <1>1, <1>2

LEMMA ElementsOf ==
    ASSUME NEW S, NEW list \in Seq(S)
    PROVE  \A x \in ToSet(list) : x \in S
BY DEF ToSet

LEMMA JoinedSet ==
    ASSUME NEW S, NEW a \in Seq(S), NEW b \in Seq(S)
    PROVE  a \o b \in Seq(S) /\ ToSet(a \o b) = ToSet(a) \cup ToSet(b)
<1> DEFINE N == Len(a)
           M == Len(b)
           both == a \o b
<1>1. /\ N \in Nat /\ M \in Nat /\ both \in Seq(S) /\ DOMAIN both = 1 .. N + M
      /\ DOMAIN a = 1 .. N /\ DOMAIN b = 1 .. M
      /\ \A i \in 1 .. N : both[i] = a[i]
      /\ \A i \in 1 .. M : both[N + i] = b[i]
  OBVIOUS
<1> HIDE DEF N, M, both
<1>2. \A i \in 1 .. N : i \in 1 .. N + M
  BY <1>1
<1>3. \A i \in 1 .. M : N + i \in 1 .. N + M
  BY <1>1
<1>4. \A i \in 1 .. N + M : i \in 1 .. N \/ (i - N \in 1 .. M /\ N + (i - N) = i)
  BY <1>1
<1>5. ToSet(both) \subseteq ToSet(a) \cup ToSet(b)
  <2> SUFFICES ASSUME NEW i \in 1 .. N + M PROVE both[i] \in ToSet(a) \cup ToSet(b)
    BY <1>1 DEF ToSet
  <2>1. CASE i \in 1 .. N
    BY <1>1, <2>1 DEF ToSet
  <2>2. CASE i - N \in 1 .. M /\ N + (i - N) = i
    <3>1. both[i] = b[i - N]
      BY <1>1, <2>2
    <3> QED
      BY <1>1, <2>2, <3>1 DEF ToSet
  <2> QED
    BY <1>4, <2>1, <2>2
<1>6. ToSet(a) \subseteq ToSet(both)
  BY <1>1, <1>2 DEF ToSet
<1>7. ToSet(b) \subseteq ToSet(both)
  BY <1>1, <1>3, Zenon DEF ToSet
<1> QED
  BY <1>1, <1>5, <1>6, <1>7 DEF both

LEMMA Least ==
    ASSUME NEW n \in Nat, NEW I, I \subseteq 1 .. n, I # {}
    PROVE  \E i \in I : \A j \in 1 .. i - 1 : j \notin I
<1> SUFFICES ASSUME \A i \in I : \E j \in 1 .. i - 1 : j \in I
             PROVE  FALSE
  OBVIOUS
<1> DEFINE H == {m \in 0 .. n : \A i \in 1 .. m : i \notin I}
<1>1. 0 \in H
  OBVIOUS
<1>2. ASSUME NEW m \in 0 .. n - 1, m \in H PROVE m + 1 \in H
  <2>1. m + 1 \notin I
    BY <1>2
  <2>2. \A i \in 1 .. m + 1 : i \in 1 .. m \/ i = m + 1
    OBVIOUS
  <2>3. m + 1 \in 0 .. n
    OBVIOUS
  <2> QED
    BY <1>2, <2>1, <2>2, <2>3
<1>3. n \in H
  <2> HIDE DEF H
  <2>1. 0 .. n \subseteq H
    BY <1>1, <1>2, UpTo
  <2> QED
    BY <2>1
<1> QED
  BY <1>3

LEMMA MaxIs ==
    ASSUME NEW n \in Nat, NEW I, I \subseteq 1 .. n, I # {}
    PROVE  Max(I) \in I
<1> DEFINE J == {n + 1 - i : i \in I}
<1>1. J \subseteq 1 .. n /\ J # {}
  <2>1. \A i \in I : i \in 1 .. n
    OBVIOUS
  <2>2. \A i \in 1 .. n : n + 1 - i \in 1 .. n
    OBVIOUS
  <2>3. PICK i \in I : TRUE
    OBVIOUS
  <2> QED
    BY <2>1, <2>2, <2>3
<1> HIDE DEF J
<1>2. PICK k \in J : \A j \in 1 .. k - 1 : j \notin J
  BY <1>1, Least
<1>3. PICK i \in I : k = n + 1 - i
  BY <1>2 DEF J
<1>4. \A y \in I : i >= y
  <2> TAKE y \in I
  <2>1. n + 1 - y \in J
    BY DEF J
  <2>2. n + 1 - y \notin 1 .. k - 1
    BY <1>2, <2>1
  <2>3. n + 1 - y \in 1 .. n /\ k \in 1 .. n /\ i \in 1 .. n /\ y \in 1 .. n
    BY <1>1, <1>2, <2>1
  <2> QED
    BY <1>3, <2>2, <2>3
<1>5. \E x \in I : \A y \in I : x >= y
  BY <1>4
<1> QED
  BY <1>5 DEF Max

-----------------------------------------------------------------------------
(* The rules.                                                                 *)

\* Of the rules in fit, the first of the list goes to target.
FirstGoes(rules, fit, target) ==
    \E i \in DOMAIN rules : /\ rules[i] \in fit /\ \A j \in 1 .. i - 1 : rules[j] \notin fit
                            /\ rules[i].target = target

LEMMA FirstOfSome ==
    ASSUME NEW S, NEW rules \in Seq(S), NEW fit, NEW target, ToSet(rules) \cap fit # {},
           \A i \in DOMAIN rules : rules[i].target = target
    PROVE  FirstGoes(rules, fit, target)
<1> DEFINE I == {i \in 1 .. Len(rules) : rules[i] \in fit}
<1>1. Len(rules) \in Nat /\ DOMAIN rules = 1 .. Len(rules)
  OBVIOUS
<1>2. I # {} /\ I \subseteq 1 .. Len(rules)
  BY <1>1 DEF ToSet
<1>3. PICK i \in I : \A j \in 1 .. i - 1 : j \notin I
  <2> HIDE DEF I
  <2> QED
    BY <1>1, <1>2, Least
<1>4. \A j \in 1 .. i - 1 : j \in 1 .. Len(rules)
  BY <1>1
<1> QED
  BY <1>1, <1>3, <1>4 DEF FirstGoes

LEMMA FirstBefore ==
    ASSUME NEW S, NEW rules \in Seq(S), NEW more \in Seq(S), NEW fit, NEW target,
           FirstGoes(rules, fit, target)
    PROVE  FirstGoes(rules \o more, fit, target)
<1>1. PICK i \in DOMAIN rules : /\ rules[i] \in fit /\ \A j \in 1 .. i - 1 : rules[j] \notin fit
                                /\ rules[i].target = target
  BY DEF FirstGoes
<1>2. i \in 1 .. Len(rules) /\ i \in DOMAIN (rules \o more)
  OBVIOUS
<1>3. \A j \in 1 .. Len(rules) : (rules \o more)[j] = rules[j]
  OBVIOUS
<1>4. \A j \in 1 .. i - 1 : j \in 1 .. Len(rules)
  BY <1>2
<1> QED
  BY <1>1, <1>2, <1>3, <1>4 DEF FirstGoes

LEMMA FirstAfter ==
    ASSUME NEW S, NEW rules \in Seq(S), NEW more \in Seq(S), NEW fit, NEW target,
           ToSet(rules) \cap fit = {}, FirstGoes(more, fit, target)
    PROVE  FirstGoes(rules \o more, fit, target)
<1> DEFINE N == Len(rules)
           both == rules \o more
<1>1. PICK i \in DOMAIN more : /\ more[i] \in fit /\ \A j \in 1 .. i - 1 : more[j] \notin fit
                               /\ more[i].target = target
  BY DEF FirstGoes
<1>2. /\ N \in Nat /\ i \in 1 .. Len(more) /\ i \in Nat /\ DOMAIN both = 1 .. N + Len(more)
      /\ N + i \in 1 .. N + Len(more) /\ Len(more) \in Nat /\ DOMAIN rules = 1 .. N
  OBVIOUS
<1>3. /\ \A j \in 1 .. N : both[j] = rules[j]
      /\ \A j \in 1 .. Len(more) : both[N + j] = more[j]
  OBVIOUS
<1> HIDE DEF N, both
<1>4. both[N + i] = more[i] /\ N + i \in DOMAIN both
  BY <1>2, <1>3
<1>5. ASSUME NEW j \in 1 .. (N + i) - 1 PROVE both[j] \notin fit
  <2>1. CASE j \in 1 .. N
    BY <1>2, <1>3, <2>1 DEF ToSet
  <2>2. CASE j \notin 1 .. N
    <3>1. j - N \in 1 .. i - 1 /\ j - N \in 1 .. Len(more) /\ N + (j - N) = j
      BY <1>2, <2>2
    <3> QED
      BY <1>1, <1>3, <3>1
  <2> QED
    BY <2>1, <2>2
<1>6. FirstGoes(both, fit, target)
  BY <1>1, <1>4, <1>5 DEF FirstGoes
<1> QED
  BY <1>6 DEF both

RuleType(targets) == [kind : {"address", "domain", "program", "any"}, arg : Texts \cup {""}, target : targets]

\* A rule for each destination entered, and none for another.
LEMMA DirectIs ==
    ASSUME NEW entries \in Seq(Texts), NEW T, "DIRECT" \in T
    PROVE  LET rules == DirectRules(entries) IN
           /\ rules \in Seq(RuleType(T))
           /\ \A i \in DOMAIN rules : /\ rules[i].target = "DIRECT" /\ rules[i].arg \in ToSet(entries)
                                      /\ rules[i].kind \in {"address", "domain"}
           /\ \A e \in ToSet(entries) : e # "blank" =>
                  \E rule \in ToSet(rules) : rule.kind \in {"address", "domain"} /\ rule.arg = e
<1> DEFINE clean == CleanDirect(entries)
           addresses == At(clean, {i \in DOMAIN clean : IsAddress(clean[i])})
           domains == At(clean, {i \in DOMAIN clean : ~IsAddress(clean[i])})
           A == [i \in DOMAIN addresses |-> Rule("address", addresses[i], "DIRECT")]
           D == [i \in DOMAIN domains |-> Rule("domain", domains[i], "DIRECT")]
<1>1. clean \in Seq(Texts) /\ ToSet(clean) = {e \in ToSet(entries) : e # "blank"}
  <2>1. clean \in Seq(Texts)
    BY AtIs DEF CleanDirect
  <2>2. ToSet(clean) = {entries[i] : i \in {i \in DOMAIN entries : entries[i] # "blank"} \cap DOMAIN entries}
    BY AtSet DEF CleanDirect
  <2> HIDE DEF clean
  <2> QED
    BY <2>1, <2>2 DEF ToSet
<1> HIDE DEF clean
<1>2. addresses \in Seq(Texts) /\ ToSet(addresses) = {e \in ToSet(clean) : IsAddress(e)}
  <2>1. addresses \in Seq(Texts)
    BY <1>1, AtIs
  <2>2. ToSet(addresses) = {clean[i] : i \in {i \in DOMAIN clean : IsAddress(clean[i])} \cap DOMAIN clean}
    BY <1>1, AtSet
  <2> HIDE DEF addresses
  <2> QED
    BY <2>1, <2>2 DEF ToSet
<1>3. domains \in Seq(Texts) /\ ToSet(domains) = {e \in ToSet(clean) : ~IsAddress(e)}
  <2>1. domains \in Seq(Texts)
    BY <1>1, AtIs
  <2>2. ToSet(domains) = {clean[i] : i \in {i \in DOMAIN clean : ~IsAddress(clean[i])} \cap DOMAIN clean}
    BY <1>1, AtSet
  <2> HIDE DEF domains
  <2> QED
    BY <2>1, <2>2 DEF ToSet
<1>4. DirectRules(entries) = A \o D
  BY DEF DirectRules, clean
<1> HIDE DEF addresses, domains
<1>5. /\ A \in Seq(RuleType(T)) /\ DOMAIN A = 1 .. Len(A) /\ DOMAIN A = DOMAIN addresses
      /\ \A i \in DOMAIN A : A[i] = Rule("address", addresses[i], "DIRECT") /\ addresses[i] \in Texts
  <2>1. Len(addresses) \in Nat /\ DOMAIN addresses = 1 .. Len(addresses) /\ \A i \in DOMAIN addresses : addresses[i] \in Texts
    BY <1>2
  <2>2. \A i \in DOMAIN addresses : Rule("address", addresses[i], "DIRECT") \in RuleType(T)
    BY <2>1 DEF RuleType, Rule
  <2>3. /\ A = [i \in 1 .. Len(addresses) |-> A[i]]
        /\ \A i \in 1 .. Len(addresses) : A[i] = Rule("address", addresses[i], "DIRECT")
    BY <2>1
  <2> HIDE DEF A
  <2>4. A \in Seq(RuleType(T)) /\ Len(A) = Len(addresses) /\ DOMAIN A = 1 .. Len(addresses)
    BY <2>1, <2>2, <2>3, Listed
  <2> QED
    BY <2>1, <2>3, <2>4
<1>6. /\ D \in Seq(RuleType(T)) /\ DOMAIN D = 1 .. Len(D) /\ DOMAIN D = DOMAIN domains
      /\ \A i \in DOMAIN D : D[i] = Rule("domain", domains[i], "DIRECT") /\ domains[i] \in Texts
  <2>1. Len(domains) \in Nat /\ DOMAIN domains = 1 .. Len(domains) /\ \A i \in DOMAIN domains : domains[i] \in Texts
    BY <1>3
  <2>2. \A i \in DOMAIN domains : Rule("domain", domains[i], "DIRECT") \in RuleType(T)
    BY <2>1 DEF RuleType, Rule
  <2>3. /\ D = [i \in 1 .. Len(domains) |-> D[i]]
        /\ \A i \in 1 .. Len(domains) : D[i] = Rule("domain", domains[i], "DIRECT")
    BY <2>1
  <2> HIDE DEF D
  <2>4. D \in Seq(RuleType(T)) /\ Len(D) = Len(domains) /\ DOMAIN D = 1 .. Len(domains)
    BY <2>1, <2>2, <2>3, Listed
  <2> QED
    BY <2>1, <2>3, <2>4
<1> HIDE DEF A, D
<1>7. /\ A \o D \in Seq(RuleType(T)) /\ ToSet(A \o D) = ToSet(A) \cup ToSet(D)
  BY <1>5, <1>6, JoinedSet
<1>8. \A rule \in ToSet(A) : rule.target = "DIRECT" /\ rule.kind = "address" /\ rule.arg \in ToSet(addresses)
  BY <1>5 DEF ToSet, Rule
<1>9. \A rule \in ToSet(D) : rule.target = "DIRECT" /\ rule.kind = "domain" /\ rule.arg \in ToSet(domains)
  BY <1>6 DEF ToSet, Rule
<1>10. \A e \in ToSet(addresses) : \E rule \in ToSet(A) : rule.kind = "address" /\ rule.arg = e
  BY <1>5 DEF ToSet, Rule
<1>11. \A e \in ToSet(domains) : \E rule \in ToSet(D) : rule.kind = "domain" /\ rule.arg = e
  BY <1>6 DEF ToSet, Rule
<1>12. \A i \in DOMAIN (A \o D) : (A \o D)[i] \in ToSet(A \o D)
  BY DEF ToSet
<1>13. \A e \in ToSet(entries) : e # "blank" => e \in ToSet(addresses) \/ e \in ToSet(domains)
  BY <1>1, <1>2, <1>3
<1> QED
  BY <1>1, <1>2, <1>3, <1>4, <1>7, <1>8, <1>9, <1>10, <1>11, <1>12, <1>13

\* A program that is entered has a name with its key among the names used, and they are of
\* those entered.
LEMMA CleanIs ==
    ASSUME NEW programs \in Seq(Texts)
    PROVE  LET names == CleanProcessNames(programs) IN
           /\ names \in Seq(Texts)
           /\ ToSet(names) \subseteq ToSet(programs) \ {"blank", "a,b"}
           /\ \A p \in ToSet(programs) \ {"blank", "a,b"} :
                  \E name \in ToSet(names) : ProgramKey(name) = ProgramKey(p)
<1> DEFINE places == {i \in DOMAIN programs :
                         /\ programs[i] \notin {"blank", "a,b"}
                         /\ \A j \in 1 .. i - 1 : ProgramKey(programs[j]) # ProgramKey(programs[i])}
           names == At(programs, places)
<1>1. CleanProcessNames(programs) = names
  BY DEF CleanProcessNames
<1>2. names \in Seq(Texts) /\ ToSet(names) = {programs[i] : i \in places \cap DOMAIN programs}
  <2> HIDE DEF places
  <2> QED
    BY AtIs, AtSet
<1>3. DOMAIN programs = 1 .. Len(programs) /\ Len(programs) \in Nat
  OBVIOUS
<1>4. ASSUME NEW k \in DOMAIN programs, programs[k] \notin {"blank", "a,b"}
      PROVE  \E name \in ToSet(names) : ProgramKey(name) = ProgramKey(programs[k])
  <2> DEFINE I == {i \in 1 .. Len(programs) : ProgramKey(programs[i]) = ProgramKey(programs[k])}
  <2>1. PICK i \in I : \A j \in 1 .. i - 1 : j \notin I
    <3>1. I \subseteq 1 .. Len(programs) /\ I # {}
      BY <1>3, <1>4
    <3> HIDE DEF I
    <3> QED
      BY <1>3, <3>1, Least
  <2>2. \A j \in 1 .. i - 1 : j \in 1 .. Len(programs)
    BY <1>3
  <2>3. \A j \in 1 .. i - 1 : ProgramKey(programs[j]) # ProgramKey(programs[i])
    BY <2>1, <2>2
  <2>4. programs[i] \notin {"blank", "a,b"}
    BY <1>4, <2>1 DEF ProgramKey
  <2>5. i \in places \cap DOMAIN programs
    BY <1>3, <2>1, <2>3, <2>4
  <2>6. programs[i] \in ToSet(names)
    BY <1>2, <2>5
  <2> QED
    BY <2>1, <2>6
<1> HIDE DEF names
<1>5. ToSet(names) \subseteq ToSet(programs) \ {"blank", "a,b"}
  BY <1>2 DEF ToSet
<1> QED
  BY <1>1, <1>2, <1>4, <1>5 DEF ToSet

\* One rule for each program used.
ByProgram(names, outcome) == [i \in DOMAIN names |-> Rule("program", names[i], outcome)]

LEMMA ByProgramIs ==
    ASSUME NEW names \in Seq(Texts), NEW T, NEW outcome \in T
    PROVE  LET rules == ByProgram(names, outcome) IN
           /\ rules \in Seq(RuleType(T)) /\ Len(rules) = Len(names)
           /\ \A rule \in ToSet(rules) : rule.kind = "program" /\ rule.target = outcome /\ rule.arg \in ToSet(names)
           /\ \A name \in ToSet(names) : Rule("program", name, outcome) \in ToSet(rules)
<1> DEFINE rules == ByProgram(names, outcome)
<1>1. Len(names) \in Nat /\ DOMAIN names = 1 .. Len(names) /\ \A i \in DOMAIN names : names[i] \in Texts
  OBVIOUS
<1>2. \A i \in DOMAIN names : Rule("program", names[i], outcome) \in RuleType(T)
  BY <1>1 DEF RuleType, Rule
<1>3. /\ rules = [i \in 1 .. Len(names) |-> rules[i]]
      /\ \A i \in 1 .. Len(names) : rules[i] = Rule("program", names[i], outcome)
  BY <1>1 DEF ByProgram
<1> HIDE DEF rules
<1>4. rules \in Seq(RuleType(T)) /\ Len(rules) = Len(names) /\ DOMAIN rules = 1 .. Len(names)
  BY <1>1, <1>2, <1>3, Listed
<1>5. \A rule \in ToSet(rules) : rule.kind = "program" /\ rule.target = outcome /\ rule.arg \in ToSet(names)
  BY <1>1, <1>3, <1>4 DEF ToSet, Rule
<1>6. \A name \in ToSet(names) : Rule("program", name, outcome) \in ToSet(rules)
  BY <1>1, <1>3, <1>4 DEF ToSet
<1> QED
  BY <1>4, <1>5, <1>6 DEF rules

LEMMA Single ==
    ASSUME NEW S, NEW x \in S
    PROVE  <<x>> \in Seq(S) /\ DOMAIN <<x>> = 1 .. 1 /\ <<x>>[1] = x /\ Len(<<x>>) = 1
OBVIOUS

LEMMA OneRule ==
    ASSUME NEW T, NEW target \in T
    PROVE  LET rules == <<Rule("any", "", target)>> IN
           /\ rules \in Seq(RuleType(T)) /\ ToSet(rules) = {Rule("any", "", target)}
           /\ \A fit : Rule("any", "", target) \in fit => FirstGoes(rules, fit, target)
<1> DEFINE x == Rule("any", "", target)
           rules == <<x>>
<1>1. x \in RuleType(T) /\ x.target = target
  BY DEF RuleType, Rule
<1> HIDE DEF x
<1>2. rules \in Seq(RuleType(T)) /\ DOMAIN rules = 1 .. 1 /\ rules[1] = x
  BY <1>1, Single
<1> HIDE DEF rules
<1>3. ToSet(rules) = {x}
  BY <1>2 DEF ToSet
<1>4. ASSUME NEW fit, x \in fit PROVE FirstGoes(rules, fit, target)
  <2>1. 1 \in DOMAIN rules /\ rules[1] \in fit /\ rules[1].target = target
    BY <1>1, <1>2, <1>4
  <2>2. \A j \in 1 .. 1 - 1 : rules[j] \notin fit
    OBVIOUS
  <2> QED
    BY <2>1, <2>2, Zenon DEF FirstGoes
<1> QED
  BY <1>2, <1>3, <1>4 DEF x, rules

\* What the split tunnel says of a program goes by its rules and the last one.
LEMMA SplitGoes ==
    ASSUME NEW split \in [mode : {"off", "bypass", "only"}, programs : Seq(Texts)],
           NEW T, NEW target \in T, "DIRECT" \in T, NEW program \in Programs, NEW fit,
           \A rule \in RuleType(T) :
               /\ rule.kind = "any" => rule \in fit
               /\ rule.kind = "program" => (rule \in fit <=> /\ SplitActive(split)
                                                             /\ ProgramKey(rule.arg) = program)
    PROVE  LET named == \E i \in DOMAIN split.programs : ProgramKey(split.programs[i]) = program
               usable == \E i \in DOMAIN split.programs : split.programs[i] \notin {"blank", "a,b"}
               outcome == IF \/ split.mode = "bypass" /\ named
                             \/ split.mode = "only" /\ usable /\ ~named
                          THEN "DIRECT" ELSE target
               rules == SplitRules(split, target)
               last == CatchAllRules(split, target)
           IN  /\ rules \in Seq(RuleType(T)) /\ last \in Seq(RuleType(T))
               /\ \/ FirstGoes(rules, fit, outcome)
                  \/ ToSet(rules) \cap fit = {} /\ FirstGoes(last, fit, outcome)
<1> DEFINE named == \E i \in DOMAIN split.programs : ProgramKey(split.programs[i]) = program
           usable == \E i \in DOMAIN split.programs : split.programs[i] \notin {"blank", "a,b"}
           outcome == IF \/ split.mode = "bypass" /\ named
                         \/ split.mode = "only" /\ usable /\ ~named
                      THEN "DIRECT" ELSE target
           rules == SplitRules(split, target)
           last == CatchAllRules(split, target)
           names == CleanProcessNames(split.programs)
           By(x) == ByProgram(names, x)
           All(x) == <<Rule("any", "", x)>>
<1>1. split.programs \in Seq(Texts) /\ split.mode \in {"off", "bypass", "only"}
  OBVIOUS
<1>2. /\ names \in Seq(Texts) /\ ToSet(names) \subseteq ToSet(split.programs) \ {"blank", "a,b"}
      /\ \A p \in ToSet(split.programs) \ {"blank", "a,b"} :
             \E name \in ToSet(names) : ProgramKey(name) = ProgramKey(p)
  BY <1>1, CleanIs
<1>3. usable <=> ToSet(split.programs) \ {"blank", "a,b"} # {}
  BY DEF ToSet
<1>4. named <=> \E name \in ToSet(names) : ProgramKey(name) = program
  <2>1. \A p : ProgramKey(p) = program => p \notin {"blank", "a,b"}
    BY DEF ProgramKey, Programs
  <2>2. named <=> \E p \in ToSet(split.programs) : ProgramKey(p) = program
    BY DEF ToSet
  <2> HIDE DEF names, named
  <2> QED
    BY <1>2, <2>1, <2>2
<1>5. names = <<>> <=> ToSet(names) = {}
  <2> HIDE DEF names
  <2>1. names \in Seq(Texts)
    BY <1>2
  <2> QED
    BY <2>1, EmptyIs, Zenon
<1>6. usable <=> names # <<>>
  <2> HIDE DEF names, usable
  <2> QED
    BY <1>2, <1>3, <1>5
<1>7. rules = IF names = <<>> \/ split.mode = "off" THEN <<>>
              ELSE IF split.mode = "bypass" THEN By("DIRECT") ELSE By(target) \o All("DIRECT")
  BY DEF SplitRules, ByProgram
<1>8. last = IF split.mode = "only" /\ names # <<>> THEN <<>> ELSE All(target)
  BY DEF CatchAllRules, SplitCatches
<1>9. SplitActive(split) <=>
          (IF names = <<>> \/ split.mode = "off" THEN <<>>
           ELSE IF split.mode = "bypass" THEN By("DIRECT") ELSE By(SelectGroup) \o All("DIRECT")) # <<>>
  BY DEF SplitActive, SplitRules, ByProgram
<1>10. \A x \in T : /\ By(x) \in Seq(RuleType(T)) /\ Len(By(x)) = Len(names)
                    /\ \A rule \in ToSet(By(x)) : rule.kind = "program" /\ rule.target = x /\ rule.arg \in ToSet(names)
                    /\ \A name \in ToSet(names) : Rule("program", name, x) \in ToSet(By(x))
  <2> HIDE DEF names
  <2> SUFFICES ASSUME NEW x \in T
               PROVE  /\ By(x) \in Seq(RuleType(T)) /\ Len(By(x)) = Len(names)
                      /\ \A rule \in ToSet(By(x)) : rule.kind = "program" /\ rule.target = x /\ rule.arg \in ToSet(names)
                      /\ \A name \in ToSet(names) : Rule("program", name, x) \in ToSet(By(x))
    OBVIOUS
  <2>1. names \in Seq(Texts)
    BY <1>2
  <2> QED
    BY <2>1, ByProgramIs, Zenon
<1>11. \A x \in T : /\ All(x) \in Seq(RuleType(T)) /\ ToSet(All(x)) = {Rule("any", "", x)}
                    /\ FirstGoes(All(x), fit, x)
  <2> SUFFICES ASSUME NEW x \in T
               PROVE  /\ All(x) \in Seq(RuleType(T)) /\ ToSet(All(x)) = {Rule("any", "", x)}
                      /\ FirstGoes(All(x), fit, x)
    OBVIOUS
  <2>1. Rule("any", "", x) \in RuleType(T) /\ Rule("any", "", x).kind = "any"
    BY DEF RuleType, Rule
  <2>2. Rule("any", "", x) \in fit
    BY <2>1
  <2> QED
    BY <2>2, OneRule
<1>12. \A x \in T : \A rule \in ToSet(By(x)) : rule \in RuleType(T)
  <2> HIDE DEF By
  <2> QED
    BY <1>10, ElementsOf
<1> HIDE DEF names, rules, last, All, By, named, usable
<1>13. CASE names = <<>> \/ split.mode = "off"
  <2>1. rules = <<>> /\ last = All(target)
    <3>1. rules = <<>>
      BY <1>7, <1>13
    <3> QED
      BY <1>1, <1>8, <1>13, <3>1
  <2>2. outcome = target
    BY <1>1, <1>4, <1>5, <1>6, <1>13
  <2>3. ToSet(<<>>) \cap fit = {} /\ <<>> \in Seq(RuleType(T))
    BY DEF ToSet
  <2> QED
    BY <1>11, <2>1, <2>2, <2>3 DEF rules, last, named, usable
<1>14. CASE names # <<>> /\ split.mode = "bypass"
  <2>1. rules = By("DIRECT") /\ last = All(target)
    BY <1>7, <1>8, <1>14
  <2>2. SplitActive(split)
    <3>1. SplitActive(split) <=> By("DIRECT") # <<>>
      BY <1>9, <1>14
    <3>2. Len(names) # 0
      <4>1. names \in Seq(Texts) /\ names # <<>>
        BY <1>2, <1>14
      <4> QED
        BY <4>1
    <3> QED
      BY <1>10, <3>1, <3>2
  <2>3. rules \in Seq(RuleType(T)) /\ \A i \in DOMAIN rules : rules[i].target = "DIRECT"
    BY <1>10, <2>1 DEF ToSet
  <2>4. CASE named
    <3>1. outcome = "DIRECT"
      BY <1>14, <2>4
    <3>2. PICK name \in ToSet(names) : ProgramKey(name) = program
      BY <1>4, <2>4
    <3>3. Rule("program", name, "DIRECT") \in ToSet(rules) \cap fit
      BY <1>10, <1>12, <2>1, <2>2, <3>2 DEF Rule
    <3>4. FirstGoes(rules, fit, "DIRECT")
      BY <2>3, <3>3, FirstOfSome
    <3> QED
      BY <1>11, <2>1, <2>3, <3>1, <3>4 DEF rules, last, named, usable
  <2>5. CASE ~named
    <3>1. outcome = target
      BY <1>14, <2>5
    <3>2. ToSet(rules) \cap fit = {}
      BY <1>4, <1>10, <1>12, <2>1, <2>5
    <3>3. last \in Seq(RuleType(T)) /\ FirstGoes(last, fit, outcome)
      BY <1>11, <2>1, <3>1
    <3> QED
      BY <2>3, <3>2, <3>3 DEF rules, last, named, usable
  <2> QED
    BY <2>4, <2>5
<1>15. CASE names # <<>> /\ split.mode = "only"
  <2>1. rules = By(target) \o All("DIRECT") /\ last = <<>>
    BY <1>7, <1>8, <1>15
  <2>2. SplitActive(split)
    <3>1. SplitActive(split) <=> By(SelectGroup) \o All("DIRECT") # <<>>
      BY <1>9, <1>15
    <3>2. Len(By(SelectGroup) \o All("DIRECT")) # 0
      BY DEF By, All
    <3> QED
      BY <3>1, <3>2
  <2>3. By(target) \in Seq(RuleType(T)) /\ \A i \in DOMAIN By(target) : By(target)[i].target = target
    BY <1>10 DEF ToSet
  <2>4. rules \in Seq(RuleType(T)) /\ last \in Seq(RuleType(T))
    <3>1. All("DIRECT") \in Seq(RuleType(T)) /\ By(target) \in Seq(RuleType(T))
      BY <1>11, <2>3
    <3>2. <<>> \in Seq(RuleType(T))
      OBVIOUS
    <3> QED
      BY <2>1, <3>1, <3>2, JoinedSet, Zenon
  <2>5. FirstGoes(rules, fit, outcome)
    <3>1. CASE named
      <4>1. outcome = target
        BY <1>15, <3>1
      <4>2. PICK name \in ToSet(names) : ProgramKey(name) = program
        BY <1>4, <3>1
      <4>3. Rule("program", name, target) \in ToSet(By(target)) \cap fit
        BY <1>10, <1>12, <2>2, <4>2 DEF Rule
      <4>4. FirstGoes(By(target), fit, target)
        BY <2>3, <4>3, FirstOfSome
      <4> QED
        BY <1>11, <2>1, <2>3, <4>1, <4>4, FirstBefore
    <3>2. CASE ~named
      <4>1. outcome = "DIRECT"
        BY <1>6, <1>15, <3>2
      <4>2. ToSet(By(target)) \cap fit = {}
        BY <1>4, <1>10, <1>12, <3>2
      <4> QED
        BY <1>11, <2>1, <2>3, <4>1, <4>2, FirstAfter
    <3> QED
      BY <3>1, <3>2
  <2> QED
    BY <2>4, <2>5 DEF rules, last, named, usable
<1> QED
  BY <1>1, <1>13, <1>14, <1>15

\* The rules that the code writes send every connection where the settings say.
LEMMA RulesRoute ==
    ASSUME world \in WorldType, engine.rules = Rules(Target), engine.byProgram = SplitActive(world.split),
           NEW program \in Programs, NEW destination \in Destinations
    PROVE  \E i \in DOMAIN engine.rules :
               /\ Fits(engine.rules[i], program, destination)
               /\ \A j \in 1..i-1 : ~Fits(engine.rules[j], program, destination)
               /\ engine.rules[i].target = Intended(program, destination)
<1> DEFINE T == {"DIRECT", Target}
           R == RuleType(T)
           fit == {rule \in R : Fits(rule, program, destination)}
           split == world.split
           named == \E i \in DOMAIN split.programs : ProgramKey(split.programs[i]) = program
           usable == \E i \in DOMAIN split.programs : split.programs[i] \notin {"blank", "a,b"}
           outcome == IF \/ split.mode = "bypass" /\ named
                         \/ split.mode = "only" /\ usable /\ ~named
                      THEN "DIRECT" ELSE Target
           direct == DirectRules(world.direct)
           rules == SplitRules(split, Target)
           last == CatchAllRules(split, Target)
           all == (direct \o rules) \o last
<1>1. world.direct \in Seq(Texts) /\ split \in [mode : {"off", "bypass", "only"}, programs : Seq(Texts)]
  BY DEF WorldType
<1>2. Target \in T /\ "DIRECT" \in T
  OBVIOUS
<1> HIDE DEF T
<1>3. /\ direct \in Seq(R)
      /\ \A i \in DOMAIN direct : /\ direct[i].target = "DIRECT" /\ direct[i].arg \in ToSet(world.direct)
                                  /\ direct[i].kind \in {"address", "domain"}
      /\ \A e \in ToSet(world.direct) : e # "blank" =>
             \E rule \in ToSet(direct) : rule.kind \in {"address", "domain"} /\ rule.arg = e
  BY <1>1, <1>2, DirectIs
<1>4. \A rule \in R : /\ rule.kind = "any" => rule \in fit
                      /\ rule.kind = "program" => (rule \in fit <=> /\ SplitActive(split)
                                                                    /\ ProgramKey(rule.arg) = program)
                      /\ rule.kind \in {"address", "domain"} => (rule \in fit <=> rule.arg = destination)
  BY DEF Fits, RuleType
<1>5. /\ rules \in Seq(R) /\ last \in Seq(R)
      /\ \/ FirstGoes(rules, fit, outcome)
         \/ ToSet(rules) \cap fit = {} /\ FirstGoes(last, fit, outcome)
  <2>1. \A rule \in RuleType(T) :
            /\ rule.kind = "any" => rule \in fit
            /\ rule.kind = "program" => (rule \in fit <=> /\ SplitActive(split)
                                                          /\ ProgramKey(rule.arg) = program)
    BY <1>4
  <2> HIDE DEF fit, split
  <2> QED
    BY <1>1, <1>2, <2>1, SplitGoes, Zenon
<1>6. engine.rules = all
  BY DEF Rules
<1>7. Intended(program, destination) = IF Contains(world.direct, destination) THEN "DIRECT" ELSE outcome
  BY DEF Intended
<1>8. Contains(world.direct, destination) <=> destination \in ToSet(world.direct)
  <2>1. DOMAIN world.direct = 1 .. Len(world.direct)
    BY <1>1
  <2> QED
    BY <2>1 DEF Contains, ToSet
<1> HIDE DEF R, fit, direct, rules, last, outcome, split
<1>9. FirstGoes(all, fit, Intended(program, destination))
  <2>1. CASE destination \in ToSet(world.direct)
    <3>1. destination # "blank"
      BY DEF Destinations
    <3>2. PICK rule \in ToSet(direct) : rule.kind \in {"address", "domain"} /\ rule.arg = destination
      BY <1>3, <2>1, <3>1
    <3>3. rule \in fit
      BY <1>3, <1>4, <3>2, ElementsOf
    <3>4. FirstGoes(direct, fit, "DIRECT")
      BY <1>3, <3>2, <3>3, FirstOfSome
    <3>5. FirstGoes(direct \o rules, fit, "DIRECT")
      BY <1>3, <1>5, <3>4, FirstBefore
    <3>6. direct \o rules \in Seq(R)
      BY <1>3, <1>5, JoinedSet
    <3>7. FirstGoes(all, fit, "DIRECT")
      BY <1>5, <3>5, <3>6, FirstBefore
    <3> QED
      BY <1>7, <1>8, <2>1, <3>7
  <2>2. CASE destination \notin ToSet(world.direct)
    <3>1. ToSet(direct) \cap fit = {}
      <4>1. \A rule \in ToSet(direct) : /\ rule.arg \in ToSet(world.direct) /\ rule \in R
                                        /\ rule.kind \in {"address", "domain"}
        BY <1>3, ElementsOf DEF ToSet
      <4> QED
        BY <1>4, <2>2, <4>1
    <3>2. Intended(program, destination) = outcome
      BY <1>7, <1>8, <2>2
    <3>3. direct \o rules \in Seq(R) /\ ToSet(direct \o rules) = ToSet(direct) \cup ToSet(rules)
      BY <1>3, <1>5, JoinedSet
    <3>4. CASE FirstGoes(rules, fit, outcome)
      <4>1. FirstGoes(direct \o rules, fit, outcome)
        BY <1>3, <1>5, <3>1, <3>4, FirstAfter
      <4> QED
        BY <1>5, <3>2, <3>3, <4>1, FirstBefore
    <3>5. CASE ToSet(rules) \cap fit = {} /\ FirstGoes(last, fit, outcome)
      <4>1. ToSet(direct \o rules) \cap fit = {}
        BY <3>1, <3>3, <3>5
      <4> QED
        BY <1>5, <3>2, <3>3, <3>5, <4>1, FirstAfter
    <3> QED
      BY <1>5, <3>4, <3>5
  <2> QED
    BY <2>1, <2>2
<1>10. all \in Seq(R)
  BY <1>3, <1>5, JoinedSet
<1>11. \A i \in DOMAIN all : all[i] \in R
  BY <1>10
<1>12. \A i \in DOMAIN all : \A j \in 1 .. i - 1 : j \in DOMAIN all
  <2> HIDE DEF all
  <2>1. DOMAIN all = 1 .. Len(all) /\ Len(all) \in Nat
    BY <1>10
  <2> QED
    BY <2>1
<1> HIDE DEF all
<1> QED
  BY <1>6, <1>9, <1>11, <1>12 DEF FirstGoes, fit

-----------------------------------------------------------------------------
(* Names.                                                                     *)

\* A set of names that numbering does not leave.
Numbers(N) == \A name \in N : \A n \in Nat : Numbered(name, n) \in N

\* What a registry holds.
Noted(N) == [seen : UNION {[D -> Nat] : D \in SUBSET N}, given : Seq(N)]

LEMMA RegisterIs ==
    ASSUME NEW N, Numbers(N), NEW names \in Noted(N), NEW name \in N
    PROVE  /\ Register(names, name) \in Noted(N)
           /\ Len(Register(names, name).given) = Len(names.given) + 1
<1>1. PICK D \in SUBSET N : names.seen \in [D -> Nat]
  BY DEF Noted
<1>2. names.given \in Seq(N)
  BY DEF Noted
<1>3. DOMAIN names.seen = D
  BY <1>1
<1>4. CASE name \notin D
  <2> DEFINE more == [x \in DOMAIN names.seen \cup {name} |-> IF x = name THEN 0 ELSE names.seen[x]]
  <2>1. more \in [D \cup {name} -> Nat]
    BY <1>1, <1>3
  <2>2. D \cup {name} \in SUBSET N
    OBVIOUS
  <2>3. Register(names, name) = [seen |-> more, given |-> Append(names.given, name)]
    BY <1>3, <1>4 DEF Register, Taken
  <2> HIDE DEF more
  <2>4. more \in UNION {[E -> Nat] : E \in SUBSET N}
    BY <2>1, <2>2
  <2>5. Append(names.given, name) \in Seq(N) /\ Len(Append(names.given, name)) = Len(names.given) + 1
    BY <1>2
  <2> QED
    BY <2>3, <2>4, <2>5 DEF Noted
<1>5. CASE name \in D
  <2> DEFINE next == names.seen[name] + 1
             more == [names.seen EXCEPT ![name] = next]
             said == Numbered(name, next)
  <2>1. next \in Nat
    BY <1>1, <1>5
  <2>2. said \in N
    BY <2>1 DEF Numbers
  <2>3. Register(names, name) = [seen |-> more, given |-> Append(names.given, said)]
    BY <1>3, <1>5 DEF Register, Taken
  <2> HIDE DEF next, said
  <2>4. more \in [D -> Nat]
    BY <1>1, <2>1
  <2> HIDE DEF more
  <2>5. Append(names.given, said) \in Seq(N) /\ Len(Append(names.given, said)) = Len(names.given) + 1
    BY <1>2, <2>2
  <2>6. more \in UNION {[E -> Nat] : E \in SUBSET N}
    BY <2>4
  <2> QED
    BY <2>3, <2>5, <2>6 DEF Noted
<1> QED
  BY <1>4, <1>5

LEMMA NoNamesIs ==
    ASSUME NEW N
    PROVE  NoNames \in Noted(N) /\ Len(NoNames.given) = 0
<1>1. <<>> \in [{} -> Nat] /\ {} \in SUBSET N
  OBVIOUS
<1>2. <<>> \in UNION {[E -> Nat] : E \in SUBSET N}
  BY <1>1
<1>3. <<>> \in Seq(N) /\ Len(<<>>) = 0
  OBVIOUS
<1> QED
  BY <1>2, <1>3, Zenon DEF NoNames, Noted

\* The steps of Registered, over a set that its names stay in.
RegisteredGoes(after, N, wanted) ==
    /\ after \in [0 .. Len(wanted) -> Noted(N)] /\ after[0] = NoNames
    /\ \A n \in 1 .. Len(wanted) : after[n] = Register(after[n - 1], wanted[n])
    /\ Registered(wanted) = after[Len(wanted)].given

LEMMA RegisteredSteps ==
    ASSUME NEW N, Numbers(N), NEW wanted \in Seq(N)
    PROVE  \E after : RegisteredGoes(after, N, wanted)
<1> DEFINE L == Len(wanted)
           T == Noted(N)
           g == [x \in T \X (1 .. L) |-> Register(x[1], wanted[x[2]])]
           Step(f, n) == IF n = 0 THEN NoNames ELSE Register(f[n - 1], wanted[n])
           Is(f) == f = [n \in 0 .. L |-> Step(f, n)]
           chosen == CHOOSE f : Is(f)
<1>1. L \in Nat /\ \A n \in 1 .. L : wanted[n] \in N
  OBVIOUS
<1>2. NoNames \in T
  BY NoNamesIs
<1>3. \A x \in T \X (1 .. L) : Register(x[1], wanted[x[2]]) \in T
  <2> SUFFICES ASSUME NEW names \in T, NEW n \in 1 .. L PROVE Register(names, wanted[n]) \in T
    OBVIOUS
  <2> QED
    BY <1>1, RegisterIs
<1> HIDE DEF T, L
<1>4. g \in [T \X (1 .. L) -> T]
  BY <1>3
<1>5. \A names \in T, n \in 1 .. L : g[<<names, n>>] = Register(names, wanted[n])
  OBVIOUS
<1> HIDE DEF g
<1>6. PICK f \in [0 .. L -> T] : Iterates(f, NoNames, g, L)
  <2> HIDE DEF Is, chosen
  <2> QED
    BY <1>1, <1>2, <1>4, Iterated, Zenon
<1>7. \A n \in 0 .. L : n # 0 => n \in 1 .. L /\ n - 1 \in 0 .. L
  BY <1>1
<1>8. \A n \in 0 .. L : f[n] = Step(f, n)
  <2>1. f[0] = NoNames /\ \A i \in 1 .. L : f[i] = g[<<f[i - 1], i>>]
    BY <1>6 DEF Iterates
  <2>2. \A n \in 0 .. L : f[n] \in T
    BY <1>6
  <2> QED
    BY <1>5, <1>7, <2>1, <2>2, Zenon
<1>9. Is(f)
  <2>1. f = [n \in 0 .. L |-> f[n]]
    BY <1>6
  <2> QED
    BY <1>8, <2>1
<1>10. Is(chosen)
  <2> HIDE DEF Is
  <2> QED
    BY <1>9
<1>11. \A n \in 0 .. L : chosen[n] = Step(chosen, n)
  BY <1>10
<1>12. chosen = [n \in 0 .. L |-> chosen[n]]
  BY <1>10
<1>13. Registered(wanted) = chosen[L].given
  BY DEF Registered, L
<1> HIDE DEF chosen
<1>14. chosen[0] = NoNames /\ \A n \in 1 .. L : chosen[n] = Register(chosen[n - 1], wanted[n])
  BY <1>1, <1>11
<1>15. \A n \in 0 .. L : chosen[n] \in T
  <2> DEFINE H == {n \in 0 .. L : chosen[n] \in T}
  <2>1. 0 \in H
    BY <1>1, <1>2, <1>14
  <2>2. ASSUME NEW m \in 0 .. L - 1, m \in H PROVE m + 1 \in H
    <3>1. m + 1 \in 0 .. L /\ (m + 1) - 1 = m /\ m + 1 \in 1 .. L
      BY <1>1
    <3>2. chosen[m + 1] = Register(chosen[m], wanted[m + 1])
      BY <1>14, <3>1
    <3>3. Register(chosen[m], wanted[m + 1]) \in T
      BY <1>1, <2>2, <3>1, RegisterIs DEF T
    <3> QED
      BY <3>1, <3>2, <3>3
  <2> HIDE DEF H
  <2>3. 0 .. L \subseteq H
    BY <1>1, <2>1, <2>2, UpTo
  <2> QED
    BY <2>3 DEF H
<1>16. chosen \in [0 .. L -> T]
  BY <1>12, <1>15
<1>17. RegisteredGoes(chosen, N, wanted)
  BY <1>13, <1>14, <1>16 DEF RegisteredGoes, L, T
<1> QED
  BY <1>17

\* A name is given for each that was wanted.
LEMMA RegisteredIs ==
    ASSUME NEW N, Numbers(N), NEW wanted \in Seq(N)
    PROVE  Registered(wanted) \in Seq(N) /\ Len(Registered(wanted)) = Len(wanted)
<1> DEFINE L == Len(wanted)
<1>1. PICK after : RegisteredGoes(after, N, wanted)
  BY RegisteredSteps
<1>2. /\ after \in [0 .. L -> Noted(N)] /\ after[0] = NoNames
      /\ \A n \in 1 .. L : after[n] = Register(after[n - 1], wanted[n])
      /\ Registered(wanted) = after[L].given
  BY <1>1 DEF RegisteredGoes
<1>3. L \in Nat /\ \A n \in 1 .. L : wanted[n] \in N
  OBVIOUS
<1> HIDE DEF L
<1> DEFINE H == {n \in 0 .. L : Len(after[n].given) = n}
<1>4. 0 \in H
  BY <1>2, <1>3, NoNamesIs
<1>5. ASSUME NEW m \in 0 .. L - 1, m \in H PROVE m + 1 \in H
  <2>1. m + 1 \in 0 .. L /\ (m + 1) - 1 = m /\ m + 1 \in 1 .. L /\ m \in 0 .. L
    BY <1>3
  <2>2. after[m + 1] = Register(after[m], wanted[m + 1])
    BY <1>2, <2>1
  <2>3. Len(Register(after[m], wanted[m + 1]).given) = Len(after[m].given) + 1
    BY <1>2, <1>3, <2>1, RegisterIs
  <2> QED
    BY <1>5, <2>1, <2>2, <2>3
<1>6. L \in H
  <2> HIDE DEF H
  <2>1. 0 .. L \subseteq H
    BY <1>3, <1>4, <1>5, UpTo
  <2> QED
    BY <1>3, <2>1
<1>7. after[L] \in Noted(N)
  BY <1>2, <1>3
<1>8. after[L].given \in Seq(N)
  BY <1>7 DEF Noted
<1> QED
  BY <1>2, <1>6, <1>8 DEF L

\* Names: putting a number behind one, or a source in front of it, gives another.
Fronts(N) == \A name \in N, source \in Texts : <<source, "dot">> \o name \in N

LEMMA LongerIs ==
    ASSUME NEW S, NEW a \in Seq(S), NEW b \in Seq(S)
    PROVE  a \o b \in Seq(S) /\ Len(a \o b) = Len(a) + Len(b)
OBVIOUS

LEMMA JoinedAt ==
    ASSUME NEW S, NEW a \in Seq(S), NEW b \in Seq(S)
    PROVE  /\ \A i \in 1 .. Len(a) : (a \o b)[i] = a[i]
           /\ \A i \in 1 .. Len(b) : (a \o b)[Len(a) + i] = b[i]
OBVIOUS

LEMMA OtherLength ==
    ASSUME NEW a, NEW b, Len(a) # Len(b)
    PROVE  a # b
OBVIOUS

LEMMA Double ==
    ASSUME NEW S, NEW x \in S, NEW y \in S
    PROVE  <<x, y>> \in Seq(S) /\ Len(<<x, y>>) = 2
OBVIOUS

LEMMA NoneIs ==
    ASSUME NEW S
    PROVE  <<>> \in Seq(S) /\ Len(<<>>) = 0
OBVIOUS

LEMMA NamesAre ==
    ASSUME NEW barred \in SUBSET {ChainExitName}
    PROVE  LET N == Names \ barred IN
           Numbers(N) /\ Fronts(N) /\ <<>> \in N /\ <<"Connection">> \in N /\ N \subseteq Names
<1> DEFINE N == Names \ barred
<1>1. "-" \in Texts /\ "1" \in Texts /\ "dot" \in Texts /\ "Connection" \in Texts
  BY TextsAssumption
<1>2. Len(ChainExitName) = 1 /\ ChainExitName # <<"Connection">>
  <2>1. ChainExitName[1] # <<"Connection">>[1]
    BY DEF ChainExitName
  <2> QED
    BY <2>1 DEF ChainExitName
<1>3. <<>> \in N
  BY <1>2, NoneIs DEF Names
<1>4. <<"Connection">> \in N
  BY <1>1, <1>2, Single DEF Names
<1>5. ASSUME NEW name \in N, NEW source \in Texts
      PROVE  <<source, "dot">> \o name \in N
  <2> DEFINE front == <<source, "dot">>
  <2>1. front \in Seq(Texts) /\ Len(front) = 2
    BY <1>1, Double
  <2> HIDE DEF front
  <2>2. name \in Seq(Texts) /\ Len(name) \in Nat
    BY DEF Names
  <2>3. front \o name \in Seq(Texts) /\ Len(front \o name) = 2 + Len(name)
    BY <2>1, <2>2, LongerIs
  <2>4. Len(front \o name) # Len(ChainExitName)
    BY <1>2, <2>2, <2>3
  <2>5. front \o name # ChainExitName
    BY <2>4, OtherLength, Zenon
  <2>6. front \o name \in N
    BY <2>3, <2>5 DEF Names
  <2> QED
    BY <2>6 DEF front
<1>6. ASSUME NEW name \in N, NEW n \in Nat
      PROVE  Numbered(name, n) \in N
  <2> DEFINE ones == [k \in 1 .. n |-> "1"]
             dash == <<"-">>
  <2>1. dash \in Seq(Texts) /\ dash[1] = "-" /\ Len(dash) = 1
    BY <1>1, Single
  <2>2. ones \in Seq(Texts) /\ Len(ones) = n
    <3>1. ones = [k \in 1 .. n |-> ones[k]] /\ \A k \in 1 .. n : ones[k] \in Texts
      BY <1>1
    <3> HIDE DEF ones
    <3> QED
      BY <3>1, Listed
  <2>3. Numbered(name, n) = (name \o dash) \o ones
    BY DEF Numbered
  <2> HIDE DEF ones, dash
  <2>4. name \in Seq(Texts) /\ Len(name) \in Nat
    BY DEF Names
  <2>5. name \o dash \in Seq(Texts) /\ Len(name \o dash) = Len(name) + 1
    BY <2>1, <2>4, LongerIs
  <2> DEFINE long == name \o dash
  <2>6. long \o ones \in Seq(Texts) /\ Len(long \o ones) = (Len(name) + 1) + n
    BY <2>2, <2>5, LongerIs
  <2>7. long \o ones # ChainExitName
    <3>1. CASE Len(name) + n # 0
      <4>1. Len(long \o ones) # Len(ChainExitName)
        BY <1>2, <2>4, <2>6, <3>1
      <4> QED
        BY <4>1, OtherLength, Zenon
    <3>2. CASE Len(name) + n = 0
      <4>1. Len(name) = 0 /\ n = 0
        BY <2>4, <3>2
      <4>2. Len(long) = 1
        BY <2>5, <4>1
      <4>3. long[1] = dash[1]
        <5>1. 1 \in 1 .. Len(dash) /\ Len(name) + 1 = 1
          BY <2>1, <4>1
        <5> QED
          BY <2>1, <2>4, <5>1, JoinedAt
      <4>4. (long \o ones)[1] = long[1]
        <5>1. 1 \in 1 .. Len(long)
          BY <4>2
        <5> QED
          BY <2>2, <2>5, <5>1, JoinedAt
      <4> DEFINE all == long \o ones
      <4>5. all[1] = "-"
        BY <2>1, <4>3, <4>4
      <4>6. ChainExitName[1] # "-"
        BY DEF ChainExitName
      <4> HIDE DEF all
      <4>7. all # ChainExitName
        BY <4>5, <4>6
      <4> QED
        BY <4>7 DEF all
    <3> QED
      BY <3>1, <3>2
  <2> QED
    BY <2>3, <2>6, <2>7 DEF Names
<1> QED
  BY <1>3, <1>4, <1>5, <1>6 DEF Numbers, Fronts

-----------------------------------------------------------------------------
(* Reading.                                                                   *)

NodeCreds == Creds \cup {"spoiled", "user", "blob"}

\* A link as it is read: one that the program wrote may hold a credential that it spoiled.
WideLink ==
    [scheme : Schemes, cred : NodeCreds, security : {"unsaid", "none", "tls", "xtls", "reality"},
     net : Nets, has : SUBSET Options]

\* A server with such a link.
WideServer == [label : Names, host : Texts, key : Texts, via : Names, link : WideLink]

\* A node, or the place of one that could not be read.
Loose(N) ==
    [name : N, host : Texts, key : Texts, via : Names, tls : BOOLEAN, tlsKey : BOOLEAN,
     reality : BOOLEAN, options : BOOLEAN, header : BOOLEAN, udp : BOOLEAN,
     cred : NodeCreds, type : Kinds \cup {"none"}, net : Nets,
     has : SUBSET (Options \cup {"noise", "fragments"})]

ProxyType ==
    [type : Kinds \cup {"none"}, cred : NodeCreds, tls : BOOLEAN, net : Nets, has : SUBSET Options]

\* A server of a type that is not always encrypted says by a key that it is.
TLSKeyed(node) ==
    (node.tls /\ node.type \notin {"trojan", "anytls", "hysteria2"}) => node.tlsKey

\* The node has a server's address and secret, and of the rest what was read.
Carries(node, server, proxy) ==
    /\ TLSKeyed(node)
    /\ node.host = server.host /\ node.key = server.key
    /\ node.type = proxy.type /\ node.cred = proxy.cred /\ node.tls = proxy.tls
    /\ node.net = proxy.net /\ node.has = proxy.has

LEMMA KindsAre == "none" \notin Kinds
BY DEF Kinds, DocumentOnly

LEMMA FineIs ==
    ASSUME NEW N
    PROVE  /\ \A node \in Loose(N) : node.type # "none" <=> node \in NodeOf(N)
           /\ NodeOf(N) \subseteq Loose(N)
BY KindsAre DEF Loose, NodeOf, NodeCreds

LEMMA NamedAnew ==
    ASSUME NEW N, NEW node \in Loose(N), NEW name \in N
    PROVE  [node EXCEPT !.name = name] \in Loose(N)
<1> DEFINE H == SUBSET (Options \cup {"noise", "fragments"})
           K == Kinds \cup {"none"}
<1> HIDE DEF H, K
<1>1. Loose(N) = [name : N, host : Texts, key : Texts, via : Names, tls : BOOLEAN, tlsKey : BOOLEAN,
     reality : BOOLEAN, options : BOOLEAN, header : BOOLEAN, udp : BOOLEAN,
                  cred : NodeCreds, type : K, net : Nets, has : H]
  BY Zenon DEF Loose, H, K
<1> QED
  BY <1>1

LEMMA NodeIs ==
    ASSUME NEW N, NEW server \in WideServer, NEW name \in N, NEW proxy \in ProxyType, NEW form
    PROVE  /\ Node(server, name, proxy, form) \in Loose(N)
           /\ Carries(Node(server, name, proxy, form), server, proxy)
<1>1. server.host \in Texts /\ server.key \in Texts /\ server.via \in Names
  BY DEF WideServer
<1>2. /\ proxy.type \in Kinds \cup {"none"} /\ proxy.cred \in NodeCreds /\ proxy.tls \in BOOLEAN
      /\ proxy.net \in Nets /\ proxy.has \in SUBSET Options
  BY DEF ProxyType
<1>3. proxy.has \in SUBSET (Options \cup {"noise", "fragments"})
  BY <1>2
<1> DEFINE node == Node(server, name, proxy, form)
<1>4. /\ node.tlsKey \in BOOLEAN /\ node.reality \in BOOLEAN /\ node.udp \in BOOLEAN
      /\ node.options \in BOOLEAN /\ node.header \in BOOLEAN
  BY <1>2 DEF Node, HasOptions, HostIsHeader, SaysUDP
<1>5. TLSKeyed(node)
  BY <1>2 DEF Node, TLSKeyed
<1>6. node = [name |-> node.name, type |-> node.type, cred |-> node.cred, tls |-> node.tls,
              net |-> node.net, has |-> node.has, host |-> node.host, key |-> node.key,
              via |-> node.via, tlsKey |-> node.tlsKey, reality |-> node.reality,
              options |-> node.options, header |-> node.header, udp |-> node.udp]
  BY DEF Node
<1>7. /\ node.name = name /\ node.type = proxy.type /\ node.cred = proxy.cred
      /\ node.tls = proxy.tls /\ node.net = proxy.net /\ node.has = proxy.has
      /\ node.host = server.host /\ node.key = server.key /\ node.via = server.via
  BY DEF Node
<1> HIDE DEF node
<1>8. node \in Loose(N)
  BY <1>1, <1>2, <1>3, <1>4, <1>6, <1>7 DEF Loose
<1>9. Carries(node, server, proxy)
  BY <1>5, <1>7 DEF Carries
<1> QED
  BY <1>8, <1>9 DEF node

\* One node is another under a name of N.
Anew(other, node, N) == \E name \in N : other = [node EXCEPT !.name = name]

LEMMA RenamedIs ==
    ASSUME NEW N, Numbers(N), NEW list \in Seq(Loose(N))
    PROVE  /\ Renamed(list) \in Seq(Loose(N)) /\ Len(Renamed(list)) = Len(list)
           /\ \A i \in DOMAIN list : Anew(Renamed(list)[i], list[i], N)
<1> DEFINE wanted == [i \in DOMAIN list |-> list[i].name]
           names == Registered(wanted)
           L == Len(list)
<1>1. L \in Nat /\ DOMAIN list = 1 .. L /\ \A i \in 1 .. L : list[i] \in Loose(N)
  OBVIOUS
<1>2. \A i \in 1 .. L : list[i].name \in N
  BY <1>1 DEF Loose
<1>3. wanted \in Seq(N) /\ Len(wanted) = L
  <2>1. wanted = [i \in 1 .. L |-> wanted[i]] /\ \A i \in 1 .. L : wanted[i] \in N
    BY <1>1, <1>2
  <2> HIDE DEF wanted, L
  <2> QED
    BY <1>1, <2>1, Listed
<1>4. names \in Seq(N) /\ Len(names) = L
  <2> HIDE DEF wanted, L
  <2> QED
    BY <1>3, RegisteredIs
<1>5. \A i \in 1 .. L : names[i] \in N
  <2> HIDE DEF names, L
  <2> QED
    BY <1>4
<1>6. Renamed(list) = [i \in 1 .. L |-> [list[i] EXCEPT !.name = names[i]]]
  BY <1>1 DEF Renamed
<1> HIDE DEF names, wanted, L
<1>7. \A i \in 1 .. L : Renamed(list)[i] = [list[i] EXCEPT !.name = names[i]]
  BY <1>6
<1>8. \A node \in Loose(N), name \in N : [node EXCEPT !.name = name] \in Loose(N)
  BY NamedAnew, Zenon
<1>9. \A i \in 1 .. L : Renamed(list)[i] \in Loose(N)
  <2> TAKE i \in 1 .. L
  <2>1. list[i] \in Loose(N) /\ names[i] \in N
    BY <1>1, <1>5
  <2>2. [list[i] EXCEPT !.name = names[i]] \in Loose(N)
    BY <1>8, <2>1, Zenon
  <2> QED
    BY <1>7, <2>2, Zenon
<1>10. Renamed(list) = [i \in 1 .. L |-> Renamed(list)[i]]
  BY <1>6
<1>11. Renamed(list) \in Seq(Loose(N)) /\ Len(Renamed(list)) = L
  BY <1>1, <1>9, <1>10, Listed
<1>12. \A i \in 1 .. L : Anew(Renamed(list)[i], list[i], N)
  BY <1>5, <1>7, Zenon DEF Anew
<1> QED
  BY <1>1, <1>11, <1>12 DEF L

\* What is read of the servers at some places: given is as long, named and typed.
ReadIs(N, T, servers, places, read, P, given) ==
    /\ given \in Seq(Loose(N)) /\ Len(given) = Len(read)
    /\ read \in Seq(T) /\ ToSet(read) = {servers[i] : i \in places \cap DOMAIN servers}
    /\ \A i \in DOMAIN read : Carries(given[i], read[i], P[read[i]])

\* What a reader of one proxy after the other gives: P reads a server, W names it.
LEMMA ReadAs ==
    ASSUME NEW N, Numbers(N), NEW T \in SUBSET WideServer, NEW servers \in Seq(T), NEW places,
           NEW P \in [T -> ProxyType], NEW W \in [T -> N], NEW form,
           NEW read, read = At(servers, places),
           NEW wanted, wanted = [i \in DOMAIN read |-> Node(read[i], W[read[i]], P[read[i]], form)]
    PROVE  ReadIs(N, T, servers, places, read, P, Renamed(wanted))
<1> DEFINE L == Len(read)
<1>1. read \in Seq(T) /\ ToSet(read) = {servers[i] : i \in places \cap DOMAIN servers}
  BY AtIs, AtSet
<1>2. L \in Nat /\ DOMAIN read = 1 .. L /\ \A i \in 1 .. L : read[i] \in T /\ read[i] \in WideServer
  BY <1>1
<1> HIDE DEF L
<1>3. \A i \in 1 .. L : W[read[i]] \in N /\ P[read[i]] \in ProxyType
  BY <1>2
<1>4. \A i \in 1 .. L : wanted[i] = Node(read[i], W[read[i]], P[read[i]], form)
  BY <1>2
<1>5. \A i \in 1 .. L : wanted[i] \in Loose(N) /\ Carries(wanted[i], read[i], P[read[i]])
  BY <1>2, <1>3, <1>4, NodeIs
<1>6. wanted = [i \in 1 .. L |-> wanted[i]]
  BY <1>2
<1>7. wanted \in Seq(Loose(N)) /\ Len(wanted) = L /\ DOMAIN wanted = 1 .. L
  BY <1>2, <1>5, <1>6, Listed
<1>8. /\ Renamed(wanted) \in Seq(Loose(N)) /\ Len(Renamed(wanted)) = L
      /\ \A i \in 1 .. L : Anew(Renamed(wanted)[i], wanted[i], N)
  <2>1. wanted \in Seq(Loose(N))
    BY <1>7
  <2>2. /\ Renamed(wanted) \in Seq(Loose(N)) /\ Len(Renamed(wanted)) = Len(wanted)
        /\ \A i \in DOMAIN wanted : Anew(Renamed(wanted)[i], wanted[i], N)
    BY <2>1, RenamedIs, Zenon
  <2> QED
    BY <1>7, <2>2, Zenon
<1>9. \A node \in Loose(N), name \in N, server \in WideServer, proxy \in ProxyType :
          Carries(node, server, proxy) => Carries([node EXCEPT !.name = name], server, proxy)
  <2> TAKE node \in Loose(N), name \in N, server \in WideServer, proxy \in ProxyType
  <2> DEFINE other == [node EXCEPT !.name = name]
  <2>1. /\ other.host = node.host /\ other.key = node.key /\ other.type = node.type /\ other.cred = node.cred
        /\ other.tls = node.tls /\ other.net = node.net /\ other.has = node.has
        /\ other.tlsKey = node.tlsKey
    BY DEF Loose
  <2> HIDE DEF other
  <2>2. Carries(node, server, proxy) => Carries(other, server, proxy)
    BY <2>1, Zenon DEF Carries, TLSKeyed
  <2> QED
    BY <2>2 DEF other
<1>10. \A i \in 1 .. L : Carries(Renamed(wanted)[i], read[i], P[read[i]])
  <2> TAKE i \in 1 .. L
  <2>1. PICK name \in N : Renamed(wanted)[i] = [wanted[i] EXCEPT !.name = name]
    BY <1>8 DEF Anew
  <2>2. read[i] \in WideServer /\ P[read[i]] \in ProxyType /\ wanted[i] \in Loose(N)
    BY <1>2, <1>3, <1>5
  <2>3. Carries(wanted[i], read[i], P[read[i]])
    BY <1>5
  <2>4. Carries([wanted[i] EXCEPT !.name = name], read[i], P[read[i]])
    BY <1>9, <2>2, <2>3, Zenon
  <2> QED
    BY <2>1, <2>4, Zenon
<1> QED
  BY <1>1, <1>2, <1>8, <1>10 DEF L, ReadIs

\* What is true of a proxy against the link it is read from.
Faithful(link, proxy) ==
    /\ proxy.type = TypeOf(link.scheme)
    /\ EncryptionIsKept(link, proxy) /\ VerificationIsKept(link, proxy)

LEMMA DecodedIs ==
    ASSUME NEW cred \in NodeCreds
    PROVE  Decoded(cred) \in NodeCreds
BY DEF Decoded, NodeCreds, Creds

LEMMA NetworkIs ==
    ASSUME NEW net \in Nets
    PROVE  LinkNetwork(net) \in Nets
BY DEF LinkNetwork, Nets

\* A reader that keeps some of the options.
Proxy(type, cred, tls, net, has) == [type |-> type, cred |-> cred, tls |-> tls, net |-> net, has |-> has]

LEMMA ProxyIs ==
    ASSUME NEW type \in Kinds \cup {"none"}, NEW cred \in NodeCreds, NEW tls \in BOOLEAN, NEW net \in Nets,
           NEW has \in SUBSET Options
    PROVE  Proxy(type, cred, tls, net, has) \in ProxyType
BY DEF Proxy, ProxyType

LEMMA NoProxyIs == NoProxy \in ProxyType /\ NoProxy.type = "none"
BY DEF NoProxy, ProxyType, NodeCreds, Creds, Nets

LEMMA VShareIs ==
    ASSUME NEW link \in WideLink
    PROVE  LET proxy == ParseVShare(link) IN
           \/ proxy = NoProxy
           \/ /\ proxy \in ProxyType /\ proxy.type = "vless" /\ proxy.has \subseteq link.has
              /\ proxy.tls = (link.security \in {"tls", "xtls", "reality"})
              /\ "pbk" \in link.has => "pbk" \in proxy.has
<1> DEFINE net == LinkNetwork(link.net)
           tls == link.security \in {"tls", "xtls", "reality"}
           has == link.has \cap ({"sni", "pbk", "packet"} \cup TransportReads(net)
                                 \cup IF tls THEN {"utls", "alpn", "pin"} ELSE {})
<1>1. link.cred \in NodeCreds /\ link.net \in Nets /\ link.has \in SUBSET Options
  BY DEF WideLink
<1>2. net \in Nets /\ Decoded(link.cred) \in NodeCreds
  BY <1>1, DecodedIs, NetworkIs
<1>3. has \in SUBSET Options /\ has \subseteq link.has /\ ("pbk" \in link.has => "pbk" \in has)
  BY <1>1
<1>4. tls \in BOOLEAN
  OBVIOUS
<1>5. ParseVShare(link) = IF link.cred = "none" \/ FailsLate(link) THEN NoProxy
                          ELSE Proxy("vless", Decoded(link.cred), tls, net, has)
  BY DEF ParseVShare, Proxy
<1> HIDE DEF net, has
<1>6. Proxy("vless", Decoded(link.cred), tls, net, has) \in ProxyType
  BY <1>2, <1>3, <1>4, ProxyIs DEF Kinds
<1> QED
  BY <1>3, <1>5, <1>6 DEF Proxy

\* A reader gives nothing, or a proxy of the link's type with some of its options.
Reads(link, proxy) ==
    \/ proxy = NoProxy
    \/ proxy \in ProxyType /\ proxy.type = TypeOf(link.scheme) /\ proxy.has \subseteq link.has

\* The securities and pins of the schemes, as links say them.
Secures(link, proxy) ==
    /\ link.scheme \in {"vless", "vmess-aead"} => proxy.tls = (link.security \in {"tls", "xtls", "reality"})
    /\ link.scheme = "vmess" => proxy.tls = (link.security \in {"tls", "xtls"})
    /\ link.scheme \in {"trojan", "anytls", "hysteria2"} => proxy.tls
    /\ link.scheme = "http-proxy" => proxy.tls = (link.security = "tls")
    /\ link.scheme \in {"vless", "vmess-aead"} /\ "pbk" \in link.has => "pbk" \in proxy.has
    /\ link.scheme = "anytls" /\ "pin" \in link.has => "pin" \in proxy.has

LEMMA VlessIs ==
    ASSUME NEW link \in WideLink, link.scheme \in {"vless", "vmess-aead"}
    PROVE  LET proxy == IF link.scheme = "vless" THEN ParseVless(link) ELSE ParseVmessAead(link) IN
           Reads(link, proxy) /\ (proxy # NoProxy => Secures(link, proxy))
<1> DEFINE p == ParseVShare(link)
           proxy == IF link.scheme = "vless" THEN ParseVless(link) ELSE ParseVmessAead(link)
<1>1. link.has \in SUBSET Options
  BY DEF WideLink
<1>2. \/ p = NoProxy
      \/ /\ p \in ProxyType /\ p.type = "vless" /\ p.has \subseteq link.has
         /\ p.tls = (link.security \in {"tls", "xtls", "reality"})
         /\ "pbk" \in link.has => "pbk" \in p.has
  BY VShareIs
<1>3. CASE p = NoProxy
  <2>1. proxy = NoProxy
    BY <1>3 DEF ParseVless, ParseVmessAead
  <2> QED
    BY <2>1 DEF Reads
<1>4. CASE p # NoProxy /\ link.scheme = "vless"
  <2> DEFINE has == p.has \cup (link.has \cap {"flow", "encryption"})
  <2>1. proxy = [p EXCEPT !.has = has]
    BY <1>4 DEF ParseVless
  <2>2. has \in SUBSET Options /\ has \subseteq link.has /\ ("pbk" \in link.has => "pbk" \in has)
    BY <1>1, <1>2, <1>4
  <2> HIDE DEF has, p
  <2>3. proxy \in ProxyType /\ proxy.type = "vless" /\ proxy.has = has /\ proxy.tls = p.tls
    BY <1>2, <1>4, <2>1, <2>2 DEF ProxyType
  <2>4. TypeOf(link.scheme) = "vless"
    BY <1>4 DEF TypeOf
  <2> QED
    BY <1>2, <1>4, <2>2, <2>3, <2>4 DEF Reads, Secures
<1>5. CASE p # NoProxy /\ link.scheme = "vmess-aead"
  <2>1. proxy = [p EXCEPT !.type = "vmess"]
    BY <1>5 DEF ParseVmessAead
  <2> HIDE DEF p
  <2>2. proxy \in ProxyType /\ proxy.type = "vmess" /\ proxy.has = p.has /\ proxy.tls = p.tls
    BY <1>2, <1>5, <2>1 DEF ProxyType, Kinds
  <2>3. TypeOf(link.scheme) = "vmess"
    BY <1>5 DEF TypeOf
  <2> QED
    BY <1>2, <1>5, <2>2, <2>3 DEF Reads, Secures
<1> QED
  BY <1>3, <1>4, <1>5

\* What a reader makes is a proxy of the link when its parts are.
LEMMA ReadsProxy ==
    ASSUME NEW link \in WideLink, NEW type \in Kinds, type = TypeOf(link.scheme), NEW cred \in NodeCreds,
           NEW tls \in BOOLEAN, NEW net \in Nets, NEW of
    PROVE  /\ Reads(link, Proxy(type, cred, tls, net, link.has \cap of))
           /\ Proxy(type, cred, tls, net, link.has \cap of) # NoProxy
<1>1. link.has \in SUBSET Options /\ link.has \cap of \in SUBSET Options
  BY DEF WideLink
<1>2. Proxy(type, cred, tls, net, link.has \cap of) \in ProxyType
  BY <1>1, ProxyIs
<1>3. Proxy(type, cred, tls, net, link.has \cap of).type # "none"
  BY KindsAre DEF Proxy
<1> QED
  BY <1>2, <1>3, NoProxyIs DEF Reads, Proxy

LEMMA VmessIs ==
    ASSUME NEW link \in WideLink, link.scheme = "vmess"
    PROVE  Reads(link, ParseVmess(link)) /\ (ParseVmess(link) # NoProxy => Secures(link, ParseVmess(link)))
<1> DEFINE net == LinkNetwork(link.net)
           tls == link.security \in {"tls", "xtls"}
           of == {"sni"} \cup (IF tls THEN {"alpn"} ELSE {})
                     \cup IF net = "xhttp" THEN {} ELSE TransportReads(net)
           proxy == Proxy("vmess", link.cred, tls, net, link.has \cap of)
<1>1. link.cred \in NodeCreds /\ net \in Nets /\ tls \in BOOLEAN /\ TypeOf(link.scheme) = "vmess" /\ "vmess" \in Kinds
  BY NetworkIs DEF WideLink, TypeOf, Kinds
<1>2. ParseVmess(link) = IF link.cred = "none" THEN NoProxy ELSE proxy
  BY DEF ParseVmess, Proxy
<1>3. Secures(link, proxy)
  BY DEF Secures, Proxy
<1> HIDE DEF net, tls, of
<1>4. Reads(link, proxy)
  BY <1>1, ReadsProxy
<1> QED
  BY <1>2, <1>3, <1>4 DEF Reads

LEMMA TrojanIs ==
    ASSUME NEW link \in WideLink, link.scheme = "trojan"
    PROVE  Reads(link, ParseTrojan(link)) /\ (ParseTrojan(link) # NoProxy => Secures(link, ParseTrojan(link)))
<1> DEFINE net == IF link.net = "tcp-http" THEN "tcp" ELSE link.net
           of == {"insecure", "sni", "alpn", "utls", "pin"}
                     \cup CASE link.net = "ws" -> {"path"} [] link.net = "grpc" -> {"service"} [] OTHER -> {}
           proxy == Proxy("trojan", Decoded(link.cred), TRUE, net, link.has \cap of)
<1>1. /\ Decoded(link.cred) \in NodeCreds /\ net \in Nets /\ TypeOf(link.scheme) = "trojan" /\ "trojan" \in Kinds
  BY DecodedIs DEF WideLink, TypeOf, Kinds, Nets
<1>2. ParseTrojan(link) = IF link.cred = "none" THEN NoProxy ELSE proxy
  BY DEF ParseTrojan, Proxy
<1>3. Secures(link, proxy)
  BY DEF Secures, Proxy
<1> HIDE DEF net, of
<1>4. Reads(link, proxy)
  BY <1>1, ReadsProxy
<1> QED
  BY <1>2, <1>3, <1>4 DEF Reads

LEMMA AnyTlsIs ==
    ASSUME NEW link \in WideLink, link.scheme = "anytls"
    PROVE  Reads(link, ParseAnyTls(link)) /\ (ParseAnyTls(link) # NoProxy => Secures(link, ParseAnyTls(link)))
<1> DEFINE of == {"insecure", "sni", "alpn", "pin", "utls"}
           proxy == Proxy("anytls", AnyTlsPassword(link.cred), TRUE, "tcp", link.has \cap of)
<1>1. /\ AnyTlsPassword(link.cred) \in NodeCreds /\ "tcp" \in Nets /\ TypeOf(link.scheme) = "anytls"
      /\ "anytls" \in Kinds
  BY DecodedIs DEF WideLink, TypeOf, Kinds, Nets, AnyTlsPassword, NodeCreds, Creds
<1>2. ParseAnyTls(link) = IF link.cred = "none" THEN NoProxy ELSE proxy
  BY DEF ParseAnyTls, Proxy
<1>3. Secures(link, proxy)
  BY DEF Secures, Proxy
<1> HIDE DEF of
<1>4. Reads(link, proxy)
  BY <1>1, ReadsProxy
<1> QED
  BY <1>2, <1>3, <1>4 DEF Reads

LEMMA SocksIs ==
    ASSUME NEW link \in WideLink, link.scheme = "socks"
    PROVE  Reads(link, ParseSocks(link)) /\ (ParseSocks(link) # NoProxy => Secures(link, ParseSocks(link)))
<1> DEFINE of == {"no-udp"}
           proxy == Proxy("socks5", SocksCredentials(link.cred), FALSE, "tcp", link.has \cap of)
<1>1. /\ SocksCredentials(link.cred) \in NodeCreds /\ "tcp" \in Nets /\ TypeOf(link.scheme) = "socks5"
      /\ "socks5" \in Kinds
  BY DEF WideLink, TypeOf, Kinds, Nets, SocksCredentials, NodeCreds, Creds
<1>2. ParseSocks(link) = IF link.cred = "secret" THEN NoProxy ELSE proxy
  BY DEF ParseSocks, Proxy
<1>3. Secures(link, proxy)
  BY DEF Secures, Proxy
<1> HIDE DEF of
<1>4. Reads(link, proxy)
  BY <1>1, ReadsProxy
<1> QED
  BY <1>2, <1>3, <1>4 DEF Reads

LEMMA HTTPProxyIs ==
    ASSUME NEW link \in WideLink, link.scheme = "http-proxy"
    PROVE  /\ Reads(link, ParseHTTPProxy(link))
           /\ ParseHTTPProxy(link) # NoProxy => Secures(link, ParseHTTPProxy(link))
<1> DEFINE of == {"insecure", "sni"}
           tls == link.security = "tls"
           proxy == Proxy("http", SocksCredentials(link.cred), tls, "tcp", link.has \cap of)
<1>1. /\ SocksCredentials(link.cred) \in NodeCreds /\ "tcp" \in Nets /\ TypeOf(link.scheme) = "http"
      /\ "http" \in Kinds /\ tls \in BOOLEAN
  BY DEF WideLink, TypeOf, Kinds, Nets, SocksCredentials, NodeCreds, Creds
<1>2. ParseHTTPProxy(link) = IF link.cred = "secret" THEN NoProxy ELSE proxy
  BY DEF ParseHTTPProxy, Proxy
<1>3. Secures(link, proxy)
  BY DEF Secures, Proxy
<1> HIDE DEF of, tls
<1>4. Reads(link, proxy)
  BY <1>1, ReadsProxy
<1> QED
  BY <1>2, <1>3, <1>4 DEF Reads

LEMMA HysteriaIs ==
    ASSUME NEW link \in WideLink, link.scheme = "hysteria2"
    PROVE  /\ Reads(link, ParseHysteria2(link))
           /\ ParseHysteria2(link) # NoProxy => Secures(link, ParseHysteria2(link))
<1> DEFINE of == {"insecure", "sni", "alpn", "obfs", "ports", "pin"}
           proxy == Proxy("hysteria2", Decoded(link.cred), TRUE, "tcp", link.has \cap of)
<1>1. /\ Decoded(link.cred) \in NodeCreds /\ "tcp" \in Nets /\ TypeOf(link.scheme) = "hysteria2"
      /\ "hysteria2" \in Kinds
  BY DecodedIs DEF WideLink, TypeOf, Kinds, Nets
<1>2. ParseHysteria2(link) = IF link.cred = "none" THEN NoProxy ELSE proxy
  BY DEF ParseHysteria2, Proxy
<1>3. Secures(link, proxy)
  BY DEF Secures, Proxy
<1> HIDE DEF of
<1>4. Reads(link, proxy)
  BY <1>1, ReadsProxy
<1> QED
  BY <1>2, <1>3, <1>4 DEF Reads

LEMMA WireGuardIs ==
    ASSUME NEW link \in WideLink, link.scheme = "wireguard"
    PROVE  /\ Reads(link, ParseWireGuard(link))
           /\ ParseWireGuard(link) # NoProxy => Secures(link, ParseWireGuard(link))
<1> DEFINE of == {"psk", "reserved"}
           proxy == Proxy("wireguard", Decoded(Decoded(link.cred)), FALSE, "tcp", link.has \cap of)
<1>1. /\ Decoded(Decoded(link.cred)) \in NodeCreds /\ "tcp" \in Nets /\ TypeOf(link.scheme) = "wireguard"
      /\ "wireguard" \in Kinds
  BY DecodedIs DEF WideLink, TypeOf, Kinds, Nets
<1>2. ParseWireGuard(link) = IF link.cred = "none" THEN NoProxy ELSE proxy
  BY DEF ParseWireGuard, Proxy
<1>3. Secures(link, proxy)
  BY DEF Secures, Proxy
<1> HIDE DEF of
<1>4. Reads(link, proxy)
  BY <1>1, ReadsProxy
<1> QED
  BY <1>2, <1>3, <1>4 DEF Reads

LEMMA ShadowsocksIs ==
    ASSUME NEW link \in WideLink, link.scheme = "ss"
    PROVE  /\ Reads(link, ParseShadowsocks(link))
           /\ ParseShadowsocks(link) # NoProxy => Secures(link, ParseShadowsocks(link))
<1> DEFINE of == {"plugin", "uot"}
           cred == IF link.cred = "wrapped" THEN "plus" ELSE Decoded(link.cred)
           proxy == Proxy("ss", cred, FALSE, "tcp", link.has \cap of)
<1>1. cred \in NodeCreds /\ "tcp" \in Nets /\ TypeOf(link.scheme) = "ss" /\ "ss" \in Kinds
  BY DecodedIs DEF WideLink, TypeOf, Kinds, Nets, NodeCreds, Creds
<1>2. ParseShadowsocks(link) = IF link.cred = "none" THEN NoProxy ELSE proxy
  BY DEF ParseShadowsocks, Proxy
<1>3. Secures(link, proxy)
  BY DEF Secures, Proxy
<1> HIDE DEF of, cred
<1>4. Reads(link, proxy)
  BY <1>1, ReadsProxy
<1> QED
  BY <1>2, <1>3, <1>4 DEF Reads

\* Every scheme of links.
LEMMA ConvertIs ==
    ASSUME NEW link \in WideLink
    PROVE  Reads(link, ConvertLink(link)) /\ (ConvertLink(link) # NoProxy => Secures(link, ConvertLink(link)))
<1>1. CASE link.scheme = "vless"
  <2>1. ConvertLink(link) = ParseVless(link)
    BY <1>1 DEF ConvertLink
  <2> QED
    BY <1>1, <2>1, VlessIs
<1>2. CASE link.scheme = "vmess-aead"
  <2>1. ConvertLink(link) = ParseVmessAead(link)
    BY <1>2 DEF ConvertLink
  <2> QED
    BY <1>2, <2>1, VlessIs
<1>3. CASE link.scheme = "vmess"
  <2>1. ConvertLink(link) = ParseVmess(link)
    BY <1>3 DEF ConvertLink
  <2> QED
    BY <1>3, <2>1, VmessIs
<1>4. CASE link.scheme = "trojan"
  <2>1. ConvertLink(link) = ParseTrojan(link)
    BY <1>4 DEF ConvertLink
  <2> QED
    BY <1>4, <2>1, TrojanIs
<1>5. CASE link.scheme = "anytls"
  <2>1. ConvertLink(link) = ParseAnyTls(link)
    BY <1>5 DEF ConvertLink
  <2> QED
    BY <1>5, <2>1, AnyTlsIs
<1>6. CASE link.scheme = "socks"
  <2>1. ConvertLink(link) = ParseSocks(link)
    BY <1>6 DEF ConvertLink
  <2> QED
    BY <1>6, <2>1, SocksIs
<1>7. CASE link.scheme = "http-proxy"
  <2>1. ConvertLink(link) = ParseHTTPProxy(link)
    BY <1>7 DEF ConvertLink
  <2> QED
    BY <1>7, <2>1, HTTPProxyIs
<1>8. CASE link.scheme = "ss"
  <2>1. ConvertLink(link) = ParseShadowsocks(link)
    BY <1>8 DEF ConvertLink
  <2> QED
    BY <1>8, <2>1, ShadowsocksIs
<1>9. CASE link.scheme = "hysteria2"
  <2>1. ConvertLink(link) = ParseHysteria2(link)
    BY <1>9 DEF ConvertLink
  <2> QED
    BY <1>9, <2>1, HysteriaIs
<1>10. CASE link.scheme = "wireguard"
  <2>1. ConvertLink(link) = ParseWireGuard(link)
    BY <1>10 DEF ConvertLink
  <2> QED
    BY <1>10, <2>1, WireGuardIs
<1>11. CASE link.scheme \in {"wireguard-ini"} \cup DocumentOnly
  <2>1. ConvertLink(link) = NoProxy
    BY <1>11 DEF ConvertLink, DocumentOnly
  <2> QED
    BY <2>1 DEF Reads
<1>12. link.scheme \in Schemes
  BY DEF WideLink
<1> QED
  BY <1>1, <1>2, <1>3, <1>4, <1>5, <1>6, <1>7, <1>8, <1>9, <1>10, <1>11, <1>12 DEF Schemes, Supported

\* A link that is said as links are keeps what protects it.
LEMMA ConvertFaithful ==
    ASSUME NEW link \in LinkType, link.security \in SecuritiesOf(link.scheme), ConvertLink(link) # NoProxy
    PROVE  Faithful(link, ConvertLink(link))
<1> DEFINE proxy == ConvertLink(link)
<1>1. link \in WideLink
  BY DEF LinkType, WideLink, NodeCreds
<1>2. Reads(link, proxy) /\ Secures(link, proxy)
  BY <1>1, ConvertIs
<1>3. link.scheme \in Schemes
  BY DEF LinkType
<1> HIDE DEF proxy
<1>4. EncryptionIsKept(link, proxy)
  BY <1>2, <1>3 DEF Secures, EncryptionIsKept, SecuritiesOf, Schemes, Supported
<1>5. VerificationIsKept(link, proxy)
  BY <1>2 DEF Reads, Secures, VerificationIsKept, NoProxy
<1>6. proxy.type = TypeOf(link.scheme)
  BY <1>2 DEF Reads, proxy
<1> QED
  BY <1>4, <1>5, <1>6 DEF Faithful, proxy

\* JSON says tls or reality of its servers, and nothing else.
Said(link) == link \in LinkType /\ link.security \in SecuritiesOf(link.scheme) /\ link.security # "xtls"

LEMMA VerbatimIs ==
    ASSUME NEW cred \in NodeCreds
    PROVE  Verbatim(cred) \in NodeCreds
BY DEF Verbatim, NodeCreds, Creds

\* The readers of JSON: the type of the scheme, and tls when the description says so.
LEMMA JSONFaithful ==
    ASSUME NEW link, Said(link), NEW cred \in NodeCreds, NEW net \in Nets, NEW type \in Kinds,
           type = TypeOf(link.scheme), link.scheme # "anytls", NEW of,
           (link.scheme = "vless" /\ link.security = "reality") => "pbk" \in of
    PROVE  LET proxy == Proxy(type, cred, link.security \in {"tls", "reality"}, net, link.has \cap of) IN
           proxy \in ProxyType /\ proxy # NoProxy /\ Faithful(link, proxy)
<1> DEFINE tls == link.security \in {"tls", "reality"}
           proxy == Proxy(type, cred, tls, net, link.has \cap of)
<1>1. link \in WideLink /\ tls \in BOOLEAN
  BY DEF LinkType, WideLink, NodeCreds, Said
<1>2. Reads(link, proxy) /\ proxy # NoProxy
  <2> HIDE DEF tls
  <2> QED
    BY <1>1, ReadsProxy
<1>3. proxy.tls = tls /\ proxy.has = link.has \cap of
  BY DEF Proxy
<1>4. EncryptionIsKept(link, proxy)
  BY <1>3 DEF EncryptionIsKept
<1>5. VerificationIsKept(link, proxy)
  BY <1>3 DEF VerificationIsKept
<1> QED
  BY <1>2, <1>4, <1>5 DEF Reads, Faithful

LEMMA SingBoxFaithful ==
    ASSUME NEW link, Said(link)
    PROVE  LET proxy == SingBoxProxy(link) IN
           proxy = NoProxy \/ (proxy \in ProxyType /\ proxy # NoProxy /\ Faithful(link, proxy))
<1> DEFINE type == IF link.scheme = "vmess-aead" THEN "vmess" ELSE link.scheme
           net == IF link.net \in {"ws", "grpc", "http", "httpupgrade"} THEN link.net ELSE "tcp"
           of == SingBoxTLS(link) \cup SingBoxTransport(net) \cup IF type = "vless" THEN {"flow"} ELSE {}
           tls == link.security \in {"tls", "reality"}
           proxy == Proxy(type, Verbatim(link.cred), tls, net, link.has \cap of)
<1>1. SingBoxProxy(link) = IF type \notin {"vless", "vmess", "trojan", "ss", "hysteria2"} THEN NoProxy ELSE proxy
  BY DEF SingBoxProxy, Proxy
<1>2. CASE type \in {"vless", "vmess", "trojan", "ss", "hysteria2"}
  <2>1. link.cred \in NodeCreds
    BY DEF Said, LinkType, NodeCreds
  <2>2. Verbatim(link.cred) \in NodeCreds
    BY <2>1, VerbatimIs
  <2>3. net \in Nets
    BY DEF Nets
  <2>4. type \in Kinds /\ type = TypeOf(link.scheme) /\ link.scheme # "anytls"
    BY <1>2 DEF Kinds, TypeOf
  <2>5. (link.scheme = "vless" /\ link.security = "reality") => "pbk" \in of
    BY DEF SingBoxTLS
  <2> HIDE DEF type, net, of
  <2>6. proxy \in ProxyType /\ proxy # NoProxy /\ Faithful(link, proxy)
    BY <2>2, <2>3, <2>4, <2>5, JSONFaithful
  <2> QED
    BY <1>1, <1>2, <2>6
<1> QED
  BY <1>1, <1>2

LEMMA XrayWireGuardFaithful ==
    ASSUME NEW link, Said(link), link.scheme = "wireguard"
    PROVE  LET proxy == XrayWireGuard(link) IN
           proxy = NoProxy \/ (proxy \in ProxyType /\ proxy # NoProxy /\ Faithful(link, proxy))
<1> DEFINE of == {"psk", "reserved"}
           tls == link.security \in {"tls", "reality"}
           proxy == Proxy("wireguard", Verbatim(link.cred), tls, "tcp", link.has \cap of)
<1>1. tls = FALSE
  BY DEF Said, SecuritiesOf
<1>2. XrayWireGuard(link) = IF link.cred = "none" THEN NoProxy ELSE proxy
  BY <1>1 DEF XrayWireGuard, Proxy
<1>3. Verbatim(link.cred) \in NodeCreds
  BY VerbatimIs DEF Said, LinkType, NodeCreds
<1>4. "tcp" \in Nets /\ "wireguard" \in Kinds /\ "wireguard" = TypeOf(link.scheme) /\ link.scheme # "anytls"
  BY DEF Nets, Kinds, TypeOf
<1> HIDE DEF of
<1>5. (link.scheme = "vless" /\ link.security = "reality") => "pbk" \in of
  OBVIOUS
<1>6. proxy \in ProxyType /\ proxy # NoProxy /\ Faithful(link, proxy)
  BY <1>3, <1>4, <1>5, JSONFaithful
<1> QED
  BY <1>2, <1>6

LEMMA XrayFaithful ==
    ASSUME NEW link, Said(link)
    PROVE  LET proxy == XrayProxy(link) IN
           proxy = NoProxy \/ (proxy \in ProxyType /\ proxy # NoProxy /\ Faithful(link, proxy))
<1> DEFINE type == IF link.scheme = "vmess-aead" THEN "vmess" ELSE link.scheme
           net == XrayNetwork(link.net)
           of == XrayTLS(link) \cup XrayTransport(net) \cup IF type = "vless" THEN {"flow"} ELSE {}
           tls == link.security \in {"tls", "reality"}
           proxy == Proxy(type, Verbatim(link.cred), tls, net, link.has \cap of)
<1>1. CASE type = "wireguard"
  <2>1. XrayProxy(link) = XrayWireGuard(link) /\ link.scheme = "wireguard"
    BY <1>1 DEF XrayProxy
  <2> QED
    BY <2>1, XrayWireGuardFaithful
<1>2. CASE type \in {"vless", "vmess", "trojan", "ss"}
  <2>1. XrayProxy(link) = proxy
    BY <1>2 DEF XrayProxy, Proxy
  <2>2. Verbatim(link.cred) \in NodeCreds
    BY VerbatimIs DEF Said, LinkType, NodeCreds
  <2>3. net \in Nets
    BY DEF Nets, XrayNetwork
  <2>4. type \in Kinds /\ type = TypeOf(link.scheme) /\ link.scheme # "anytls"
    BY <1>2 DEF Kinds, TypeOf
  <2>5. (link.scheme = "vless" /\ link.security = "reality") => "pbk" \in of
    BY DEF XrayTLS
  <2> HIDE DEF type, net, of
  <2>6. proxy \in ProxyType /\ proxy # NoProxy /\ Faithful(link, proxy)
    BY <2>2, <2>3, <2>4, <2>5, JSONFaithful
  <2> QED
    BY <2>1, <2>6
<1>3. CASE type \notin {"wireguard", "vless", "vmess", "trojan", "ss"}
  <2>1. XrayProxy(link) = NoProxy
    BY <1>3 DEF XrayProxy
  <2> QED
    BY <2>1
<1> QED
  BY <1>1, <1>2, <1>3

\* A document's server, as it is.
DocumentProxy(link) ==
    [type |-> TypeOf(link.scheme), cred |-> Verbatim(link.cred),
     tls |-> link.security \in {"tls", "reality"}, net |-> link.net, has |-> link.has]

LEMMA TypeOfIs ==
    ASSUME NEW scheme \in Schemes
    PROVE  TypeOf(scheme) \in Kinds
BY DEF TypeOf, Kinds, Schemes, Supported

LEMMA DocumentFaithful ==
    ASSUME NEW link, Said(link)
    PROVE  DocumentProxy(link) \in ProxyType /\ DocumentProxy(link) # NoProxy /\ Faithful(link, DocumentProxy(link))
<1> DEFINE proxy == DocumentProxy(link)
<1>1. /\ link.scheme \in Schemes /\ link.cred \in NodeCreds /\ link.net \in Nets /\ link.has \in SUBSET Options
      /\ TypeOf(link.scheme) \in Kinds
  BY TypeOfIs DEF Said, LinkType, NodeCreds
<1>2. Verbatim(link.cred) \in NodeCreds
  BY <1>1, VerbatimIs
<1>3. (link.security \in {"tls", "reality"}) \in BOOLEAN
  OBVIOUS
<1>4. proxy \in ProxyType
  BY <1>1, <1>2, <1>3 DEF DocumentProxy, ProxyType
<1>5. proxy.type = TypeOf(link.scheme) /\ proxy.tls = (link.security \in {"tls", "reality"}) /\ proxy.has = link.has
  BY DEF DocumentProxy
<1> HIDE DEF proxy
<1>6. proxy # NoProxy
  BY <1>1, <1>5, NoProxyIs, KindsAre
<1>7. EncryptionIsKept(link, proxy)
  BY <1>5 DEF EncryptionIsKept
<1>8. VerificationIsKept(link, proxy)
  BY <1>5 DEF VerificationIsKept
<1> QED
  BY <1>4, <1>5, <1>6, <1>7, <1>8 DEF Faithful, proxy

\* A link that is pasted: what is stored of it, what is written of that, and what is read
\* again.
Comes(link) ==
    LET profile == Import(link)
        written == Export(profile)
        proxy == ConvertLink(written)
    IN  IsExportable(profile) =>
            /\ written \in WideLink
            /\ Import(written) = profile
            /\ (link.scheme # "wireguard-ini" /\ link.cred # "secret") => proxy # NoProxy
            /\ proxy # NoProxy => Faithful(link, proxy) /\ PastedIsSubscribed(link, proxy)

\* A link as texts say it.
Pasted(link) ==
    link \in LinkType /\ link.cred \in CredsOf(link.scheme) /\ link.security \in SecuritiesOf(link.scheme)
        /\ link.net \in NetsOf(link.scheme)

LEMMA NormalIs ==
    ASSUME NEW protocol, NEW cred, NEW tls \in BOOLEAN, NEW reality \in BOOLEAN, NEW net, NEW has
    PROVE  LET given == [protocol |-> protocol, cred |-> cred, tls |-> tls, reality |-> reality, net |-> net, has |-> has]
               on == tls \/ reality \/ protocol = "hysteria2"
           IN  NormalizeV2RayProfile(given) =
                   [protocol |-> protocol, cred |-> cred, tls |-> on, reality |-> reality,
                    net |-> NormalNetwork(net), has |-> has]
<1> DEFINE given == [protocol |-> protocol, cred |-> cred, tls |-> tls, reality |-> reality, net |-> net, has |-> has]
           n == NormalNetwork(given.net)
<1>1. NormalizeV2RayProfile(given) = [[given EXCEPT !.net = n] EXCEPT !.tls = [given EXCEPT !.net = n].tls \/ given.reality \/ given.protocol = "hysteria2"]
  BY Zenon DEF NormalizeV2RayProfile
<1> QED
  BY <1>1

LEMMA NormalTcp == NormalNetwork("tcp") = "tcp"
BY DEF NormalNetwork

\* A profile that needs no normalising: it speaks over tcp.
LEMMA NormalProfile ==
    ASSUME NEW protocol, protocol # "hysteria2", NEW cred, NEW tls \in BOOLEAN, NEW has
    PROVE  NormalizeV2RayProfile(Profile(protocol, cred, tls, "tcp", has)) = Profile(protocol, cred, tls, "tcp", has)
<1> SUFFICES ASSUME NEW reality \in BOOLEAN, reality = FALSE
             PROVE  NormalizeV2RayProfile(Profile(protocol, cred, tls, "tcp", has)) = Profile(protocol, cred, tls, "tcp", has)
  OBVIOUS
<1> DEFINE given == [protocol |-> protocol, cred |-> cred, tls |-> tls, reality |-> reality, net |-> "tcp", has |-> has]
           on == tls \/ reality \/ protocol = "hysteria2"
<1>1. Profile(protocol, cred, tls, "tcp", has) = given
  BY DEF Profile
<1>2. NormalizeV2RayProfile(given) =
          [protocol |-> protocol, cred |-> cred, tls |-> on, reality |-> reality,
           net |-> NormalNetwork("tcp"), has |-> has]
  BY NormalIs
<1>3. on = tls
  OBVIOUS
<1> HIDE DEF on
<1> QED
  BY <1>1, <1>2, <1>3, NormalTcp

LEMMA SocksComes ==
    ASSUME NEW link, Pasted(link), link.scheme = "socks"
    PROVE  Comes(link)
<1> DEFINE cred == Proxied(link.cred)
           profile == Profile("socks", cred, FALSE, "tcp", {})
           written == Link("socks", cred, "none", "tcp", {})
           proxy == Proxy("socks5", SocksCredentials(cred), FALSE, "tcp", {})
<1>1. link.cred \in {"none", "plain", "pair", "secret", "plus", "wrapped"} /\ link.has \in SUBSET Options
  BY DEF Pasted, CredsOf, LinkType
<1>2. cred \in {"none", "plain", "pair", "secret", "plus", "blob"} /\ (cred = "secret" <=> link.cred = "secret")
      /\ Proxied(cred) = cred
  BY <1>1 DEF Proxied, Kept
<1>3. Import(link) = profile
  <2>1. ImportLink(link) = profile
    BY DEF ImportLink, ImportSocks
  <2> QED
    BY <2>1, NormalProfile DEF Import
<1>4. Export(profile) = written
  BY DEF Export, ExportUserPass, Profile, Link
<1>5. Import(written) = profile
  <2> HIDE DEF cred
  <2>1. written.scheme = "socks" /\ written.cred = cred
    BY DEF Link
  <2>2. ImportLink(written) = profile
    BY <1>2, <2>1 DEF ImportLink, ImportSocks
  <2> QED
    BY <2>2, NormalProfile DEF Import
<1>6. ConvertLink(written) = IF cred = "secret" THEN NoProxy ELSE proxy
  BY DEF ConvertLink, ParseSocks, Link, Proxy
<1>7. written \in WideLink
  BY <1>2 DEF WideLink, Link, Schemes, Supported, NodeCreds, Creds, Nets
<1>8. proxy # NoProxy
  BY DEF Proxy, NoProxy
<1>9. Faithful(link, proxy)
  BY DEF Faithful, Proxy, EncryptionIsKept, VerificationIsKept, TypeOf, Pasted, SecuritiesOf
<1>10. PastedIsSubscribed(link, proxy)
  <2>1. CASE link.cred \in CredentialsKept(link.scheme)
    <3>1. link.cred \in {"plain", "plus", "pair"}
      BY <2>1 DEF CredentialsKept
    <3>2. SocksCredentials(cred) = SocksCredentials(link.cred)
      BY <3>1 DEF SocksCredentials, Proxied, Kept
    <3>3. ConvertLink(link) = Proxy("socks5", SocksCredentials(link.cred), FALSE, "tcp", link.has \cap {"no-udp"})
      BY <3>1 DEF ConvertLink, ParseSocks, Proxy
    <3> QED
      BY <3>2, <3>3 DEF PastedIsSubscribed, Proxy, Lost
  <2> QED
    BY <2>1 DEF PastedIsSubscribed
<1> HIDE DEF profile, written, proxy, cred
<1> QED
  BY <1>2, <1>3, <1>4, <1>5, <1>6, <1>7, <1>8, <1>9, <1>10 DEF Comes

LEMMA HTTPProxyComes ==
    ASSUME NEW link, Pasted(link), link.scheme = "http-proxy"
    PROVE  Comes(link)
<1> DEFINE cred == Proxied(link.cred)
           tls == link.security = "tls"
           says == IF tls THEN "tls" ELSE "none"
           has == link.has \cap {"headers", "sni", "insecure"}
           profile == Profile("http", cred, tls, "tcp", has)
           written == Link("http-proxy", cred, says, "tcp", has)
           proxy == Proxy("http", SocksCredentials(cred), tls, "tcp", has \cap {"insecure", "sni"})
<1>1. /\ link.cred \in {"none", "plain", "pair", "secret", "plus", "wrapped"} /\ link.has \in SUBSET Options
      /\ link.security \in {"none", "tls"} /\ tls \in BOOLEAN
  BY DEF Pasted, CredsOf, LinkType, SecuritiesOf
<1>2. cred \in {"none", "plain", "pair", "secret", "plus", "blob"} /\ (cred = "secret" <=> link.cred = "secret")
      /\ Proxied(cred) = cred
  BY <1>1 DEF Proxied, Kept
<1>3. Import(link) = profile
  <2>1. ImportLink(link) = profile
    BY DEF ImportLink, ImportHTTPProxy
  <2> HIDE DEF cred, has, tls
  <2> QED
    BY <1>1, <2>1, NormalProfile DEF Import
<1>4. Export(profile) = written
  BY DEF Export, ExportUserPass, Profile, Link
<1>5. Import(written) = profile
  <2> HIDE DEF cred
  <2>1. written.scheme = "http-proxy" /\ written.cred = cred /\ written.has = has /\ (written.security = "tls") = tls
    BY DEF Link
  <2>2. has \cap {"headers", "sni", "insecure"} = has
    OBVIOUS
  <2> HIDE DEF has, written, tls
  <2>3. ImportLink(written) = profile
    BY <1>2, <2>1, <2>2 DEF ImportLink, ImportHTTPProxy
  <2> QED
    BY <1>1, <2>3, NormalProfile DEF Import
<1>6. ConvertLink(written) = IF cred = "secret" THEN NoProxy ELSE proxy
  BY DEF ConvertLink, ParseHTTPProxy, Link, Proxy
<1>7. written \in WideLink
  BY <1>1, <1>2 DEF WideLink, Link, Schemes, Supported, NodeCreds, Creds, Nets
<1>8. proxy # NoProxy
  BY DEF Proxy, NoProxy
<1>9. Faithful(link, proxy)
  BY <1>1 DEF Faithful, Proxy, EncryptionIsKept, VerificationIsKept, TypeOf
<1>10. PastedIsSubscribed(link, proxy)
  <2>1. CASE link.cred \in CredentialsKept(link.scheme)
    <3>1. link.cred \in {"plain", "plus", "pair"}
      BY <2>1 DEF CredentialsKept
    <3>2. SocksCredentials(cred) = SocksCredentials(link.cred)
      BY <3>1 DEF SocksCredentials, Proxied, Kept
    <3>3. ConvertLink(link) = Proxy("http", SocksCredentials(link.cred), tls, "tcp", link.has \cap {"insecure", "sni"})
      BY <3>1 DEF ConvertLink, ParseHTTPProxy, Proxy
    <3> QED
      BY <3>2, <3>3 DEF PastedIsSubscribed, Proxy, Lost
  <2> QED
    BY <2>1 DEF PastedIsSubscribed
<1> HIDE DEF profile, written, proxy, cred
<1> QED
  BY <1>2, <1>3, <1>4, <1>5, <1>6, <1>7, <1>8, <1>9, <1>10 DEF Comes

LEMMA ShadowsocksComes ==
    ASSUME NEW link, Pasted(link), link.scheme = "ss"
    PROVE  Comes(link)
<1> DEFINE cred == IF link.cred = "wrapped" THEN "plus" ELSE Kept(link.cred)
           again == IF cred = "plus" THEN "wrapped" ELSE cred
           has == link.has \cap {"uot"}
           profile == Profile("ss", cred, FALSE, "tcp", has)
           written == Link("ss", again, "none", "tcp", has)
           proxy == Proxy("ss", cred, FALSE, "tcp", has)
<1>1. /\ link.cred \in {"none", "plain", "plus", "escaped", "wrapped"} /\ link.has \in SUBSET Options
      /\ link.security = "none"
  BY DEF Pasted, CredsOf, LinkType, SecuritiesOf
<1>2. CASE link.cred = "none"
  <2>1. ImportLink(link) = NoProfile
    BY <1>2 DEF ImportLink, ImportShadowsocks
  <2>2. NoProfile = Profile("none", "none", FALSE, "tcp", {})
    BY DEF NoProfile, Profile
  <2>3. Import(link) = NoProfile
    BY <2>1, <2>2, NormalProfile DEF Import
  <2> QED
    BY <2>3 DEF Comes, IsExportable, NoProfile
<1>3. CASE link.cred # "none"
  <2>1. cred \in {"plain", "plus"}
    BY <1>1, <1>3 DEF Kept
  <2>2. Import(link) = profile
    <3>1. ImportLink(link) = profile
      BY <1>1, <1>3 DEF ImportLink, ImportShadowsocks
    <3> QED
      BY <3>1, NormalProfile DEF Import
  <2> HIDE DEF cred
  <2>3. Export(profile) = written
    BY DEF Export, ExportShadowsocks, Profile, Link
  <2>4. /\ written.scheme = "ss" /\ written.cred = again /\ written.has = has
        /\ again \in {"plain", "wrapped"} /\ (again = "wrapped" <=> cred = "plus") /\ (again = "plain" <=> cred = "plain")
    BY <2>1 DEF Link
  <2>5. has \cap {"uot"} = has /\ has \cap {"plugin", "uot"} = has /\ has \in SUBSET Options
    BY <1>1
  <2>6. written \in WideLink
    BY <2>1, <2>5 DEF WideLink, Link, Schemes, Supported, NodeCreds, Creds, Nets
  <2>7. /\ proxy # NoProxy /\ proxy.type = "ss" /\ proxy.cred = cred /\ proxy.tls = FALSE /\ proxy.net = "tcp"
        /\ proxy.has = has
    BY DEF Proxy, NoProxy
  <2> HIDE DEF written, again
  <2>8. Import(written) = profile
    <3>1. ImportLink(written) = profile
      BY <2>1, <2>4, <2>5 DEF ImportLink, ImportShadowsocks, Kept
    <3> HIDE DEF has
    <3> QED
      BY <3>1, NormalProfile DEF Import
  <2>9. ConvertLink(written) = proxy
    <3>1. written.cred # "none" /\ (IF written.cred = "wrapped" THEN "plus" ELSE Decoded(written.cred)) = cred
      BY <2>1, <2>4 DEF Decoded
    <3>2. ConvertLink(written) = ParseShadowsocks(written)
      BY <2>4 DEF ConvertLink
    <3> HIDE DEF has
    <3> QED
      BY <2>4, <2>5, <3>1, <3>2 DEF ParseShadowsocks, Proxy
  <2> HIDE DEF proxy
  <2>10. Faithful(link, proxy)
    BY <1>1, <2>7 DEF Faithful, EncryptionIsKept, VerificationIsKept, TypeOf
  <2>11. PastedIsSubscribed(link, proxy)
    <3>1. CASE link.cred \in CredentialsKept(link.scheme)
      <4>1. link.cred \in {"plain", "escaped", "wrapped"}
        BY <3>1 DEF CredentialsKept
      <4>2. (IF link.cred = "wrapped" THEN "plus" ELSE Decoded(link.cred)) = cred
        BY <4>1 DEF Decoded, cred, Kept
      <4>3. ConvertLink(link) = Proxy("ss", cred, FALSE, "tcp", link.has \cap {"plugin", "uot"})
        BY <1>3, <4>2 DEF ConvertLink, ParseShadowsocks, Proxy
      <4>4. has = (link.has \cap {"plugin", "uot"}) \ Lost("ss")
        BY DEF Lost
      <4> DEFINE subscribed == ConvertLink(link)
      <4>5. /\ subscribed.type = "ss" /\ subscribed.cred = cred /\ subscribed.tls = FALSE /\ subscribed.net = "tcp"
            /\ subscribed.has = link.has \cap {"plugin", "uot"}
        BY <4>3 DEF Proxy
      <4> HIDE DEF has, subscribed
      <4>6. subscribed.has \ Lost(subscribed.type) = has
        BY <4>4, <4>5
      <4> QED
        BY <2>7, <4>5, <4>6 DEF PastedIsSubscribed, subscribed
    <3> QED
      BY <3>1 DEF PastedIsSubscribed
  <2> HIDE DEF profile
  <2> QED
    BY <2>2, <2>3, <2>6, <2>7, <2>8, <2>9, <2>10, <2>11 DEF Comes
<1> QED
  BY <1>2, <1>3

LEMMA NormalHysteria ==
    ASSUME NEW cred, NEW has
    PROVE  NormalizeV2RayProfile(Profile("hysteria2", cred, FALSE, "tcp", has)) =
               Profile("hysteria2", cred, TRUE, "tcp", has)
<1> SUFFICES ASSUME NEW off \in BOOLEAN, off = FALSE, NEW on \in BOOLEAN, on = TRUE
             PROVE  NormalizeV2RayProfile(Profile("hysteria2", cred, off, "tcp", has)) =
                        Profile("hysteria2", cred, on, "tcp", has)
  OBVIOUS
<1> DEFINE given == [protocol |-> "hysteria2", cred |-> cred, tls |-> off, reality |-> off, net |-> "tcp", has |-> has]
           set == off \/ off \/ "hysteria2" = "hysteria2"
<1>1. Profile("hysteria2", cred, off, "tcp", has) = given
  BY DEF Profile
<1>2. NormalizeV2RayProfile(given) =
          [protocol |-> "hysteria2", cred |-> cred, tls |-> set, reality |-> off,
           net |-> NormalNetwork("tcp"), has |-> has]
  BY NormalIs
<1>3. set = on
  OBVIOUS
<1> HIDE DEF set
<1>4. Profile("hysteria2", cred, on, "tcp", has) =
          [protocol |-> "hysteria2", cred |-> cred, tls |-> on, reality |-> off, net |-> "tcp", has |-> has]
  BY DEF Profile
<1> QED
  BY <1>1, <1>2, <1>3, <1>4, NormalTcp

\* Nothing is stored of what cannot be imported.
LEMMA NothingComes ==
    ASSUME NEW link, ImportLink(link) = NoProfile
    PROVE  Comes(link)
<1>1. NoProfile = Profile("none", "none", FALSE, "tcp", {})
  BY DEF NoProfile, Profile
<1>2. Import(link) = NoProfile
  BY <1>1, NormalProfile DEF Import
<1> QED
  BY <1>2 DEF Comes, IsExportable, NoProfile

LEMMA HysteriaComes ==
    ASSUME NEW link, Pasted(link), link.scheme = "hysteria2"
    PROVE  Comes(link)
<1> DEFINE cred == FirstHalf(link.cred)
           has == link.has \cap {"sni", "alpn", "insecure"}
           profile == Profile("hysteria2", cred, TRUE, "tcp", has)
           written == Link("hysteria2", cred, "tls", "tcp", has)
           proxy == Proxy("hysteria2", Decoded(cred), TRUE, "tcp", has)
<1>1. /\ link.cred \in {"none", "plain", "pair", "plus", "escaped"} /\ link.has \in SUBSET Options
      /\ link.security = "none"
  BY DEF Pasted, CredsOf, LinkType, SecuritiesOf
<1>2. CASE link.cred = "none"
  <2>1. ImportLink(link) = NoProfile
    BY <1>2 DEF ImportLink, ImportHysteria, FirstHalf, Kept
  <2> QED
    BY <2>1, NothingComes
<1>3. CASE link.cred # "none"
  <2>1. cred \in {"plain", "user", "plus"} /\ FirstHalf(cred) = cred
    BY <1>1, <1>3 DEF FirstHalf, Kept
  <2>2. Import(link) = profile
    <3>1. ImportLink(link) = Profile("hysteria2", cred, FALSE, "tcp", has)
      BY <2>1 DEF ImportLink, ImportHysteria
    <3> HIDE DEF cred, has
    <3> QED
      BY <3>1, NormalHysteria DEF Import
  <2> HIDE DEF cred
  <2>3. Export(profile) = written
    <3>1. has \cap {"sni", "alpn", "insecure"} = has
      OBVIOUS
    <3> HIDE DEF has
    <3> QED
      BY <3>1 DEF Export, ExportHysteria, Profile, Link
  <2>4. written.scheme = "hysteria2" /\ written.cred = cred /\ written.has = has
    BY DEF Link
  <2>5. /\ has \cap {"sni", "alpn", "insecure"} = has
        /\ has \cap {"insecure", "sni", "alpn", "obfs", "ports", "pin"} = has /\ has \in SUBSET Options
    BY <1>1
  <2>6. written \in WideLink
    BY <2>1, <2>5 DEF WideLink, Link, Schemes, Supported, NodeCreds, Creds, Nets
  <2>7. /\ proxy # NoProxy /\ proxy.type = "hysteria2" /\ proxy.cred = Decoded(cred) /\ proxy.tls = TRUE
        /\ proxy.net = "tcp" /\ proxy.has = has
    BY DEF Proxy, NoProxy
  <2> HIDE DEF written
  <2>8. Import(written) = profile
    <3> HIDE DEF has
    <3>1. ImportLink(written) = Profile("hysteria2", cred, FALSE, "tcp", has)
      BY <2>1, <2>4, <2>5 DEF ImportLink, ImportHysteria
    <3> QED
      BY <3>1, NormalHysteria DEF Import
  <2>9. ConvertLink(written) = proxy
    <3>1. written.cred # "none" /\ ConvertLink(written) = ParseHysteria2(written)
      BY <2>1, <2>4 DEF ConvertLink
    <3> HIDE DEF has
    <3> QED
      BY <2>4, <2>5, <3>1 DEF ParseHysteria2, Proxy
  <2> HIDE DEF proxy
  <2>10. Faithful(link, proxy)
    BY <1>1, <2>7 DEF Faithful, EncryptionIsKept, VerificationIsKept, TypeOf
  <2>11. PastedIsSubscribed(link, proxy)
    <3>1. CASE link.cred \in CredentialsKept(link.scheme)
      <4>1. link.cred \in {"plain", "plus"}
        BY <3>1 DEF CredentialsKept
      <4>2. cred = link.cred
        BY <4>1 DEF cred, FirstHalf, Kept
      <4> DEFINE of == {"insecure", "sni", "alpn", "obfs", "ports", "pin"}
                 subscribed == ConvertLink(link)
      <4>3. subscribed = Proxy("hysteria2", Decoded(cred), TRUE, "tcp", link.has \cap of)
        BY <1>3, <4>2 DEF ConvertLink, ParseHysteria2, Proxy
      <4>4. has = (link.has \cap of) \ Lost("hysteria2")
        BY DEF Lost
      <4> HIDE DEF has, subscribed, of
      <4>5. /\ subscribed.type = "hysteria2" /\ subscribed.cred = Decoded(cred) /\ subscribed.tls = TRUE
            /\ subscribed.net = "tcp" /\ subscribed.has = link.has \cap of
        BY <4>3 DEF Proxy
      <4>6. subscribed.has \ Lost(subscribed.type) = has
        BY <4>4, <4>5
      <4> QED
        BY <2>7, <4>5, <4>6 DEF PastedIsSubscribed, subscribed
    <3> QED
      BY <3>1 DEF PastedIsSubscribed
  <2> HIDE DEF profile
  <2> QED
    BY <2>2, <2>3, <2>6, <2>7, <2>8, <2>9, <2>10, <2>11 DEF Comes
<1> QED
  BY <1>2, <1>3

LEMMA AnyTlsComes ==
    ASSUME NEW link, Pasted(link), link.scheme = "anytls"
    PROVE  Comes(link)
<1> DEFINE cred == IF link.cred \in {"pair", "secret"} THEN "plain" ELSE Kept(link.cred)
           of == {"sni", "alpn", "insecure", "pin", "utls"}
           has == link.has \cap of
           profile == Profile("anytls", cred, TRUE, "tcp", has)
           written == Link("anytls", cred, "tls", "tcp", has)
           proxy == Proxy("anytls", AnyTlsPassword(cred), TRUE, "tcp", has)
<1>1. /\ link.cred \in {"none", "plain", "pair", "plus", "escaped"} /\ link.has \in SUBSET Options
      /\ link.security = "none"
  BY DEF Pasted, CredsOf, LinkType, SecuritiesOf
<1>2. CASE link.cred = "none"
  <2>1. ImportLink(link) = NoProfile
    BY <1>2 DEF ImportLink, ImportAnyTls
  <2> QED
    BY <2>1, NothingComes
<1>3. CASE link.cred # "none"
  <2>1. cred \in {"plain", "plus"} /\ (IF cred \in {"pair", "secret"} THEN "plain" ELSE Kept(cred)) = cred
    BY <1>1, <1>3 DEF Kept
  <2>2. Import(link) = profile
    <3>1. ImportLink(link) = profile
      BY <1>3 DEF ImportLink, ImportAnyTls
    <3> HIDE DEF cred, has
    <3>2. TRUE \in BOOLEAN
      OBVIOUS
    <3> QED
      BY <3>1, <3>2, NormalProfile DEF Import
  <2> HIDE DEF cred
  <2>3. has \cap of = has /\ has \in SUBSET Options /\ has \cap {"insecure", "sni", "alpn", "pin", "utls"} = has
    BY <1>1
  <2>4. Export(profile) = written
    <3> HIDE DEF has
    <3> QED
      BY <2>3 DEF Export, ExportAnyTls, Profile, Link
  <2>5. written.scheme = "anytls" /\ written.cred = cred /\ written.has = has
    BY DEF Link
  <2>6. written \in WideLink
    BY <2>1, <2>3 DEF WideLink, Link, Schemes, Supported, NodeCreds, Creds, Nets
  <2>7. /\ proxy # NoProxy /\ proxy.type = "anytls" /\ proxy.cred = AnyTlsPassword(cred) /\ proxy.tls = TRUE
        /\ proxy.net = "tcp" /\ proxy.has = has
    BY DEF Proxy, NoProxy
  <2> HIDE DEF written
  <2>8. Import(written) = profile
    <3> HIDE DEF has
    <3>1. ImportLink(written) = profile
      BY <2>1, <2>3, <2>5 DEF ImportLink, ImportAnyTls
    <3>2. TRUE \in BOOLEAN
      OBVIOUS
    <3> QED
      BY <3>1, <3>2, NormalProfile DEF Import
  <2>9. ConvertLink(written) = proxy
    <3>1. written.cred # "none" /\ ConvertLink(written) = ParseAnyTls(written)
      BY <2>1, <2>5 DEF ConvertLink
    <3> HIDE DEF has
    <3> QED
      BY <2>3, <2>5, <3>1 DEF ParseAnyTls, Proxy
  <2> HIDE DEF proxy
  <2>10. Faithful(link, proxy)
    BY <1>1, <2>7 DEF Faithful, EncryptionIsKept, VerificationIsKept, TypeOf
  <2>11. PastedIsSubscribed(link, proxy)
    <3>1. CASE link.cred \in CredentialsKept(link.scheme)
      <4>1. link.cred \in {"plain", "plus", "pair"}
        BY <3>1 DEF CredentialsKept
      <4>2. AnyTlsPassword(cred) = AnyTlsPassword(link.cred)
        BY <4>1 DEF cred, AnyTlsPassword, Kept, Decoded
      <4> DEFINE subscribed == ConvertLink(link)
      <4>3. subscribed = Proxy("anytls", AnyTlsPassword(cred), TRUE, "tcp", has)
        <5>1. link.has \cap {"insecure", "sni", "alpn", "pin", "utls"} = has
          OBVIOUS
        <5> HIDE DEF has
        <5> QED
          BY <1>3, <4>2, <5>1 DEF ConvertLink, ParseAnyTls, Proxy
      <4>4. has = has \ Lost("anytls")
        BY DEF Lost
      <4> HIDE DEF has, subscribed
      <4>5. /\ subscribed.type = "anytls" /\ subscribed.cred = AnyTlsPassword(cred) /\ subscribed.tls = TRUE
            /\ subscribed.net = "tcp" /\ subscribed.has = has
        BY <4>3 DEF Proxy
      <4> QED
        BY <2>7, <4>4, <4>5 DEF PastedIsSubscribed, subscribed
    <3> QED
      BY <3>1 DEF PastedIsSubscribed
  <2> HIDE DEF profile
  <2> QED
    BY <2>2, <2>4, <2>6, <2>7, <2>8, <2>9, <2>10, <2>11 DEF Comes
<1> QED
  BY <1>2, <1>3

LEMMA WireGuardComes ==
    ASSUME NEW link, Pasted(link), link.scheme = "wireguard-ini"
    PROVE  Comes(link)
<1> DEFINE cred == Kept(link.cred)
           has == link.has \cap {"psk"}
           profile == Profile("wireguard", cred, FALSE, "tcp", has)
           written == Link("wireguard-ini", cred, "none", "tcp", has)
<1>1. link.cred \in {"none", "plain", "plus", "escaped"} /\ link.has \in SUBSET Options
  BY DEF Pasted, CredsOf, LinkType
<1>2. CASE link.cred = "none"
  <2>1. ImportLink(link) = NoProfile
    BY <1>2 DEF ImportLink, ImportWireGuard
  <2> QED
    BY <2>1, NothingComes
<1>3. CASE link.cred # "none"
  <2>1. cred \in {"plain", "plus"} /\ Kept(cred) = cred
    BY <1>1, <1>3 DEF Kept
  <2>2. Import(link) = profile
    <3>1. ImportLink(link) = profile
      BY <1>3 DEF ImportLink, ImportWireGuard
    <3> HIDE DEF cred, has
    <3>2. FALSE \in BOOLEAN
      OBVIOUS
    <3> QED
      BY <3>1, <3>2, NormalProfile DEF Import
  <2> HIDE DEF cred
  <2>3. has \cap {"psk"} = has /\ has \in SUBSET Options
    BY <1>1
  <2>4. Export(profile) = written
    <3> HIDE DEF has
    <3> QED
      BY <2>3 DEF Export, ExportWireGuard, Profile, Link
  <2>5. written.scheme = "wireguard-ini" /\ written.cred = cred /\ written.has = has
    BY DEF Link
  <2>6. written \in WideLink
    BY <2>1, <2>3 DEF WideLink, Link, Schemes, Supported, NodeCreds, Creds, Nets
  <2> HIDE DEF written
  <2>7. Import(written) = profile
    <3> HIDE DEF has
    <3>1. ImportLink(written) = profile
      BY <2>1, <2>3, <2>5 DEF ImportLink, ImportWireGuard
    <3>2. FALSE \in BOOLEAN
      OBVIOUS
    <3> QED
      BY <3>1, <3>2, NormalProfile DEF Import
  <2>8. ConvertLink(written) = NoProxy
    BY <2>5 DEF ConvertLink
  <2> HIDE DEF profile
  <2> QED
    BY <2>2, <2>4, <2>6, <2>7, <2>8 DEF Comes
<1> QED
  BY <1>2, <1>3

LEMMA OthersCome ==
    ASSUME NEW link, link.scheme \in {"vmess-aead", "wireguard"} \cup DocumentOnly
    PROVE  Comes(link)
<1>1. ImportLink(link) = NoProfile
  BY DEF ImportLink, DocumentOnly
<1> QED
  BY <1>1, NothingComes

\* A stored profile, with all of its fields.
Whole(protocol, cred, tls, reality, net, has) ==
    [protocol |-> protocol, cred |-> cred, tls |-> tls, reality |-> reality, net |-> net, has |-> has]

LEMMA WholeIs ==
    ASSUME NEW protocol, NEW cred, NEW tls \in BOOLEAN, NEW reality \in BOOLEAN, NEW net, NEW has
    PROVE  LET p == Whole(protocol, cred, tls, reality, net, has) IN
           /\ p.protocol = protocol /\ p.cred = cred /\ p.tls = tls /\ p.reality = reality /\ p.net = net /\ p.has = has
BY DEF Whole

LEMMA SecurityIs ==
    ASSUME NEW security, NEW start \in BOOLEAN
    PROVE  \E on, reality \in BOOLEAN :
               /\ on <=> (security = "unsaid" /\ start) \/ security \in {"tls", "reality"}
               /\ reality <=> security = "reality"
OBVIOUS

\* What a link's query says, over a profile that starts with tls or not and with its own options.
Asks(link, start, own, on, reality, net, has) ==
    /\ on <=> (link.security = "unsaid" /\ start) \/ link.security \in {"tls", "reality"}
    /\ reality <=> link.security = "reality"
    /\ net = link.net /\ has = own \cup (link.has \cap QueryReads)

\* What it makes of that profile, in its normal form.
Gives(link, protocol, cred, start, own, on, reality, net, has) ==
    NormalizeV2RayProfile(ApplyV2RayQuery(Profile(protocol, cred, start, "tcp", own), link)) =
        Whole(protocol, cred, on, reality, NormalNetwork(net), has)

LEMMA QueryIs ==
    ASSUME NEW link, NEW protocol, protocol # "hysteria2", NEW cred, NEW start \in BOOLEAN, NEW own,
           NEW on \in BOOLEAN, NEW reality \in BOOLEAN, NEW net, NEW has,
           Asks(link, start, own, on, reality, net, has)
    PROVE  Gives(link, protocol, cred, start, own, on, reality, net, has)
<1> DEFINE given == [protocol |-> protocol, cred |-> cred, tls |-> on, reality |-> reality, net |-> net, has |-> has]
           set == on \/ reality \/ protocol = "hysteria2"
           first == Profile(protocol, cred, start, "tcp", own)
<1> USE DEF Asks
<1>1. ApplyV2RayQuery(first, link) = given
  <2>1. first.tls = start /\ first.has = own
    BY DEF Profile
  <2>2. ApplyV2RayQuery(first, link) = [first EXCEPT !.tls = on, !.reality = reality, !.net = net, !.has = has]
    <3> HIDE DEF first
    <3>1. (IF link.security = "unsaid" THEN first.tls ELSE link.security \in {"tls", "reality"}) = on
      BY <2>1
    <3>2. first.has \cup (link.has \cap QueryReads) = has
      BY <2>1
    <3>3. (link.security = "reality") = reality
      OBVIOUS
    <3> QED
      BY <3>1, <3>2, <3>3 DEF ApplyV2RayQuery
  <2> QED
    BY <2>2 DEF Profile
<1>2. NormalizeV2RayProfile(given) =
          [protocol |-> protocol, cred |-> cred, tls |-> set, reality |-> reality,
           net |-> NormalNetwork(net), has |-> has]
  BY NormalIs
<1>3. set = on
  OBVIOUS
<1> HIDE DEF set
<1> QED
  BY <1>1, <1>2, <1>3 DEF Whole, Gives

LEMMA NormalAgain ==
    ASSUME NEW net \in Nets
    PROVE  /\ NormalNetwork(net) \in Nets /\ NormalNetwork(NormalNetwork(net)) = NormalNetwork(net)
           /\ NormalNetwork(net) = "grpc" <=> net = "grpc"
           /\ NormalNetwork(net) = "ws" <=> net = "ws"
           /\ net # "tcp-http" => LinkNetwork(NormalNetwork(net)) = LinkNetwork(net)
           /\ net \in {"tcp", "ws", "grpc"} => NormalNetwork(net) = net
BY DEF NormalNetwork, Nets, LinkNetwork

LEMMA TrojanComes ==
    ASSUME NEW link, Pasted(link), link.scheme = "trojan"
    PROVE  Comes(link)
<1>0. SUFFICES ASSUME NEW start \in BOOLEAN, start = TRUE, NEW own, own = {},
                         NEW protocol, protocol = "trojan"
                  PROVE  Comes(link)
  <2>1. TRUE \in BOOLEAN
    OBVIOUS
  <2> QED
    BY <2>1
<1>1. PICK on, reality \in BOOLEAN :
          /\ on <=> (link.security = "unsaid" /\ start) \/ link.security \in {"tls", "reality"}
          /\ reality <=> link.security = "reality"
  BY SecurityIs, Zenon
<1> DEFINE cred == FirstHalf(link.cred)
           has == link.has \cap QueryReads
           net == link.net
           profile == Whole(protocol, cred, on, reality, net, has)
           says == IF reality THEN "reality" ELSE IF on THEN "tls" ELSE "none"
           written == Link("trojan", cred, says, net, has)
           of == {"insecure", "sni", "alpn", "utls", "pin"}
                     \cup CASE net = "ws" -> {"path"} [] net = "grpc" -> {"service"} [] OTHER -> {}
           proxy == Proxy("trojan", Decoded(cred), TRUE, net, has \cap of)
<1>2. /\ link.cred \in {"none", "plain", "pair", "plus", "escaped"} /\ link.has \in SUBSET Options
      /\ link.security \in {"unsaid", "none", "tls", "xtls", "reality"} /\ net \in {"tcp", "ws", "grpc"}
      /\ net \in Nets
  BY DEF Pasted, CredsOf, LinkType, SecuritiesOf, NetsOf
<1>3. CASE link.cred = "none"
  <2>1. ImportLink(link) = NoProfile
    BY <1>3 DEF ImportLink, ImportTrojan, FirstHalf, Kept
  <2> QED
    BY <2>1, NothingComes
<1>4. CASE link.cred # "none"
  <2>1. cred \in {"plain", "user", "plus"} /\ FirstHalf(cred) = cred
    BY <1>2, <1>4 DEF FirstHalf, Kept
  <2>2. /\ says \in {"reality", "tls", "none"} /\ (reality => on)
        /\ reality <=> says = "reality"
        /\ on <=> (says = "unsaid" /\ start) \/ says \in {"tls", "reality"}
    BY <1>0, <1>1
  <2>3. ImportLink(link) = ApplyV2RayQuery(Profile(protocol, cred, start, "tcp", own), link)
    BY <1>0, <2>1 DEF ImportTrojan, ImportLink
  <2>4. NormalNetwork(net) = net
    BY <1>2, NormalAgain
  <2>5. has = own \cup (link.has \cap QueryReads) /\ protocol # "hysteria2" /\ net = link.net
    BY <1>0
  <2>6. has \cap (QueryReads \cup {}) = has /\ has \in SUBSET Options /\ has = own \cup (has \cap QueryReads)
    BY <1>0, <1>2
  <2> HIDE DEF cred, has, net
  <2>7. Import(link) = profile
    <3>1. Gives(link, protocol, cred, start, own, on, reality, net, has)
      <4>1. Asks(link, start, own, on, reality, net, has)
        BY <1>1, <2>5 DEF Asks
      <4>2. protocol # "hysteria2"
        BY <2>5
      <4> HIDE DEF profile, says, written, of, proxy
      <4> QED
        BY <4>1, <4>2, QueryIs, Zenon
    <3> QED
      BY <2>3, <2>4, <3>1 DEF Import, Gives
  <2>8. /\ profile.protocol = "trojan" /\ profile.cred = cred /\ profile.tls = on /\ profile.reality = reality
        /\ profile.net = net /\ profile.has = has
    BY <1>0, WholeIs
  <2> HIDE DEF profile
  <2>9. Export(profile) = written
    <3>1. Export(profile) = ExportURL(profile)
      BY <2>8 DEF Export
    <3>2. URLSecurity(profile) = says
      BY <2>2, <2>8 DEF URLSecurity
    <3> HIDE DEF says
    <3> QED
      BY <2>6, <2>8, <3>1, <3>2 DEF ExportURL
  <2> HIDE DEF says
  <2>10. /\ written.scheme = "trojan" /\ written.cred = cred /\ written.has = has /\ written.security = says
         /\ written.net = net
    BY DEF Link
  <2>11. written \in WideLink
    BY <1>2, <2>1, <2>2, <2>6 DEF WideLink, Link, Schemes, Supported, NodeCreds, Creds
  <2> HIDE DEF written
  <2>12. Import(written) = profile
    <3>1. ImportLink(written) = ApplyV2RayQuery(Profile(protocol, cred, start, "tcp", own), written)
      BY <1>0, <2>1, <2>10 DEF ImportLink, ImportTrojan
    <3>2. /\ on <=> (written.security = "unsaid" /\ start) \/ written.security \in {"tls", "reality"}
          /\ reality <=> written.security = "reality"
          /\ net = written.net /\ has = own \cup (written.has \cap QueryReads)
      BY <2>2, <2>6, <2>10
    <3>3. Gives(written, protocol, cred, start, own, on, reality, net, has)
      <4>1. Asks(written, start, own, on, reality, net, has)
        BY <3>2 DEF Asks
      <4>2. protocol # "hysteria2"
        BY <2>5
      <4> HIDE DEF profile, says, written, of, proxy
      <4> QED
        BY <4>1, <4>2, QueryIs, Zenon
    <3> QED
      BY <2>4, <3>1, <3>3 DEF Import, profile, Gives
  <2>13. /\ proxy # NoProxy /\ proxy.type = "trojan" /\ proxy.cred = Decoded(cred) /\ proxy.tls = TRUE
         /\ proxy.net = net /\ proxy.has = has \cap of
    BY DEF Proxy, NoProxy
  <2>14. ConvertLink(written) = proxy
    <3>1. written.cred # "none" /\ ConvertLink(written) = ParseTrojan(written) /\ net # "tcp-http"
      BY <1>2, <2>1, <2>10 DEF ConvertLink
    <3> QED
      BY <2>10, <3>1 DEF ParseTrojan, Proxy
  <2> HIDE DEF proxy
  <2>15. Faithful(link, proxy)
    <3>1. proxy.has \subseteq link.has
      BY <2>13 DEF has
    <3> QED
      BY <2>13, <3>1 DEF Faithful, EncryptionIsKept, VerificationIsKept, TypeOf
  <2>16. PastedIsSubscribed(link, proxy)
    <3>1. CASE link.cred \in CredentialsKept(link.scheme)
      <4>1. link.cred \in {"plain", "plus"}
        BY <3>1 DEF CredentialsKept
      <4>2. cred = link.cred
        BY <4>1 DEF cred, FirstHalf, Kept
      <4> DEFINE subscribed == ConvertLink(link)
      <4>3. subscribed = Proxy("trojan", Decoded(cred), TRUE, net, link.has \cap of)
        <5>1. ConvertLink(link) = ParseTrojan(link) /\ net # "tcp-http" /\ net = link.net
          BY <1>2, <2>5 DEF ConvertLink
        <5> QED
          BY <1>4, <4>2, <5>1 DEF ParseTrojan, Proxy
      <4>4. has \cap of = (link.has \cap of) \ Lost("trojan")
        <5>1. of \ {"pin"} \subseteq QueryReads /\ "pin" \notin QueryReads /\ "encryption" \notin of
          <6>1. CASE net = "ws"
            BY <6>1 DEF QueryReads
          <6>2. CASE net = "grpc"
            BY <6>2 DEF QueryReads
          <6>3. CASE net \notin {"ws", "grpc"}
            BY <6>3 DEF QueryReads
          <6> QED
            BY <6>1, <6>2, <6>3
        <5>2. Lost("trojan") = {"pin", "encryption"}
          BY DEF Lost
        <5> HIDE DEF of
        <5> QED
          BY <5>1, <5>2 DEF has
      <4> HIDE DEF subscribed, of
      <4>5. /\ subscribed.type = "trojan" /\ subscribed.cred = Decoded(cred) /\ subscribed.tls = TRUE
            /\ subscribed.net = net /\ subscribed.has = link.has \cap of
        BY <4>3 DEF Proxy
      <4>6. subscribed.has \ Lost(subscribed.type) = has \cap of
        BY <4>4, <4>5
      <4> QED
        BY <2>13, <4>5, <4>6 DEF PastedIsSubscribed, subscribed
    <3> QED
      BY <3>1 DEF PastedIsSubscribed
  <2> QED
    BY <2>7, <2>9, <2>11, <2>12, <2>13, <2>14, <2>15, <2>16 DEF Comes
<1> QED
  BY <1>3, <1>4

\* What the transports read is in a query, and is neither a pin nor an encryption.
LEMMA TransportIs ==
    ASSUME NEW net
    PROVE  TransportReads(net) \subseteq QueryReads \ {"pin", "encryption"}
<1>1. CASE net = "http"
  BY <1>1 DEF TransportReads, HttpReads, QueryReads
<1>2. CASE net = "h2"
  BY <1>2 DEF TransportReads, H2Reads, QueryReads
<1>3. CASE net \in {"ws", "httpupgrade"}
  BY <1>3 DEF TransportReads, WsReads, QueryReads
<1>4. CASE net = "grpc"
  BY <1>4 DEF TransportReads, QueryReads
<1>5. CASE net = "xhttp"
  BY <1>5 DEF TransportReads, XhttpReads, QueryReads
<1>6. CASE net \notin {"http", "h2", "ws", "httpupgrade", "grpc", "xhttp"}
  BY <1>6 DEF TransportReads
<1> QED
  BY <1>1, <1>2, <1>3, <1>4, <1>5, <1>6

\* The options that a vless link's reader looks at.
VlessReads(net, tls) ==
    ({"sni", "pbk", "packet"} \cup TransportReads(net) \cup IF tls THEN {"utls", "alpn", "pin"} ELSE {})
        \cup {"flow", "encryption"}

LEMMA VlessReadAs ==
    ASSUME NEW link, link.cred # "none", ~FailsLate(link), NEW tls \in BOOLEAN,
           tls <=> link.security \in {"tls", "xtls", "reality"}, NEW net, net = LinkNetwork(link.net)
    PROVE  ParseVless(link) = Proxy("vless", Decoded(link.cred), tls, net, link.has \cap VlessReads(net, tls))
<1> DEFINE p == ParseVShare(link)
           of == {"sni", "pbk", "packet"} \cup TransportReads(net) \cup IF tls THEN {"utls", "alpn", "pin"} ELSE {}
<1>1. p = Proxy("vless", Decoded(link.cred), tls, net, link.has \cap of)
  <2>1. (link.security \in {"tls", "xtls", "reality"}) = tls
    OBVIOUS
  <2> QED
    BY <2>1 DEF ParseVShare, Proxy
<1> HIDE DEF of
<1>2. p # NoProxy /\ p.has = link.has \cap of
  BY <1>1 DEF Proxy, NoProxy
<1>3. ParseVless(link) = [p EXCEPT !.has = p.has \cup (link.has \cap {"flow", "encryption"})]
  <2> HIDE DEF p
  <2>1. ParseVless(link) = IF p = NoProxy THEN p
                           ELSE [p EXCEPT !.has = p.has \cup (link.has \cap {"flow", "encryption"})]
    BY DEF ParseVless, p
  <2> QED
    BY <1>2, <2>1
<1>4. p.has \cup (link.has \cap {"flow", "encryption"}) = link.has \cap VlessReads(net, tls)
  BY <1>2 DEF VlessReads, of
<1> DEFINE all == link.has \cap VlessReads(net, tls)
<1> HIDE DEF all
<1>5. ParseVless(link) = [p EXCEPT !.has = all]
  BY <1>3, <1>4 DEF all
<1>6. [p EXCEPT !.has = all] = Proxy("vless", Decoded(link.cred), tls, net, all)
  BY <1>1 DEF Proxy
<1> QED
  BY <1>5, <1>6 DEF all

LEMMA VlessComes ==
    ASSUME NEW link, Pasted(link), link.scheme = "vless"
    PROVE  Comes(link)
<1>0. SUFFICES ASSUME NEW start \in BOOLEAN, start = FALSE, NEW protocol, protocol = "vless"
                PROVE  Comes(link)
  <2>1. FALSE \in BOOLEAN
    OBVIOUS
  <2> QED
    BY <2>1
<1>1. PICK on, reality \in BOOLEAN :
          /\ on <=> (link.security = "unsaid" /\ start) \/ link.security \in {"tls", "reality"}
          /\ reality <=> link.security = "reality"
  BY SecurityIs, Zenon
<1> DEFINE cred == FirstHalf(link.cred)
           own == link.has \cap {"flow"}
           has == own \cup (link.has \cap QueryReads)
           net == NormalNetwork(link.net)
           profile == Whole(protocol, cred, on, reality, net, has)
           says == IF reality THEN "reality" ELSE IF on THEN "tls" ELSE "none"
           written == Link("vless", cred, says, net, has)
           type == LinkNetwork(net)
           of == VlessReads(type, on)
           proxy == Proxy("vless", Decoded(cred), on, type, has \cap of)
<1>2. /\ link.cred \in {"none", "plain"} /\ link.has \in SUBSET Options
      /\ link.security \in {"none", "tls", "xtls", "reality"} /\ link.net \in Nets
  BY DEF Pasted, CredsOf, LinkType, SecuritiesOf, NetsOf
<1>3. CASE link.cred = "none"
  <2>1. ImportLink(link) = NoProfile
    BY <1>3 DEF ImportLink, ImportVless, FirstHalf, Kept
  <2> QED
    BY <2>1, NothingComes
<1>4. CASE link.cred # "none"
  <2>1. cred = "plain" /\ cred = link.cred /\ FirstHalf(cred) = cred
    BY <1>2, <1>4 DEF FirstHalf, Kept
  <2>2. /\ says \in {"reality", "tls", "none"} /\ (reality => on)
        /\ reality <=> says = "reality"
        /\ on <=> (says = "unsaid" /\ start) \/ says \in {"tls", "reality"}
        /\ on <=> says \in {"tls", "xtls", "reality"}
        /\ (link.security # "xtls" => (on <=> link.security \in {"tls", "xtls", "reality"}))
    BY <1>0, <1>1, <1>2
  <2>3. ImportLink(link) = ApplyV2RayQuery(Profile(protocol, cred, start, "tcp", own), link)
    BY <1>0, <2>1 DEF ImportVless, ImportLink
  <2>4. net \in Nets /\ NormalNetwork(net) = net /\ type \in Nets
        /\ (link.net # "tcp-http" => type = LinkNetwork(link.net))
    BY <1>2, NormalAgain, NetworkIs
  <2>5. protocol # "hysteria2"
    BY <1>0
  <2>6. /\ has \cap (QueryReads \cup {"flow"}) = has /\ has \in SUBSET Options /\ has \cap {"flow"} = own
        /\ has = own \cup (has \cap QueryReads) /\ "bad-early" \notin has
    BY <1>2 DEF QueryReads
  <2>7. has = own \cup (link.has \cap QueryReads)
    OBVIOUS
  <2> HIDE DEF cred, has, net, own, type
  <2>8. Import(link) = profile
    <3>1. Gives(link, protocol, cred, start, own, on, reality, link.net, has)
      <4>1. Asks(link, start, own, on, reality, link.net, has)
        BY <1>1, <2>7 DEF Asks
      <4> HIDE DEF profile, says, written, of, proxy
      <4> QED
        BY <2>5, <4>1, QueryIs, Zenon
    <3> QED
      BY <2>3, <3>1 DEF Import, Gives, net
  <2>9. /\ profile.protocol = "vless" /\ profile.cred = cred /\ profile.tls = on /\ profile.reality = reality
        /\ profile.net = net /\ profile.has = has
    BY <1>0, WholeIs
  <2> HIDE DEF profile
  <2>10. Export(profile) = written
    <3>1. Export(profile) = ExportURL(profile)
      BY <2>9 DEF Export
    <3>2. URLSecurity(profile) = says
      BY <2>2, <2>9 DEF URLSecurity
    <3> HIDE DEF says
    <3> QED
      BY <2>6, <2>9, <3>1, <3>2 DEF ExportURL
  <2> HIDE DEF says
  <2>11. /\ written.scheme = "vless" /\ written.cred = cred /\ written.has = has /\ written.security = says
         /\ written.net = net
    BY DEF Link
  <2>12. written \in WideLink
    BY <2>1, <2>2, <2>4, <2>6 DEF WideLink, Link, Schemes, Supported, NodeCreds, Creds
  <2> HIDE DEF written
  <2>13. Import(written) = profile
    <3>1. ImportLink(written) = ApplyV2RayQuery(Profile(protocol, cred, start, "tcp", own), written)
      BY <1>0, <2>1, <2>6, <2>11 DEF ImportLink, ImportVless
    <3>2. /\ on <=> (written.security = "unsaid" /\ start) \/ written.security \in {"tls", "reality"}
          /\ reality <=> written.security = "reality"
          /\ net = written.net /\ has = own \cup (written.has \cap QueryReads)
      BY <2>2, <2>6, <2>11
    <3>3. Gives(written, protocol, cred, start, own, on, reality, net, has)
      <4>1. Asks(written, start, own, on, reality, net, has)
        BY <3>2 DEF Asks
      <4> HIDE DEF of, proxy
      <4> QED
        BY <2>5, <4>1, QueryIs, Zenon
    <3> QED
      BY <2>4, <3>1, <3>3 DEF Import, profile, Gives
  <2> HIDE DEF of
  <2>14. /\ proxy # NoProxy /\ proxy.type = "vless" /\ proxy.cred = Decoded(cred) /\ proxy.tls = on
         /\ proxy.net = type /\ proxy.has = has \cap of
    BY DEF Proxy, NoProxy
  <2>15. ConvertLink(written) = proxy
    <3>1. written.cred # "none" /\ ConvertLink(written) = ParseVless(written) /\ ~FailsLate(written)
      BY <2>1, <2>6, <2>11 DEF ConvertLink, FailsLate
    <3>2. (on <=> written.security \in {"tls", "xtls", "reality"}) /\ type = LinkNetwork(written.net)
      BY <2>2, <2>11 DEF type
    <3>3. ParseVless(written) = Proxy("vless", Decoded(written.cred), on, type, written.has \cap VlessReads(type, on))
      BY <3>1, <3>2, VlessReadAs
    <3> QED
      BY <2>11, <3>1, <3>3 DEF of
  <2> HIDE DEF proxy
  <2>16. Faithful(link, proxy)
    <3>1. proxy.has \subseteq link.has
      BY <2>14 DEF has, own
    <3>2. "pbk" \in link.has => "pbk" \in proxy.has
      BY <2>14 DEF has, of, VlessReads, QueryReads
    <3> QED
      BY <1>1, <2>14, <3>1, <3>2 DEF Faithful, EncryptionIsKept, VerificationIsKept, TypeOf
  <2>17. PastedIsSubscribed(link, proxy)
    <3> DEFINE subscribed == ConvertLink(link)
    <3>1. CASE subscribed # NoProxy /\ link.net # "tcp-http" /\ link.security # "xtls"
      <4>1. subscribed = ParseVless(link)
        BY DEF ConvertLink
      <4>2. ~FailsLate(link)
        BY <1>2, <3>1, <4>1 DEF ParseVless, ParseVShare
      <4>3. (on <=> link.security \in {"tls", "xtls", "reality"}) /\ type = LinkNetwork(link.net)
        BY <2>2, <2>4, <3>1
      <4>4. ParseVless(link) = Proxy("vless", Decoded(link.cred), on, type, link.has \cap VlessReads(type, on))
        BY <1>4, <4>2, <4>3, VlessReadAs
      <4> HIDE DEF subscribed
      <4>5. /\ subscribed.type = "vless" /\ subscribed.cred = Decoded(cred) /\ subscribed.tls = on
            /\ subscribed.net = type /\ subscribed.has = link.has \cap of
        BY <2>1, <4>1, <4>4 DEF Proxy, of
      <4>6. has \cap of = (link.has \cap of) \ {"pin", "encryption"}
        <5>1. of \ {"pin", "encryption"} \subseteq QueryReads \cup {"flow"}
          <6>1. TransportReads(type) \subseteq QueryReads
            BY TransportIs
          <6> QED
            BY <6>1 DEF of, VlessReads, QueryReads
        <5>2. "pin" \notin has /\ "encryption" \notin has
          BY DEF has, own, QueryReads
        <5> QED
          BY <5>1, <5>2 DEF has, own
      <4>7. Lost("vless") = {"pin", "encryption"}
        BY DEF Lost
      <4> QED
        BY <2>14, <4>5, <4>6, <4>7 DEF PastedIsSubscribed, subscribed
    <3> QED
      BY <3>1 DEF PastedIsSubscribed
  <2> QED
    BY <2>8, <2>10, <2>12, <2>13, <2>14, <2>15, <2>16, <2>17 DEF Comes
<1> QED
  BY <1>3, <1>4

\* The options that a vmess profile is stored with, and those that its link is read for.
VmessStores(grpc) ==
    {"packet", "sni", "alpn", "insecure", "utls", "ech", "host", "extra"}
        \cup IF grpc THEN {"service"} ELSE {"path", "early"}
VmessReads(net, tls) ==
    {"sni"} \cup (IF tls THEN {"alpn"} ELSE {}) \cup IF net = "xhttp" THEN {} ELSE TransportReads(net)

LEMMA VmessWithin ==
    ASSUME NEW net \in Nets \ {"xhttp"}, NEW tls \in BOOLEAN, NEW grpc, grpc <=> net = "grpc"
    PROVE  VmessReads(LinkNetwork(net), tls) \subseteq VmessStores(grpc)
<1>1. CASE net = "grpc"
  <2>1. LinkNetwork(net) = "grpc" /\ TransportReads("grpc") = {"service"}
    BY <1>1 DEF LinkNetwork, TransportReads
  <2> QED
    BY <1>1, <2>1 DEF VmessReads, VmessStores
<1>2. CASE net # "grpc"
  <2>1. TransportReads(LinkNetwork(net)) \subseteq {"path", "host", "early"}
    BY <1>2 DEF LinkNetwork, TransportReads, Nets, HttpReads, H2Reads, WsReads
  <2> QED
    BY <1>2, <2>1 DEF VmessReads, VmessStores
<1> QED
  BY <1>1, <1>2

LEMMA NormalWhole ==
    ASSUME NEW protocol, protocol # "hysteria2", NEW cred, NEW tls \in BOOLEAN, NEW net, NEW has
    PROVE  NormalizeV2RayProfile(Profile(protocol, cred, tls, net, has)) =
               Profile(protocol, cred, tls, NormalNetwork(net), has)
<1>0. SUFFICES ASSUME NEW reality \in BOOLEAN, reality = FALSE
                PROVE  NormalizeV2RayProfile(Profile(protocol, cred, tls, net, has)) =
                           Profile(protocol, cred, tls, NormalNetwork(net), has)
  OBVIOUS
<1> DEFINE given == [protocol |-> protocol, cred |-> cred, tls |-> tls, reality |-> reality, net |-> net, has |-> has]
           on == tls \/ reality \/ protocol = "hysteria2"
           normal == NormalNetwork(net)
<1>1. Profile(protocol, cred, tls, net, has) = given
  BY <1>0 DEF Profile
<1>2. NormalizeV2RayProfile(given) =
          [protocol |-> protocol, cred |-> cred, tls |-> on, reality |-> reality,
           net |-> normal, has |-> has]
  BY NormalIs
<1>3. on = tls
  BY <1>0
<1> HIDE DEF on, normal
<1>4. Profile(protocol, cred, tls, normal, has) =
          [protocol |-> protocol, cred |-> cred, tls |-> tls, reality |-> reality, net |-> normal, has |-> has]
  BY <1>0 DEF Profile
<1> QED
  BY <1>1, <1>2, <1>3, <1>4 DEF normal

LEMMA VmessReadAs ==
    ASSUME NEW link, link.scheme = "vmess", link.cred # "none", NEW tls \in BOOLEAN,
           tls <=> link.security \in {"tls", "xtls"}, NEW net, net = LinkNetwork(link.net)
    PROVE  ConvertLink(link) = Proxy("vmess", link.cred, tls, net, link.has \cap VmessReads(net, tls))
<1>1. ConvertLink(link) = ParseVmess(link)
  BY DEF ConvertLink
<1>2. (link.security \in {"tls", "xtls"}) = tls
  OBVIOUS
<1> QED
  BY <1>1, <1>2 DEF ParseVmess, Proxy, VmessReads

LEMMA VmessComes ==
    ASSUME NEW link, Pasted(link), link.scheme = "vmess"
    PROVE  Comes(link)
<1>0. SUFFICES ASSUME NEW tls \in BOOLEAN, tls = (link.security = "tls"),
                       NEW grpc \in BOOLEAN, grpc = (link.net = "grpc")
                PROVE  Comes(link)
  OBVIOUS
<1> DEFINE cred == link.cred
           has == link.has \cap VmessStores(grpc)
           net == NormalNetwork(link.net)
           profile == Profile("vmess", cred, tls, net, has)
           out == IF net = "http" THEN "h2" ELSE net
           says == IF tls THEN "tls" ELSE "none"
           written == Link("vmess", cred, says, out, has)
           type == LinkNetwork(out)
           of == VmessReads(type, tls)
           proxy == Proxy("vmess", cred, tls, type, has \cap of)
<1>1. /\ cred \in {"none", "plain"} /\ link.has \in SUBSET Options
      /\ link.security \in {"none", "tls", "xtls", "reality"} /\ link.net \in Nets \ {"xhttp"}
  BY DEF Pasted, CredsOf, LinkType, SecuritiesOf, NetsOf, Nets
<1>2. CASE link.cred = "none"
  <2>1. ImportLink(link) = NoProfile
    BY <1>2 DEF ImportLink, ImportVmess
  <2> QED
    BY <2>1, NothingComes
<1>3. CASE link.cred # "none"
  <2>1. cred = "plain"
    BY <1>1, <1>3
  <2>2. says \in {"tls", "none"} /\ (says = "tls") = tls /\ (tls <=> says \in {"tls", "xtls"})
        /\ (link.security # "xtls" => (tls <=> link.security \in {"tls", "xtls"}))
    BY <1>0
  <2>3. ImportLink(link) = Profile("vmess", cred, tls, link.net, has)
    BY <1>0, <1>3 DEF ImportLink, ImportVmess, VmessStores
  <2>4. /\ net \in Nets /\ out \in Nets /\ NormalNetwork(out) = net /\ (out = "grpc") = grpc
        /\ (net = "grpc") = grpc /\ (link.net # "tcp-http" => type = LinkNetwork(link.net))
    BY <1>0, <1>1 DEF NormalNetwork, Nets, LinkNetwork
  <2>5. has \cap VmessStores(grpc) = has /\ has \in SUBSET Options
    BY <1>1
  <2> HIDE DEF cred, has, net, out, says, type
  <2>6. Import(link) = profile
    <3>1. NormalizeV2RayProfile(Profile("vmess", cred, tls, link.net, has)) =
              Profile("vmess", cred, tls, NormalNetwork(link.net), has)
      BY NormalWhole
    <3> QED
      BY <2>3, <3>1 DEF Import, net
  <2>7. profile.protocol = "vmess" /\ profile.cred = cred /\ profile.tls = tls /\ profile.net = net /\ profile.has = has
    BY DEF Profile
  <2> HIDE DEF profile
  <2>8. Export(profile) = written
    <3>1. Export(profile) = ExportVmess(profile)
      BY <2>7 DEF Export
    <3> QED
      BY <2>4, <2>5, <2>7, <3>1 DEF ExportVmess, VmessStores, out, says
  <2>9. /\ written.scheme = "vmess" /\ written.cred = cred /\ written.has = has /\ written.security = says
        /\ written.net = out
    BY DEF Link
  <2>10. written \in WideLink
    BY <2>1, <2>2, <2>4, <2>5 DEF WideLink, Link, Schemes, Supported, NodeCreds, Creds
  <2> HIDE DEF written
  <2>11. Import(written) = profile
    <3>1. ImportLink(written) = Profile("vmess", cred, tls, out, has)
      BY <2>1, <2>2, <2>4, <2>5, <2>9 DEF ImportLink, ImportVmess, VmessStores
    <3>2. NormalizeV2RayProfile(Profile("vmess", cred, tls, out, has)) =
              Profile("vmess", cred, tls, NormalNetwork(out), has)
      BY NormalWhole
    <3> QED
      BY <2>4, <3>1, <3>2 DEF Import, profile
  <2> HIDE DEF of
  <2>12. /\ proxy # NoProxy /\ proxy.type = "vmess" /\ proxy.cred = cred /\ proxy.tls = tls
         /\ proxy.net = type /\ proxy.has = has \cap of
    BY DEF Proxy, NoProxy
  <2>13. ConvertLink(written) = proxy
    <3>1. written.cred # "none" /\ (tls <=> written.security \in {"tls", "xtls"}) /\ type = LinkNetwork(written.net)
      BY <2>1, <2>2, <2>9 DEF type
    <3>2. ConvertLink(written) = Proxy("vmess", written.cred, tls, type, written.has \cap VmessReads(type, tls))
      BY <2>9, <3>1, VmessReadAs
    <3> QED
      BY <2>9, <3>2 DEF of
  <2> HIDE DEF proxy
  <2>14. Faithful(link, proxy)
    <3>1. proxy.has \subseteq link.has
      BY <2>12 DEF has
    <3> QED
      BY <1>0, <2>12, <3>1 DEF Faithful, EncryptionIsKept, VerificationIsKept, TypeOf
  <2>15. PastedIsSubscribed(link, proxy)
    <3> DEFINE subscribed == ConvertLink(link)
    <3>1. CASE subscribed # NoProxy /\ link.net # "tcp-http" /\ link.security # "xtls"
      <4>1. (tls <=> link.security \in {"tls", "xtls"}) /\ type = LinkNetwork(link.net)
        BY <2>2, <2>4, <3>1
      <4>2. subscribed = Proxy("vmess", link.cred, tls, type, link.has \cap VmessReads(type, tls))
        BY <1>3, <4>1, VmessReadAs
      <4> HIDE DEF subscribed
      <4>3. /\ subscribed.type = "vmess" /\ subscribed.cred = cred /\ subscribed.tls = tls
            /\ subscribed.net = type /\ subscribed.has = link.has \cap of
        BY <4>2 DEF Proxy, of, cred
      <4>4. has \cap of = link.has \cap of
        <5>1. of \subseteq VmessStores(grpc)
          BY <1>0, <1>1, <4>1, VmessWithin DEF of
        <5> QED
          BY <5>1 DEF has
      <4>5. Lost("vmess") = {}
        BY DEF Lost
      <4> QED
        BY <2>12, <4>3, <4>4, <4>5 DEF PastedIsSubscribed, subscribed
    <3> QED
      BY <3>1 DEF PastedIsSubscribed
  <2> QED
    BY <2>6, <2>8, <2>10, <2>11, <2>12, <2>13, <2>14, <2>15 DEF Comes
<1> QED
  BY <1>2, <1>3

\* Every link that is stored comes back as what it was, and is read then as a link of a
\* subscription is.
LEMMA PastedComes ==
    ASSUME NEW link, Pasted(link)
    PROVE  Comes(link)
<1>1. link.scheme \in Schemes
  BY DEF Pasted, LinkType
<1>2. CASE link.scheme = "vless"
  BY <1>2, VlessComes
<1>3. CASE link.scheme = "vmess"
  BY <1>3, VmessComes
<1>4. CASE link.scheme = "trojan"
  BY <1>4, TrojanComes
<1>5. CASE link.scheme = "anytls"
  BY <1>5, AnyTlsComes
<1>6. CASE link.scheme = "socks"
  BY <1>6, SocksComes
<1>7. CASE link.scheme = "http-proxy"
  BY <1>7, HTTPProxyComes
<1>8. CASE link.scheme = "ss"
  BY <1>8, ShadowsocksComes
<1>9. CASE link.scheme = "hysteria2"
  BY <1>9, HysteriaComes
<1>10. CASE link.scheme = "wireguard-ini"
  BY <1>10, WireGuardComes
<1>11. CASE link.scheme \in {"vmess-aead", "wireguard"} \cup DocumentOnly
  BY <1>11, OthersCome
<1> QED
  BY <1>1, <1>2, <1>3, <1>4, <1>5, <1>6, <1>7, <1>8, <1>9, <1>10, <1>11 DEF Schemes, Supported

-----------------------------------------------------------------------------
(* Each form of a source.                                                     *)

LEMMA InSeq ==
    ASSUME NEW S, NEW R, NEW list \in Seq(S), \A x \in ToSet(list) : x \in R
    PROVE  list \in Seq(R)
<1>1. \A i \in 1 .. Len(list) : list[i] \in R
  BY DEF ToSet
<1>2. Len(list) \in Nat /\ list = [i \in 1 .. Len(list) |-> list[i]]
  OBVIOUS
<1> QED
  BY <1>1, <1>2, Listed

\* A node is as good as the proxy that it carries.
LEMMA CarriesOn ==
    ASSUME NEW node, NEW server, NEW proxy, NEW link, Carries(node, server, proxy)
    PROVE  /\ Faithful(link, proxy) => Faithful(link, node)
           /\ PastedIsSubscribed(link, proxy) => PastedIsSubscribed(link, node)
<1>1. /\ node.type = proxy.type /\ node.cred = proxy.cred /\ node.tls = proxy.tls /\ node.net = proxy.net
      /\ node.has = proxy.has
  BY DEF Carries
<1>2. Faithful(link, proxy) => Faithful(link, node)
  BY <1>1 DEF Faithful, EncryptionIsKept, VerificationIsKept
<1>3. PastedIsSubscribed(link, proxy) => PastedIsSubscribed(link, node)
  BY <1>1, Zenon DEF PastedIsSubscribed
<1> QED
  BY <1>2, <1>3

\* A server that was read, and what it was read as.
ReadOf(node, server) == Carries(node, server, ConvertLink(server.link))

\* Links, whoever wrote them: what is read is named and typed, each server can be read is
\* there, and nothing else is.
LEMMA LinksRead ==
    ASSUME NEW N, Numbers(N), NEW T \in SUBSET WideServer, NEW servers \in Seq(T),
           \A s \in T : LinkName(s) \in N
    PROVE  LET read == ReadLinks(servers) IN
           /\ read \in Seq(NodeOf(N))
           /\ \A node \in ToSet(read) : \E s \in ToSet(servers) : ConvertLink(s.link) # NoProxy /\ ReadOf(node, s)
           /\ \A s \in ToSet(servers) : ConvertLink(s.link) # NoProxy => \E node \in ToSet(read) : ReadOf(node, s)
<1> DEFINE P == [s \in T |-> ConvertLink(s.link)]
           W == [s \in T |-> LinkName(s)]
           places == {i \in DOMAIN servers : ConvertLink(servers[i].link) # NoProxy \/ FailsLate(servers[i].link)}
           named == At(servers, places)
           wanted == [i \in DOMAIN named |-> Node(named[i], W[named[i]], P[named[i]], "links")]
           all == Renamed(wanted)
           fine == {i \in DOMAIN all : all[i].type # "none"}
           read == At(all, fine)
<1>1. \A s \in T : ConvertLink(s.link) \in ProxyType /\ (ConvertLink(s.link) # NoProxy => ConvertLink(s.link).type # "none")
  <2> TAKE s \in T
  <2>1. s.link \in WideLink /\ s.link.scheme \in Schemes
    BY DEF WideServer, WideLink
  <2>2. Reads(s.link, ConvertLink(s.link))
    BY <2>1, ConvertIs
  <2>3. TypeOf(s.link.scheme) \in Kinds
    BY <2>1, TypeOfIs
  <2> QED
    BY <2>2, <2>3, NoProxyIs, KindsAre DEF Reads
<1>2. P \in [T -> ProxyType] /\ \A s \in T : P[s] = ConvertLink(s.link)
  BY <1>1
<1>3. W \in [T -> N] /\ \A s \in T : W[s] = LinkName(s)
  OBVIOUS
<1>4. "links" = "links"
  OBVIOUS
<1> HIDE DEF P, W, places
<1>5. /\ all \in Seq(Loose(N)) /\ Len(all) = Len(named)
      /\ named \in Seq(T) /\ ToSet(named) = {servers[i] : i \in places \cap DOMAIN servers}
      /\ \A i \in DOMAIN named : Carries(all[i], named[i], P[named[i]])
  <2>1. ASSUME NEW form, form = "links"
        PROVE  ReadIs(N, T, servers, places, named, P, all)
    <3>1. wanted = [i \in DOMAIN named |-> Node(named[i], W[named[i]], P[named[i]], form)]
      BY <2>1
    <3> HIDE DEF wanted, named
    <3>2. named = At(servers, places)
      BY DEF named
    <3>3. P \in [T -> ProxyType]
      BY <1>2
    <3>4. W \in [T -> N]
      BY <1>3
    <3> QED
      BY <3>1, <3>2, <3>3, <3>4, ReadAs, Zenon
  <2>2. ReadIs(N, T, servers, places, named, P, all)
    BY <1>4, <2>1
  <2> HIDE DEF all, named
  <2> QED
    BY <2>2 DEF ReadIs
<1>6. ReadLinks(servers) = read
  <2>1. \A i \in DOMAIN named : named[i] \in T
    BY <1>5
  <2>2. wanted = [i \in DOMAIN named |-> Node(named[i], LinkName(named[i]), ConvertLink(named[i].link), "links")]
    BY <1>2, <1>3, <2>1
  <2> QED
    BY <2>2, NoProxyIs DEF ReadLinks, places
<1> HIDE DEF wanted, named, all, fine
<1>7. read \in Seq(Loose(N)) /\ ToSet(read) = {all[i] : i \in fine \cap DOMAIN all}
  BY <1>5, AtIs, AtSet
<1>8. DOMAIN all = DOMAIN named /\ \A i \in DOMAIN all : all[i] \in Loose(N) /\ named[i] \in T /\ named[i] \in ToSet(named)
  BY <1>5 DEF ToSet
<1>9. fine = {i \in DOMAIN all : all[i].type # "none"}
  BY DEF fine
<1>10. \A i \in DOMAIN all : ReadOf(all[i], named[i]) /\ all[i].type = ConvertLink(named[i].link).type
  BY <1>2, <1>5, <1>8 DEF ReadOf, Carries
<1>11. \A i \in DOMAIN all : all[i].type # "none" <=> ConvertLink(named[i].link) # NoProxy
  BY <1>1, <1>8, <1>10, NoProxyIs
<1>12. ToSet(named) \subseteq ToSet(servers)
  BY <1>5 DEF ToSet
<1> HIDE DEF read
<1>13. read \in Seq(NodeOf(N))
  <2>1. \A node \in ToSet(read) : node \in NodeOf(N)
    BY <1>7, <1>8, <1>9, FineIs
  <2> QED
    BY <1>7, <2>1, InSeq
<1>14. \A node \in ToSet(read) : \E s \in ToSet(servers) : ConvertLink(s.link) # NoProxy /\ ReadOf(node, s)
  <2> TAKE node \in ToSet(read)
  <2>1. PICK i \in DOMAIN all : node = all[i] /\ i \in fine
    BY <1>7
  <2>2. ConvertLink(named[i].link) # NoProxy /\ ReadOf(node, named[i]) /\ named[i] \in ToSet(servers)
    BY <1>8, <1>9, <1>10, <1>11, <1>12, <2>1
  <2> QED
    BY <2>2
<1>15. \A s \in ToSet(servers) : ConvertLink(s.link) # NoProxy => \E node \in ToSet(read) : ReadOf(node, s)
  <2> SUFFICES ASSUME NEW s \in ToSet(servers), ConvertLink(s.link) # NoProxy
               PROVE  \E node \in ToSet(read) : ReadOf(node, s)
    OBVIOUS
  <2>1. PICK k \in DOMAIN servers : s = servers[k]
    BY DEF ToSet
  <2>2. k \in places
    BY <2>1 DEF places
  <2>3. s \in ToSet(named)
    BY <1>5, <2>1, <2>2
  <2>4. PICK i \in DOMAIN named : s = named[i]
    BY <2>3 DEF ToSet
  <2>5. i \in fine /\ ReadOf(all[i], s)
    BY <1>8, <1>9, <1>10, <1>11, <2>4
  <2>6. all[i] \in ToSet(read)
    BY <1>7, <1>8, <2>5
  <2> QED
    BY <2>5, <2>6
<1> QED
  BY <1>6, <1>13, <1>14, <1>15

\* Descriptions in JSON: P reads one, and reads all that are taken.
Described(N, servers, P, list) ==
    /\ list \in Seq(NodeOf(N))
    /\ \A node \in ToSet(list) : \E s \in ToSet(servers) : Carries(node, s, P[s]) /\ P[s].type # "none"

LEMMA DescriptionsRead ==
    ASSUME NEW N, Numbers(N), NEW T \in SUBSET WideServer, NEW servers \in Seq(T), NEW places,
           NEW P \in [T -> ProxyType], NEW W \in [T -> N],
           NEW read, read = At(servers, places), \A s \in ToSet(read) : P[s].type # "none",
           NEW form, NEW wanted, wanted = [i \in DOMAIN read |-> Node(read[i], W[read[i]], P[read[i]], form)]
    PROVE  Described(N, servers, P, Renamed(wanted))
<1> DEFINE all == Renamed(wanted)
<1>2. ReadIs(N, T, servers, places, read, P, all)
  BY ReadAs, Zenon
<1> HIDE DEF all
<1>3. /\ all \in Seq(Loose(N)) /\ Len(all) = Len(read)
      /\ read \in Seq(T) /\ ToSet(read) = {servers[i] : i \in places \cap DOMAIN servers}
      /\ \A i \in DOMAIN read : Carries(all[i], read[i], P[read[i]])
  BY <1>2 DEF ReadIs
<1>4. /\ DOMAIN all = DOMAIN read
      /\ \A i \in DOMAIN all : read[i] \in ToSet(read) /\ all[i] \in Loose(N) /\ Carries(all[i], read[i], P[read[i]])
  BY <1>3 DEF ToSet
<1>5. \A i \in DOMAIN all : all[i].type # "none" /\ P[read[i]].type # "none"
  BY <1>4 DEF Carries
<1>6. ToSet(all) = {all[i] : i \in DOMAIN all}
  BY DEF ToSet
<1>7. \A node \in ToSet(all) : node \in NodeOf(N)
  BY <1>4, <1>5, <1>6, FineIs
<1>8. all \in Seq(NodeOf(N))
  BY <1>3, <1>7, InSeq
<1>9. ToSet(read) \subseteq ToSet(servers)
  BY <1>3 DEF ToSet
<1>10. \A node \in ToSet(all) : \E s \in ToSet(servers) : Carries(node, s, P[s]) /\ P[s].type # "none"
  BY <1>4, <1>5, <1>6, <1>9
<1> QED
  BY <1>8, <1>10 DEF all, Described

\* What the servers of a source are, when its names are of N.
Given(N, form) == {s \in ServerType : s.label \in N /\ <<s.host>> \in N /\ IsSaid(s.link, form)}

\* The node is the server, and protected as its description says.
Serves(node, server) ==
    /\ node.host = server.host /\ node.key = server.key
    /\ TLSKeyed(node) /\ Faithful(server.link, node)

\* What is read of a source.
ListRead(list, N) == list \in Seq(NodeOf(N))
AllServe(list, servers) == \A node \in ToSet(list) : \E s \in ToSet(servers) : Serves(node, s)

LEMMA GivenIs ==
    ASSUME NEW N, NEW form
    PROVE  /\ Given(N, form) \subseteq ServerType /\ ServerType \subseteq WideServer
           /\ \A s \in Given(N, form) : s.label \in N /\ <<s.host>> \in N /\ LinkName(s) \in N
           /\ \A s \in Given(N, form) : ~IsText(form) => Said(s.link)
           /\ \A s \in Given(N, form) : form = "warp" => s.link.scheme = "wireguard"
           /\ \A s \in Given(N, form) : Pasted(s.link)
<1>1. ServerType \subseteq WideServer
  <2>1. LinkType \subseteq WideLink
    BY DEF LinkType, WideLink, NodeCreds
  <2> HIDE DEF ServerType
  <2> QED
    BY <2>1 DEF ServerType, WideServer
<1>2. \A s \in Given(N, form) : s.label \in N /\ <<s.host>> \in N /\ LinkName(s) \in N
  BY DEF Given, LinkName
<1>3. \A s \in Given(N, form) : s.link \in LinkType
  BY DEF Given, ServerType
<1>4. \A s \in Given(N, form) : Pasted(s.link)
  <2> TAKE s \in Given(N, form)
  <2>1. s.link \in LinksOf(s.link.scheme)
    BY DEF Given, IsSaid
  <2>2. /\ s.link.cred \in CredsOf(s.link.scheme) /\ s.link.security \in SecuritiesOf(s.link.scheme)
        /\ s.link.net \in NetsOf(s.link.scheme)
    BY <2>1 DEF LinksOf
  <2> QED
    BY <1>3, <2>2 DEF Pasted
<1>5. \A s \in Given(N, form) : ~IsText(form) => Said(s.link)
  BY <1>3, <1>4 DEF Pasted, Said, Given, IsSaid
<1>6. \A s \in Given(N, form) : form = "warp" => s.link.scheme = "wireguard"
  BY DEF Given, IsSaid
<1>7. Given(N, form) \subseteq ServerType
  BY DEF Given
<1> QED
  BY <1>1, <1>2, <1>4, <1>5, <1>6, <1>7

\* A server's proxy makes a node of the server.
LEMMA ServesAs ==
    ASSUME NEW node, NEW s, NEW proxy, Carries(node, s, proxy), Faithful(s.link, proxy)
    PROVE  Serves(node, s)
<1>1. node.host = s.host /\ node.key = s.key /\ TLSKeyed(node)
  BY DEF Carries
<1> QED
  BY <1>1, CarriesOn DEF Serves

LEMMA SubscribedRead ==
    ASSUME NEW N, Numbers(N), NEW form, NEW servers \in Seq(Given(N, form))
    PROVE  ListRead(ReadLinks(servers), N) /\ AllServe(ReadLinks(servers), servers)
<1> DEFINE T == Given(N, form)
           read == ReadLinks(servers)
<1>1. T \in SUBSET WideServer /\ (\A s \in T : LinkName(s) \in N) /\ (\A s \in T : Pasted(s.link))
  BY GivenIs
<1>2. servers \in Seq(T)
  OBVIOUS
<1> HIDE DEF T, read
<1>3. /\ read \in Seq(NodeOf(N))
      /\ \A node \in ToSet(read) : \E s \in ToSet(servers) : ConvertLink(s.link) # NoProxy /\ ReadOf(node, s)
  BY <1>1, <1>2, LinksRead DEF read
<1>4. \A s \in ToSet(servers) : s \in T
  BY <1>2, ElementsOf
<1>5. \A s \in ToSet(servers) : ConvertLink(s.link) # NoProxy => Faithful(s.link, ConvertLink(s.link))
  BY <1>1, <1>4, ConvertFaithful DEF Pasted
<1>6. AllServe(read, servers)
  BY <1>3, <1>5, ServesAs DEF AllServe, ReadOf
<1> QED
  BY <1>3, <1>6 DEF read, ListRead

\* A form whose servers P reads, and W names.
ReadBy(N, T, servers, places, form, P, W, read, wanted) ==
    /\ T \in SUBSET WideServer /\ servers \in Seq(T) /\ P \in [T -> ProxyType] /\ W \in [T -> N]
    /\ \A s \in T : P[s].type = "none" \/ Faithful(s.link, P[s])
    /\ read = At(servers, places) /\ \A s \in ToSet(read) : P[s].type # "none"
    /\ wanted = [i \in DOMAIN read |-> Node(read[i], W[read[i]], P[read[i]], form)]

WellRead(list, servers, N) == ListRead(list, N) /\ AllServe(list, servers)

LEMMA DescribedRead ==
    ASSUME NEW N, Numbers(N), NEW T, NEW servers, NEW places, NEW form, NEW P, NEW W, NEW read, NEW wanted,
           ReadBy(N, T, servers, places, form, P, W, read, wanted)
    PROVE  WellRead(Renamed(wanted), servers, N)
<1> DEFINE all == Renamed(wanted)
<1>1. /\ T \in SUBSET WideServer /\ servers \in Seq(T) /\ P \in [T -> ProxyType] /\ W \in [T -> N]
      /\ \A s \in T : P[s].type = "none" \/ Faithful(s.link, P[s])
      /\ read = At(servers, places) /\ \A s \in ToSet(read) : P[s].type # "none"
      /\ wanted = [i \in DOMAIN read |-> Node(read[i], W[read[i]], P[read[i]], form)]
  BY Zenon DEF ReadBy
<1>2. Described(N, servers, P, all)
  BY <1>1, DescriptionsRead, Zenon
<1> HIDE DEF all
<1>3. /\ all \in Seq(NodeOf(N))
      /\ \A node \in ToSet(all) : \E s \in ToSet(servers) : Carries(node, s, P[s]) /\ P[s].type # "none"
  BY <1>2 DEF Described
<1>4. \A s \in ToSet(servers) : s \in T
  BY <1>1, ElementsOf
<1>5. AllServe(all, servers)
  BY <1>1, <1>3, <1>4, ServesAs DEF AllServe
<1> QED
  BY <1>3, <1>5 DEF all, ListRead, WellRead

\* A mihomo configuration.
LEMMA DocumentRead ==
    ASSUME NEW N, Numbers(N), NEW servers \in Seq(Given(N, "document"))
    PROVE  ListRead(ReadDocument(servers), N) /\ AllServe(ReadDocument(servers), servers)
<1> DEFINE T == Given(N, "document")
           P == [s \in T |-> DocumentProxy(s.link)]
           W == [s \in T |-> s.label]
           places == {i \in DOMAIN servers : servers[i].label # <<>>}
           read == At(servers, places)
           wanted == [i \in DOMAIN read |-> Node(read[i], W[read[i]], P[read[i]], "document")]
<1>1. \A s \in T : Said(s.link) /\ s.label \in N /\ <<s.host>> \in N
  BY GivenIs DEF IsText
<1>2. \A s \in T : /\ DocumentProxy(s.link) \in ProxyType
                   /\ DocumentProxy(s.link) = NoProxy \/ (DocumentProxy(s.link) # NoProxy /\ Faithful(s.link, DocumentProxy(s.link)))
  BY <1>1, DocumentFaithful, NoProxyIs
<1>3. P \in [T -> ProxyType] /\ \A s \in T : P[s] = DocumentProxy(s.link)
  BY <1>2
<1>4. W \in [T -> N] /\ \A s \in T : W[s] = s.label
  BY <1>1
<1>5. \A s \in T : DocumentProxy(s.link) # NoProxy => (DocumentProxy(s.link)).type # "none"
  <2> TAKE s \in T
  <2>1. s.link.scheme \in Schemes
    BY <1>1 DEF Said, LinkType
  <2> QED
    BY <1>2, <2>1, TypeOfIs, KindsAre DEF Faithful
<1>6. servers \in Seq(T)
  OBVIOUS
<1>7. read \in Seq(T) /\ ToSet(read) = {servers[i] : i \in places \cap DOMAIN servers}
  <2> HIDE DEF places, T
  <2> QED
    BY <1>6, AtIs, AtSet
<1>8. \A i \in DOMAIN read : read[i] \in T
  BY <1>7
<1>9. \A i \in DOMAIN servers : servers[i] \in T
  BY <1>6
<1> HIDE DEF P, W, T
<1>10. \A s \in ToSet(read) : P[s].type # "none"
  BY <1>2, <1>3, <1>5, <1>7, <1>9, DocumentFaithful, <1>1
<1>11. ReadDocument(servers) = Renamed(wanted)
  <2>1. wanted = [i \in DOMAIN read |-> Node(read[i], read[i].label, DocumentProxy(read[i].link), "document")]
    BY <1>3, <1>4, <1>8
  <2> QED
    BY <2>1, Zenon DEF ReadDocument, DocumentProxy
<1>12. \A s \in T : P[s].type = "none" \/ Faithful(s.link, P[s])
  BY <1>2, <1>3, NoProxyIs
<1> HIDE DEF places, read, wanted
<1>13. WellRead(Renamed(wanted), servers, N)
  <2>1. T \in SUBSET WideServer
    BY GivenIs DEF T
  <2>2. ReadBy(N, T, servers, places, "document", P, W, read, wanted)
    BY <1>3, <1>4, <1>6, <1>10, <1>12, <2>1, Zenon DEF ReadBy, read, wanted
  <2> QED
    BY <2>2, DescribedRead, Zenon
<1> QED
  BY <1>11, <1>13 DEF WellRead

\* A sing-box configuration.
LEMMA SingBoxRead ==
    ASSUME NEW N, Numbers(N), NEW servers \in Seq(Given(N, "singbox"))
    PROVE  ListRead(ReadSingBox(servers), N) /\ AllServe(ReadSingBox(servers), servers)
<1> DEFINE T == Given(N, "singbox")
           P == [s \in T |-> SingBoxProxy(s.link)]
           W == [s \in T |-> s.label]
           places == {i \in DOMAIN servers : servers[i].label # <<>> /\ SingBoxProxy(servers[i].link) # NoProxy}
           read == At(servers, places)
           wanted == [i \in DOMAIN read |-> Node(read[i], W[read[i]], P[read[i]], "singbox")]
<1>1. \A s \in T : Said(s.link) /\ s.label \in N /\ <<s.host>> \in N
  BY GivenIs DEF IsText
<1>2. \A s \in T : /\ SingBoxProxy(s.link) \in ProxyType
                   /\ SingBoxProxy(s.link) = NoProxy \/ (SingBoxProxy(s.link) # NoProxy /\ Faithful(s.link, SingBoxProxy(s.link)))
  BY <1>1, SingBoxFaithful, NoProxyIs
<1>3. P \in [T -> ProxyType] /\ \A s \in T : P[s] = SingBoxProxy(s.link)
  BY <1>2
<1>4. W \in [T -> N] /\ \A s \in T : W[s] = s.label
  BY <1>1
<1>5. \A s \in T : SingBoxProxy(s.link) # NoProxy => (SingBoxProxy(s.link)).type # "none"
  <2> TAKE s \in T
  <2>1. s.link.scheme \in Schemes
    BY <1>1 DEF Said, LinkType
  <2> QED
    BY <1>2, <2>1, TypeOfIs, KindsAre DEF Faithful
<1>6. servers \in Seq(T)
  OBVIOUS
<1>7. read \in Seq(T) /\ ToSet(read) = {servers[i] : i \in places \cap DOMAIN servers}
  <2> HIDE DEF places, T
  <2> QED
    BY <1>6, AtIs, AtSet
<1>8. \A i \in DOMAIN read : read[i] \in T
  BY <1>7
<1>9. \A i \in DOMAIN servers : servers[i] \in T
  BY <1>6
<1> HIDE DEF P, W, T
<1>10. \A s \in ToSet(read) : P[s].type # "none"
  BY <1>2, <1>3, <1>5, <1>7, <1>9
<1>11. ReadSingBox(servers) = Renamed(wanted)
  <2>1. wanted = [i \in DOMAIN read |-> Node(read[i], read[i].label, SingBoxProxy(read[i].link), "singbox")]
    BY <1>3, <1>4, <1>8
  <2> QED
    BY <2>1, Zenon DEF ReadSingBox
<1>12. \A s \in T : P[s].type = "none" \/ Faithful(s.link, P[s])
  BY <1>2, <1>3, NoProxyIs
<1> HIDE DEF places, read, wanted
<1>13. WellRead(Renamed(wanted), servers, N)
  <2>1. T \in SUBSET WideServer
    BY GivenIs DEF T
  <2>2. ReadBy(N, T, servers, places, "singbox", P, W, read, wanted)
    BY <1>3, <1>4, <1>6, <1>10, <1>12, <2>1, Zenon DEF ReadBy, read, wanted
  <2> QED
    BY <2>2, DescribedRead, Zenon
<1> QED
  BY <1>11, <1>13 DEF WellRead

\* Xray configurations.
LEMMA XrayRead ==
    ASSUME NEW N, Numbers(N), NEW servers \in Seq(Given(N, "xray"))
    PROVE  ListRead(ReadXray(servers), N) /\ AllServe(ReadXray(servers), servers)
<1> DEFINE T == Given(N, "xray")
           P == [s \in T |-> XrayProxy(s.link)]
           W == [s \in T |-> IF s.label = <<>> THEN <<s.host>> ELSE s.label]
           places == {i \in DOMAIN servers : XrayProxy(servers[i].link) # NoProxy}
           read == At(servers, places)
           wanted == [i \in DOMAIN read |-> Node(read[i], W[read[i]], P[read[i]], "xray")]
<1>1. \A s \in T : Said(s.link) /\ s.label \in N /\ <<s.host>> \in N
  BY GivenIs DEF IsText
<1>2. \A s \in T : /\ XrayProxy(s.link) \in ProxyType
                   /\ XrayProxy(s.link) = NoProxy \/ (XrayProxy(s.link) # NoProxy /\ Faithful(s.link, XrayProxy(s.link)))
  BY <1>1, XrayFaithful, NoProxyIs
<1>3. P \in [T -> ProxyType] /\ \A s \in T : P[s] = XrayProxy(s.link)
  BY <1>2
<1>4. W \in [T -> N] /\ \A s \in T : W[s] = LabelOrAddress(s)
  BY <1>1 DEF LabelOrAddress
<1>5. \A s \in T : XrayProxy(s.link) # NoProxy => (XrayProxy(s.link)).type # "none"
  <2> TAKE s \in T
  <2>1. s.link.scheme \in Schemes
    BY <1>1 DEF Said, LinkType
  <2> QED
    BY <1>2, <2>1, TypeOfIs, KindsAre DEF Faithful
<1>6. servers \in Seq(T)
  OBVIOUS
<1>7. read \in Seq(T) /\ ToSet(read) = {servers[i] : i \in places \cap DOMAIN servers}
  <2> HIDE DEF places, T
  <2> QED
    BY <1>6, AtIs, AtSet
<1>8. \A i \in DOMAIN read : read[i] \in T
  BY <1>7
<1>9. \A i \in DOMAIN servers : servers[i] \in T
  BY <1>6
<1> HIDE DEF P, W, T
<1>10. \A s \in ToSet(read) : P[s].type # "none"
  BY <1>2, <1>3, <1>5, <1>7, <1>9
<1>11. ReadXray(servers) = Renamed(wanted)
  <2>1. wanted = [i \in DOMAIN read |-> Node(read[i], LabelOrAddress(read[i]), XrayProxy(read[i].link), "xray")]
    BY <1>3, <1>4, <1>8
  <2> QED
    BY <2>1, Zenon DEF ReadXray
<1>12. \A s \in T : P[s].type = "none" \/ Faithful(s.link, P[s])
  BY <1>2, <1>3, NoProxyIs
<1> HIDE DEF places, read, wanted
<1>13. WellRead(Renamed(wanted), servers, N)
  <2>1. T \in SUBSET WideServer
    BY GivenIs DEF T
  <2>2. ReadBy(N, T, servers, places, "xray", P, W, read, wanted)
    BY <1>3, <1>4, <1>6, <1>10, <1>12, <2>1, Zenon DEF ReadBy, read, wanted
  <2> QED
    BY <2>2, DescribedRead, Zenon
<1> QED
  BY <1>11, <1>13 DEF WellRead

\* An Xray configuration of WireGuard outbounds: a hop's dialer goes by the name that it got.
LEMMA WarpNamed ==
    ASSUME NEW N, N \subseteq Names, NEW s \in ServerType, NEW name \in N, NEW proxy \in ProxyType,
           proxy.type # "none", NEW dialer \in Names
    PROVE  LET node == [Node(s, name, proxy, "xray") EXCEPT !.via = dialer] IN
           node \in NodeOf(N) /\ Carries(node, s, proxy)
<1> DEFINE first == Node(s, name, proxy, "xray")
           node == [first EXCEPT !.via = dialer]
           H == SUBSET (Options \cup {"noise", "fragments"})
           C == Creds \cup {"spoiled", "user", "blob"}
<1>1. ASSUME NEW form PROVE Node(s, name, proxy, form) \in Loose(N) /\ Carries(Node(s, name, proxy, form), s, proxy)
  <2>1. s \in WideServer
    BY GivenIs
  <2> QED
    BY <2>1, NodeIs
<1>2. first \in Loose(N) /\ Carries(first, s, proxy)
  BY <1>1
<1> HIDE DEF first
<1>3. first \in NodeOf(N)
  BY <1>2, FineIs, Zenon DEF Carries
<1>4. /\ node.host = first.host /\ node.key = first.key /\ node.type = first.type /\ node.cred = first.cred
      /\ node.tls = first.tls /\ node.net = first.net /\ node.has = first.has
      /\ node.tlsKey = first.tlsKey
  BY <1>3 DEF NodeOf
<1> HIDE DEF H, C
<1>5. NodeOf(N) = [name : N, host : Texts, key : Texts, via : Names, tls : BOOLEAN, tlsKey : BOOLEAN,
     reality : BOOLEAN, options : BOOLEAN, header : BOOLEAN, udp : BOOLEAN,
                   cred : C, type : Kinds, net : Nets, has : H]
  BY Zenon DEF NodeOf, H, C
<1>6. node \in NodeOf(N)
  BY <1>3, <1>5
<1> HIDE DEF node
<1>7. Carries(node, s, proxy)
  BY <1>2, <1>4, Zenon DEF Carries, TLSKeyed
<1> QED
  BY <1>6, <1>7 DEF node, first

LEMMA WarpRead ==
    ASSUME NEW N, Numbers(N), N \subseteq Names, NEW servers \in Seq(Given(N, "warp"))
    PROVE  WellRead(ReadWarp(servers), servers, N)
<1> DEFINE T == Given(N, "warp")
           places == {i \in DOMAIN servers : XrayWireGuard(servers[i].link) # NoProxy}
           readable == At(servers, places)
           labels == [i \in DOMAIN readable |-> LabelOrAddress(readable[i])]
           names == Registered(labels)
           Tags == {readable[i].label : i \in DOMAIN readable} \ {<<>>}
           Bearing(tag) == {i \in 1 .. Len(readable) : readable[i].label = tag}
           NameOf(tag) == names[IF Bearing(tag) # {} THEN Max(Bearing(tag)) ELSE 0]
           named == [i \in DOMAIN readable |->
                        [Node(readable[i], names[i], XrayWireGuard(readable[i].link), "xray")
                            EXCEPT !.via = IF @ \in Tags THEN NameOf(@) ELSE @]]
           fine == {i \in DOMAIN readable : readable[i].via = <<>> \/ readable[i].via \in Tags}
           L == Len(readable)
<1>1. \A s \in T : Said(s.link) /\ s.label \in N /\ <<s.host>> \in N /\ s.link.scheme = "wireguard" /\ s \in ServerType
  BY GivenIs DEF IsText
<1>2. servers \in Seq(T)
  OBVIOUS
<1>3. \A s \in T : XrayWireGuard(s.link) # NoProxy =>
          /\ XrayWireGuard(s.link) \in ProxyType /\ XrayWireGuard(s.link).type # "none"
          /\ Faithful(s.link, XrayWireGuard(s.link))
  <2> TAKE s \in T
  <2>1. s.link.scheme \in Schemes
    BY <1>1 DEF Said, LinkType
  <2> QED
    BY <1>1, <2>1, XrayWireGuardFaithful, TypeOfIs, KindsAre DEF Faithful
<1> HIDE DEF T
<1>4. readable \in Seq(T) /\ ToSet(readable) = {servers[i] : i \in places \cap DOMAIN servers}
  <2> HIDE DEF places
  <2> QED
    BY <1>2, AtIs, AtSet
<1>5. \A i \in DOMAIN servers : servers[i] \in T
  BY <1>2
<1>6. \A s \in ToSet(readable) : s \in T /\ XrayWireGuard(s.link) # NoProxy /\ s \in ToSet(servers)
  BY <1>4, <1>5 DEF ToSet
<1> HIDE DEF places, readable
<1>7. L \in Nat /\ DOMAIN readable = 1 .. L /\ \A i \in 1 .. L : readable[i] \in T /\ readable[i] \in ToSet(readable)
  BY <1>4 DEF ToSet
<1>8. labels \in Seq(N) /\ Len(labels) = L
  <2>1. labels = [i \in 1 .. L |-> labels[i]] /\ \A i \in 1 .. L : labels[i] \in N
    BY <1>1, <1>7 DEF LabelOrAddress
  <2> HIDE DEF labels, L
  <2> QED
    BY <1>7, <2>1, Listed
<1>9. names \in Seq(N) /\ Len(names) = L
  <2> HIDE DEF labels, L
  <2> QED
    BY <1>8, RegisteredIs
<1> HIDE DEF names, labels, L
<1>10. \A i \in 1 .. L : names[i] \in N
  BY <1>9
<1>11. \A tag \in Tags : NameOf(tag) \in N
  <2> TAKE tag \in Tags
  <2>1. Bearing(tag) # {} /\ Bearing(tag) \subseteq 1 .. L
    BY <1>7 DEF L
  <2> HIDE DEF Bearing
  <2>2. Max(Bearing(tag)) \in 1 .. L
    BY <1>7, <2>1, MaxIs
  <2> QED
    BY <1>10, <2>1, <2>2
<1> HIDE DEF Tags, NameOf
<1>12. \A i \in 1 .. L : named[i] \in NodeOf(N) /\ Serves(named[i], readable[i])
  <2> SUFFICES ASSUME NEW i \in 1 .. L PROVE named[i] \in NodeOf(N) /\ Serves(named[i], readable[i])
    OBVIOUS
  <2> DEFINE s == readable[i]
             proxy == XrayWireGuard(s.link)
             dialer == IF s.via \in Tags THEN NameOf(s.via) ELSE s.via
             node == [Node(s, names[i], proxy, "xray") EXCEPT !.via = dialer]
  <2>1. s \in T /\ s \in ServerType /\ names[i] \in N /\ s.via \in Names
    BY <1>1, <1>7, <1>10 DEF ServerType
  <2>2. proxy \in ProxyType /\ proxy.type # "none" /\ Faithful(s.link, proxy)
    BY <1>3, <1>6, <1>7
  <2>3. dialer \in Names
    BY <1>11, <2>1
  <2>4. named[i] = node
    BY <1>7 DEF Node
  <2> HIDE DEF s, proxy, dialer, named
  <2>5. node \in NodeOf(N) /\ Carries(node, s, proxy)
    BY <2>1, <2>2, <2>3, WarpNamed
  <2> HIDE DEF node
  <2>6. Serves(node, s)
    BY <2>2, <2>5, ServesAs
  <2> QED
    BY <2>4, <2>5, <2>6 DEF s
<1>13. named \in Seq(NodeOf(N)) /\ DOMAIN named = 1 .. L
  <2>1. named = [i \in 1 .. L |-> named[i]]
    BY <1>7
  <2> HIDE DEF named
  <2> QED
    BY <1>7, <1>12, <2>1, Listed
<1>14. ReadWarp(servers) = At(named, fine)
  BY Zenon DEF ReadWarp, SelectLastInSeq, named, fine, names, labels, Tags, NameOf, readable, places
<1> HIDE DEF named, fine
<1>15. At(named, fine) \in Seq(NodeOf(N)) /\ ToSet(At(named, fine)) = {named[i] : i \in fine \cap DOMAIN named}
  BY <1>13, AtIs, AtSet
<1>16. AllServe(At(named, fine), servers)
  BY <1>6, <1>7, <1>12, <1>13, <1>15 DEF AllServe
<1> QED
  BY <1>14, <1>15, <1>16 DEF WellRead, ListRead

\* The list the user made.
PastedRead(list, servers, N) ==
    /\ ListRead(list, N)
    /\ \A node \in ToSet(list) : \E s \in ToSet(servers) :
           Serves(node, s) /\ PastedIsSubscribed(s.link, node)
    /\ \A s \in ToSet(Stored(servers)) :
           \/ s.link.scheme = "wireguard-ini" \/ s.link.cred = "secret"
           \/ \E node \in ToSet(list) : node.host = s.host /\ node.key = s.key

LEMMA WrittenIs ==
    ASSUME NEW N, <<"Connection">> \in N, NEW s \in Given(N, "pasted"), IsExportable(Import(s.link))
    PROVE  /\ WrittenOut(s) \in WideServer /\ LinkName(WrittenOut(s)) \in N
           /\ WrittenOut(s).host = s.host /\ WrittenOut(s).key = s.key
           /\ WrittenOut(s).link = Export(Import(s.link))
<1> DEFINE label == IF s.label = <<>> THEN <<"Connection">> ELSE s.label
           link == Export(Import(s.link))
           written == [s EXCEPT !.label = label, !.link = link]
<1>1. s \in ServerType /\ s.label \in N /\ <<s.host>> \in N /\ Comes(s.link)
  BY GivenIs, PastedComes
<1>2. link \in WideLink
  BY <1>1 DEF Comes
<1>3. label \in N
  BY <1>1
<1>4. WrittenOut(s) = written
  BY DEF WrittenOut
<1>5. "Connection" \in Texts
  BY TextsAssumption
<1>6. label \in Names
  <2>1. <<"Connection">> \in Names
    BY <1>5 DEF Names
  <2> QED
    BY <1>1, <2>1 DEF ServerType
<1> HIDE DEF label, link
<1>7. /\ written.label = label /\ written.link = link /\ written.host = s.host /\ written.key = s.key
  BY <1>1 DEF ServerType
<1>8. written \in WideServer
  BY <1>1, <1>2, <1>6 DEF ServerType, WideServer
<1>9. LinkName(written) \in N
  BY <1>1, <1>3, <1>7 DEF LinkName
<1> QED
  BY <1>4, <1>7, <1>8, <1>9 DEF link

LEMMA PastedListRead ==
    ASSUME NEW N, Numbers(N), <<"Connection">> \in N, NEW servers \in Seq(Given(N, "pasted"))
    PROVE  PastedRead(ReadPasted(servers), servers, N)
<1> DEFINE T == Given(N, "pasted")
           places == {i \in DOMAIN servers : IsExportable(Import(servers[i].link))}
           stored == At(servers, places)
           written == [i \in DOMAIN stored |-> WrittenOut(stored[i])]
           V == {s \in WideServer : LinkName(s) \in N}
           list == ReadLinks(written)
           L == Len(stored)
<1>1. servers \in Seq(T)
  OBVIOUS
<1>2. \A s \in T : Comes(s.link)
  BY GivenIs, PastedComes
<1>3. \A s \in T : IsExportable(Import(s.link)) =>
          /\ WrittenOut(s) \in V /\ WrittenOut(s).host = s.host /\ WrittenOut(s).key = s.key
          /\ WrittenOut(s).link = Export(Import(s.link))
  BY WrittenIs
<1> HIDE DEF T
<1>4. stored \in Seq(T) /\ ToSet(stored) = {servers[i] : i \in places \cap DOMAIN servers} /\ stored = Stored(servers)
  <2>1. stored = Stored(servers)
    BY DEF Stored
  <2> HIDE DEF places
  <2> QED
    BY <1>1, <2>1, AtIs, AtSet
<1>5. \A i \in DOMAIN servers : servers[i] \in T
  BY <1>1
<1>6. \A s \in ToSet(stored) : s \in T /\ s \in ToSet(servers) /\ IsExportable(Import(s.link))
  BY <1>4, <1>5 DEF ToSet
<1>7. ReadPasted(servers) = list
  BY Zenon DEF ReadPasted, Stored
<1> HIDE DEF places, stored
<1>8. L \in Nat /\ DOMAIN stored = 1 .. L /\ \A i \in 1 .. L : stored[i] \in ToSet(stored)
  BY <1>4 DEF ToSet
<1>9. written \in Seq(V) /\ DOMAIN written = 1 .. L
  <2>1. written = [i \in 1 .. L |-> written[i]] /\ \A i \in 1 .. L : written[i] \in V
    <3>1. \A i \in 1 .. L : WrittenOut(stored[i]) \in V
      BY <1>3, <1>6, <1>8
    <3> QED
      BY <1>8, <3>1
  <2> HIDE DEF written, L, V
  <2> QED
    BY <1>8, <2>1, Listed
<1>10. V \in SUBSET WideServer /\ \A s \in V : LinkName(s) \in N
  OBVIOUS
<1>11. \A i \in 1 .. L : written[i] = WrittenOut(stored[i])
  BY <1>8
<1> HIDE DEF V, written, list
<1>12. /\ list \in Seq(NodeOf(N))
       /\ \A node \in ToSet(list) : \E s \in ToSet(written) : ConvertLink(s.link) # NoProxy /\ ReadOf(node, s)
       /\ \A s \in ToSet(written) : ConvertLink(s.link) # NoProxy => \E node \in ToSet(list) : ReadOf(node, s)
  BY <1>9, <1>10, LinksRead DEF list
<1>13. ASSUME NEW node \in ToSet(list)
       PROVE  \E s \in ToSet(servers) : Serves(node, s) /\ PastedIsSubscribed(s.link, node)
  <2>1. PICK w \in ToSet(written) : ConvertLink(w.link) # NoProxy /\ ReadOf(node, w)
    BY <1>12
  <2>2. PICK i \in 1 .. L : w = WrittenOut(stored[i])
    BY <1>9, <1>11, <2>1 DEF ToSet
  <2> DEFINE s == stored[i]
  <2>3. s \in T /\ s \in ToSet(servers) /\ IsExportable(Import(s.link))
    BY <1>6, <1>8
  <2>4. w.host = s.host /\ w.key = s.key /\ w.link = Export(Import(s.link)) /\ Comes(s.link)
    BY <1>2, <1>3, <2>2, <2>3
  <2> HIDE DEF s
  <2>5. Faithful(s.link, ConvertLink(w.link)) /\ PastedIsSubscribed(s.link, ConvertLink(w.link))
    BY <2>1, <2>3, <2>4 DEF Comes
  <2>6. Faithful(s.link, node) /\ PastedIsSubscribed(s.link, node)
    BY <2>1, <2>5, CarriesOn DEF ReadOf
  <2>7. node.host = s.host /\ node.key = s.key /\ TLSKeyed(node)
    BY <2>1, <2>4 DEF ReadOf, Carries
  <2> QED
    BY <2>3, <2>6, <2>7 DEF Serves
<1>14. ASSUME NEW s \in ToSet(stored), s.link.scheme # "wireguard-ini", s.link.cred # "secret"
       PROVE  \E node \in ToSet(list) : node.host = s.host /\ node.key = s.key
  <2> DEFINE w == WrittenOut(s)
  <2>1. s \in T /\ IsExportable(Import(s.link))
    BY <1>6
  <2>2. w.host = s.host /\ w.key = s.key /\ w.link = Export(Import(s.link)) /\ Comes(s.link)
    BY <1>2, <1>3, <2>1
  <2>3. w \in ToSet(written)
    <3>1. PICK i \in 1 .. L : s = stored[i]
      BY <1>8 DEF ToSet
    <3> QED
      BY <1>9, <1>11, <3>1 DEF ToSet
  <2> HIDE DEF w
  <2>4. ConvertLink(w.link) # NoProxy
    BY <1>14, <2>1, <2>2 DEF Comes
  <2>5. PICK node \in ToSet(list) : ReadOf(node, w)
    BY <1>12, <2>3, <2>4
  <2> QED
    BY <2>2, <2>5 DEF ReadOf, Carries
<1>15. PastedRead(list, servers, N)
  BY <1>4, <1>12, <1>13, <1>14 DEF PastedRead, ListRead
<1> QED
  BY <1>7, <1>15

\* What is true of the list that is read of a source, whatever its form.
SourceRead(list, source, N) ==
    /\ ListRead(list, N) /\ AllServe(list, source.servers)
    /\ source.form = "pasted" => PastedRead(list, source.servers, N)

\* A source whose names are of N.
Offers(source, N) ==
    /\ source \in SourceType
    /\ \A s \in ToSet(source.servers) : s.label \in N /\ <<s.host>> \in N /\ IsSaid(s.link, source.form)

\* What the names of servers come from, with what the program makes of it.
Speaks(N) == Numbers(N) /\ Fronts(N) /\ <<>> \in N /\ <<"Connection">> \in N /\ N \subseteq Names

LEMMA SourceIsRead ==
    ASSUME NEW N, Speaks(N), NEW source, Offers(source, N)
    PROVE  SourceRead(ReadSourceText(source), source, N)
<1> DEFINE servers == source.servers
           form == source.form
           list == ReadSourceText(source)
<1>1. /\ Numbers(N) /\ <<"Connection">> \in N /\ N \subseteq Names
      /\ servers \in Seq(ServerType)
      /\ form \in {"links", "pasted", "document", "providers", "singbox", "xray", "warp"}
  BY DEF Speaks, Offers, SourceType
<1>2. \A s \in ToSet(servers) : s \in Given(N, form)
  <2>1. \A s \in ToSet(servers) : s \in ServerType
    BY <1>1, ElementsOf
  <2> QED
    BY <2>1 DEF Offers, Given
<1> HIDE DEF servers, form
<1>3. servers \in Seq(Given(N, form))
  BY <1>1, <1>2, InSeq
<1>4. source.servers = servers /\ source.form = form
  BY DEF servers, form
<1> HIDE DEF list
<1>5. CASE form = "links"
  <2>1. list = ReadLinks(servers)
    BY <1>4, <1>5 DEF list, ReadSourceText
  <2>2. ListRead(list, N) /\ AllServe(list, servers)
    BY <1>1, <1>3, <2>1, SubscribedRead
  <2> QED
    BY <1>4, <1>5, <2>2 DEF SourceRead, list
<1>6. CASE form = "pasted"
  <2>1. list = ReadPasted(servers)
    BY <1>4, <1>6 DEF list, ReadSourceText
  <2>2. servers \in Seq(Given(N, "pasted"))
    BY <1>3, <1>6
  <2>3. PastedRead(list, servers, N)
    BY <1>1, <2>1, <2>2, PastedListRead
  <2>4. ListRead(list, N) /\ AllServe(list, servers)
    BY <2>3 DEF PastedRead, AllServe
  <2> QED
    BY <1>4, <2>3, <2>4 DEF SourceRead, list
<1>7. CASE form = "document"
  <2>1. list = ReadDocument(servers)
    BY <1>4, <1>7 DEF list, ReadSourceText
  <2>2. servers \in Seq(Given(N, "document"))
    BY <1>3, <1>7
  <2>3. ListRead(list, N) /\ AllServe(list, servers)
    BY <1>1, <2>1, <2>2, DocumentRead
  <2> QED
    BY <1>4, <1>7, <2>3 DEF SourceRead, list
<1>8. CASE form = "providers"
  <2>1. list = <<>>
    BY <1>4, <1>8 DEF list, ReadSourceText
  <2>2. ListRead(list, N) /\ AllServe(list, servers)
    BY <2>1 DEF ListRead, AllServe, ToSet
  <2> QED
    BY <1>4, <1>8, <2>2 DEF SourceRead, list
<1>9. CASE form = "singbox"
  <2>1. list = ReadSingBox(servers)
    BY <1>4, <1>9 DEF list, ReadSourceText
  <2>2. servers \in Seq(Given(N, "singbox"))
    BY <1>3, <1>9
  <2>3. ListRead(list, N) /\ AllServe(list, servers)
    BY <1>1, <2>1, <2>2, SingBoxRead
  <2> QED
    BY <1>4, <1>9, <2>3 DEF SourceRead, list
<1>10. CASE form = "xray"
  <2>1. list = ReadXray(servers)
    BY <1>4, <1>10 DEF list, ReadSourceText
  <2>2. servers \in Seq(Given(N, "xray"))
    BY <1>3, <1>10
  <2>3. ListRead(list, N) /\ AllServe(list, servers)
    BY <1>1, <2>1, <2>2, XrayRead
  <2> QED
    BY <1>4, <1>10, <2>3 DEF SourceRead, list
<1>11. CASE form = "warp"
  <2>1. list = ReadWarp(servers)
    BY <1>4, <1>11 DEF list, ReadSourceText
  <2>2. servers \in Seq(Given(N, "warp"))
    BY <1>3, <1>11
  <2>3. ListRead(list, N) /\ AllServe(list, servers)
    BY <1>1, <2>1, <2>2, WarpRead DEF WellRead
  <2> QED
    BY <1>4, <1>11, <2>3 DEF SourceRead, list
<1> QED
  BY <1>1, <1>5, <1>6, <1>7, <1>8, <1>9, <1>10, <1>11

-----------------------------------------------------------------------------
(* Every list in one.                                                         *)

\* Nodes at the addresses of A, under the names of N; any of these names can be given.
Homes(N, A) == {node \in NodeOf(N) : node.host \in A /\ TLSKeyed(node)}

LEMMA HomesNamed ==
    ASSUME NEW N, NEW A, NEW node \in Homes(N, A), NEW name \in N
    PROVE  [node EXCEPT !.name = name] \in Homes(N, A) /\ [node EXCEPT !.name = name].name = name
<1> DEFINE other == [node EXCEPT !.name = name]
<1>1. node \in Loose(N) /\ node.type # "none" /\ node.host \in A /\ TLSKeyed(node)
  BY FineIs DEF Homes
<1>2. other \in Loose(N)
  BY <1>1, NamedAnew
<1>3. /\ other.type = node.type /\ other.host = node.host /\ other.name = name
      /\ other.tls = node.tls /\ other.tlsKey = node.tlsKey
  BY <1>1 DEF Loose
<1> HIDE DEF other
<1>4. other \in NodeOf(N)
  BY <1>1, <1>2, <1>3, FineIs
<1>5. TLSKeyed(other)
  BY <1>1, <1>3, Zenon DEF TLSKeyed
<1>6. other \in Homes(N, A)
  BY <1>1, <1>3, <1>4, <1>5 DEF Homes
<1> QED
  BY <1>3, <1>6 DEF other

LEMMA HomesRenamed ==
    ASSUME NEW N, Numbers(N), NEW A, NEW list \in Seq(Homes(N, A))
    PROVE  Renamed(list) \in Seq(Homes(N, A)) /\ Len(Renamed(list)) = Len(list)
<1> DEFINE S == Homes(N, A)
           L == Len(list)
           new == Renamed(list)
<1>1. \A node \in S : node \in Loose(N)
  BY FineIs DEF Homes
<1> HIDE DEF S
<1>2. list \in Seq(Loose(N)) /\ L \in Nat /\ DOMAIN list = 1 .. L /\ \A i \in 1 .. L : list[i] \in S
  <2>1. list \in Seq(S)
    BY DEF S
  <2>2. \A x \in ToSet(list) : x \in Loose(N)
    BY <1>1, <2>1, ElementsOf
  <2> QED
    BY <2>1, <2>2, InSeq
<1>3. new \in Seq(Loose(N)) /\ Len(new) = L /\ \A i \in DOMAIN list : Anew(new[i], list[i], N)
  BY <1>2, RenamedIs, Zenon
<1> HIDE DEF L, new
<1>4. \A i \in 1 .. L : new[i] \in S
  <2> TAKE i \in 1 .. L
  <2>1. PICK name \in N : new[i] = [list[i] EXCEPT !.name = name]
    BY <1>2, <1>3 DEF Anew
  <2>2. \A node \in S : [node EXCEPT !.name = name] \in S
    BY HomesNamed DEF S
  <2> QED
    BY <1>2, <2>1, <2>2
<1>5. new = [i \in 1 .. L |-> new[i]]
  BY <1>3
<1>6. new \in Seq(S)
  BY <1>2, <1>4, <1>5, Listed
<1> QED
  BY <1>3, <1>6 DEF S, L, new

\* What a merge holds, of nodes at A.
Identities(N) == {IdentityOf(node) : node \in NodeOf(N)}
Pools(N, A) == [ids : SUBSET Identities(N), names : Noted(N), merged : Seq(Homes(N, A))]
NoPool == [ids |-> {}, names |-> NoNames, merged |-> <<>>]

\* What merging asks of names.
Merges(N) == Numbers(N) /\ Fronts(N)

LEMMA MergeIs ==
    ASSUME NEW N, Merges(N), NEW A, NEW pool \in Pools(N, A), NEW source \in Texts, <<source>> \in N,
           NEW node \in Homes(N, A)
    PROVE  Merge(pool, source, node) \in Pools(N, A)
<1> DEFINE id == IdentityOf(node)
           own == IF node.name = <<>> THEN <<source>> ELSE node.name
           wanted == Qualify(node.name, source, pool.names)
           names == Register(pool.names, wanted)
           name == Last(names.given)
           new == [node EXCEPT !.name = name]
<1>1. /\ pool.ids \in SUBSET Identities(N) /\ pool.names \in Noted(N) /\ pool.merged \in Seq(Homes(N, A))
  BY DEF Pools
<1>2. node \in NodeOf(N) /\ node.name \in N
  BY DEF Homes, NodeOf
<1>3. id \in Identities(N)
  BY <1>2 DEF Identities
<1>4. own \in N
  BY <1>2
<1>5. wanted = (IF Taken(pool.names, own) THEN <<source, "dot">> \o own ELSE own)
  BY DEF Qualify
<1> HIDE DEF own, wanted, id
<1>6. wanted \in N
  BY <1>4, <1>5 DEF Merges, Fronts
<1>7. names \in Noted(N) /\ Len(names.given) = Len(pool.names.given) + 1
  BY <1>1, <1>6, RegisterIs DEF Merges
<1> HIDE DEF names
<1>8. name \in N
  <2>1. names.given \in Seq(N) /\ Len(pool.names.given) \in Nat
    BY <1>1, <1>7 DEF Noted
  <2> QED
    BY <1>7, <2>1 DEF Last
<1> HIDE DEF name
<1>9. new \in Homes(N, A)
  BY <1>8, HomesNamed
<1> HIDE DEF new
<1>10. Append(pool.merged, new) \in Seq(Homes(N, A))
  BY <1>1, <1>9
<1>11. pool.ids \cup {id} \in SUBSET Identities(N)
  BY <1>1, <1>3
<1>12. [ids |-> pool.ids \cup {id}, names |-> names, merged |-> Append(pool.merged, new)] \in Pools(N, A)
  BY <1>7, <1>10, <1>11 DEF Pools
<1>13. Merge(pool, source, node) =
           IF id \in pool.ids THEN pool
           ELSE [ids |-> pool.ids \cup {id}, names |-> names, merged |-> Append(pool.merged, new)]
  BY Zenon DEF Merge, id, names, new, name, wanted
<1> QED
  BY <1>12, <1>13

LEMMA NoPoolIs ==
    ASSUME NEW N, NEW A
    PROVE  NoPool \in Pools(N, A)
<1>1. {} \in SUBSET Identities(N) /\ <<>> \in Seq(Homes(N, A)) /\ NoNames \in Noted(N)
  BY NoNamesIs
<1> QED
  BY <1>1 DEF NoPool, Pools

\* The steps of MergeSource and of MergeProxies.
MergeSourceGoes(after, N, A, pool, source) ==
    /\ after \in [0 .. Len(source.nodes) -> Pools(N, A)]
    /\ MergeSource(pool, source) = after[Len(source.nodes)]
    /\ after[0] = pool
    /\ \A n \in 1 .. Len(source.nodes) : after[n] = Merge(after[n - 1], source.name, source.nodes[n])
MergeGoes(after, N, A, sources) ==
    /\ after \in [0 .. Len(sources) -> Pools(N, A)]
    /\ MergeProxies(sources) = after[Len(sources)].merged
    /\ after[0] = NoPool /\ \A n \in 1 .. Len(sources) : after[n] = MergeSource(after[n - 1], sources[n])

LEMMA MergeSourceSteps ==
    ASSUME NEW N, Merges(N), NEW A, NEW pool \in Pools(N, A), NEW source, source.name \in Texts,
           <<source.name>> \in N, source.nodes \in Seq(Homes(N, A))
    PROVE  \E after : MergeSourceGoes(after, N, A, pool, source)
<1> DEFINE L == Len(source.nodes)
           T == Pools(N, A)
           g == [x \in T \X (1 .. L) |-> Merge(x[1], source.name, source.nodes[x[2]])]
           Step(f, n) == IF n = 0 THEN pool ELSE Merge(f[n - 1], source.name, source.nodes[n])
           Is(f) == f = [n \in 0 .. L |-> Step(f, n)]
           chosen == CHOOSE f : Is(f)
<1>1. L \in Nat /\ \A n \in 1 .. L : source.nodes[n] \in Homes(N, A)
  OBVIOUS
<1>2. pool \in T
  OBVIOUS
<1>3. \A p \in T, n \in 1 .. L : Merge(p, source.name, source.nodes[n]) \in T
  BY <1>1, MergeIs
<1> HIDE DEF T, L
<1>4. g \in [T \X (1 .. L) -> T]
  <2>1. \A x \in T \X (1 .. L) : Merge(x[1], source.name, source.nodes[x[2]]) \in T
    BY <1>3
  <2> QED
    BY <2>1
<1>5. \A p \in T, n \in 1 .. L : g[<<p, n>>] = Merge(p, source.name, source.nodes[n])
  OBVIOUS
<1> HIDE DEF g
<1>6. PICK f \in [0 .. L -> T] : Iterates(f, pool, g, L)
  <2> HIDE DEF Is, chosen
  <2> QED
    BY <1>1, <1>2, <1>4, Iterated, Zenon
<1>7. \A n \in 0 .. L : n # 0 => n \in 1 .. L /\ n - 1 \in 0 .. L
  BY <1>1
<1>8. \A n \in 0 .. L : f[n] = Step(f, n)
  <2>1. f[0] = pool /\ \A i \in 1 .. L : f[i] = g[<<f[i - 1], i>>]
    BY <1>6 DEF Iterates
  <2>2. \A n \in 0 .. L : f[n] \in T
    BY <1>6
  <2> QED
    BY <1>5, <1>7, <2>1, <2>2, Zenon
<1>9. Is(f)
  <2>1. f = [n \in 0 .. L |-> f[n]]
    BY <1>6
  <2> QED
    BY <1>8, <2>1
<1>10. Is(chosen)
  <2> HIDE DEF Is
  <2> QED
    BY <1>9
<1>11. \A n \in 0 .. L : chosen[n] = Step(chosen, n)
  BY <1>10
<1>12. chosen = [n \in 0 .. L |-> chosen[n]]
  BY <1>10
<1>13. MergeSource(pool, source) = chosen[L]
  BY Zenon DEF MergeSource, L
<1> HIDE DEF chosen
<1>14. chosen[0] = pool /\ \A n \in 1 .. L : chosen[n] = Merge(chosen[n - 1], source.name, source.nodes[n])
  BY <1>1, <1>11
<1>15. \A n \in 0 .. L : chosen[n] \in T
  <2> DEFINE H == {n \in 0 .. L : chosen[n] \in T}
  <2>1. 0 \in H
    BY <1>1, <1>2, <1>14
  <2>2. ASSUME NEW m \in 0 .. L - 1, m \in H PROVE m + 1 \in H
    <3>1. m + 1 \in 0 .. L /\ (m + 1) - 1 = m /\ m + 1 \in 1 .. L
      BY <1>1
    <3>2. chosen[m + 1] = Merge(chosen[m], source.name, source.nodes[m + 1])
      BY <1>14, <3>1
    <3> QED
      BY <1>3, <2>2, <3>1, <3>2
  <2> HIDE DEF H
  <2>3. 0 .. L \subseteq H
    BY <1>1, <2>1, <2>2, UpTo
  <2> QED
    BY <2>3 DEF H
<1>16. chosen \in [0 .. L -> T]
  BY <1>12, <1>15
<1>17. MergeSourceGoes(chosen, N, A, pool, source)
  BY <1>13, <1>14, <1>16 DEF MergeSourceGoes, L, T
<1> QED
  BY <1>17

LEMMA MergeSourceIs ==
    ASSUME NEW N, Merges(N), NEW A, NEW pool \in Pools(N, A), NEW source, source.name \in Texts,
           <<source.name>> \in N, source.nodes \in Seq(Homes(N, A))
    PROVE  MergeSource(pool, source) \in Pools(N, A)
<1>1. PICK after : MergeSourceGoes(after, N, A, pool, source)
  BY MergeSourceSteps
<1>2. Len(source.nodes) \in Nat
  OBVIOUS
<1> QED
  BY <1>1, <1>2 DEF MergeSourceGoes

\* Lists with their sources' names.
Named(source, N, A) == source.name \in Texts /\ <<source.name>> \in N /\ source.nodes \in Seq(Homes(N, A))

LEMMA MergeSteps ==
    ASSUME NEW N, Merges(N), NEW A, NEW S, NEW sources \in Seq(S), \A source \in S : Named(source, N, A)
    PROVE  \E after : MergeGoes(after, N, A, sources)
<1> DEFINE L == Len(sources)
           T == Pools(N, A)
           g == [x \in T \X (1 .. L) |-> MergeSource(x[1], sources[x[2]])]
           Step(f, n) == IF n = 0 THEN NoPool ELSE MergeSource(f[n - 1], sources[n])
           Is(f) == f = [n \in 0 .. L |-> Step(f, n)]
           chosen == CHOOSE f : Is(f)
<1>1. L \in Nat /\ \A n \in 1 .. L : sources[n] \in S
  OBVIOUS
<1>2. NoPool \in T
  BY NoPoolIs
<1>3. \A p \in T, n \in 1 .. L : MergeSource(p, sources[n]) \in T
  BY <1>1, MergeSourceIs DEF Named
<1> HIDE DEF T, L
<1>4. g \in [T \X (1 .. L) -> T]
  <2>1. \A x \in T \X (1 .. L) : MergeSource(x[1], sources[x[2]]) \in T
    BY <1>3
  <2> QED
    BY <2>1
<1>5. \A p \in T, n \in 1 .. L : g[<<p, n>>] = MergeSource(p, sources[n])
  OBVIOUS
<1> HIDE DEF g
<1>6. PICK f \in [0 .. L -> T] : Iterates(f, NoPool, g, L)
  <2> HIDE DEF Is, chosen
  <2> QED
    BY <1>1, <1>2, <1>4, Iterated, Zenon
<1>7. \A n \in 0 .. L : n # 0 => n \in 1 .. L /\ n - 1 \in 0 .. L
  BY <1>1
<1>8. \A n \in 0 .. L : f[n] = Step(f, n)
  <2>1. f[0] = NoPool /\ \A i \in 1 .. L : f[i] = g[<<f[i - 1], i>>]
    BY <1>6 DEF Iterates
  <2>2. \A n \in 0 .. L : f[n] \in T
    BY <1>6
  <2> QED
    BY <1>5, <1>7, <2>1, <2>2, Zenon
<1>9. Is(f)
  <2>1. f = [n \in 0 .. L |-> f[n]]
    BY <1>6
  <2> QED
    BY <1>8, <2>1
<1>10. Is(chosen)
  <2> HIDE DEF Is
  <2> QED
    BY <1>9
<1>11. \A n \in 0 .. L : chosen[n] = Step(chosen, n)
  BY <1>10
<1>12. chosen = [n \in 0 .. L |-> chosen[n]]
  BY <1>10
<1>13. MergeProxies(sources) = chosen[L].merged
  BY Zenon DEF MergeProxies, L, NoPool
<1> HIDE DEF chosen
<1>14. chosen[0] = NoPool /\ \A n \in 1 .. L : chosen[n] = MergeSource(chosen[n - 1], sources[n])
  BY <1>1, <1>11
<1>15. \A n \in 0 .. L : chosen[n] \in T
  <2> DEFINE H == {n \in 0 .. L : chosen[n] \in T}
  <2>1. 0 \in H
    BY <1>1, <1>2, <1>14
  <2>2. ASSUME NEW m \in 0 .. L - 1, m \in H PROVE m + 1 \in H
    <3>1. m + 1 \in 0 .. L /\ (m + 1) - 1 = m /\ m + 1 \in 1 .. L
      BY <1>1
    <3>2. chosen[m + 1] = MergeSource(chosen[m], sources[m + 1])
      BY <1>14, <3>1
    <3> QED
      BY <1>3, <2>2, <3>1, <3>2
  <2> HIDE DEF H
  <2>3. 0 .. L \subseteq H
    BY <1>1, <2>1, <2>2, UpTo
  <2> QED
    BY <2>3 DEF H
<1>16. chosen \in [0 .. L -> T]
  BY <1>12, <1>15
<1>17. MergeGoes(chosen, N, A, sources)
  BY <1>13, <1>14, <1>16 DEF MergeGoes, L, T
<1> QED
  BY <1>17

\* What every list becomes is typed and named, at addresses that the lists had.
LEMMA MergeProxiesIs ==
    ASSUME NEW N, Merges(N), NEW A, NEW S, NEW sources \in Seq(S), \A source \in S : Named(source, N, A)
    PROVE  MergeProxies(sources) \in Seq(Homes(N, A))
<1>1. PICK after : MergeGoes(after, N, A, sources)
  BY MergeSteps
<1>2. Len(sources) \in Nat
  OBVIOUS
<1>3. after[Len(sources)] \in Pools(N, A) /\ MergeProxies(sources) = after[Len(sources)].merged
  BY <1>1, <1>2 DEF MergeGoes
<1> QED
  BY <1>3 DEF Pools

\* A node with a secret that stands for an identity; what it is called does not count.
HasKey(node) == node.key # ""
Stands(node, id) == IdentityOf(node) = id /\ HasKey(node)

LEMMA NamedAlike ==
    ASSUME NEW N, NEW A, NEW node \in Homes(N, A), NEW name
    PROVE  \A id : Stands(node, id) => Stands([node EXCEPT !.name = name], id)
<1> DEFINE other == [node EXCEPT !.name = name]
<1>1. /\ other.type = node.type /\ other.host = node.host /\ other.key = node.key /\ other.cred = node.cred
  BY DEF Homes, NodeOf
<1> HIDE DEF other
<1>2. IdentityOf(other) = IdentityOf(node)
  BY <1>1 DEF IdentityOf, HasCredential
<1> QED
  BY <1>1, <1>2 DEF Stands, HasKey, other

\* Every identity that a merge has met has a node in it that stands for it.
Serving(pool) == \A id \in pool.ids : \E kept \in ToSet(pool.merged) : Stands(kept, id)
Grows(pool, after) == Serving(after) /\ pool.ids \subseteq after.ids

LEMMA MergeServes ==
    ASSUME NEW N, Merges(N), NEW A, NEW pool \in Pools(N, A), Serving(pool), NEW source \in Texts, <<source>> \in N,
           NEW node \in Homes(N, A), HasKey(node)
    PROVE  /\ Grows(pool, Merge(pool, source, node))
           /\ IdentityOf(node) \in Merge(pool, source, node).ids
<1> DEFINE id == IdentityOf(node)
           names == Register(pool.names, Qualify(node.name, source, pool.names))
           new == [node EXCEPT !.name = Last(names.given)]
           after == [ids |-> pool.ids \cup {id}, names |-> names, merged |-> Append(pool.merged, new)]
<1>1. Merge(pool, source, node) = IF id \in pool.ids THEN pool ELSE after
  BY Zenon DEF Merge
<1>2. Stands(new, id)
  <2>1. Stands(node, id)
    BY DEF Stands
  <2> HIDE DEF id
  <2> QED
    BY <2>1, NamedAlike
<1>3. after.ids = pool.ids \cup {id} /\ after.merged = Append(pool.merged, new)
  OBVIOUS
<1> HIDE DEF id, new, after
<1>4. pool.merged \in Seq(Homes(N, A))
  BY DEF Pools
<1>5. ToSet(Append(pool.merged, new)) = ToSet(pool.merged) \cup {new}
  <2>1. \E S : pool.merged \in Seq(S)
    BY <1>4
  <2>2. PICK S : pool.merged \in Seq(S)
    BY <2>1
  <2>3. /\ DOMAIN pool.merged = 1 .. Len(pool.merged) /\ DOMAIN Append(pool.merged, new) = 1 .. Len(pool.merged) + 1
        /\ Append(pool.merged, new)[Len(pool.merged) + 1] = new
        /\ \A i \in 1 .. Len(pool.merged) : Append(pool.merged, new)[i] = pool.merged[i]
        /\ Len(pool.merged) \in Nat
    BY <2>2
  <2> QED
    BY <2>3 DEF ToSet
<1>6. Grows(pool, after) /\ id \in after.ids
  BY <1>2, <1>3, <1>5 DEF Grows, Serving
<1>7. Grows(pool, pool)
  BY DEF Grows
<1> QED
  BY <1>1, <1>6, <1>7 DEF id

\* What is merged of a source is served, and what was served before.
LEMMA MergeSourceServes ==
    ASSUME NEW N, Merges(N), NEW A, NEW pool \in Pools(N, A), Serving(pool), NEW source, source.name \in Texts,
           <<source.name>> \in N, source.nodes \in Seq(Homes(N, A)),
           \A i \in DOMAIN source.nodes : HasKey(source.nodes[i])
    PROVE  /\ Grows(pool, MergeSource(pool, source))
           /\ \A i \in DOMAIN source.nodes : IdentityOf(source.nodes[i]) \in MergeSource(pool, source).ids
<1> DEFINE L == Len(source.nodes)
<1>1. PICK after : MergeSourceGoes(after, N, A, pool, source)
  BY MergeSourceSteps
<1>2. /\ L \in Nat /\ DOMAIN source.nodes = 1 .. L
      /\ \A i \in 1 .. L : source.nodes[i] \in Homes(N, A) /\ HasKey(source.nodes[i])
  OBVIOUS
<1>3. /\ after[0] = pool /\ \A n \in 1 .. L : after[n] = Merge(after[n - 1], source.name, source.nodes[n])
      /\ \A n \in 0 .. L : after[n] \in Pools(N, A)
      /\ MergeSource(pool, source) = after[L]
  BY <1>1 DEF MergeSourceGoes
<1> DEFINE Ok(n) == Grows(pool, after[n]) /\ \A i \in 1 .. n : IdentityOf(source.nodes[i]) \in after[n].ids
           H == {n \in 0 .. L : Ok(n)}
<1> HIDE DEF L
<1>4. 0 \in H
  BY <1>2, <1>3 DEF Grows
<1>5. ASSUME NEW m \in 0 .. L - 1, m \in H PROVE m + 1 \in H
  <2> DEFINE node == source.nodes[m + 1]
             next == after[m + 1]
  <2>1. m + 1 \in 1 .. L /\ m \in 0 .. L /\ m + 1 \in 0 .. L /\ (m + 1) - 1 = m
    BY <1>2
  <2>2. after[m] \in Pools(N, A) /\ Ok(m) /\ next = Merge(after[m], source.name, node)
    BY <1>3, <1>5, <2>1
  <2>3. node \in Homes(N, A) /\ HasKey(node)
    BY <1>2, <2>1
  <2> HIDE DEF node, next
  <2>4. Grows(after[m], next) /\ IdentityOf(node) \in next.ids
    BY <2>2, <2>3, MergeServes DEF Grows
  <2>5. Grows(pool, next)
    BY <2>2, <2>4 DEF Grows
  <2>6. \A i \in 1 .. m + 1 : IdentityOf(source.nodes[i]) \in next.ids
    <3> TAKE i \in 1 .. m + 1
    <3>1. i \in 1 .. m \/ i = m + 1
      BY <2>1
    <3> QED
      BY <2>2, <2>4, <3>1 DEF Grows, node
  <2> QED
    BY <2>1, <2>5, <2>6 DEF next
<1> HIDE DEF H
<1>6. 0 .. L \subseteq H
  BY <1>2, <1>4, <1>5, UpTo
<1>7. Ok(L)
  BY <1>2, <1>6 DEF H
<1> QED
  BY <1>2, <1>3, <1>7

\* A node of every identity that a list of the merge has.
LEMMA MergeKeeps ==
    ASSUME NEW N, Merges(N), NEW A, NEW S, NEW sources \in Seq(S), \A source \in S : Named(source, N, A),
           \A j \in DOMAIN sources : \A i \in DOMAIN sources[j].nodes : HasKey(sources[j].nodes[i]),
           NEW j \in DOMAIN sources, NEW i \in DOMAIN sources[j].nodes
    PROVE  \E kept \in ToSet(MergeProxies(sources)) : Stands(kept, IdentityOf(sources[j].nodes[i]))
<1> DEFINE L == Len(sources)
           id == IdentityOf(sources[j].nodes[i])
<1>1. PICK after : MergeGoes(after, N, A, sources)
  BY MergeSteps
<1>2. L \in Nat /\ DOMAIN sources = 1 .. L /\ \A n \in 1 .. L : sources[n] \in S
  OBVIOUS
<1>3. /\ after[0] = NoPool /\ \A n \in 1 .. L : after[n] = MergeSource(after[n - 1], sources[n])
      /\ \A n \in 0 .. L : after[n] \in Pools(N, A)
      /\ MergeProxies(sources) = after[L].merged
  BY <1>1 DEF MergeGoes
<1> DEFINE Ok(n) == Serving(after[n]) /\ (j <= n => id \in after[n].ids)
           H == {n \in 0 .. L : Ok(n)}
<1> HIDE DEF L
<1>4. 0 \in H
  <2>1. Serving(NoPool)
    BY DEF Serving, NoPool
  <2> QED
    BY <1>2, <1>3, <2>1
<1>5. ASSUME NEW m \in 0 .. L - 1, m \in H PROVE m + 1 \in H
  <2> DEFINE source == sources[m + 1]
             next == after[m + 1]
  <2>1. m + 1 \in 1 .. L /\ m \in 0 .. L /\ m + 1 \in 0 .. L /\ (m + 1) - 1 = m
    BY <1>2
  <2>2. after[m] \in Pools(N, A) /\ Ok(m) /\ next = MergeSource(after[m], source)
    BY <1>3, <1>5, <2>1
  <2>3. Named(source, N, A) /\ \A k \in DOMAIN source.nodes : HasKey(source.nodes[k])
    BY <1>2, <2>1
  <2>4. j = m + 1 => id = IdentityOf(source.nodes[i]) /\ i \in DOMAIN source.nodes
    OBVIOUS
  <2> HIDE DEF source, next, id
  <2>5. Grows(after[m], next) /\ \A k \in DOMAIN source.nodes : IdentityOf(source.nodes[k]) \in next.ids
    BY <2>2, <2>3, MergeSourceServes DEF Named
  <2>6. j <= m + 1 => id \in next.ids
    <3>1. CASE j = m + 1
      BY <2>4, <2>5, <3>1
    <3>2. CASE j <= m
      BY <2>2, <2>5, <3>2 DEF Grows
    <3> QED
      BY <1>2, <2>1, <3>1, <3>2
  <2> QED
    BY <2>1, <2>5, <2>6 DEF Grows, next
<1> HIDE DEF H, id
<1>6. 0 .. L \subseteq H
  BY <1>2, <1>4, <1>5, UpTo
<1>7. Serving(after[L]) /\ id \in after[L].ids
  BY <1>2, <1>6 DEF H
<1> QED
  BY <1>3, <1>7 DEF Serving, id

-----------------------------------------------------------------------------
(* The invariant.                                                             *)

\* Names and addresses that the worlds keep to.
Keeps(N, A) ==
    \A kind \in Worlds : \A w \in kind : \A i \in DOMAIN w.sources :
        /\ <<w.sources[i].name>> \in N
        /\ \A s \in ToSet(w.sources[i].servers) : s.label \in N /\ <<s.host>> \in N /\ s.host \in A

\* A world as it is used.
LEMMA WorldIs ==
    ASSUME NEW N, NEW A, Keeps(N, A), NEW w, \E kind \in Worlds : w \in kind
    PROVE  /\ w.sources \in Seq(SourceType) /\ w.sources # <<>>
           /\ \A i \in DOMAIN w.sources :
                  /\ Offers(w.sources[i], N) /\ <<w.sources[i].name>> \in N /\ w.sources[i].name \in Texts
                  /\ \A s \in ToSet(w.sources[i].servers) : s.host \in A
                  /\ w.sources[i].form = "providers" => IsConfiguration(w.lines)
           /\ w.lines \in Seq(LineType) /\ w.hidden \subseteq Names /\ w.prefer \in Seq(Names) /\ w.chain \in Names
           /\ w.direct \in Seq(Texts) /\ w.split \in [mode : {"off", "bypass", "only"}, programs : Seq(Texts)]
           /\ w.all \in BOOLEAN
<1>1. PICK kind \in Worlds : w \in kind
  OBVIOUS
<1>2. w \in WorldType
  BY <1>1, WorldsAssumption
<1>3. \A i \in DOMAIN w.sources :
          /\ w.sources[i].form = "providers" => IsConfiguration(w.lines)
          /\ \A s \in ToSet(w.sources[i].servers) : IsSaid(s.link, w.sources[i].form)
  BY <1>1, WorldsAssumption
<1>4. /\ w.sources \in Seq(SourceType) /\ w.sources # <<>>
      /\ w.lines \in Seq(LineType) /\ w.hidden \subseteq Names /\ w.prefer \in Seq(Names) /\ w.chain \in Names
      /\ w.direct \in Seq(Texts) /\ w.split \in [mode : {"off", "bypass", "only"}, programs : Seq(Texts)]
      /\ w.all \in BOOLEAN
  BY <1>2 DEF WorldType
<1>5. \A i \in DOMAIN w.sources :
          /\ <<w.sources[i].name>> \in N
          /\ \A s \in ToSet(w.sources[i].servers) : s.label \in N /\ <<s.host>> \in N /\ s.host \in A
  BY <1>1 DEF Keeps
<1>6. \A i \in DOMAIN w.sources : w.sources[i] \in SourceType
  BY <1>4
<1>7. \A i \in DOMAIN w.sources : Offers(w.sources[i], N)
  BY <1>3, <1>5, <1>6 DEF Offers
<1>8. \A i \in DOMAIN w.sources : w.sources[i].name \in Texts
  BY <1>6 DEF SourceType
<1> QED
  BY <1>3, <1>4, <1>5, <1>7, <1>8

\* Of a source at addresses of A, the list is at them.
LEMMA ListHomes ==
    ASSUME NEW N, NEW A, NEW list, NEW servers, ListRead(list, N), AllServe(list, servers),
           \A s \in ToSet(servers) : s.host \in A
    PROVE  list \in Seq(Homes(N, A))
<1>1. list \in Seq(NodeOf(N))
  BY DEF ListRead
<1>2. \A node \in ToSet(list) : node \in NodeOf(N)
  BY <1>1, ElementsOf
<1>3. \A node \in ToSet(list) : node.host \in A /\ TLSKeyed(node)
  BY DEF AllServe, Serves
<1>4. \A node \in ToSet(list) : node \in Homes(N, A)
  BY <1>2, <1>3 DEF Homes
<1> QED
  BY <1>1, <1>4, InSeq

\* A node that is reached at the front is asked for by its name.
Travels(node) ==
    node.host = FrontAddress =>
        /\ (node.tls /\ (node.type = "trojan" => node.tlsKey)) => "sni" \in node.has
        /\ node.options => node.header
        /\ ~node.reality

\* What is left alone by an option that is added.
Alike(other, node) ==
    /\ other.name = node.name /\ other.host = node.host /\ other.type = node.type
    /\ other.tls = node.tls /\ other.tlsKey = node.tlsKey /\ other.reality = node.reality
    /\ other.options = node.options /\ other.header = node.header

LEMMA WithOptions ==
    ASSUME NEW N, NEW node \in NodeOf(N), NEW more \in SUBSET (Options \cup {"noise", "fragments"})
    PROVE  LET other == [node EXCEPT !.has = @ \cup more] IN
           other \in NodeOf(N) /\ other.has = node.has \cup more /\ Alike(other, node)
<1> DEFINE H == SUBSET (Options \cup {"noise", "fragments"})
           C == Creds \cup {"spoiled", "user", "blob"}
           has == node.has \cup more
           other == [node EXCEPT !.has = has]
<1>1. has \in H
  BY DEF NodeOf
<1>2. other = [node EXCEPT !.has = @ \cup more]
  BY DEF NodeOf
<1> HIDE DEF H, C, has
<1>3. NodeOf(N) = [name : N, host : Texts, key : Texts, via : Names, tls : BOOLEAN, tlsKey : BOOLEAN,
     reality : BOOLEAN, options : BOOLEAN, header : BOOLEAN, udp : BOOLEAN,
                   cred : C, type : Kinds, net : Nets, has : H]
  BY Zenon DEF NodeOf, H, C
<1>4. other \in NodeOf(N) /\ other.has = has /\ Alike(other, node)
  BY <1>1, <1>3 DEF Alike
<1> HIDE DEF other
<1> QED
  BY <1>2, <1>4 DEF has

LEMMA NoiseIs ==
    ASSUME NEW N, NEW node \in NodeOf(N)
    PROVE  LET other == ApplyAmneziaNoise(node) IN
           other \in NodeOf(N) /\ Alike(other, node)
<1>1. {"noise"} \in SUBSET (Options \cup {"noise", "fragments"})
  OBVIOUS
<1> DEFINE more == {"noise"}
           other == [node EXCEPT !.has = @ \cup more]
<1> HIDE DEF more
<1>2. more \in SUBSET (Options \cup {"noise", "fragments"})
  BY <1>1 DEF more
<1>3. other \in NodeOf(N) /\ Alike(other, node) /\ Alike(node, node)
  BY <1>2, WithOptions DEF Alike
<1>4. ApplyAmneziaNoise(node) = IF world.noise /\ node.type = "wireguard" THEN other ELSE node
  BY DEF ApplyAmneziaNoise, more
<1> HIDE DEF other
<1> QED
  BY <1>3, <1>4

LEMMA FragmentsIs ==
    ASSUME NEW N, NEW node \in NodeOf(N)
    PROVE  LET other == ApplyFragments(node) IN
           other \in NodeOf(N) /\ Alike(other, node)
<1> DEFINE more == {"fragments"} \cup IF node.type = "vless" /\ node.reality THEN {"utls"} ELSE {}
           other == [node EXCEPT !.has = @ \cup more]
<1>1. more \in SUBSET (Options \cup {"noise", "fragments"})
  BY DEF Options
<1>2. ApplyFragments(node) = IF world.fragments /\ node.type \in Fragmented THEN other ELSE node
  <2>1. (node.has \cup {"fragments"}) \cup (IF node.type = "vless" /\ node.reality THEN {"utls"} ELSE {})
            = node.has \cup more
    OBVIOUS
  <2> HIDE DEF more
  <2>2. other = [node EXCEPT !.has = node.has \cup more]
    BY DEF NodeOf
  <2> HIDE DEF other
  <2> QED
    BY <2>1, <2>2 DEF ApplyFragments
<1> HIDE DEF more
<1>3. other \in NodeOf(N) /\ Alike(other, node) /\ Alike(node, node)
  BY <1>1, WithOptions DEF Alike
<1> HIDE DEF other
<1> QED
  BY <1>2, <1>3

LEMMA FrontIs ==
    ASSUME NEW N, NEW node \in NodeOf(N), TLSKeyed(node)
    PROVE  LET other == FrontProxy(node) IN
           /\ other \in NodeOf(N) /\ other.name = node.name
           /\ node.host # FrontAddress => Travels(other)
<1> DEFINE more == (IF node.tlsKey THEN {"sni"} ELSE {}) \cup (IF node.options THEN {"host"} ELSE {})
           first == [node EXCEPT !.has = @ \cup more]
           named == first.header \/ node.options
           other == [first EXCEPT !.host = FrontAddress, !.header = named]
           C == Creds \cup {"spoiled", "user", "blob"}
           H == SUBSET (Options \cup {"noise", "fragments"})
<1>1. more \in SUBSET (Options \cup {"noise", "fragments"})
  BY DEF Options, Transport
<1>2. FrontProxy(node) = IF Frontable(node) THEN other ELSE node
  <2>1. ~Frontable(node) => FrontProxy(node) = node
    BY DEF FrontProxy
  <2>2. [node EXCEPT
             !.host = FrontAddress,
             !.has = @ \cup (IF node.tlsKey THEN {"sni"} ELSE {})
                       \cup (IF node.options THEN {"host"} ELSE {}),
             !.header = @ \/ node.options]
          = other
    <3>1. (node.has \cup (IF node.tlsKey THEN {"sni"} ELSE {})) \cup (IF node.options THEN {"host"} ELSE {})
            = node.has \cup more
      OBVIOUS
    <3> HIDE DEF more
    <3> QED
      BY <3>1 DEF NodeOf
  <2> HIDE DEF other
  <2> QED
    BY <2>1, <2>2 DEF FrontProxy
<1>3. node.tlsKey => "sni" \in more
  OBVIOUS
<1> HIDE DEF more
<1>4. first \in NodeOf(N) /\ first.has = node.has \cup more /\ Alike(first, node)
  BY <1>1, WithOptions
<1>5. named \in BOOLEAN /\ (node.options => named)
  OBVIOUS
<1> HIDE DEF first, C, H, named
<1>6. FrontAddress \in Texts
  BY TextsAssumption DEF FrontAddress
<1>7. NodeOf(N) = [name : N, host : Texts, key : Texts, via : Names, tls : BOOLEAN, tlsKey : BOOLEAN,
     reality : BOOLEAN, options : BOOLEAN, header : BOOLEAN, udp : BOOLEAN,
                   cred : C, type : Kinds, net : Nets, has : H]
  BY Zenon DEF NodeOf, H, C
<1>8. /\ other \in NodeOf(N) /\ other.has = first.has /\ other.name = first.name
      /\ other.type = first.type /\ other.tls = first.tls /\ other.tlsKey = first.tlsKey
      /\ other.reality = first.reality /\ other.options = first.options
      /\ other.header = named
  <2> DEFINE moved == [first EXCEPT !.host = FrontAddress]
             said == [moved EXCEPT !.header = named]
  <2>1. /\ moved \in NodeOf(N) /\ moved.has = first.has
        /\ moved.name = first.name
        /\ moved.type = first.type /\ moved.tls = first.tls /\ moved.tlsKey = first.tlsKey
        /\ moved.reality = first.reality /\ moved.options = first.options
    BY <1>4, <1>6, <1>7
  <2>2. other = said
    BY <1>4, <1>7
  <2> HIDE DEF moved, other
  <2>3. /\ said \in NodeOf(N) /\ said.has = moved.has /\ said.name = moved.name
        /\ said.type = moved.type /\ said.tls = moved.tls /\ said.tlsKey = moved.tlsKey
        /\ said.reality = moved.reality /\ said.options = moved.options
        /\ said.header = named
    BY <1>5, <1>7, <2>1
  <2> HIDE DEF said
  <2> QED
    BY <2>1, <2>2, <2>3
<1> HIDE DEF other
<1>9. ASSUME Frontable(node) PROVE Travels(other)
  <2>1. ~other.reality
    BY <1>4, <1>8, <1>9 DEF Frontable, Alike
  <2>2. other.options => other.header
    BY <1>4, <1>5, <1>8, Zenon DEF Alike
  <2>3. (other.tls /\ (other.type = "trojan" => other.tlsKey)) => "sni" \in other.has
    <3>1. node.type \in {"vless", "vmess", "trojan"}
      BY <1>9 DEF Frontable, FrontableTransport
    <3>2. other.tls = node.tls /\ other.type = node.type /\ other.tlsKey = node.tlsKey
      BY <1>4, <1>8 DEF Alike
    <3>3. (node.tls /\ (node.type = "trojan" => node.tlsKey)) => node.tlsKey
      BY <3>1 DEF TLSKeyed
    <3> QED
      BY <1>3, <1>4, <1>8, <3>2, <3>3
  <2> QED
    BY <2>1, <2>2, <2>3 DEF Travels
<1>10. node.host # FrontAddress => Travels(node)
  BY DEF Travels
<1>11. other.name = node.name
  BY <1>4, <1>8 DEF Alike
<1> QED
  BY <1>2, <1>8, <1>9, <1>10, <1>11

\* What shaping makes of a list.
Reshaped(list, shaped, N, A) ==
    /\ shaped \in Seq(NodeOf(N))
    /\ \A node \in ToSet(shaped) : \E old \in ToSet(list) : node.name = old.name
    /\ DOMAIN shaped = DOMAIN list /\ \A i \in DOMAIN list : shaped[i].name = list[i].name
    /\ FrontAddress \notin A => \A node \in ToSet(shaped) : Travels(node)

LEMMA ShapedIs ==
    ASSUME NEW N, NEW A, NEW list \in Seq(Homes(N, A))
    PROVE  Reshaped(list, FrontProxies([i \in DOMAIN list |-> ApplyFragments(ApplyAmneziaNoise(list[i]))]), N, A)
<1> DEFINE L == Len(list)
           Shape(node) == ApplyFragments(ApplyAmneziaNoise(node))
           plain == [i \in DOMAIN list |-> Shape(list[i])]
           shaped == FrontProxies(plain)
<1>1. L \in Nat /\ DOMAIN list = 1 .. L /\ \A i \in 1 .. L : list[i] \in Homes(N, A) /\ list[i] \in ToSet(list)
  BY DEF ToSet
<1>2. \A i \in 1 .. L : list[i] \in NodeOf(N) /\ list[i].host \in A /\ TLSKeyed(list[i])
  BY <1>1 DEF Homes
<1>3. \A node \in NodeOf(N) : Shape(node) \in NodeOf(N) /\ Alike(Shape(node), node)
  <2> TAKE node \in NodeOf(N)
  <2> DEFINE noisy == ApplyAmneziaNoise(node)
  <2>1. noisy \in NodeOf(N) /\ Alike(noisy, node)
    BY NoiseIs
  <2> HIDE DEF noisy
  <2> DEFINE other == ApplyFragments(noisy)
  <2>2. other \in NodeOf(N) /\ Alike(other, noisy)
    BY <2>1, FragmentsIs
  <2> HIDE DEF other
  <2>3. Alike(other, node)
    BY <2>1, <2>2 DEF Alike
  <2> QED
    BY <2>2, <2>3 DEF noisy, other
<1> HIDE DEF Shape, L
<1>4. \A i \in 1 .. L : /\ plain[i] = Shape(list[i]) /\ plain[i] \in NodeOf(N) /\ plain[i].name = list[i].name
                        /\ plain[i].host = list[i].host /\ TLSKeyed(plain[i])
  <2> TAKE i \in 1 .. L
  <2>1. plain[i] = Shape(list[i])
    BY <1>1
  <2>2. plain[i] \in NodeOf(N) /\ Alike(plain[i], list[i])
    BY <1>2, <1>3, <2>1
  <2> QED
    BY <1>2, <2>1, <2>2, Zenon DEF Alike, TLSKeyed
<1>5. plain = [i \in 1 .. L |-> plain[i]] /\ DOMAIN plain = 1 .. L
  BY <1>1
<1> HIDE DEF plain
<1>6. /\ shaped = [i \in 1 .. L |-> shaped[i]] /\ DOMAIN shaped = 1 .. L
      /\ \A i \in 1 .. L : shaped[i] = IF world.front = "v4" THEN FrontProxy(plain[i]) ELSE plain[i]
  BY <1>5 DEF FrontProxies
<1> HIDE DEF shaped
<1>7. \A i \in 1 .. L : /\ shaped[i] \in NodeOf(N) /\ shaped[i].name = list[i].name
                        /\ list[i].host # FrontAddress => Travels(shaped[i])
  <2> TAKE i \in 1 .. L
  <2>1. /\ FrontProxy(plain[i]) \in NodeOf(N) /\ FrontProxy(plain[i]).name = plain[i].name
        /\ plain[i].host # FrontAddress => Travels(FrontProxy(plain[i]))
    BY <1>4, FrontIs
  <2>2. plain[i].host # FrontAddress => Travels(plain[i])
    BY DEF Travels
  <2> QED
    BY <1>4, <1>6, <2>1, <2>2
<1>8. shaped \in Seq(NodeOf(N))
  BY <1>1, <1>6, <1>7, Listed
<1>9. \A node \in ToSet(shaped) : \E i \in 1 .. L : node = shaped[i]
  BY <1>6 DEF ToSet
<1>10. FrontAddress \notin A => \A i \in 1 .. L : list[i].host # FrontAddress
  BY <1>2
<1>11. \A node \in ToSet(shaped) : \E old \in ToSet(list) : node.name = old.name
  BY <1>1, <1>7, <1>9
<1>12. FrontAddress \notin A => \A node \in ToSet(shaped) : Travels(node)
  BY <1>7, <1>9, <1>10
<1>13. DOMAIN shaped = DOMAIN list /\ \A i \in DOMAIN list : shaped[i].name = list[i].name
  BY <1>1, <1>6, <1>7
<1> QED
  BY <1>8, <1>11, <1>12, <1>13 DEF shaped, plain, Shape, Reshaped

\* What the engine is given when the program builds a configuration, and when one is
\* passed through.
Rendered ==
    LET unique == Unique(nodes)
        chained == world.chain # <<>>
        found == ~chained \/ \E i \in DOMAIN unique : unique[i].name = world.chain
        hops == IF found THEN FirstHops(unique) ELSE <<>>
        candidates == Chosen(hops)
        target == IF chained THEN ChainExitName ELSE <<SelectGroup>>
    IN  /\ found /\ hops # <<>> /\ candidates # <<>>
        /\ engine = Document(IF chained THEN Append(unique, ExitHop(unique)) ELSE unique,
                             hops, Rules(target), candidates)
Passed ==
    /\ IsConfiguration(world.lines)
    /\ engine = [NoDocument EXCEPT !.lines = StripTopLevelKeys(world.lines),
                                   !.dnsThrough = DetectProxyGroup(world.lines),
                                   !.byProgram = SplitActive(world.split)]

\* The inductive invariant, over names and addresses that the worlds keep to.
ListsHeld(N, A) ==
    /\ \E kind \in Worlds : world \in kind
    /\ Len(lists) <= Len(world.sources) /\ lists \in Seq(Seq(Homes(N, A)))
    /\ \A i \in DOMAIN lists : SourceRead(lists[i], world.sources[i], N)
NodesHeld(N, A) ==
    /\ stage \in {"reading", "read", "shaped", "done", "failed"}
    /\ nodes \in Seq(NodeOf(N))
    /\ stage = "reading" => nodes = <<>>
    /\ stage = "read" => nodes \in Seq(Homes(N, A))
    /\ stage \in {"shaped", "done"} =>
           \A node \in ToSet(nodes) : node.name \notin world.hidden /\ (FrontAddress \notin A => Travels(node))
EngineHeld == IF stage = "done" THEN Rendered \/ Passed ELSE engine = NoDocument
Held(N, A) == ListsHeld(N, A) /\ NodesHeld(N, A) /\ EngineHeld

LEMMA HomesAre ==
    ASSUME NEW N, NEW A, NEW list \in Seq(Homes(N, A))
    PROVE  list \in Seq(NodeOf(N))
<1>1. \A node \in ToSet(list) : node \in NodeOf(N)
  BY ElementsOf DEF Homes
<1> QED
  BY <1>1, InSeq

LEMMA HeldInit ==
    ASSUME NEW N, NEW A, Init
    PROVE  Held(N, A)
<1>1. /\ \E kind \in Worlds : world \in kind
      /\ stage = "reading" /\ lists = <<>> /\ nodes = <<>> /\ engine = NoDocument
  BY DEF Init
<1>2. world.sources \in Seq(SourceType)
  <2>1. world \in WorldType
    BY <1>1, WorldsAssumption
  <2> QED
    BY <2>1 DEF WorldType
<1>3. Len(lists) <= Len(world.sources)
  BY <1>1, <1>2
<1>4. lists \in Seq(Seq(Homes(N, A))) /\ nodes \in Seq(NodeOf(N)) /\ DOMAIN lists = {}
  BY <1>1
<1> QED
  BY <1>1, <1>3, <1>4 DEF Held, ListsHeld, NodesHeld, EngineHeld

LEMMA HeldReadSource ==
    ASSUME NEW N, Speaks(N), NEW A, Keeps(N, A), Held(N, A), ReadSource
    PROVE  Held(N, A)'
<1> DEFINE source == world.sources[Len(lists) + 1]
           list == ReadSourceText(source)
<1>1. /\ stage = "reading" /\ Len(lists) < Len(world.sources) /\ lists' = Append(lists, list)
      /\ UNCHANGED <<world, stage, nodes, engine>>
  BY DEF ReadSource
<1>2. /\ \E kind \in Worlds : world \in kind
      /\ lists \in Seq(Seq(Homes(N, A))) /\ Len(lists) \in Nat
      /\ \A i \in DOMAIN lists : SourceRead(lists[i], world.sources[i], N)
  BY DEF Held, ListsHeld
<1>3. /\ world.sources \in Seq(SourceType) /\ Len(world.sources) \in Nat
      /\ \A i \in DOMAIN world.sources : Offers(world.sources[i], N) /\ \A s \in ToSet(world.sources[i].servers) : s.host \in A
  <2>1. \E kind \in Worlds : world \in kind
    BY <1>2
  <2>2. world.sources \in Seq(SourceType)
    BY <2>1, WorldIs
  <2>3. Len(world.sources) \in Nat
    BY <2>2
  <2>4. \A i \in DOMAIN world.sources : Offers(world.sources[i], N) /\ \A s \in ToSet(world.sources[i].servers) : s.host \in A
    BY <2>1, WorldIs
  <2> QED
    BY <2>2, <2>3, <2>4
<1>4. Len(lists) + 1 \in DOMAIN world.sources
  BY <1>1, <1>2, <1>3
<1>5. Offers(source, N) /\ \A s \in ToSet(source.servers) : s.host \in A
  BY <1>3, <1>4
<1> HIDE DEF source, list
<1>6. SourceRead(list, source, N)
  BY <1>5, SourceIsRead DEF list
<1>7. list \in Seq(Homes(N, A))
  BY <1>5, <1>6, ListHomes DEF SourceRead
<1>8. lists' \in Seq(Seq(Homes(N, A))) /\ Len(lists') = Len(lists) + 1 /\ DOMAIN lists' = 1 .. Len(lists) + 1
      /\ lists'[Len(lists) + 1] = list /\ \A i \in 1 .. Len(lists) : lists'[i] = lists[i]
  <2>1. \E S : lists \in Seq(S) /\ list \in S /\ S = Seq(Homes(N, A))
    BY <1>2, <1>7
  <2> QED
    BY <1>1, <2>1
<1>9. \A i \in DOMAIN lists' : SourceRead(lists'[i], world.sources[i], N)
  <2> TAKE i \in DOMAIN lists'
  <2>1. CASE i = Len(lists) + 1
    BY <1>6, <1>8, <2>1 DEF source
  <2>2. CASE i # Len(lists) + 1
    <3>1. i \in 1 .. Len(lists) /\ i \in DOMAIN lists
      BY <1>2, <1>8, <2>2
    <3> QED
      BY <1>2, <1>8, <3>1
  <2> QED
    BY <2>1, <2>2
<1>10. Len(lists') <= Len(world.sources)
  BY <1>1, <1>2, <1>3, <1>8
<1>11. ListsHeld(N, A)'
  BY <1>1, <1>2, <1>8, <1>9, <1>10 DEF ListsHeld
<1>12. NodesHeld(N, A)'
  BY <1>1 DEF Held, NodesHeld
<1>13. EngineHeld'
  BY <1>1 DEF Held, EngineHeld
<1> QED
  BY <1>11, <1>12, <1>13 DEF Held

\* Nothing but the nodes, the stage and the engine changes.
LEMMA ListsStay ==
    ASSUME NEW N, NEW A, Held(N, A), UNCHANGED <<world, lists>>
    PROVE  ListsHeld(N, A)'
BY DEF Held, ListsHeld

LEMMA HeldCombine ==
    ASSUME NEW N, Speaks(N), NEW A, Keeps(N, A), Held(N, A), CombineEveryList
    PROVE  Held(N, A)'
<1> DEFINE read == [i \in DOMAIN lists |-> [name |-> world.sources[i].name, nodes |-> lists[i]]]
           places == {i \in DOMAIN lists : lists[i] # <<>>}
           usable == At(read, places)
           merged == MergeProxies(usable)
           pool == Renamed(merged)
           S == {source \in [name : Texts, nodes : Seq(Homes(N, A))] : <<source.name>> \in N}
           L == Len(lists)
<1>1. /\ stage = "reading" /\ nodes' = pool /\ stage' = (IF pool = <<>> THEN "failed" ELSE "read")
      /\ UNCHANGED <<world, lists, engine>>
  BY Zenon DEF CombineEveryList
<1>2. /\ \E kind \in Worlds : world \in kind
      /\ lists \in Seq(Seq(Homes(N, A))) /\ L \in Nat /\ DOMAIN lists = 1 .. L
      /\ L <= Len(world.sources)
  BY DEF Held, ListsHeld
<1>3. /\ world.sources \in Seq(SourceType)
      /\ \A i \in DOMAIN world.sources : <<world.sources[i].name>> \in N /\ world.sources[i].name \in Texts
  BY <1>2, WorldIs
<1>4. \A i \in 1 .. L : i \in DOMAIN world.sources /\ lists[i] \in Seq(Homes(N, A))
  BY <1>2, <1>3
<1>5. \A i \in 1 .. L : [name |-> world.sources[i].name, nodes |-> lists[i]] \in S
  <2> DEFINE R == Seq(Homes(N, A))
  <2> HIDE DEF R
  <2>1. \A i \in 1 .. L : lists[i] \in R
    BY <1>4 DEF R
  <2> SUFFICES \A i \in 1 .. L : [name |-> world.sources[i].name, nodes |-> lists[i]] \in {source \in [name : Texts, nodes : R] : <<source.name>> \in N}
    BY DEF R
  <2> QED
    BY <1>3, <1>4, <2>1
<1>6. \A source \in S : Named(source, N, A)
  BY DEF Named
<1> HIDE DEF S, L
<1>7. read \in Seq(S)
  <2>1. read = [i \in 1 .. L |-> read[i]] /\ \A i \in 1 .. L : read[i] \in S
    BY <1>2, <1>5
  <2> HIDE DEF read
  <2> QED
    BY <1>2, <2>1, Listed
<1> HIDE DEF read, places
<1>8. usable \in Seq(S)
  BY <1>7, AtIs
<1> HIDE DEF usable
<1>9. merged \in Seq(Homes(N, A))
  BY <1>6, <1>8, MergeProxiesIs DEF Speaks, Merges
<1> HIDE DEF merged
<1>10. pool \in Seq(Homes(N, A))
  BY <1>9, HomesRenamed DEF Speaks
<1> HIDE DEF pool
<1>11. NodesHeld(N, A)'
  BY <1>1, <1>10, HomesAre DEF NodesHeld
<1>12. EngineHeld'
  BY <1>1 DEF Held, EngineHeld
<1> QED
  BY <1>1, <1>11, <1>12, ListsStay DEF Held

LEMMA HeldTake ==
    ASSUME NEW N, NEW A, Keeps(N, A), Held(N, A), TakeTheList
    PROVE  Held(N, A)'
<1>1. /\ stage = "reading" /\ Len(lists) = Len(world.sources)
      /\ nodes' = lists[1] /\ stage' = (IF lists[1] = <<>> THEN "failed" ELSE "read")
      /\ UNCHANGED <<world, lists, engine>>
  BY DEF TakeTheList
<1>2. /\ \E kind \in Worlds : world \in kind
      /\ lists \in Seq(Seq(Homes(N, A)))
  BY DEF Held, ListsHeld
<1>3. world.sources \in Seq(SourceType) /\ world.sources # <<>>
  BY <1>2, WorldIs
<1>4. 1 \in DOMAIN lists
  BY <1>1, <1>2, <1>3
<1>5. lists[1] \in Seq(Homes(N, A))
  BY <1>2, <1>4
<1>6. NodesHeld(N, A)'
  BY <1>1, <1>5, HomesAre DEF NodesHeld
<1>7. EngineHeld'
  BY <1>1 DEF Held, EngineHeld
<1> QED
  BY <1>1, <1>6, <1>7, ListsStay DEF Held

LEMMA HeldPass ==
    ASSUME NEW N, NEW A, Keeps(N, A), Held(N, A), PassThrough
    PROVE  Held(N, A)'
<1>1. /\ stage = "reading" /\ LooksLikeMihomoDocument(world.sources[1]) /\ UNCHANGED <<world, lists, nodes>>
      /\ \/ stage' = "failed" /\ UNCHANGED engine
         \/ /\ stage' = "done"
            /\ engine' = [NoDocument EXCEPT !.lines = StripTopLevelKeys(world.lines),
                                            !.dnsThrough = DetectProxyGroup(world.lines),
                                            !.byProgram = SplitActive(world.split)]
  BY Zenon DEF PassThrough
<1>2. \E kind \in Worlds : world \in kind
  BY DEF Held, ListsHeld
<1>3. /\ world.sources \in Seq(SourceType) /\ world.sources # <<>>
      /\ \A i \in DOMAIN world.sources : world.sources[i].form = "providers" => IsConfiguration(world.lines)
  BY <1>2, WorldIs
<1>4. 1 \in DOMAIN world.sources
  BY <1>3
<1>5. IsConfiguration(world.lines)
  BY <1>1, <1>3, <1>4 DEF LooksLikeMihomoDocument
<1>6. nodes = <<>> /\ nodes \in Seq(NodeOf(N)) /\ engine = NoDocument
  BY <1>1 DEF Held, NodesHeld, EngineHeld
<1>7. NodesHeld(N, A)'
  BY <1>1, <1>6 DEF NodesHeld, ToSet
<1>8. EngineHeld'
  <2>1. CASE stage' = "failed" /\ UNCHANGED engine
    BY <1>6, <2>1 DEF EngineHeld
  <2>2. CASE /\ stage' = "done"
             /\ engine' = [NoDocument EXCEPT !.lines = StripTopLevelKeys(world.lines),
                                             !.dnsThrough = DetectProxyGroup(world.lines),
                                             !.byProgram = SplitActive(world.split)]
    <3>1. world' = world /\ IsConfiguration(world.lines)
      BY <1>1, <1>5
    <3>2. Passed'
      BY <2>2, <3>1, Zenon DEF Passed
    <3> QED
      BY <2>2, <3>2 DEF EngineHeld
  <2> QED
    BY <1>1, <2>1, <2>2
<1> QED
  BY <1>1, <1>7, <1>8, ListsStay DEF Held

LEMMA HeldShape ==
    ASSUME NEW N, NEW A, Held(N, A), ShapeNodes
    PROVE  Held(N, A)'
<1> DEFINE places == {i \in DOMAIN nodes : nodes[i].name \notin world.hidden}
           kept == At(nodes, places)
           shaped == FrontProxies([i \in DOMAIN kept |-> ApplyFragments(ApplyAmneziaNoise(kept[i]))])
<1>1. /\ stage = "read" /\ nodes' = shaped /\ stage' = (IF kept = <<>> THEN "failed" ELSE "shaped")
      /\ UNCHANGED <<world, lists, engine>>
  BY Zenon DEF ShapeNodes
<1>2. nodes \in Seq(Homes(N, A)) /\ engine = NoDocument
  BY <1>1 DEF Held, NodesHeld, EngineHeld
<1>3. kept \in Seq(Homes(N, A)) /\ ToSet(kept) = {nodes[i] : i \in places \cap DOMAIN nodes}
  <2> HIDE DEF places
  <2> QED
    BY <1>2, AtIs, AtSet
<1>4. \A node \in ToSet(kept) : node.name \notin world.hidden
  BY <1>3
<1> HIDE DEF kept
<1>5. /\ shaped \in Seq(NodeOf(N))
      /\ \A node \in ToSet(shaped) : \E old \in ToSet(kept) : node.name = old.name
      /\ FrontAddress \notin A => \A node \in ToSet(shaped) : Travels(node)
  <2>1. kept \in Seq(Homes(N, A))
    BY <1>3
  <2>2. Reshaped(kept, shaped, N, A)
    BY <2>1, ShapedIs, Zenon
  <2> HIDE DEF shaped
  <2> QED
    BY <2>2 DEF Reshaped
<1> HIDE DEF shaped
<1>6. \A node \in ToSet(shaped) : node.name \notin world.hidden
  BY <1>4, <1>5
<1>7. NodesHeld(N, A)'
  BY <1>1, <1>5, <1>6 DEF NodesHeld
<1>8. EngineHeld'
  BY <1>1, <1>2 DEF EngineHeld
<1> QED
  BY <1>1, <1>7, <1>8, ListsStay DEF Held

LEMMA HeldRender ==
    ASSUME NEW N, NEW A, Held(N, A), Render
    PROVE  Held(N, A)'
<1>1. stage = "shaped" /\ stage' \in {"failed", "done"} /\ UNCHANGED <<world, lists, nodes>>
  BY Zenon DEF Render
<1>2. stage' = "failed" => UNCHANGED engine
  BY DEF Render
<1>3. stage' = "done" => Rendered'
  <2> DEFINE unique == Unique(nodes)
             chained == world.chain # <<>>
             found == ~chained \/ \E i \in DOMAIN unique : unique[i].name = world.chain
             hops == IF found THEN FirstHops(unique) ELSE <<>>
             candidates == Chosen(hops)
             target == IF chained THEN ChainExitName ELSE <<SelectGroup>>
             document == Document(IF chained THEN Append(unique, ExitHop(unique)) ELSE unique,
                                  hops, Rules(target), candidates)
  <2> SUFFICES ASSUME stage' = "done" PROVE Rendered'
    OBVIOUS
  <2>1. IF ~found \/ hops = <<>> \/ candidates = <<>>
        THEN stage' = "failed" /\ UNCHANGED engine
        ELSE stage' = "done" /\ engine' = document
    BY Zenon DEF Render
  <2>2. found /\ hops # <<>> /\ candidates # <<>> /\ engine' = document
    <3> HIDE DEF found, hops, candidates, document
    <3> QED
      BY <2>1
  <2>3. world' = world /\ nodes' = nodes
    BY <1>1
  <2>4. unique' = unique /\ found' = found /\ hops' = hops /\ candidates' = candidates /\ document' = document
    BY <2>3 DEF Unique, FirstHops, NamesOf, Chosen, ExitHop, Rules, SplitActive, Document, DirectRules, SplitRules, CatchAllRules,
                SplitCatches, CleanProcessNames, CleanDirect
  <2> QED
    BY <2>2, <2>3, <2>4, Zenon DEF Rendered
<1>4. NodesHeld(N, A)'
  BY <1>1 DEF Held, NodesHeld
<1>5. EngineHeld'
  BY <1>1, <1>2, <1>3 DEF Held, EngineHeld
<1> QED
  BY <1>1, <1>4, <1>5, ListsStay DEF Held

LEMMA HeldStays ==
    ASSUME NEW N, NEW A, Held(N, A), UNCHANGED vars
    PROVE  Held(N, A)'
<1>1. world' = world /\ stage' = stage /\ lists' = lists /\ nodes' = nodes /\ engine' = engine
  BY DEF vars
<1> QED
  BY <1>1 DEF Held, ListsHeld, NodesHeld, EngineHeld, Rendered, Passed, Document, Chosen, FirstHops, ExitHop, Rules, SplitActive

-----------------------------------------------------------------------------
(* What the engine is given.                                                  *)

LEMMA DocumentIs ==
    ASSUME NEW proxies, NEW hops, NEW rules, NEW candidates
    PROVE  LET document == Document(proxies, hops, rules, candidates) IN
           /\ document.proxies = proxies /\ document.group = hops /\ document.rules = rules
           /\ document.candidates = candidates /\ document.byProgram = SplitActive(world.split)
           /\ document.dnsThrough = SelectGroup /\ document.lines = <<>>
BY DEF Document

\* The configuration that was built.
LEMMA RenderedIs ==
    ASSUME Rendered
    PROVE  LET unique == Unique(nodes)
               hops == FirstHops(unique) IN
           /\ world.chain = <<>> \/ \E i \in DOMAIN unique : unique[i].name = world.chain
           /\ engine.group = hops /\ hops # <<>> /\ engine.rules = Rules(Target)
           /\ engine.candidates = Chosen(hops) /\ Chosen(hops) # <<>>
           /\ engine.proxies = IF world.chain # <<>> THEN Append(unique, ExitHop(unique)) ELSE unique
           /\ engine.byProgram = SplitActive(world.split) /\ engine.dnsThrough = SelectGroup /\ engine.lines = <<>>
<1> DEFINE unique == Unique(nodes)
           chained == world.chain # <<>>
           found == ~chained \/ \E i \in DOMAIN unique : unique[i].name = world.chain
           hops == IF found THEN FirstHops(unique) ELSE <<>>
           candidates == Chosen(hops)
           target == IF chained THEN ChainExitName ELSE <<SelectGroup>>
           proxies == IF chained THEN Append(unique, ExitHop(unique)) ELSE unique
           rules == Rules(target)
<1>1. /\ found /\ hops # <<>> /\ candidates # <<>> /\ engine = Document(proxies, hops, rules, candidates)
  BY Zenon DEF Rendered
<1>2. target = Target
  BY DEF Target
<1> HIDE DEF proxies, rules, candidates
<1>3. /\ engine.proxies = proxies /\ engine.group = hops /\ engine.rules = rules
      /\ engine.candidates = candidates /\ engine.byProgram = SplitActive(world.split)
      /\ engine.dnsThrough = SelectGroup /\ engine.lines = <<>>
  BY <1>1, DocumentIs
<1>4. hops = FirstHops(unique)
  BY <1>1
<1>5. rules = Rules(Target)
  BY <1>2 DEF rules
<1> QED
  BY <1>1, <1>3, <1>4, <1>5 DEF proxies, candidates

LEMMA UniqueIs ==
    ASSUME NEW S, NEW list \in Seq(S)
    PROVE  LET unique == Unique(list) IN
           /\ unique \in Seq(S) /\ ToSet(unique) \subseteq ToSet(list)
           /\ \A i, j \in DOMAIN unique : unique[i].name = unique[j].name => i = j
<1> DEFINE places == {i \in DOMAIN list : list[i].name # <<>> /\ \A j \in 1..i-1 : list[j].name # list[i].name}
           unique == At(list, places)
           L == Len(list)
<1>1. unique \in Seq(S) /\ ToSet(unique) = {list[i] : i \in places \cap DOMAIN list}
  <2> HIDE DEF places
  <2> QED
    BY AtIs, AtSet
<1>2. PICK f : Picks(f, unique, list, places, L)
  <2> HIDE DEF places
  <2> QED
    BY AtIs
<1>3. Unique(list) = unique
  BY DEF Unique
<1>4. L \in Nat /\ DOMAIN list = 1 .. L
  OBVIOUS
<1>5. \A i \in places : i \in 1 .. L /\ \A j \in 1 .. i - 1 : list[j].name # list[i].name
  BY <1>4
<1>6. ToSet(unique) \subseteq ToSet(list)
  BY <1>1 DEF ToSet
<1> HIDE DEF places, L
<1>7. DOMAIN unique = 1 .. Len(unique) /\ Len(unique) \in Nat
  BY <1>1
<1> HIDE DEF unique
<1>8. /\ \A k \in DOMAIN unique : f[k] \in places /\ unique[k] = list[f[k]]
      /\ \A k, l \in DOMAIN unique : k < l => f[k] < f[l]
  BY <1>2, <1>7 DEF Picks
<1>9. \A k, l \in DOMAIN unique : k < l => unique[k].name # unique[l].name
  <2> TAKE k, l \in DOMAIN unique
  <2> SUFFICES ASSUME k < l PROVE unique[k].name # unique[l].name
    OBVIOUS
  <2>1. f[k] \in places /\ f[l] \in places /\ f[k] < f[l] /\ unique[k] = list[f[k]] /\ unique[l] = list[f[l]]
    BY <1>8
  <2>2. f[k] \in 1 .. L /\ f[l] \in 1 .. L /\ \A j \in 1 .. f[l] - 1 : list[j].name # list[f[l]].name
    BY <1>5, <2>1
  <2>3. f[k] \in 1 .. f[l] - 1
    BY <1>4, <2>1, <2>2
  <2> QED
    BY <2>1, <2>2, <2>3
<1>10. \A i, j \in DOMAIN unique : unique[i].name = unique[j].name => i = j
  <2> TAKE i, j \in DOMAIN unique
  <2>1. i < j \/ j < i \/ i = j
    BY <1>7
  <2> QED
    BY <1>9, <2>1
<1> QED
  BY <1>1, <1>3, <1>6, <1>10

\* Each connection goes where the settings say.
LEMMA RenderedRoutes ==
    ASSUME Rendered, \E kind \in Worlds : world \in kind
    PROVE  RoutesAsAsked
<1>1. world \in WorldType
  BY WorldsAssumption
<1>2. engine.rules = Rules(Target) /\ engine.byProgram = SplitActive(world.split)
  BY RenderedIs
<1> QED
  BY <1>1, <1>2, RulesRoute DEF RoutesAsAsked

\* A name finds its node, when no other has it.
LEMMA WithNameIs ==
    ASSUME NEW list, NEW i \in DOMAIN list, NEW name, list[i].name = name,
           \A j \in DOMAIN list : list[j].name = name => list[j] = list[i]
    PROVE  WithName(list, name) = list[i]
<1> DEFINE all == {list[j] : j \in DOMAIN list}
<1>1. list[i] \in all /\ \A node \in all : node.name = name => node = list[i]
  OBVIOUS
<1>2. WithName(list, name) = CHOOSE node \in all : node.name = name
  BY DEF WithName
<1> HIDE DEF all
<1>3. (CHOOSE node \in all : node.name = name) \in all /\ (CHOOSE node \in all : node.name = name).name = name
  BY <1>1
<1> QED
  BY <1>1, <1>2, <1>3

\* The names of a list, and those that the first hop is chosen from.
LEMMA HopsAre ==
    ASSUME NEW N, NEW list \in Seq(NodeOf(N))
    PROVE  /\ FirstHops(list) \in Seq(N)
           /\ \A name \in ToSet(FirstHops(list)) :
                  /\ \E i \in DOMAIN list : list[i].name = name
                  /\ world.chain # <<>> =>
                         /\ name # world.chain
                         /\ RequiresUDPDialer(WithName(list, world.chain)) => SupportsUDPDialing(WithName(list, name))
<1> DEFINE names == NamesOf(list)
           narrowed == RequiresUDPDialer(WithName(list, world.chain))
           places == {i \in DOMAIN names : /\ names[i] # world.chain
                                           /\ narrowed => SupportsUDPDialing(WithName(list, names[i]))}
           L == Len(list)
<1>1. L \in Nat /\ DOMAIN list = 1 .. L /\ \A i \in 1 .. L : list[i].name \in N
  <2>1. \A i \in 1 .. L : list[i] \in NodeOf(N)
    OBVIOUS
  <2> QED
    BY <2>1 DEF NodeOf
<1>2. names = [i \in 1 .. L |-> names[i]] /\ \A i \in 1 .. L : names[i] = list[i].name
  BY <1>1 DEF NamesOf
<1> HIDE DEF names, L, narrowed
<1>3. names \in Seq(N) /\ DOMAIN names = 1 .. L
  BY <1>1, <1>2, Listed
<1>4. FirstHops(list) = IF world.chain = <<>> THEN names ELSE At(names, places)
  BY Zenon DEF FirstHops, names, narrowed
<1>5. At(names, places) \in Seq(N) /\ ToSet(At(names, places)) = {names[i] : i \in places \cap DOMAIN names}
  <2> HIDE DEF places
  <2> QED
    BY <1>3, AtIs, AtSet
<1>6. \A name \in ToSet(names) : \E i \in DOMAIN list : list[i].name = name
  BY <1>1, <1>2, <1>3 DEF ToSet
<1>7. ToSet(At(names, places)) \subseteq ToSet(names)
  BY <1>5 DEF ToSet
<1>8. \A name \in ToSet(At(names, places)) :
          name # world.chain /\ (narrowed => SupportsUDPDialing(WithName(list, name)))
  BY <1>5
<1> HIDE DEF places
<1> QED
  BY <1>3, <1>4, <1>5, <1>6, <1>7, <1>8 DEF narrowed

\* The second hop is dialled through the others.
LEMMA RenderedChain ==
    ASSUME NEW N, ChainExitName \notin N, nodes \in Seq(NodeOf(N)), Rendered
    PROVE  ChainCarries
<1> DEFINE unique == Unique(nodes)
           hops == FirstHops(unique)
           exit == ExitHop(unique)
           proxies == Append(unique, exit)
           L == Len(unique)
<1> SUFFICES ASSUME world.chain # <<>>
             PROVE  LET hop == WithName(engine.proxies, ChainExitName) IN
                    /\ hop.via = <<SelectGroup>>
                    /\ engine.group # <<>> /\ ~Contains(engine.group, world.chain)
                    /\ RequiresUDPDialer(hop) =>
                           \A name \in ToSet(engine.group) : SupportsUDPDialing(WithName(engine.proxies, name))
  BY DEF ChainCarries
<1>1. /\ \E i \in DOMAIN unique : unique[i].name = world.chain
      /\ engine.group = hops /\ hops # <<>> /\ engine.proxies = proxies
  BY RenderedIs
<1>2. /\ unique \in Seq(NodeOf(N))
      /\ \A i, j \in DOMAIN unique : unique[i].name = unique[j].name => i = j
  BY UniqueIs
<1> HIDE DEF unique
<1>3. L \in Nat /\ DOMAIN unique = 1 .. L /\ \A i \in 1 .. L : unique[i] \in NodeOf(N) /\ unique[i].name # ChainExitName
  <2>1. \A node \in NodeOf(N) : node.name # ChainExitName
    BY DEF NodeOf
  <2> QED
    BY <1>2, <2>1
<1> HIDE DEF L
<1>4. PICK k \in 1 .. L : unique[k].name = world.chain
  BY <1>1, <1>3
<1>5. \A i \in 1 .. L : WithName(unique, unique[i].name) = unique[i]
  BY <1>2, <1>3, WithNameIs
<1>6. WithName(unique, world.chain) = unique[k] /\ unique[k] \in NodeOf(N)
  BY <1>3, <1>4, <1>5
<1>7. /\ exit.name = ChainExitName /\ exit.via = <<SelectGroup>>
      /\ exit.type = unique[k].type /\ exit.net = unique[k].net
  <2> DEFINE node == unique[k]
  <2>1. exit = [node EXCEPT !.name = ChainExitName, !.via = <<SelectGroup>>]
    BY <1>6 DEF ExitHop
  <2>2. node \in NodeOf(N)
    BY <1>6
  <2> HIDE DEF node, exit
  <2>3. /\ exit.name = ChainExitName /\ exit.via = <<SelectGroup>>
        /\ exit.type = node.type /\ exit.net = node.net
    BY <2>1, <2>2 DEF NodeOf
  <2> QED
    BY <2>3 DEF node
<1> HIDE DEF exit
<1>8. /\ DOMAIN proxies = 1 .. L + 1 /\ proxies[L + 1] = exit /\ \A i \in 1 .. L : proxies[i] = unique[i]
  BY <1>2, <1>3 DEF L
<1> HIDE DEF proxies
<1>9. \A j \in 1 .. L + 1 : j = L + 1 \/ j \in 1 .. L
  BY <1>3
<1>10. WithName(proxies, ChainExitName) = exit
  <2>1. L + 1 \in DOMAIN proxies /\ proxies[L + 1].name = ChainExitName
    BY <1>3, <1>7, <1>8
  <2>2. \A j \in DOMAIN proxies : proxies[j].name = ChainExitName => proxies[j] = proxies[L + 1]
    BY <1>3, <1>8, <1>9
  <2> QED
    BY <1>8, <2>1, <2>2, WithNameIs
<1>11. \A i \in 1 .. L : WithName(proxies, unique[i].name) = unique[i]
  <2> TAKE i \in 1 .. L
  <2>1. i \in DOMAIN proxies /\ proxies[i] = unique[i]
    BY <1>3, <1>8
  <2>2. \A j \in DOMAIN proxies : proxies[j].name = unique[i].name => proxies[j] = proxies[i]
    BY <1>2, <1>3, <1>7, <1>8, <1>9
  <2> QED
    BY <2>1, <2>2, WithNameIs
<1>12. /\ hops \in Seq(N)
       /\ \A name \in ToSet(hops) :
              /\ \E i \in DOMAIN unique : unique[i].name = name
              /\ name # world.chain
              /\ RequiresUDPDialer(WithName(unique, world.chain)) => SupportsUDPDialing(WithName(unique, name))
  BY <1>2, HopsAre
<1> HIDE DEF hops
<1>13. ~Contains(hops, world.chain)
  BY <1>12 DEF Contains, ToSet
<1>14. RequiresUDPDialer(exit) <=> RequiresUDPDialer(unique[k])
  BY <1>7 DEF RequiresUDPDialer
<1>15. \A name \in ToSet(hops) : WithName(proxies, name) = WithName(unique, name)
  BY <1>3, <1>5, <1>11, <1>12
<1> QED
  BY <1>1, <1>6, <1>7, <1>10, <1>12, <1>13, <1>14, <1>15

\* Only what the user allows is offered, and chosen.
LEMMA ChosenIs ==
    ASSUME NEW S, NEW hops \in Seq(S), world.prefer \in Seq(Names)
    PROVE  /\ ToSet(Chosen(hops)) \subseteq ToSet(hops)
           /\ world.prefer # <<>> => ToSet(Chosen(hops)) \subseteq ToSet(world.prefer)
<1> DEFINE prefer == world.prefer
           places == {i \in DOMAIN prefer : /\ Contains(hops, prefer[i])
                                            /\ \A j \in 1..i-1 : prefer[j] # prefer[i]}
<1>1. Chosen(hops) = IF prefer = <<>> THEN hops ELSE At(prefer, places)
  BY DEF Chosen
<1>2. ToSet(At(prefer, places)) = {prefer[i] : i \in places \cap DOMAIN prefer}
  <2> HIDE DEF places
  <2> QED
    BY AtSet
<1>3. \A x \in ToSet(At(prefer, places)) : x \in ToSet(prefer) /\ Contains(hops, x)
  BY <1>2 DEF ToSet
<1>4. \A x : Contains(hops, x) => x \in ToSet(hops)
  BY DEF Contains, ToSet
<1> HIDE DEF prefer, places
<1>5. ToSet(Chosen(hops)) \subseteq ToSet(hops)
  BY <1>1, <1>3, <1>4
<1>6. prefer # <<>> => ToSet(Chosen(hops)) \subseteq ToSet(prefer)
  BY <1>1, <1>3
<1> QED
  BY <1>5, <1>6 DEF prefer

LEMMA RenderedAllows ==
    ASSUME NEW N, nodes \in Seq(NodeOf(N)), Rendered, \E kind \in Worlds : world \in kind,
           ChainExitName \notin world.hidden, \A node \in ToSet(nodes) : node.name \notin world.hidden
    PROVE  OnlyTheAllowed
<1> DEFINE unique == Unique(nodes)
           hops == FirstHops(unique)
           proxies == engine.proxies
<1>1. /\ engine.group = hops /\ engine.candidates = Chosen(hops) /\ Chosen(hops) # <<>>
      /\ \/ proxies = unique
         \/ proxies = Append(unique, ExitHop(unique)) /\ \E i \in DOMAIN unique : unique[i].name = world.chain
  BY RenderedIs
<1>2. unique \in Seq(NodeOf(N)) /\ ToSet(unique) \subseteq ToSet(nodes)
  BY UniqueIs
<1>3. world.prefer \in Seq(Names)
  <2>1. world \in WorldType
    BY WorldsAssumption
  <2> QED
    BY <2>1 DEF WorldType
<1>4. hops \in Seq(N)
  BY <1>2, HopsAre
<1> HIDE DEF unique, hops
<1>5. \A p \in ServersOf(unique) : p.name \notin world.hidden
  BY <1>2 DEF ServersOf, ToSet
<1>6. \A p \in ServersOf(proxies) : p.name \notin world.hidden
  <2>1. CASE proxies = unique
    BY <1>5, <2>1
  <2>2. CASE proxies = Append(unique, ExitHop(unique)) /\ \E i \in DOMAIN unique : unique[i].name = world.chain
    <3> DEFINE exit == ExitHop(unique)
    <3>1. exit.name = ChainExitName
      <4> DEFINE node == WithName(unique, world.chain)
                 all == {unique[i] : i \in DOMAIN unique}
      <4>1. \E x \in all : x.name = world.chain
        BY <2>2
      <4>2. node = CHOOSE x \in all : x.name = world.chain
        BY DEF WithName
      <4>3. \A x \in all : x \in NodeOf(N)
        BY <1>2
      <4> HIDE DEF all
      <4>4. node \in NodeOf(N)
        BY <4>1, <4>2, <4>3
      <4> HIDE DEF node
      <4>5. [node EXCEPT !.name = ChainExitName, !.via = <<SelectGroup>>].name = ChainExitName
        BY <4>4 DEF NodeOf
      <4> QED
        BY <4>5 DEF ExitHop, node
    <3> HIDE DEF exit
    <3>2. \A p \in ServersOf(proxies) : p = exit \/ p \in ServersOf(unique)
      <4>1. /\ DOMAIN proxies = 1 .. Len(unique) + 1 /\ proxies[Len(unique) + 1] = exit
            /\ \A i \in 1 .. Len(unique) : proxies[i] = unique[i] /\ i \in DOMAIN unique
            /\ \A i \in 1 .. Len(unique) + 1 : i = Len(unique) + 1 \/ i \in 1 .. Len(unique)
        BY <1>2, <2>2 DEF exit
      <4> QED
        BY <4>1 DEF ServersOf
    <3> QED
      BY <1>5, <3>1, <3>2
  <2> QED
    BY <1>1, <2>1, <2>2
<1>7. ToSet(Chosen(hops)) \subseteq ToSet(hops) /\ (world.prefer # <<>> => ToSet(Chosen(hops)) \subseteq ToSet(world.prefer))
  BY <1>3, <1>4, ChosenIs
<1> QED
  BY <1>1, <1>6, <1>7 DEF OnlyTheAllowed

-----------------------------------------------------------------------------
(* A configuration that is passed through.                                    *)

\* Whether a line is taken out, after the one before.
Skips(lines, n, before) == lines[n] = "owned" \/ (before /\ (lines[n] = "blank" \/ Indented(lines[n])))

\* What StripTopLevelKeys goes through.
StripGoes(skip, lines) ==
    /\ skip \in [0 .. Len(lines) -> BOOLEAN] /\ skip[0] = FALSE
    /\ \A n \in 1 .. Len(lines) : skip[n] <=> Skips(lines, n, skip[n - 1])
    /\ StripTopLevelKeys(lines) = At(lines, {n \in DOMAIN lines : ~skip[n]})

LEMMA StripSteps ==
    ASSUME NEW lines \in Seq(LineType)
    PROVE  \E skip : StripGoes(skip, lines)
<1> DEFINE L == Len(lines)
           g == [x \in BOOLEAN \X (1 .. L) |-> Skips(lines, x[2], x[1])]
           Step(f, n) == n > 0 /\ \/ lines[n] = "owned"
                                  \/ f[n - 1] /\ (lines[n] = "blank" \/ Indented(lines[n]))
           Is(f) == f = [n \in 0 .. L |-> Step(f, n)]
           chosen == CHOOSE f : Is(f)
<1>1. L \in Nat /\ FALSE \in BOOLEAN
  OBVIOUS
<1> HIDE DEF L
<1>2. g \in [BOOLEAN \X (1 .. L) -> BOOLEAN]
  BY DEF Skips
<1>3. \A b \in BOOLEAN, n \in 1 .. L : g[<<b, n>>] = Skips(lines, n, b)
  OBVIOUS
<1> HIDE DEF g
<1>4. PICK f \in [0 .. L -> BOOLEAN] : Iterates(f, FALSE, g, L)
  <2> HIDE DEF Is, chosen
  <2>1. ASSUME NEW start \in BOOLEAN PROVE \E f \in [0 .. L -> BOOLEAN] : Iterates(f, start, g, L)
    <3> DEFINE B == BOOLEAN
    <3>1. g \in [B \X (1 .. L) -> B] /\ start \in B
      BY <1>2
    <3> HIDE DEF B
    <3>2. \E f \in [0 .. L -> B] : Iterates(f, start, g, L)
      BY <1>1, <3>1, Iterated, Zenon
    <3> QED
      BY <3>2 DEF B
  <2> QED
    BY <1>1, <2>1
<1>5. \A n \in 0 .. L : n # 0 => n \in 1 .. L /\ n - 1 \in 0 .. L /\ n > 0
  BY <1>1
<1>6. f[0] = FALSE /\ \A n \in 1 .. L : f[n] = Skips(lines, n, f[n - 1])
  <2>1. f[0] = FALSE /\ \A i \in 1 .. L : f[i] = g[<<f[i - 1], i>>]
    BY <1>4 DEF Iterates
  <2>2. \A n \in 1 .. L : f[n - 1] \in BOOLEAN
    BY <1>1, <1>4
  <2> QED
    BY <1>3, <2>1, <2>2, Zenon
<1>7. \A n \in 0 .. L : f[n] = Step(f, n)
  <2> TAKE n \in 0 .. L
  <2>1. CASE n = 0
    <3>1. ~(0 > 0)
      OBVIOUS
    <3>2. Step(f, 0) = FALSE
      BY <3>1
    <3> HIDE DEF Step
    <3> QED
      BY <1>6, <2>1, <3>2
  <2>2. CASE n # 0
    <3>1. n \in 1 .. L /\ n > 0
      BY <1>5, <2>2
    <3>2. f[n] = Skips(lines, n, f[n - 1])
      BY <1>6, <3>1
    <3>3. Step(f, n) = Skips(lines, n, f[n - 1])
      BY <3>1 DEF Skips
    <3> HIDE DEF Step
    <3> QED
      BY <3>2, <3>3
  <2> QED
    BY <2>1, <2>2
<1>8. Is(f)
  <2>1. f = [n \in 0 .. L |-> f[n]]
    BY <1>4
  <2> HIDE DEF Step
  <2> QED
    BY <1>7, <2>1
<1>9. Is(chosen)
  <2> HIDE DEF Is
  <2> QED
    BY <1>8
<1>10. StripTopLevelKeys(lines) = At(lines, {n \in DOMAIN lines : ~chosen[n]})
  BY Zenon DEF StripTopLevelKeys, L
<1>11. (\A n \in 0 .. L : chosen[n] = Step(chosen, n)) /\ chosen = [n \in 0 .. L |-> chosen[n]]
  <2> HIDE DEF chosen, Step
  <2> QED
    BY <1>9
<1> HIDE DEF chosen
<1>12. \A n \in 0 .. L : chosen[n] \in BOOLEAN
  <2>1. \A n \in 0 .. L : Step(chosen, n) \in BOOLEAN
    OBVIOUS
  <2> HIDE DEF Step
  <2> QED
    BY <1>11, <2>1
<1>13. chosen[0] = FALSE
  <2>1. Step(chosen, 0) = FALSE
    <3>1. ~(0 > 0)
      OBVIOUS
    <3> QED
      BY <3>1
  <2>2. 0 \in 0 .. L
    BY <1>1
  <2> HIDE DEF Step
  <2> QED
    BY <1>11, <2>1, <2>2
<1>14. \A n \in 1 .. L : chosen[n] <=> Skips(lines, n, chosen[n - 1])
  <2> TAKE n \in 1 .. L
  <2>1. n > 0 /\ n \in 0 .. L
    BY <1>1
  <2>2. Step(chosen, n) <=> Skips(lines, n, chosen[n - 1])
    BY <2>1 DEF Skips
  <2> HIDE DEF Step
  <2> QED
    BY <1>11, <2>1, <2>2
<1>15. chosen \in [0 .. L -> BOOLEAN]
  BY <1>11, <1>12
<1>16. StripGoes(chosen, lines)
  BY <1>10, <1>13, <1>14, <1>15 DEF StripGoes, L
<1> QED
  BY <1>16

\* The key that a line is under, and whether the runtime owns it and something cut it off.
KeyAt(lines, i) == {j \in 1..i : TopLevelKey(lines[j]) /\ \A k \in j+1..i : ~TopLevelKey(lines[k])}
MineAt(lines, i) == \E j \in KeyAt(lines, i) : lines[j] = "owned"
CutAt(lines, i) == \E k \in 1..i : lines[k] \in {"item", "comment"} /\ KeyAt(lines, k) = KeyAt(lines, i)

\* One line more.
LEMMA LineIs ==
    ASSUME NEW lines \in Seq(LineType), NEW i \in 1 .. Len(lines)
    PROVE  /\ TopLevelKey(lines[i]) => KeyAt(lines, i) = {i} /\ ~CutAt(lines, i)
           /\ ~TopLevelKey(lines[i]) => KeyAt(lines, i) = KeyAt(lines, i - 1)
           /\ lines[i] \in {"item", "comment"} => CutAt(lines, i)
           /\ lines[i] \in {"blank", "nested", "named", "ours"} => (CutAt(lines, i) <=> CutAt(lines, i - 1))
<1>1. i \in Nat /\ i >= 1 /\ i \in 1 .. i /\ lines[i] \in LineType
  OBVIOUS
<1>2. \A j : j \in 1 .. i <=> j = i \/ j \in 1 .. i - 1
  BY <1>1
<1>3. \A j \in 1 .. i - 1 : \A k : k \in j+1 .. i <=> k = i \/ k \in j+1 .. i - 1
  BY <1>1
<1>4. \A k : k \notin i+1 .. i
  BY <1>1
<1>5. ASSUME TopLevelKey(lines[i]) PROVE KeyAt(lines, i) = {i}
  <2>1. i \in KeyAt(lines, i)
    BY <1>1, <1>4, <1>5 DEF KeyAt
  <2>2. \A j \in KeyAt(lines, i) : j = i
    <3> TAKE j \in KeyAt(lines, i)
    <3> SUFFICES ASSUME j \in 1 .. i - 1 PROVE FALSE
      BY <1>2 DEF KeyAt
    <3>1. i \in j+1 .. i
      BY <1>3
    <3> QED
      BY <1>5, <3>1 DEF KeyAt
  <2> QED
    BY <2>1, <2>2
<1>6. ASSUME ~TopLevelKey(lines[i]) PROVE KeyAt(lines, i) = KeyAt(lines, i - 1)
  <2>1. \A j : j \in KeyAt(lines, i) <=> j \in KeyAt(lines, i - 1)
    <3> TAKE j
    <3>1. CASE j \in 1 .. i - 1
      BY <1>2, <1>3, <1>6, <3>1 DEF KeyAt
    <3>2. CASE j = i
      BY <1>1, <1>6, <3>2 DEF KeyAt
    <3>3. CASE j \notin 1 .. i
      BY <1>2, <3>3 DEF KeyAt
    <3> QED
      BY <1>2, <3>1, <3>2, <3>3
  <2>2. KeyAt(lines, i) \subseteq Int /\ KeyAt(lines, i - 1) \subseteq Int
    BY DEF KeyAt
  <2> QED
    BY <2>1, <2>2
<1>7. ASSUME TopLevelKey(lines[i]) PROVE ~CutAt(lines, i)
  <2> SUFFICES ASSUME NEW k \in 1 .. i, lines[k] \in {"item", "comment"}, KeyAt(lines, k) = KeyAt(lines, i)
               PROVE  FALSE
    BY DEF CutAt
  <2>1. k # i
    BY <1>7 DEF TopLevelKey
  <2>2. i \notin 1 .. k
    BY <1>1, <2>1
  <2>3. i \notin KeyAt(lines, k)
    BY <2>2 DEF KeyAt
  <2> QED
    BY <1>5, <1>7, <2>3
<1>8. lines[i] \in {"item", "comment"} => CutAt(lines, i)
  BY <1>1 DEF CutAt
<1>9. ASSUME lines[i] \in {"blank", "nested", "named", "ours"} PROVE CutAt(lines, i) <=> CutAt(lines, i - 1)
  <2>1. KeyAt(lines, i) = KeyAt(lines, i - 1)
    BY <1>6, <1>9 DEF TopLevelKey
  <2>2. lines[i] \notin {"item", "comment"}
    BY <1>9
  <2> QED
    BY <1>2, <2>1, <2>2 DEF CutAt
<1> QED
  BY <1>5, <1>6, <1>7, <1>8, <1>9

\* What is taken out: a key of the runtime, and what is under it up to a cut.
LEMMA SkippedAre ==
    ASSUME NEW lines \in Seq(LineType), NEW skip, StripGoes(skip, lines)
    PROVE  \A i \in 1 .. Len(lines) : skip[i] <=> MineAt(lines, i) /\ ~CutAt(lines, i)
<1> DEFINE L == Len(lines)
           H == {i \in 0 .. L : skip[i] <=> MineAt(lines, i) /\ ~CutAt(lines, i)}
<1>1. L \in Nat
  OBVIOUS
<1>2. skip[0] = FALSE /\ \A n \in 1 .. L : skip[n] <=> Skips(lines, n, skip[n - 1])
  BY DEF StripGoes
<1>3. 0 \in H
  <2>1. ~MineAt(lines, 0)
    BY DEF MineAt, KeyAt
  <2> QED
    BY <1>1, <1>2, <2>1
<1>4. ASSUME NEW m \in 0 .. L - 1, m \in H PROVE m + 1 \in H
  <2> DEFINE i == m + 1
  <2>1. i \in 1 .. L /\ i - 1 = m /\ i \in 0 .. L
    BY <1>1
  <2> HIDE DEF i
  <2>2. lines[i] \in LineType
    BY <2>1
  <2>3. skip[m] <=> MineAt(lines, m) /\ ~CutAt(lines, m)
    BY <1>4
  <2>4. skip[i] <=> Skips(lines, i, skip[m])
    BY <1>2, <2>1
  <2>5. /\ TopLevelKey(lines[i]) => KeyAt(lines, i) = {i} /\ ~CutAt(lines, i)
        /\ ~TopLevelKey(lines[i]) => KeyAt(lines, i) = KeyAt(lines, m)
        /\ lines[i] \in {"item", "comment"} => CutAt(lines, i)
        /\ lines[i] \in {"blank", "nested", "named", "ours"} => (CutAt(lines, i) <=> CutAt(lines, m))
    BY <2>1, LineIs
  <2>6. CASE lines[i] = "owned"
    <3>1. skip[i]
      BY <2>4, <2>6 DEF Skips
    <3>2. MineAt(lines, i) /\ ~CutAt(lines, i)
      BY <2>5, <2>6 DEF MineAt, TopLevelKey
    <3> QED
      BY <2>1, <3>1, <3>2 DEF i
  <2>7. CASE lines[i] \in {"kept", "groups"}
    <3>1. ~skip[i]
      BY <2>4, <2>7 DEF Skips, Indented
    <3>2. ~MineAt(lines, i)
      BY <2>5, <2>7 DEF MineAt, TopLevelKey
    <3> QED
      BY <2>1, <3>1, <3>2 DEF i
  <2>8. CASE lines[i] \in {"item", "comment"}
    <3>1. ~skip[i]
      BY <2>4, <2>8 DEF Skips, Indented
    <3>2. CutAt(lines, i)
      BY <2>5, <2>8
    <3> QED
      BY <2>1, <3>1, <3>2 DEF i
  <2>9. CASE lines[i] \in {"blank", "nested", "named", "ours"}
    <3>1. skip[i] <=> skip[m]
      BY <2>4, <2>9 DEF Skips, Indented
    <3>2. MineAt(lines, i) <=> MineAt(lines, m)
      BY <2>5, <2>9 DEF MineAt, TopLevelKey
    <3>3. CutAt(lines, i) <=> CutAt(lines, m)
      BY <2>5, <2>9
    <3> QED
      BY <2>1, <2>3, <3>1, <3>2, <3>3 DEF i
  <2> QED
    BY <2>2, <2>6, <2>7, <2>8, <2>9 DEF LineType
<1> HIDE DEF H
<1>5. 0 .. L \subseteq H
  BY <1>1, <1>3, <1>4, UpTo
<1> QED
  BY <1>1, <1>5 DEF H

\* Every line that is not the runtime's is kept, and a configuration keeps some.
LEMMA StripIs ==
    ASSUME NEW lines \in Seq(LineType)
    PROVE  /\ StripTopLevelKeys(lines) = At(lines, {i \in DOMAIN lines : ~MineAt(lines, i) \/ CutAt(lines, i)})
           /\ IsConfiguration(lines) => StripTopLevelKeys(lines) # <<>>
<1> DEFINE skipped(skip) == {i \in DOMAIN lines : ~skip[i]}
           ours == {i \in DOMAIN lines : ~MineAt(lines, i) \/ CutAt(lines, i)}
<1>1. PICK skip : StripGoes(skip, lines)
  BY StripSteps
<1>2. StripTopLevelKeys(lines) = At(lines, skipped(skip)) /\ DOMAIN lines = 1 .. Len(lines)
  BY <1>1 DEF StripGoes
<1>3. skipped(skip) = ours
  BY <1>1, <1>2, SkippedAre
<1>4. ASSUME NEW i \in DOMAIN lines, lines[i] \in {"kept", "groups"} PROVE StripTopLevelKeys(lines) # <<>>
  <2>1. KeyAt(lines, i) = {i}
    BY <1>2, <1>4, LineIs DEF TopLevelKey
  <2>2. i \in ours
    BY <1>4, <2>1 DEF MineAt
  <2> HIDE DEF ours, skipped
  <2>3. ToSet(At(lines, ours)) = {lines[j] : j \in ours \cap DOMAIN lines}
    BY AtSet
  <2>4. ToSet(At(lines, ours)) # {} /\ At(lines, ours) \in Seq(LineType)
    BY <2>2, <2>3, AtIs
  <2>5. At(lines, ours) # <<>>
    BY <2>4, EmptyIs
  <2> QED
    BY <1>2, <1>3, <2>5
<1>5. IsConfiguration(lines) => StripTopLevelKeys(lines) # <<>>
  BY <1>4 DEF IsConfiguration
<1> QED
  BY <1>2, <1>3, <1>5

LEMMA MinIs ==
    ASSUME NEW n \in Nat, NEW I, I \subseteq 1 .. n, I # {}
    PROVE  Min(I) \in I /\ \A j \in I : Min(I) <= j
<1>1. PICK i \in I : \A j \in 1 .. i - 1 : j \notin I
  BY Least
<1>2. \A j \in I : i <= j
  <2> TAKE j \in I
  <2>1. i \in Nat /\ j \in Nat /\ j >= 1
    OBVIOUS
  <2>2. j \notin 1 .. i - 1
    BY <1>1
  <2> QED
    BY <2>1, <2>2
<1>3. \E x \in I : \A y \in I : x <= y
  BY <1>2
<1> QED
  BY <1>3 DEF Min

\* The lines of a list's groups, up to what ends them.
GroupsBlock(lines, i) ==
    {lines[k] : k \in {k \in i+1..Len(lines) : \A j \in i+1..k : ~TopLevelKey(lines[j])}}

\* The group that names are resolved through, of a configuration that names one.
LEMMA DetectIs ==
    ASSUME NEW lines \in Seq(LineType), IsConfiguration(lines), NEW i \in DOMAIN lines, lines[i] = "groups",
           "comment" \notin GroupsBlock(lines, i)
    PROVE  DetectProxyGroup(lines) = GroupOf(GroupsBlock(lines, i))
<1> DEFINE L == Len(lines)
           Starts == {n \in 1 .. L : lines[n] = "groups"}
           start == IF Starts # {} THEN Min(Starts) ELSE 0
           after == IF start = 0 THEN <<>> ELSE SubSeq(lines, start + 1, L)
           Stops == {n \in 1 .. Len(after) : after[n] \in {"owned", "kept", "comment"}}
           stop == IF Stops # {} THEN Min(Stops) ELSE 0
           block == ToSet(IF stop = 0 THEN after ELSE SubSeq(after, 1, stop - 1))
           M == L - i
<1>1. DetectProxyGroup(lines) = GroupOf(block)
  BY Zenon DEF DetectProxyGroup, SelectInSeq
<1>2. L \in Nat /\ i \in 1 .. L /\ DOMAIN lines = 1 .. L
  OBVIOUS
<1>3. \A n \in 1 .. L : lines[n] = "groups" => n = i
  BY <1>2 DEF IsConfiguration
<1>4. Starts = {i}
  BY <1>2, <1>3
<1>5. start = i
  <2>1. Min(Starts) \in Starts
    BY <1>2, <1>4, MinIs
  <2> QED
    BY <1>4, <2>1
<1> HIDE DEF Starts, start
<1>6. /\ M \in Nat /\ after \in Seq(LineType) /\ Len(after) = M /\ DOMAIN after = 1 .. M
      /\ \A n \in 1 .. M : after[n] = lines[i + n] /\ i + n \in i+1 .. L
  BY <1>2, <1>5
<1>7. \A k \in i+1 .. L : k - i \in 1 .. M /\ i + (k - i) = k /\ lines[k] # "groups" /\ lines[k] \in LineType
  BY <1>2, <1>3
<1> HIDE DEF after, L, M
<1>8. Stops \subseteq 1 .. M /\ \A n \in Stops : after[n] \in {"owned", "kept", "comment"}
  BY <1>6
<1>9. \A n \in 1 .. M : n \notin Stops => after[n] \notin {"owned", "kept", "comment"}
  BY <1>6
<1> HIDE DEF Stops
<1>10. stop \in 0 .. M /\ (stop # 0 => stop \in Stops) /\ \A n \in 1 .. M : (stop = 0 \/ n < stop) => n \notin Stops
  <2>1. CASE Stops = {}
    <3>1. stop = 0
      BY <2>1
    <3> HIDE DEF stop
    <3> QED
      BY <1>6, <2>1, <3>1
  <2>2. CASE Stops # {}
    <3>1. Min(Stops) \in Stops /\ \A n \in Stops : Min(Stops) <= n
      BY <1>6, <1>8, <2>2, MinIs
    <3>2. stop = Min(Stops)
      BY <2>2
    <3> HIDE DEF stop
    <3>3. stop \in Stops /\ stop \in 1 .. M /\ \A n \in Stops : stop <= n
      BY <1>8, <3>1, <3>2
    <3>4. \A n \in 1 .. M : n < stop => n \notin Stops
      <4> TAKE n \in 1 .. M
      <4>1. n < stop => ~(stop <= n)
        BY <1>6, <3>3
      <4> QED
        BY <3>3, <4>1
    <3>5. stop # 0 /\ stop \in 0 .. M
      BY <1>6, <3>3
    <3> QED
      BY <3>3, <3>4, <3>5
  <2> QED
    BY <2>1, <2>2
<1> HIDE DEF stop
<1> DEFINE end == IF stop = 0 THEN M ELSE stop - 1
<1>11. end \in 0 .. M /\ block = {after[n] : n \in 1 .. end}
  <2>1. CASE stop = 0
    <3>1. block = ToSet(after) /\ end = M
      BY <2>1
    <3>2. ToSet(after) = {after[n] : n \in 1 .. M}
      BY <1>6 DEF ToSet
    <3> HIDE DEF block, end
    <3> QED
      BY <1>6, <3>1, <3>2
  <2>2. CASE stop # 0
    <3> DEFINE cut == SubSeq(after, 1, stop - 1)
    <3>1. /\ Len(cut) = stop - 1 /\ DOMAIN cut = 1 .. stop - 1 /\ stop - 1 \in 0 .. M
          /\ \A n \in 1 .. stop - 1 : cut[n] = after[n]
      BY <1>6, <1>10, <2>2
    <3>2. block = ToSet(cut) /\ end = stop - 1
      BY <2>2
    <3> HIDE DEF cut, block, end
    <3>3. ToSet(cut) = {after[n] : n \in 1 .. stop - 1}
      BY <3>1 DEF ToSet
    <3> QED
      BY <3>1, <3>2, <3>3
  <2> QED
    BY <2>1, <2>2
<1> HIDE DEF block
<1>12. \A n \in 1 .. M : n <= end => ~TopLevelKey(lines[i + n])
  <2> TAKE n \in 1 .. M
  <2> SUFFICES ASSUME n <= end PROVE ~TopLevelKey(lines[i + n])
    OBVIOUS
  <2>1. stop = 0 \/ n < stop
    BY <1>6, <1>10
  <2>2. after[n] \notin {"owned", "kept", "comment"} /\ after[n] = lines[i + n] /\ lines[i + n] # "groups"
    BY <1>6, <1>7, <1>9, <1>10, <2>1
  <2> QED
    BY <2>2 DEF TopLevelKey
<1>13. block \subseteq GroupsBlock(lines, i)
  <2> SUFFICES ASSUME NEW n \in 1 .. end PROVE after[n] \in GroupsBlock(lines, i)
    BY <1>11
  <2>1. n \in 1 .. M /\ after[n] = lines[i + n] /\ i + n \in i+1 .. L
    BY <1>6, <1>11
  <2>2. \A j \in i+1 .. i + n : ~TopLevelKey(lines[j])
    <3> TAKE j \in i+1 .. i + n
    <3>1. j - i \in 1 .. M /\ j - i <= end /\ i + (j - i) = j
      BY <1>2, <1>6, <1>11, <2>1
    <3> QED
      BY <1>12, <3>1
  <2> QED
    BY <2>1, <2>2 DEF GroupsBlock, L
<1>14. GroupsBlock(lines, i) \subseteq block
  <2> SUFFICES ASSUME NEW k \in i+1 .. L, \A j \in i+1 .. k : ~TopLevelKey(lines[j]) PROVE lines[k] \in block
    BY DEF GroupsBlock, L
  <2>1. k - i \in 1 .. M /\ i + (k - i) = k /\ lines[k] = after[k - i]
    BY <1>6, <1>7
  <2>2. \A n \in 1 .. M : n <= k - i => after[n] \notin {"owned", "kept", "comment"}
    <3> TAKE n \in 1 .. M
    <3> SUFFICES ASSUME n <= k - i PROVE after[n] \notin {"owned", "kept", "comment"}
      OBVIOUS
    <3>1. i + n \in i+1 .. k /\ i + n \in i+1 .. L /\ after[n] = lines[i + n]
      BY <1>2, <1>6, <2>1
    <3>2. \A j \in i+1 .. i + n : ~TopLevelKey(lines[j])
      <4> TAKE j \in i+1 .. i + n
      <4>1. j \in i+1 .. k
        BY <1>2, <3>1
      <4> QED
        BY <4>1
    <3>3. lines[i + n] \in GroupsBlock(lines, i)
      BY <3>1, <3>2 DEF GroupsBlock, L
    <3>4. lines[i + n] # "comment"
      BY <3>3
    <3>5. ~TopLevelKey(lines[i + n])
      BY <3>1
    <3> QED
      BY <3>1, <3>4, <3>5 DEF TopLevelKey
  <2>3. k - i <= end
    <3>1. CASE stop = 0
      BY <2>1, <3>1
    <3>2. CASE stop # 0
      <4>1. stop \in 1 .. M /\ after[stop] \in {"owned", "kept", "comment"}
        BY <1>8, <1>10, <3>2
      <4>2. ~(stop <= k - i)
        BY <2>2, <4>1
      <4> QED
        BY <1>2, <1>6, <2>1, <3>2, <4>1, <4>2
    <3> QED
      BY <3>1, <3>2
  <2>4. k - i \in 1 .. end
    BY <1>6, <1>11, <2>1, <2>3
  <2> QED
    BY <1>11, <2>1, <2>4
<1>15. block = GroupsBlock(lines, i)
  BY <1>13, <1>14
<1> QED
  BY <1>1, <1>15

\* The configuration that was passed through.
LEMMA PassedIs ==
    ASSUME Passed
    PROVE  /\ IsConfiguration(world.lines)
           /\ engine.lines = StripTopLevelKeys(world.lines) /\ engine.dnsThrough = DetectProxyGroup(world.lines)
<1> DEFINE S == StripTopLevelKeys(world.lines)
           D == DetectProxyGroup(world.lines)
           B == SplitActive(world.split)
<1>1. IsConfiguration(world.lines) /\ engine = [NoDocument EXCEPT !.lines = S, !.dnsThrough = D, !.byProgram = B]
  BY Zenon DEF Passed
<1> HIDE DEF S, D, B
<1>2. engine.lines = S /\ engine.dnsThrough = D
  BY <1>1 DEF NoDocument
<1> QED
  BY <1>1, <1>2 DEF S, D

LEMMA PassedSettings ==
    ASSUME Passed, world.lines \in Seq(LineType)
    PROVE  ~Built /\ RuntimeKeysAreOurs /\ NamesResolvedThroughAGroup
<1> DEFINE lines == world.lines
<1>1. /\ IsConfiguration(lines) /\ engine.lines = StripTopLevelKeys(lines) /\ engine.dnsThrough = DetectProxyGroup(lines)
  BY PassedIs
<1>2. /\ StripTopLevelKeys(lines) = At(lines, {i \in DOMAIN lines : ~MineAt(lines, i) \/ CutAt(lines, i)})
      /\ StripTopLevelKeys(lines) # <<>>
  BY <1>1, StripIs
<1>3. ~Built
  BY <1>1, <1>2 DEF Built
<1>4. RuntimeKeysAreOurs
  <2> HIDE DEF lines
  <2>1. engine.lines = At(lines, {i \in DOMAIN lines : ~MineAt(lines, i) \/ CutAt(lines, i)})
    BY <1>1, <1>2
  <2> QED
    BY <2>1, Zenon DEF RuntimeKeysAreOurs, MineAt, CutAt, KeyAt, lines
<1>5. NamesResolvedThroughAGroup
  <2> SUFFICES ASSUME NEW i \in DOMAIN lines, lines[i] = "groups",
                      "comment" \notin GroupsBlock(lines, i), GroupsBlock(lines, i) \cap {"named", "ours"} # {}
               PROVE  engine.dnsThrough = IF "ours" \in GroupsBlock(lines, i) THEN SelectGroup ELSE "a group of its own"
    BY <1>3, Zenon DEF NamesResolvedThroughAGroup, GroupsBlock
  <2>1. engine.dnsThrough = GroupOf(GroupsBlock(lines, i))
    BY <1>1, DetectIs
  <2>2. "ours" \in GroupsBlock(lines, i) \/ "named" \in GroupsBlock(lines, i)
    OBVIOUS
  <2> QED
    BY <2>1, <2>2 DEF GroupOf
<1> QED
  BY <1>3, <1>4, <1>5

LEMMA RenderedSettings ==
    ASSUME Rendered
    PROVE  engine.lines = <<>> /\ engine # NoDocument /\ RuntimeKeysAreOurs /\ NamesResolvedThroughAGroup
<1>1. engine.lines = <<>> /\ engine.dnsThrough = SelectGroup
  BY RenderedIs
<1>2. engine # NoDocument
  <2>1. engine.group # <<>>
    BY RenderedIs
  <2>2. NoDocument.group = <<>>
    BY DEF NoDocument
  <2> QED
    BY <2>1, <2>2
<1> QED
  BY <1>1, <1>2 DEF RuntimeKeysAreOurs, NamesResolvedThroughAGroup, Built

-----------------------------------------------------------------------------
(* The theorems.                                                              *)

\* The invariant is inductive, over any names that numbering and qualifying do not leave and
\* any addresses that the worlds keep to (EngineConfig, all of PrepareConfig).
LEMMA HeldInductive ==
    ASSUME NEW N, Speaks(N), NEW A, Keeps(N, A)
    PROVE  (Init => Held(N, A)) /\ (Held(N, A) /\ [Next]_vars => Held(N, A)')
<1>1. Init => Held(N, A)
  BY HeldInit
<1>2. Held(N, A) /\ [Next]_vars => Held(N, A)'
  BY HeldReadSource, HeldCombine, HeldTake, HeldPass, HeldShape, HeldRender, HeldStays DEF Next
<1> QED
  BY <1>1, <1>2

\* And so it is held to.
THEOREM EngineConfigHeld ==
    ASSUME NEW N, Speaks(N), NEW A, Keeps(N, A)
    PROVE  Spec => []Held(N, A)
<1>1. (Init => Held(N, A)) /\ (Held(N, A) /\ [Next]_vars => Held(N, A)')
  BY HeldInductive
<1> QED
  BY <1>1, PTL DEF Spec

\* Any names and addresses do.
LEMMA AnyKeep == Speaks(Names) /\ Keeps(Names, Texts)
<1>1. Speaks(Names)
  <2>1. {} \in SUBSET {ChainExitName} /\ Names \ {} = Names
    OBVIOUS
  <2>2. ASSUME NEW barred \in SUBSET {ChainExitName}, barred = {} PROVE Speaks(Names)
    <3>1. LET N == Names \ barred IN
          Numbers(N) /\ Fronts(N) /\ <<>> \in N /\ <<"Connection">> \in N /\ N \subseteq Names
      BY NamesAre
    <3>2. Names \ barred = Names
      BY <2>2
    <3> QED
      BY <3>1, <3>2 DEF Speaks
  <2> QED
    BY <2>1, <2>2
<1>2. Keeps(Names, Texts)
  <2>1. \A x \in Texts : <<x>> \in Names
    BY DEF Names
  <2> SUFFICES ASSUME NEW kind \in Worlds, NEW w \in kind, NEW i \in DOMAIN w.sources
               PROVE  /\ <<w.sources[i].name>> \in Names
                      /\ \A s \in ToSet(w.sources[i].servers) : s.label \in Names /\ <<s.host>> \in Names /\ s.host \in Texts
    BY DEF Keeps
  <2>2. w.sources \in Seq(SourceType)
    BY WorldsAssumption DEF WorldType
  <2>3. w.sources[i] \in SourceType
    BY <2>2
  <2>4. w.sources[i].name \in Texts /\ w.sources[i].servers \in Seq(ServerType)
    BY <2>3 DEF SourceType
  <2>5. \A s \in ToSet(w.sources[i].servers) : s \in ServerType
    BY <2>4, ElementsOf
  <2> QED
    BY <2>1, <2>4, <2>5 DEF ServerType
<1> QED
  BY <1>1, <1>2

\* What is read, merged and shaped is typed, and the engine has a document when, and only
\* when, the configuration is done (PrepareConfig).
THEOREM EngineConfigTyped == Spec => []TypeOK
<1>1. (Init => Held(Names, Texts)) /\ (Held(Names, Texts) /\ [Next]_vars => Held(Names, Texts)')
  BY AnyKeep, HeldInductive
<1>2. Held(Names, Texts) => TypeOK
  <2> SUFFICES ASSUME Held(Names, Texts) PROVE TypeOK
    OBVIOUS
  <2>1. /\ \E kind \in Worlds : world \in kind
        /\ Len(lists) <= Len(world.sources) /\ lists \in Seq(Seq(Homes(Names, Texts)))
        /\ stage \in {"reading", "read", "shaped", "done", "failed"} /\ nodes \in Seq(NodeType)
    BY DEF Held, ListsHeld, NodesHeld, NodeType
  <2>2. lists \in Seq(Seq(NodeType))
    <3>1. \A list \in ToSet(lists) : list \in Seq(Homes(Names, Texts))
      <4> DEFINE S == Seq(Homes(Names, Texts))
      <4> HIDE DEF S
      <4>1. lists \in Seq(S)
        BY <2>1 DEF S
      <4>2. \A list \in ToSet(lists) : list \in S
        BY <4>1, ElementsOf
      <4> QED
        BY <4>2 DEF S
    <3>2. \A list \in ToSet(lists) : list \in Seq(NodeType)
      BY <3>1, HomesAre DEF NodeType
    <3> DEFINE S == Seq(Homes(Names, Texts))
               R == Seq(NodeType)
    <3> HIDE DEF S, R
    <3>3. lists \in Seq(S) /\ \A list \in ToSet(lists) : list \in R
      BY <2>1, <3>2 DEF S, R
    <3>4. lists \in Seq(R)
      BY <3>3, InSeq
    <3> QED
      BY <3>4 DEF R
  <2>3. (stage = "done") = (engine # NoDocument)
    <3>1. CASE stage # "done"
      BY <3>1 DEF Held, EngineHeld
    <3>2. CASE stage = "done" /\ Rendered
      BY <3>2, RenderedSettings
    <3>3. CASE stage = "done" /\ Passed
      <4>1. world.lines \in Seq(LineType)
        BY <2>1, AnyKeep, WorldIs
      <4>2. engine.lines # <<>>
        BY <3>3, <4>1, PassedIs, StripIs
      <4>3. NoDocument.lines = <<>>
        BY DEF NoDocument
      <4> QED
        BY <3>3, <4>2, <4>3
    <3> QED
      BY <3>1, <3>2, <3>3 DEF Held, EngineHeld
  <2> QED
    BY <2>1, <2>2, <2>3 DEF TypeOK
<1> QED
  BY <1>1, <1>2, PTL DEF Spec

\* The runtime's own settings hold in every document: of one that is passed through every
\* line that is not the runtime's stays, and of what the runtime owns nothing is left, up to
\* a cut; and names are resolved through a group that it has (config.go, overrideKeys).
THEOREM EngineConfigSettingsHold == Spec => []RuntimeSettingsHold
<1>1. (Init => Held(Names, Texts)) /\ (Held(Names, Texts) /\ [Next]_vars => Held(Names, Texts)')
  BY AnyKeep, HeldInductive
<1>2. Held(Names, Texts) => RuntimeSettingsHold
  <2> SUFFICES ASSUME Held(Names, Texts) PROVE RuntimeSettingsHold
    OBVIOUS
  <2>1. world.lines \in Seq(LineType)
    BY AnyKeep, WorldIs DEF Held, ListsHeld
  <2>2. CASE stage # "done"
    BY <2>2 DEF RuntimeSettingsHold, RuntimeKeysAreOurs, NamesResolvedThroughAGroup
  <2>3. CASE Rendered
    BY <2>3, RenderedSettings DEF RuntimeSettingsHold
  <2>4. CASE Passed
    BY <2>1, <2>4, PassedSettings DEF RuntimeSettingsHold
  <2> QED
    BY <2>2, <2>3, <2>4 DEF Held, EngineHeld
<1> QED
  BY <1>1, <1>2, PTL DEF Spec

\* What every list holds of its source.
LEMMA ListsServe ==
    ASSUME NEW N, NEW A, Held(N, A), NEW i \in DOMAIN lists
    PROVE  /\ \A node \in ServersOf(lists[i]) : \E server \in ReadFrom(i, node) :
                  EncryptionIsKept(server.link, node) /\ VerificationIsKept(server.link, node)
           /\ world.sources[i].form = "pasted" =>
                  /\ \A node \in ServersOf(lists[i]) : \E server \in ReadFrom(i, node) : PastedIsSubscribed(server.link, node)
                  /\ \A server \in StoredServers(i) :
                         server.link.scheme = "wireguard-ini" \/ server.link.cred = "secret" \/ Reached(i, server)
<1> DEFINE servers == world.sources[i].servers
<1>1. SourceRead(lists[i], world.sources[i], N)
  BY DEF Held, ListsHeld
<1>2. \A list : ServersOf(list) = ToSet(list)
  BY Zenon DEF ServersOf, ToSet
<1>3. \A node, server : server \in ToSet(servers) /\ Serves(node, server) => server \in ReadFrom(i, node)
  BY <1>2 DEF Serves, Faithful, ReadFrom
<1>4. \A node \in ToSet(lists[i]) : \E server \in ToSet(servers) : Serves(node, server)
  BY <1>1 DEF SourceRead, AllServe
<1>5. \A node, server : Serves(node, server) => EncryptionIsKept(server.link, node) /\ VerificationIsKept(server.link, node)
  BY DEF Serves, Faithful
<1>6. world.sources[i].form = "pasted" => PastedRead(lists[i], servers, N)
  BY <1>1 DEF SourceRead
<1> HIDE DEF servers
<1>7. \A node \in ServersOf(lists[i]) : \E server \in ReadFrom(i, node) :
          EncryptionIsKept(server.link, node) /\ VerificationIsKept(server.link, node)
  BY <1>2, <1>3, <1>4, <1>5
<1>8. PastedRead(lists[i], servers, N) =>
          /\ \A node \in ServersOf(lists[i]) : \E server \in ReadFrom(i, node) : PastedIsSubscribed(server.link, node)
          /\ \A server \in StoredServers(i) :
                 server.link.scheme = "wireguard-ini" \/ server.link.cred = "secret" \/ Reached(i, server)
  BY <1>2, <1>3 DEF PastedRead, StoredServers, Reached, servers
<1> QED
  BY <1>6, <1>7, <1>8

\* A worlds' servers are all at addresses of their own.
NoneAtTheFront ==
    \A kind \in Worlds : \A w \in kind : \A i \in DOMAIN w.sources :
        \A s \in ToSet(w.sources[i].servers) : s.host # FrontAddress

\* What protects a connection survives every form that a server takes: TLS and REALITY
\* where they were asked for, no verification left out that was not, and the pins and keys
\* (links.go, v2ray_export.go, singbox.go, xrayjson.go).  A server behind a front is asked for
\* by its name, but in the handshake of a trojan server without a tls key and in the request
\* of grpc and of a transport without options (fronting.go).
THEOREM EngineConfigProtects ==
    ASSUME NoneAtTheFront
    PROVE  Spec => []ProtectionIsKept
<1> DEFINE A == Texts \ {FrontAddress}
<1>1. Speaks(Names) /\ Keeps(Names, A)
  BY AnyKeep DEF Keeps, NoneAtTheFront
<1>2. FrontAddress \notin A
  OBVIOUS
<1> HIDE DEF A
<1>3. (Init => Held(Names, A)) /\ (Held(Names, A) /\ [Next]_vars => Held(Names, A)')
  BY <1>1, HeldInductive
<1>4. Held(Names, A) => ProtectionIsKept
  <2> SUFFICES ASSUME Held(Names, A) PROVE ProtectionIsKept
    OBVIOUS
  <2>1. \A i \in DOMAIN lists : \A node \in ServersOf(lists[i]) : \E server \in ReadFrom(i, node) :
            EncryptionIsKept(server.link, node) /\ VerificationIsKept(server.link, node)
    BY ListsServe
  <2>2. stage \in {"shaped", "done"} => \A node \in ToSet(nodes) : Travels(node)
    BY <1>2 DEF Held, NodesHeld
  <2>3. NameStillTravels
    BY <2>2 DEF NameStillTravels, Travels, ServersOf, ToSet
  <2> QED
    BY <2>1, <2>3 DEF ProtectionIsKept
<1> QED
  BY <1>3, <1>4, PTL DEF Spec

\* A server is one server, whether it came in a subscription or was pasted, and wherever it
\* is kept: what was stored and written out again connects as the same link of a
\* subscription does, shared and pasted it is the same, and it reaches the engine
\* (v2ray_import.go, v2ray_export.go, links.go).  Not so, and left out, for what is in Lost,
\* the credentials that are not in CredentialsKept, a user and a password of trojan or
\* hysteria2 among them, and WireGuard.
THEOREM EngineConfigOneServer == Spec => []OneServerEveryWay
<1>1. (Init => Held(Names, Texts)) /\ (Held(Names, Texts) /\ [Next]_vars => Held(Names, Texts)')
  BY AnyKeep, HeldInductive
<1>2. Held(Names, Texts) => OneServerEveryWay
  <2> SUFFICES ASSUME Held(Names, Texts) PROVE OneServerEveryWay
    OBVIOUS
  <2>1. /\ \E kind \in Worlds : world \in kind
        /\ Len(lists) <= Len(world.sources) /\ lists \in Seq(Seq(Homes(Names, Texts)))
    BY DEF Held, ListsHeld
  <2>2. /\ world.sources \in Seq(SourceType)
        /\ \A i \in DOMAIN world.sources : Offers(world.sources[i], Names)
    BY <2>1, AnyKeep, WorldIs
  <2>3. \A i \in DOMAIN lists : i \in DOMAIN world.sources
    BY <2>1, <2>2
  <2>4. SharedIsTheSame
    <3> SUFFICES ASSUME NEW i \in DOMAIN lists, world.sources[i].form = "pasted",
                        NEW server \in ServersOf(Stored(world.sources[i].servers))
                 PROVE  Import(Export(Import(server.link))) = Import(server.link)
      BY DEF SharedIsTheSame
    <3> DEFINE servers == world.sources[i].servers
               places == {j \in DOMAIN servers : IsExportable(Import(servers[j].link))}
    <3>1. Offers(world.sources[i], Names)
      BY <2>2, <2>3
    <3>2. servers \in Seq(ServerType) /\ \A s \in ToSet(servers) : IsSaid(s.link, "pasted")
      BY <3>1 DEF Offers, SourceType
    <3>3. ToSet(At(servers, places)) = {servers[j] : j \in places \cap DOMAIN servers}
      <4> HIDE DEF places, servers
      <4> QED
        BY <3>2, AtSet
    <3>4. server \in ToSet(At(servers, places))
      BY Zenon DEF ServersOf, Stored, ToSet
    <3> HIDE DEF servers
    <3>5. server \in ToSet(servers) /\ IsExportable(Import(server.link))
      BY <3>3, <3>4 DEF ToSet
    <3>6. server \in ServerType /\ IsSaid(server.link, "pasted")
      BY <3>2, <3>5, ElementsOf
    <3>7. server \in Given(Names, "pasted")
      <4>1. \A x \in Texts : <<x>> \in Names
        BY DEF Names
      <4> QED
        BY <3>6, <4>1 DEF Given, ServerType
    <3>8. Comes(server.link)
      BY <3>7, GivenIs, PastedComes
    <3> QED
      BY <3>5, <3>8 DEF Comes
  <2>5. StoredReachesEngine
    BY ListsServe DEF StoredReachesEngine
  <2>6. \A i \in DOMAIN lists : world.sources[i].form = "pasted" =>
            \A node \in ServersOf(lists[i]) : \E server \in ReadFrom(i, node) : PastedIsSubscribed(server.link, node)
    BY ListsServe
  <2> QED
    BY <2>4, <2>5, <2>6 DEF OneServerEveryWay
<1> QED
  BY <1>1, <1>2, PTL DEF Spec

\* No source, server or address has the name that the program gives the second hop, and so
\* none that the user hides.
Unreserved ==
    /\ Keeps(Names \ {ChainExitName}, Texts)
    /\ \A kind \in Worlds : \A w \in kind : ChainExitName \notin w.hidden

\* Traffic goes where the user sends it, through what the user allows: every connection by
\* the first rule that fits it, the second hop through the others, each able to carry the
\* datagrams that it needs, and nothing hidden or not preferred is used (config.go, chain.go,
\* splittunnel.go, directroute.go).
THEOREM EngineConfigRoutes ==
    ASSUME Unreserved
    PROVE  Spec => []TrafficGoesAsAsked
<1> DEFINE N == Names \ {ChainExitName}
<1>1. Speaks(N) /\ Keeps(N, Texts)
  <2>1. \E barred \in SUBSET {ChainExitName} : barred = {ChainExitName}
    OBVIOUS
  <2>2. PICK barred \in SUBSET {ChainExitName} : barred = {ChainExitName}
    BY <2>1
  <2>3. LET M == Names \ barred IN
        Numbers(M) /\ Fronts(M) /\ <<>> \in M /\ <<"Connection">> \in M /\ M \subseteq Names
    BY NamesAre
  <2> QED
    BY <2>2, <2>3 DEF Speaks, Unreserved
<1>2. ChainExitName \notin N
  OBVIOUS
<1> HIDE DEF N
<1>3. (Init => Held(N, Texts)) /\ (Held(N, Texts) /\ [Next]_vars => Held(N, Texts)')
  BY <1>1, HeldInductive
<1>4. Held(N, Texts) => TrafficGoesAsAsked
  <2> SUFFICES ASSUME Held(N, Texts) PROVE TrafficGoesAsAsked
    OBVIOUS
  <2>1. \E kind \in Worlds : world \in kind
    BY DEF Held, ListsHeld
  <2>2. nodes \in Seq(NodeOf(N))
    BY DEF Held, NodesHeld
  <2>3. ChainExitName \notin world.hidden
    BY <2>1 DEF Unreserved
  <2>4. CASE ~Built
    BY <2>4 DEF TrafficGoesAsAsked, RoutesAsAsked, ChainCarries, OnlyTheAllowed
  <2>5. CASE Built
    <3>1. stage = "done" /\ engine.lines = <<>>
      BY <2>5 DEF Built
    <3>2. \A node \in ToSet(nodes) : node.name \notin world.hidden
      BY <3>1 DEF Held, NodesHeld
    <3>3. world.lines \in Seq(LineType)
      BY <1>1, <2>1, WorldIs
    <3>4. Rendered
      BY <2>5, <3>1, <3>3, PassedSettings DEF Held, EngineHeld
    <3>5. RoutesAsAsked
      BY <2>1, <3>4, RenderedRoutes
    <3>6. ChainCarries
      BY <1>2, <2>2, <3>4, RenderedChain
    <3>7. OnlyTheAllowed
      BY <2>1, <2>2, <2>3, <3>2, <3>4, RenderedAllows
    <3> QED
      BY <3>5, <3>6, <3>7 DEF TrafficGoesAsAsked
  <2> QED
    BY <2>4, <2>5
<1> QED
  BY <1>3, <1>4, PTL DEF Spec

\* No server's secret is empty.
Keyed ==
    \A kind \in Worlds : \A w \in kind : \A i \in DOMAIN w.sources :
        \A s \in ToSet(w.sources[i].servers) : s.key # ""

\* What is numbered again stands for what it stood for.
LEMMA RenamedServes ==
    ASSUME NEW N, Numbers(N), NEW A, NEW list \in Seq(Homes(N, A)), NEW id,
           \E kept \in ToSet(list) : Stands(kept, id)
    PROVE  \E kept \in ToSet(Renamed(list)) : Stands(kept, id)
<1> DEFINE new == Renamed(list)
           L == Len(list)
<1>1. L \in Nat /\ DOMAIN list = 1 .. L /\ \A i \in 1 .. L : list[i] \in Homes(N, A)
  OBVIOUS
<1>2. list \in Seq(Loose(N))
  <2>1. \A node \in Homes(N, A) : node \in Loose(N)
    BY FineIs DEF Homes
  <2>2. \A node \in ToSet(list) : node \in Loose(N)
    BY <2>1, ElementsOf
  <2> QED
    BY <2>2, InSeq
<1>3. new \in Seq(Loose(N)) /\ Len(new) = L /\ \A i \in DOMAIN list : Anew(new[i], list[i], N)
  BY <1>2, RenamedIs, Zenon
<1> HIDE DEF L, new
<1>4. PICK i \in 1 .. L : Stands(list[i], id)
  BY <1>1 DEF ToSet
<1>5. PICK name \in N : new[i] = [list[i] EXCEPT !.name = name]
  BY <1>1, <1>3 DEF Anew
<1>6. list[i] \in Homes(N, A)
  BY <1>1
<1>7. Stands(new[i], id)
  <2> DEFINE old == list[i]
             other == [old EXCEPT !.name = name]
  <2>1. old \in Homes(N, A) /\ Stands(old, id) /\ new[i] = other
    BY <1>4, <1>5, <1>6
  <2> HIDE DEF old
  <2>2. Stands(other, id)
    BY <2>1, NamedAlike
  <2> HIDE DEF other
  <2> QED
    BY <2>1, <2>2
<1>8. new[i] \in ToSet(new)
  <2>1. DOMAIN new = 1 .. L
    BY <1>3
  <2> QED
    BY <2>1 DEF ToSet
<1> QED
  BY <1>7, <1>8 DEF new

\* Of every list merged, each node has one of the merge that stands for it.
MergeHeld ==
    (world.all /\ stage = "read") =>
        \A i \in DOMAIN lists : \A server \in ToSet(lists[i]) :
            HasKey(server) /\ \E kept \in ToSet(nodes) : Stands(kept, IdentityOf(server))

LEMMA MergeHeldCombine ==
    ASSUME Keyed, NEW N, Speaks(N), NEW A, Keeps(N, A), Held(N, A), CombineEveryList
    PROVE  MergeHeld'
<1> DEFINE Tagged(i) == [name |-> world.sources[i].name, nodes |-> lists[i]]
           read == [i \in DOMAIN lists |-> Tagged(i)]
           places == {i \in DOMAIN lists : lists[i] # <<>>}
           usable == At(read, places)
           merged == MergeProxies(usable)
           S == {source \in [name : Texts, nodes : Seq(Homes(N, A))] :
                     <<source.name>> \in N /\ \A k \in DOMAIN source.nodes : HasKey(source.nodes[k])}
           L == Len(lists)
<1>1. nodes' = Renamed(merged) /\ UNCHANGED <<world, lists, engine>>
  BY Zenon DEF CombineEveryList
<1>2. /\ \E kind \in Worlds : world \in kind
      /\ lists \in Seq(Seq(Homes(N, A))) /\ L \in Nat /\ DOMAIN lists = 1 .. L
      /\ L <= Len(world.sources)
      /\ \A i \in DOMAIN lists : SourceRead(lists[i], world.sources[i], N)
  BY DEF Held, ListsHeld
<1>3. /\ world.sources \in Seq(SourceType)
      /\ \A i \in DOMAIN world.sources : <<world.sources[i].name>> \in N /\ world.sources[i].name \in Texts
  BY <1>2, WorldIs
<1>4. \A i \in 1 .. L : i \in DOMAIN world.sources /\ lists[i] \in Seq(Homes(N, A))
  BY <1>2, <1>3
<1>5. \A i \in 1 .. L : \A server \in ToSet(lists[i]) : HasKey(server)
  <2> SUFFICES ASSUME NEW i \in 1 .. L, NEW server \in ToSet(lists[i]) PROVE HasKey(server)
    OBVIOUS
  <2>1. AllServe(lists[i], world.sources[i].servers) /\ i \in DOMAIN world.sources
    BY <1>2, <1>4 DEF SourceRead
  <2>2. PICK s \in ToSet(world.sources[i].servers) : server.key = s.key
    BY <2>1 DEF AllServe, Serves
  <2>3. s.key # ""
    BY <1>2, <2>1 DEF Keyed
  <2> QED
    BY <2>2, <2>3 DEF HasKey
<1>6. \A i \in 1 .. L : Tagged(i) \in S
  <2> DEFINE R == Seq(Homes(N, A))
  <2>1. \A i \in 1 .. L : \A k \in DOMAIN lists[i] : HasKey(lists[i][k])
    BY <1>5 DEF ToSet
  <2>2. S = {source \in [name : Texts, nodes : R] : <<source.name>> \in N /\ \A k \in DOMAIN source.nodes : HasKey(source.nodes[k])}
    OBVIOUS
  <2>3. \A i \in 1 .. L : lists[i] \in R
    BY <1>4
  <2> HIDE DEF R, S
  <2> QED
    BY <1>3, <1>4, <2>1, <2>2, <2>3
<1>7. \A source \in S : Named(source, N, A) /\ \A k \in DOMAIN source.nodes : HasKey(source.nodes[k])
  BY DEF Named
<1>8. DOMAIN read = 1 .. L /\ \A i \in 1 .. L : read[i] = Tagged(i)
  BY <1>2
<1>9. \A i \in 1 .. L : Tagged(i).nodes = lists[i]
  OBVIOUS
<1> HIDE DEF S, L, Tagged
<1>10. read \in Seq(S)
  <2>1. read = [i \in 1 .. L |-> read[i]] /\ \A i \in 1 .. L : read[i] \in S
    BY <1>2, <1>6, <1>8
  <2> HIDE DEF read
  <2> QED
    BY <1>2, <2>1, Listed
<1>11. \A i \in 1 .. L : lists[i] # <<>> => i \in places
  BY <1>2
<1> HIDE DEF read, places
<1>12. usable \in Seq(S) /\ ToSet(usable) = {read[i] : i \in places \cap DOMAIN read}
  BY <1>10, AtIs, AtSet
<1> HIDE DEF usable
<1>13. \A j \in DOMAIN usable : \A k \in DOMAIN usable[j].nodes : HasKey(usable[j].nodes[k])
  <2>1. \A j \in DOMAIN usable : usable[j] \in S
    BY <1>12
  <2> QED
    BY <1>7, <2>1
<1>14. merged \in Seq(Homes(N, A))
  BY <1>7, <1>12, MergeProxiesIs DEF Speaks, Merges
<1>15. ASSUME NEW i \in DOMAIN lists, NEW server \in ToSet(lists[i])
       PROVE  HasKey(server) /\ \E kept \in ToSet(nodes') : Stands(kept, IdentityOf(server))
  <2>1. i \in 1 .. L /\ HasKey(server)
    BY <1>2, <1>5
  <2>2. PICK k \in DOMAIN lists[i] : server = lists[i][k]
    BY DEF ToSet
  <2>3. lists[i] # <<>>
    BY <2>2
  <2>4. read[i] \in ToSet(usable) /\ read[i].nodes = lists[i]
    BY <1>8, <1>9, <1>11, <1>12, <2>1, <2>3
  <2>5. PICK j \in DOMAIN usable : usable[j].nodes = lists[i]
    BY <2>4 DEF ToSet
  <2>6. k \in DOMAIN usable[j].nodes /\ usable[j].nodes[k] = server
    BY <2>2, <2>5
  <2>7. \E kept \in ToSet(merged) : Stands(kept, IdentityOf(usable[j].nodes[k]))
    BY <1>7, <1>12, <1>13, <2>6, MergeKeeps DEF Speaks, Merges
  <2> HIDE DEF merged
  <2>8. \E kept \in ToSet(Renamed(merged)) : Stands(kept, IdentityOf(server))
    BY <1>14, <2>6, <2>7, RenamedServes DEF Speaks
  <2> QED
    BY <1>1, <2>1, <2>8
<1> QED
  BY <1>1, <1>15 DEF MergeHeld

\* All offers every server of its lists: what is left out is taken for one that stays, of the
\* same type, address and secret, or a peer at the same address (merge.go, identityOf).
THEOREM EngineConfigMerges ==
    ASSUME Keyed
    PROVE  Spec => []MergeKeepsEveryServer
<1> DEFINE Inv == Held(Names, Texts) /\ MergeHeld
<1>1. (Init => Held(Names, Texts)) /\ (Held(Names, Texts) /\ [Next]_vars => Held(Names, Texts)')
  BY AnyKeep, HeldInductive
<1>2. Init => MergeHeld
  BY DEF Init, MergeHeld
<1>3. Held(Names, Texts) /\ MergeHeld /\ [Next]_vars => MergeHeld'
  <2> SUFFICES ASSUME Held(Names, Texts), MergeHeld, [Next]_vars PROVE MergeHeld'
    OBVIOUS
  <2>1. CASE ReadSource
    BY <2>1 DEF ReadSource, MergeHeld
  <2>2. CASE CombineEveryList
    BY <2>2, AnyKeep, MergeHeldCombine
  <2>3. CASE TakeTheList
    BY <2>3 DEF TakeTheList, MergeHeld
  <2>4. CASE PassThrough
    BY <2>4 DEF PassThrough, MergeHeld
  <2>5. CASE ShapeNodes
    BY <2>5 DEF ShapeNodes, MergeHeld
  <2>6. CASE Render
    BY <2>6 DEF Render, MergeHeld
  <2>7. CASE UNCHANGED vars
    BY <2>7 DEF vars, MergeHeld
  <2> QED
    BY <2>1, <2>2, <2>3, <2>4, <2>5, <2>6, <2>7 DEF Next
<1>4. MergeHeld => MergeKeepsEveryServer
  <2> SUFFICES ASSUME MergeHeld, world.all, stage = "read",
                      NEW i \in DOMAIN lists, NEW server \in ServersOf(lists[i])
               PROVE  \E kept \in ServersOf(nodes) :
                          /\ kept.type = server.type /\ kept.host = server.host
                          /\ \/ Lower(kept.key) = Lower(server.key) \/ server.type = "wireguard"
                             \/ ~HasCredential(kept) /\ ~HasCredential(server)
    BY DEF MergeKeepsEveryServer
  <2>1. \A list : ServersOf(list) = ToSet(list)
    BY Zenon DEF ServersOf, ToSet
  <2>2. HasKey(server) /\ \E kept \in ServersOf(nodes) : Stands(kept, IdentityOf(server))
    BY <2>1 DEF MergeHeld
  <2>3. PICK kept \in ServersOf(nodes) : Stands(kept, IdentityOf(server))
    BY <2>2
  <2>4. HasKey(kept) /\ IdentityOf(kept) = IdentityOf(server)
    BY <2>3 DEF Stands
  <2>5. /\ kept.type = server.type /\ kept.host = server.host
        /\ (IF HasCredential(kept) THEN Lower(kept.key) ELSE "") = (IF HasCredential(server) THEN Lower(server.key) ELSE "")
    BY <2>4 DEF IdentityOf
  <2>6. Lower(kept.key) # "" /\ Lower(server.key) # ""
    BY <2>2, <2>4 DEF HasKey, Lower
  <2> QED
    BY <2>3, <2>5, <2>6
<1> QED
  BY <1>1, <1>2, <1>3, <1>4, PTL DEF Spec

-----------------------------------------------------------------------------
(* Names are keys.                                                            *)

\* What a numbered name is, place by place.
NumberedGoes(all, name, n) ==
    /\ all \in Seq(Texts) /\ Len(all) = Len(name) + 1 + n
    /\ \A i \in 1 .. Len(name) : all[i] = name[i]
    /\ all[Len(name) + 1] = "-"
    /\ \A i \in 1 .. n : all[Len(name) + 1 + i] = "1"

LEMMA JoinedGoes ==
    ASSUME NEW S, NEW a \in Seq(S), NEW b \in Seq(S), NEW both, both = a \o b
    PROVE  /\ both \in Seq(S) /\ Len(both) = Len(a) + Len(b)
           /\ \A i \in 1 .. Len(a) : both[i] = a[i]
           /\ \A i \in 1 .. Len(b) : both[Len(a) + i] = b[i]
OBVIOUS

LEMMA NumberedAt ==
    ASSUME NEW name \in Names, NEW n \in Nat
    PROVE  NumberedGoes(Numbered(name, n), name, n)
<1> DEFINE ones == [k \in 1 .. n |-> "1"]
           dash == <<"-">>
           long == name \o dash
           all == long \o ones
<1>1. "-" \in Texts /\ "1" \in Texts
  BY TextsAssumption
<1>2. dash \in Seq(Texts) /\ dash[1] = "-" /\ Len(dash) = 1
  BY <1>1, Single
<1>3. ones \in Seq(Texts) /\ Len(ones) = n /\ \A k \in 1 .. n : ones[k] = "1"
  <2>1. ones = [k \in 1 .. n |-> ones[k]] /\ \A k \in 1 .. n : ones[k] \in Texts
    BY <1>1
  <2>2. \A k \in 1 .. n : ones[k] = "1"
    OBVIOUS
  <2> HIDE DEF ones
  <2> QED
    BY <2>1, <2>2, Listed
<1>4. Numbered(name, n) = all
  BY DEF Numbered
<1>5. name \in Seq(Texts) /\ Len(name) \in Nat
  BY DEF Names
<1>6. long = name \o dash /\ all = long \o ones
  OBVIOUS
<1> HIDE DEF ones, dash, long, all
<1>6a. dash \in Seq(Texts) /\ name \in Seq(Texts) /\ ones \in Seq(Texts)
  BY <1>2, <1>3, <1>5
<1>7. /\ long \in Seq(Texts) /\ Len(long) = Len(name) + Len(dash)
      /\ \A i \in 1 .. Len(name) : long[i] = name[i]
      /\ \A i \in 1 .. Len(dash) : long[Len(name) + i] = dash[i]
  BY <1>6a, <1>6, JoinedGoes
<1>8. /\ all \in Seq(Texts) /\ Len(all) = Len(long) + Len(ones)
      /\ \A i \in 1 .. Len(long) : all[i] = long[i]
      /\ \A i \in 1 .. Len(ones) : all[Len(long) + i] = ones[i]
  BY <1>6a, <1>6, <1>7, JoinedGoes
<1>9. Len(long) = Len(name) + 1 /\ long[Len(name) + 1] = "-"
  <2>1. 1 \in 1 .. Len(dash)
    BY <1>2
  <2>2. long[Len(name) + 1] = dash[1]
    BY <1>7, <2>1
  <2> QED
    BY <1>2, <1>7, <2>2
<1>10. /\ \A i \in 1 .. Len(name) : i \in 1 .. Len(long)
       /\ Len(name) + 1 \in 1 .. Len(long)
  BY <1>5, <1>9
<1>11. /\ \A i \in 1 .. Len(name) : all[i] = name[i]
       /\ all[Len(name) + 1] = "-"
  BY <1>7, <1>8, <1>9, <1>10
<1>12. \A i \in 1 .. n : all[Len(name) + 1 + i] = "1"
  BY <1>3, <1>8, <1>9
<1>13. Len(all) = Len(name) + 1 + n
  BY <1>3, <1>8, <1>9
<1> QED
  BY <1>4, <1>8, <1>11, <1>12, <1>13 DEF NumberedGoes

\* The dash tells where the number begins: a numbered name is one name's, with one number.
LEMMA NumberedOnce ==
    ASSUME NEW name \in Names, NEW n \in Nat, NEW other \in Names, NEW m \in Nat,
           Numbered(name, n) = Numbered(other, m)
    PROVE  name = other /\ n = m
<1> DEFINE all == Numbered(name, n)
           L == Len(name)
           K == Len(other)
<1>1. NumberedGoes(all, name, n) /\ NumberedGoes(all, other, m)
  BY NumberedAt
<1>2. L \in Nat /\ K \in Nat /\ name \in Seq(Texts) /\ other \in Seq(Texts)
  BY DEF Names
<1>3. /\ Len(all) = L + 1 + n /\ Len(all) = K + 1 + m
      /\ all[L + 1] = "-" /\ all[K + 1] = "-"
      /\ \A i \in 1 .. n : all[L + 1 + i] = "1"
      /\ \A i \in 1 .. m : all[K + 1 + i] = "1"
      /\ \A i \in 1 .. L : all[i] = name[i]
      /\ \A i \in 1 .. K : all[i] = other[i]
  BY <1>1 DEF NumberedGoes
<1> HIDE DEF all
<1>4. ~(L < K)
  <2> SUFFICES ASSUME L < K PROVE FALSE
    OBVIOUS
  <2>1. L \in Nat /\ K \in Nat /\ L + 1 + n = K + 1 + m
    BY <1>2, <1>3
  <2> HIDE DEF L, K
  <2>2. K - L \in 1 .. n /\ L + 1 + (K - L) = K + 1
    BY <2>1
  <2>3. all[K + 1] = "1"
    BY <1>3, <2>2
  <2> QED
    BY <1>3, <2>3
<1>5. ~(K < L)
  <2> SUFFICES ASSUME K < L PROVE FALSE
    OBVIOUS
  <2>1. L \in Nat /\ K \in Nat /\ L + 1 + n = K + 1 + m
    BY <1>2, <1>3
  <2> HIDE DEF L, K
  <2>2. L - K \in 1 .. m /\ K + 1 + (L - K) = L + 1
    BY <2>1
  <2>3. all[L + 1] = "1"
    BY <1>3, <2>2
  <2> QED
    BY <1>3, <2>3
<1>6. L = K /\ n = m
  <2>1. L \in Nat /\ K \in Nat /\ L + 1 + n = K + 1 + m
    BY <1>2, <1>3
  <2> HIDE DEF L, K
  <2> QED
    BY <1>4, <1>5, <2>1
<1>7. \A i \in 1 .. L : name[i] = other[i]
  BY <1>3, <1>6
<1>8. name = other
  <2>1. DOMAIN name = 1 .. L /\ DOMAIN other = 1 .. K
    BY <1>2
  <2>2. name = [i \in 1 .. L |-> name[i]] /\ other = [i \in 1 .. K |-> other[i]]
    BY <1>2
  <2> HIDE DEF L, K
  <2> QED
    BY <1>6, <1>7, <2>2
<1> QED
  BY <1>6, <1>8

\* What is wanted twice is not wanted with a number.
Unnumbered(wanted) ==
    \A i, j, k \in DOMAIN wanted : (i < j /\ wanted[i] = wanted[j]) =>
        \A n \in Nat : n # 0 => wanted[k] # Numbered(wanted[i], n)

\* What the registry knows after n.
Registry(names, wanted, n) ==
    /\ DOMAIN names.seen = {wanted[i] : i \in 1 .. n}
    /\ Len(names.given) = n
    /\ \A i \in 1 .. n :
           \/ names.given[i] = wanted[i]
           \/ \E j \in 1 .. n : /\ j < i /\ wanted[j] = wanted[i]
                                /\ \E k \in 1 .. names.seen[wanted[i]] : names.given[i] = Numbered(wanted[i], k)
    /\ \A i, j \in 1 .. n : names.given[i] = names.given[j] => i = j

LEMMA RegistryGoes ==
    ASSUME NEW N, Numbers(N), N \subseteq Names, NEW wanted \in Seq(N), Unnumbered(wanted),
           NEW n \in 0 .. Len(wanted) - 1, NEW names \in Noted(N), Registry(names, wanted, n)
    PROVE  Registry(Register(names, wanted[n + 1]), wanted, n + 1)
<1> DEFINE w == wanted[n + 1]
           after == Register(names, w)
<1>1. /\ n \in Nat /\ n + 1 \in Nat /\ DOMAIN wanted = 1 .. Len(wanted) /\ Len(wanted) \in Nat
      /\ \A i \in 1 .. n + 1 : i \in DOMAIN wanted /\ wanted[i] \in N /\ wanted[i] \in Names
      /\ \A i \in 1 .. n : i \in 1 .. n + 1 /\ i < n + 1 /\ i # n + 1
      /\ n + 1 \in 1 .. n + 1
      /\ \A i \in 1 .. n + 1 : i \in 1 .. n \/ i = n + 1
  OBVIOUS
<1>2. PICK D \in SUBSET N : names.seen \in [D -> Nat]
  BY DEF Noted
<1>3. names.given \in Seq(N) /\ Len(names.given) = n
  BY DEF Noted, Registry
<1>4. DOMAIN names.seen = D /\ D = {wanted[i] : i \in 1 .. n}
  BY <1>2 DEF Registry
<1>5. \A i \in 1 .. n :
          \/ names.given[i] = wanted[i]
          \/ \E j \in 1 .. n : /\ j < i /\ wanted[j] = wanted[i]
                               /\ \E k \in 1 .. names.seen[wanted[i]] : names.given[i] = Numbered(wanted[i], k)
  BY DEF Registry
<1>6. \A i, j \in 1 .. n : names.given[i] = names.given[j] => i = j
  BY DEF Registry
<1>7. \A i \in 1 .. n : names.seen[wanted[i]] \in Nat
  BY <1>2, <1>4
<1>8. \A new : /\ Len(Append(names.given, new)) = n + 1 /\ Append(names.given, new)[n + 1] = new
               /\ \A i \in 1 .. n : Append(names.given, new)[i] = names.given[i]
  BY <1>3
<1>9. ASSUME NEW i \in DOMAIN wanted, NEW j \in DOMAIN wanted, NEW k \in DOMAIN wanted, NEW m \in Nat, i < j,
             wanted[i] = wanted[j], m # 0
      PROVE  wanted[k] # Numbered(wanted[i], m)
  BY <1>9 DEF Unnumbered
<1>10. {wanted[i] : i \in 1 .. n + 1} = D \cup {w}
  BY <1>1, <1>4
<1>11. CASE w \notin D
  <2> DEFINE more == [x \in DOMAIN names.seen \cup {w} |-> IF x = w THEN 0 ELSE names.seen[x]]
  <2>1. after = [seen |-> more, given |-> Append(names.given, w)]
    BY <1>4, <1>11 DEF Register, Taken
  <2>2. DOMAIN more = D \cup {w} /\ \A i \in 1 .. n : more[wanted[i]] = names.seen[wanted[i]]
    BY <1>4, <1>11
  <2> HIDE DEF more, w, after
  <2>3. /\ after.seen = more /\ Len(after.given) = n + 1 /\ after.given[n + 1] = w
        /\ \A i \in 1 .. n : after.given[i] = names.given[i]
    BY <1>8, <2>1
  <2>4. \A i \in 1 .. n : names.given[i] # w
    <3> SUFFICES ASSUME NEW i \in 1 .. n, names.given[i] = w PROVE FALSE
      OBVIOUS
    <3>1. CASE names.given[i] = wanted[i]
      BY <1>4, <1>11, <3>1
    <3>2. CASE \E j \in 1 .. n : /\ j < i /\ wanted[j] = wanted[i]
                                 /\ \E k \in 1 .. names.seen[wanted[i]] : names.given[i] = Numbered(wanted[i], k)
      <4>1. PICK j \in 1 .. n, k \in 1 .. names.seen[wanted[i]] :
                j < i /\ wanted[j] = wanted[i] /\ names.given[i] = Numbered(wanted[i], k)
        BY <3>2
      <4>2. k \in Nat /\ k # 0
        BY <1>7, <4>1
      <4>3. w # Numbered(wanted[j], k)
        BY <1>1, <1>9, <4>1, <4>2 DEF w
      <4> QED
        BY <4>1, <4>3
    <3> QED
      BY <1>5, <3>1, <3>2
  <2>5. \A i, j \in 1 .. n + 1 : after.given[i] = after.given[j] => i = j
    BY <1>1, <1>6, <2>3, <2>4
  <2>6. \A i \in 1 .. n + 1 :
            \/ after.given[i] = wanted[i]
            \/ \E j \in 1 .. n + 1 : /\ j < i /\ wanted[j] = wanted[i]
                                     /\ \E k \in 1 .. after.seen[wanted[i]] : after.given[i] = Numbered(wanted[i], k)
    <3> TAKE i \in 1 .. n + 1
    <3>1. CASE i = n + 1
      BY <2>3, <3>1 DEF w
    <3>2. CASE i \in 1 .. n
      <4>1. after.given[i] = names.given[i] /\ after.seen[wanted[i]] = names.seen[wanted[i]]
        BY <2>2, <2>3, <3>2
      <4> QED
        BY <1>1, <1>5, <3>2, <4>1
    <3> QED
      BY <1>1, <3>1, <3>2
  <2> QED
    BY <1>10, <2>2, <2>3, <2>5, <2>6 DEF Registry, after, w
<1>12. CASE w \in D
  <2> DEFINE next == names.seen[w] + 1
             more == [names.seen EXCEPT ![w] = next]
             said == Numbered(w, next)
  <2>1. after = [seen |-> more, given |-> Append(names.given, said)]
    BY <1>4, <1>12 DEF Register, Taken
  <2>2. PICK twin \in 1 .. n : wanted[twin] = w
    BY <1>4, <1>12
  <2>3. names.seen[w] \in Nat /\ next \in Nat /\ next # 0
    BY <1>2, <1>12
  <2>4. /\ DOMAIN more = D /\ more[w] = next
        /\ \A i \in 1 .. n : more[wanted[i]] = IF wanted[i] = w THEN next ELSE names.seen[wanted[i]]
    BY <1>2, <1>4, <1>12
  <2>5. w \in Names
    BY <1>1
  <2> HIDE DEF more, w, after
  <2>6. /\ after.seen = more /\ Len(after.given) = n + 1 /\ after.given[n + 1] = said
        /\ \A i \in 1 .. n : after.given[i] = names.given[i]
    BY <1>8, <2>1
  <2>7. \A i \in 1 .. n : names.given[i] # said
    <3> SUFFICES ASSUME NEW i \in 1 .. n, names.given[i] = said PROVE FALSE
      OBVIOUS
    <3>1. CASE names.given[i] = wanted[i]
      <4>1. wanted[i] # Numbered(wanted[twin], next)
        BY <1>1, <1>9, <2>2, <2>3 DEF w
      <4> QED
        BY <2>2, <3>1, <4>1
    <3>2. CASE \E j \in 1 .. n : /\ j < i /\ wanted[j] = wanted[i]
                                 /\ \E k \in 1 .. names.seen[wanted[i]] : names.given[i] = Numbered(wanted[i], k)
      <4>1. PICK k \in 1 .. names.seen[wanted[i]] : names.given[i] = Numbered(wanted[i], k)
        BY <3>2
      <4>2. k \in Nat
        BY <1>7, <4>1
      <4>3. wanted[i] \in Names /\ Numbered(wanted[i], k) = Numbered(w, next)
        BY <1>1, <4>1
      <4> HIDE DEF next
      <4>4. wanted[i] = w /\ k = next
        BY <2>3, <2>5, <4>2, <4>3, NumberedOnce
      <4> QED
        BY <2>3, <4>1, <4>4 DEF next
    <3> QED
      BY <1>5, <3>1, <3>2
  <2>8. \A i, j \in 1 .. n + 1 : after.given[i] = after.given[j] => i = j
    <3> HIDE DEF said, next
    <3> QED
      BY <1>1, <1>6, <2>6, <2>7
  <2>9. \A i \in 1 .. n + 1 :
            \/ after.given[i] = wanted[i]
            \/ \E j \in 1 .. n + 1 : /\ j < i /\ wanted[j] = wanted[i]
                                     /\ \E k \in 1 .. after.seen[wanted[i]] : after.given[i] = Numbered(wanted[i], k)
    <3> TAKE i \in 1 .. n + 1
    <3>1. CASE i = n + 1
      <4>1. wanted[i] = w /\ after.given[i] = Numbered(wanted[i], next) /\ after.seen[wanted[i]] = next
        BY <2>4, <2>6, <3>1 DEF w
      <4>2. next \in 1 .. next
        BY <2>3
      <4>3. twin \in 1 .. n + 1 /\ twin < i /\ wanted[twin] = wanted[i]
        BY <1>1, <2>2, <3>1, <4>1
      <4> HIDE DEF next
      <4> QED
        BY <4>1, <4>2, <4>3
    <3>2. CASE i \in 1 .. n
      <4>1. after.given[i] = names.given[i]
        BY <2>6, <3>2
      <4>2. CASE names.given[i] = wanted[i]
        BY <4>1, <4>2
      <4>3. CASE \E j \in 1 .. n : /\ j < i /\ wanted[j] = wanted[i]
                                   /\ \E k \in 1 .. names.seen[wanted[i]] : names.given[i] = Numbered(wanted[i], k)
        <5>1. PICK j \in 1 .. n, k \in 1 .. names.seen[wanted[i]] :
                  j < i /\ wanted[j] = wanted[i] /\ names.given[i] = Numbered(wanted[i], k)
          BY <4>3
        <5>2. k \in 1 .. after.seen[wanted[i]]
          <6>1. after.seen[wanted[i]] = IF wanted[i] = w THEN next ELSE names.seen[wanted[i]]
            BY <2>4, <2>6, <3>2
          <6>2. names.seen[wanted[i]] \in Nat
            BY <1>7, <3>2
          <6> QED
            BY <6>1, <6>2
        <5> QED
          BY <1>1, <4>1, <5>1, <5>2
      <4> QED
        BY <1>5, <3>2, <4>2, <4>3
    <3> QED
      BY <1>1, <3>1, <3>2
  <2>10. D \cup {w} = D
    BY <1>12
  <2> HIDE DEF said, next
  <2> QED
    BY <1>10, <2>4, <2>6, <2>8, <2>9, <2>10 DEF Registry, after, w
<1> QED
  BY <1>11, <1>12

\* Names that are not wanted as numbers of one another are given each once.
LEMMA RegisteredApart ==
    ASSUME NEW N, Numbers(N), N \subseteq Names, NEW wanted \in Seq(N), Unnumbered(wanted)
    PROVE  LET given == Registered(wanted) IN
           /\ \A i, j \in 1 .. Len(wanted) : given[i] = given[j] => i = j
           /\ \A i \in 1 .. Len(wanted) : given[i] = wanted[i] \/ \E k \in Nat : k # 0 /\ given[i] = Numbered(wanted[i], k)
<1> DEFINE L == Len(wanted)
<1>1. PICK after : RegisteredGoes(after, N, wanted)
  BY RegisteredSteps
<1>2. /\ after \in [0 .. L -> Noted(N)] /\ after[0] = NoNames
      /\ \A n \in 1 .. L : after[n] = Register(after[n - 1], wanted[n])
      /\ Registered(wanted) = after[L].given
  BY <1>1 DEF RegisteredGoes
<1>3. L \in Nat
  OBVIOUS
<1> DEFINE H == {n \in 0 .. L : Registry(after[n], wanted, n)}
<1>4. 0 \in H
  <2>1. Registry(NoNames, wanted, 0)
    BY DEF Registry, NoNames
  <2> QED
    BY <1>2, <1>3, <2>1
<1>5. ASSUME NEW m \in 0 .. L - 1, m \in H PROVE m + 1 \in H
  <2>1. m + 1 \in 0 .. L /\ (m + 1) - 1 = m /\ m + 1 \in 1 .. L /\ m \in 0 .. L
    BY <1>3
  <2>2. after[m + 1] = Register(after[m], wanted[m + 1]) /\ after[m] \in Noted(N)
    BY <1>2, <2>1
  <2>3. Registry(after[m], wanted, m)
    BY <1>5
  <2>4. Registry(Register(after[m], wanted[m + 1]), wanted, m + 1)
    BY <2>2, <2>3, RegistryGoes
  <2> QED
    BY <2>1, <2>2, <2>4
<1>6. L \in H
  <2> HIDE DEF H, L
  <2>1. 0 .. L \subseteq H
    BY <1>3, <1>4, <1>5, UpTo
  <2> QED
    BY <1>3, <2>1
<1>7. Registry(after[L], wanted, L)
  BY <1>6
<1>8. \A i \in 1 .. L : wanted[i] \in DOMAIN after[L].seen
  BY <1>7 DEF Registry
<1>9. \A i \in 1 .. L : after[L].seen[wanted[i]] \in Nat
  <2>1. after[L] \in Noted(N)
    BY <1>2, <1>3
  <2>2. PICK D \in SUBSET N : after[L].seen \in [D -> Nat]
    BY <2>1 DEF Noted
  <2> QED
    BY <1>8, <2>2
<1>10. \A i \in 1 .. L : after[L].given[i] = wanted[i] \/ \E k \in Nat : k # 0 /\ after[L].given[i] = Numbered(wanted[i], k)
  <2> SUFFICES ASSUME NEW i \in 1 .. L, after[L].given[i] # wanted[i]
               PROVE  \E k \in Nat : k # 0 /\ after[L].given[i] = Numbered(wanted[i], k)
    OBVIOUS
  <2>1. PICK k \in 1 .. after[L].seen[wanted[i]] : after[L].given[i] = Numbered(wanted[i], k)
    BY <1>7 DEF Registry
  <2>2. k \in Nat /\ k # 0
    BY <1>9, <2>1
  <2> QED
    BY <2>1, <2>2
<1>11. \A i, j \in 1 .. L : after[L].given[i] = after[L].given[j] => i = j
  BY <1>7 DEF Registry
<1> QED
  BY <1>2, <1>10, <1>11

-----------------------------------------------------------------------------
(* Lists that names tell apart.                                               *)

\* No two of a list have one name.
Apart(list) == \A i, j \in DOMAIN list : list[i].name = list[j].name => i = j

\* Names of which none is another with a number, and what numbering makes of them.
Bare(B) == B \subseteq Names /\ \A b, c \in B : \A n \in Nat : n # 0 => b # Numbered(c, n)
Numbering(B) == B \cup {Numbered(b, n) : b \in B, n \in Nat \ {0}}

\* A list that is told apart by names, which come of B.
Listing(list) == \E S : list \in Seq(S)
Tells(list, B) == Listing(list) /\ Apart(list) /\ \A i \in DOMAIN list : list[i].name \in Numbering(B)

\* What can be given a name.
Nameable(node) == \A name : [node EXCEPT !.name = name].name = name

LEMMA NodeNamed ==
    ASSUME NEW server, NEW name, NEW proxy, NEW form
    PROVE  Nameable(Node(server, name, proxy, form)) /\ Node(server, name, proxy, form).name = name
BY DEF Node, Nameable

LEMMA HomeNamed ==
    ASSUME NEW N, NEW node \in NodeOf(N)
    PROVE  Nameable(node) /\ node.name \in N
<1> DEFINE C == Creds \cup {"spoiled", "user", "blob"}
           H == SUBSET (Options \cup {"noise", "fragments"})
<1> HIDE DEF C, H
<1>1. NodeOf(N) = [name : N, host : Texts, key : Texts, via : Names, tls : BOOLEAN, tlsKey : BOOLEAN,
     reality : BOOLEAN, options : BOOLEAN, header : BOOLEAN, udp : BOOLEAN,
                   cred : C, type : Kinds, net : Nets, has : H]
  BY Zenon DEF NodeOf, C, H
<1> QED
  BY <1>1 DEF Nameable

\* A renamed list goes by the names that are registered for it.
LEMMA RenamedNames ==
    ASSUME NEW L \in Nat, NEW list, list = [i \in 1 .. L |-> list[i]],
           \A i \in 1 .. L : Nameable(list[i]) /\ list[i].name \in Names,
           Unnumbered([i \in DOMAIN list |-> list[i].name])
    PROVE  /\ Listing(Renamed(list)) /\ Apart(Renamed(list)) /\ DOMAIN Renamed(list) = 1 .. L
           /\ \A i \in 1 .. L : \/ Renamed(list)[i].name = list[i].name
                                \/ \E k \in Nat : k # 0 /\ Renamed(list)[i].name = Numbered(list[i].name, k)
<1> DEFINE wanted == [i \in DOMAIN list |-> list[i].name]
           names == Registered(wanted)
           new == Renamed(list)
<1>1. DOMAIN list = 1 .. L
  OBVIOUS
<1>2. new = [i \in 1 .. L |-> [list[i] EXCEPT !.name = names[i]]]
  BY <1>1 DEF Renamed
<1>3. wanted = [i \in 1 .. L |-> wanted[i]] /\ \A i \in 1 .. L : wanted[i] = list[i].name /\ wanted[i] \in Names
  BY <1>1
<1>4. Unnumbered(wanted)
  OBVIOUS
<1> HIDE DEF new, names, wanted
<1>5. wanted \in Seq(Names) /\ Len(wanted) = L
  BY <1>3, Listed
<1>6. Numbers(Names)
  BY AnyKeep DEF Speaks
<1>7. /\ \A i, j \in 1 .. L : names[i] = names[j] => i = j
      /\ \A i \in 1 .. L : names[i] = wanted[i] \/ \E k \in Nat : k # 0 /\ names[i] = Numbered(wanted[i], k)
  BY <1>4, <1>5, <1>6, RegisteredApart DEF names
<1>8. \A i \in 1 .. L : new[i].name = names[i]
  BY <1>2 DEF Nameable
<1>9. DOMAIN new = 1 .. L /\ new = [i \in 1 .. L |-> new[i]]
  BY <1>2
<1>10. Listing(new)
  <2> DEFINE S == {new[i] : i \in 1 .. L}
  <2>1. \A i \in 1 .. L : new[i] \in S
    OBVIOUS
  <2> HIDE DEF S
  <2>2. new \in Seq(S)
    BY <1>9, <2>1, Listed
  <2> QED
    BY <2>2 DEF Listing
<1>11. Apart(new)
  BY <1>7, <1>8, <1>9 DEF Apart
<1> QED
  BY <1>3, <1>7, <1>8, <1>9, <1>10, <1>11 DEF new

\* A list whose names are of B is told apart once it is renamed.
LEMMA RenamedTells ==
    ASSUME NEW B, Bare(B), NEW L \in Nat, NEW list, list = [i \in 1 .. L |-> list[i]],
           \A i \in 1 .. L : Nameable(list[i]) /\ list[i].name \in B
    PROVE  Tells(Renamed(list), B)
<1> DEFINE wanted == [i \in DOMAIN list |-> list[i].name]
<1>1. \A i \in 1 .. L : list[i].name \in Names
  BY DEF Bare
<1>2. DOMAIN wanted = 1 .. L /\ \A i \in 1 .. L : wanted[i] = list[i].name
  OBVIOUS
<1>3. Unnumbered(wanted)
  <2> HIDE DEF wanted
  <2> SUFFICES ASSUME NEW i \in 1 .. L, NEW k \in 1 .. L, NEW n \in Nat, n # 0
               PROVE  wanted[k] # Numbered(wanted[i], n)
    BY <1>2 DEF Unnumbered
  <2>1. wanted[k] \in B /\ wanted[i] \in B
    BY <1>2
  <2> QED
    BY <2>1 DEF Bare
<1>4. /\ Listing(Renamed(list)) /\ Apart(Renamed(list)) /\ DOMAIN Renamed(list) = 1 .. L
      /\ \A i \in 1 .. L : \/ Renamed(list)[i].name = list[i].name
                           \/ \E k \in Nat : k # 0 /\ Renamed(list)[i].name = Numbered(list[i].name, k)
  BY <1>1, <1>3, RenamedNames
<1> HIDE DEF wanted
<1>5. \A b \in B : b \in Numbering(B) /\ \A k \in Nat : k # 0 => Numbered(b, k) \in Numbering(B)
  BY DEF Numbering
<1>6. \A i \in 1 .. L : Renamed(list)[i].name \in Numbering(B)
  BY <1>4, <1>5
<1> QED
  BY <1>4, <1>6 DEF Tells

\* One that is told apart already stays so.
LEMMA RenamedApart ==
    ASSUME NEW N, N \subseteq Names, NEW A, NEW list \in Seq(Homes(N, A)), Apart(list)
    PROVE  Apart(Renamed(list))
<1> DEFINE L == Len(list)
           wanted == [i \in DOMAIN list |-> list[i].name]
<1>1. L \in Nat /\ DOMAIN list = 1 .. L /\ list = [i \in 1 .. L |-> list[i]]
  OBVIOUS
<1>2. \A i \in 1 .. L : list[i] \in NodeOf(N)
  BY DEF Homes
<1>3. \A i \in 1 .. L : Nameable(list[i]) /\ list[i].name \in Names
  BY <1>2, HomeNamed
<1>4. Unnumbered(wanted)
  <2>1. \A i, j \in DOMAIN wanted : i < j => wanted[i] # wanted[j]
    BY <1>1 DEF Apart
  <2> HIDE DEF wanted
  <2> QED
    BY <2>1 DEF Unnumbered
<1> HIDE DEF L
<1> QED
  BY <1>1, <1>3, <1>4, RenamedNames

\* What is left of a list is told apart as the list is.
LEMMA AtApart ==
    ASSUME NEW list, Listing(list), NEW places
    PROVE  /\ Listing(At(list, places))
           /\ \A k \in DOMAIN At(list, places) : \E i \in DOMAIN list : At(list, places)[k] = list[i]
           /\ Apart(list) => Apart(At(list, places))
<1> DEFINE left == At(list, places)
<1>1. PICK S : list \in Seq(S)
  BY DEF Listing
<1>2. left \in Seq(S) /\ \E f : Picks(f, left, list, places, Len(list))
  BY <1>1, AtIs
<1>3. PICK f : Picks(f, left, list, places, Len(list))
  BY <1>2
<1> HIDE DEF left
<1>4. DOMAIN left = 1 .. Len(left) /\ Len(left) \in Nat /\ DOMAIN list = 1 .. Len(list)
  BY <1>1, <1>2
<1>5. /\ \A k \in DOMAIN left : f[k] \in DOMAIN list /\ left[k] = list[f[k]]
      /\ \A k, l \in DOMAIN left : k < l => f[k] < f[l]
  BY <1>3, <1>4 DEF Picks
<1>6. ASSUME Apart(list), NEW k \in DOMAIN left, NEW l \in DOMAIN left, left[k].name = left[l].name PROVE k = l
  <2>1. f[k] = f[l]
    BY <1>5, <1>6 DEF Apart
  <2>2. f[k] \in Nat /\ f[l] \in Nat /\ k \in Nat /\ l \in Nat
    BY <1>4, <1>5
  <2> QED
    BY <1>5, <2>1, <2>2
<1>7. Listing(left)
  BY <1>2 DEF Listing
<1> QED
  BY <1>5, <1>6, <1>7 DEF Apart, left

LEMMA AtTells ==
    ASSUME NEW B, NEW list, Tells(list, B), NEW places
    PROVE  Tells(At(list, places), B)
<1>1. Listing(list) /\ Apart(list) /\ \A i \in DOMAIN list : list[i].name \in Numbering(B)
  BY DEF Tells
<1>2. /\ Listing(At(list, places)) /\ Apart(At(list, places))
      /\ \A k \in DOMAIN At(list, places) : \E i \in DOMAIN list : At(list, places)[k] = list[i]
  BY <1>1, AtApart
<1> QED
  BY <1>1, <1>2 DEF Tells

-----------------------------------------------------------------------------
(* What each form of a source gives.                                          *)

\* What is said of the list that a reader gives: nodes made of servers, under names of B.
LEMMA ReaderTells ==
    ASSUME NEW B, Bare(B), NEW T, NEW read \in Seq(T), NEW made, made = [i \in DOMAIN read |-> made[i]],
           \A i \in DOMAIN read : Nameable(made[i]) /\ made[i].name \in B
    PROVE  Tells(Renamed(made), B)
<1> DEFINE L == Len(read)
<1>1. L \in Nat /\ DOMAIN read = 1 .. L
  OBVIOUS
<1> HIDE DEF L
<1> QED
  BY <1>1, RenamedTells

LEMMA LinksTell ==
    ASSUME NEW B, Bare(B), NEW T, NEW servers \in Seq(T), \A s \in T : LinkName(s) \in B
    PROVE  Tells(ReadLinks(servers), B)
<1> DEFINE places == {i \in DOMAIN servers : ConvertLink(servers[i].link) # NoProxy \/ FailsLate(servers[i].link)}
           named == At(servers, places)
           made == [i \in DOMAIN named |-> Node(named[i], LinkName(named[i]), ConvertLink(named[i].link), "links")]
           all == Renamed(made)
           fine == {i \in DOMAIN all : all[i].type # NoProxy.type}
<1>1. ReadLinks(servers) = At(all, fine)
  BY Zenon DEF ReadLinks
<1> HIDE DEF places
<1>2. named \in Seq(T)
  BY AtIs
<1> HIDE DEF named
<1>3. \A i \in DOMAIN named : Nameable(made[i]) /\ made[i].name \in B
  <2> TAKE i \in DOMAIN named
  <2>1. named[i] \in T
    BY <1>2
  <2>2. made[i] = Node(named[i], LinkName(named[i]), ConvertLink(named[i].link), "links")
    OBVIOUS
  <2>3. Nameable(Node(named[i], LinkName(named[i]), ConvertLink(named[i].link), "links")) /\ Node(named[i], LinkName(named[i]), ConvertLink(named[i].link), "links").name = LinkName(named[i])
    BY DEF Node, Nameable
  <2> HIDE DEF made
  <2> QED
    BY <2>1, <2>2, <2>3
<1>4. made = [i \in DOMAIN named |-> made[i]]
  OBVIOUS
<1> HIDE DEF made
<1>5. Tells(all, B)
  BY <1>2, <1>3, <1>4, ReaderTells
<1> HIDE DEF all, fine
<1> QED
  BY <1>1, <1>5, AtTells

\* A label, or the address in its place.
LEMMA LabelTells ==
    ASSUME NEW B, NEW form, NEW s \in Given(B, form)
    PROVE  s.label \in B /\ <<s.host>> \in B /\ LinkName(s) \in B
BY DEF Given, LinkName

LEMMA DocumentTells ==
    ASSUME NEW B, Bare(B), NEW servers \in Seq(Given(B, "document"))
    PROVE  Tells(ReadDocument(servers), B)
<1> DEFINE T == Given(B, "document")
           places == {i \in DOMAIN servers : servers[i].label # <<>>}
           read == At(servers, places)
           made == [i \in DOMAIN read |-> Node(read[i], read[i].label, DocumentProxy(read[i].link), "document")]
<1>1. ReadDocument(servers) = Renamed(made)
  BY Zenon DEF ReadDocument, DocumentProxy
<1>2. \A s \in T : s.label \in B
  BY LabelTells
<1> HIDE DEF places, T
<1>3. read \in Seq(T)
  BY AtIs DEF T
<1> HIDE DEF read
<1>4. \A i \in DOMAIN read : Nameable(made[i]) /\ made[i].name \in B
  <2> TAKE i \in DOMAIN read
  <2>1. read[i] \in T
    BY <1>3
  <2>2. made[i] = Node(read[i], read[i].label, DocumentProxy(read[i].link), "document")
    OBVIOUS
  <2>3. Nameable(Node(read[i], read[i].label, DocumentProxy(read[i].link), "document")) /\ Node(read[i], read[i].label, DocumentProxy(read[i].link), "document").name = read[i].label
    BY DEF Node, Nameable
  <2> HIDE DEF made
  <2> QED
    BY <1>2, <2>1, <2>2, <2>3
<1>5. made = [i \in DOMAIN read |-> made[i]]
  OBVIOUS
<1> HIDE DEF made
<1> QED
  BY <1>1, <1>3, <1>4, <1>5, ReaderTells

LEMMA SingBoxTells ==
    ASSUME NEW B, Bare(B), NEW servers \in Seq(Given(B, "singbox"))
    PROVE  Tells(ReadSingBox(servers), B)
<1> DEFINE T == Given(B, "singbox")
           places == {i \in DOMAIN servers : servers[i].label # <<>> /\ SingBoxProxy(servers[i].link) # NoProxy}
           read == At(servers, places)
           made == [i \in DOMAIN read |-> Node(read[i], read[i].label, SingBoxProxy(read[i].link), "singbox")]
<1>1. ReadSingBox(servers) = Renamed(made)
  BY Zenon DEF ReadSingBox
<1>2. \A s \in T : s.label \in B
  BY LabelTells
<1> HIDE DEF places, T
<1>3. read \in Seq(T)
  BY AtIs DEF T
<1> HIDE DEF read
<1>4. \A i \in DOMAIN read : Nameable(made[i]) /\ made[i].name \in B
  <2> TAKE i \in DOMAIN read
  <2>1. read[i] \in T
    BY <1>3
  <2>2. made[i] = Node(read[i], read[i].label, SingBoxProxy(read[i].link), "singbox")
    OBVIOUS
  <2>3. Nameable(Node(read[i], read[i].label, SingBoxProxy(read[i].link), "singbox")) /\ Node(read[i], read[i].label, SingBoxProxy(read[i].link), "singbox").name = read[i].label
    BY DEF Node, Nameable
  <2> HIDE DEF made
  <2> QED
    BY <1>2, <2>1, <2>2, <2>3
<1>5. made = [i \in DOMAIN read |-> made[i]]
  OBVIOUS
<1> HIDE DEF made
<1> QED
  BY <1>1, <1>3, <1>4, <1>5, ReaderTells

LEMMA XrayTells ==
    ASSUME NEW B, Bare(B), NEW servers \in Seq(Given(B, "xray"))
    PROVE  Tells(ReadXray(servers), B)
<1> DEFINE T == Given(B, "xray")
           places == {i \in DOMAIN servers : XrayProxy(servers[i].link) # NoProxy}
           read == At(servers, places)
           Name(s) == LabelOrAddress(s)
           made == [i \in DOMAIN read |-> Node(read[i], Name(read[i]), XrayProxy(read[i].link), "xray")]
<1>1. ReadXray(servers) = Renamed(made)
  BY Zenon DEF ReadXray
<1>2. \A s \in T : Name(s) \in B
  BY LabelTells DEF LabelOrAddress
<1> HIDE DEF places, T, Name
<1>3. read \in Seq(T)
  BY AtIs DEF T
<1> HIDE DEF read
<1>4. \A i \in DOMAIN read : Nameable(made[i]) /\ made[i].name \in B
  <2> TAKE i \in DOMAIN read
  <2>1. read[i] \in T
    BY <1>3
  <2>2. made[i] = Node(read[i], Name(read[i]), XrayProxy(read[i].link), "xray")
    OBVIOUS
  <2>3. Nameable(Node(read[i], Name(read[i]), XrayProxy(read[i].link), "xray")) /\ Node(read[i], Name(read[i]), XrayProxy(read[i].link), "xray").name = Name(read[i])
    BY DEF Node, Nameable
  <2> HIDE DEF made
  <2> QED
    BY <1>2, <2>1, <2>2, <2>3
<1>5. made = [i \in DOMAIN read |-> made[i]]
  OBVIOUS
<1> HIDE DEF made
<1> QED
  BY <1>1, <1>3, <1>4, <1>5, ReaderTells

LEMMA PastedTells ==
    ASSUME NEW B, Bare(B), <<"Connection">> \in B, NEW servers \in Seq(Given(B, "pasted"))
    PROVE  Tells(ReadPasted(servers), B)
<1> DEFINE T == Given(B, "pasted")
           places == {i \in DOMAIN servers : IsExportable(Import(servers[i].link))}
           stored == At(servers, places)
           written == [i \in DOMAIN stored |-> WrittenOut(stored[i])]
           V == {s \in WideServer : LinkName(s) \in B}
           L == Len(stored)
<1>1. ReadPasted(servers) = ReadLinks(written)
  BY Zenon DEF ReadPasted, Stored
<1>2. \A s \in T : IsExportable(Import(s.link)) => WrittenOut(s) \in V
  BY WrittenIs
<1>3. \A i \in places : IsExportable(Import(servers[i].link))
  OBVIOUS
<1> HIDE DEF places, T
<1>4. stored \in Seq(T) /\ ToSet(stored) = {servers[i] : i \in places \cap DOMAIN servers}
  BY AtIs, AtSet DEF T
<1> HIDE DEF stored, V
<1>5. L \in Nat /\ DOMAIN stored = 1 .. L /\ \A i \in 1 .. L : stored[i] \in T /\ stored[i] \in ToSet(stored)
  BY <1>4 DEF ToSet
<1>6. \A i \in 1 .. L : written[i] = WrittenOut(stored[i]) /\ written[i] \in V
  BY <1>2, <1>3, <1>4, <1>5
<1>7. written = [i \in 1 .. L |-> written[i]]
  BY <1>5
<1> HIDE DEF written, L
<1>8. written \in Seq(V)
  BY <1>5, <1>6, <1>7, Listed
<1>9. \A s \in V : LinkName(s) \in B
  BY DEF V
<1> QED
  BY <1>1, <1>8, <1>9, LinksTell

LEMMA WarpTells ==
    ASSUME NEW B, Bare(B), NEW servers \in Seq(Given(B, "warp"))
    PROVE  Tells(ReadWarp(servers), B)
<1> DEFINE T == Given(B, "warp")
           places == {i \in DOMAIN servers : XrayWireGuard(servers[i].link) # NoProxy}
           readable == At(servers, places)
           labels == [i \in DOMAIN readable |-> LabelOrAddress(readable[i])]
           names == Registered(labels)
           Tags == {readable[i].label : i \in DOMAIN readable} \ {<<>>}
           Bearing(tag) == {i \in 1 .. Len(readable) : readable[i].label = tag}
           NameOf(tag) == names[IF Bearing(tag) # {} THEN Max(Bearing(tag)) ELSE 0]
           named == [i \in DOMAIN readable |->
                        [Node(readable[i], names[i], XrayWireGuard(readable[i].link), "xray")
                            EXCEPT !.via = IF @ \in Tags THEN NameOf(@) ELSE @]]
           fine == {i \in DOMAIN readable : readable[i].via = <<>> \/ readable[i].via \in Tags}
           L == Len(readable)
<1>1. ReadWarp(servers) = At(named, fine)
  BY Zenon DEF ReadWarp, SelectLastInSeq
<1>2. \A s \in T : LabelOrAddress(s) \in B
  BY LabelTells DEF LabelOrAddress
<1> HIDE DEF places, T
<1>3. readable \in Seq(T)
  BY AtIs DEF T
<1> HIDE DEF readable
<1>4. L \in Nat /\ DOMAIN readable = 1 .. L /\ \A i \in 1 .. L : LabelOrAddress(readable[i]) \in B
  BY <1>2, <1>3
<1>5. labels = [i \in 1 .. L |-> labels[i]] /\ \A i \in 1 .. L : labels[i] \in B /\ labels[i] \in Names
  BY <1>4 DEF Bare
<1> HIDE DEF labels, L
<1>6. labels \in Seq(Names) /\ Len(labels) = L /\ DOMAIN labels = 1 .. L
  BY <1>4, <1>5, Listed
<1>7. Unnumbered(labels)
  <2> SUFFICES ASSUME NEW i \in 1 .. L, NEW k \in 1 .. L, NEW n \in Nat, n # 0
               PROVE  labels[k] # Numbered(labels[i], n)
    BY <1>6 DEF Unnumbered
  <2>1. labels[k] \in B /\ labels[i] \in B
    BY <1>5
  <2> QED
    BY <2>1 DEF Bare
<1>8. Numbers(Names)
  BY AnyKeep DEF Speaks
<1>9. /\ \A i, j \in 1 .. L : names[i] = names[j] => i = j
      /\ \A i \in 1 .. L : names[i] = labels[i] \/ \E k \in Nat : k # 0 /\ names[i] = Numbered(labels[i], k)
  BY <1>6, <1>7, <1>8, RegisteredApart DEF names
<1>10. \A i \in 1 .. L : named[i].name = names[i]
  BY <1>4 DEF Node
<1>11. named = [i \in 1 .. L |-> named[i]]
  BY <1>4
<1> HIDE DEF names, Tags, NameOf, named, fine
<1>12. Listing(named) /\ DOMAIN named = 1 .. L
  <2> DEFINE S == {named[i] : i \in 1 .. L}
  <2>1. \A i \in 1 .. L : named[i] \in S
    OBVIOUS
  <2> HIDE DEF S
  <2>2. named \in Seq(S) /\ DOMAIN named = 1 .. L
    BY <1>4, <1>11, <2>1, Listed
  <2> QED
    BY <2>2 DEF Listing
<1>13. \A b \in B : b \in Numbering(B) /\ \A k \in Nat : k # 0 => Numbered(b, k) \in Numbering(B)
  BY DEF Numbering
<1>14. \A i \in 1 .. L : named[i].name \in Numbering(B)
  BY <1>5, <1>9, <1>10, <1>13
<1>15. Apart(named)
  BY <1>9, <1>10, <1>12 DEF Apart
<1>16. Tells(named, B)
  BY <1>12, <1>14, <1>15 DEF Tells
<1> QED
  BY <1>1, <1>16, AtTells

\* Whatever form a source has, its list is told apart by names.
LEMMA SourceTells ==
    ASSUME NEW B, Bare(B), <<"Connection">> \in B, NEW source, Offers(source, B)
    PROVE  Tells(ReadSourceText(source), B)
<1> DEFINE servers == source.servers
           form == source.form
           list == ReadSourceText(source)
<1>1. /\ servers \in Seq(ServerType)
      /\ form \in {"links", "pasted", "document", "providers", "singbox", "xray", "warp"}
  BY DEF Offers, SourceType
<1>2. \A s \in ToSet(servers) : s \in Given(B, form)
  <2>1. \A s \in ToSet(servers) : s \in ServerType
    BY <1>1, ElementsOf
  <2> QED
    BY <2>1 DEF Offers, Given
<1> HIDE DEF servers, form
<1>3. servers \in Seq(Given(B, form))
  BY <1>1, <1>2, InSeq
<1>4. source.servers = servers /\ source.form = form
  BY DEF servers, form
<1> HIDE DEF list
<1>5. CASE form = "links"
  <2>1. list = ReadLinks(servers)
    BY <1>4, <1>5 DEF list, ReadSourceText
  <2>2. \A s \in Given(B, form) : LinkName(s) \in B
    BY LabelTells
  <2> QED
    BY <1>3, <2>1, <2>2, LinksTell DEF list
<1>6. CASE form = "pasted"
  BY <1>3, <1>4, <1>6, PastedTells DEF ReadSourceText
<1>7. CASE form = "document"
  BY <1>3, <1>4, <1>7, DocumentTells DEF ReadSourceText
<1>8. CASE form = "providers"
  <2>1. list = <<>>
    BY <1>4, <1>8 DEF list, ReadSourceText
  <2>2. <<>> \in Seq({})
    OBVIOUS
  <2>3. Tells(<<>>, B)
    BY <2>2 DEF Tells, Listing, Apart
  <2> QED
    BY <2>1, <2>3 DEF list
<1>9. CASE form = "singbox"
  BY <1>3, <1>4, <1>9, SingBoxTells DEF ReadSourceText
<1>10. CASE form = "xray"
  BY <1>3, <1>4, <1>10, XrayTells DEF ReadSourceText
<1>11. CASE form = "warp"
  BY <1>3, <1>4, <1>11, WarpTells DEF ReadSourceText
<1> QED
  BY <1>1, <1>5, <1>6, <1>7, <1>8, <1>9, <1>10, <1>11

-----------------------------------------------------------------------------
(* Merging keeps names apart.                                                 *)

\* What a node of a source is called there, and with its source in front.
Own(source, node) == IF node.name = <<>> THEN <<source>> ELSE node.name
Fronted(source, name) == <<source, "dot">> \o name

\* Sources and what their nodes are called, none of it a source in front of a name.
Clear(all) ==
    /\ all \subseteq Texts \X Names
    /\ \A p, q \in all : q[2] # Fronted(p[1], p[2])

\* What a pool is after nodes of past.
PoolTells(pool, past) ==
    /\ \A name \in DOMAIN pool.names.seen : \E p \in past : name = p[2] \/ name = Fronted(p[1], p[2])
    /\ \A i \in DOMAIN pool.merged : pool.merged[i].name \in DOMAIN pool.names.seen
    /\ Apart(pool.merged)

LEMMA FrontedIs ==
    ASSUME NEW source \in Texts, NEW name \in Names
    PROVE  /\ Fronted(source, name) \in Names /\ Len(Fronted(source, name)) = 2 + Len(name)
           /\ Fronted(source, name)[1] = source
           /\ \A i \in 1 .. Len(name) : Fronted(source, name)[2 + i] = name[i]
<1> DEFINE two == <<source, "dot">>
           all == two \o name
<1>1. "dot" \in Texts
  BY TextsAssumption
<1>2. two \in Seq(Texts) /\ Len(two) = 2
  BY <1>1, Double
<1>3. two[1] = source
  OBVIOUS
<1>4. name \in Seq(Texts) /\ Fronted(source, name) = all
  BY DEF Names, Fronted
<1>5. all = two \o name
  OBVIOUS
<1> HIDE DEF two, all
<1>6. two \in Seq(Texts) /\ name \in Seq(Texts)
  BY <1>2, <1>4
<1>7. /\ all \in Seq(Texts) /\ Len(all) = Len(two) + Len(name)
      /\ \A i \in 1 .. Len(two) : all[i] = two[i]
      /\ \A i \in 1 .. Len(name) : all[Len(two) + i] = name[i]
  BY <1>5, <1>6, JoinedGoes
<1>8. 1 \in 1 .. Len(two)
  BY <1>2
<1> QED
  BY <1>2, <1>3, <1>4, <1>7, <1>8 DEF Names

LEMMA FrontedOnce ==
    ASSUME NEW source \in Texts, NEW name \in Names, NEW other \in Texts, NEW its \in Names,
           Fronted(source, name) = Fronted(other, its)
    PROVE  source = other /\ name = its
<1> DEFINE all == Fronted(source, name)
           L == Len(name)
<1>1. /\ Len(all) = 2 + L /\ all[1] = source /\ \A i \in 1 .. L : all[2 + i] = name[i]
      /\ Len(all) = 2 + Len(its) /\ all[1] = other /\ \A i \in 1 .. Len(its) : all[2 + i] = its[i]
  BY FrontedIs
<1>2. L \in Nat /\ Len(its) \in Nat /\ name \in Seq(Texts) /\ its \in Seq(Texts)
  BY DEF Names
<1>3. name = [i \in 1 .. L |-> name[i]] /\ its = [i \in 1 .. Len(its) |-> its[i]]
  BY <1>2
<1> HIDE DEF all, L
<1>4. Len(its) = L
  BY <1>1, <1>2
<1>5. \A i \in 1 .. L : name[i] = its[i]
  BY <1>1, <1>4
<1> QED
  BY <1>1, <1>3, <1>4, <1>5

\* A node that is merged gets a name that the pool has not.
LEMMA MergeTells ==
    ASSUME NEW N, Merges(N), N \subseteq Names, NEW A, NEW pool \in Pools(N, A), NEW source \in Texts, <<source>> \in N,
           NEW node \in Homes(N, A), NEW all, Clear(all), NEW past, past \subseteq all, PoolTells(pool, past),
           <<source, Own(source, node)>> \in all, <<source, Own(source, node)>> \notin past
    PROVE  PoolTells(Merge(pool, source, node), past \cup {<<source, Own(source, node)>>})
<1> DEFINE own == Own(source, node)
           more == past \cup {<<source, own>>}
           id == IdentityOf(node)
           wanted == Qualify(node.name, source, pool.names)
           names == Register(pool.names, wanted)
           name == Last(names.given)
           new == [node EXCEPT !.name = name]
           after == [ids |-> pool.ids \cup {id}, names |-> names, merged |-> Append(pool.merged, new)]
<1>1. Merge(pool, source, node) = IF id \in pool.ids THEN pool ELSE after
  BY Zenon DEF Merge
<1>2. wanted = IF Taken(pool.names, own) THEN Fronted(source, own) ELSE own
  BY DEF Qualify, Own, Fronted
<1>3. /\ \A x \in DOMAIN pool.names.seen : \E p \in past : x = p[2] \/ x = Fronted(p[1], p[2])
      /\ \A i \in DOMAIN pool.merged : pool.merged[i].name \in DOMAIN pool.names.seen
      /\ Apart(pool.merged)
  BY DEF PoolTells
<1>4. /\ all \subseteq Texts \X Names
      /\ \A p \in all : p[1] \in Texts /\ p[2] \in Names
      /\ \A p, q \in all : q[2] # Fronted(p[1], p[2])
  BY DEF Clear
<1>5. pool.names \in Noted(N) /\ pool.merged \in Seq(Homes(N, A))
  BY DEF Pools
<1>6. own \in N /\ own \in Names
  <2>1. node \in NodeOf(N)
    BY DEF Homes
  <2>2. node.name \in N
    BY <2>1, HomeNamed
  <2> QED
    BY <2>2 DEF Own
<1>7. \A x \in DOMAIN pool.names.seen : \E p \in more : x = p[2] \/ x = Fronted(p[1], p[2])
  BY <1>3
<1>8. \E p \in more : p[1] = source /\ p[2] = own
  OBVIOUS
<1>9. <<source, own>> \in all /\ <<source, own>> \notin past
  OBVIOUS
<1>10. \A q \in all : q[2] # Fronted(source, own)
  BY <1>4, <1>9
<1>11. \A p \in past : ~(p[1] = source /\ p[2] = own)
  <2> SUFFICES ASSUME NEW p \in past, p[1] = source, p[2] = own PROVE FALSE
    OBVIOUS
  <2>1. p \in Texts \X Names
    BY <1>4
  <2>2. p = <<source, own>>
    BY <2>1
  <2> QED
    BY <1>9, <2>2
<1> HIDE DEF own, id, wanted, more
<1>12. wanted \notin DOMAIN pool.names.seen
  <2>1. CASE Taken(pool.names, own)
    <3> SUFFICES ASSUME wanted \in DOMAIN pool.names.seen PROVE FALSE
      OBVIOUS
    <3>1. wanted = Fronted(source, own)
      BY <1>2, <2>1
    <3>2. PICK p \in past : wanted = p[2] \/ wanted = Fronted(p[1], p[2])
      BY <1>3
    <3>3. wanted = Fronted(p[1], p[2]) /\ p[1] \in Texts /\ p[2] \in Names
      BY <1>4, <1>10, <3>1, <3>2
    <3>4. p[1] = source /\ p[2] = own
      <4> DEFINE other == p[1]
                 its == p[2]
      <4>1. other \in Texts /\ its \in Names /\ Fronted(source, own) = Fronted(other, its)
        BY <3>1, <3>3
      <4> HIDE DEF other, its
      <4>2. source = other /\ own = its
        BY <1>6, <4>1, FrontedOnce
      <4> QED
        BY <4>2 DEF other, its
    <3> QED
      BY <1>11, <3>4
  <2>2. CASE ~Taken(pool.names, own)
    BY <1>2, <2>2 DEF Taken
  <2> QED
    BY <2>1, <2>2
<1>13. names = [seen |-> [x \in DOMAIN pool.names.seen \cup {wanted} |-> IF x = wanted THEN 0 ELSE pool.names.seen[x]],
                given |-> Append(pool.names.given, wanted)]
  BY <1>12 DEF Register, Taken
<1>14. DOMAIN names.seen = DOMAIN pool.names.seen \cup {wanted} /\ names.given = Append(pool.names.given, wanted)
  BY <1>13
<1> HIDE DEF names
<1>15. name = wanted
  <2>1. pool.names.given \in Seq(N)
    BY <1>5 DEF Noted
  <2> QED
    BY <1>14, <2>1 DEF Last
<1> HIDE DEF name
<1>16. new.name = wanted
  <2>1. node \in NodeOf(N)
    BY DEF Homes
  <2>2. Nameable(node)
    BY <2>1, HomeNamed
  <2> QED
    BY <1>15, <2>2 DEF Nameable
<1> HIDE DEF new
<1>17. wanted = own \/ wanted = Fronted(source, own)
  BY <1>2
<1>18. \A x \in DOMAIN names.seen : \E p \in more : x = p[2] \/ x = Fronted(p[1], p[2])
  BY <1>7, <1>8, <1>14, <1>17
<1> DEFINE longer == Append(pool.merged, new)
           L == Len(pool.merged)
<1>19. /\ L \in Nat /\ DOMAIN longer = 1 .. L + 1 /\ longer[L + 1] = new /\ DOMAIN pool.merged = 1 .. L
       /\ \A i \in 1 .. L : longer[i] = pool.merged[i]
  BY <1>5
<1>20. \A i \in 1 .. L + 1 : i \in 1 .. L \/ i = L + 1
  BY <1>19
<1> HIDE DEF longer, L
<1>21. \A i \in DOMAIN longer : longer[i].name \in DOMAIN names.seen
  BY <1>3, <1>14, <1>16, <1>19, <1>20
<1>22. Apart(longer)
  <2>1. \A i \in 1 .. L : longer[i].name \in DOMAIN pool.names.seen
    BY <1>3, <1>19
  <2>2. \A i, j \in 1 .. L : longer[i].name = longer[j].name => i = j
    BY <1>3, <1>19 DEF Apart
  <2>3. \A i \in 1 .. L : longer[i].name # longer[L + 1].name
    BY <1>12, <1>16, <1>19, <2>1
  <2> QED
    BY <1>19, <1>20, <2>2, <2>3 DEF Apart
<1>23. after.names = names /\ after.merged = longer
  BY DEF longer
<1> HIDE DEF after
<1>24. PoolTells(after, more)
  BY <1>18, <1>21, <1>22, <1>23 DEF PoolTells
<1>25. PoolTells(pool, more)
  BY <1>3, <1>7 DEF PoolTells
<1> QED
  BY <1>1, <1>24, <1>25 DEF more, own

\* The nodes of a source, up to n, as they are called there.
Called(source, n) == {<<source.name, Own(source.name, source.nodes[i])>> : i \in 1 .. n}
OwnApart(source) ==
    \A i, j \in DOMAIN source.nodes :
        Own(source.name, source.nodes[i]) = Own(source.name, source.nodes[j]) => i = j

LEMMA MergeSourceTells ==
    ASSUME NEW N, Merges(N), N \subseteq Names, NEW A, NEW pool \in Pools(N, A), NEW source, Named(source, N, A),
           OwnApart(source), NEW all, Clear(all), NEW past, past \subseteq all, PoolTells(pool, past),
           Called(source, Len(source.nodes)) \subseteq all,
           \A p \in past : p[1] # source.name
    PROVE  PoolTells(MergeSource(pool, source), past \cup Called(source, Len(source.nodes)))
<1> DEFINE L == Len(source.nodes)
<1>1. source.name \in Texts /\ <<source.name>> \in N /\ source.nodes \in Seq(Homes(N, A))
  BY DEF Named
<1>2. PICK after : MergeSourceGoes(after, N, A, pool, source)
  BY <1>1, MergeSourceSteps
<1>3. L \in Nat /\ DOMAIN source.nodes = 1 .. L /\ \A n \in 1 .. L : source.nodes[n] \in Homes(N, A)
  BY <1>1
<1>4. /\ after \in [0 .. L -> Pools(N, A)] /\ MergeSource(pool, source) = after[L] /\ after[0] = pool
      /\ \A n \in 1 .. L : after[n] = Merge(after[n - 1], source.name, source.nodes[n])
  BY <1>2 DEF MergeSourceGoes
<1> DEFINE O(n) == <<source.name, Own(source.name, source.nodes[n])>>
           H == {n \in 0 .. L : PoolTells(after[n], past \cup Called(source, n))}
<1>5. \A n \in 1 .. L : O(n) \in all
  BY DEF Called
<1> HIDE DEF L
<1>6. 0 \in H
  <2>1. past \cup Called(source, 0) = past
    BY DEF Called
  <2>2. PoolTells(after[0], past \cup Called(source, 0))
    BY <1>4, <2>1
  <2> QED
    BY <1>3, <2>2
<1>7. ASSUME NEW m \in 0 .. L - 1, m \in H PROVE m + 1 \in H
  <2> DEFINE before == past \cup Called(source, m)
             node == source.nodes[m + 1]
  <2>1. m + 1 \in 0 .. L /\ (m + 1) - 1 = m /\ m + 1 \in 1 .. L /\ m \in 0 .. L
        /\ m \in Nat /\ (\A i \in 1 .. m : i \in 1 .. L /\ i # m + 1)
        /\ \A i : i \in 1 .. m + 1 <=> (i \in 1 .. m \/ i = m + 1)
    BY <1>3
  <2>2. after[m + 1] = Merge(after[m], source.name, node) /\ after[m] \in Pools(N, A) /\ node \in Homes(N, A)
    BY <1>3, <1>4, <2>1
  <2>3. PoolTells(after[m], before)
    BY <1>7
  <2>4. before \subseteq all
    BY <1>5, <2>1 DEF Called
  <2>5. O(m + 1) \in all
    BY <1>5, <2>1
  <2>6. O(m + 1) \notin before
    <3>1. O(m + 1) \notin past
      <4> SUFFICES ASSUME NEW p \in past, p = O(m + 1) PROVE FALSE
        OBVIOUS
      <4>1. p[1] = source.name
        OBVIOUS
      <4> QED
        BY <4>1
    <3>2. \A i \in 1 .. m : O(i) # O(m + 1)
      BY <1>3, <2>1 DEF OwnApart
    <3> QED
      BY <3>1, <3>2 DEF Called
  <2>7. before \cup {O(m + 1)} = past \cup Called(source, m + 1)
    BY <2>1 DEF Called
  <2> HIDE DEF before, node
  <2>8. O(m + 1) = <<source.name, Own(source.name, node)>>
    BY DEF node
  <2> HIDE DEF O
  <2>9. PoolTells(Merge(after[m], source.name, node), before \cup {O(m + 1)})
    BY <1>1, <2>2, <2>3, <2>4, <2>5, <2>6, <2>8, MergeTells
  <2> QED
    BY <2>1, <2>2, <2>7, <2>9
<1>8. L \in H
  <2> HIDE DEF H
  <2>1. 0 .. L \subseteq H
    BY <1>3, <1>6, <1>7, UpTo
  <2> QED
    BY <1>3, <2>1
<1> QED
  BY <1>4, <1>8 DEF L

\* Every list merged: no two of what they become share a name.
LEMMA MergedApart ==
    ASSUME NEW N, Merges(N), N \subseteq Names, NEW A, NEW S, NEW sources \in Seq(S),
           \A source \in S : Named(source, N, A) /\ OwnApart(source),
           Apart(sources), NEW all, Clear(all),
           \A source \in S : Called(source, Len(source.nodes)) \subseteq all
    PROVE  Apart(MergeProxies(sources))
<1> DEFINE L == Len(sources)
           Past(n) == {p \in all : \E i \in 1 .. n : p[1] = sources[i].name}
<1>1. L \in Nat /\ DOMAIN sources = 1 .. L /\ \A n \in 1 .. L : sources[n] \in S
  OBVIOUS
<1>2. PICK after : MergeGoes(after, N, A, sources)
  BY MergeSteps
<1>3. /\ after \in [0 .. L -> Pools(N, A)] /\ MergeProxies(sources) = after[L].merged
      /\ after[0] = NoPool /\ \A n \in 1 .. L : after[n] = MergeSource(after[n - 1], sources[n])
  BY <1>2 DEF MergeGoes
<1>4. \A i, j \in 1 .. L : sources[i].name = sources[j].name => i = j
  BY <1>1 DEF Apart
<1> DEFINE H == {n \in 0 .. L : \E past \in SUBSET Past(n) : PoolTells(after[n], past)}
<1> HIDE DEF L
<1>5. 0 \in H
  <2>1. PoolTells(NoPool, {})
    BY DEF PoolTells, NoPool, NoNames, Apart
  <2>2. {} \in SUBSET Past(0)
    OBVIOUS
  <2> HIDE DEF Past
  <2> QED
    BY <1>1, <1>3, <2>1, <2>2
<1>6. ASSUME NEW m \in 0 .. L - 1, m \in H PROVE m + 1 \in H
  <2> DEFINE source == sources[m + 1]
  <2>1. /\ m + 1 \in 0 .. L /\ (m + 1) - 1 = m /\ m + 1 \in 1 .. L /\ m \in 0 .. L
        /\ \A i \in 1 .. m : i \in 1 .. L /\ i # m + 1 /\ i \in 1 .. m + 1
        /\ m + 1 \in 1 .. m + 1
    BY <1>1
  <2>2. PICK past \in SUBSET Past(m) : PoolTells(after[m], past)
    BY <1>6
  <2>3. after[m + 1] = MergeSource(after[m], source) /\ after[m] \in Pools(N, A) /\ source \in S
    BY <1>1, <1>3, <2>1
  <2>4. past \subseteq all
    BY <2>2
  <2>5. \A p \in past : p[1] # source.name
    BY <1>4, <2>1, <2>2
  <2> DEFINE called == Called(source, Len(source.nodes))
  <2>6. called \subseteq all /\ \A p \in called : p[1] = source.name
    BY <2>3 DEF Called
  <2>7. past \cup called \in SUBSET Past(m + 1)
    BY <2>1, <2>2, <2>4, <2>6
  <2> HIDE DEF Past, source
  <2>8. PoolTells(MergeSource(after[m], source), past \cup called)
    BY <2>2, <2>3, <2>4, <2>5, <2>6, MergeSourceTells
  <2> QED
    BY <2>1, <2>3, <2>7, <2>8
<1>7. L \in H
  <2> HIDE DEF H
  <2>1. 0 .. L \subseteq H
    BY <1>1, <1>5, <1>6, UpTo
  <2> QED
    BY <1>1, <2>1
<1> QED
  BY <1>3, <1>7 DEF PoolTells

-----------------------------------------------------------------------------
(* And so does the configuration.                                             *)

\* The names that the servers of a world come with, and what a stored one gets that has none.
Labels(w) ==
    LET servers == UNION {ToSet(w.sources[i].servers) : i \in DOMAIN w.sources}
    IN  {<<"Connection">>} \cup {s.label : s \in servers} \cup {<<s.host>> : s \in servers}

\* Sources are told apart by name, and no server is called by the name of one, alone or in
\* front of another.
SourcesApart(w) ==
    /\ Apart(w.sources)
    /\ \A i \in DOMAIN w.sources :
           /\ <<w.sources[i].name>> \notin Numbering(Labels(w))
           /\ \A name \in Names : Fronted(w.sources[i].name, name) \notin Numbering(Labels(w))

\* No label is another with a number; and with All, the sources are told apart.
LabelsApart == \A kind \in Worlds : \A w \in kind : Bare(Labels(w)) /\ (w.all => SourcesApart(w))

\* The invariant: each list is told apart, by names that come of its labels, and so are the nodes.
KeysHeld ==
    /\ \A i \in DOMAIN lists : Tells(lists[i], Labels(world))
    /\ Apart(nodes)

LEMMA LabelsAre ==
    ASSUME NEW w, NEW i \in DOMAIN w.sources, Offers(w.sources[i], Names)
    PROVE  Offers(w.sources[i], Labels(w)) /\ <<"Connection">> \in Labels(w)
<1> DEFINE source == w.sources[i]
           servers == UNION {ToSet(w.sources[k].servers) : k \in DOMAIN w.sources}
<1>1. Labels(w) = {<<"Connection">>} \cup {s.label : s \in servers} \cup {<<s.host>> : s \in servers}
  BY Zenon DEF Labels
<1>2. \A s \in ToSet(source.servers) : s \in servers
  OBVIOUS
<1>3. source \in SourceType /\ \A s \in ToSet(source.servers) : IsSaid(s.link, source.form)
  BY DEF Offers
<1> HIDE DEF servers, source
<1>4. \A s \in ToSet(source.servers) : s.label \in Labels(w) /\ <<s.host>> \in Labels(w)
  BY <1>1, <1>2
<1>5. <<"Connection">> \in Labels(w)
  BY <1>1
<1>6. Offers(source, Labels(w))
  BY <1>3, <1>4 DEF Offers
<1> QED
  BY <1>5, <1>6 DEF source

LEMMA KeysReadSource ==
    ASSUME LabelsApart, Held(Names, Texts), KeysHeld, ReadSource
    PROVE  KeysHeld'
<1> DEFINE source == world.sources[Len(lists) + 1]
           list == ReadSourceText(source)
           B == Labels(world)
<1>1. /\ Len(lists) < Len(world.sources) /\ lists' = Append(lists, list)
      /\ world' = world /\ nodes' = nodes
  BY DEF ReadSource
<1>2. /\ \E kind \in Worlds : world \in kind
      /\ lists \in Seq(Seq(Homes(Names, Texts))) /\ Len(lists) \in Nat
  BY DEF Held, ListsHeld
<1>3. /\ world.sources \in Seq(SourceType) /\ Len(world.sources) \in Nat
      /\ \A i \in DOMAIN world.sources : Offers(world.sources[i], Names)
  <2>1. \E kind \in Worlds : world \in kind
    BY <1>2
  <2>2. world.sources \in Seq(SourceType) /\ \A i \in DOMAIN world.sources : Offers(world.sources[i], Names)
    BY <2>1, AnyKeep, WorldIs
  <2>3. Len(world.sources) \in Nat
    BY <2>2
  <2> QED
    BY <2>2, <2>3
<1>4. Len(lists) + 1 \in DOMAIN world.sources
  BY <1>1, <1>2, <1>3
<1>5. Offers(source, B) /\ <<"Connection">> \in B
  BY <1>3, <1>4, LabelsAre
<1>6. Bare(B)
  BY <1>2 DEF LabelsApart
<1> HIDE DEF source, list, B
<1>7. Tells(list, B)
  BY <1>5, <1>6, SourceTells DEF list
<1>8. /\ DOMAIN lists' = 1 .. Len(lists) + 1 /\ lists'[Len(lists) + 1] = list
      /\ \A i \in 1 .. Len(lists) : lists'[i] = lists[i] /\ i \in DOMAIN lists
  <2>1. \E T : lists \in Seq(T)
    BY <1>2
  <2>2. PICK T : lists \in Seq(T)
    BY <2>1
  <2> QED
    BY <1>1, <2>2
<1>9. \A i \in DOMAIN lists : Tells(lists[i], B)
  BY DEF KeysHeld, B
<1>10. \A i \in DOMAIN lists' : Tells(lists'[i], B)
  <2> TAKE i \in DOMAIN lists'
  <2>1. i \in 1 .. Len(lists) \/ i = Len(lists) + 1
    BY <1>2, <1>8
  <2> QED
    BY <1>7, <1>8, <1>9, <2>1
<1>11. Labels(world') = B
  BY <1>1 DEF B
<1>12. Apart(nodes')
  BY <1>1 DEF KeysHeld
<1> QED
  BY <1>10, <1>11, <1>12 DEF KeysHeld

LEMMA KeysShape ==
    ASSUME Held(Names, Texts), KeysHeld, ShapeNodes
    PROVE  KeysHeld'
<1> DEFINE places == {i \in DOMAIN nodes : nodes[i].name \notin world.hidden}
           kept == At(nodes, places)
           shaped == FrontProxies([i \in DOMAIN kept |-> ApplyFragments(ApplyAmneziaNoise(kept[i]))])
<1>1. stage = "read" /\ nodes' = shaped /\ UNCHANGED <<world, lists>>
  BY Zenon DEF ShapeNodes
<1>2. nodes \in Seq(Homes(Names, Texts))
  BY <1>1 DEF Held, NodesHeld
<1>3. Listing(nodes) /\ Apart(nodes)
  BY <1>2 DEF Listing, KeysHeld
<1> HIDE DEF places
<1>4. Apart(kept)
  BY <1>3, AtApart
<1>5. kept \in Seq(Homes(Names, Texts))
  BY <1>2, AtIs
<1> HIDE DEF kept
<1>6. Reshaped(kept, shaped, Names, Texts)
  BY <1>5, ShapedIs, Zenon
<1> HIDE DEF shaped
<1>7. DOMAIN shaped = DOMAIN kept /\ \A i \in DOMAIN kept : shaped[i].name = kept[i].name
  BY <1>6 DEF Reshaped
<1>8. Apart(shaped)
  BY <1>4, <1>7 DEF Apart
<1> QED
  BY <1>1, <1>8 DEF KeysHeld

LEMMA KeysTake ==
    ASSUME Held(Names, Texts), KeysHeld, TakeTheList
    PROVE  KeysHeld'
<1>1. Len(lists) = Len(world.sources) /\ nodes' = lists[1] /\ UNCHANGED <<world, lists>>
  BY DEF TakeTheList
<1>2. (\E kind \in Worlds : world \in kind) /\ lists \in Seq(Seq(Homes(Names, Texts)))
  BY DEF Held, ListsHeld
<1>3. world.sources \in Seq(SourceType) /\ world.sources # <<>>
  BY <1>2, AnyKeep, WorldIs
<1>4. 1 \in DOMAIN lists
  BY <1>1, <1>2, <1>3
<1>5. Apart(lists[1])
  BY <1>4 DEF KeysHeld, Tells
<1> QED
  BY <1>1, <1>5 DEF KeysHeld

\* The names of the sources with what is called there.
AllCalled(w) ==
    LET names == {w.sources[i].name : i \in DOMAIN w.sources}
    IN  names \X (Numbering(Labels(w)) \cup {<<name>> : name \in names})

LEMMA AllClear ==
    ASSUME NEW w, w.sources \in Seq(SourceType), Bare(Labels(w)), SourcesApart(w)
    PROVE  Clear(AllCalled(w))
<1> DEFINE names == {w.sources[i].name : i \in DOMAIN w.sources}
           M == Numbering(Labels(w))
           Ones == {<<name>> : name \in names}
           all == names \X (M \cup Ones)
<1>1. AllCalled(w) = all
  BY Zenon DEF AllCalled
<1>2. names \subseteq Texts
  <2>1. \A i \in DOMAIN w.sources : w.sources[i] \in SourceType
    OBVIOUS
  <2>2. \A source \in SourceType : source.name \in Texts
    BY DEF SourceType
  <2> QED
    BY <2>1, <2>2
<1>3. M \subseteq Names
  <2>1. Numbers(Names)
    BY AnyKeep DEF Speaks
  <2> QED
    BY <2>1 DEF Numbering, Bare, Numbers
<1>4. Ones \subseteq Names
  BY <1>2, Single DEF Names
<1>5. \A source \in names : \A name \in Names : Fronted(source, name) \notin M
  BY DEF SourcesApart
<1> HIDE DEF names, M
<1>6. \A source \in names : \A name \in Names : Fronted(source, name) \notin Ones
  <2> SUFFICES ASSUME NEW source \in names, NEW name \in Names, NEW other \in names, Fronted(source, name) = <<other>>
               PROVE  FALSE
    OBVIOUS
  <2>1. source \in Texts
    BY <1>2
  <2>3. Len(name) \in Nat
    BY DEF Names
  <2>4. Len(Fronted(source, name)) = 2 + Len(name)
    BY <2>1, FrontedIs
  <2>2. Len(<<other>>) = 1
    OBVIOUS
  <2> QED
    BY <2>2, <2>3, <2>4
<1> HIDE DEF Ones
<1>7. all \subseteq Texts \X Names
  BY <1>2, <1>3, <1>4
<1>8. \A p, q \in all : q[2] # Fronted(p[1], p[2])
  <2> TAKE p, q \in all
  <2>1. p[1] \in names /\ p[2] \in Names /\ (q[2] \in M \/ q[2] \in Ones)
    BY <1>3, <1>4
  <2> QED
    BY <1>5, <1>6, <2>1
<1> QED
  BY <1>1, <1>7, <1>8 DEF Clear

LEMMA KeysCombine ==
    ASSUME LabelsApart, Held(Names, Texts), KeysHeld, CombineEveryList
    PROVE  KeysHeld'
<1> DEFINE N == Names
           A == Texts
           Tagged(i) == [name |-> world.sources[i].name, nodes |-> lists[i]]
           read == [i \in DOMAIN lists |-> Tagged(i)]
           places == {i \in DOMAIN lists : lists[i] # <<>>}
           usable == At(read, places)
           merged == MergeProxies(usable)
           B == Labels(world)
           all == AllCalled(world)
           T == [name : Texts, nodes : Seq(Homes(N, A))]
           S == {source \in T : /\ Named(source, N, A) /\ OwnApart(source)
                                /\ Called(source, Len(source.nodes)) \subseteq all}
           L == Len(lists)
<1>1. world.all /\ nodes' = Renamed(merged) /\ world' = world /\ lists' = lists
  BY Zenon DEF CombineEveryList
<1>2. /\ \E kind \in Worlds : world \in kind
      /\ lists \in Seq(Seq(Homes(N, A))) /\ L \in Nat /\ DOMAIN lists = 1 .. L
      /\ L <= Len(world.sources)
  BY DEF Held, ListsHeld
<1>3. /\ world.sources \in Seq(SourceType)
      /\ \A i \in DOMAIN world.sources : <<world.sources[i].name>> \in N /\ world.sources[i].name \in Texts
  BY <1>2, AnyKeep, WorldIs
<1>4. \A i \in 1 .. L : i \in DOMAIN world.sources /\ lists[i] \in Seq(Homes(N, A))
  BY <1>2, <1>3
<1>5. Bare(B) /\ SourcesApart(world)
  BY <1>1, <1>2 DEF LabelsApart
<1>6. Clear(all)
  BY <1>3, <1>5, AllClear
<1>7. \A i \in 1 .. L : Tells(lists[i], B)
  BY <1>2 DEF KeysHeld
<1>8. \A i \in 1 .. L : Tagged(i).name = world.sources[i].name /\ Tagged(i).nodes = lists[i]
  OBVIOUS
<1>9. \A i \in 1 .. L : Tagged(i) \in T
  <2> DEFINE R == Seq(Homes(N, A))
  <2>1. \A i \in 1 .. L : lists[i] \in R
    BY <1>4
  <2> HIDE DEF R
  <2> QED
    BY <1>3, <1>4, <2>1
<1>10. DOMAIN read = 1 .. L /\ \A i \in 1 .. L : read[i] = Tagged(i)
  BY <1>2
<1> HIDE DEF Tagged, L, all, B, N, A
<1>11. ASSUME NEW i \in 1 .. L PROVE Tagged(i) \in S
  <2> DEFINE source == Tagged(i)
             names == {world.sources[k].name : k \in DOMAIN world.sources}
             M == Numbering(B)
             O(k) == Own(source.name, source.nodes[k])
  <2>1. source.name \in Texts /\ <<source.name>> \in N /\ source.nodes \in Seq(Homes(N, A))
    BY <1>3, <1>4, <1>8
  <2>2. Named(source, N, A)
    BY <2>1 DEF Named
  <2>3. Apart(source.nodes) /\ \A k \in DOMAIN source.nodes : source.nodes[k].name \in M
    BY <1>7, <1>8 DEF Tells
  <2>4. source.name \in names /\ <<source.name>> \notin M
    BY <1>4, <1>5, <1>8 DEF SourcesApart, B
  <2>5. all = names \X (M \cup {<<name>> : name \in names})
    BY Zenon DEF AllCalled, all, B
  <2> HIDE DEF names, M, source
  <2>6. \A k \in DOMAIN source.nodes :
            O(k) = IF source.nodes[k].name = <<>> THEN <<source.name>> ELSE source.nodes[k].name
    BY DEF Own
  <2>7. OwnApart(source)
    <3> SUFFICES ASSUME NEW k \in DOMAIN source.nodes, NEW l \in DOMAIN source.nodes, O(k) = O(l) PROVE k = l
      BY DEF OwnApart
    <3> HIDE DEF O
    <3> QED
      BY <2>3, <2>4, <2>6 DEF Apart
  <2>8. DOMAIN source.nodes = 1 .. Len(source.nodes)
    BY <2>1
  <2>9. \A k \in DOMAIN source.nodes : <<source.name, O(k)>> \in all
    <3> HIDE DEF O
    <3> QED
      BY <2>3, <2>4, <2>5, <2>6
  <2>10. Called(source, Len(source.nodes)) \subseteq all
    BY <2>8, <2>9 DEF Called
  <2> QED
    BY <1>9, <2>2, <2>7, <2>10 DEF source
<1>12. \A source \in S : /\ Named(source, N, A) /\ OwnApart(source)
                         /\ Called(source, Len(source.nodes)) \subseteq all
  OBVIOUS
<1> HIDE DEF S
<1>13. read \in Seq(S)
  <2>1. read = [i \in 1 .. L |-> read[i]] /\ \A i \in 1 .. L : read[i] \in S
    BY <1>2, <1>10, <1>11
  <2> HIDE DEF read
  <2> QED
    BY <1>2, <2>1, Listed DEF L
<1>14. Apart(read)
  <2>1. \A i, j \in 1 .. L : world.sources[i].name = world.sources[j].name => i = j
    BY <1>4, <1>5 DEF SourcesApart, Apart
  <2>2. \A i \in 1 .. L : read[i].name = world.sources[i].name
    BY <1>8, <1>10
  <2> HIDE DEF read
  <2> QED
    BY <1>10, <2>1, <2>2 DEF Apart
<1> HIDE DEF read, places
<1>15. usable \in Seq(S) /\ Apart(usable)
  <2>1. Listing(read)
    BY <1>13 DEF Listing
  <2> QED
    BY <1>13, <1>14, <2>1, AtIs, AtApart
<1> HIDE DEF usable
<1>16. Speaks(N) /\ Merges(N) /\ N \subseteq Names
  BY AnyKeep DEF Speaks, Merges, N
<1>17. Apart(merged)
  BY <1>6, <1>12, <1>15, <1>16, MergedApart
<1>18. merged \in Seq(Homes(N, A))
  BY <1>12, <1>15, <1>16, MergeProxiesIs
<1> HIDE DEF merged
<1>19. Apart(Renamed(merged))
  BY <1>16, <1>17, <1>18, RenamedApart
<1> QED
  BY <1>1, <1>19 DEF KeysHeld

\* What the engine chooses from are servers that it has.
LEMMA RenderedGroup ==
    ASSUME NEW N, nodes \in Seq(NodeOf(N)), Rendered
    PROVE  ToSet(engine.group) \subseteq {p.name : p \in ServersOf(engine.proxies)}
<1> DEFINE unique == Unique(nodes)
           exit == ExitHop(unique)
           all == engine.proxies
<1>1. engine.group = FirstHops(unique) /\ all = IF world.chain # <<>> THEN Append(unique, exit) ELSE unique
  BY RenderedIs
<1>2. unique \in Seq(NodeOf(N))
  BY UniqueIs
<1> HIDE DEF unique, exit
<1>3. \A name \in ToSet(engine.group) : \E i \in DOMAIN unique : unique[i].name = name
  BY <1>1, <1>2, HopsAre
<1>4. \A i \in DOMAIN unique : i \in DOMAIN all /\ all[i] = unique[i]
  BY <1>1, <1>2
<1> HIDE DEF all
<1>5. \A i \in DOMAIN unique : unique[i] \in ServersOf(all)
  BY <1>4 DEF ServersOf
<1> QED
  BY <1>3, <1>5 DEF all

\* The invariant is one.
LEMMA KeysInductive ==
    ASSUME LabelsApart
    PROVE  (Init => KeysHeld) /\ (Held(Names, Texts) /\ KeysHeld /\ [Next]_vars => KeysHeld')
<1>1. Init => KeysHeld
  BY DEF Init, KeysHeld, Apart
<1>2. ASSUME KeysHeld, UNCHANGED <<world, lists, nodes>> PROVE KeysHeld'
  BY <1>2 DEF KeysHeld
<1>3. Held(Names, Texts) /\ KeysHeld /\ [Next]_vars => KeysHeld'
  <2> SUFFICES ASSUME Held(Names, Texts), KeysHeld, [Next]_vars PROVE KeysHeld'
    OBVIOUS
  <2>1. CASE ReadSource
    BY <2>1, KeysReadSource
  <2>2. CASE CombineEveryList
    BY <2>2, KeysCombine
  <2>3. CASE TakeTheList
    BY <2>3, KeysTake
  <2>4. CASE PassThrough
    BY <1>2, <2>4 DEF PassThrough
  <2>5. CASE ShapeNodes
    BY <2>5, KeysShape
  <2>6. CASE Render
    BY <1>2, <2>6 DEF Render
  <2>7. CASE UNCHANGED vars
    BY <1>2, <2>7 DEF vars
  <2> QED
    BY <2>1, <2>2, <2>3, <2>4, <2>5, <2>6, <2>7 DEF Next
<1> QED
  BY <1>1, <1>3

LEMMA KeysAre ==
    ASSUME Held(Names, Texts), KeysHeld
    PROVE  NamesAreKeys
<1>1. \A i, j \in DOMAIN nodes : nodes[i].name = nodes[j].name => i = j
  BY DEF KeysHeld, Apart
<1>2. Built => ToSet(engine.group) \subseteq {p.name : p \in ServersOf(engine.proxies)}
  <2> SUFFICES ASSUME Built PROVE ToSet(engine.group) \subseteq {p.name : p \in ServersOf(engine.proxies)}
    OBVIOUS
  <2>1. stage = "done" /\ \E kind \in Worlds : world \in kind
    BY DEF Built, Held, ListsHeld
  <2>2. world.lines \in Seq(LineType)
    BY <2>1, AnyKeep, WorldIs
  <2>3. Rendered
    BY <2>1, <2>2, PassedSettings DEF Held, EngineHeld
  <2>4. nodes \in Seq(NodeOf(Names))
    BY DEF Held, NodesHeld
  <2> QED
    BY <2>3, <2>4, RenderedGroup
<1> QED
  BY <1>1, <1>2 DEF NamesAreKeys

\* A list keeps each of its servers, under a name of its own, which is the key the engine has
\* for it (links.go, merge.go: "Names are the engine's key for a proxy, so a duplicate
\* silently replaces").
THEOREM EngineConfigListsWhole ==
    ASSUME LabelsApart, Keyed
    PROVE  Spec => []ListsAreWhole
<1>1. (Init => Held(Names, Texts)) /\ (Held(Names, Texts) /\ [Next]_vars => Held(Names, Texts)')
  BY AnyKeep, HeldInductive
<1>2. (Init => KeysHeld) /\ (Held(Names, Texts) /\ KeysHeld /\ [Next]_vars => KeysHeld')
  BY KeysInductive
<1>3. Held(Names, Texts) /\ KeysHeld => NamesAreKeys
  BY KeysAre
<1>4. Spec => []NamesAreKeys
  BY <1>1, <1>2, <1>3, PTL DEF Spec
<1>5. (Spec => []TypeOK) /\ (Spec => []MergeKeepsEveryServer)
  BY EngineConfigTyped, EngineConfigMerges
<1>6. TypeOK /\ NamesAreKeys /\ MergeKeepsEveryServer => ListsAreWhole
  BY DEF ListsAreWhole
<1> QED
  BY <1>4, <1>5, <1>6, PTL
=============================================================================
