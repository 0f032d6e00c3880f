---------------------------- MODULE ControlsProofs ----------------------------
(***************************************************************************)
(* Proofs about what the keys and tiles reach outside the deck, for every  *)
(* configuration, answer and clock that the assumptions allow.  A          *)
(* behaviour of ControlsSpec is about one subject; each part has an        *)
(* invariant of its own, which its own steps keep and which the steps of   *)
(* the other parts do not touch.                                           *)
(***************************************************************************)
EXTENDS Controls, SequenceTheorems, FiniteSetTheorems, WellFoundedInduction, TLAPS

-----------------------------------------------------------------------------
(* Lists.  The least of a set of indices.                                   *)

LEMMA LeastExists ==
    ASSUME NEW S \in SUBSET Nat, S # {}
    PROVE  Min(S) \in S /\ \A x \in S : Min(S) <= x
<1>1. PICK x \in S : \A y \in S : << y, x >> \notin OpToRel(<, Nat)
  BY NatLessThanWellFounded, WFMin
<1>2. \A y \in S : x <= y
  <2>1. \A y \in S : ~(y < x)
    BY <1>1 DEF OpToRel
  <2> QED BY <2>1
<1> QED BY <1>2 DEF Min

-----------------------------------------------------------------------------
(* Arrangements.                                                            *)

\* What comes before what, of finitely many.
IsOrder(prior) ==
    /\ IsFiniteSet(DOMAIN prior)
    /\ \A i \in DOMAIN prior : prior[i] \subseteq DOMAIN prior /\ i \notin prior[i]
    /\ \A i \in DOMAIN prior : \A j \in prior[i] : prior[j] \subseteq prior[i]
    /\ \A i, j \in DOMAIN prior : i = j \/ i \in prior[j] \/ j \in prior[i]

\* at[1], ..., at[count] are what is ordered, each once, in the order of `prior`.
Lists(at, count, prior) ==
    /\ count \in Nat
    /\ at \in [1..count -> DOMAIN prior]
    /\ \A i \in DOMAIN prior : \E n \in 1..count : at[n] = i
    /\ \A m, n \in 1..count : m < n => at[m] \in prior[at[n]]

\* Whatever lists the indices of an order does so by their ranks.
LEMMA ListedByRank ==
    ASSUME NEW prior, IsOrder(prior), NEW at, NEW count, Lists(at, count, prior)
    PROVE  /\ Cardinality(DOMAIN prior) = count
           /\ \A n \in 1..count : /\ Cardinality(prior[at[n]]) = n - 1
                                  /\ at[n] = CHOOSE i \in DOMAIN prior : Cardinality(prior[i]) = n - 1
<1> DEFINE D == DOMAIN prior
<1>1. \A m, n \in 1..count : m # n => at[m] # at[n]
  <2>1. ASSUME NEW m \in 1..count, NEW n \in 1..count, m < n
        PROVE  at[m] # at[n]
    BY <2>1 DEF Lists, IsOrder
  <2> QED BY <2>1 DEF Lists
<1>2. Cardinality(D) = count
  <2>1. at \in Bijection(1..count, D)
    BY <1>1 DEF Lists, Bijection, Injection, Surjection, IsInjective
  <2>2. IsFiniteSet(1..count) /\ Cardinality(1..count) = count
    BY FS_Interval DEF Lists
  <2> QED BY <2>1, <2>2, FS_Bijection DEF ExistsBijection
<1>3. ASSUME NEW n \in 1..count
      PROVE  Cardinality(prior[at[n]]) = n - 1
  <2>1. prior[at[n]] = {at[m] : m \in 1..n - 1}
    <3>1. ASSUME NEW i \in prior[at[n]]
          PROVE  i \in {at[m] : m \in 1..n - 1}
      <4>1. PICK m \in 1..count : at[m] = i
        BY <3>1 DEF Lists, IsOrder
      <4>2. ~(n < m) /\ m # n
        BY <3>1, <4>1 DEF Lists, IsOrder
      <4> QED BY <4>1, <4>2 DEF Lists
    <3>2. ASSUME NEW m \in 1..n - 1
          PROVE  at[m] \in prior[at[n]]
      BY DEF Lists
    <3> QED BY <3>1, <3>2
  <2> DEFINE first == [m \in 1..n - 1 |-> at[m]]
  <2>2. first \in Bijection(1..n - 1, prior[at[n]])
    BY <1>1, <2>1 DEF Lists, Bijection, Injection, Surjection, IsInjective
  <2>3. IsFiniteSet(1..n - 1) /\ Cardinality(1..n - 1) = n - 1
    <3>1. n - 1 \in Int /\ 1 \in Int /\ n >= 1
      BY DEF Lists
    <3>2. Cardinality(1..n - 1) = IF 1 > n - 1 THEN 0 ELSE (n - 1) - 1 + 1
      BY <3>1, FS_Interval
    <3> QED BY <3>1, <3>2, FS_Interval
  <2> QED BY <2>2, <2>3, FS_Bijection DEF ExistsBijection
<1>4. ASSUME NEW n \in 1..count
      PROVE  at[n] = CHOOSE i \in D : Cardinality(prior[i]) = n - 1
  <2>1. at[n] \in D /\ Cardinality(prior[at[n]]) = n - 1
    BY <1>3 DEF Lists
  <2>2. ASSUME NEW i \in D, Cardinality(prior[i]) = n - 1
        PROVE  i = at[n]
    <3>1. PICK m \in 1..count : at[m] = i
      BY DEF Lists
    <3>2. m - 1 = n - 1
      BY <1>3, <2>2, <3>1
    <3> QED BY <3>1, <3>2 DEF Lists
  <2> QED BY <2>1, <2>2
<1> QED BY <1>2, <1>3, <1>4

\* An order can be listed.
LEMMA ListExists ==
    ASSUME NEW prior, IsOrder(prior)
    PROVE  \E at : Lists(at, Cardinality(DOMAIN prior), prior)
<1> DEFINE D == DOMAIN prior
           N == Cardinality(D)
           rank == [i \in D |-> Cardinality(prior[i]) + 1]
<1>1. IsFiniteSet(D) /\ N \in Nat
  BY FS_CardinalityType DEF IsOrder
<1>2. \A i \in D : IsFiniteSet(prior[i]) /\ Cardinality(prior[i]) \in Nat
  BY <1>1, FS_Subset, FS_CardinalityType DEF IsOrder
<1>3. ASSUME NEW i \in D
      PROVE  Cardinality(prior[i]) < N
  <2>1. prior[i] \in SUBSET D /\ prior[i] # D
    BY DEF IsOrder
  <2>2. Cardinality(prior[i]) <= N /\ Cardinality(prior[i]) # N
    BY <1>1, <2>1, FS_Subset
  <2> HIDE DEF N
  <2> QED BY <1>1, <1>2, <2>2
<1>4. ASSUME NEW i \in D, NEW j \in prior[i]
      PROVE  Cardinality(prior[j]) < Cardinality(prior[i])
  <2>1. prior[j] \in SUBSET prior[i] /\ prior[j] # prior[i] /\ j \in D
    BY DEF IsOrder
  <2>2. Cardinality(prior[j]) <= Cardinality(prior[i]) /\ Cardinality(prior[i]) # Cardinality(prior[j])
    BY <1>2, <2>1, FS_Subset
  <2> QED BY <1>2, <2>1, <2>2
<1>5. rank \in [D -> 1..N]
  <2> HIDE DEF N
  <2> QED BY <1>1, <1>2, <1>3
<1>6. \A i, j \in D : i # j => rank[i] # rank[j]
  <2>1. ASSUME NEW i \in D, NEW j \in prior[i]
        PROVE  j \in D /\ rank[i] # rank[j]
    BY <1>2, <1>4 DEF IsOrder
  <2> HIDE DEF rank
  <2> QED BY <2>1 DEF IsOrder
<1>7. rank \in Surjection(D, 1..N)
  <2>1. rank \in Injection(D, 1..N)
    <3> HIDE DEF rank
    <3> QED BY <1>5, <1>6 DEF Injection, IsInjective
  <2>2. IsFiniteSet(1..N) /\ Cardinality(1..N) = N
    BY <1>1, FS_Interval
  <2> HIDE DEF rank, N
  <2>3. Cardinality(D) = Cardinality(1..N)
    BY <2>2 DEF N
  <2> QED BY <2>1, <2>2, <2>3, FS_Injection
<1> DEFINE at == [n \in 1..N |-> CHOOSE i \in D : rank[i] = n]
<1>8. \A n \in 1..N : at[n] \in D /\ rank[at[n]] = n
  <2>1. \A n \in 1..N : \E i \in D : rank[i] = n
    BY <1>7 DEF Surjection
  <2> HIDE DEF rank, N
  <2> QED BY <2>1
<1> HIDE DEF at
<1>9. at \in [1..N -> D]
  BY <1>8 DEF at
<1>10. \A i \in D : \E n \in 1..N : at[n] = i
  <2>1. \A i \in D : rank[i] \in 1..N
    BY <1>5
  <2> HIDE DEF rank
  <2> QED BY <1>6, <1>8, <2>1
<1>11. ASSUME NEW m \in 1..N, NEW n \in 1..N, m < n
       PROVE  at[m] \in prior[at[n]]
  <2>1. at[m] \in D /\ at[n] \in D /\ rank[at[m]] = m /\ rank[at[n]] = n
    BY <1>8
  <2>2. at[m] # at[n]
    BY <1>11, <2>1
  <2>3. at[n] \notin prior[at[m]]
    <3>1. SUFFICES ASSUME at[n] \in prior[at[m]] PROVE FALSE
      OBVIOUS
    <3>2. Cardinality(prior[at[n]]) < Cardinality(prior[at[m]])
      BY <1>4, <2>1, <3>1
    <3>3. Cardinality(prior[at[n]]) + 1 = n /\ Cardinality(prior[at[m]]) + 1 = m
      BY <2>1
    <3> QED BY <1>2, <1>11, <2>1, <3>2, <3>3
  <2> QED BY <2>1, <2>2, <2>3 DEF IsOrder
<1> QED BY <1>1, <1>9, <1>10, <1>11 DEF Lists

\* An arrangement goes by any list of its order.
LEMMA ArrangedIs ==
    ASSUME NEW prior, IsOrder(prior), NEW at, NEW count, Lists(at, count, prior), NEW s
    PROVE  Arranged(s, prior) = [n \in 1..count |-> s[at[n]]]
<1>1. Cardinality(DOMAIN prior) = count
  BY ListedByRank
<1>2. \A n \in 1..count : at[n] = CHOOSE i \in DOMAIN prior : Cardinality(prior[i]) = n - 1
  BY ListedByRank
<1>3. Arranged(s, prior) =
        [n \in 1..count |-> s[CHOOSE i \in DOMAIN prior : Cardinality(prior[i]) = n - 1]]
  BY <1>1 DEF Arranged
<1> QED BY <1>2, <1>3

-----------------------------------------------------------------------------
(* What is left of a sequence.                                              *)

\* at goes up through all of a set of indices.
Climbs(at, count, indices) ==
    /\ count \in Nat
    /\ at \in [1..count -> indices]
    /\ \A i \in indices : \E n \in 1..count : at[n] = i
    /\ \A m, n \in 1..count : m < n => at[m] < at[n]

LEMMA UpwardsIsOrder ==
    ASSUME NEW indices \in SUBSET Nat, IsFiniteSet(indices)
    PROVE  IsOrder([i \in indices |-> {j \in indices : j < i}])
<1> DEFINE prior == [i \in indices |-> {j \in indices : j < i}]
<1>1. \A i \in indices : prior[i] \subseteq indices /\ i \notin prior[i]
  OBVIOUS
<1>2. \A i \in indices : \A j \in prior[i] : prior[j] \subseteq prior[i]
  <2>1. ASSUME NEW i \in indices, NEW j \in prior[i], NEW k \in prior[j]
        PROVE  k \in prior[i]
    <3>1. i \in Nat /\ j \in indices /\ j \in Nat /\ j < i
      OBVIOUS
    <3>2. k \in indices /\ k \in Nat /\ k < j
      BY <3>1
    <3> QED BY <3>1, <3>2
  <2> QED BY <2>1
<1>3. \A i, j \in indices : i = j \/ i \in prior[j] \/ j \in prior[i]
  OBVIOUS
<1>4. DOMAIN prior = indices
  OBVIOUS
<1> HIDE DEF prior
<1> QED BY <1>1, <1>2, <1>3, <1>4 DEF IsOrder, prior

\* Whatever climbs through the indices says what Only has.
LEMMA OnlyIs ==
    ASSUME NEW indices \in SUBSET Nat, IsFiniteSet(indices), NEW at, NEW count,
           Climbs(at, count, indices), NEW s
    PROVE  /\ Only(s, indices) = [n \in 1..count |-> s[at[n]]]
           /\ Cardinality(indices) = count
<1> DEFINE prior == [i \in indices |-> {j \in indices : j < i}]
<1>1. IsOrder(prior)
  BY UpwardsIsOrder
<1>2. DOMAIN prior = indices
  OBVIOUS
<1>3. Lists(at, count, prior)
  BY DEF Climbs, Lists
<1> HIDE DEF prior
<1>4. Only(s, indices) = Arranged(s, prior)
  BY DEF Only, prior
<1> QED BY <1>1, <1>2, <1>3, <1>4, ArrangedIs, ListedByRank

LEMMA ClimbExists ==
    ASSUME NEW indices \in SUBSET Nat, IsFiniteSet(indices)
    PROVE  \E at : Climbs(at, Cardinality(indices), indices)
<1> DEFINE prior == [i \in indices |-> {j \in indices : j < i}]
<1>1. IsOrder(prior)
  BY UpwardsIsOrder
<1>2. DOMAIN prior = indices
  OBVIOUS
<1>3. PICK at : Lists(at, Cardinality(indices), prior)
  <2> HIDE DEF prior
  <2> QED BY <1>1, <1>2, ListExists
<1> QED BY <1>3 DEF Lists, Climbs

\* What climbs through a set climbs through what it has up to a bound first.
LEMMA ClimbsUpTo ==
    ASSUME NEW indices \in SUBSET Nat, NEW at, NEW count, Climbs(at, count, indices), NEW k \in Nat
    PROVE  \E m \in 0..count :
              /\ Climbs([n \in 1..m |-> at[n]], m, {i \in indices : i <= k})
              /\ m < count => at[m + 1] > k
<1> DEFINE beyond == {n \in 1..count : at[n] > k}
           m == IF beyond = {} THEN count ELSE Min(beyond) - 1
<1>1. beyond \subseteq Nat
  OBVIOUS
<1>2. beyond # {} => Min(beyond) \in beyond /\ \A x \in beyond : Min(beyond) <= x
  BY <1>1, LeastExists
<1>3. m \in 0..count
  BY <1>2 DEF Climbs
<1>4. m < count => at[m + 1] > k
  BY <1>2 DEF Climbs
<1>5. \A n \in 1..m : at[n] <= k
  <2>1. \A n \in 1..m : n \in 1..count /\ n \notin beyond
    BY <1>2, <1>3 DEF Climbs
  <2>2. \A n \in 1..count : at[n] \in Nat
    BY DEF Climbs
  <2> HIDE DEF m
  <2> QED BY <2>1, <2>2
<1>6. \A n \in 1..count : at[n] <= k => n \in 1..m
  <2>1. SUFFICES ASSUME NEW n \in 1..count, at[n] <= k, n > m PROVE FALSE
    BY <1>3 DEF Climbs
  <2>2. m < count /\ m + 1 \in 1..count
    BY <1>3, <2>1 DEF Climbs
  <2> HIDE DEF m
  <2>4. at[m + 1] \in Nat /\ at[n] \in Nat
    BY <2>2 DEF Climbs
  <2>3. at[m + 1] <= at[n]
    <3>1. m + 1 = n \/ m + 1 < n
      BY <1>3, <2>1
    <3> QED BY <2>2, <2>4, <3>1 DEF Climbs
  <2> QED BY <1>4, <2>1, <2>2, <2>3, <2>4
<1> HIDE DEF m
<1>7. Climbs([n \in 1..m |-> at[n]], m, {i \in indices : i <= k})
  BY <1>3, <1>5, <1>6 DEF Climbs
<1> QED BY <1>3, <1>4, <1>7

\* The indices of a list are finitely many.
LEMMA IndicesAre ==
    ASSUME NEW s, IsList(s), NEW I \in SUBSET DOMAIN s
    PROVE  /\ DOMAIN s = 1..Len(s) /\ Len(s) \in Nat
           /\ I \in SUBSET Nat /\ IsFiniteSet(I)
           /\ \A i \in I : s[i] \in ToSet(s)
<1>1. s \in Seq(ToSet(s))
  BY DEF IsList
<1>2. DOMAIN s = 1..Len(s) /\ Len(s) \in Nat
  BY <1>1
<1>3. IsFiniteSet(1..Len(s))
  BY <1>2, FS_Interval
<1>4. IsFiniteSet(I)
  BY <1>2, <1>3, FS_Subset
<1> QED BY <1>2, <1>4 DEF ToSet

\* A list without elements is empty.
LEMMA EmptyIs ==
    ASSUME NEW s, IsList(s)
    PROVE  s = << >> <=> ToSet(s) = {}
<1>1. s \in Seq(ToSet(s)) /\ DOMAIN s = 1..Len(s) /\ Len(s) \in Nat
  BY IndicesAre DEF IsList
<1>2. s = << >> => ToSet(s) = {}
  BY DEF ToSet
<1>3. ASSUME ToSet(s) = {}
      PROVE  s = << >>
  <2>1. Len(s) = 0
    <3>1. SUFFICES ASSUME Len(s) # 0 PROVE FALSE
      OBVIOUS
    <3>2. 1 \in DOMAIN s
      BY <1>1, <3>1
    <3> QED BY <1>3, <3>2 DEF ToSet
  <2> QED BY <1>1, <2>1
<1> QED BY <1>2, <1>3

\* What is left has what was at the indices, as often.
LEMMA OnlyHas ==
    ASSUME NEW s, NEW I \in SUBSET Nat, IsFiniteSet(I)
    PROVE  /\ IsList(Only(s, I))
           /\ ToSet(Only(s, I)) = {s[i] : i \in I}
           /\ Only(s, I) = << >> <=> I = {}
           /\ Len(Only(s, I)) = Cardinality(I)
<1>1. PICK at : Climbs(at, Cardinality(I), I)
  BY ClimbExists
<1> DEFINE c == Cardinality(I)
           t == Only(s, I)
<1>2. t = [n \in 1..c |-> s[at[n]]]
  BY <1>1, OnlyIs
<1>3. c \in Nat /\ at \in [1..c -> I] /\ \A i \in I : \E n \in 1..c : at[n] = i
  BY <1>1 DEF Climbs
<1> HIDE DEF c, t
<1>4. DOMAIN t = 1..c /\ \A n \in 1..c : t[n] = s[at[n]]
  BY <1>2
<1>5. ToSet(t) = {s[i] : i \in I}
  <2>1. ToSet(t) = {t[n] : n \in 1..c}
    BY <1>4 DEF ToSet
  <2>2. \A n \in 1..c : t[n] = s[at[n]] /\ at[n] \in I
    BY <1>3, <1>4
  <2>3. \A i \in I : \E n \in 1..c : t[n] = s[i]
    BY <1>3, <2>2
  <2>4. {t[n] : n \in 1..c} \subseteq {s[i] : i \in I}
    <3>1. ASSUME NEW n \in 1..c
          PROVE  \E i \in I : t[n] = s[i]
      BY <2>2
    <3> QED BY <3>1
  <2>5. {s[i] : i \in I} \subseteq {t[n] : n \in 1..c}
    BY <2>3
  <2> QED BY <2>1, <2>4, <2>5
<1>6. t \in Seq(ToSet(t))
  <2>1. t \in [1..c -> ToSet(t)]
    BY <1>2, <1>4 DEF ToSet
  <2> QED BY <1>3, <2>1
<1>7. Len(t) = c
  BY <1>3, <1>4, <1>6
<1>8. t = << >> <=> I = {}
  <2>1. t = << >> <=> c = 0
    BY <1>3, <1>6, <1>7
  <2>2. c = 0 <=> I = {}
    <3>1. I = {} => c = 0
      <4>1. SUFFICES ASSUME I = {}, c # 0 PROVE FALSE
        OBVIOUS
      <4>2. 1 \in 1..c
        BY <1>3, <4>1
      <4> QED BY <1>3, <4>1, <4>2
    <3>2. c = 0 => I = {}
      BY <1>3
    <3> QED BY <3>1, <3>2
  <2> QED BY <2>1, <2>2
<1> QED BY <1>5, <1>6, <1>7, <1>8 DEF IsList, c, t

\* at goes through all indices of s, by their keys, once each.
Sorts(at, s, key) ==
    /\ at \in [1..Len(s) -> DOMAIN s]
    /\ \A i \in DOMAIN s : \E n \in 1..Len(s) : at[n] = i
    /\ \A m, n \in 1..Len(s) : m < n => /\ at[m] # at[n]
                                        /\ key[at[m]] <= key[at[n]]

\* A sorted list has every element as often as before, and rises by the keys.
LEMMA SortedHas ==
    ASSUME NEW s, IsList(s), NEW key \in [DOMAIN s -> Int]
    PROVE  /\ \E at : Sorts(at, s, key) /\ SortedBy(s, key) = [n \in 1..Len(s) |-> s[at[n]]]
           /\ IsList(SortedBy(s, key))
           /\ ToSet(SortedBy(s, key)) = ToSet(s)
           /\ Len(SortedBy(s, key)) = Len(s)
<1> DEFINE D == DOMAIN s
           prior == [i \in D |-> {j \in D : key[j] < key[i] \/ (key[j] = key[i] /\ j < i)}]
           t == SortedBy(s, key)
<1>1. D = 1..Len(s) /\ Len(s) \in Nat /\ IsFiniteSet(D)
  BY IndicesAre
<1>2. Cardinality(D) = Len(s)
  <2>1. Cardinality(1..Len(s)) = IF 1 > Len(s) THEN 0 ELSE Len(s) - 1 + 1
    BY <1>1, FS_Interval
  <2> QED BY <1>1, <2>1
<1>3. IsOrder(prior)
  <2>1. \A i \in D : prior[i] \subseteq D /\ i \notin prior[i]
    BY <1>1
  <2>2. ASSUME NEW i \in D, NEW j \in prior[i], NEW k \in prior[j]
        PROVE  k \in prior[i]
    <3>1. j \in D /\ (key[j] < key[i] \/ (key[j] = key[i] /\ j < i))
      OBVIOUS
    <3>2. k \in D /\ (key[k] < key[j] \/ (key[k] = key[j] /\ k < j))
      BY <3>1
    <3>3. key[i] \in Int /\ key[j] \in Int /\ key[k] \in Int /\ i \in Nat /\ j \in Nat /\ k \in Nat
      BY <1>1, <3>1, <3>2
    <3> QED BY <3>1, <3>2, <3>3
  <2>3. \A i, j \in D : i = j \/ i \in prior[j] \/ j \in prior[i]
    BY <1>1
  <2>4. DOMAIN prior = D
    OBVIOUS
  <2> HIDE DEF prior, D
  <2> QED BY <1>1, <2>1, <2>2, <2>3, <2>4 DEF IsOrder
<1>4. PICK at : Lists(at, Len(s), prior)
  <2>1. DOMAIN prior = D
    OBVIOUS
  <2> HIDE DEF prior, D
  <2> QED BY <1>2, <1>3, <2>1, ListExists
<1>5. Sorts(at, s, key)
  <2>1. /\ at \in [1..Len(s) -> D] /\ \A i \in D : \E n \in 1..Len(s) : at[n] = i
        /\ \A m, n \in 1..Len(s) : m < n => at[m] \in prior[at[n]]
    <3>1. DOMAIN prior = D
      OBVIOUS
    <3> HIDE DEF prior, D
    <3> QED BY <1>4, <3>1 DEF Lists
  <2>2. ASSUME NEW m \in 1..Len(s), NEW n \in 1..Len(s), m < n
        PROVE  at[m] # at[n] /\ key[at[m]] <= key[at[n]]
    <3>1. at[m] \in D /\ at[n] \in D /\ at[m] \in prior[at[n]]
      BY <2>1, <2>2
    <3>2. key[at[m]] < key[at[n]] \/ (key[at[m]] = key[at[n]] /\ at[m] < at[n])
      BY <3>1
    <3> QED BY <1>1, <3>1, <3>2
  <2> QED BY <2>1, <2>2 DEF Sorts
<1>6. t = [n \in 1..Len(s) |-> s[at[n]]]
  <2>1. t = Arranged(s, prior)
    BY DEF SortedBy
  <2> HIDE DEF prior, t
  <2> QED BY <1>3, <1>4, <2>1, ArrangedIs
<1> HIDE DEF prior, t, D
<1>7. DOMAIN t = 1..Len(s) /\ \A n \in 1..Len(s) : t[n] = s[at[n]]
  BY <1>6
<1>8. ToSet(t) = ToSet(s)
  BY <1>5, <1>7 DEF ToSet, Sorts
<1>9. t \in Seq(ToSet(t))
  <2>1. t \in [1..Len(s) -> ToSet(t)]
    BY <1>6, <1>7 DEF ToSet
  <2> QED BY <1>1, <2>1
<1>10. Len(t) = Len(s)
  BY <1>1, <1>7, <1>9
<1> QED BY <1>5, <1>6, <1>8, <1>9, <1>10 DEF IsList, t

\* The first n of s, or all of them.
LEMMA TakeIs ==
    ASSUME NEW S, NEW s \in Seq(S), NEW n \in Nat
    PROVE  /\ Take(s, n) = [i \in 1..(IF n < Len(s) THEN n ELSE Len(s)) |-> s[i]]
           /\ Take(s, n) \in Seq(S)
           /\ Len(Take(s, n)) = IF n < Len(s) THEN n ELSE Len(s)
<1> DEFINE k == IF n < Len(s) THEN n ELSE Len(s)
<1>1. k \in 0..Len(s) /\ Len(s) \in Nat
  OBVIOUS
<1>2. SubSeq(s, 1, k) = [i \in 1..k |-> s[i]]
  <2> HIDE DEF k
  <2>1. SubSeq(s, 1, k) = [i \in 1..(k - 1 + 1) |-> s[i + 1 - 1]]
    BY <1>1
  <2> QED BY <1>1, <2>1
<1>3. SubSeq(s, 1, k) \in Seq(S) /\ Len(SubSeq(s, 1, k)) = k
  <2> HIDE DEF k
  <2> QED BY <1>1
<1> QED BY <1>2, <1>3 DEF Take

\* Lists one after the other: what is in one of them.
LEMMA FlattenIs ==
    ASSUME NEW ss, IsList(ss), \A i \in DOMAIN ss : IsList(ss[i])
    PROVE  /\ IsList(FlattenSeq(ss))
           /\ ToSet(FlattenSeq(ss)) = UNION {ToSet(ss[i]) : i \in DOMAIN ss}
<1> DEFINE n == Len(ss)
           all == UNION {ToSet(ss[i]) : i \in DOMAIN ss}
           Part(k) == UNION {ToSet(ss[i]) : i \in 1..k}
           Goes(f, k) == /\ f = [i \in 1..k |-> IF i = 1 THEN ss[i] ELSE f[i - 1] \o ss[i]]
                         /\ \A i \in 1..k : f[i] \in Seq(all) /\ ToSet(f[i]) = Part(i)
           missing == {k \in 1..n : ~\E f : Goes(f, k)}
<1>1. DOMAIN ss = 1..n /\ n \in Nat
  BY IndicesAre
<1> HIDE DEF n
<1>2. \A i \in 1..n : ss[i] \in Seq(all)
  <2>1. ASSUME NEW i \in 1..n
        PROVE  ss[i] \in Seq(all)
    <3>1. ss[i] \in Seq(ToSet(ss[i])) /\ ToSet(ss[i]) \subseteq all
      BY <1>1 DEF IsList
    <3> HIDE DEF all
    <3> QED BY <3>1
  <2> QED BY <2>1
<1>3. ASSUME NEW S, NEW a \in Seq(S), NEW b \in Seq(S)
      PROVE  a \o b \in Seq(S) /\ ToSet(a \o b) = ToSet(a) \cup ToSet(b)
  <2>1. /\ a \o b \in Seq(S) /\ DOMAIN (a \o b) = 1..Len(a) + Len(b)
        /\ \A i \in 1..Len(a) : (a \o b)[i] = a[i]
        /\ \A i \in 1..Len(b) : (a \o b)[Len(a) + i] = b[i]
        /\ DOMAIN a = 1..Len(a) /\ DOMAIN b = 1..Len(b) /\ Len(a) \in Nat /\ Len(b) \in Nat
    OBVIOUS
  <2>2. ToSet(a \o b) \subseteq ToSet(a) \cup ToSet(b)
    <3>1. ASSUME NEW i \in 1..Len(a) + Len(b)
          PROVE  (a \o b)[i] \in ToSet(a) \cup ToSet(b)
      <4>1. CASE i <= Len(a)
        BY <2>1, <4>1 DEF ToSet
      <4>2. CASE i > Len(a)
        <5>1. i - Len(a) \in 1..Len(b) /\ i = Len(a) + (i - Len(a))
          BY <2>1, <4>2
        <5> QED BY <2>1, <5>1 DEF ToSet
      <4> QED BY <2>1, <4>1, <4>2
    <3> QED BY <2>1, <3>1 DEF ToSet
  <2>3. ToSet(a) \subseteq ToSet(a \o b)
    <3>1. \A i \in 1..Len(a) : i \in DOMAIN (a \o b)
      BY <2>1
    <3> QED BY <2>1, <3>1 DEF ToSet
  <2>4. ToSet(b) \subseteq ToSet(a \o b)
    <3>1. \A i \in 1..Len(b) : Len(a) + i \in DOMAIN (a \o b)
      BY <2>1
    <3> QED BY <2>1, <3>1 DEF ToSet
  <2> QED BY <2>1, <2>2, <2>3, <2>4
<1>4. missing = {}
  <2>1. SUFFICES ASSUME missing # {} PROVE FALSE
    OBVIOUS
  <2> DEFINE k == Min(missing)
  <2>2. k \in missing /\ \A x \in missing : k <= x
    <3>1. missing \in SUBSET Nat
      <4> HIDE DEF Goes
      <4> QED BY <1>1
    <3> HIDE DEF missing
    <3> QED BY <2>1, <3>1, LeastExists
  <2> HIDE DEF k
  <2>3. k \in 1..n
    BY <2>2
  <2>4. CASE k = 1
    <3> DEFINE f == [i \in 1..1 |-> ss[1]]
    <3>1. f = [i \in 1..1 |-> IF i = 1 THEN ss[i] ELSE f[i - 1] \o ss[i]]
      OBVIOUS
    <3>2. Part(1) = ToSet(ss[1])
      OBVIOUS
    <3>3. \A i \in 1..1 : f[i] \in Seq(all) /\ ToSet(f[i]) = Part(i)
      <4> HIDE DEF all, Part
      <4> QED BY <1>2, <2>3, <2>4, <3>2
    <3>4. Goes(f, 1)
      <4> HIDE DEF all, Part, f
      <4> QED BY <3>1, <3>3
    <3> HIDE DEF f, Goes
    <3> QED BY <2>2, <2>4, <3>4
  <2>5. CASE k # 1
    <3>1. k - 1 \in 1..n /\ k - 1 \notin missing
      <4>1. k - 1 \in 1..n /\ ~(k <= k - 1)
        BY <1>1, <2>3, <2>5
      <4> HIDE DEF missing
      <4> QED BY <2>2, <4>1
    <3>2. PICK g : Goes(g, k - 1)
      BY <3>1
    <3> DEFINE f == [i \in 1..k |-> IF i = k THEN g[k - 1] \o ss[k] ELSE g[i]]
    <3>3. /\ g = [i \in 1..k - 1 |-> IF i = 1 THEN ss[i] ELSE g[i - 1] \o ss[i]]
          /\ \A i \in 1..k - 1 : g[i] \in Seq(all) /\ ToSet(g[i]) = Part(i)
      BY <3>2
    <3> HIDE DEF Goes
    <3>4. f = [i \in 1..k |-> IF i = 1 THEN ss[i] ELSE f[i - 1] \o ss[i]]
      <4>1. ASSUME NEW i \in 1..k
            PROVE  f[i] = IF i = 1 THEN ss[i] ELSE f[i - 1] \o ss[i]
        <5>1. CASE i = k
          <6>1. k - 1 \in 1..k /\ k - 1 # k
            BY <3>1, <2>3, <1>1
          <6>2. f[k - 1] = g[k - 1]
            BY <6>1
          <6> QED BY <2>5, <5>1, <6>2
        <5>2. CASE i # k
          <6>1. i \in 1..k - 1
            BY <5>2, <2>3, <1>1
          <6>2. g[i] = IF i = 1 THEN ss[i] ELSE g[i - 1] \o ss[i]
            BY <3>3, <6>1
          <6>3. i # 1 => f[i - 1] = g[i - 1]
            BY <6>1, <2>3, <1>1
          <6>4. f[i] = g[i]
            BY <5>2
          <6> HIDE DEF f
          <6> QED BY <6>2, <6>3, <6>4
        <5> QED BY <5>1, <5>2
      <4>2. DOMAIN f = 1..k /\ f = [i \in 1..k |-> f[i]]
        OBVIOUS
      <4> HIDE DEF f
      <4> QED BY <4>1, <4>2
    <3>5. \A i \in 1..k : f[i] \in Seq(all) /\ ToSet(f[i]) = Part(i)
      <4>1. f[k] \in Seq(all) /\ ToSet(f[k]) = Part(k)
        <5>1. f[k] = g[k - 1] \o ss[k]
          BY <2>3, <1>1
        <5>2. g[k - 1] \in Seq(all) /\ ToSet(g[k - 1]) = Part(k - 1) /\ ss[k] \in Seq(all)
          <6> HIDE DEF Part, all
          <6> QED BY <1>2, <2>3, <2>5, <3>3, <1>1
        <5>3. f[k] \in Seq(all) /\ ToSet(f[k]) = Part(k - 1) \cup ToSet(ss[k])
          <6> HIDE DEF Part, all, f
          <6> QED BY <1>3, <5>1, <5>2
        <5>4. 1..k = (1..k - 1) \cup {k}
          BY <2>3, <1>1
        <5>5. Part(k) = Part(k - 1) \cup ToSet(ss[k])
          BY <5>4
        <5> QED BY <5>3, <5>5
      <4>2. \A i \in 1..k : i # k => i \in 1..k - 1 /\ f[i] = g[i]
        BY <2>3, <1>1
      <4> HIDE DEF Part, all, f
      <4> QED BY <3>3, <4>1, <4>2
    <3>6. Goes(f, k)
      <4> HIDE DEF Part, all, f
      <4> QED BY <3>4, <3>5 DEF Goes
    <3> HIDE DEF f
    <3> QED BY <2>2, <3>6
  <2> QED BY <2>4, <2>5
<1>5. CASE n = 0
  <2>1. ss = << >>
    BY <1>1, <1>5 DEF IsList, n
  <2>2. FlattenSeq(ss) = << >>
    BY <2>1 DEF FlattenSeq
  <2>3. DOMAIN << >> = {}
    OBVIOUS
  <2> QED BY <2>1, <2>2, <2>3 DEF ToSet, IsList
<1>6. CASE n # 0
  <2>1. n \in 1..n
    BY <1>1, <1>6
  <2>2. PICK f : Goes(f, n)
    BY <1>4, <2>1
  <2> DEFINE Flat(g) == g = [i \in 1..n |-> IF i = 1 THEN ss[i] ELSE g[i - 1] \o ss[i]]
             h == CHOOSE g : Flat(g)
  <2>3. Flat(h)
    <3>1. Flat(f)
      BY <2>2
    <3> HIDE DEF Flat
    <3> QED BY <3>1
  <2>4. FlattenSeq(ss) = h[n]
    BY <1>6 DEF FlattenSeq, n
  <2> HIDE DEF h
  <2> DEFINE differ == {i \in 1..n : h[i] # f[i]}
  <2>5. differ = {}
    <3>1. SUFFICES ASSUME differ # {} PROVE FALSE
      OBVIOUS
    <3> DEFINE k == Min(differ)
    <3>2. k \in differ /\ \A x \in differ : k <= x
      <4>1. differ \in SUBSET Nat
        BY <1>1
      <4> HIDE DEF differ
      <4> QED BY <3>1, <4>1, LeastExists
    <3> HIDE DEF k
    <3>3. k \in 1..n /\ h[k] # f[k]
      BY <3>2
    <3>4. h[k] = IF k = 1 THEN ss[k] ELSE h[k - 1] \o ss[k]
      BY <2>3, <3>3
    <3>5. f[k] = IF k = 1 THEN ss[k] ELSE f[k - 1] \o ss[k]
      BY <2>2, <3>3
    <3>6. k # 1 => k - 1 \in 1..n /\ k - 1 \notin differ
      BY <3>2, <3>3, <1>1
    <3>7. k # 1 => h[k - 1] = f[k - 1]
      BY <3>6
    <3> QED BY <3>3, <3>4, <3>5, <3>7
  <2>6. h[n] = f[n]
    BY <2>1, <2>5
  <2>7. f[n] \in Seq(all) /\ ToSet(f[n]) = Part(n)
    <3> HIDE DEF all, Part
    <3> QED BY <2>1, <2>2
  <2>8. Part(n) = all
    BY <1>1
  <2> HIDE DEF all, Part
  <2>9. f[n] \in Seq(ToSet(f[n]))
    BY <2>7, <2>8
  <2> QED BY <2>4, <2>6, <2>7, <2>8, <2>9 DEF IsList, all
<1> QED BY <1>5, <1>6

LEMMA SeqIsList == ASSUME NEW S, NEW s \in Seq(S) PROVE IsList(s)
<1>1. \A i \in DOMAIN s : s[i] \in ToSet(s)
  BY DEF ToSet
<1>2. s \in [1..Len(s) -> ToSet(s)]
  BY <1>1
<1> QED BY <1>2 DEF IsList

\* What comes first by a key, at which indices it is.
Leads(shown, k, to, s, key, limit) ==
    /\ k = IF limit < Len(s) THEN limit ELSE Len(s)
    /\ shown = [n \in 1..k |-> s[to[n]]] /\ IsList(shown) /\ Len(shown) = k
    /\ \A n \in 1..k : to[n] \in DOMAIN s
    /\ \A m, n \in 1..k : m <= n => key[to[m]] <= key[to[n]]
    /\ \A x \in ToSet(s) \ ToSet(shown) :
          \E j \in DOMAIN s : s[j] = x /\ \A n \in 1..k : key[to[n]] <= key[j]

\* What comes first by a key, and what is left out.
LEMMA FirstSortedIs ==
    ASSUME NEW s, IsList(s), NEW key \in [DOMAIN s -> Int], NEW limit \in Nat
    PROVE  \E k, to : Leads(Take(SortedBy(s, key), limit), k, to, s, key, limit)
<1> DEFINE sorted == SortedBy(s, key)
           shown == Take(sorted, limit)
<1>1. PICK c : c = Len(s) /\ c \in Nat /\ DOMAIN s = 1..c
  BY IndicesAre
<1>2. PICK k : k = IF limit < c THEN limit ELSE c
  OBVIOUS
<1>3. PICK to : Sorts(to, s, key) /\ sorted = [n \in 1..Len(s) |-> s[to[n]]]
  BY SortedHas
<1>4. IsList(sorted) /\ Len(sorted) = c /\ ToSet(sorted) = ToSet(s)
  BY <1>1, SortedHas
<1> HIDE DEF sorted
<1>5. sorted \in Seq(ToSet(s)) /\ DOMAIN sorted = 1..c
  BY <1>4, IndicesAre DEF IsList
<1>6. shown = [n \in 1..k |-> sorted[n]] /\ shown \in Seq(ToSet(s)) /\ Len(shown) = k
  BY <1>2, <1>4, <1>5, TakeIs
<1>7. k \in Nat /\ k <= c
  BY <1>1, <1>2
<1> HIDE DEF shown
<1>8. \A n \in 1..k : n \in 1..c
  BY <1>1, <1>7
<1>9. DOMAIN shown = 1..k /\ \A n \in 1..k : shown[n] = sorted[n] /\ sorted[n] = s[to[n]]
  BY <1>1, <1>3, <1>6, <1>8
<1>10. shown = [n \in 1..k |-> s[to[n]]]
  BY <1>6, <1>9
<1>11. IsList(shown)
  <2>1. shown \in [1..k -> ToSet(shown)]
    <3>1. \A n \in 1..k : shown[n] \in ToSet(shown)
      BY <1>9 DEF ToSet
    <3> QED BY <1>9, <1>6, <3>1
  <2> QED BY <1>7, <2>1 DEF IsList
<1>12. \A n \in 1..c : to[n] \in DOMAIN s
  BY <1>1, <1>3 DEF Sorts
<1>13. \A m, n \in 1..c : m < n => key[to[m]] <= key[to[n]]
  BY <1>1, <1>3 DEF Sorts
<1>14. \A n \in 1..c : key[to[n]] \in Int
  BY <1>12
<1>15. \A m, n \in 1..k : m <= n => key[to[m]] <= key[to[n]]
  <2>1. ASSUME NEW m \in 1..k, NEW n \in 1..k, m <= n PROVE key[to[m]] <= key[to[n]]
    <3>1. m \in 1..c /\ n \in 1..c /\ (m = n \/ m < n)
      BY <1>7, <1>8, <2>1
    <3> QED BY <1>13, <1>14, <3>1
  <2> QED BY <2>1
<1>16. ASSUME NEW x \in ToSet(s) \ ToSet(shown)
       PROVE  \E j \in DOMAIN s : s[j] = x /\ \A n \in 1..k : key[to[n]] <= key[j]
  <2>1. PICK m \in 1..c : sorted[m] = x
    BY <1>4, <1>5 DEF ToSet
  <2>2. ~(m <= k)
    <3>1. SUFFICES ASSUME m <= k PROVE FALSE
      OBVIOUS
    <3>2. m \in 1..k
      BY <1>1, <1>7, <3>1
    <3> QED BY <1>9, <2>1, <3>2 DEF ToSet
  <2>3. s[to[m]] = x
    BY <1>1, <1>3, <2>1
  <2>4. \A n \in 1..k : n \in 1..c /\ n < m
    BY <1>1, <1>7, <2>2
  <2> QED BY <1>12, <1>13, <2>3, <2>4
<1>17. Leads(shown, k, to, s, key, limit)
  BY <1>1, <1>2, <1>6, <1>8, <1>10, <1>11, <1>12, <1>15, <1>16 DEF Leads
<1> HIDE DEF shown
<1> QED BY <1>17 DEF shown, sorted

\* What goes as far as m in t is a prefix of it.
LEMMA FirstPartIs ==
    ASSUME NEW t, IsList(t), NEW m \in 0..Len(t), NEW s, s = [n \in 1..m |-> t[n]]
    PROVE  IsPrefix(s, t)
<1>1. t \in Seq(ToSet(t)) /\ DOMAIN t = 1..Len(t) /\ Len(t) \in Nat
  BY IndicesAre DEF IsList
<1>2. \A n \in 1..m : t[n] \in ToSet(t)
  BY <1>1 DEF ToSet
<1>3. s \in Seq(ToSet(t)) /\ Len(s) = m
  BY <1>1, <1>2
<1>4. SubSeq(t, 1, m) = s
  <2>1. SubSeq(t, 1, m) = [n \in 1..m - 1 + 1 |-> t[n + 1 - 1]]
    BY <1>1
  <2> QED BY <1>1, <2>1
<1>5. SubSeq(s, 1, m) = s
  BY <1>3, SubSeqFull
<1> QED BY <1>1, <1>3, <1>4, <1>5 DEF IsPrefix

-----------------------------------------------------------------------------
(* Brightness.  The arithmetic of the curve and of its quantization.        *)

\* The lux values that readings and their averages may have.
Lux == UNION {0..top : top \in Readings}

LEMMA LuxType ==
    /\ Lux \subseteq Nat /\ None \notin Lux
    /\ \A r \in Readings : r >= 0 => r \in Lux
    /\ \A lux \in Lux : Curve(lux) \in 0..1000
<1>1. Readings \subseteq Int /\ None \notin Int
  BY LightAssumption DEF LightAssumption
<1>2. Lux \subseteq Nat
  BY <1>1 DEF Lux
<1>3. \A r \in Readings : r >= 0 => r \in Lux
  BY <1>1 DEF Lux
<1>4. \A lux \in Lux : Curve(lux) \in 0..1000
  <2> TAKE lux \in Lux
  <2>1. \E top \in Readings : lux \in 0..top
    BY DEF Lux
  <2>2. \A r \in Readings : \A l \in 0..r : Curve(l) \in 0..1000
    BY LightAssumption DEF LightAssumption
  <2> QED BY <2>1, <2>2, Zenon
<1>5. None \notin Lux
  <2>1. Lux \subseteq Int
    BY <1>2
  <2> QED BY <1>1, <2>1, Zenon
<1> QED BY <1>2, <1>3, <1>4, <1>5, Zenon

LEMMA SmoothedType ==
    ASSUME filtered \in Lux \cup {None}, NEW lux \in Lux
    PROVE  Smoothed(lux) \in Lux
<1>1. CASE filtered = None
  BY <1>1 DEF Smoothed
<1>2. CASE filtered # None
  <2>1. PICK a \in Readings : filtered \in 0..a
    BY <1>2 DEF Lux
  <2>2. PICK b \in Readings : lux \in 0..b
    BY DEF Lux
  <2>3. a \in Int /\ b \in Int
    BY LightAssumption DEF LightAssumption
  <2>4. Smoothed(lux) = (3 * filtered + lux) \div 4
    BY <1>2 DEF Smoothed
  <2>5. (3 * filtered + lux) \div 4 \in 0..a \/ (3 * filtered + lux) \div 4 \in 0..b
    BY <2>1, <2>2, <2>3
  <2> QED BY <2>4, <2>5 DEF Lux
<1> QED BY <1>1, <1>2

LEMMA ScaledRange ==
    ASSUME NEW k \in 0..1000, NEW d \in 0..100
    PROVE  (k * d) \div 10 \in 0..(100 * d)
<1>1. k * d >= 0
  BY Z3
<1>2. (1000 - k) * d >= 0
  BY Z3
<1>3. (1000 - k) * d = 1000 * d - k * d
  OBVIOUS
<1>4. k * d \in Int /\ k * d <= 1000 * d
  BY <1>2, <1>3
<1> QED BY <1>1, <1>4

\* The curve stays within the limits of its configuration.
LEMMA BrightnessInLimits ==
    ASSUME NEW c \in LightConfigs, NEW lux \in Lux
    PROVE  brightness_for_lux(c, lux) \in (100 * c.minimum)..(100 * c.maximum)
<1>1. c.minimum \in 10..100 /\ c.maximum \in 10..100 /\ c.minimum < c.maximum
  BY LightAssumption DEF LightAssumption
<1> DEFINE k == Curve(lux)
           d == c.maximum - c.minimum
<1>2. k \in 0..1000 /\ d \in 0..100
  <2>1. k \in 0..1000
    BY LuxType, Zenon
  <2>2. d \in 0..100
    BY <1>1
  <2> QED BY <2>1, <2>2
<1>3. (k * d) \div 10 \in 0..(100 * d)
  <2> HIDE DEF k, d
  <2> QED BY <1>2, ScaledRange
<1>4. 100 * c.minimum + (k * d) \div 10 \in (100 * c.minimum)..(100 * c.maximum)
  <2>1. 100 * c.minimum + 100 * d = 100 * c.maximum
    BY <1>1
  <2> HIDE DEF k, d
  <2> QED BY <1>1, <1>2, <1>3, <2>1
<1> QED BY <1>4 DEF brightness_for_lux

\* What it is rounded to is within the limits as well, and no further away than half a
\* step.
LEMMA QuantizedIsNear ==
    ASSUME NEW c \in LightConfigs, NEW v \in (100 * c.minimum)..(100 * c.maximum)
    PROVE  /\ quantize_brightness(v, c) \in c.minimum..c.maximum
           /\ Distance(v, quantize_brightness(v, c)) < Hysteresis
<1>1. c.minimum \in 10..100 /\ c.maximum \in 10..100 /\ c.minimum < c.maximum
  BY LightAssumption DEF LightAssumption
<1>2. v \in Int
  BY <1>1
<1> DEFINE stepped == 5 * ((2 * v + Step) \div (2 * Step))
<1>3. /\ stepped \in Int
      /\ v - 100 * stepped <= 250 /\ 100 * stepped - v <= 250
  BY <1>2 DEF Step
<1> HIDE DEF stepped
<1>4. quantize_brightness(v, c) =
         IF v <= 100 * c.minimum \/ stepped < c.minimum THEN c.minimum
         ELSE IF v >= 100 * c.maximum \/ stepped > c.maximum THEN c.maximum
         ELSE stepped
  BY DEF quantize_brightness, stepped
<1>5. CASE v <= 100 * c.minimum \/ stepped < c.minimum
  BY <1>1, <1>2, <1>3, <1>4, <1>5 DEF Distance, Hysteresis
<1>6. CASE ~(v <= 100 * c.minimum \/ stepped < c.minimum) /\ (v >= 100 * c.maximum \/ stepped > c.maximum)
  BY <1>1, <1>2, <1>3, <1>4, <1>6 DEF Distance, Hysteresis
<1>7. CASE ~(v <= 100 * c.minimum \/ stepped < c.minimum) /\ ~(v >= 100 * c.maximum \/ stepped > c.maximum)
  BY <1>1, <1>2, <1>3, <1>4, <1>7 DEF Distance, Hysteresis
<1> QED BY <1>5, <1>6, <1>7

-----------------------------------------------------------------------------
(* The controller and the deck.                                             *)

\* What the light called for last is right for what the light is.
Followed(c, lux, level) ==
    c.enabled /\ lux # None =>
        /\ level # None
        /\ c.minimum <= level /\ level <= c.maximum
        /\ Distance(brightness_for_lux(c, lux), level) < Hysteresis

\* The deck shows the brightness in force, unless its last write was refused.
Shining(c, level) == deck = "attached" /\ accepted => glass = effective_brightness(c, level)

LightInv ==
    /\ settings \in LightConfigs
    /\ filtered \in Lux \cup {None}
    /\ applied \in 0..100 \cup {None}
    /\ filtered = None => applied = None
    /\ light \in Seq(Lux)
    /\ deck \in {"new", "attached", "unplugged", "gone"}
    /\ Followed(settings, filtered, applied)
    /\ Shining(settings, applied)

LEMMA QuantizedFollows ==
    ASSUME NEW c \in LightConfigs, NEW lux \in Lux
    PROVE  /\ quantize_brightness(brightness_for_lux(c, lux), c) \in 0..100
           /\ quantize_brightness(brightness_for_lux(c, lux), c) # None
           /\ Followed(c, lux, quantize_brightness(brightness_for_lux(c, lux), c))
<1> DEFINE level == quantize_brightness(brightness_for_lux(c, lux), c)
<1>1. c.minimum \in 10..100 /\ c.maximum \in 10..100
  BY LightAssumption DEF LightAssumption
<1>2. brightness_for_lux(c, lux) \in (100 * c.minimum)..(100 * c.maximum)
  BY BrightnessInLimits
<1>3. level \in c.minimum..c.maximum /\ Distance(brightness_for_lux(c, lux), level) < Hysteresis
  BY <1>2, QuantizedIsNear
<1> HIDE DEF level
<1>4. level \in 0..100 /\ c.minimum <= level /\ level <= c.maximum
  BY <1>1, <1>3
<1>5. level # None
  <2>1. level \in Int
    BY <1>4
  <2> QED BY <2>1, LightAssumption, Zenon DEF LightAssumption
<1>6. Followed(c, lux, level)
  BY <1>3, <1>4, <1>5 DEF Followed
<1> QED BY <1>4, <1>5, <1>6 DEF level

LEMMA ReconfiguredFollows ==
    ASSUME NEW c \in LightConfigs, filtered \in Lux \cup {None}
    PROVE  /\ Reconfigured(c) \in 0..100 \cup {None}
           /\ filtered = None => Reconfigured(c) = None
           /\ Followed(c, filtered, Reconfigured(c))
<1>1. CASE c.enabled /\ filtered # None
  <2>1. Reconfigured(c) = quantize_brightness(brightness_for_lux(c, filtered), c)
    BY <1>1 DEF Reconfigured
  <2>2. filtered \in Lux
    BY <1>1
  <2> QED BY <1>1, <2>1, <2>2, QuantizedFollows
<1>2. CASE ~(c.enabled /\ filtered # None)
  BY <1>2 DEF Reconfigured, Followed
<1> QED BY <1>1, <1>2

\* A brightness that is kept is less than the hysteresis away.
LEMMA ChangedFollows ==
    ASSUME LightInv, NEW lux \in Lux
    PROVE  LET level == IF Changed(settings, lux) = None THEN applied ELSE Changed(settings, lux)
           IN  /\ level \in 0..100 \cup {None}
               /\ Followed(settings, lux, level)
<1> DEFINE target == quantize_brightness(brightness_for_lux(settings, lux), settings)
           far == Distance(brightness_for_lux(settings, lux), applied) >= Hysteresis
           level == IF Changed(settings, lux) = None THEN applied ELSE Changed(settings, lux)
<1>1. settings \in LightConfigs /\ applied \in 0..100 \cup {None}
  BY DEF LightInv
<1>2. target \in 0..100 /\ target # None /\ Followed(settings, lux, target)
  BY <1>1, QuantizedFollows
<1>3. Changed(settings, lux) =
        IF settings.enabled /\ (applied = None \/ (target # applied /\ far)) THEN target ELSE None
  BY DEF Changed
<1> HIDE DEF target
<1>4. CASE settings.enabled /\ (applied = None \/ (target # applied /\ far))
  BY <1>2, <1>3, <1>4
<1>5. CASE ~settings.enabled
  BY <1>1, <1>3, <1>5 DEF Followed
<1>6. CASE settings.enabled /\ applied = target
  BY <1>2, <1>3, <1>6
<1>7. CASE settings.enabled /\ applied # None /\ ~far
  <2>1. level = applied
    BY <1>3, <1>7
  <2>2. settings.minimum <= applied /\ applied <= settings.maximum
    BY <1>7 DEF LightInv, Followed
  <2>3. Distance(brightness_for_lux(settings, lux), applied) < Hysteresis
    <3>1. brightness_for_lux(settings, lux) \in (100 * settings.minimum)..(100 * settings.maximum)
      BY <1>1, BrightnessInLimits
    <3>2. settings.minimum \in 10..100 /\ settings.maximum \in 10..100
      BY <1>1, LightAssumption DEF LightAssumption
    <3>3. applied \in 0..100
      BY <1>1, <1>7
    <3> QED BY <1>7, <3>1, <3>2, <3>3 DEF Distance, Hysteresis
  <2> QED BY <1>1, <1>7, <2>1, <2>2, <2>3 DEF Followed
<1> QED BY <1>4, <1>5, <1>6, <1>7

LEMMA SetDeckBrightnessStep ==
    ASSUME NEW level, SetDeckBrightness(level), deck \in {"new", "attached", "unplugged", "gone"}
    PROVE  /\ deck' \in {"new", "attached", "unplugged", "gone"}
           /\ deck' = "attached" /\ accepted' => glass' = level
BY DEF SetDeckBrightness

LEMMA LightInvInit == LightInit => LightInv
<1> SUFFICES ASSUME LightInit
             PROVE  LightInv
  OBVIOUS
<1>1. settings \in LightConfigs /\ filtered \in Lux \cup {None}
  BY LuxType DEF LightInit
<1>2. applied = Reconfigured(settings)
  BY DEF LightInit, Reconfigured
<1>3. /\ applied \in 0..100 \cup {None}
      /\ filtered = None => applied = None
      /\ Followed(settings, filtered, applied)
  BY <1>1, <1>2, ReconfiguredFollows
<1>4. light \in Seq(Lux) /\ deck = "new"
  BY DEF LightInit
<1> QED BY <1>1, <1>3, <1>4 DEF LightInv, Shining

LEMMA LightInvStep == LightInv /\ LightNext => LightInv'
<1> SUFFICES ASSUME LightInv, LightNext
             PROVE  LightInv'
  OBVIOUS
<1> USE DEF LightInv
<1> DEFINE Same == settings' = settings /\ filtered' = filtered /\ applied' = applied
<1>1. Same => Followed(settings, filtered, applied)'
  BY DEF Followed, brightness_for_lux
<1>2. CASE StartDeck
  <2>1. Same /\ light' = light
    BY <1>2 DEF StartDeck
  <2>2. SetDeckBrightness(effective_brightness(settings, applied))
    BY <1>2 DEF StartDeck
  <2>3. /\ deck' \in {"new", "attached", "unplugged", "gone"}
        /\ deck' = "attached" /\ accepted' => glass' = effective_brightness(settings, applied)
    BY <2>2, SetDeckBrightnessStep
  <2> QED BY <1>1, <2>1, <2>3 DEF Shining, effective_brightness
<1>3. CASE MonitorPolls
  <2>1. Same /\ deck' = deck /\ glass' = glass /\ accepted' = accepted
    BY <1>3 DEF MonitorPolls
  <2>2. light' \in Seq(Lux)
    <3>1. CASE light' = light
      BY <3>1
    <3>2. CASE light' # light
      <4>1. PICK lux \in Readings \cup {None} : ~(lux = None \/ lux < 0) /\ light' = Append(light, lux)
        BY <1>3, <3>2 DEF MonitorPolls
      <4>2. lux \in Readings /\ lux \in Int
        BY <4>1, LightAssumption DEF LightAssumption
      <4>3. lux \in Lux
        BY <4>1, <4>2, LuxType
      <4> QED BY <4>1, <4>3
    <3> QED BY <3>1, <3>2
  <2> QED BY <1>1, <2>1, <2>2 DEF Shining, effective_brightness
<1>4. CASE LightArrives
  <2>1. light # << >> /\ Head(light) \in Lux /\ light' = Tail(light) /\ light' \in Seq(Lux)
    BY <1>4 DEF LightArrives
  <2>2. filtered' = Smoothed(Head(light)) /\ settings' = settings
    BY <1>4 DEF LightArrives
  <2>3. filtered' \in Lux /\ filtered' # None
    <3>1. filtered \in Lux \cup {None}
      OBVIOUS
    <3>2. Smoothed(Head(light)) \in Lux
      BY <2>1, <3>1, SmoothedType
    <3>3. None \notin Lux
      BY LuxType
    <3> QED BY <2>2, <3>2, <3>3
  <2> DEFINE level == Changed(settings, filtered')
  <2>4. applied' = IF level = None THEN applied ELSE level
    BY <1>4 DEF LightArrives
  <2>5. /\ applied' \in 0..100 \cup {None}
        /\ Followed(settings, filtered', applied')
    BY <2>3, <2>4, ChangedFollows
  <2>6. Followed(settings, filtered, applied)'
    BY <2>2, <2>5 DEF Followed, brightness_for_lux
  <2>7. CASE level = None
    <3>1. applied' = applied /\ deck' = deck /\ glass' = glass /\ accepted' = accepted
      BY <1>4, <2>7 DEF LightArrives
    <3> QED BY <2>1, <2>2, <2>3, <2>5, <2>6, <3>1 DEF Shining, effective_brightness
  <2>8. CASE level # None
    <3>1. SetDeckBrightness(level)
      BY <1>4, <2>8 DEF LightArrives
    <3>2. /\ deck' \in {"new", "attached", "unplugged", "gone"}
          /\ deck' = "attached" /\ accepted' => glass' = level
      BY <3>1, SetDeckBrightnessStep
    <3>3. settings.enabled /\ applied' = level
      BY <2>4, <2>8 DEF Changed
    <3>4. Shining(settings, applied)'
      BY <2>2, <2>8, <3>2, <3>3 DEF Shining, effective_brightness
    <3> QED BY <2>1, <2>2, <2>3, <2>5, <2>6, <3>2, <3>4
  <2> QED BY <2>7, <2>8
<1>5. CASE ReloadLight
  <2>1. settings' \in LightConfigs /\ applied' = Reconfigured(settings') /\ filtered' = filtered /\ light' = light
    BY <1>5 DEF ReloadLight
  <2>2. SetDeckBrightness(effective_brightness(settings', applied'))
    BY <1>5 DEF ReloadLight
  <2>3. /\ deck' \in {"new", "attached", "unplugged", "gone"}
        /\ deck' = "attached" /\ accepted' => glass' = effective_brightness(settings', applied')
    BY <2>2, SetDeckBrightnessStep
  <2>4. /\ applied' \in 0..100 \cup {None}
        /\ filtered = None => applied' = None
        /\ Followed(settings', filtered, applied')
    BY <2>1, ReconfiguredFollows
  <2>5. Followed(settings, filtered, applied)'
    BY <2>1, <2>4 DEF Followed, brightness_for_lux
  <2> QED BY <2>1, <2>3, <2>4, <2>5 DEF Shining, effective_brightness
<1>6. CASE DeckUnplugged \/ DeckDisconnected
  <2>1. Same /\ light' = light /\ deck' \in {"unplugged", "gone"}
    BY <1>6 DEF DeckUnplugged, DeckDisconnected
  <2> QED BY <1>1, <2>1 DEF Shining
<1>7. CASE DeckReconnected
  <2>1. Same /\ light' = light /\ deck' = "attached"
    BY <1>7 DEF DeckReconnected
  <2>2. accepted' => glass' = effective_brightness(settings, applied)
    BY <1>7 DEF DeckReconnected
  <2> QED BY <1>1, <2>1, <2>2 DEF Shining, effective_brightness
<1> QED BY <1>2, <1>3, <1>4, <1>5, <1>6, <1>7 DEF LightNext

LEMMA LightInvStill == LightInv /\ UNCHANGED ambient => LightInv'
BY DEF LightInv, ambient, Followed, brightness_for_lux, Shining, effective_brightness

LEMMA LightInvHolds == ControlsSpec => []LightInv
<1>1. ControlsInit => LightInv
  BY LightInvInit DEF ControlsInit
<1>2. LightInv /\ [ControlsNext]_deckControls => LightInv'
  BY LightInvStep, LightInvStill DEF ControlsNext, deckControls
<1> QED BY <1>1, <1>2, PTL DEF ControlsSpec

\* Once the light is known the deck is within the limits in force, and less than the
\* hysteresis away from what the light calls for, across reloads and reconnections;
\* and the deck shows the brightness in force, unless its last write was refused:
\* `observe`, `reconfigure`, `effective_brightness` and `set_deck_brightness`.
THEOREM BrightnessAlwaysFollows == ControlsSpec => []BrightnessFollows
<1>1. LightInv => BrightnessFollows
  BY DEF LightInv, BrightnessFollows, Followed, Shining, effective_brightness
<1> QED BY <1>1, LightInvHolds, PTL

-----------------------------------------------------------------------------
(* The flag of Wispr Flow.                                                  *)

Words == {None, "ok", "error", "over"}

LinkTasks ==
    [is : {"toggle"}, to : BOOLEAN, said : Words] \cup
    [is : {"microphone"}, to : 0..2, said : Words]

\* Of a toggle on its way the flag is already what it asks for, and what Wispr Flow
\* does is still the opposite until its link has worked.
Told(l) ==
    /\ hands_free = links[l].to
    /\ listening = IF links[l].said = "ok" THEN links[l].to ELSE ~links[l].to

WisprInv ==
    /\ hands_free \in BOOLEAN /\ listening \in BOOLEAN /\ orderly \in BOOLEAN
    /\ links \in Seq(LinkTasks)
    /\ orderly =>
        /\ \A l, m \in DOMAIN links : OnItsWay(l) /\ OnItsWay(m) => l = m
        /\ \A l \in DOMAIN links : OnItsWay(l) => Told(l)
        /\ (\A l \in DOMAIN links : ~OnItsWay(l)) => hands_free = listening

LEMMA WisprInvInit == WisprInit => WisprInv
<1> SUFFICES ASSUME WisprInit
             PROVE  WisprInv
  OBVIOUS
<1>1. links = << >> /\ DOMAIN links = {} /\ links \in Seq(LinkTasks)
  BY DEF WisprInit
<1>2. hands_free = FALSE /\ listening = FALSE /\ orderly = TRUE
  BY DEF WisprInit
<1> QED BY <1>1, <1>2 DEF WisprInv

LEMMA PressWisprStep == WisprInv /\ PressWispr => WisprInv'
<1> SUFFICES ASSUME WisprInv, PressWispr
             PROVE  WisprInv'
  OBVIOUS
<1>1. PICK link \in LinkTasks :
        /\ links' = Append(links, link) /\ link.said = None /\ listening' = listening
        /\ \/ /\ link.is = "toggle" /\ link.to = ~hands_free /\ hands_free' = ~hands_free
              /\ orderly' = (orderly /\ \A l \in DOMAIN links : ~OnItsWay(l))
           \/ link.is = "microphone" /\ hands_free' = hands_free /\ orderly' = orderly
  <2>1. CASE /\ hands_free' = ~hands_free
             /\ links' = Append(links, Link("toggle", ~hands_free))
             /\ orderly' = (orderly /\ \A l \in DOMAIN links : ~OnItsWay(l))
    <3>1. Link("toggle", ~hands_free) \in LinkTasks
      BY DEF Link, LinkTasks, Words, WisprInv
    <3> QED BY <2>1, <3>1 DEF PressWispr, Link
  <2>2. CASE /\ \E index \in 0..2 : links' = Append(links, Link("microphone", index))
             /\ UNCHANGED << hands_free, orderly >>
    <3>1. PICK index \in 0..2 : links' = Append(links, Link("microphone", index))
      BY <2>2
    <3>2. Link("microphone", index) \in LinkTasks
      BY DEF Link, LinkTasks, Words
    <3> QED BY <2>2, <3>1, <3>2 DEF PressWispr, Link
  <2> QED BY <2>1, <2>2 DEF PressWispr
<1>0. PICK n \in Nat : n = Len(links) + 1
  BY DEF WisprInv
<1>2. /\ links' \in Seq(LinkTasks) /\ Len(links') = n /\ links'[n] = link
      /\ n \notin DOMAIN links /\ DOMAIN links' = DOMAIN links \cup {n}
      /\ \A l \in DOMAIN links : links'[l] = links[l]
  BY <1>1, <1>0 DEF WisprInv
<1>3. \A l \in DOMAIN links : OnItsWay(l)' <=> OnItsWay(l)
  BY <1>2 DEF OnItsWay
<1>4. OnItsWay(n)' <=> link.is = "toggle"
  BY <1>1, <1>2, WisprAssumption DEF OnItsWay, WisprAssumption
<1>5. CASE link.is = "microphone"
  <2>1. \A l \in DOMAIN links : Told(l) => Told(l)'
    BY <1>1, <1>2, <1>5 DEF Told
  <2> QED BY <1>1, <1>2, <1>3, <1>4, <1>5, <2>1 DEF WisprInv
<1>6. CASE link.is = "toggle"
  <2>1. /\ link.to = ~hands_free /\ hands_free' = ~hands_free
        /\ orderly' = (orderly /\ \A l \in DOMAIN links : ~OnItsWay(l))
    BY <1>1, <1>6
  <2>2. hands_free' \in BOOLEAN /\ listening' \in BOOLEAN /\ orderly' \in BOOLEAN
    BY <1>1, <2>1 DEF WisprInv
  <2>3. ASSUME orderly'
        PROVE  /\ \A l \in DOMAIN links : ~OnItsWay(l)'
               /\ Told(n)'
    <3>1. \A l \in DOMAIN links : ~OnItsWay(l)
      BY <2>1, <2>3
    <3>2. hands_free = listening
      BY <2>1, <2>3, <3>1 DEF WisprInv
    <3>3. links'[n].to = hands_free' /\ links'[n].said # "ok"
      BY <1>1, <1>2, <2>1, WisprAssumption DEF WisprAssumption
    <3>4. listening' = ~links'[n].to
      BY <1>1, <1>2, <2>1, <3>2 DEF WisprInv
    <3> QED BY <1>3, <3>1, <3>3, <3>4 DEF Told
  <2>4. OnItsWay(n)'
    BY <1>4, <1>6
  <2> QED BY <1>2, <2>2, <2>3, <2>4 DEF WisprInv
<1> QED BY <1>5, <1>6, <1>1

LEMMA SaidIsWord ==
    ASSUME NEW q \in Seq(LinkTasks), NEW l \in DOMAIN q, NEW word \in Words
    PROVE  LET r == [q EXCEPT ![l].said = word]
           IN  /\ r \in Seq(LinkTasks) /\ DOMAIN r = DOMAIN q
               /\ r[l].is = q[l].is /\ r[l].to = q[l].to /\ r[l].said = word
               /\ \A m \in DOMAIN q : m # l => r[m] = q[m]
<1> DEFINE t == [q[l] EXCEPT !.said = word]
<1>1. q[l] \in LinkTasks
  OBVIOUS
<1>2. t \in LinkTasks /\ t.is = q[l].is /\ t.to = q[l].to /\ t.said = word
  BY <1>1 DEF LinkTasks
<1> DEFINE r == [q EXCEPT ![l] = t]
<1>3. r \in Seq(LinkTasks) /\ DOMAIN r = DOMAIN q /\ r[l] = t /\ \A m \in DOMAIN q : m # l => r[m] = q[m]
  <2> HIDE DEF t
  <2> QED BY <1>2
<1>4. [q EXCEPT ![l].said = word] = r
  OBVIOUS
<1> HIDE DEF r, t
<1> QED BY <1>2, <1>3, <1>4

LEMMA LinkOpensStep == WisprInv /\ LinkOpens => WisprInv'
<1> SUFFICES ASSUME WisprInv, LinkOpens
             PROVE  WisprInv'
  OBVIOUS
<1>1. PICK l \in DOMAIN links, said \in {"ok", "error"}, works \in BOOLEAN :
        /\ links[l].said = None /\ (said = "ok" => works)
        /\ links' = [links EXCEPT ![l].said = said]
        /\ hands_free' = hands_free
        /\ IF links[l].is = "toggle"
             THEN /\ listening' = IF works THEN links[l].to ELSE listening
                  /\ orderly' = (orderly /\ (works => said = "ok"))
             ELSE listening' = listening /\ orderly' = orderly
  BY DEF LinkOpens
<1>2. /\ links' \in Seq(LinkTasks) /\ DOMAIN links' = DOMAIN links
      /\ links'[l].is = links[l].is /\ links'[l].to = links[l].to /\ links'[l].said = said
      /\ \A m \in DOMAIN links : m # l => links'[m] = links[m]
  <2>1. links \in Seq(LinkTasks) /\ said \in Words
    BY DEF WisprInv, Words
  <2> QED BY <1>1, <2>1, SaidIsWord
<1>3. \A m \in DOMAIN links : OnItsWay(m)' <=> OnItsWay(m)
  BY <1>1, <1>2, WisprAssumption DEF OnItsWay, WisprAssumption
<1>4. CASE links[l].is # "toggle"
  <2>1. \A m \in DOMAIN links : OnItsWay(m) => m # l
    BY <1>4 DEF OnItsWay
  <2>2. \A m \in DOMAIN links : OnItsWay(m) /\ Told(m) => Told(m)'
    BY <1>1, <1>2, <1>4, <2>1 DEF Told
  <2> QED BY <1>1, <1>2, <1>3, <1>4, <2>2 DEF WisprInv
<1>5. CASE links[l].is = "toggle"
  <2>1. OnItsWay(l)
    BY <1>1, <1>5, WisprAssumption DEF OnItsWay, WisprAssumption
  <2>2. links[l].to \in BOOLEAN
    BY <1>5 DEF WisprInv, LinkTasks
  <2>3. hands_free' \in BOOLEAN /\ listening' \in BOOLEAN /\ orderly' \in BOOLEAN
    BY <1>1, <1>5, <2>2 DEF WisprInv
  <2>4. ASSUME orderly'
        PROVE  /\ Told(l)'
               /\ \A m \in DOMAIN links : OnItsWay(m) => m = l
    <3>1. orderly /\ (works => said = "ok")
      BY <1>1, <1>5, <2>4
    <3>2. \A m \in DOMAIN links : OnItsWay(m) => m = l
      BY <2>1, <3>1 DEF WisprInv
    <3>3. hands_free = links[l].to /\ listening = ~links[l].to
      BY <1>1, <2>1, <3>1, WisprAssumption DEF WisprInv, Told, WisprAssumption
    <3>4. CASE said = "ok"
      BY <1>1, <1>2, <1>5, <3>2, <3>3, <3>4 DEF Told
    <3>5. CASE said = "error"
      BY <1>1, <1>2, <1>5, <3>1, <3>2, <3>3, <3>5 DEF Told
    <3> QED BY <3>2, <3>4, <3>5
  <2> QED BY <1>2, <1>3, <2>1, <2>3, <2>4 DEF WisprInv
<1> QED BY <1>4, <1>5

LEMMA LinkReportedStep == WisprInv /\ LinkReported => WisprInv'
<1> SUFFICES ASSUME WisprInv, LinkReported
             PROVE  WisprInv'
  OBVIOUS
<1>1. PICK l \in DOMAIN links :
        /\ links[l].said \in {"ok", "error"}
        /\ hands_free' = Reverted(links[l])
        /\ links' = [links EXCEPT ![l].said = "over"]
        /\ listening' = listening /\ orderly' = orderly
  BY DEF LinkReported
<1>2. /\ links' \in Seq(LinkTasks) /\ DOMAIN links' = DOMAIN links
      /\ links'[l].is = links[l].is /\ links'[l].said = "over"
      /\ \A m \in DOMAIN links : m # l => links'[m] = links[m]
  <2>1. links \in Seq(LinkTasks) /\ "over" \in Words
    BY DEF WisprInv, Words
  <2> QED BY <1>1, <2>1, SaidIsWord
<1>3. \A m \in DOMAIN links : m # l => (OnItsWay(m)' <=> OnItsWay(m))
  BY <1>2 DEF OnItsWay
<1>4. ~OnItsWay(l)'
  BY <1>2 DEF OnItsWay
<1>5. CASE links[l].is # "toggle"
  <2>1. ~OnItsWay(l) /\ hands_free' = hands_free
    BY <1>1, <1>5 DEF OnItsWay, Reverted
  <2>2. \A m \in DOMAIN links : OnItsWay(m) /\ Told(m) => Told(m)'
    BY <1>1, <1>2, <2>1 DEF Told
  <2> QED BY <1>1, <1>2, <1>3, <1>4, <2>1, <2>2 DEF WisprInv
<1>6. CASE links[l].is = "toggle"
  <2>1. OnItsWay(l)
    BY <1>1, <1>6 DEF OnItsWay
  <2>2. links[l].to \in BOOLEAN
    BY <1>6 DEF WisprInv, LinkTasks
  <2>3. hands_free' \in BOOLEAN /\ listening' \in BOOLEAN /\ orderly' \in BOOLEAN
    BY <1>1, <1>6, <2>2 DEF WisprInv, Reverted
  <2>4. ASSUME orderly
        PROVE  /\ hands_free' = listening'
               /\ \A m \in DOMAIN links : ~OnItsWay(m)'
    <3>1. \A m \in DOMAIN links : OnItsWay(m) => m = l
      BY <2>1, <2>4 DEF WisprInv
    <3>2. Told(l)
      BY <2>1, <2>4 DEF WisprInv
    <3>3. CASE links[l].said = "ok"
      BY <1>1, <1>3, <1>4, <3>1, <3>2, <3>3 DEF Told, Reverted
    <3>4. CASE links[l].said = "error"
      BY <1>1, <1>3, <1>4, <1>6, <3>1, <3>2, <3>4 DEF Told, Reverted
    <3> QED BY <1>1, <3>3, <3>4
  <2> QED BY <1>1, <1>2, <2>3, <2>4 DEF WisprInv
<1> QED BY <1>5, <1>6

LEMMA WisprInvStill == WisprInv /\ UNCHANGED wispr => WisprInv'
BY DEF WisprInv, wispr, OnItsWay, Told

LEMMA FlagIsAlwaysTold == ControlsSpec => []FlagIsTold
<1>1. ControlsInit => WisprInv
  BY WisprInvInit DEF ControlsInit
<1>2. WisprInv /\ [ControlsNext]_deckControls => WisprInv'
  BY PressWisprStep, LinkOpensStep, LinkReportedStep, WisprInvStill
  DEF ControlsNext, WisprNext, deckControls
<1>3. WisprInv => FlagIsTold
  BY DEF WisprInv, FlagIsTold, WisprFace, Face
<1> QED BY <1>1, <1>2, <1>3, PTL DEF ControlsSpec

-----------------------------------------------------------------------------
(* Covers.  The sequences that the cache is made of.                        *)

Tracks == DOMAIN Songs
Arts == {Songs[s].art : s \in Tracks}
Covers == [key : Tracks, art : Arts]

\* What is in s is in r, too.
From(s, r) == \A i \in DOMAIN s : \E j \in DOMAIN r : s[i] = r[j]

LEMMA RemovedIs ==
    ASSUME NEW S, NEW s \in Seq(S), NEW i \in DOMAIN s
    PROVE  RemoveAt(s, i) \in Seq(S) /\ Len(RemoveAt(s, i)) = Len(s) - 1 /\ From(RemoveAt(s, i), s)
<1> DEFINE r == RemoveAt(s, i)
<1>1. i \in 1..Len(s) /\ Len(s) \in Nat
  OBVIOUS
<1>2. /\ SubSeq(s, 1, i - 1) \in Seq(S) /\ Len(SubSeq(s, 1, i - 1)) = i - 1
      /\ \A k \in 1..(i - 1) : SubSeq(s, 1, i - 1)[k] = s[k]
  BY <1>1
<1>3. /\ SubSeq(s, i + 1, Len(s)) \in Seq(S) /\ Len(SubSeq(s, i + 1, Len(s))) = Len(s) - i
      /\ \A k \in 1..(Len(s) - i) : SubSeq(s, i + 1, Len(s))[k] = s[i + k]
  BY <1>1
<1> DEFINE a == SubSeq(s, 1, i - 1)
           b == SubSeq(s, i + 1, Len(s))
<1>4. /\ r \in Seq(S) /\ Len(r) = Len(s) - 1
      /\ \A k \in 1..(Len(s) - 1) : r[k] = IF k < i THEN a[k] ELSE b[k - (i - 1)]
  <2> HIDE DEF a, b
  <2>1. r = a \o b
    BY DEF RemoveAt, a, b
  <2>2. a \in Seq(S) /\ b \in Seq(S) /\ Len(a) = i - 1 /\ Len(b) = Len(s) - i
    BY <1>2, <1>3 DEF a, b
  <2>3. /\ a \o b \in Seq(S) /\ Len(a \o b) = Len(a) + Len(b)
        /\ \A k \in 1..(Len(a) + Len(b)) : (a \o b)[k] = IF k <= Len(a) THEN a[k] ELSE b[k - Len(a)]
    BY <2>2, ConcatProperties
  <2>4. Len(a) + Len(b) = Len(s) - 1 /\ \A k \in 1..(Len(s) - 1) : k <= Len(a) <=> k < i
    BY <1>1, <2>2
  <2> HIDE DEF r
  <2>5. Len(r) = Len(s) - 1 /\ r \in Seq(S)
    BY <2>1, <2>3, <2>4
  <2> QED BY <2>1, <2>2, <2>3, <2>4, <2>5
<1>5. \A k \in 1..(Len(s) - 1) : r[k] = IF k < i THEN s[k] ELSE s[k + 1]
  <2> TAKE k \in 1..(Len(s) - 1)
  <2> HIDE DEF r, a, b
  <2>1. CASE k < i
    BY <1>1, <1>2, <1>4, <2>1 DEF a
  <2>2. CASE ~(k < i)
    <3>1. k - (i - 1) \in 1..(Len(s) - i) /\ i + (k - (i - 1)) = k + 1
      BY <1>1, <2>2
    <3>2. b[k - (i - 1)] = s[i + (k - (i - 1))]
      BY <1>3, <3>1 DEF b
    <3> QED BY <1>4, <2>2, <3>1, <3>2
  <2> QED BY <2>1, <2>2
<1> HIDE DEF r, a, b
<1>6. From(r, s)
  <2> SUFFICES ASSUME NEW k \in 1..(Len(s) - 1)
               PROVE  \E j \in DOMAIN s : r[k] = s[j]
    BY <1>4 DEF From
  <2>1. k \in DOMAIN s /\ k + 1 \in DOMAIN s
    BY <1>1
  <2> QED BY <1>5, <2>1
<1> QED BY <1>4, <1>6 DEF r

LEMMA TakenOutIs ==
    ASSUME NEW list \in Seq(Covers), NEW key
    PROVE  LET r == TakenOut(list, key)
           IN  /\ r \in Seq(Covers) /\ Len(r) <= Len(list) /\ From(r, list)
               /\ (\E i \in DOMAIN list : list[i].key = key) => Len(r) = Len(list) - 1
<1> DEFINE places == {i \in DOMAIN list : list[i].key = key}
<1>1. TakenOut(list, key) = IF places = {} THEN list ELSE RemoveAt(list, Min(places))
  BY DEF TakenOut
<1>2. CASE places = {}
  BY <1>1, <1>2 DEF From
<1>3. CASE places # {}
  <2>1. places \in SUBSET Nat
    OBVIOUS
  <2>2. Min(places) \in places
    <3> HIDE DEF places
    <3> QED BY <1>3, <2>1, LeastExists
  <2>3. Min(places) \in DOMAIN list
    BY <2>2
  <2> QED BY <1>1, <1>3, <2>3, RemovedIs
<1> QED BY <1>2, <1>3

LEMMA UsedIs ==
    ASSUME NEW list \in Seq(Covers), NEW cover \in Covers
    PROVE  LET r == Used(list, cover)
           IN  /\ r \in Seq(Covers) /\ Len(r) <= Len(list) + 1
               /\ \A i \in DOMAIN r : r[i] = cover \/ \E j \in DOMAIN list : r[i] = list[j]
               /\ (\E i \in DOMAIN list : list[i].key = cover.key) => Len(r) = Len(list)
<1> DEFINE rest == TakenOut(list, cover.key)
<1>1. /\ rest \in Seq(Covers) /\ Len(rest) <= Len(list) /\ From(rest, list)
      /\ (\E i \in DOMAIN list : list[i].key = cover.key) => Len(rest) = Len(list) - 1
  BY TakenOutIs
<1> HIDE DEF rest
<1>2. Used(list, cover) = rest \o << cover >>
  BY DEF Used, rest
<1>3. /\ rest \o << cover >> \in Seq(Covers) /\ Len(rest \o << cover >>) = Len(rest) + 1
      /\ \A i \in 1..(Len(rest) + 1) :
            (rest \o << cover >>)[i] = IF i <= Len(rest) THEN rest[i] ELSE cover
  BY <1>1
<1>4. \A i \in 1..(Len(rest) + 1) : i <= Len(rest) => i \in DOMAIN rest
  BY <1>1
<1>5. Len(list) \in Nat /\ Len(rest) \in Nat
  BY <1>1
<1> QED BY <1>1, <1>2, <1>3, <1>4, <1>5 DEF From

LEMMA LimitedIs ==
    ASSUME NEW list \in Seq(Covers), Len(list) <= CoverLimit + 1
    PROVE  /\ Limited(list) \in Seq(Covers) /\ Len(Limited(list)) <= CoverLimit
           /\ From(Limited(list), list)
<1>1. CoverLimit \in Nat
  BY PlayersAssumption DEF PlayersAssumption
<1>2. CASE Len(list) > CoverLimit
  <2>1. list # << >>
    BY <1>1, <1>2
  <2>2. /\ Tail(list) \in Seq(Covers) /\ Len(Tail(list)) = Len(list) - 1
        /\ \A i \in 1..Len(Tail(list)) : Tail(list)[i] = list[i + 1] /\ i + 1 \in DOMAIN list
    BY <2>1
  <2> QED BY <1>1, <1>2, <2>2 DEF Limited, From
<1>3. CASE ~(Len(list) > CoverLimit)
  BY <1>1, <1>3 DEF Limited, From
<1> QED BY <1>2, <1>3

\* A cover that is found is the one of its key.
LEMMA CoverInIs ==
    ASSUME NEW list \in Seq(Covers), NEW key, CoverIn(list, key) # None
    PROVE  \E i \in DOMAIN list : list[i].key = key /\ CoverIn(list, key) = list[i]
<1> DEFINE hits == {i \in DOMAIN list : list[i].key = key}
<1>1. CoverIn(list, key) = IF hits = {} THEN None ELSE list[Min(hits)]
  BY DEF CoverIn, FirstOf
<1>2. hits # {} /\ hits \in SUBSET Nat
  BY <1>1
<1>3. Min(hits) \in hits
  <2> HIDE DEF hits
  <2> QED BY <1>2, LeastExists
<1> QED BY <1>1, <1>2, <1>3

-----------------------------------------------------------------------------
(* Spotify.                                                                 *)

Levels == 0..100

Player == [running : BOOLEAN, playing : BOOLEAN, song : Tracks \cup {None}, volume : Levels]

\* A cover belongs to the track of its key, unless the track changed under the script.
Filed(cover) == cover.key \in torn \/ cover.art = Songs[cover.key].art

\* A status that can have a cover has the name and the cover of its track.
StatusIs(status) ==
    /\ status.track \in Tracks \cup {None}
    /\ status.art \in Arts \cup {None}
    /\ status.volume \in Levels
    /\ status.track # None /\ status.art # None =>
        \/ status.track \in torn
        \/ status.art = Songs[status.track].art /\ status.name = Songs[status.track].name

FeedIs(stored) == HasValue(stored) => StatusIs(stored.value)

TileIs(t) ==
    t.cover # None =>
        \/ t.face.shows[2] \in torn
        \/ t.cover = Songs[t.face.shows[2]].art /\ t.face.shows[1] = Songs[t.face.shows[2]].name

Cached(list) ==
    /\ list \in Seq(Covers) /\ Len(list) <= CoverLimit
    /\ \A i \in DOMAIN list : Filed(list[i])

\* A volume job sets what its tile showed, moved by its step.
Jobs ==
    {job \in [do : {key.do : key \in PlayerKeys}, said : Words, shown : Levels \cup {None},
              key : PlayerKeys, arg : {key.arg : key \in PlayerKeys} \cup Levels] :
        job.do = "volume" =>
            /\ job.arg \in Levels
            /\ job.shown # None => job.arg = Clamped(job.shown + job.key.arg)}

PlayersInv ==
    /\ spotify \in Player
    /\ script # None /\ script.step = "half" => script.song \in Tracks \cup {None}
    /\ script # None /\ script.step = "done" => StatusIs(script.status)
    /\ FeedIs(spotifyFeed)
    /\ downloads \subseteq Covers
    /\ \A d \in downloads : Filed(d)
    /\ \A c, d \in downloads : c.key = d.key => c = d
    /\ Cached(covers)
    /\ TileIs(tile)
    /\ jobs \in Seq(Jobs)

LEMMA DrawnStep ==
    ASSUME NEW stored, NEW list,
           FeedIs(stored), Cached(list), TileIs(tile), Drawn(stored, list)
    PROVE  Cached(covers') /\ TileIs(tile')
<1> DEFINE face == SpotifyFace(stored)
           key == IF HasValue(stored) THEN face.shows[2] ELSE None
           cover == IF key = None THEN None ELSE CoverIn(list, key)
<1>1. IF face = tile.face
        THEN tile' = tile /\ covers' = list
        ELSE /\ tile' = [face |-> face, cover |-> IF cover = None THEN None ELSE cover.art]
             /\ covers' = IF cover = None THEN list ELSE Used(list, cover)
  BY DEF Drawn
<1> HIDE DEF face, key, cover
<1>2. CASE face = tile.face
  BY <1>1, <1>2
<1>3. CASE face # tile.face /\ cover = None
  BY <1>1, <1>3 DEF TileIs
<1>4. CASE face # tile.face /\ cover # None
  <2>1. tile'.face = face /\ tile'.cover = cover.art /\ covers' = Used(list, cover)
    BY <1>1, <1>4
  <2>2. key # None /\ cover = CoverIn(list, key)
    BY <1>4 DEF cover
  <2>3. list \in Seq(Covers) /\ Len(list) <= CoverLimit /\ Len(list) \in Nat
    BY DEF Cached
  <2>4. PICK i \in DOMAIN list : list[i].key = key /\ cover = list[i]
    BY <1>4, <2>2, <2>3, CoverInIs
  <2>5. cover \in Covers /\ Filed(cover) /\ cover.key = key
    BY <2>3, <2>4 DEF Cached
  <2>6. Cached(covers')
    <3>1. /\ covers' \in Seq(Covers) /\ Len(covers') = Len(list)
          /\ \A n \in DOMAIN covers' : covers'[n] = cover \/ \E j \in DOMAIN list : covers'[n] = list[j]
      BY <2>1, <2>3, <2>4, <2>5, UsedIs
    <3> QED BY <2>3, <2>5, <3>1 DEF Cached
  <2>7. HasValue(stored) /\ face.shows[2] = key
    BY <2>2 DEF key
  <2>8. /\ face.shows[1] = stored.value.name
        /\ face.shows[2] = IF stored.value.art = None THEN None ELSE stored.value.track
    BY <2>7 DEF face, SpotifyFace, Face
  <2>9. key = stored.value.track /\ stored.value.art # None
    BY <2>2, <2>7, <2>8
  <2>10. key \in torn \/ stored.value.name = Songs[key].name
    BY <2>2, <2>7, <2>9 DEF FeedIs, StatusIs
  <2>11. TileIs(tile')
    BY <2>1, <2>5, <2>7, <2>8, <2>10 DEF TileIs, Filed
  <2> QED BY <2>6, <2>11
<1> QED BY <1>2, <1>3, <1>4

LEMMA PlayersInvInit == PlayersInit => PlayersInv
<1> SUFFICES ASSUME PlayersInit
             PROVE  PlayersInv
  OBVIOUS
<1>1. spotify \in Player
  BY DEF PlayersInit, Player, Tracks, Levels
<1>2. FeedIs(spotifyFeed)
  BY DEF PlayersInit, FeedIs, HasValue, Loading
<1>3. Cached(covers)
  BY PlayersAssumption DEF PlayersInit, Cached, PlayersAssumption
<1>4. TileIs(tile)
  BY DEF PlayersInit, TileIs
<1>5. jobs \in Seq(Jobs)
  BY DEF PlayersInit
<1> QED BY <1>1, <1>2, <1>3, <1>4, <1>5 DEF PlayersInit, PlayersInv

\* More torn tracks excuse more.
LEMMA TornGrows ==
    ASSUME torn \subseteq torn'
    PROVE  /\ \A status : StatusIs(status) => StatusIs(status)'
           /\ \A cover : Filed(cover) => Filed(cover)'
           /\ \A t : TileIs(t) => TileIs(t)'
BY DEF StatusIs, Filed, TileIs

LEMMA ScriptStep ==
    ASSUME PlayersInv, ScriptStarts \/ ScriptGoesOn
    PROVE  PlayersInv'
<1>1. /\ spotify' = spotify /\ spotifyFeed' = spotifyFeed /\ downloads' = downloads
      /\ covers' = covers /\ tile' = tile /\ jobs' = jobs
  BY DEF ScriptStarts, ScriptGoesOn
<1>2. torn \subseteq torn'
  BY DEF ScriptStarts, ScriptGoesOn
<1>3. /\ FeedIs(spotifyFeed)'
      /\ \A d \in downloads' : Filed(d)'
      /\ Cached(covers)'
      /\ TileIs(tile)'
  <2>1. FeedIs(spotifyFeed)'
    BY <1>1, <1>2, TornGrows DEF PlayersInv, FeedIs
  <2>2. \A d \in downloads' : Filed(d)'
    BY <1>1, <1>2, TornGrows DEF PlayersInv
  <2>3. Cached(covers)'
    BY <1>1, <1>2 DEF PlayersInv, Cached, Filed
  <2>4. TileIs(tile)'
    BY <1>1, <1>2 DEF PlayersInv, TileIs
  <2> QED BY <2>1, <2>2, <2>3, <2>4
<1>4. script' # None /\ script'.step = "half" => script'.song \in Tracks \cup {None}
  BY DEF ScriptStarts, ScriptGoesOn, PlayersInv, Player
<1>5. script' # None /\ script'.step = "done" => StatusIs(script.status)'
  <2>1. CASE ScriptStarts
    <3>1. script' \in {[step |-> "done", status |-> not_running], [step |-> "half", song |-> spotify.song]}
      BY <2>1 DEF ScriptStarts
    <3>2. StatusIs(not_running)'
      BY DEF StatusIs, not_running, Levels
    <3>3. CASE script' = [step |-> "done", status |-> not_running]
      <4>1. script'.status = not_running
        BY <3>3
      <4> QED BY <3>2, <4>1 DEF StatusIs
    <3>4. CASE script' = [step |-> "half", song |-> spotify.song]
      BY <3>4
    <3> QED BY <3>1, <3>3, <3>4
  <2>2. CASE ScriptGoesOn
    <3> DEFINE s == script.song
               status == [state |-> IF spotify.playing THEN "Playing" ELSE "Paused",
                          name |-> IF s = None \/ spotify.song = None THEN None ELSE Songs[s].name,
                          art |-> IF s = None \/ spotify.song = None THEN None ELSE Songs[s].art,
                          track |-> IF s = None THEN None ELSE spotify.song,
                          volume |-> spotify.volume]
    <3>1. \/ /\ script' = [step |-> "done", status |-> status]
             /\ torn' = IF s # spotify.song THEN torn \cup {spotify.song} ELSE torn
          \/ script' = [step |-> "failed"]
      BY <2>2 DEF ScriptGoesOn
    <3>2. CASE /\ script' = [step |-> "done", status |-> status]
               /\ torn' = IF s # spotify.song THEN torn \cup {spotify.song} ELSE torn
      <4>1. s \in Tracks \cup {None} /\ spotify.song \in Tracks \cup {None} /\ spotify.volume \in Levels
        BY <2>2 DEF ScriptGoesOn, PlayersInv, Player
      <4>2. script'.status = status
        BY <3>2
      <4>3. /\ status.track \in Tracks \cup {None}
            /\ status.art \in Arts \cup {None}
            /\ status.volume \in Levels
        BY <4>1 DEF Arts
      <4>4. status.track # None /\ status.art # None =>
                \/ status.track \in torn'
                \/ status.art = Songs[status.track].art /\ status.name = Songs[status.track].name
        BY <3>2
      <4> HIDE DEF status
      <4> QED BY <4>2, <4>3, <4>4 DEF StatusIs
    <3>3. CASE script' = [step |-> "failed"]
      BY <3>3
    <3> QED BY <3>1, <3>2, <3>3
  <2> QED BY <2>1, <2>2
<1> QED BY <1>1, <1>3, <1>4, <1>5 DEF PlayersInv

LEMMA StatusStoredStep ==
    ASSUME PlayersInv, StatusStored
    PROVE  PlayersInv'
<1> DEFINE stored == IF script.step = "done" THEN Ready(script.status) ELSE Failing(spotifyFeed)
<1>1. /\ script # None /\ script' = None
      /\ spotifyFeed' = stored
      /\ downloads' = downloads \cup Wanted(stored)
      /\ Drawn(stored, covers)
      /\ spotify' = spotify /\ jobs' = jobs /\ torn' = torn
  BY DEF StatusStored
<1>2. FeedIs(stored)
  BY <1>1 DEF PlayersInv, FeedIs, HasValue, Ready, Failing, Kept, Failed
<1> HIDE DEF stored
<1>3. Cached(covers') /\ TileIs(tile')
  BY <1>1, <1>2, DrawnStep DEF PlayersInv
<1>4. ASSUME NEW c \in Wanted(stored)
      PROVE  c \in Covers /\ Filed(c) /\ \A d \in downloads : d.key # c.key
  <2>1. /\ HasValue(stored) /\ stored.value.track # None /\ stored.value.art # None
        /\ \A d \in downloads : d.key # stored.value.track
        /\ c = [key |-> stored.value.track, art |-> stored.value.art]
    BY <1>4 DEF Wanted
  <2>2. StatusIs(stored.value)
    BY <1>2, <2>1 DEF FeedIs
  <2> QED BY <2>1, <2>2 DEF StatusIs, Covers, Filed
<1>5. \A c, d \in Wanted(stored) : c = d
  BY DEF Wanted
<1>6. /\ downloads' \subseteq Covers
      /\ \A d \in downloads' : Filed(d)
      /\ \A c, d \in downloads' : c.key = d.key => c = d
  BY <1>1, <1>4, <1>5 DEF PlayersInv
<1>7. FeedIs(spotifyFeed)' /\ Cached(covers)' /\ TileIs(tile)' /\ \A d \in downloads' : Filed(d)'
  BY <1>1, <1>2, <1>3, <1>6 DEF FeedIs, StatusIs, Cached, TileIs, Filed
<1> QED BY <1>1, <1>6, <1>7 DEF PlayersInv

LEMMA CoverArrivesStep ==
    ASSUME PlayersInv, CoverArrives
    PROVE  PlayersInv'
<1>1. PICK d \in downloads :
        /\ downloads' = downloads \ {d}
        /\ \/ Drawn(spotifyFeed, Limited(Used(covers, [key |-> KeyOf(d), art |-> d.art])))
           \/ UNCHANGED << covers, tile >>
        /\ UNCHANGED << spotify, script, spotifyFeed, jobs, torn, playerCounts >>
  BY DEF CoverArrives
<1> DEFINE cover == [key |-> KeyOf(d), art |-> d.art]
<1>2. cover \in Covers /\ Filed(cover)
  <2>1. d \in Covers /\ Filed(d)
    BY DEF PlayersInv
  <2> QED BY <2>1 DEF Covers, KeyOf, Filed
<1> HIDE DEF cover
<1>3. /\ covers \in Seq(Covers) /\ Len(covers) <= CoverLimit /\ Len(covers) \in Nat
      /\ \A i \in DOMAIN covers : Filed(covers[i])
  BY DEF PlayersInv, Cached
<1>4. Cached(Limited(Used(covers, cover)))
  <2>1. CoverLimit \in Nat
    BY PlayersAssumption DEF PlayersAssumption
  <2> DEFINE used == Used(covers, cover)
  <2>2. /\ used \in Seq(Covers) /\ Len(used) <= Len(covers) + 1 /\ Len(used) \in Nat
        /\ \A i \in DOMAIN used : used[i] = cover \/ \E j \in DOMAIN covers : used[i] = covers[j]
    BY <1>2, <1>3, UsedIs
  <2> HIDE DEF used
  <2>3. \A i \in DOMAIN used : Filed(used[i])
    BY <1>2, <1>3, <2>2
  <2>4. /\ Limited(used) \in Seq(Covers) /\ Len(Limited(used)) <= CoverLimit
        /\ From(Limited(used), used)
    BY <1>3, <2>1, <2>2, LimitedIs
  <2>5. Cached(Limited(used))
    BY <2>3, <2>4 DEF Cached, From
  <2> QED BY <2>5 DEF used
<1>5. Cached(covers') /\ TileIs(tile')
  <2>1. CASE Drawn(spotifyFeed, Limited(Used(covers, cover)))
    BY <1>4, <2>1, DrawnStep DEF PlayersInv
  <2>2. CASE UNCHANGED << covers, tile >>
    BY <2>2 DEF PlayersInv
  <2> QED BY <1>1, <2>1, <2>2 DEF cover
<1>6. FeedIs(spotifyFeed)' /\ Cached(covers)' /\ TileIs(tile)' /\ \A c \in downloads' : Filed(c)'
  BY <1>1, <1>5 DEF PlayersInv, FeedIs, StatusIs, Cached, TileIs, Filed
<1> QED BY <1>1, <1>6 DEF PlayersInv, StatusIs

\* What the presses and the player itself leave alone.
Untouched == << script, spotifyFeed, downloads, covers, tile, torn >>

LEMMA CacheIsUntouched ==
    ASSUME PlayersInv, UNCHANGED Untouched, (spotify \in Player)', (jobs \in Seq(Jobs))'
    PROVE  PlayersInv'
BY DEF PlayersInv, Untouched, FeedIs, StatusIs, Cached, TileIs, Filed

LEMMA ClampedType ==
    ASSUME NEW volume \in Int
    PROVE  Clamped(volume) \in Levels
BY DEF Clamped, Levels

LEMMA PressPlayerStep ==
    ASSUME PlayersInv, PressPlayer
    PROVE  PlayersInv'
<1> DEFINE known == IF HasValue(spotifyFeed) THEN spotifyFeed.value.volume ELSE 50
           Pressed(key) ==
                [do |-> key.do, said |-> None, shown |-> VolumeShown(spotifyFeed), key |-> key,
                 arg |-> IF key.do = "volume" THEN Clamped(known + key.arg) ELSE key.arg]
<1>1. PICK key \in PlayerKeys : jobs' = Append(jobs, Pressed(key))
  BY DEF PressPlayer
<1>2. known \in Levels /\ known \in Int
  <2>1. CASE HasValue(spotifyFeed)
    <3>1. spotifyFeed.value.volume \in Levels
      BY <2>1 DEF PlayersInv, FeedIs, StatusIs
    <3> QED BY <2>1, <3>1 DEF Levels
  <2>2. CASE ~HasValue(spotifyFeed)
    BY <2>2 DEF Levels
  <2> QED BY <2>1, <2>2
<1>3. VolumeShown(spotifyFeed) \in {known, None}
  BY DEF VolumeShown
<1> HIDE DEF known
<1>4. Pressed(key) \in Jobs
  <2> DEFINE job == Pressed(key)
  <2>1. key.do = "volume" => key.arg \in Int
    BY PlayersAssumption DEF PlayersAssumption
  <2>2. key.do = "volume" => Clamped(known + key.arg) \in Levels
    BY <1>2, <2>1, ClampedType
  <2>3. job \in [do : {k.do : k \in PlayerKeys}, said : Words, shown : Levels \cup {None},
                 key : PlayerKeys, arg : {k.arg : k \in PlayerKeys} \cup Levels]
    BY <1>2, <1>3, <2>2 DEF Words
  <2>4. job.do = "volume" =>
            /\ job.arg \in Levels
            /\ job.shown # None => job.arg = Clamped(job.shown + job.key.arg)
    BY <1>3, <2>2
  <2> HIDE DEF job
  <2> QED BY <2>3, <2>4 DEF Jobs, job
<1>5. jobs' \in Seq(Jobs)
  <2> HIDE DEF Pressed
  <2> QED BY <1>1, <1>4 DEF PlayersInv
<1>6. spotify' \in Player /\ UNCHANGED Untouched
  BY DEF PressPlayer, PlayersInv, Untouched
<1> QED BY <1>5, <1>6, CacheIsUntouched

LEMMA ControlsType ==
    ASSUME PlayersInv, NEW job \in Jobs, NEW p \in Controls(job)
    PROVE  p \in Player
<1>1. spotify \in Player
  BY DEF PlayersInv
<1>2. CASE job.do = "open"
  BY <1>1, <1>2 DEF Controls, Player
<1>3. CASE job.do # "open" /\ ~spotify.running
  BY <1>3 DEF Controls
<1>4. CASE job.do # "open" /\ spotify.running
  <2>1. CASE job.do = "playpause"
    BY <1>1, <1>4, <2>1 DEF Controls, Player
  <2>2. CASE job.do = "next"
    BY <1>1, <1>4, <2>2 DEF Controls, Player, Tracks
  <2>3. CASE job.do = "playlist"
    <3>1. PICK s \in {At(Playlists, job.arg)} \ {None} : p = [spotify EXCEPT !.song = s, !.playing = TRUE]
      BY <1>4, <2>3 DEF Controls
    <3>2. s \in Tracks
      BY <3>1, PlayersAssumption DEF At, Tracks, PlayersAssumption
    <3> QED BY <1>1, <3>1, <3>2 DEF Player
  <2>4. CASE job.do = "volume"
    <3>1. job.arg \in Levels
      BY <2>4 DEF Jobs
    <3> QED BY <1>1, <1>4, <2>4, <3>1 DEF Controls, Player
  <2>5. job.do \in {"open", "playpause", "next", "playlist", "volume"}
    BY PlayersAssumption DEF Jobs
  <2> QED BY <1>4, <2>1, <2>2, <2>3, <2>4, <2>5
<1> QED BY <1>2, <1>3, <1>4

LEMMA JobRunsStep ==
    ASSUME PlayersInv, JobRuns
    PROVE  PlayersInv'
<1>1. PICK j \in DOMAIN jobs, word \in {"ok", "error"} :
        /\ jobs' = [jobs EXCEPT ![j].said = word]
        /\ spotify' \in Controls(jobs[j]) \cup (IF word = "ok" THEN {} ELSE {spotify})
  BY DEF JobRuns
<1>2. jobs \in Seq(Jobs) /\ jobs[j] \in Jobs
  BY DEF PlayersInv
<1>3. spotify' \in Player
  BY <1>1, <1>2, ControlsType DEF PlayersInv
<1>4. [jobs[j] EXCEPT !.said = word] \in Jobs
  BY <1>2 DEF Jobs, Words
<1>5. jobs' \in Seq(Jobs)
  <2> DEFINE job == [jobs[j] EXCEPT !.said = word]
  <2>1. jobs' = [jobs EXCEPT ![j] = job]
    BY <1>1
  <2> HIDE DEF job
  <2>2. job \in Jobs
    BY <1>4 DEF job
  <2> QED BY <1>2, <2>1, <2>2
<1>6. UNCHANGED Untouched
  BY DEF JobRuns, Untouched
<1> QED BY <1>3, <1>5, <1>6, CacheIsUntouched

LEMMA PlayerSkipsStep ==
    ASSUME PlayersInv, PlayerSkips
    PROVE  PlayersInv'
<1>1. jobs' \in Seq(Jobs) /\ UNCHANGED Untouched
  BY DEF PlayerSkips, PlayersInv, Untouched
<1>2. spotify \in Player /\ spotify.running \in BOOLEAN
  BY DEF PlayersInv, Player
<1>3. CASE \E s \in DOMAIN Songs \cup {None} : spotify' = [spotify EXCEPT !.song = s]
  BY <1>1, <1>2, <1>3, CacheIsUntouched DEF Player, Tracks
<1>4. CASE spotify' = [spotify EXCEPT !.volume = 70]
  BY <1>1, <1>2, <1>4, CacheIsUntouched DEF Player, Levels
<1>5. CASE spotify' = [spotify EXCEPT !.running = ~@]
  <2>1. spotify' \in Player
    BY <1>2, <1>5 DEF Player
  <2> QED BY <1>1, <2>1, CacheIsUntouched
<1> QED BY <1>3, <1>4, <1>5 DEF PlayerSkips

LEMMA PlayersInvStill == PlayersInv /\ UNCHANGED players => PlayersInv'
BY CacheIsUntouched DEF PlayersInv, players, Untouched

LEMMA PlayersInvHolds == ControlsSpec => []PlayersInv
<1>1. ControlsInit => PlayersInv
  BY PlayersInvInit DEF ControlsInit
<1>2. PlayersInv /\ [ControlsNext]_deckControls => PlayersInv'
  BY ScriptStep, StatusStoredStep, CoverArrivesStep, PressPlayerStep, JobRunsStep,
     PlayerSkipsStep, PlayersInvStill
  DEF ControlsNext, PlayersNext, deckControls
<1> QED BY <1>1, <1>2, PTL DEF ControlsSpec

\* A cover in the cache is the one of its track, and so is the picture on the tile,
\* unless the track changed in the middle of the status script; no cover is fetched
\* twice at once, and the cache keeps its limit.  And the Wispr Flow tile says what
\* Wispr Flow was told, once no toggle is on its way and as long as toggles came one
\* after another: `maybe_fetch_artwork`, `cache_artwork` and `apply_action_outcome`.
THEOREM OutcomesAreAlwaysFiled == ControlsSpec => []OutcomesAreFiled
<1>1. PlayersInv => CoversAreFiled
  BY DEF PlayersInv, CoversAreFiled, Cached, Filed, TileIs
<1> QED BY <1>1, PlayersInvHolds, FlagIsAlwaysTold, PTL DEF OutcomesAreFiled

\* A volume key of Spotify sets what its tile showed, moved by its step.
THEOREM StepsAreAlwaysFromTheTile == ControlsSpec => []StepsAreFromTheTile
<1>1. PlayersInv => StepsAreFromTheTile
  BY DEF PlayersInv, StepsAreFromTheTile, Jobs
<1> QED BY <1>1, PlayersInvHolds, PTL

-----------------------------------------------------------------------------
(* Sound.                                                                   *)

Devices == DOMAIN Sound

\* A device has one channel or two.
Levelings == {s \in Seq(Int) : Len(s) \in {1, 2}}

Macs == [present : SUBSET Devices, default : [Kinds -> Devices \cup {None}],
         level : [Devices -> Levelings], muted : [Devices -> BOOLEAN]]

SoundNames == {Sound[d].name : d \in Devices}
AudioSteps == {"read", "write", "report", "sent", "over"}
FeedStates == {"loading", "failed", "ready", "stale"}
TileStates == {"Ok", "Selected", "Disabled", "Ambiguous", "Loading", "Stale", "Error", None}

Tasks ==
    {task \in [do : {key.do : key \in AudioKeys}, kind : Kinds, arg : {key.arg : key \in AudioKeys},
               restore : Int, step : AudioSteps, device : Devices \cup {None},
               saw : Int \cup BOOLEAN \cup SoundNames \cup {None}, said : {"ok", "error"},
               memory : Int \cup {None}, calm : BOOLEAN, tile : TileStates, same : BOOLEAN,
               among : SUBSET Devices, disturbed : BOOLEAN] :
        /\ task.do = "adjust" => task.arg \in Int
        /\ task.step = "write" /\ (task.do = "adjust" \/ Mutes(task)) => task.saw \in Int
        /\ task.memory # None => Mutes(task) /\ task.step \notin {"read", "write"}}

\* Each task that has sent its report has one report there.
ReportsAre ==
    /\ reports \in Seq(Nat)
    /\ \A i \in DOMAIN reports : reports[i] \in DOMAIN tasks /\ tasks[reports[i]].step = "sent"
    /\ \A i, j \in DOMAIN reports : reports[i] = reports[j] => i = j

\* Who is about to write holds the transaction, and what it read is still so.
Holds(p) ==
    /\ holder = p
    /\ tasks[p].do = "adjust" /\ ~tasks[p].disturbed => tasks[p].saw = read_volume(tasks[p].device)

HeldIs ==
    native => \A p \in DOMAIN tasks : tasks[p].step = "write" /\ tasks[p].do # "select" => Holds(p)

\* A mute whose outcome, with the level that it took, is not handled yet.
Unhandled(p) ==
    Mutes(tasks[p]) /\ tasks[p].step \in {"report", "sent"} /\ tasks[p].memory # None

AloneIs(p) ==
    Mutes(tasks[p]) /\ tasks[p].calm /\ tasks[p].step # "over" =>
        \A q \in DOMAIN tasks \ {p} : Mutes(tasks[q]) => tasks[q].step = "over"

\* The level that the last mute took is remembered, or about to be.
MuteIs ==
    /\ \A p \in DOMAIN tasks : AloneIs(p)
    /\ before # None =>
        /\ before \in Int /\ before >= 1
        /\ \A p \in DOMAIN tasks : Unhandled(p) => tasks[p].memory = before
        /\ remembered = before \/ \E p \in DOMAIN tasks : Unhandled(p)
        /\ \A p \in DOMAIN tasks :
            Mutes(tasks[p]) /\ tasks[p].calm /\ tasks[p].step \in {"read", "write"} =>
                tasks[p].restore = before

TargetOf(task) == At(Targets[task.kind], task.arg)

NameFor(task) == resolve(TargetOf(task), Present(task.kind))

\* What a key that was drawn from the devices that there are may be pressed for.
Offered(task) ==
    task.do = "select" /\ task.step = "read" /\ task.same
      /\ TargetOf(task) # None /\ NameFor(task) \notin {None, "several"} =>
        task.tile \in {"Ok", "Selected"}

Chosen(task) ==
    task.do = "select" /\ task.step # "read" /\ task.said = "ok" =>
        /\ \/ task.saw = TargetOf(task).exact
           \/ \A n \in NamesOf(task.among) : n \in TargetOf(task).pattern <=> n = task.saw
        /\ task.same => task.tile \in {"Ok", "Selected"}

SelectionIs(p) == Offered(tasks[p]) /\ Chosen(tasks[p])

MixerInv ==
    /\ mac \in Macs /\ tasks \in Seq(Tasks) /\ remembered \in Int /\ drawn.is \in FeedStates
    /\ ReportsAre
    /\ HeldIs
    /\ MuteIs
    /\ \A p \in DOMAIN tasks : SelectionIs(p)

LEMMA TotalIs ==
    ASSUME NEW s \in Levelings
    PROVE  /\ Len(s) = 1 => Total(s) = s[1]
           /\ Len(s) = 2 => Total(s) = s[1] + s[2]
<1> DEFINE n == Len(s)
           Adds(f) == f = [c \in 0..n |-> IF c = 0 THEN 0 ELSE f[c - 1] + s[c]]
           total == CHOOSE f : Adds(f)
           sums == [c \in 0..n |-> IF c = 0 THEN 0 ELSE IF c = 1 THEN s[1] ELSE s[1] + s[2]]
<1>1. n \in {1, 2} /\ s \in Seq(Int)
  BY DEF Levelings
<1>2. s[1] \in Int /\ (n = 2 => s[2] \in Int)
  BY <1>1
<1>3. Adds(sums)
  <2>1. \A c \in 0..n : sums[c] = IF c = 0 THEN 0 ELSE sums[c - 1] + s[c]
    <3> TAKE c \in 0..n
    <3>1. c = 0 \/ c = 1 \/ c = 2
      <4>1. CASE n = 1
        BY <4>1
      <4>2. CASE n = 2
        BY <4>2
      <4> QED BY <1>1, <4>1, <4>2
    <3>2. CASE c = 0
      BY <3>2, <1>1
    <3>3. CASE c = 1
      BY <3>3, <1>1, <1>2
    <3>4. CASE c = 2
      BY <3>4, <1>1, <1>2
    <3> QED BY <3>1, <3>2, <3>3, <3>4
  <2> QED BY <2>1
<1> HIDE DEF sums
<1>4. Adds(total)
  BY <1>3
<1>5. Total(s) = total[n]
  BY DEF Total
<1> HIDE DEF total
<1>6. total[0] = 0
  BY <1>1, <1>4
<1>7. total[1] = s[1]
  <2>1. total[1] = total[0] + s[1]
    BY <1>1, <1>4
  <2> QED BY <1>2, <1>6, <2>1
<1>8. n = 2 => total[2] = s[1] + s[2]
  <2>1. n = 2 => total[2] = total[1] + s[2]
    BY <1>4
  <2> QED BY <1>7, <2>1
<1> QED BY <1>5, <1>7, <1>8

LEMMA MeanType ==
    ASSUME NEW s \in Levelings
    PROVE  Mean(s) \in Int
<1>1. Len(s) \in {1, 2} /\ s \in Seq(Int)
  BY DEF Levelings
<1>2. Total(s) \in Int
  BY <1>1, TotalIs
<1>3. CASE Len(s) = 1
  BY <1>2, <1>3 DEF Mean
<1>4. CASE Len(s) = 2
  BY <1>2, <1>4 DEF Mean
<1> QED BY <1>1, <1>3, <1>4

\* What is written to every channel is what is read back.
LEMMA MeanOfEqual ==
    ASSUME NEW s \in Levelings, NEW v \in Int
    PROVE  /\ [c \in DOMAIN s |-> v] \in Levelings
           /\ Mean([c \in DOMAIN s |-> v]) = v
<1> DEFINE same == [c \in DOMAIN s |-> v]
<1>1. Len(s) \in {1, 2} /\ DOMAIN s = 1..Len(s)
  BY DEF Levelings
<1>2. same \in Seq(Int) /\ Len(same) = Len(s)
  BY <1>1
<1>3. same \in Levelings
  BY <1>1, <1>2 DEF Levelings
<1>4. CASE Len(s) = 1
  <2>1. same[1] = v
    BY <1>1, <1>4
  <2> HIDE DEF same
  <2>2. Total(same) = v
    BY <1>2, <1>3, <1>4, <2>1, TotalIs
  <2>3. Mean(same) = v
    BY <1>2, <1>4, <2>2 DEF Mean
  <2> QED BY <1>3, <2>3 DEF same
<1>5. CASE Len(s) = 2
  <2>1. same[1] = v /\ same[2] = v
    BY <1>1, <1>5
  <2> HIDE DEF same
  <2>2. Total(same) = v + v
    BY <1>2, <1>3, <1>5, <2>1, TotalIs
  <2>3. Mean(same) = v
    BY <1>2, <1>5, <2>2 DEF Mean
  <2> QED BY <1>3, <2>3 DEF same
<1> QED BY <1>1, <1>4, <1>5

LEMMA VolumeType ==
    ASSUME mac \in Macs, NEW d \in Devices \cup {None}, read_volume(d) # None
    PROVE  read_volume(d) \in Int /\ d \in Devices
<1>1. d \in Devices /\ read_volume(d) = Mean(mac.level[d])
  BY DEF read_volume
<1>2. mac.level[d] \in Levelings
  BY <1>1 DEF Macs
<1> QED BY <1>1, <1>2, MeanType

\* A level that is written is there.
LEMMA WrittenIs ==
    ASSUME mac \in Macs, NEW d \in Devices, NEW v \in Int, mac' = write_volume(d, v),
           Sound[d].control # "none"
    PROVE  mac' \in Macs /\ mac'.present = mac.present /\ Mean(mac'.level[d]) = v
<1> DEFINE levels == [c \in DOMAIN mac.level[d] |-> v]
<1>1. mac.level[d] \in Levelings
  BY DEF Macs
<1>2. levels \in Levelings /\ Mean(levels) = v
  BY <1>1, MeanOfEqual
<1>3. mac' = [mac EXCEPT !.level[d] = levels]
  BY DEF write_volume
<1> HIDE DEF levels
<1>4. mac'.level[d] = levels
  BY <1>3 DEF Macs
<1>5. mac' \in Macs /\ mac'.present = mac.present
  BY <1>2, <1>3 DEF Macs
<1> QED BY <1>2, <1>4, <1>5

LEMMA NextVolumeType ==
    ASSUME NEW current \in Int, NEW delta \in Int
    PROVE  next_volume(current, delta) \in Int
BY DEF next_volume

LEMMA EffectsAre ==
    ASSUME mac \in Macs, NEW task \in Tasks, task.step = "write", mac' \in Effects(task)
    PROVE  mac' \in Macs /\ mac'.present = mac.present
<1> DEFINE d == Device(task)
<1>1. CASE task.do = "select"
  <2>1. PICK m \in Meant(task) : mac' = [mac EXCEPT !.default[task.kind] = m]
    BY <1>1 DEF Effects
  <2>2. m \in Devices /\ task.kind \in Kinds
    BY DEF Meant, Present, Macs, Tasks
  <2> QED BY <2>1, <2>2 DEF Macs
<1>2. CASE task.do # "select"
  <2>1. d # None /\ Writable(d)
    BY <1>2 DEF Effects
  <2>2. d \in Devices /\ Sound[d].control # "none"
    BY <2>1 DEF Writable, Macs
  <2> HIDE DEF d
  <2>3. CASE task.do = "adjust"
    <3>1. task.saw \in Int /\ task.arg \in Int
      BY <2>3 DEF Tasks
    <3>2. mac' = write_volume(d, next_volume(task.saw, task.arg))
      BY <1>2, <2>1, <2>3 DEF Effects, d
    <3> QED BY <2>2, <3>1, <3>2, NextVolumeType, WrittenIs
  <2>4. CASE task.do = "toggle" /\ task.kind = "Output"
    <3>1. mac' = write_mute(d, ~task.saw)
      BY <1>2, <2>1, <2>4 DEF Effects, d
    <3> QED BY <2>2, <3>1 DEF write_mute, Macs
  <2>5. CASE task.do # "adjust" /\ ~(task.do = "toggle" /\ task.kind = "Output")
    <3>1. mac' = write_volume(d, IF task.saw = 0 THEN Restored(task) ELSE 0)
      BY <1>2, <2>1, <2>5 DEF Effects, d
    <3>2. (IF task.saw = 0 THEN Restored(task) ELSE 0) \in Int
      BY DEF Restored, Tasks
    <3> QED BY <2>2, <3>1, <3>2, WrittenIs
  <2> QED BY <2>3, <2>4, <2>5
<1> QED BY <1>1, <1>2

-----------------------------------------------------------------------------
(* The initial state, and what a task that changes leaves alone.            *)

LEMMA MixerInvInit == MixerInit => MixerInv
<1> SUFFICES ASSUME MixerInit PROVE MixerInv
  OBVIOUS
<1>1. tasks = << >> /\ reports = << >> /\ remembered = 50 /\ drawn = Loading /\ before = None
  BY DEF MixerInit
<1>2. mac \in Macs
  <2> DEFINE chosen(k) == CHOOSE d \in DOMAIN Sound : Sound[d].kind = k /\ Sound[d].control # "none"
  <2>1. \A k \in Kinds : chosen(k) \in Devices
    BY MixerAssumption DEF MixerAssumption, Devices
  <2>2. << 40, 61 >> \in Levelings /\ << 60 >> \in Levelings
    BY DEF Levelings
  <2>3. mac = [present |-> {d \in DOMAIN Sound : Sound[d].control # "none"},
               default |-> [k \in Kinds |-> chosen(k)],
               level |-> [d \in DOMAIN Sound |->
                            IF Sound[d].control = "channels" THEN << 40, 61 >> ELSE << 60 >>],
               muted |-> [d \in DOMAIN Sound |-> FALSE]]
    BY DEF MixerInit
  <2> HIDE DEF chosen
  <2> QED BY <2>1, <2>2, <2>3 DEF Macs, Devices
<1>3. tasks \in Seq(Tasks) /\ DOMAIN tasks = {}
  BY <1>1
<1> QED BY <1>1, <1>2, <1>3
    DEF MixerInv, ReportsAre, HeldIs, MuteIs, FeedStates, Loading

\* Task p becomes t, the others stay.
LEMMA OneChanges ==
    ASSUME tasks \in Seq(Tasks), NEW p \in DOMAIN tasks, NEW t \in Tasks,
           tasks' = [tasks EXCEPT ![p] = t]
    PROVE  /\ tasks' \in Seq(Tasks) /\ DOMAIN tasks' = DOMAIN tasks /\ tasks'[p] = t
           /\ \A q \in DOMAIN tasks : q # p => tasks'[q] = tasks[q]
OBVIOUS

\* What a selection comes to depends on which devices there are.
LEMMA SelectionStays ==
    ASSUME mac'.present = mac.present, native' = native,
           NEW p, NEW t, t = tasks'[p], Offered(t), Chosen(t)
    PROVE  SelectionIs(p)'
<1>1. NameFor(tasks[p])' = NameFor(t)
  BY DEF NameFor, TargetOf, resolve, Present, NamesOf
<1>2. TargetOf(tasks[p])' = TargetOf(t)
  BY DEF TargetOf
<1>3. Offered(tasks[p])'
  BY <1>1, <1>2 DEF Offered
<1>4. Chosen(tasks[p])'
  BY <1>2 DEF Chosen, NamesOf
<1> QED BY <1>3, <1>4 DEF SelectionIs

\* A key that was not pressed yet when the devices changed was drawn from others.
LEMMA SelectionGoes ==
    ASSUME NEW p, NEW t, t = tasks'[p], t.step = "read" => ~t.same, Chosen(t)
    PROVE  SelectionIs(p)'
<1>1. TargetOf(tasks[p])' = TargetOf(t)
  BY DEF TargetOf
<1>2. Offered(tasks[p])'
  BY DEF Offered
<1>3. Chosen(tasks[p])'
  BY <1>1 DEF Chosen, NamesOf
<1> QED BY <1>2, <1>3 DEF SelectionIs

LEMMA TaskReportsStep ==
    ASSUME MixerInv, TaskReports
    PROVE  MixerInv'
<1>1. PICK p \in DOMAIN tasks :
        /\ tasks[p].step = "report"
        /\ tasks' = [tasks EXCEPT ![p].step = "sent"]
        /\ reports' = Append(reports, p)
  BY DEF TaskReports
<1> DEFINE t == [tasks[p] EXCEPT !.step = "sent"]
<1>2. tasks \in Seq(Tasks) /\ tasks[p] \in Tasks
  BY DEF MixerInv
<1>3. t \in Tasks
  BY <1>1, <1>2 DEF Tasks, AudioSteps, Mutes
<1>4. /\ t.step = "sent" /\ t.do = tasks[p].do /\ t.kind = tasks[p].kind /\ t.memory = tasks[p].memory
      /\ t.calm = tasks[p].calm /\ Mutes(t) = Mutes(tasks[p])
      /\ ~Offered(t) => FALSE
  BY <1>2 DEF Tasks, Mutes, Offered
<1>5. Chosen(tasks[p]) => Chosen(t)
  BY <1>1, <1>2 DEF Tasks, Chosen, TargetOf
<1>6. tasks' = [tasks EXCEPT ![p] = t]
  BY <1>1
<1> HIDE DEF t
<1>7. /\ tasks' \in Seq(Tasks) /\ DOMAIN tasks' = DOMAIN tasks /\ tasks'[p] = t
      /\ \A q \in DOMAIN tasks : q # p => tasks'[q] = tasks[q]
  BY <1>2, <1>3, <1>6, OneChanges
<1>8. /\ UNCHANGED << native, mac, drawn, holder, remembered, before >>
  BY DEF TaskReports
<1>9. ReportsAre'
  <2>1. /\ reports \in Seq(Nat) /\ p \in Nat /\ tasks[p].step # "sent"
    BY <1>1, <1>2 DEF MixerInv, ReportsAre
  <2>2. /\ reports' \in Seq(Nat) /\ DOMAIN reports' = DOMAIN reports \cup {Len(reports) + 1}
        /\ \A i \in DOMAIN reports : reports'[i] = reports[i]
        /\ reports'[Len(reports) + 1] = p
    BY <1>1, <2>1
  <2>3. \A i \in DOMAIN reports : reports[i] # p
    BY <2>1 DEF MixerInv, ReportsAre
  <2>5. \A i \in DOMAIN reports' : reports'[i] \in DOMAIN tasks' /\ tasks'[reports'[i]].step = "sent"
    <3>1. \A i \in DOMAIN reports : reports[i] \in DOMAIN tasks /\ tasks[reports[i]].step = "sent"
      BY DEF MixerInv, ReportsAre
    <3> QED BY <1>4, <1>7, <2>2, <2>3, <3>1
  <2>6. \A i, j \in DOMAIN reports' : reports'[i] = reports'[j] => i = j
    <3>1. \A i, j \in DOMAIN reports : reports[i] = reports[j] => i = j
      BY DEF MixerInv, ReportsAre
    <3>2. \A i \in DOMAIN reports : reports'[i] = reports[i] /\ reports'[i] # p
      BY <2>2, <2>3
    <3> QED BY <2>2, <3>1, <3>2
  <2> QED BY <2>2, <2>5, <2>6 DEF ReportsAre
<1>10. HeldIs'
  BY <1>4, <1>7, <1>8 DEF MixerInv, HeldIs, Holds, read_volume
<1>11. MuteIs'
  <2>1. \A q \in DOMAIN tasks : AloneIs(q)'
    BY <1>1, <1>4, <1>7 DEF MixerInv, MuteIs, AloneIs, Mutes
  <2>2. \A q \in DOMAIN tasks : Unhandled(q)' <=> Unhandled(q)
    BY <1>1, <1>4, <1>7 DEF Unhandled, Mutes
  <2>3. \A q \in DOMAIN tasks : tasks'[q].memory = tasks[q].memory
    BY <1>4, <1>7
  <2>4. \A q \in DOMAIN tasks : tasks'[q].step \in {"read", "write"} => tasks'[q] = tasks[q]
    BY <1>4, <1>7
  <2> QED BY <1>7, <1>8, <2>1, <2>2, <2>3, <2>4 DEF MixerInv, MuteIs
<1>12. \A q \in DOMAIN tasks' : SelectionIs(q)'
  <2> SUFFICES ASSUME NEW q \in DOMAIN tasks PROVE SelectionIs(q)'
    BY <1>7
  <2>1. PICK u : u = tasks'[q]
    OBVIOUS
  <2>2. Offered(u) /\ Chosen(u)
    BY <1>4, <1>5, <1>7, <2>1 DEF MixerInv, SelectionIs
  <2> QED BY <1>8, <2>1, <2>2, SelectionStays
<1> QED BY <1>7, <1>8, <1>9, <1>10, <1>11, <1>12 DEF MixerInv

LEMMA OutcomeHandledStep ==
    ASSUME MixerInv, OutcomeHandled
    PROVE  MixerInv'
<1> DEFINE h == Head(reports)
<1>1. /\ reports # << >> /\ reports' = Tail(reports)
      /\ remembered' = IF tasks[h].memory # None THEN tasks[h].memory ELSE remembered
      /\ tasks' = [tasks EXCEPT ![h].step = "over"]
      /\ UNCHANGED << native, mac, drawn, holder, before >>
  BY DEF OutcomeHandled
<1>2. reports \in Seq(Nat) /\ h = reports[1] /\ 1 \in DOMAIN reports
  BY <1>1 DEF MixerInv, ReportsAre
<1>3. h \in DOMAIN tasks /\ tasks[h].step = "sent"
  BY <1>2 DEF MixerInv, ReportsAre
<1> HIDE DEF h
<1>4. PICK p \in DOMAIN tasks : p = h
  BY <1>3
<1> DEFINE t == [tasks[p] EXCEPT !.step = "over"]
<1>5. tasks \in Seq(Tasks) /\ tasks[p] \in Tasks /\ tasks[p].step = "sent"
  BY <1>3, <1>4 DEF MixerInv
<1>6. t \in Tasks
  BY <1>5 DEF Tasks, AudioSteps, Mutes
<1>7. /\ t.step = "over" /\ t.do = tasks[p].do /\ t.memory = tasks[p].memory
      /\ Mutes(t) = Mutes(tasks[p]) /\ Offered(t)
  BY <1>5 DEF Tasks, Mutes, Offered
<1>8. Chosen(tasks[p]) => Chosen(t)
  BY <1>5 DEF Tasks, Chosen, TargetOf
<1>9. tasks' = [tasks EXCEPT ![p] = t]
  BY <1>1, <1>4
<1>10. tasks[p].memory # None => Unhandled(p)
  BY <1>5 DEF Tasks, Unhandled
<1> HIDE DEF t
<1>11. /\ tasks' \in Seq(Tasks) /\ DOMAIN tasks' = DOMAIN tasks /\ tasks'[p] = t
       /\ \A q \in DOMAIN tasks : q # p => tasks'[q] = tasks[q]
  BY <1>5, <1>6, <1>9, OneChanges
<1>12. ReportsAre'
  <2>1. /\ reports' \in Seq(Nat)
        /\ \A i \in DOMAIN reports' : /\ i \in Nat /\ i + 1 \in DOMAIN reports /\ i + 1 # 1
                                      /\ reports'[i] = reports[i + 1]
    BY <1>1, <1>2
  <2>2. /\ \A i \in DOMAIN reports : reports[i] \in DOMAIN tasks /\ tasks[reports[i]].step = "sent"
        /\ \A i, j \in DOMAIN reports : reports[i] = reports[j] => i = j
    BY DEF MixerInv, ReportsAre
  <2>3. \A i \in DOMAIN reports' : reports'[i] \in DOMAIN tasks' /\ tasks'[reports'[i]].step = "sent"
    <3> TAKE i \in DOMAIN reports'
    <3>1. reports'[i] # p
      BY <1>2, <1>4, <2>1, <2>2
    <3> QED BY <1>11, <2>1, <2>2, <3>1
  <2>4. \A i, j \in DOMAIN reports' : reports'[i] = reports'[j] => i = j
    <3> TAKE i, j \in DOMAIN reports'
    <3>1. reports'[i] = reports'[j] => i + 1 = j + 1
      BY <2>1, <2>2
    <3> QED BY <2>1, <3>1
  <2> QED BY <2>1, <2>3, <2>4 DEF ReportsAre
<1>13. HeldIs'
  BY <1>1, <1>7, <1>11 DEF MixerInv, HeldIs, Holds, read_volume
<1>14. MuteIs'
  <2>1. \A q \in DOMAIN tasks : AloneIs(q)'
    BY <1>7, <1>11 DEF MixerInv, MuteIs, AloneIs, Mutes
  <2>2. /\ ~Unhandled(p)'
        /\ \A q \in DOMAIN tasks : q # p => (Unhandled(q)' <=> Unhandled(q))
    BY <1>7, <1>11 DEF Unhandled, Mutes
  <2>3. \A q \in DOMAIN tasks : tasks'[q].memory = tasks[q].memory
    BY <1>7, <1>11
  <2>4. \A q \in DOMAIN tasks : tasks'[q].step \in {"read", "write"} => tasks'[q] = tasks[q]
    BY <1>7, <1>11
  <2>5. before # None => remembered' = before \/ \E q \in DOMAIN tasks : Unhandled(q)'
    <3> SUFFICES ASSUME before # None PROVE remembered' = before \/ \E q \in DOMAIN tasks : Unhandled(q)'
      OBVIOUS
    <3>1. CASE tasks[p].memory # None
      BY <1>1, <1>4, <1>10, <3>1 DEF MixerInv, MuteIs
    <3>2. CASE tasks[p].memory = None
      <4>1. remembered' = remembered /\ ~Unhandled(p)
        BY <1>1, <1>4, <3>2 DEF Unhandled
      <4> QED BY <2>2, <4>1 DEF MixerInv, MuteIs
    <3> QED BY <3>1, <3>2
  <2> QED BY <1>1, <1>11, <2>1, <2>2, <2>3, <2>4, <2>5 DEF MixerInv, MuteIs
<1>15. \A q \in DOMAIN tasks' : SelectionIs(q)'
  <2> SUFFICES ASSUME NEW q \in DOMAIN tasks PROVE SelectionIs(q)'
    BY <1>11
  <2>1. PICK u : u = tasks'[q]
    OBVIOUS
  <2>2. Offered(u) /\ Chosen(u)
    BY <1>7, <1>8, <1>11, <2>1 DEF MixerInv, SelectionIs
  <2> QED BY <1>1, <2>1, <2>2, SelectionStays
<1>16. remembered' \in Int
  BY <1>1, <1>4, <1>5 DEF MixerInv, Tasks
<1> QED BY <1>1, <1>11, <1>12, <1>13, <1>14, <1>15, <1>16 DEF MixerInv

LEMMA FeedState ==
    ASSUME NEW stored, stored.is \in FeedStates
    PROVE  Failing(stored).is \in FeedStates
BY DEF FeedStates, Failing, HasValue, Kept, Failed

LEMMA RefreshAudioStep ==
    ASSUME MixerInv, RefreshAudio
    PROVE  MixerInv'
<1>1. UNCHANGED << native, mac, tasks, holder, reports, remembered, before >>
  BY DEF RefreshAudio
<1>2. (drawn.is \in FeedStates)'
  BY FeedState DEF RefreshAudio, Ready, FeedStates, MixerInv
<1>3. ReportsAre' /\ HeldIs' /\ MuteIs'
  BY <1>1 DEF MixerInv, ReportsAre, HeldIs, Holds, read_volume, MuteIs, AloneIs, Unhandled
<1>4. \A p \in DOMAIN tasks : SelectionIs(p)'
  BY <1>1, SelectionStays DEF MixerInv, SelectionIs
<1> QED BY <1>1, <1>2, <1>3, <1>4 DEF MixerInv

\* A task when the Mac changes.
TurnedOf(task) == [task EXCEPT !.disturbed = @ \/ task.step = "write",
                               !.same = @ /\ task.step # "read"]

LEMMA TurnedIs ==
    ASSUME NEW task \in Tasks
    PROVE  /\ TurnedOf(task) \in Tasks
           /\ TurnedOf(task).step = task.step /\ TurnedOf(task).do = task.do
           /\ TurnedOf(task).calm = task.calm /\ Mutes(TurnedOf(task)) = Mutes(task)
           /\ task.step = "write" => TurnedOf(task).disturbed
           /\ task.step = "read" => ~TurnedOf(task).same
           /\ Chosen(task) => Chosen(TurnedOf(task))
<1>1. PICK a \in BOOLEAN : a <=> (task.disturbed \/ task.step = "write")
  OBVIOUS
<1>2. PICK b \in BOOLEAN : b <=> (task.same /\ task.step # "read")
  OBVIOUS
<1> DEFINE t == [task EXCEPT !.disturbed = a, !.same = b]
<1>3. TurnedOf(task) = t
  <2>1. task.disturbed \in BOOLEAN /\ task.same \in BOOLEAN
    BY DEF Tasks
  <2>2. a = (task.disturbed \/ task.step = "write") /\ b = (task.same /\ task.step # "read")
    BY <1>1, <1>2, <2>1
  <2>3. TurnedOf(task) = [task EXCEPT !.disturbed = task.disturbed \/ task.step = "write",
                                      !.same = task.same /\ task.step # "read"]
    BY DEF TurnedOf, Tasks
  <2> QED BY <2>2, <2>3, Zenon
<1>4. /\ t \in Tasks
      /\ t.step = task.step /\ t.do = task.do /\ t.calm = task.calm /\ Mutes(t) = Mutes(task)
      /\ t.disturbed = a /\ t.same = b
      /\ TargetOf(t) = TargetOf(task) /\ t.saw = task.saw /\ t.among = task.among
      /\ t.tile = task.tile /\ t.said = task.said
  BY DEF Tasks, Mutes, TargetOf
<1> HIDE DEF t
<1>5. Chosen(task) => Chosen(t)
  BY <1>2, <1>4 DEF Chosen
<1> QED BY <1>1, <1>2, <1>3, <1>4, <1>5

LEMMA KnobTurnsStep ==
    ASSUME MixerInv, KnobTurns
    PROVE  MixerInv'
<1>1. /\ before' = None
      /\ tasks' = [p \in DOMAIN tasks |-> TurnedOf(tasks[p])]
      /\ UNCHANGED << native, drawn, holder, reports, remembered >>
  BY DEF KnobTurns, TurnedOf
<1>2. mac' \in Macs
  <2>0. mac \in Macs
    BY DEF MixerInv
  <2>1. CASE \E d \in mac.present : Sound[d].control # "none" /\ mac' = write_volume(d, 30)
    BY <2>0, <2>1, WrittenIs DEF Macs
  <2>2. CASE \E d \in mac.present : mac' = [mac EXCEPT !.default[Sound[d].kind] = d]
    <3>1. PICK d \in mac.present : mac' = [mac EXCEPT !.default[Sound[d].kind] = d]
      BY <2>2
    <3>2. d \in Devices /\ Sound[d].kind \in Kinds
      BY <2>0, MixerAssumption DEF MixerAssumption, Macs, Devices
    <3> QED BY <2>0, <3>1, <3>2 DEF Macs
  <2>3. CASE \E d \in DOMAIN Sound \ mac.present : mac' = [mac EXCEPT !.present = @ \cup {d}]
    BY <2>0, <2>3 DEF Macs, Devices
  <2>4. ASSUME NEW d \in mac.present, NEW next \in Devices \cup {None},
               mac' = [mac EXCEPT !.present = @ \ {d}, !.default[Sound[d].kind] = next]
        PROVE  mac' \in Macs
    <3>1. Sound[d].kind \in Kinds
      BY <2>0, MixerAssumption DEF MixerAssumption, Macs, Devices
    <3> QED BY <2>0, <2>4, <3>1 DEF Macs
  <2>5. ASSUME NEW d \in mac.present,
               LET rest == Present(Sound[d].kind) \ {d}
               IN  mac' = [mac EXCEPT !.present = @ \ {d},
                                      !.default[Sound[d].kind] =
                                            IF @ # d THEN @
                                            ELSE IF rest = {} THEN None ELSE CHOOSE r \in rest : TRUE]
        PROVE  mac' \in Macs
    <3> DEFINE rest == Present(Sound[d].kind) \ {d}
               other == IF mac.default[Sound[d].kind] # d THEN mac.default[Sound[d].kind]
                        ELSE IF rest = {} THEN None ELSE CHOOSE r \in rest : TRUE
    <3>1. Sound[d].kind \in Kinds
      BY <2>0, MixerAssumption DEF MixerAssumption, Macs, Devices
    <3>2. rest \subseteq Devices
      BY <2>0 DEF Present, Macs
    <3>3. other \in Devices \cup {None}
      <4> HIDE DEF rest
      <4>1. rest # {} => (CHOOSE r \in rest : TRUE) \in rest
        OBVIOUS
      <4> QED BY <2>0, <3>1, <3>2, <4>1 DEF Macs
    <3>4. mac' = [mac EXCEPT !.present = @ \ {d}, !.default[Sound[d].kind] = other]
      BY <2>5
    <3> HIDE DEF other
    <3> QED BY <2>4, <3>3, <3>4
  <2> QED BY <2>1, <2>2, <2>3, <2>5 DEF KnobTurns
<1>3. tasks \in Seq(Tasks) /\ \A p \in DOMAIN tasks : tasks[p] \in Tasks
  BY DEF MixerInv
<1>4. DOMAIN tasks' = DOMAIN tasks /\ \A p \in DOMAIN tasks : tasks'[p] = TurnedOf(tasks[p])
  BY <1>1
<1>5. tasks' \in Seq(Tasks)
  <2>2. \A p \in DOMAIN tasks : tasks'[p] \in Tasks
    BY <1>3, <1>4, TurnedIs
  <2>3. tasks' = [p \in 1..Len(tasks) |-> tasks'[p]] /\ Len(tasks) \in Nat /\ DOMAIN tasks = 1..Len(tasks)
    BY <1>1, <1>3
  <2> QED BY <2>2, <2>3
<1>6. ReportsAre' /\ HeldIs' /\ MuteIs'
  <2>1. ReportsAre'
    BY <1>1, <1>3, <1>4, TurnedIs DEF MixerInv, ReportsAre
  <2>2. \A p \in DOMAIN tasks : AloneIs(p)'
    BY <1>3, <1>4, TurnedIs DEF MixerInv, MuteIs, AloneIs
  <2>3. HeldIs'
    BY <1>1, <1>3, <1>4, TurnedIs DEF MixerInv, HeldIs, Holds
  <2> QED BY <1>1, <1>4, <2>1, <2>2, <2>3 DEF MuteIs
<1>7. \A p \in DOMAIN tasks : SelectionIs(p)'
  <2> TAKE q \in DOMAIN tasks
  <2>1. PICK u : u = tasks'[q]
    OBVIOUS
  <2>2. Chosen(u) /\ (u.step = "read" => ~u.same)
    BY <1>3, <1>4, <2>1, TurnedIs DEF MixerInv, SelectionIs
  <2> QED BY <2>1, <2>2, SelectionGoes
<1> QED BY <1>1, <1>2, <1>4, <1>5, <1>6, <1>7 DEF MixerInv

\* How a key looks.
LEMMA DeviceFaceIs ==
    ASSUME NEW stored, stored.is \in FeedStates, NEW side, NEW index
    PROVE  /\ DeviceFace(stored, side, index).status \in TileStates
           /\ LET target == At(Targets[side], index)
                  name == resolve(target, {d \in stored.value.present : Sound[d].kind = side})
              IN  HasValue(stored) /\ target # None /\ name \notin {None, "several"} =>
                    DeviceFace(stored, side, index).status \in {"Ok", "Selected"}
<1> DEFINE target == At(Targets[side], index)
           name == resolve(target, {d \in stored.value.present : Sound[d].kind = side})
<1> HIDE DEF target, name
<1>1. StatusOf(stored) \in TileStates
  BY DEF StatusOf, TileStates, FeedStates
<1>2. DeviceFace(stored, side, index) =
        IF target = None THEN Face("blank", << >>, "Ok")
        ELSE IF ~HasValue(stored) THEN Face("disabled", << target.label >>, StatusOf(stored))
        ELSE Face("device", << target.label >>,
                  IF name = None THEN "Disabled"
                  ELSE IF name = "several" THEN "Ambiguous"
                  ELSE IF name = stored.value.names[side] THEN "Selected"
                  ELSE "Ok")
  BY DEF DeviceFace, target, name
<1>3. DeviceFace(stored, side, index).status \in TileStates
  BY <1>1, <1>2 DEF Face, TileStates
<1>4. HasValue(stored) /\ target # None /\ name \notin {None, "several"} =>
        DeviceFace(stored, side, index).status \in {"Ok", "Selected"}
  BY <1>2 DEF Face
<1> QED BY <1>3, <1>4 DEF target, name

\* A task when another one is spawned: one of the mute key is not alone any more.
Ruffled(task, key) == [task EXCEPT !.calm = @ /\ ~Mutes(key)]

LEMMA RuffledIs ==
    ASSUME NEW task \in Tasks, NEW key
    PROVE  /\ Ruffled(task, key) \in Tasks
           /\ \E calm \in BOOLEAN : /\ Ruffled(task, key) = [task EXCEPT !.calm = calm]
                                    /\ calm => task.calm /\ ~Mutes(key)
           /\ Offered(task) => Offered(Ruffled(task, key))
           /\ Chosen(task) => Chosen(Ruffled(task, key))
<1>1. PICK a \in BOOLEAN : a <=> (task.calm /\ ~Mutes(key))
  OBVIOUS
<1> DEFINE t == [task EXCEPT !.calm = a]
<1>2. Ruffled(task, key) = t
  <2>1. task.calm \in BOOLEAN
    BY DEF Tasks
  <2>2. a = (task.calm /\ ~Mutes(key))
    BY <1>1, <2>1
  <2>3. Ruffled(task, key) = [task EXCEPT !.calm = task.calm /\ ~Mutes(key)]
    BY DEF Ruffled, Tasks
  <2> QED BY <2>2, <2>3, Zenon
<1>3. /\ t \in Tasks
      /\ TargetOf(t) = TargetOf(task) /\ t.saw = task.saw /\ t.among = task.among
      /\ t.tile = task.tile /\ t.said = task.said /\ t.same = task.same
      /\ t.do = task.do /\ t.step = task.step /\ NameFor(t) = NameFor(task)
  BY DEF Tasks, Mutes, TargetOf, NameFor
<1>4. (Offered(task) => Offered(t)) /\ (Chosen(task) => Chosen(t))
  <2> HIDE DEF t
  <2> QED BY <1>3 DEF Offered, Chosen
<1> QED BY <1>1, <1>2, <1>3, <1>4

\* The task of a press.
Spawned(key) ==
    [do |-> key.do, kind |-> key.kind, arg |-> key.arg, restore |-> remembered,
     step |-> "read", device |-> None, saw |-> None, said |-> "ok", memory |-> None,
     calm |-> \A p \in DOMAIN tasks : Mutes(tasks[p]) => tasks[p].step = "over",
     tile |-> IF key.do = "select" THEN DeviceFace(drawn, key.kind, key.arg).status ELSE None,
     same |-> HasValue(drawn) /\ drawn.value.present = mac.present,
     among |-> {}, disturbed |-> FALSE]

LEMMA SpawnedIs ==
    ASSUME MixerInv, NEW key \in AudioKeys
    PROVE  /\ Spawned(key) \in Tasks
           /\ Offered(Spawned(key)) /\ Chosen(Spawned(key))
           /\ Spawned(key).step = "read" /\ Spawned(key).restore = remembered
           /\ Mutes(Spawned(key)) = Mutes(key)
           /\ Spawned(key).calm => \A p \in DOMAIN tasks : Mutes(tasks[p]) => tasks[p].step = "over"
<1>1. PICK a \in BOOLEAN : a = \A p \in DOMAIN tasks : Mutes(tasks[p]) => tasks[p].step = "over"
  OBVIOUS
<1>2. PICK b \in BOOLEAN : b = (HasValue(drawn) /\ drawn.value.present = mac.present)
  OBVIOUS
<1>3. PICK face : face = DeviceFace(drawn, key.kind, key.arg).status
  OBVIOUS
<1>4. PICK look : look = IF key.do = "select" THEN face ELSE None
  OBVIOUS
<1> DEFINE t == [do |-> key.do, kind |-> key.kind, arg |-> key.arg, restore |-> remembered,
                 step |-> "read", device |-> None, saw |-> None, said |-> "ok", memory |-> None,
                 calm |-> a, tile |-> look, same |-> b, among |-> {}, disturbed |-> FALSE]
<1>5. Spawned(key) = t
  BY <1>1, <1>2, <1>3, <1>4, Zenon DEF Spawned
<1>6. /\ drawn.is \in FeedStates /\ remembered \in Int
      /\ key.kind \in Kinds /\ (key.do = "adjust" => key.arg \in Int)
  BY MixerAssumption DEF MixerInv, MixerAssumption
<1>7. face \in TileStates /\ look \in TileStates
  BY <1>3, <1>4, <1>6, DeviceFaceIs DEF TileStates
<1>8. t \in Tasks
  BY <1>6, <1>7 DEF Tasks, AudioSteps, Mutes
<1>9. Offered(t)
  <2> SUFFICES ASSUME key.do = "select", b, TargetOf(t) # None, NameFor(t) \notin {None, "several"}
               PROVE  look \in {"Ok", "Selected"}
    BY DEF Offered
  <2>1. drawn.value.present = mac.present /\ HasValue(drawn)
    BY <1>2
  <2>2. TargetOf(t) = At(Targets[key.kind], key.arg)
    BY DEF TargetOf
  <2>3. NameFor(t) = resolve(At(Targets[key.kind], key.arg),
                             {d \in drawn.value.present : Sound[d].kind = key.kind})
    BY <2>1, <2>2 DEF NameFor, Present
  <2>4. face \in {"Ok", "Selected"}
    BY <1>3, <1>6, <2>1, <2>2, <2>3, DeviceFaceIs
  <2> QED BY <1>4, <2>4
<1>10. Chosen(t)
  BY DEF Chosen
<1> QED BY <1>1, <1>5, <1>8, <1>9, <1>10 DEF Mutes

LEMMA PressAudioStep ==
    ASSUME MixerInv, PressAudio
    PROVE  MixerInv'
<1>0. PICK n : n = Len(tasks) + 1
  OBVIOUS
<1>1. PICK key \in AudioKeys :
        tasks' = Append([p \in DOMAIN tasks |-> Ruffled(tasks[p], key)], Spawned(key))
  BY DEF PressAudio, Ruffled, Spawned
<1>2. UNCHANGED << native, mac, drawn, holder, reports, remembered, before >>
  BY DEF PressAudio
<1>3. PICK t \in Tasks : t = Spawned(key)
  BY SpawnedIs
<1>4. /\ Offered(t) /\ Chosen(t) /\ t.step = "read" /\ t.restore = remembered
      /\ Mutes(t) = Mutes(key)
      /\ t.calm => \A p \in DOMAIN tasks : Mutes(tasks[p]) => tasks[p].step = "over"
  BY <1>3, SpawnedIs
<1>5. tasks \in Seq(Tasks) /\ DOMAIN tasks = 1..Len(tasks) /\ \A p \in DOMAIN tasks : tasks[p] \in Tasks
  BY DEF MixerInv
<1> DEFINE base == [p \in DOMAIN tasks |-> Ruffled(tasks[p], key)]
<1>6. base \in Seq(Tasks) /\ Len(base) = Len(tasks)
  <2>1. \A p \in 1..Len(tasks) : Ruffled(tasks[p], key) \in Tasks
    BY <1>5, RuffledIs
  <2> QED BY <1>5, <2>1
<1>7. /\ tasks' \in Seq(Tasks) /\ DOMAIN tasks' = DOMAIN tasks \cup {n} /\ n \notin DOMAIN tasks
      /\ tasks'[n] = t
      /\ \A p \in DOMAIN tasks : tasks'[p] = Ruffled(tasks[p], key)
  <2>1. \A p \in DOMAIN tasks : base[p] = Ruffled(tasks[p], key)
    OBVIOUS
  <2> HIDE DEF base
  <2>2. tasks' = Append(base, t)
    BY <1>1, <1>3 DEF base
  <2> QED BY <1>0, <1>5, <1>6, <2>1, <2>2
<1> HIDE DEF base
<1>8. \A p \in DOMAIN tasks :
        /\ tasks'[p].do = tasks[p].do /\ Mutes(tasks'[p]) = Mutes(tasks[p])
        /\ tasks'[p].step = tasks[p].step /\ tasks'[p].memory = tasks[p].memory
        /\ tasks'[p].restore = tasks[p].restore /\ tasks'[p].saw = tasks[p].saw
        /\ tasks'[p].disturbed = tasks[p].disturbed /\ tasks'[p].device = tasks[p].device
        /\ tasks'[p].calm => tasks[p].calm /\ ~Mutes(t)
  <2> TAKE p \in DOMAIN tasks
  <2>1. PICK calm \in BOOLEAN : /\ tasks'[p] = [tasks[p] EXCEPT !.calm = calm]
                                /\ calm => tasks[p].calm /\ ~Mutes(key)
    BY <1>5, <1>7, RuffledIs
  <2> QED BY <1>4, <1>5, <2>1 DEF Tasks, Mutes
<1>9. ReportsAre'
  BY <1>2, <1>7, <1>8 DEF MixerInv, ReportsAre
<1>10. HeldIs'
  BY <1>2, <1>4, <1>7, <1>8 DEF MixerInv, HeldIs, Holds, read_volume
<1>11. MuteIs'
  <2>1. \A p \in DOMAIN tasks' : AloneIs(p)'
    <3>1. AloneIs(n)'
      BY <1>4, <1>7, <1>8 DEF AloneIs
    <3>2. \A p \in DOMAIN tasks : AloneIs(p)'
      BY <1>7, <1>8 DEF MixerInv, MuteIs, AloneIs
    <3> QED BY <1>7, <3>1, <3>2
  <2>2. /\ ~Unhandled(n)'
        /\ \A p \in DOMAIN tasks : Unhandled(p)' <=> Unhandled(p)
    BY <1>4, <1>7, <1>8 DEF Unhandled
  <2>3. before # None /\ Mutes(t) /\ t.calm => t.restore = before
    BY <1>4 DEF MixerInv, MuteIs, Unhandled
  <2>4. before # None => \A p \in DOMAIN tasks' :
            Mutes(tasks'[p]) /\ tasks'[p].calm /\ tasks'[p].step \in {"read", "write"} =>
                tasks'[p].restore = before
    BY <1>7, <1>8, <2>3 DEF MixerInv, MuteIs
  <2> QED BY <1>2, <1>7, <1>8, <2>1, <2>2, <2>4 DEF MixerInv, MuteIs
<1>12. \A p \in DOMAIN tasks' : SelectionIs(p)'
  <2> TAKE p \in DOMAIN tasks'
  <2>1. PICK u : u = tasks'[p]
    OBVIOUS
  <2>2. Offered(u) /\ Chosen(u)
    BY <1>4, <1>5, <1>7, <2>1, RuffledIs DEF MixerInv, SelectionIs
  <2> QED BY <1>2, <2>1, <2>2, SelectionStays
<1> QED BY <1>2, <1>7, <1>9, <1>10, <1>11, <1>12 DEF MixerInv

\* A name that a target stands for is the one that it says, or the only one that fits.
LEMMA ResolvedIs ==
    ASSUME NEW target, NEW ids \in SUBSET Devices, resolve(target, ids) \notin {None, "several"}
    PROVE  /\ resolve(target, ids) \in SoundNames
           /\ \/ resolve(target, ids) = target.exact
              \/ \A n \in NamesOf(ids) : n \in target.pattern <=> n = resolve(target, ids)
<1> DEFINE fits == {d \in ids : target.pattern # None /\ Sound[d].name \in target.pattern}
           count == Cardinality(IF native THEN NamesOf(fits) ELSE fits)
           only == CHOOSE n \in NamesOf(fits) : TRUE
<1>1. resolve(target, ids) = IF target.exact \in NamesOf(ids) THEN target.exact
                             ELSE IF count = 0 THEN None
                             ELSE IF count = 1 THEN only
                             ELSE "several"
  BY DEF resolve
<1>2. NamesOf(ids) \subseteq SoundNames /\ NamesOf(fits) \subseteq SoundNames
  BY DEF NamesOf, SoundNames
<1>3. CASE target.exact \in NamesOf(ids)
  BY <1>1, <1>2, <1>3
<1>4. CASE target.exact \notin NamesOf(ids)
  <2>1. IsFiniteSet(fits)
    <3>1. IsFiniteSet(Devices) /\ fits \in SUBSET Devices
      BY MixerAssumption DEF MixerAssumption, Devices
    <3> QED BY <3>1, FS_Subset
  <2>2. IsFiniteSet(NamesOf(fits))
    <3> DEFINE naming == [d \in fits |-> Sound[d].name]
    <3>1. naming \in Surjection(fits, NamesOf(fits))
      BY DEF Surjection, NamesOf
    <3> QED BY <2>1, <3>1, FS_Surjection
  <2>3. resolve(target, ids) = only /\ count = 1
    <3> HIDE DEF count, only
    <3> QED BY <1>1, <1>4
  <2>4. \E x : (IF native THEN NamesOf(fits) ELSE fits) = {x}
    <3> HIDE DEF fits
    <3> QED BY <2>1, <2>2, <2>3, FS_Singleton
  <2>5. \E x : NamesOf(fits) = {x}
    <3> HIDE DEF fits
    <3>1. CASE native
      BY <2>4, <3>1
    <3>2. CASE ~native
      <4>1. PICK d : fits = {d}
        BY <2>4, <3>2
      <4>2. NamesOf(fits) = {Sound[d].name}
        BY <4>1 DEF NamesOf
      <4> QED BY <4>2
    <3> QED BY <3>1, <3>2
  <2>6. NamesOf(fits) = {only}
    <3> HIDE DEF fits
    <3> QED BY <2>5
  <2> HIDE DEF only
  <2>7. PICK d \in fits : only = Sound[d].name
    BY <2>6 DEF NamesOf
  <2>8. \A n \in NamesOf(ids) : n \in target.pattern <=> n = only
    <3> TAKE n \in NamesOf(ids)
    <3>1. PICK e \in ids : n = Sound[e].name
      BY DEF NamesOf
    <3>2. n \in target.pattern => n = only
      <4>1. n \in target.pattern => e \in fits
        BY <2>7, <3>1
      <4>2. e \in fits => n \in NamesOf(fits)
        BY <3>1 DEF NamesOf
      <4> HIDE DEF fits
      <4> QED BY <2>6, <4>1, <4>2
    <3>3. n = only => n \in target.pattern
      BY <2>7
    <3> QED BY <3>2, <3>3
  <2> QED BY <1>2, <2>3, <2>6, <2>8
<1> QED BY <1>3, <1>4

\* What a task needs, if it can be read.
LEMMA NeededIs ==
    ASSUME mac \in Macs, NEW task \in Tasks, Needed(task) # None
    PROVE  /\ Needed(task) \in Int \cup BOOLEAN \cup SoundNames
           /\ task.do = "adjust" \/ Mutes(task) => Needed(task) \in Int
           /\ task.do = "adjust" => Needed(task) = read_volume(mac.default[task.kind])
           /\ task.do = "select" =>
                /\ TargetOf(task) # None /\ NameFor(task) \notin {None, "several"}
                /\ Needed(task) = NameFor(task)
<1> DEFINE d == mac.default[task.kind]
<1>1. d \in Devices \cup {None} /\ task.kind \in Kinds
  BY DEF Tasks, Macs
<1>2. CASE task.do = "select"
  <2>1. /\ TargetOf(task) # None /\ NameFor(task) \notin {None, "several"}
        /\ Needed(task) = NameFor(task)
    BY <1>2 DEF Needed, TargetOf, NameFor
  <2>2. Present(task.kind) \in SUBSET Devices
    BY DEF Present, Macs
  <2>3. NameFor(task) \in SoundNames
    BY <2>1, <2>2, ResolvedIs DEF NameFor
  <2> QED BY <1>2, <2>1, <2>3 DEF Mutes
<1>3. CASE task.do = "toggle" /\ task.kind = "Output"
  <2>1. Needed(task) = read_mute(d)
    BY <1>3 DEF Needed
  <2>2. read_mute(d) \in BOOLEAN
    BY <1>1, <2>1 DEF read_mute, Macs
  <2> QED BY <1>3, <2>1, <2>2 DEF Mutes
<1>4. CASE task.do # "select" /\ ~(task.do = "toggle" /\ task.kind = "Output")
  <2>1. Needed(task) = read_volume(d)
    BY <1>4 DEF Needed
  <2>2. read_volume(d) \in Int
    BY <1>1, <2>1, VolumeType
  <2> QED BY <1>4, <2>1, <2>2
<1> QED BY <1>2, <1>3, <1>4

LEMMA TaskReadsStep ==
    ASSUME MixerInv, TaskReads
    PROVE  MixerInv'
<1>1. PICK p \in DOMAIN tasks :
        /\ tasks[p].step = "read"
        /\ MayStart
        /\ LET saw == Needed(tasks[p])
               ended == [tasks[p] EXCEPT !.step = "report", !.said = "error"]
           IN  \/ /\ saw # None
                  /\ tasks' = [tasks EXCEPT ![p].step = "write", ![p].saw = saw,
                                            ![p].device = mac.default[tasks[p].kind],
                                            ![p].among = Present(tasks[p].kind)]
                  /\ holder' = IF native /\ tasks[p].do # "select" THEN p ELSE holder
               \/ /\ saw = None \/ ~native
                  /\ tasks' = [tasks EXCEPT ![p] = ended]
                  /\ UNCHANGED holder
  BY DEF TaskReads
<1>2. UNCHANGED << native, mac, drawn, reports, remembered, before >>
  BY DEF TaskReads
<1>3. /\ tasks \in Seq(Tasks) /\ tasks[p] \in Tasks /\ mac \in Macs
      /\ \A q \in DOMAIN tasks : q # 0
  BY DEF MixerInv
<1>4. \A q \in DOMAIN tasks : native => ~(tasks[q].step = "write" /\ tasks[q].do # "select")
  BY <1>1, <1>3 DEF MixerInv, HeldIs, Holds, MayStart
<1>5. ASSUME NEW t \in Tasks, tasks' = [tasks EXCEPT ![p] = t],
             t.step \in {"write", "report"}, t.do = tasks[p].do, Mutes(t) = Mutes(tasks[p]),
             t.calm = tasks[p].calm, t.restore = tasks[p].restore, t.memory = None, Chosen(t),
             native /\ t.step = "write" /\ t.do # "select" =>
                /\ holder' = p
                /\ t.do = "adjust" => t.saw = read_volume(t.device)
      PROVE  MixerInv'
  <2>1. /\ tasks' \in Seq(Tasks) /\ DOMAIN tasks' = DOMAIN tasks /\ tasks'[p] = t
        /\ \A q \in DOMAIN tasks : q # p => tasks'[q] = tasks[q]
    BY <1>3, <1>5, OneChanges
  <2>2. ReportsAre'
    BY <1>1, <1>2, <2>1 DEF MixerInv, ReportsAre
  <2>3. HeldIs'
    BY <1>2, <1>4, <1>5, <2>1 DEF HeldIs, Holds, read_volume
  <2>4. MuteIs'
    <3>1. \A q \in DOMAIN tasks : AloneIs(q)'
      BY <1>1, <1>5, <2>1 DEF MixerInv, MuteIs, AloneIs
    <3>2. \A q \in DOMAIN tasks : Unhandled(q)' <=> Unhandled(q)
      BY <1>1, <1>5, <2>1 DEF Unhandled
    <3>3. \A q \in DOMAIN tasks :
            /\ Unhandled(q) => tasks'[q].memory = tasks[q].memory
            /\ tasks'[q].step \in {"read", "write"} =>
                /\ tasks[q].step \in {"read", "write"} /\ Mutes(tasks'[q]) = Mutes(tasks[q])
                /\ tasks'[q].calm = tasks[q].calm /\ tasks'[q].restore = tasks[q].restore
      BY <1>1, <1>5, <2>1 DEF Unhandled
    <3> QED BY <1>2, <2>1, <3>1, <3>2, <3>3 DEF MixerInv, MuteIs
  <2>5. \A q \in DOMAIN tasks' : SelectionIs(q)'
    <3> SUFFICES ASSUME NEW q \in DOMAIN tasks PROVE SelectionIs(q)'
      BY <2>1
    <3>1. PICK u : u = tasks'[q]
      OBVIOUS
    <3>2. Offered(u) /\ Chosen(u)
      BY <1>5, <2>1, <3>1 DEF MixerInv, SelectionIs, Offered
    <3> QED BY <1>2, <3>1, <3>2, SelectionStays
  <2> QED BY <1>2, <2>1, <2>2, <2>3, <2>4, <2>5 DEF MixerInv
<1>6. CASE /\ Needed(tasks[p]) # None
           /\ tasks' = [tasks EXCEPT ![p].step = "write", ![p].saw = Needed(tasks[p]),
                                     ![p].device = mac.default[tasks[p].kind],
                                     ![p].among = Present(tasks[p].kind)]
           /\ holder' = IF native /\ tasks[p].do # "select" THEN p ELSE holder
  <2>1. PICK saw, device, among : saw = Needed(tasks[p]) /\ device = mac.default[tasks[p].kind]
                                  /\ among = Present(tasks[p].kind)
    OBVIOUS
  <2> DEFINE t == [tasks[p] EXCEPT !.step = "write", !.saw = saw, !.device = device, !.among = among]
  <2>2. tasks' = [tasks EXCEPT ![p] = t]
    BY <1>6, <2>1
  <2>3. /\ saw \in Int \cup BOOLEAN \cup SoundNames
        /\ tasks[p].do = "adjust" \/ Mutes(tasks[p]) => saw \in Int
        /\ tasks[p].do = "adjust" => saw = read_volume(device)
        /\ tasks[p].do = "select" =>
                /\ TargetOf(tasks[p]) # None /\ NameFor(tasks[p]) \notin {None, "several"}
                /\ saw = NameFor(tasks[p])
    BY <1>3, <1>6, <2>1, NeededIs
  <2>4. device \in Devices \cup {None} /\ among \in SUBSET Devices
    BY <1>3, <2>1 DEF Tasks, Macs, Present
  <2>5. /\ t.step = "write" /\ t.do = tasks[p].do /\ Mutes(t) = Mutes(tasks[p])
        /\ t.calm = tasks[p].calm /\ t.restore = tasks[p].restore /\ t.memory = None
        /\ t.saw = saw /\ t.device = device /\ t.among = among /\ t.same = tasks[p].same
        /\ t.tile = tasks[p].tile /\ TargetOf(t) = TargetOf(tasks[p])
    BY <1>1, <1>3 DEF Tasks, Mutes, TargetOf
  <2>6. t \in Tasks
    BY <1>1, <1>3, <2>3, <2>4 DEF Tasks, Mutes, AudioSteps
  <2> HIDE DEF t
  <2>7. Chosen(t)
    <3> SUFFICES ASSUME tasks[p].do = "select"
                 PROVE  /\ \/ saw = TargetOf(tasks[p]).exact
                           \/ \A n \in NamesOf(among) : n \in TargetOf(tasks[p]).pattern <=> n = saw
                        /\ tasks[p].same => tasks[p].tile \in {"Ok", "Selected"}
      BY <2>5 DEF Chosen
    <3>1. saw = resolve(TargetOf(tasks[p]), among)
      BY <2>1, <2>3 DEF NameFor
    <3>2. \/ saw = TargetOf(tasks[p]).exact
          \/ \A n \in NamesOf(among) : n \in TargetOf(tasks[p]).pattern <=> n = saw
      BY <2>3, <2>4, <3>1, ResolvedIs
    <3>3. tasks[p].same => tasks[p].tile \in {"Ok", "Selected"}
      BY <1>1, <2>3 DEF MixerInv, SelectionIs, Offered
    <3> QED BY <3>2, <3>3
  <2> QED BY <1>5, <1>6, <2>2, <2>3, <2>5, <2>6, <2>7
<1>7. CASE /\ tasks' = [tasks EXCEPT ![p] = [tasks[p] EXCEPT !.step = "report", !.said = "error"]]
           /\ UNCHANGED holder
  <2> DEFINE t == [tasks[p] EXCEPT !.step = "report", !.said = "error"]
  <2>1. /\ t \in Tasks /\ t.step = "report" /\ t.do = tasks[p].do /\ Mutes(t) = Mutes(tasks[p])
        /\ t.calm = tasks[p].calm /\ t.restore = tasks[p].restore /\ t.memory = None /\ t.said = "error"
    BY <1>1, <1>3 DEF Tasks, Mutes, AudioSteps
  <2>2. tasks' = [tasks EXCEPT ![p] = t]
    BY <1>7
  <2> HIDE DEF t
  <2>3. Chosen(t)
    BY <2>1 DEF Chosen
  <2> QED BY <1>5, <2>1, <2>2, <2>3
<1> QED BY <1>1, <1>6, <1>7

LEMMA TaskWritesStep ==
    ASSUME MixerInv, TaskWrites
    PROVE  MixerInv'
<1>1. PICK p \in DOMAIN tasks :
        /\ tasks[p].step = "write"
        /\ native /\ tasks[p].do = "select" => MayStart
        /\ \/ /\ mac' \in Effects(tasks[p])
              /\ tasks' = [tasks EXCEPT ![p].step = "report",
                                        ![p].memory = IF Mutes(tasks[p]) /\ tasks[p].saw > 0
                                                        THEN tasks[p].saw ELSE None]
              /\ before' = Muted(tasks[p], TRUE)
           \/ /\ IF native THEN Effects(tasks[p]) = {} /\ UNCHANGED mac
                           ELSE mac' \in Effects(tasks[p]) \cup {mac}
              /\ tasks' = [tasks EXCEPT ![p].step = "report", ![p].said = "error"]
              /\ before' = Muted(tasks[p], FALSE)
  BY DEF TaskWrites
<1>2. UNCHANGED << native, drawn, reports, remembered >>
  BY DEF TaskWrites
<1>3. /\ tasks \in Seq(Tasks) /\ tasks[p] \in Tasks /\ mac \in Macs
      /\ \A q \in DOMAIN tasks : q # 0
  BY DEF MixerInv
<1>4. mac' \in Macs /\ mac'.present = mac.present
  BY <1>1, <1>3, EffectsAre
<1>5. \A q \in DOMAIN tasks : q # p /\ native => ~(tasks[q].step = "write" /\ tasks[q].do # "select")
  BY <1>1, <1>3 DEF MixerInv, HeldIs, Holds, MayStart
<1>6. ASSUME NEW t \in Tasks, tasks' = [tasks EXCEPT ![p] = t],
             t.step = "report", t.do = tasks[p].do, Mutes(t) = Mutes(tasks[p]),
             t.calm = tasks[p].calm, Chosen(t),
             \/ /\ Mutes(tasks[p]) /\ tasks[p].calm /\ tasks[p].saw > 0
                /\ before' = tasks[p].saw /\ t.memory = tasks[p].saw
             \/ before' = None
             \/ before' = before /\ ~Mutes(tasks[p])
      PROVE  MixerInv'
  <2>1. /\ tasks' \in Seq(Tasks) /\ DOMAIN tasks' = DOMAIN tasks /\ tasks'[p] = t
        /\ \A q \in DOMAIN tasks : q # p => tasks'[q] = tasks[q]
    BY <1>3, <1>6, OneChanges
  <2>2. ReportsAre'
    BY <1>1, <1>2, <2>1 DEF MixerInv, ReportsAre
  <2>3. HeldIs'
    BY <1>2, <1>5, <1>6, <2>1 DEF HeldIs
  <2>4. \A q \in DOMAIN tasks : AloneIs(q)'
    BY <1>1, <1>6, <2>1 DEF MixerInv, MuteIs, AloneIs
  <2>5. MuteIs'
    <3>1. CASE /\ Mutes(tasks[p]) /\ tasks[p].calm /\ tasks[p].saw > 0
               /\ before' = tasks[p].saw /\ t.memory = tasks[p].saw
      <4>1. tasks[p].saw \in Int /\ tasks[p].saw >= 1 /\ None \notin Int
        BY <1>1, <1>3, <3>1, MixerAssumption DEF Tasks, MixerAssumption
      <4>2. \A q \in DOMAIN tasks : q # p /\ Mutes(tasks'[q]) => tasks'[q].step = "over"
        BY <1>1, <2>1, <3>1 DEF MixerInv, MuteIs, AloneIs
      <4>3. Unhandled(p)' /\ \A q \in DOMAIN tasks : Unhandled(q)' => q = p
        BY <1>6, <2>1, <3>1, <4>1, <4>2 DEF Unhandled
      <4>4. \A q \in DOMAIN tasks : Mutes(tasks'[q]) => tasks'[q].step \notin {"read", "write"}
        BY <1>6, <2>1, <4>2
      <4> QED BY <2>1, <2>4, <3>1, <4>1, <4>3, <4>4 DEF MuteIs
    <3>2. CASE before' = None
      BY <2>1, <2>4, <3>2 DEF MuteIs
    <3>3. CASE before' = before /\ ~Mutes(tasks[p])
      <4>1. \A q \in DOMAIN tasks : Unhandled(q)' <=> Unhandled(q)
        BY <1>6, <2>1, <3>3 DEF Unhandled
      <4>2. \A q \in DOMAIN tasks : Mutes(tasks'[q]) \/ Unhandled(q) => tasks'[q] = tasks[q]
        BY <1>6, <2>1, <3>3 DEF Unhandled
      <4> QED BY <1>2, <2>1, <2>4, <3>3, <4>1, <4>2 DEF MixerInv, MuteIs
    <3> QED BY <1>6, <3>1, <3>2, <3>3
  <2>6. \A q \in DOMAIN tasks' : SelectionIs(q)'
    <3> SUFFICES ASSUME NEW q \in DOMAIN tasks PROVE SelectionIs(q)'
      BY <2>1
    <3>1. PICK u : u = tasks'[q]
      OBVIOUS
    <3>2. Offered(u) /\ Chosen(u)
      BY <1>6, <2>1, <3>1 DEF MixerInv, SelectionIs, Offered
    <3> QED BY <1>2, <1>4, <3>1, <3>2, SelectionStays
  <2> QED BY <1>2, <1>4, <2>1, <2>2, <2>3, <2>5, <2>6 DEF MixerInv
<1>7. CASE /\ tasks' = [tasks EXCEPT ![p].step = "report",
                                     ![p].memory = IF Mutes(tasks[p]) /\ tasks[p].saw > 0
                                                     THEN tasks[p].saw ELSE None]
           /\ before' = Muted(tasks[p], TRUE)
  <2>1. PICK memory : memory = IF Mutes(tasks[p]) /\ tasks[p].saw > 0 THEN tasks[p].saw ELSE None
    OBVIOUS
  <2> DEFINE t == [tasks[p] EXCEPT !.step = "report", !.memory = memory]
  <2>2. tasks' = [tasks EXCEPT ![p] = t]
    BY <1>7, <2>1
  <2>3. memory \in Int \cup {None} /\ (memory # None => Mutes(tasks[p]))
    BY <1>1, <1>3, <2>1 DEF Tasks
  <2>4. /\ t \in Tasks /\ t.step = "report" /\ t.do = tasks[p].do /\ Mutes(t) = Mutes(tasks[p])
        /\ t.calm = tasks[p].calm /\ t.memory = memory
    BY <1>3, <2>3 DEF Tasks, Mutes, AudioSteps
  <2>5. TargetOf(t) = TargetOf(tasks[p]) /\ t.saw = tasks[p].saw /\ t.among = tasks[p].among
        /\ t.tile = tasks[p].tile /\ t.said = tasks[p].said /\ t.same = tasks[p].same
    BY <1>3 DEF Tasks, TargetOf
  <2> HIDE DEF t
  <2>6. Chosen(t)
    BY <1>1, <2>4, <2>5 DEF MixerInv, SelectionIs, Chosen
  <2>7. CASE Mutes(tasks[p]) /\ tasks[p].saw > 0 /\ tasks[p].calm /\ ~tasks[p].disturbed
    <3>1. before' = tasks[p].saw /\ memory = tasks[p].saw
      BY <1>7, <2>1, <2>7 DEF Muted
    <3> QED BY <1>6, <2>2, <2>4, <2>6, <2>7, <3>1
  <2>8. CASE ~(Mutes(tasks[p]) /\ tasks[p].saw > 0 /\ tasks[p].calm /\ ~tasks[p].disturbed)
    <3>1. before' = IF tasks[p].kind = "Input" THEN None ELSE before
      BY <1>7, <2>8 DEF Muted
    <3>2. tasks[p].kind # "Input" => ~Mutes(tasks[p])
      BY DEF Mutes
    <3> QED BY <1>6, <2>2, <2>4, <2>6, <3>1, <3>2
  <2> QED BY <2>7, <2>8
<1>8. CASE /\ tasks' = [tasks EXCEPT ![p].step = "report", ![p].said = "error"]
           /\ before' = Muted(tasks[p], FALSE)
  <2> DEFINE t == [tasks[p] EXCEPT !.step = "report", !.said = "error"]
  <2>1. t \in Tasks
    BY <1>1, <1>3 DEF Tasks, Mutes, AudioSteps
  <2>2. /\ t.step = "report" /\ t.do = tasks[p].do /\ Mutes(t) = Mutes(tasks[p])
        /\ t.calm = tasks[p].calm /\ t.said = "error"
    BY <1>3 DEF Tasks, Mutes
  <2>3. tasks' = [tasks EXCEPT ![p] = t]
    BY <1>8
  <2> HIDE DEF t
  <2>4. Chosen(t)
    BY <2>2 DEF Chosen
  <2>5. before' = None \/ (before' = before /\ ~Mutes(tasks[p]))
    BY <1>8 DEF Muted, Mutes
  <2> QED BY <1>6, <2>1, <2>2, <2>3, <2>4, <2>5
<1> QED BY <1>1, <1>7, <1>8

LEMMA MixerInvStill == MixerInv /\ UNCHANGED mixer => MixerInv'
<1> SUFFICES ASSUME MixerInv, UNCHANGED mixer PROVE MixerInv'
  OBVIOUS
<1>1. UNCHANGED << native, mac, drawn, tasks, holder, reports, remembered, before >>
  BY DEF mixer
<1>2. ReportsAre' /\ HeldIs' /\ MuteIs'
  BY <1>1 DEF MixerInv, ReportsAre, HeldIs, Holds, read_volume, MuteIs, AloneIs, Unhandled
<1>3. \A p \in DOMAIN tasks : SelectionIs(p)'
  BY <1>1, SelectionStays DEF MixerInv, SelectionIs
<1> QED BY <1>1, <1>2, <1>3 DEF MixerInv

LEMMA MixerInvHolds == ControlsSpec => []MixerInv
<1>1. ControlsInit => MixerInv
  BY MixerInvInit DEF ControlsInit
<1>2. MixerInv /\ [ControlsNext]_deckControls => MixerInv'
  BY PressAudioStep, TaskReadsStep, TaskWritesStep, TaskReportsStep, OutcomeHandledStep,
     RefreshAudioStep, KnobTurnsStep, MixerInvStill
  DEF ControlsNext, MixerNext, deckControls
<1> QED BY <1>1, <1>2, PTL DEF ControlsSpec

\* The level that is there when a task of the transaction has written.
LEMMA LevelsStepIs ==
    ASSUME MixerInv, NEW p \in DOMAIN tasks, tasks[p].step = "write", mac' \in Effects(tasks[p]),
           UNCHANGED native, tasks'[p].device = tasks[p].device, tasks'[p].kind = tasks[p].kind
    PROVE  LET task == tasks[p]  d == Device(task)
           IN  /\ native /\ task.do = "adjust" /\ ~task.disturbed =>
                       read_volume(d)' = next_volume(read_volume(d), task.arg)
               /\ Mutes(task) /\ task.calm /\ ~task.disturbed /\ task.saw = 0 /\ before # None =>
                       read_volume(d)' = before
<1>1. tasks[p] \in Tasks /\ mac \in Macs
  BY DEF MixerInv
<1>2. PICK d : d = Device(tasks[p])
  OBVIOUS
<1>3. ASSUME tasks[p].do # "select"
      PROVE  d \in Devices /\ Sound[d].control # "none" /\ d # None
  <2>1. d # None /\ Writable(d)
    BY <1>2, <1>3 DEF Effects
  <2> QED BY <1>1, <2>1 DEF Writable, Macs
<1>4. ASSUME tasks[p].do # "select", NEW v \in Int, mac' = write_volume(d, v)
      PROVE  read_volume(Device(tasks[p]))' = v
  <2>1. Mean(mac'.level[d]) = v
    BY <1>1, <1>3, <1>4, WrittenIs
  <2>2. mac'.default = mac.default
    BY <1>1, <1>4 DEF write_volume, Macs
  <2>3. Device(tasks[p])' = d
    BY <1>2, <2>2 DEF Device
  <2> QED BY <1>3, <1>4, <2>1, <2>3 DEF read_volume
<1>5. ASSUME native, tasks[p].do = "adjust", ~tasks[p].disturbed
      PROVE  read_volume(Device(tasks[p]))' = next_volume(read_volume(Device(tasks[p])), tasks[p].arg)
  <2>1. tasks[p].saw = read_volume(Device(tasks[p]))
    BY <1>5 DEF MixerInv, HeldIs, Holds, Device
  <2>2. tasks[p].saw \in Int /\ tasks[p].arg \in Int
    BY <1>1, <1>5 DEF Tasks
  <2>3. mac' = write_volume(d, next_volume(tasks[p].saw, tasks[p].arg))
    BY <1>2, <1>5 DEF Effects
  <2>4. next_volume(tasks[p].saw, tasks[p].arg) \in Int
    BY <2>2, NextVolumeType
  <2> QED BY <1>4, <1>5, <2>1, <2>3, <2>4
<1>6. ASSUME Mutes(tasks[p]), tasks[p].calm, tasks[p].saw = 0, before # None
      PROVE  read_volume(Device(tasks[p]))' = before
  <2>1. before \in Int /\ before >= 1 /\ tasks[p].restore = before
    BY <1>6 DEF MixerInv, MuteIs
  <2>2. mac' = write_volume(d, Restored(tasks[p]))
    BY <1>2, <1>6 DEF Effects, Mutes
  <2>3. Restored(tasks[p]) = before
    BY <2>1 DEF Restored
  <2> QED BY <1>4, <1>6, <2>1, <2>2, <2>3 DEF Mutes
<1> QED BY <1>5, <1>6

\* Who writes is the task whose step changes.
LEMMA LevelsStepHolds == MixerInv /\ MixerNext => LevelsStep
<1> SUFFICES ASSUME MixerInv, MixerNext, NEW p \in DOMAIN tasks, Written(p)
             PROVE  LET task == tasks[p]  d == Device(task)
                    IN  /\ native /\ task.do = "adjust" /\ ~task.disturbed =>
                                read_volume(d)' = next_volume(read_volume(d), task.arg)
                        /\ Mutes(task) /\ task.calm /\ ~task.disturbed /\ task.saw = 0 /\ before # None =>
                                read_volume(d)' = before
  BY DEF LevelsStep
<1>1. /\ tasks \in Seq(Tasks) /\ tasks[p] \in Tasks /\ DOMAIN tasks = 1..Len(tasks)
      /\ tasks[p].step = "write" /\ tasks'[p].step = "report" /\ tasks'[p].said = "ok"
  BY DEF MixerInv, Written
<1>2. ~PressAudio
  <2> SUFFICES ASSUME PressAudio PROVE FALSE
    OBVIOUS
  <2>1. PICK key \in AudioKeys :
            tasks' = Append([q \in DOMAIN tasks |-> Ruffled(tasks[q], key)], Spawned(key))
    BY DEF PressAudio, Ruffled, Spawned
  <2> DEFINE base == [q \in DOMAIN tasks |-> Ruffled(tasks[q], key)]
  <2>2. base \in Seq(Tasks) /\ Len(base) = Len(tasks) /\ base[p] = Ruffled(tasks[p], key)
    <3>1. \A q \in 1..Len(tasks) : Ruffled(tasks[q], key) \in Tasks
      BY <1>1, RuffledIs
    <3> QED BY <1>1, <3>1
  <2> HIDE DEF base
  <2>3. tasks'[p] = base[p]
    BY <1>1, <2>1, <2>2, SpawnedIs DEF base
  <2>4. PICK calm \in BOOLEAN : Ruffled(tasks[p], key) = [tasks[p] EXCEPT !.calm = calm]
    BY <1>1, RuffledIs
  <2> QED BY <1>1, <2>2, <2>3, <2>4 DEF Tasks
<1>3. ~TaskReads
  BY <1>1 DEF TaskReads, Tasks
<1>4. ~TaskReports
  BY <1>1 DEF TaskReports, Tasks
<1>5. ~OutcomeHandled
  BY <1>1 DEF OutcomeHandled, Tasks
<1>6. ~RefreshAudio
  BY <1>1 DEF RefreshAudio
<1>7. ~KnobTurns
  <2> SUFFICES ASSUME KnobTurns PROVE FALSE
    OBVIOUS
  <2>1. tasks'[p] = TurnedOf(tasks[p])
    BY DEF KnobTurns, TurnedOf
  <2> QED BY <1>1, <2>1, TurnedIs
<1>8. CASE TaskWrites
  <2>1. PICK q \in DOMAIN tasks :
        \/ /\ mac' \in Effects(tasks[q])
           /\ tasks' = [tasks EXCEPT ![q].step = "report",
                                     ![q].memory = IF Mutes(tasks[q]) /\ tasks[q].saw > 0
                                                     THEN tasks[q].saw ELSE None]
        \/ tasks' = [tasks EXCEPT ![q].step = "report", ![q].said = "error"]
    BY <1>8 DEF TaskWrites
  <2>2. q = p
    BY <1>1, <2>1
  <2>3. mac' \in Effects(tasks[p])
    BY <1>1, <2>1, <2>2 DEF Tasks
  <2>4. tasks'[p].device = tasks[p].device /\ tasks'[p].kind = tasks[p].kind
    BY <1>1, <2>1, <2>2 DEF Tasks
  <2>5. UNCHANGED native
    BY <1>8 DEF TaskWrites
  <2> QED BY <1>1, <2>3, <2>4, <2>5, LevelsStepIs
<1> QED BY <1>2, <1>3, <1>4, <1>5, <1>6, <1>7, <1>8 DEF MixerNext

\* A volume step of the native adapter moves the level that is there by exactly its
\* amount, within 0..100, whatever other presses run beside it; and a press that
\* unmutes the microphone, with no other press of that key on its way and nothing else
\* having touched the level, brings back the level that the mute took:
\* `adjust_volume_relative`, `toggle_mute_state` and `apply_action_outcome`.
THEOREM LevelsAlwaysAddUp == ControlsSpec => LevelsAddUp
<1>1. MixerInv /\ [ControlsNext]_deckControls => [LevelsStep]_mixer
  BY LevelsStepHolds DEF ControlsNext, deckControls
<1> QED BY <1>1, MixerInvHolds, PTL DEF ControlsSpec, LevelsAddUp

\* A selection that succeeded chose a device by the name that its target gives, or by
\* the only name that its pattern fits; and if the devices were those that the key was
\* drawn from, the key had offered it: `select_target` and `AudioTarget::resolve`.
THEOREM SelectionsAreAlwaysMeant == ControlsSpec => []SelectionsAreMeant
<1>1. MixerInv => SelectionsAreMeant
  BY DEF MixerInv, SelectionIs, Chosen, TargetOf, SelectionsAreMeant
<1> QED BY <1>1, MixerInvHolds, PTL

\* The image of a finite set is finite.
LEMMA ImageIsFinite ==
    ASSUME NEW S, IsFiniteSet(S), NEW f, DOMAIN f = S, f = [x \in S |-> f[x]]
    PROVE  IsFiniteSet({f[x] : x \in S})
<1>1. f \in Surjection(S, {f[x] : x \in S})
  BY DEF Surjection
<1> QED BY <1>1, FS_Surjection

-----------------------------------------------------------------------------
(* The owner of the media keys.                                             *)

Names == {"Spotify", "Music", "Google Chrome", "Safari", "Firefox", "Brave Browser", "IINA", "VLC"}

IsApp(a) == a = App(a.name, a.family, a.exact) /\ a.exact \in BOOLEAN

\* The two bundles that speak for themselves are known by name.
LEMMA KnownAreNamed == \A k \in Known : k.name \in Names
<1>1. TAKE k \in Known
<1>2. \A name \in Names : \A family : \A exact : App(name, family, exact).name \in Names
  BY DEF App
<1> QED BY <1>2 DEF Known, Names

LEMMA NamesAreNames == None \notin Names
BY ApplicationsAssumption DEF ApplicationsAssumption, Names

LEMMA NormalizedIs ==
    ASSUME NEW a, IsApp(a)
    PROVE  IsApp(normalize_application(a))
BY DEF IsApp, normalize_application, App

LEMMA OwnersAre ==
    /\ \A p \in DOMAIN Owners : IsApp(Owners[p])
    /\ \A s \in Scenes : s.bundle # None => IsApp(s.bundle)
BY ApplicationsAssumption, Zenon DEF ApplicationsAssumption, IsApp

\* A set with but one element has it chosen.
LEMMA TheOnlyIs ==
    ASSUME NEW S, IsFiniteSet(S), Cardinality(S) = 1
    PROVE  S = {CHOOSE x \in S : TRUE}
<1>1. PICK x : S = {x}
  BY FS_Singleton
<1> QED BY <1>1

\* The applications that make sound have names.
LEMMA SoundingAre ==
    ASSUME NEW s \in Scenes
    PROVE  /\ IsFiniteSet(AudioApplications(s.sounding))
           /\ \A a \in AudioApplications(s.sounding) : IsApp(a) /\ a.name # None
<1>1. IsFiniteSet(s.sounding) /\ s.sounding \subseteq DOMAIN Owners
  BY MediaAssumption, FS_Subset DEF MediaAssumption
<1>2. IsFiniteSet({AudioApplication(Owners[p]) : p \in s.sounding})
  <2> DEFINE f == [p \in s.sounding |-> AudioApplication(Owners[p])]
  <2>1. IsFiniteSet({f[p] : p \in s.sounding})
    BY <1>1, ImageIsFinite
  <2> QED BY <2>1
<1>3. AudioApplications(s.sounding) \subseteq {AudioApplication(Owners[p]) : p \in s.sounding}
  BY DEF AudioApplications
<1>4. ASSUME NEW p \in s.sounding
      PROVE  IsApp(AudioApplication(Owners[p]))
  <2>1. IsApp(Owners[p])
    BY <1>1, OwnersAre
  <2> DEFINE q == [Owners[p] EXCEPT !.name = IF @ = None THEN application_name_for_bundle(Owners[p]) ELSE @]
  <2>2. IsApp(q)
    BY <2>1 DEF IsApp, App
  <2> HIDE DEF q
  <2>3. IsApp(normalize_application(q))
    BY <2>2, NormalizedIs
  <2> QED BY <2>3 DEF AudioApplication, q
<1> QED BY <1>2, <1>3, <1>4, FS_Subset DEF AudioApplications

LEMMA ActiveOwns ==
    ASSUME NEW s \in Scenes,
           active_audio_application(s.sounding).name # None
    PROVE  LET a == active_audio_application(s.sounding)
           IN  a \in AudioApplications(s.sounding) /\ IsApp(a) /\ OwnsIn(s, a.name)
<1> DEFINE all == AudioApplications(s.sounding)
           likely == {a \in all : application_name_for_bundle(a) # None}
<1>1. IsFiniteSet(all) /\ \A a \in all : IsApp(a) /\ a.name # None
  BY SoundingAre
<1>2. Nobody.name = None
  BY DEF Nobody, App
<1>3. IsFiniteSet(likely)
  BY <1>1, FS_Subset
<1>4. CASE Cardinality(all) = 1
  <2>1. active_audio_application(s.sounding) = CHOOSE a \in all : TRUE
    BY <1>4 DEF active_audio_application, TheOnly
  <2>2. all = {active_audio_application(s.sounding)}
    BY <1>1, <1>4, <2>1, TheOnlyIs
  <2> QED BY <1>1, <2>2 DEF OwnsIn
<1>5. CASE Cardinality(all) # 1
  <2>1. active_audio_application(s.sounding) = TheOnly(likely)
    BY <1>5 DEF active_audio_application
  <2>2. Cardinality(likely) = 1
    BY <1>2, <2>1 DEF TheOnly
  <2>3. active_audio_application(s.sounding) = CHOOSE a \in likely : TRUE
    BY <2>1, <2>2 DEF TheOnly
  <2>4. likely = {active_audio_application(s.sounding)}
    BY <1>3, <2>2, <2>3, TheOnlyIs
  <2>5. \A b \in all : KnownFor(b) # {} => b = active_audio_application(s.sounding)
    <3>1. \A b : KnownFor(b) # {} => application_name_for_bundle(b) \in Names
      BY KnownAreNamed DEF application_name_for_bundle, KnownFor
    <3> QED BY <2>4, <3>1, NamesAreNames
  <2> QED BY <1>1, <2>4, <2>5 DEF OwnsIn
<1> QED BY <1>4, <1>5

\* What the tabs of a scene say, with or without a title.
LEMMA SitesAgree ==
    ASSUME NEW among, NEW s \in Scenes, NEW title, NEW source,
           source = unique_source_from_urls(SitesFor(title, s.tabs)), source # None,
           title # None => title \in {g.title : g \in among}
    PROVE  ServesIn(among, s, "Google Chrome", source)
<1> DEFINE sites == SitesFor(title, s.tabs) \ {None}
<1>1. DOMAIN s.tabs \subseteq Nat /\ IsFiniteSet(DOMAIN s.tabs)
  <2>1. s.tabs \in Seq({s.tabs[i] : i \in DOMAIN s.tabs})
    BY MediaAssumption DEF MediaAssumption
  <2>2. DOMAIN s.tabs = 1..Len(s.tabs) /\ Len(s.tabs) \in Nat
    BY <2>1, LenProperties
  <2>3. IsFiniteSet(1..Len(s.tabs))
    BY <2>2, FS_Interval
  <2> QED BY <2>2, <2>3
<1>2. Cardinality(sites) = 1 /\ source = CHOOSE x \in sites : TRUE
  BY DEF unique_source_from_urls
<1>3. CASE title = None
  <2>1. SitesFor(title, s.tabs) = {s.tabs[i].site : i \in DOMAIN s.tabs}
    BY <1>3 DEF SitesFor
  <2>2. IsFiniteSet(sites)
    <3> DEFINE f == [i \in DOMAIN s.tabs |-> s.tabs[i].site]
    <3>1. IsFiniteSet({f[i] : i \in DOMAIN s.tabs})
      <4>1. DOMAIN f = DOMAIN s.tabs /\ f = [i \in DOMAIN s.tabs |-> f[i]]
        OBVIOUS
      <4> HIDE DEF f
      <4> QED BY <1>1, <4>1, ImageIsFinite
    <3> QED BY <2>1, <3>1, FS_Subset
  <2>3. sites = {source}
    BY <1>2, <2>2, TheOnlyIs
  <2>4. \E i \in DOMAIN s.tabs : s.tabs[i].site = source
    BY <2>1, <2>3
  <2>5. \A i \in DOMAIN s.tabs : s.tabs[i].site \in {None, source}
    BY <2>1, <2>3
  <2> QED BY <2>4, <2>5 DEF ServesIn
<1>4. CASE title # None
  <2> DEFINE hits == {i \in DOMAIN s.tabs : title \subseteq s.tabs[i].title \/ s.tabs[i].title \subseteq title}
             first == IF hits = {} THEN None ELSE s.tabs[Min(hits)]
  <2>1. SitesFor(title, s.tabs) = IF first = None THEN {} ELSE {first.site}
    BY <1>4 DEF SitesFor, FirstOf
  <2>2. first # None
    <3>1. SUFFICES ASSUME first = None PROVE FALSE
      OBVIOUS
    <3>2. sites = {}
      BY <2>1, <3>1
    <3> QED BY <1>2, <3>2, FS_EmptySet
  <2>3. SitesFor(title, s.tabs) = {first.site}
    BY <2>1, <2>2
  <2>4. sites = {source}
    <3>1. IsFiniteSet(sites)
      <4>1. IsFiniteSet({first.site})
        BY FS_Singleton, Zenon
      <4>2. sites \subseteq {first.site}
        BY <2>3
      <4> HIDE DEF sites, first
      <4> QED BY <4>1, <4>2, FS_Subset
    <3> QED BY <1>2, <3>1, TheOnlyIs
  <2>5. first.site = source
    BY <2>3, <2>4
  <2>6. Min(hits) \in hits
    <3>1. hits # {} /\ hits \subseteq Nat
      BY <1>1, <2>2
    <3> QED BY <3>1, LeastExists
  <2>7. PICK i \in hits : s.tabs[i].site = source
    BY <2>2, <2>5, <2>6
  <2>8. title \in {g.title : g \in among} \ {None}
    BY <1>4
  <2> QED BY <2>7, <2>8 DEF ServesIn
<1> QED BY <1>3, <1>4

-----------------------------------------------------------------------------
(* The status.                                                              *)

\* What a status in the making has heard so far, it heard in one of its scenes.
Titled(title, among) == title # None => title \in {s.title : s \in among}

Named(a, among) ==
    /\ IsApp(a)
    /\ a.name # None => \E s \in among : OwnsIn(s, a.name)
    /\ (\E service \in DOMAIN OwnService : Is(a, OwnService[service])) =>
            \E s \in among : a \in Candidates(s)

AskedIs(status, among) ==
    /\ DOMAIN status = {"step", "pid", "info", "app", "bundle", "title", "source"}
    /\ status.step \in {"both", "audio", "source", "done"}
    /\ status.step # "done" => status.source = None
    /\ Titled(status.title, among)
    /\ Named(status.app, among)
    /\ status.bundle # None => \E s \in among : s.bundle = status.bundle
    /\ status.source # None =>
            \E s \in among : ServesIn(among, s, status.app.name, status.source)

ToldIs(status, among) ==
    /\ status.application # None => \E s \in among : OwnsIn(s, status.application)
    /\ status.source # None => \E s \in among : ServesIn(among, s, status.application, status.source)
    /\ Titled(status.title, among)

MediaInv ==
    /\ scene \in Scenes /\ grounds \subseteq Scenes
    /\ asked.step # "none" => AskedIs(asked, grounds)
    /\ asked.step = "none" /\ mediaFeed.is = "ready" => ToldIs(mediaFeed.value, grounds)

LEMMA MediaInvInit == MediaInit => MediaInv
BY DEF MediaInit, MediaInv, Loading, NotAsked

\* What was so in some scenes is so in more of them.
LEMMA AskedInMore ==
    ASSUME NEW status, NEW among, NEW more, among \subseteq more, AskedIs(status, among)
    PROVE  AskedIs(status, more)
<1>1. \A s, app, source : ServesIn(among, s, app, source) => ServesIn(more, s, app, source)
  BY DEF ServesIn
<1>2. Titled(status.title, more)
  BY DEF AskedIs, Titled
<1>3. Named(status.app, more)
  BY DEF AskedIs, Named
<1> QED BY <1>1, <1>2, <1>3 DEF AskedIs

LEMMA NobodyIs == IsApp(Nobody) /\ \A among : Named(Nobody, among)
<1>1. IsApp(Nobody) /\ Nobody.name = None /\ Nobody.exact = FALSE
  BY DEF IsApp, Nobody, App
<1> QED BY <1>1 DEF Named, Is

\* Whoever is named by the process, by its bundle or by its sound.
LEMMA OwnerNamed ==
    ASSUME NEW among, NEW s \in among, s \in Scenes, s.owner # None
    PROVE  Named(normalize_application(Owners[s.owner]), among)
<1>1. IsApp(normalize_application(Owners[s.owner]))
  BY OwnersAre, NormalizedIs, MediaAssumption DEF MediaAssumption
<1>2. normalize_application(Owners[s.owner]) \in Candidates(s)
  BY DEF Candidates
<1>3. OwnsIn(s, normalize_application(Owners[s.owner]).name)
  BY DEF OwnsIn
<1> QED BY <1>1, <1>2, <1>3 DEF Named

LEMMA BundleNamed ==
    ASSUME NEW among, NEW s \in among, s \in Scenes, s.bundle # None
    PROVE  Named([s.bundle EXCEPT !.name = application_name_for_bundle(s.bundle)], among)
<1> DEFINE a == [s.bundle EXCEPT !.name = application_name_for_bundle(s.bundle)]
<1>1. IsApp(s.bundle)
  BY OwnersAre
<1>2. IsApp(a) /\ a.name = application_name_for_bundle(s.bundle)
  BY <1>1 DEF IsApp, App
<1>3. a \in Candidates(s)
  BY DEF Candidates
<1> HIDE DEF a
<1>4. OwnsIn(s, a.name)
  BY <1>2 DEF OwnsIn
<1> QED BY <1>2, <1>3, <1>4 DEF Named, a

LEMMA SoundNamed ==
    ASSUME NEW among, NEW s \in among, s \in Scenes, active_audio_application(s.sounding).name # None
    PROVE  Named(active_audio_application(s.sounding), among)
BY ActiveOwns, Zenon DEF Named, Candidates

-----------------------------------------------------------------------------
(* The steps.                                                               *)

LEMMA MediaAskedStep == MediaInv /\ MediaAsked => MediaInv'
<1> SUFFICES ASSUME MediaInv, MediaAsked PROVE MediaInv'
  OBVIOUS
<1>1. scene' \in Scenes /\ grounds' = {}
  BY DEF MediaInv, MediaAsked
<1>2. CASE asked' = [step |-> "both", pid |-> "open", info |-> "open",
                     app |-> Nobody, bundle |-> None, title |-> None, source |-> None]
  <2>1. AskedIs(asked', {})
    BY <1>2, NobodyIs DEF AskedIs, Titled
  <2>2. asked'.step = "both"
    BY <1>2
  <2> QED BY <1>1, <2>1, <2>2 DEF MediaInv
<1>3. CASE asked' = asked /\ mediaFeed' = Failing(mediaFeed)
  <2>1. asked.step = "none"
    BY DEF MediaAsked
  <2>2. mediaFeed'.is # "ready"
    BY <1>3 DEF Failing, Kept, Failed
  <2> QED BY <1>1, <1>3, <2>1, <2>2 DEF MediaInv
<1> QED BY <1>2, <1>3 DEF MediaAsked

\* A question that is answered adds its scene to the grounds.
LEMMA HeardStep ==
    ASSUME MediaInv, NEW status, Asked(status), status.step # "none",
           AskedIs(asked, grounds') => AskedIs(status, grounds'), asked.step # "none"
    PROVE  MediaInv'
<1>1. AskedIs(status, grounds')
  BY AskedInMore DEF Asked, MediaInv
<1> QED BY <1>1 DEF Asked, MediaInv

LEMMA PidAnswersStep == MediaInv /\ PidAnswers => MediaInv'
<1> SUFFICES ASSUME MediaInv, PidAnswers PROVE MediaInv'
  OBVIOUS
<1>1. asked.step = "both" /\ scene \in Scenes
  BY DEF MediaInv, PidAnswers
<1>2. CASE scene.owner # None /\ Asked([asked EXCEPT !.pid = "had", !.app = normalize_application(Owners[scene.owner])])
  <2> DEFINE a == normalize_application(Owners[scene.owner])
             status == [asked EXCEPT !.pid = "had", !.app = a]
  <2>1. scene \in grounds'
    BY <1>2 DEF Asked
  <2>2. Named(a, grounds')
    BY <1>1, <1>2, <2>1, OwnerNamed
  <2> HIDE DEF a
  <2>3. ASSUME AskedIs(asked, grounds') PROVE AskedIs(status, grounds')
    <3>1. asked.source = None
      BY <1>1, <2>3 DEF AskedIs
    <3> QED BY <2>2, <2>3, <3>1 DEF AskedIs
  <2>4. Asked(status) /\ (AskedIs(asked, grounds') => status.step # "none")
    BY <1>1, <1>2 DEF a, AskedIs
  <2>5. AskedIs(asked, grounds')
    BY <1>1, <1>2, AskedInMore DEF MediaInv, Asked
  <2> QED BY <1>1, <2>3, <2>4, <2>5, HeardStep
<1>3. CASE Asked([asked EXCEPT !.pid = "none"])
  <2> DEFINE status == [asked EXCEPT !.pid = "none"]
  <2>1. AskedIs(asked, grounds')
    BY <1>1, <1>3, AskedInMore DEF MediaInv, Asked
  <2>2. AskedIs(status, grounds') /\ status.step # "none"
    BY <1>1, <2>1 DEF AskedIs
  <2> QED BY <1>1, <1>3, <2>2, HeardStep
<1> QED BY <1>2, <1>3 DEF PidAnswers

LEMMA InfoAnswersStep == MediaInv /\ InfoAnswers => MediaInv'
<1> SUFFICES ASSUME MediaInv, InfoAnswers PROVE MediaInv'
  OBVIOUS
<1>1. asked.step = "both" /\ scene \in Scenes
  BY DEF MediaInv, InfoAnswers
<1>2. CASE Asked([asked EXCEPT !.info = "had", !.bundle = scene.bundle, !.title = scene.title])
  <2> DEFINE status == [asked EXCEPT !.info = "had", !.bundle = scene.bundle, !.title = scene.title]
  <2>1. AskedIs(asked, grounds')
    BY <1>1, <1>2, AskedInMore DEF MediaInv, Asked
  <2>2. scene \in grounds'
    BY <1>2 DEF Asked
  <2>3. AskedIs(status, grounds') /\ status.step # "none"
    BY <1>1, <2>1, <2>2 DEF AskedIs, Titled
  <2> QED BY <1>1, <1>2, <2>3, HeardStep
<1>3. CASE Asked([asked EXCEPT !.info = "none"])
  <2> DEFINE status == [asked EXCEPT !.info = "none"]
  <2>1. AskedIs(asked, grounds')
    BY <1>1, <1>3, AskedInMore DEF MediaInv, Asked
  <2>2. AskedIs(status, grounds') /\ status.step # "none"
    BY <1>1, <2>1 DEF AskedIs
  <2> QED BY <1>1, <1>3, <2>2, HeardStep
<1> QED BY <1>2, <1>3 DEF InfoAnswers

LEMMA AnswersJoinStep == MediaInv /\ AnswersJoin => MediaInv'
<1> SUFFICES ASSUME MediaInv, AnswersJoin PROVE MediaInv'
  OBVIOUS
<1> DEFINE named == IF asked.app.name = None /\ asked.bundle # None
                      THEN [asked.bundle EXCEPT !.name = application_name_for_bundle(asked.bundle)]
                      ELSE asked.app
<1>1. asked.step = "both" /\ AskedIs(asked, grounds)
  BY DEF MediaInv, AnswersJoin
<1>2. asked' = [asked EXCEPT !.step = IF named.name = None THEN "audio" ELSE "source", !.app = named]
  BY DEF AnswersJoin
<1>3. UNCHANGED << scene, grounds >>
  BY DEF AnswersJoin
<1>4. Named(named, grounds)
  <2>1. CASE asked.app.name = None /\ asked.bundle # None
    <3>1. PICK s \in grounds : s.bundle = asked.bundle
      BY <1>1, <2>1 DEF AskedIs
    <3>2. s \in Scenes
      BY DEF MediaInv
    <3> QED BY <2>1, <3>1, <3>2, BundleNamed
  <2>2. CASE ~(asked.app.name = None /\ asked.bundle # None)
    BY <1>1, <2>2 DEF AskedIs
  <2> QED BY <2>1, <2>2
<1> HIDE DEF named
<1>5. AskedIs(asked', grounds) /\ asked'.step # "none"
  BY <1>1, <1>2, <1>4 DEF AskedIs
<1> QED BY <1>3, <1>5 DEF MediaInv

LEMMA SoundsListedStep == MediaInv /\ SoundsListed => MediaInv'
<1> SUFFICES ASSUME MediaInv, SoundsListed PROVE MediaInv'
  OBVIOUS
<1> DEFINE owner == active_audio_application(scene.sounding)
           app == IF owner.name = None THEN asked.app ELSE owner
           status == [asked EXCEPT !.step = "source", !.app = app]
<1>1. asked.step = "audio" /\ scene \in Scenes
  BY DEF MediaInv, SoundsListed
<1>2. Asked(status)
  BY DEF SoundsListed
<1>3. AskedIs(asked, grounds')
  BY <1>1, <1>2, AskedInMore DEF MediaInv, Asked
<1>4. Named(app, grounds')
  <2>1. scene \in grounds'
    BY <1>2 DEF Asked
  <2>2. CASE owner.name = None
    BY <1>3, <2>2 DEF AskedIs
  <2>3. CASE owner.name # None
    BY <1>1, <2>1, <2>3, SoundNamed
  <2> QED BY <2>2, <2>3
<1> HIDE DEF app
<1>5. AskedIs(status, grounds') /\ status.step # "none"
  BY <1>1, <1>3, <1>4 DEF AskedIs
<1> QED BY <1>1, <1>2, <1>5, HeardStep

LEMMA SourceFoundStep == MediaInv /\ SourceFound => MediaInv'
<1> SUFFICES ASSUME MediaInv, SourceFound PROVE MediaInv'
  OBVIOUS
<1>1. asked.step = "source" /\ scene \in Scenes
  BY DEF MediaInv, SourceFound
<1> DEFINE Status(source) == [asked EXCEPT !.step = "done", !.source = source]
<1>2. ASSUME NEW source, Asked(Status(source)),
             AskedIs(asked, grounds') /\ scene \in grounds' /\ source # None =>
                \E s \in grounds' : ServesIn(grounds', s, asked.app.name, source)
      PROVE  MediaInv'
  <2>1. AskedIs(asked, grounds') /\ scene \in grounds'
    BY <1>1, <1>2, AskedInMore DEF MediaInv, Asked
  <2>2. AskedIs(Status(source), grounds') /\ Status(source).step # "none"
    BY <1>1, <1>2, <2>1 DEF AskedIs
  <2> QED BY <1>1, <1>2, <2>2, HeardStep
<1>3. ASSUME NEW service \in DOMAIN OwnService, Is(asked.app, OwnService[service]), Asked(Status(service))
      PROVE  MediaInv'
  <2>1. ASSUME AskedIs(asked, grounds')
        PROVE  \E s \in grounds' : ServesIn(grounds', s, asked.app.name, service)
    <3>1. PICK s \in grounds' : asked.app \in Candidates(s)
      BY <1>3, <2>1 DEF AskedIs, Named
    <3> QED BY <1>3, <3>1 DEF ServesIn
  <2> QED BY <1>2, <1>3, <2>1
<1>4. CASE Is(asked.app, "com.spotify.client") /\ Asked(Status("Spotify"))
  BY <1>3, <1>4 DEF OwnService
<1>5. CASE Is(asked.app, "com.apple.Music") /\ Asked(Status("Music"))
  BY <1>3, <1>5 DEF OwnService
<1>6. CASE asked.app.name = "Google Chrome"
           /\ Asked(Status(unique_source_from_urls(SitesFor(asked.title, scene.tabs))))
  <2> DEFINE source == unique_source_from_urls(SitesFor(asked.title, scene.tabs))
  <2>1. ASSUME AskedIs(asked, grounds'), scene \in grounds', source # None
        PROVE  \E s \in grounds' : ServesIn(grounds', s, asked.app.name, source)
    <3>1. asked.title # None => asked.title \in {g.title : g \in grounds'}
      BY <2>1 DEF AskedIs, Titled
    <3> QED BY <1>1, <1>6, <2>1, <3>1, SitesAgree
  <2> HIDE DEF source
  <2> QED BY <1>2, <1>6, <2>1 DEF source
<1>7. CASE Asked(Status(None))
  BY <1>2, <1>7
<1> QED BY <1>4, <1>5, <1>6, <1>7 DEF SourceFound

LEMMA MediaStoredStep == MediaInv /\ MediaStored => MediaInv'
<1> SUFFICES ASSUME MediaInv, MediaStored PROVE MediaInv'
  OBVIOUS
<1>1. AskedIs(asked, grounds) /\ UNCHANGED << scene, grounds >>
  BY DEF MediaInv, MediaStored
<1>2. asked'.step = "none"
  BY DEF MediaStored, NotAsked
<1>3. ToldIs([application |-> asked.app.name, source |-> asked.source, title |-> asked.title], grounds)
  BY <1>1 DEF AskedIs, ToldIs, Named
<1>4. mediaFeed'.value = [application |-> asked.app.name, source |-> asked.source, title |-> asked.title]
  BY DEF MediaStored, Ready
<1> QED BY <1>1, <1>2, <1>3, <1>4 DEF MediaInv

LEMMA MediaInvStep == MediaInv /\ MediaNext => MediaInv'
<1>1. MediaInv /\ SceneChanges => MediaInv'
  BY DEF SceneChanges, MediaInv
<1> QED BY <1>1, MediaAskedStep, PidAnswersStep, InfoAnswersStep, AnswersJoinStep, SoundsListedStep,
           SourceFoundStep, MediaStoredStep DEF MediaNext

LEMMA MediaInvStill == MediaInv /\ UNCHANGED media => MediaInv'
BY DEF media, MediaInv

\* The owner, the service and the title of a media status are what a scene of the time
\* in which it was asked for has: `status` of `media.rs`.
LEMMA OwnerIsNeverGuessed == ControlsSpec => []OwnerIsNotGuessed
<1>1. ControlsInit => MediaInv
  BY MediaInvInit DEF ControlsInit
<1>2. MediaInv /\ [ControlsNext]_deckControls => MediaInv'
  BY MediaInvStep, MediaInvStill DEF ControlsNext, deckControls
<1>3. MediaInv => OwnerIsNotGuessed
  BY DEF MediaInv, ToldIs, Titled, OwnerIsNotGuessed
<1> QED BY <1>1, <1>2, <1>3, PTL DEF ControlsSpec

-----------------------------------------------------------------------------
(* The applications.                                                        *)

FirstOnes(seen) == {i \in DOMAIN seen : ~(\E j \in 1..i - 1 : same_application(seen[i], seen[j]))}

Unmistaken(seen) ==
    \A i, j, k \in DOMAIN seen :
        same_application(seen[i], seen[j]) /\ same_application(seen[j], seen[k])
            => same_application(seen[i], seen[k])

\* list is what the history keeps of what was seen.
HistoryIs(list, seen) ==
    \E at : \E count \in Nat : \E kept \in 0..count :
        /\ Climbs(at, count, FirstOnes(seen))
        /\ kept <= HistorySize
        /\ seen # << >> => kept > 0
        /\ list = [n \in 1..kept |-> seen[at[n]]]
        /\ Unmistaken(seen) => kept = count \/ kept = HistorySize

LEMMA SameIsMutual ==
    \A a, b : same_application(a, a) /\ (same_application(a, b) <=> same_application(b, a))
BY DEF same_application

LEMMA SizesAre == HistorySize \in Nat /\ RecentKeys \in Nat /\ HistorySize = RecentKeys + 1
BY ForegroundAssumption DEF ForegroundAssumption

\* Of what was seen before, those are first now which are not the same as the new one.
LEMMA FirstOnesNext ==
    ASSUME NEW apps, NEW seen \in Seq(apps), NEW a \in apps, NEW at, NEW count, NEW b, NEW c,
           Climbs(at, count, FirstOnes(seen)),
           Climbs(b, c, {n \in 1..count : ~same_application(seen[at[n]], a)})
    PROVE  Climbs([n \in 1..c + 1 |-> IF n = 1 THEN 1 ELSE at[b[n - 1]] + 1], c + 1,
                  FirstOnes(<< a >> \o seen))
<1> DEFINE more == << a >> \o seen
           next == [n \in 1..c + 1 |-> IF n = 1 THEN 1 ELSE at[b[n - 1]] + 1]
           J == {n \in 1..count : ~same_application(seen[at[n]], a)}
<1>1. /\ more \in Seq(apps) /\ Len(more) = Len(seen) + 1 /\ more[1] = a
      /\ \A i \in 1..Len(seen) : more[i + 1] = seen[i]
      /\ DOMAIN seen = 1..Len(seen) /\ DOMAIN more = 1..Len(seen) + 1 /\ Len(seen) \in Nat
  OBVIOUS
<1>2. c \in Nat /\ count \in Nat
  BY DEF Climbs
<1>3. \A n \in 1..count : at[n] \in FirstOnes(seen) /\ at[n] \in 1..Len(seen)
  BY <1>1 DEF Climbs, FirstOnes
<1>4. \A n \in 1..c : b[n] \in J
  BY DEF Climbs
<1> HIDE DEF more
<1>5. 1 \in FirstOnes(more)
  BY <1>1 DEF FirstOnes
<1>6. ASSUME NEW i \in 1..Len(seen)
      PROVE  i + 1 \in FirstOnes(more) <=> i \in FirstOnes(seen) /\ ~same_application(seen[i], a)
  <2>1. i + 1 \in DOMAIN more /\ more[i + 1] = seen[i]
    BY <1>1
  <2>2. (\E j \in 1..(i + 1) - 1 : same_application(seen[i], more[j]))
            <=> same_application(seen[i], a) \/ \E j \in 1..i - 1 : same_application(seen[i], seen[j])
    <3>1. ASSUME NEW j \in 1..(i + 1) - 1, j # 1
          PROVE  j - 1 \in 1..i - 1 /\ more[j] = seen[j - 1]
      <4>1. j - 1 \in 1..i - 1 /\ j - 1 \in 1..Len(seen) /\ (j - 1) + 1 = j
        BY <1>1, <3>1
      <4> QED BY <1>1, <4>1
    <3>2. ASSUME NEW j \in 1..i - 1
          PROVE  j + 1 \in 1..(i + 1) - 1 /\ more[j + 1] = seen[j]
      BY <1>1
    <3>3. 1 \in 1..(i + 1) - 1
      BY <1>1
    <3> QED BY <1>1, <3>1, <3>2, <3>3
  <2> QED BY <1>1, <2>1, <2>2 DEF FirstOnes
<1>7. \A n \in 1..c : at[b[n]] \in 1..Len(seen) /\ at[b[n]] + 1 \in FirstOnes(more)
  BY <1>3, <1>4, <1>6
<1>8. next \in [1..c + 1 -> FirstOnes(more)]
  <2>1. ASSUME NEW n \in 1..c + 1, n # 1
        PROVE  n - 1 \in 1..c
    BY <1>2, <2>1
  <2> QED BY <1>5, <1>7, <2>1
<1>9. ASSUME NEW i \in FirstOnes(more)
      PROVE  \E n \in 1..c + 1 : next[n] = i
  <2>1. CASE i = 1
    BY <1>2, <2>1
  <2>2. CASE i # 1
    <3>1. i - 1 \in 1..Len(seen) /\ (i - 1) + 1 = i
      BY <1>1, <2>2 DEF FirstOnes
    <3>2. i - 1 \in FirstOnes(seen) /\ ~same_application(seen[i - 1], a)
      BY <1>6, <3>1
    <3>3. PICK m \in 1..count : at[m] = i - 1
      BY <3>2 DEF Climbs
    <3>4. m \in J
      BY <3>2, <3>3
    <3>5. PICK n \in 1..c : b[n] = m
      BY <3>4 DEF Climbs
    <3>6. n + 1 \in 1..c + 1 /\ n + 1 # 1 /\ (n + 1) - 1 = n
      BY <1>2
    <3> QED BY <3>1, <3>3, <3>5, <3>6
  <2> QED BY <2>1, <2>2
<1>10. ASSUME NEW m \in 1..c + 1, NEW n \in 1..c + 1, m < n
       PROVE  next[m] < next[n]
  <2>1. n - 1 \in 1..c /\ n # 1 /\ next[n] = at[b[n - 1]] + 1 /\ at[b[n - 1]] \in Nat /\ at[b[n - 1]] >= 1
    BY <1>2, <1>7, <1>10
  <2>2. CASE m = 1
    BY <2>1, <2>2
  <2>3. CASE m # 1
    <3>1. m - 1 \in 1..c /\ m - 1 < n - 1 /\ next[m] = at[b[m - 1]] + 1 /\ at[b[m - 1]] \in Nat
      BY <1>2, <1>7, <1>10, <2>3
    <3>2. b[m - 1] < b[n - 1]
      BY <2>1, <3>1 DEF Climbs
    <3>3. b[m - 1] \in 1..count /\ b[n - 1] \in 1..count
      BY <1>4, <2>1, <3>1
    <3>4. at[b[m - 1]] < at[b[n - 1]]
      BY <3>2, <3>3 DEF Climbs
    <3> QED BY <2>1, <3>1, <3>4
  <2> QED BY <2>2, <2>3
<1> HIDE DEF next
<1>11. Climbs(next, c + 1, FirstOnes(more))
  BY <1>2, <1>8, <1>9, <1>10 DEF Climbs
<1> QED BY <1>11 DEF next, more

\* A new one goes to the head of the history.
LEMMA RecordIs ==
    ASSUME NEW apps, NEW seen \in Seq(apps), NEW a \in apps, NEW list, HistoryIs(list, seen)
    PROVE  HistoryIs(Record(list, a), << a >> \o seen)
<1>1. PICK at, count, kept :
        /\ count \in Nat /\ kept \in 0..count
        /\ Climbs(at, count, FirstOnes(seen))
        /\ kept <= HistorySize
        /\ list = [n \in 1..kept |-> seen[at[n]]]
        /\ Unmistaken(seen) => kept = count \/ kept = HistorySize
  BY DEF HistoryIs
<1> DEFINE J == {n \in 1..count : ~same_application(seen[at[n]], a)}
           more == << a >> \o seen
           c == Cardinality(J)
<1>0. count \in Nat /\ kept \in Nat /\ kept <= count
  BY <1>1
<1>2. J \in SUBSET Nat /\ IsFiniteSet(J)
  <2>1. IsFiniteSet(1..count) /\ J \in SUBSET (1..count)
    BY <1>0, FS_Interval
  <2> QED BY <1>0, <2>1, FS_Subset
<1>3. PICK b : Climbs(b, c, J)
  <2> HIDE DEF J
  <2> QED BY <1>2, ClimbExists
<1>4. PICK m \in 0..c : /\ Climbs([n \in 1..m |-> b[n]], m, {i \in J : i <= kept})
                        /\ m < c => b[m + 1] > kept
  <2>1. c \in Nat
    BY <1>3 DEF Climbs
  <2> HIDE DEF J, c
  <2> QED BY <1>0, <1>2, <1>3, ClimbsUpTo
<1>5. c \in Nat /\ (\A n \in 1..c : b[n] \in J) /\ (\A n \in 1..m : b[n] \in J /\ b[n] <= kept)
  BY <1>3, <1>4 DEF Climbs
<1> DEFINE next == [n \in 1..c + 1 |-> IF n = 1 THEN 1 ELSE at[b[n - 1]] + 1]
           left == {i \in DOMAIN list : ~same_application(list[i], a)}
           rest == [n \in 1..m |-> seen[at[b[n]]]]
<1>6. Climbs(next, c + 1, FirstOnes(more))
  <2> HIDE DEF c
  <2> QED BY <1>1, <1>3, FirstOnesNext
<1>7. DOMAIN list = 1..kept /\ \A n \in 1..kept : list[n] = seen[at[n]]
  BY <1>1
<1>8. left = {i \in J : i <= kept}
  BY <1>1, <1>7
<1>9. Only(list, left) = rest
  <2>1. {i \in J : i <= kept} \in SUBSET Nat /\ IsFiniteSet({i \in J : i <= kept})
    BY <1>2, FS_Subset
  <2> HIDE DEF J
  <2>2. Only(list, {i \in J : i <= kept}) = [n \in 1..m |-> list[[k \in 1..m |-> b[k]][n]]]
    BY <1>4, <2>1, OnlyIs
  <2>3. \A n \in 1..m : b[n] \in 1..kept
    BY <1>5 DEF J
  <2>4. \A n \in 1..m : list[[k \in 1..m |-> b[k]][n]] = seen[at[b[n]]]
    BY <1>7, <2>3
  <2> QED BY <1>8, <2>2, <2>4
<1>10. \A n \in 1..count : at[n] \in 1..Len(seen)
  BY <1>1 DEF Climbs, FirstOnes
<1>11. rest \in Seq(apps) /\ Len(rest) = m
  <2>1. \A n \in 1..m : seen[at[b[n]]] \in apps
    BY <1>5, <1>10
  <2> QED BY <1>5, <2>1
<1> HIDE DEF rest
<1> DEFINE whole == << a >> \o rest
<1>12. whole = [n \in 1..m + 1 |-> more[next[n]]]
  <2>1. whole \in Seq(apps) /\ Len(whole) = m + 1 /\ whole[1] = a
    BY <1>11
  <2>2. \A n \in 1..m + 1 : n # 1 => n - 1 \in 1..m /\ whole[n] = rest[n - 1]
    BY <1>5, <1>11
  <2>3. more[1] = a /\ \A i \in 1..Len(seen) : more[i + 1] = seen[i]
    OBVIOUS
  <2>4. \A n \in 1..m + 1 : n \in 1..c + 1
    BY <1>5
  <2> HIDE DEF whole, more
  <2>5. ASSUME NEW n \in 1..m + 1
        PROVE  whole[n] = more[next[n]]
    <3>1. CASE n = 1
      BY <2>1, <2>3, <2>4, <3>1
    <3>2. CASE n # 1
      <4>1. n - 1 \in 1..m /\ whole[n] = seen[at[b[n - 1]]]
        BY <2>2, <3>2 DEF rest
      <4>2. next[n] = at[b[n - 1]] + 1
        BY <2>4, <3>2
      <4>3. at[b[n - 1]] \in 1..Len(seen)
        BY <1>5, <1>10, <4>1
      <4> QED BY <2>3, <4>1, <4>2, <4>3
    <3> QED BY <3>1, <3>2
  <2>6. whole = [n \in 1..m + 1 |-> whole[n]]
    BY <2>1
  <2> QED BY <2>5, <2>6
<1>13. whole \in Seq(apps) /\ Len(whole) = m + 1
  BY <1>11
<1> DEFINE held == IF HistorySize < m + 1 THEN HistorySize ELSE m + 1
<1>14. held \in 0..c + 1 /\ held <= HistorySize /\ held > 0
  BY <1>5, SizesAre
<1>15. Record(list, a) = [n \in 1..held |-> more[next[n]]]
  <2>1. Record(list, a) = Take(whole, HistorySize)
    BY <1>9 DEF Record
  <2> HIDE DEF whole
  <2>2. Take(whole, HistorySize) = [n \in 1..held |-> whole[n]]
    <3>1. Take(whole, HistorySize) =
            [n \in 1..(IF HistorySize < Len(whole) THEN HistorySize ELSE Len(whole)) |-> whole[n]]
      BY <1>13, SizesAre, TakeIs
    <3> QED BY <1>13, <3>1
  <2> HIDE DEF more, next
  <2>3. \A n \in 1..held : whole[n] = more[next[n]]
    BY <1>5, <1>12, SizesAre
  <2> HIDE DEF held
  <2> QED BY <2>1, <2>2, <2>3
<1>16. ASSUME Unmistaken(more)
       PROVE  held = c + 1 \/ held = HistorySize
  <2>1. CASE m = c
    <3> HIDE DEF c
    <3> QED BY <2>1
  <2>2. CASE m # c
    <3>1. b[m + 1] > kept /\ b[m + 1] \in 1..count
      BY <1>4, <1>5, <2>2
    <3>2. kept = HistorySize
      <4>1. Unmistaken(seen)
        <5>1. \A i \in DOMAIN seen : i + 1 \in DOMAIN more /\ more[i + 1] = seen[i]
          OBVIOUS
        <5> HIDE DEF more
        <5> QED BY <1>16, <5>1 DEF Unmistaken
      <4> QED BY <1>1, <3>1, <4>1
    <3>3. ASSUME NEW i \in 1..kept, NEW j \in 1..kept, i < j, i \notin J, j \notin J
          PROVE  FALSE
      <4>1. /\ i \in 1..count /\ j \in 1..count
            /\ same_application(seen[at[i]], a) /\ same_application(seen[at[j]], a)
        BY <1>0, <3>3
      <4>2. /\ at[i] \in 1..Len(seen) /\ at[j] \in 1..Len(seen) /\ at[i] < at[j]
            /\ at[j] \in FirstOnes(seen)
        BY <1>1, <1>10, <3>3, <4>1 DEF Climbs
      <4>3. /\ at[i] + 1 \in DOMAIN more /\ more[at[i] + 1] = seen[at[i]]
            /\ at[j] + 1 \in DOMAIN more /\ more[at[j] + 1] = seen[at[j]]
            /\ 1 \in DOMAIN more /\ more[1] = a
        <5>1. DOMAIN more = 1..Len(seen) + 1
          OBVIOUS
        <5>2. \A k \in 1..Len(seen) : k + 1 \in 1..Len(seen) + 1 /\ more[k + 1] = seen[k]
          OBVIOUS
        <5> QED BY <4>2, <5>1, <5>2
      <4> HIDE DEF more
      <4>4. same_application(seen[at[j]], seen[at[i]])
        BY <1>16, <4>1, <4>3, SameIsMutual DEF Unmistaken
      <4>5. at[i] \in 1..at[j] - 1
        BY <4>2
      <4> QED BY <4>2, <4>4, <4>5 DEF FirstOnes
    <3>4. m + 1 >= kept
      <4>1. Cardinality({i \in J : i <= kept}) = m
        <5>1. {i \in J : i <= kept} \in SUBSET Nat /\ IsFiniteSet({i \in J : i <= kept})
          BY <1>2, FS_Subset
        <5> HIDE DEF J
        <5> QED BY <1>4, <5>1, OnlyIs
      <4>2. IsFiniteSet(1..kept) /\ Cardinality(1..kept) = kept
        <5>1. IsFiniteSet(1..kept) /\ Cardinality(1..kept) = IF 1 > kept THEN 0 ELSE kept - 1 + 1
          BY <1>0, FS_Interval
        <5> QED BY <1>0, <5>1
      <4>3. PICK x : (1..kept) \ {x} \subseteq {i \in J : i <= kept}
        <5>1. CASE \E x \in 1..kept : x \notin J
          <6>1. PICK x \in 1..kept : x \notin J
            BY <5>1
          <6>2. \A i \in 1..kept : i # x => i \in J
            BY <3>3, <6>1
          <6> HIDE DEF J
          <6>3. (1..kept) \ {x} \subseteq {i \in J : i <= kept}
            BY <6>2
          <6> QED BY <6>3
        <5>2. CASE ~\E x \in 1..kept : x \notin J
          <6>1. (1..kept) \ {0} \subseteq {i \in J : i <= kept}
            BY <5>2
          <6> QED BY <6>1
        <5> QED BY <5>1, <5>2
      <4>4. IsFiniteSet({i \in J : i <= kept})
        BY <1>2, FS_Subset
      <4> HIDE DEF J
      <4>5. Cardinality((1..kept) \ {x}) <= m
        BY <4>1, <4>3, <4>4, FS_Subset
      <4>6. Cardinality((1..kept) \ {x}) = IF x \in 1..kept THEN kept - 1 ELSE kept
        BY <4>2, FS_RemoveElement
      <4>7. m \in Nat
        BY <1>5
      <4> QED BY <1>0, <4>5, <4>6, <4>7
    <3> HIDE DEF c, J
    <3> QED BY <1>5, <3>2, <3>4, SizesAre
  <2> QED BY <2>1, <2>2
<1>17. c + 1 \in Nat
  BY <1>5
<1> HIDE DEF more, next, held, c
<1> QED BY <1>6, <1>14, <1>15, <1>16, <1>17 DEF HistoryIs, more

\* The keys show the rest of the history.
LEMMA RecentsAre ==
    ASSUME NEW apps, observed \in Seq(apps), observed # << >>, HistoryIs(history, observed),
           HasValue(appFeed), appFeed.value = observed[1]
    PROVE  RecentsAreRecent
<1>1. PICK at, count, kept :
        /\ count \in Nat /\ kept \in 1..count
        /\ Climbs(at, count, FirstOnes(observed))
        /\ kept <= HistorySize
        /\ history = [n \in 1..kept |-> observed[at[n]]]
        /\ Unmistaken(observed) => kept = count \/ kept = HistorySize
  <2>1. PICK at : \E count \in Nat : \E kept \in 0..count :
        /\ Climbs(at, count, FirstOnes(observed))
        /\ kept <= HistorySize
        /\ kept > 0
        /\ history = [n \in 1..kept |-> observed[at[n]]]
        /\ Unmistaken(observed) => kept = count \/ kept = HistorySize
    BY DEF HistoryIs
  <2>2. PICK count \in Nat, kept \in Nat :
        /\ kept \in 0..count
        /\ Climbs(at, count, FirstOnes(observed))
        /\ kept <= HistorySize
        /\ kept > 0
        /\ history = [n \in 1..kept |-> observed[at[n]]]
        /\ Unmistaken(observed) => kept = count \/ kept = HistorySize
    BY <2>1
  <2>3. kept \in 1..count
    BY <2>2
  <2> QED BY <2>2, <2>3
<1>2. Len(observed) \in Nat /\ DOMAIN observed = 1..Len(observed) /\ 1 \in DOMAIN observed
  OBVIOUS
<1>3. \A n \in 1..count : at[n] \in 1..Len(observed)
  BY <1>1, <1>2 DEF Climbs, FirstOnes
<1>4. at[1] = 1
  <2>1. 1 \in FirstOnes(observed)
    BY <1>2 DEF FirstOnes
  <2>2. PICK n \in 1..count : at[n] = 1
    BY <1>1, <2>1 DEF Climbs
  <2>3. n = 1
    <3>1. SUFFICES ASSUME n # 1 PROVE FALSE
      OBVIOUS
    <3>2. at[1] < at[n]
      BY <1>1, <3>1 DEF Climbs
    <3> QED BY <1>1, <1>3, <2>2, <3>2
  <2> QED BY <2>2, <2>3
<1>5. ASSUME NEW n \in 2..count
      PROVE  ~same_application(observed[at[n]], observed[1])
  <2>1. n \in 1..count /\ 1 \in 1..count /\ 1 < n
    BY <1>1
  <2>2. at[n] \in FirstOnes(observed) /\ 1 < at[n]
    BY <1>1, <1>4, <2>1 DEF Climbs
  <2>3. at[n] \in 1..Len(observed)
    BY <1>3, <2>1
  <2>4. 1 \in 1..at[n] - 1
    BY <2>2, <2>3
  <2> QED BY <2>2, <2>4 DEF FirstOnes
<1> DEFINE others == [n \in 1..count - 1 |-> observed[at[n + 1]]]
           rest == {i \in DOMAIN history : ~same_application(history[i], observed[1])}
<1>6. rest = 2..kept
  <2>1. DOMAIN history = 1..kept /\ \A i \in 1..kept : history[i] = observed[at[i]]
    BY <1>1
  <2>2. same_application(history[1], observed[1])
    BY <1>1, <1>4, <2>1, SameIsMutual
  <2>3. \A i \in 2..kept : i \in 1..kept /\ ~same_application(history[i], observed[1])
    BY <1>1, <1>5, <2>1
  <2>4. \A i \in 1..kept : i = 1 \/ i \in 2..kept
    BY <1>1
  <2>5. 1 \notin 2..kept
    OBVIOUS
  <2> QED BY <2>1, <2>2, <2>3, <2>4, <2>5
<1>7. Only(history, rest) = [n \in 1..kept - 1 |-> observed[at[n + 1]]]
  <2> DEFINE up == [n \in 1..kept - 1 |-> n + 1]
  <2>1. 2..kept \in SUBSET Nat /\ IsFiniteSet(2..kept)
    <3>1. kept \in Int /\ 2 \in Int
      BY <1>1
    <3> QED BY <3>1, FS_Interval
  <2>2. Climbs(up, kept - 1, 2..kept)
    <3>1. kept - 1 \in Nat /\ up \in [1..kept - 1 -> 2..kept]
      BY <1>1
    <3>2. \A i \in 2..kept : i - 1 \in 1..kept - 1 /\ up[i - 1] = i
      BY <1>1
    <3>3. \A m, n \in 1..kept - 1 : m < n => up[m] < up[n]
      BY <1>1
    <3> HIDE DEF up
    <3> QED BY <3>1, <3>2, <3>3 DEF Climbs
  <2>3. Only(history, 2..kept) = [n \in 1..kept - 1 |-> history[up[n]]]
    <3> DEFINE later == 2..kept
               length == kept - 1
    <3>1. later \in SUBSET Nat /\ IsFiniteSet(later) /\ Climbs(up, length, later)
      BY <2>1, <2>2
    <3> HIDE DEF up, later, length
    <3>2. Only(history, later) = [n \in 1..length |-> history[up[n]]]
      BY <3>1, OnlyIs
    <3> QED BY <3>2 DEF later, length
  <2>4. \A n \in 1..kept - 1 : history[up[n]] = observed[at[n + 1]]
    BY <1>1
  <2> QED BY <1>6, <2>3, <2>4
<1>8. others \in Seq(apps) /\ Len(others) = count - 1
  <2>1. \A n \in 1..count - 1 : observed[at[n + 1]] \in apps
    BY <1>1, <1>3
  <2>2. count - 1 \in Nat
    BY <1>1
  <2> QED BY <2>1, <2>2
<1>9. OthersBefore = others
  <2> DEFINE all == [n \in 1..count |-> observed[at[n]]]
  <2>1. Only(observed, FirstOnes(observed)) = all
    <3>1. FirstOnes(observed) \in SUBSET (1..Len(observed))
      BY <1>2 DEF FirstOnes
    <3>2. FirstOnes(observed) \in SUBSET Nat /\ IsFiniteSet(FirstOnes(observed))
      <4>1. IsFiniteSet(1..Len(observed)) /\ 1..Len(observed) \subseteq Nat
        BY <1>2, FS_Interval
      <4> QED BY <3>1, <4>1, FS_Subset
    <3> QED BY <1>1, <3>2, OnlyIs
  <2>2. OthersBefore = Tail(all)
    BY <2>1 DEF OthersBefore, FirstOnes
  <2>3. all \in Seq(apps) /\ Len(all) = count
    BY <1>1, <1>3
  <2>4. Tail(all) = [n \in 1..count - 1 |-> all[n + 1]]
    <3> HIDE DEF all
    <3>1. all # << >> /\ count \in Nat /\ count > 0
      BY <1>1, <2>3
    <3>2. Len(Tail(all)) = count - 1 /\ Tail(all) \in Seq(apps)
      BY <2>3, <3>1, HeadTailProperties
    <3>3. \A n \in 1..count - 1 : Tail(all)[n] = all[n + 1]
      BY <2>3, <3>1, <3>2, HeadTailProperties
    <3>4. Tail(all) = [n \in 1..count - 1 |-> Tail(all)[n]]
      <4> DEFINE tail == Tail(all)
      <4> HIDE DEF tail
      <4>1. tail \in Seq(apps) /\ Len(tail) = count - 1
        BY <3>2 DEF tail
      <4>2. tail = [n \in 1..count - 1 |-> tail[n]]
        BY <4>1
      <4> QED BY <4>2 DEF tail
    <3> QED BY <3>3, <3>4
  <2>5. \A n \in 1..count - 1 : all[n + 1] = observed[at[n + 1]]
    BY <1>1
  <2> QED BY <2>2, <2>4, <2>5
<1> DEFINE shown == [n \in 1..kept - 1 |-> others[n]]
<1>10. Recents = shown
  <2> DEFINE few == [n \in 1..kept - 1 |-> observed[at[n + 1]]]
  <2>1. few \in Seq(apps) /\ Len(few) = kept - 1
    <3>1. \A n \in 1..kept - 1 : observed[at[n + 1]] \in apps
      BY <1>1, <1>3
    <3>2. kept - 1 \in Nat
      BY <1>1
    <3> QED BY <3>1, <3>2
  <2>2. Recents = Take(few, RecentKeys)
    <3>1. Recents = Take(Only(history, rest), RecentKeys)
      BY DEF Recents
    <3> QED BY <1>7, <3>1
  <2>3. \A n \in 1..kept - 1 : few[n] = others[n]
    BY <1>1
  <2> HIDE DEF few
  <2>4. Take(few, RecentKeys) = [n \in 1..kept - 1 |-> few[n]]
    <3>1. Take(few, RecentKeys) =
            [n \in 1..(IF RecentKeys < Len(few) THEN RecentKeys ELSE Len(few)) |-> few[n]]
      BY <2>1, SizesAre, TakeIs
    <3>2. ~(RecentKeys < Len(few))
      BY <1>1, <2>1, SizesAre
    <3> QED BY <2>1, <3>1, <3>2
  <2> HIDE DEF others
  <2> QED BY <2>2, <2>3, <2>4
<1> HIDE DEF others
<1>11. IsPrefix(Recents, OthersBefore)
  <2>1. kept - 1 \in Nat /\ kept - 1 <= count - 1
    BY <1>1
  <2>2. Len(shown) = kept - 1 /\ shown \in Seq(apps)
    <3>1. \A n \in 1..kept - 1 : others[n] \in apps
      BY <1>1, <1>8
    <3> QED BY <2>1, <3>1
  <2>3. SubSeq(others, 1, kept - 1) = shown
    <3>1. SubSeq(others, 1, kept - 1) = [n \in 1..(kept - 1) - 1 + 1 |-> others[n + 1 - 1]]
      BY <1>8, <2>1
    <3> QED BY <1>1, <3>1
  <2>4. SubSeq(shown, 1, kept - 1) = shown
    <3> HIDE DEF shown
    <3> QED BY <2>2, SubSeqFull
  <2> HIDE DEF shown
  <2> QED BY <1>8, <1>9, <1>10, <2>1, <2>2, <2>3, <2>4 DEF IsPrefix
<1>12. ASSUME Unmistakable
       PROVE  Recents = Take(OthersBefore, RecentKeys)
  <2>1. kept = count \/ kept = HistorySize
    BY <1>1, <1>12 DEF Unmistakable, Unmistaken
  <2>2. Take(others, RecentKeys) =
            [n \in 1..(IF RecentKeys < count - 1 THEN RecentKeys ELSE count - 1) |-> others[n]]
    BY <1>8, SizesAre, TakeIs
  <2>3. (IF RecentKeys < count - 1 THEN RecentKeys ELSE count - 1) = kept - 1
    BY <1>1, <2>1, SizesAre
  <2> QED BY <1>9, <1>10, <2>2, <2>3
<1> QED BY <1>11, <1>12 DEF RecentsAreRecent

\* What is left of a sequence was in it.
LEMMA OnlyType ==
    ASSUME NEW S, NEW s \in Seq(S), NEW indices \in SUBSET DOMAIN s
    PROVE  /\ Only(s, indices) \in Seq(S)
           /\ \A n \in DOMAIN Only(s, indices) : \E i \in indices : Only(s, indices)[n] = s[i]
           /\ \A i \in indices : \E n \in DOMAIN Only(s, indices) : Only(s, indices)[n] = s[i]
<1>1. DOMAIN s = 1..Len(s) /\ Len(s) \in Nat
  OBVIOUS
<1>2. indices \in SUBSET Nat /\ IsFiniteSet(indices)
  <2>1. IsFiniteSet(DOMAIN s) /\ DOMAIN s \subseteq Nat
    BY <1>1, FS_Interval
  <2> QED BY <2>1, FS_Subset
<1>3. PICK at, count : Climbs(at, count, indices)
  BY <1>2, ClimbExists
<1> DEFINE left == [n \in 1..count |-> s[at[n]]]
<1>4. Only(s, indices) = left
  BY <1>2, <1>3, OnlyIs
<1>5. left \in Seq(S)
  <2>1. \A n \in 1..count : s[at[n]] \in S
    BY <1>1, <1>3 DEF Climbs
  <2> QED BY <1>3, <2>1 DEF Climbs
<1>6. DOMAIN left = 1..count /\ \A n \in 1..count : left[n] = s[at[n]]
  OBVIOUS
<1>7. /\ \A n \in 1..count : at[n] \in indices
      /\ \A i \in indices : \E n \in 1..count : at[n] = i
  BY <1>3 DEF Climbs
<1> HIDE DEF left
<1> QED BY <1>4, <1>5, <1>6, <1>7

AllApps == {Processes[p] : p \in DOMAIN Processes}

\* A task of a press is about an application, and has hit none but that.
ErrandIs(errand) ==
    /\ DOMAIN errand = {"do", "app", "about", "key", "shown", "said", "hit"}
    /\ errand.app \in AllApps
    /\ IF errand.do = "custom"
         THEN errand.about.to = kind(errand.app)
         ELSE errand.shown = << errand.app.name >>
    /\ errand.hit # None =>
            /\ errand.hit \in DOMAIN Processes
            /\ IF errand.do = "custom"
                 THEN kind(Processes[errand.hit]) = kind(errand.app)
                 ELSE Processes[errand.hit].pid = errand.app.pid

DeskIs(d) ==
    /\ DOMAIN d = {"running", "front"}
    /\ d.running \subseteq DOMAIN Processes
    /\ d.front \in DOMAIN Processes \cup {None}

AppsAreKnown ==
    /\ observed \in Seq(AllApps)
    /\ HistoryIs(history, observed)
    /\ HasValue(appFeed) <=> observed # << >>
    /\ observed # << >> => appFeed.value = observed[1]

ForegroundInv ==
    /\ DeskIs(desk)
    /\ polled \in DOMAIN Processes \cup {None, "none"}
    /\ AppsAreKnown
    /\ \E some : errands \in Seq(some)
    /\ \A e \in DOMAIN errands : ErrandIs(errands[e])

LEMMA ForegroundInvInit == ForegroundInit => ForegroundInv
<1> SUFFICES ASSUME ForegroundInit PROVE ForegroundInv
  OBVIOUS
<1>1. HistoryIs(<< >>, << >>)
  <2> DEFINE at == [n \in 1..0 |-> 0]
  <2>1. FirstOnes(<< >>) = {}
    BY DEF FirstOnes
  <2>2. Climbs(at, 0, {})
    BY DEF Climbs
  <2>3. << >> = [n \in 1..0 |-> << >>[at[n]]]
    OBVIOUS
  <2>4. 0 <= HistorySize /\ 0 \in Nat /\ 0 \in 0..0
    BY SizesAre
  <2> HIDE DEF at
  <2> QED BY <2>1, <2>2, <2>3, <2>4 DEF HistoryIs
<1>2. AppsAreKnown
  BY <1>1 DEF ForegroundInit, AppsAreKnown, HasValue, Loading
<1>3. DeskIs(desk)
  BY DEF ForegroundInit, DeskIs
<1>4. errands \in Seq({}) /\ DOMAIN errands = {}
  BY DEF ForegroundInit
<1> QED BY <1>2, <1>3, <1>4 DEF ForegroundInit, ForegroundInv

\* What the history has, and what the keys show, are applications.
LEMMA RecentsType ==
    ASSUME ForegroundInv
    PROVE  Recents \in Seq(AllApps)
<1>1. history \in Seq(AllApps)
  <2>1. PICK at : \E count \in Nat : \E kept \in 0..count :
            /\ Climbs(at, count, FirstOnes(observed))
            /\ history = [n \in 1..kept |-> observed[at[n]]]
    BY DEF ForegroundInv, AppsAreKnown, HistoryIs
  <2>2. PICK count \in Nat, kept \in Nat :
            /\ kept \in 0..count
            /\ Climbs(at, count, FirstOnes(observed))
            /\ history = [n \in 1..kept |-> observed[at[n]]]
    BY <2>1
  <2>3. observed \in Seq(AllApps)
    BY DEF ForegroundInv, AppsAreKnown
  <2>4. \A n \in 1..kept : observed[at[n]] \in AllApps
    BY <2>2, <2>3 DEF Climbs, FirstOnes
  <2> QED BY <2>2, <2>4
<1> DEFINE left == {i \in DOMAIN history :
                        ~(HasValue(appFeed) /\ same_application(history[i], appFeed.value))}
<1>2. Only(history, left) \in Seq(AllApps)
  BY <1>1, OnlyType
<1> HIDE DEF left
<1> QED BY <1>2, SizesAre, TakeIs DEF Recents, left

LEMMA CustomIsOwn ==
    ASSUME NEW k, NEW slot, context_action(k, slot).do = "custom"
    PROVE  context_action(k, slot).to = k
BY DEF context_action

LEMMA ErrandOfIs ==
    ASSUME ForegroundInv, NEW command \in AppCommands, ErrandOf(command) # None
    PROVE  ErrandIs(ErrandOf(command))
<1> DEFINE current == appFeed.value
           Errand(do, a, about) ==
                [do |-> do, app |-> a, about |-> about, key |-> command,
                 shown |-> Shown(command), said |-> None, hit |-> None]
<1>1. HasValue(appFeed)
  BY DEF ErrandOf
<1>2. current \in AllApps
  BY <1>1 DEF ForegroundInv, AppsAreKnown
<1>3. CASE command.do = "recent"
  <2> DEFINE a == At(Recents, command.slot)
  <2>1. ErrandOf(command) = IF a = None THEN None ELSE Errand("activate", a, None)
    BY <1>1, <1>3 DEF ErrandOf
  <2>2. a # None
    BY <2>1
  <2>3. a \in AllApps
    BY <2>2, RecentsType DEF At
  <2>4. Shown(command) = << a.name >>
    BY <1>3, <2>2 DEF Shown, RecentFace, Face
  <2> HIDE DEF a
  <2> QED BY <2>1, <2>2, <2>3, <2>4 DEF ErrandIs
<1>4. CASE command.do = "context"
  <2> DEFINE action == context_action(kind(current), command.slot)
  <2>1. ErrandOf(command) = IF action.do = "custom" THEN Errand("custom", current, action) ELSE None
    BY <1>1, <1>4 DEF ErrandOf
  <2>2. action.do = "custom"
    BY <2>1
  <2>3. action.to = kind(current)
    BY <2>2, CustomIsOwn
  <2> HIDE DEF action
  <2> QED BY <1>2, <2>1, <2>2, <2>3 DEF ErrandIs
<1>5. CASE command.do # "recent" /\ command.do # "context"
  <2>1. ErrandOf(command) = Errand(command.do, current, None)
    BY <1>1, <1>5 DEF ErrandOf
  <2>2. Shown(command) = << current.name >>
    BY <1>1, <1>5 DEF Shown, AppFace, Face
  <2>3. command.do # "custom"
    BY ForegroundAssumption DEF ForegroundAssumption
  <2> QED BY <1>2, <2>1, <2>2, <2>3 DEF ErrandIs
<1> QED BY <1>3, <1>4, <1>5

LEMMA PressApplicationStep == ForegroundInv /\ PressApplication => ForegroundInv'
<1> SUFFICES ASSUME ForegroundInv, PressApplication PROVE ForegroundInv'
  OBVIOUS
<1>1. PICK command \in AppCommands :
        ErrandOf(command) # None /\ errands' = Append(errands, ErrandOf(command))
  BY DEF PressApplication
<1>2. PICK some : errands \in Seq(some)
  BY DEF ForegroundInv
<1>3. ErrandIs(ErrandOf(command))
  BY <1>1, ErrandOfIs
<1> DEFINE new == ErrandOf(command)
<1> HIDE DEF new
<1>4. errands' \in Seq(some \cup {new})
  BY <1>1, <1>2 DEF new
<1>5. \A e \in DOMAIN errands' : errands'[e] = new \/ (e \in DOMAIN errands /\ errands'[e] = errands[e])
  BY <1>1, <1>2 DEF new
<1>6. \A e \in DOMAIN errands' : ErrandIs(errands'[e])
  BY <1>3, <1>5 DEF ForegroundInv, new
<1>7. AppsAreKnown'
  BY DEF PressApplication, ForegroundInv, AppsAreKnown
<1>8. DeskIs(desk') /\ polled' = polled
  BY DEF PressApplication, ForegroundInv
<1> QED BY <1>4, <1>6, <1>7, <1>8 DEF ForegroundInv

\* A task that is done has hit what it was for, or nothing.
LEMMA FinishedStep ==
    ASSUME ForegroundInv, NEW e \in DOMAIN errands, NEW said, NEW hit,
           errands' = Finished(e, said, hit), DeskIs(desk'),
           UNCHANGED << appFeed, polled, history, observed >>,
           hit # None =>
                /\ hit \in DOMAIN Processes
                /\ IF errands[e].do = "custom"
                     THEN kind(Processes[hit]) = kind(errands[e].app)
                     ELSE Processes[hit].pid = errands[e].app.pid
    PROVE  ForegroundInv'
<1>1. PICK some : errands \in Seq(some)
  BY DEF ForegroundInv
<1> DEFINE new == [errands[e] EXCEPT !.said = said, !.hit = hit]
<1>2. errands' = [errands EXCEPT ![e] = new]
  BY DEF Finished
<1>3. ErrandIs(errands[e])
  BY DEF ForegroundInv
<1>4. /\ DOMAIN new = DOMAIN errands[e] /\ new.app = errands[e].app /\ new.do = errands[e].do
      /\ new.about = errands[e].about /\ new.shown = errands[e].shown /\ new.hit = hit
  BY <1>3 DEF ErrandIs
<1> HIDE DEF new
<1>5. ErrandIs(new)
  BY <1>3, <1>4 DEF ErrandIs
<1>6. errands' \in Seq(some \cup {new})
  BY <1>1, <1>2
<1>7. \A f \in DOMAIN errands' : f \in DOMAIN errands /\ errands'[f] = IF f = e THEN new ELSE errands[f]
  BY <1>1, <1>2
<1>8. \A f \in DOMAIN errands' : ErrandIs(errands'[f])
  BY <1>5, <1>7 DEF ForegroundInv
<1>9. AppsAreKnown'
  BY DEF ForegroundInv, AppsAreKnown
<1> QED BY <1>6, <1>8, <1>9 DEF ForegroundInv

LEMMA WithoutIs ==
    ASSUME DeskIs(desk), NEW p \in desk.running
    PROVE  DeskIs(Without(p))
<1>1. desk.front \in DOMAIN Processes \cup {None} /\ desk.running \ {p} \subseteq DOMAIN Processes
  BY DEF DeskIs
<1>2. desk.running # {p} => (CHOOSE q \in desk.running \ {p} : TRUE) \in DOMAIN Processes
  <2>1. SUFFICES ASSUME desk.running # {p} PROVE (CHOOSE q \in desk.running \ {p} : TRUE) \in desk.running \ {p}
    BY <1>1
  <2>2. \E q : q \in desk.running \ {p}
    BY <2>1
  <2> QED BY <2>2
<1> QED BY <1>1, <1>2 DEF Without, DeskIs

LEMMA EffectIs ==
    ASSUME DeskIs(desk), NEW control, NEW p \in desk.running
    PROVE  DeskIs(Effect(control, p))
<1>1. DeskIs(Without(p))
  BY WithoutIs
<1>2. p \in DOMAIN Processes
  BY DEF DeskIs
<1>3. DeskIs([desk EXCEPT !.front = p])
  BY <1>2 DEF DeskIs
<1>4. DeskIs([Without(p) EXCEPT !.running = desk.running])
  BY <1>1 DEF DeskIs
<1> QED BY <1>1, <1>3, <1>4 DEF Effect

LEMMA ControlRunsStep == ForegroundInv /\ ControlRuns => ForegroundInv'
<1> SUFFICES ASSUME ForegroundInv, ControlRuns PROVE ForegroundInv'
  OBVIOUS
<1>1. PICK e \in DOMAIN errands :
        /\ errands[e].do # "custom"
        /\ LET there == Running(Aim(errands[e]))
               control == errands[e].do
           IN  \/ /\ there = {}
                  /\ errands' = Finished(e, "NotRunning", None)
                  /\ UNCHANGED desk
               \/ \E p \in there :
                    \E said \in IF control \in {"activate", "hide"} THEN {"ok", "Rejected"} ELSE {"ok"} :
                        /\ desk' \in {Effect(control, p), desk}
                        /\ errands' = Finished(e, said, p)
               \/ /\ there # {}
                  /\ errands' = Finished(e, "Rejected", None)
                  /\ UNCHANGED desk
  BY DEF ControlRuns
<1>2. UNCHANGED << appFeed, polled, history, observed >> /\ DeskIs(desk)
  BY DEF ControlRuns, ForegroundInv
<1>3. CASE UNCHANGED desk /\ \E said : errands' = Finished(e, said, None)
  BY <1>2, <1>3, FinishedStep
<1>4. ASSUME NEW p \in Running(Aim(errands[e])), NEW said,
             desk' \in {Effect(errands[e].do, p), desk}, errands' = Finished(e, said, p)
      PROVE  ForegroundInv'
  <2>1. p \in desk.running /\ Processes[p].pid = errands[e].app.pid
    BY <1>4 DEF Running, Aim
  <2>2. p \in DOMAIN Processes
    BY <1>2, <2>1 DEF DeskIs
  <2>3. DeskIs(desk')
    BY <1>2, <1>4, <2>1, EffectIs
  <2> QED BY <1>1, <1>2, <1>4, <2>1, <2>2, <2>3, FinishedStep
<1> QED BY <1>1, <1>3, <1>4

LEMMA CustomRunsStep == ForegroundInv /\ CustomRuns => ForegroundInv'
<1> SUFFICES ASSUME ForegroundInv, CustomRuns PROVE ForegroundInv'
  OBVIOUS
<1>1. PICK e \in DOMAIN errands :
        /\ errands[e].do = "custom"
        /\ \/ \E p \in {p \in DOMAIN Processes : kind(Processes[p]) = errands[e].about.to} :
                /\ desk' = [desk EXCEPT !.running = @ \cup {p}]
                /\ \E said \in {"ok", "error"} : errands' = Finished(e, said, p)
           \/ errands' = Finished(e, "error", None) /\ UNCHANGED desk
  BY DEF CustomRuns
<1>2. UNCHANGED << appFeed, polled, history, observed >> /\ DeskIs(desk)
  BY DEF CustomRuns, ForegroundInv
<1>3. errands[e].about.to = kind(errands[e].app)
  BY <1>1 DEF ForegroundInv, ErrandIs
<1>4. CASE errands' = Finished(e, "error", None) /\ UNCHANGED desk
  BY <1>2, <1>4, FinishedStep
<1>5. ASSUME NEW p \in DOMAIN Processes, kind(Processes[p]) = errands[e].about.to,
             desk' = [desk EXCEPT !.running = @ \cup {p}], NEW said, errands' = Finished(e, said, p)
      PROVE  ForegroundInv'
  <2>1. DeskIs(desk')
    BY <1>2, <1>5 DEF DeskIs
  <2> QED BY <1>1, <1>2, <1>3, <1>5, <2>1, FinishedStep
<1> QED BY <1>1, <1>4, <1>5

LEMMA PollReadsStep == ForegroundInv /\ PollReads => ForegroundInv'
<1> SUFFICES ASSUME ForegroundInv, PollReads PROVE ForegroundInv'
  OBVIOUS
<1>1. polled' \in DOMAIN Processes \cup {None, "none"}
  BY DEF PollReads, ForegroundInv, DeskIs, frontmost
<1>2. AppsAreKnown' /\ UNCHANGED << desk, errands >>
  BY DEF PollReads, ForegroundInv, AppsAreKnown
<1> QED BY <1>1, <1>2 DEF ForegroundInv

LEMMA PollStoresStep == ForegroundInv /\ PollStores => ForegroundInv'
<1> SUFFICES ASSUME ForegroundInv, PollStores PROVE ForegroundInv'
  OBVIOUS
<1>1. polled' = None /\ UNCHANGED << desk, errands >>
  BY DEF PollStores
<1>2. CASE polled = "none"
  <2>1. appFeed' = Failing(appFeed) /\ UNCHANGED << history, observed >>
    BY <1>2 DEF PollStores
  <2>2. AppsAreKnown'
    BY <2>1 DEF ForegroundInv, AppsAreKnown, Failing, HasValue, Kept, Failed
  <2> QED BY <1>1, <2>2 DEF ForegroundInv
<1>3. CASE polled # "none"
  <2> DEFINE a == Processes[polled]
  <2>1. /\ appFeed' = Ready(a) /\ history' = Record(history, a) /\ observed' = << a >> \o observed
        /\ polled # None
    BY <1>3 DEF PollStores
  <2>2. a \in AllApps
    BY <1>3, <2>1 DEF ForegroundInv, AllApps
  <2> HIDE DEF a
  <2>3. observed \in Seq(AllApps) /\ HistoryIs(history, observed)
    BY DEF ForegroundInv, AppsAreKnown
  <2>4. HistoryIs(history', observed')
    BY <2>1, <2>2, <2>3, RecordIs
  <2>5. observed' \in Seq(AllApps) /\ observed' # << >> /\ observed'[1] = a
    BY <2>1, <2>2, <2>3
  <2>6. HasValue(appFeed)' /\ appFeed'.value = a
    BY <2>1 DEF HasValue, Ready
  <2>7. AppsAreKnown'
    BY <2>4, <2>5, <2>6 DEF AppsAreKnown
  <2> QED BY <1>1, <2>7 DEF ForegroundInv
<1> QED BY <1>2, <1>3

LEMMA UserActsStep == ForegroundInv /\ UserActs => ForegroundInv'
<1> SUFFICES ASSUME ForegroundInv, UserActs PROVE ForegroundInv'
  OBVIOUS
<1>1. DeskIs(desk)
  BY DEF ForegroundInv
<1>2. DeskIs(desk')
  <2>1. ASSUME NEW p \in desk.running, desk' = [desk EXCEPT !.front = p]
        PROVE  DeskIs(desk')
    BY <1>1, <2>1 DEF DeskIs
  <2>2. ASSUME NEW p \in DOMAIN Processes, desk' = [running |-> desk.running \cup {p}, front |-> p]
        PROVE  DeskIs(desk')
    BY <1>1, <2>2 DEF DeskIs
  <2>3. ASSUME NEW p \in desk.running, desk' = Without(p)
        PROVE  DeskIs(desk')
    BY <1>1, <2>3, WithoutIs
  <2> QED BY <2>1, <2>2, <2>3 DEF UserActs
<1>3. AppsAreKnown' /\ UNCHANGED << polled, errands >>
  BY DEF UserActs, ForegroundInv, AppsAreKnown
<1> QED BY <1>2, <1>3 DEF ForegroundInv

LEMMA ForegroundInvStep == ForegroundInv /\ ForegroundNext => ForegroundInv'
BY PressApplicationStep, ControlRunsStep, CustomRunsStep, PollReadsStep, PollStoresStep, UserActsStep
   DEF ForegroundNext

LEMMA ForegroundInvStill == ForegroundInv /\ UNCHANGED foreground => ForegroundInv'
BY DEF foreground, ForegroundInv, AppsAreKnown

LEMMA ErrandsAreMeant == ForegroundInv => AppsAreMeant
<1> SUFFICES ASSUME ForegroundInv, NEW e \in DOMAIN errands, errands[e].hit # None,
                    errands[e].do # "custom"
             PROVE  errands[e].shown = << Processes[errands[e].hit].name >>
  BY DEF ForegroundInv, ErrandIs, AppsAreMeant
<1>1. /\ errands[e].shown = << errands[e].app.name >> /\ errands[e].app \in AllApps
      /\ errands[e].hit \in DOMAIN Processes
      /\ Processes[errands[e].hit].pid = errands[e].app.pid
  BY DEF ForegroundInv, ErrandIs
<1>2. PICK p \in DOMAIN Processes : errands[e].app = Processes[p]
  BY <1>1 DEF AllApps
<1>3. p = errands[e].hit
  BY <1>1, <1>2, ForegroundAssumption DEF ForegroundAssumption
<1> QED BY <1>1, <1>2, <1>3

\* The recent keys are the applications that were in front before, and a key acts on
\* the one that it showed: `record_frontmost_application` and `apply_application`.
LEMMA ForegroundIsAlwaysMeant == ControlsSpec => []ForegroundIsMeant
<1>1. ControlsInit => ForegroundInv
  BY ForegroundInvInit DEF ControlsInit
<1>2. ForegroundInv /\ [ControlsNext]_deckControls => ForegroundInv'
  BY ForegroundInvStep, ForegroundInvStill DEF ControlsNext, deckControls
<1>3. ForegroundInv => ForegroundIsMeant
  <2> SUFFICES ASSUME ForegroundInv PROVE RecentsAreRecent /\ AppsAreMeant
    BY DEF ForegroundIsMeant
  <2>1. ASSUME observed # << >> PROVE RecentsAreRecent
    BY <2>1, RecentsAre DEF ForegroundInv, AppsAreKnown
  <2>2. observed = << >> => RecentsAreRecent
    BY DEF RecentsAreRecent
  <2> QED BY <2>1, <2>2, ErrandsAreMeant
<1> QED BY <1>1, <1>2, <1>3, PTL DEF ControlsSpec

\* What a press reaches is what its key showed: the run of its session's own tile, the
\* service that the feed of the status is from, the applications in front and those of
\* late, and the device that the key offered.
THEOREM PressesAlwaysHitTheirTarget == ControlsSpec => []PressesHitTheirTarget
<1>1. SelectionsAreMeant /\ ForegroundIsMeant /\ StepsAreFromTheTile /\ OwnerIsNotGuessed => PressesHitTheirTarget
  BY DEF PressesHitTheirTarget
<1> QED BY <1>1, SelectionsAreAlwaysMeant, ForegroundIsAlwaysMeant, StepsAreAlwaysFromTheTile,
           OwnerIsNeverGuessed, PTL

-----------------------------------------------------------------------------
(* Glances: what a fetch was told.                                          *)

IsResult(outcome) == outcome = Failed \/ outcome = Ready(outcome.value)

LEMMA ResultsAre == IsResult(Failed) /\ \A v : IsResult(Ready(v)) /\ Ready(v).value = v
BY DEF IsResult, Ready, Failed

\* The answers that a fetch has got, and to which parts of it.
Heeded(f) ==
    /\ f.config \in Configs(subject) /\ f.at \in Nat
    /\ DOMAIN f.got \subseteq ToSet(Parts(subject, f.config))
    /\ \A part \in DOMAIN f.got :
        f.got[part] \in Answers(subject, part) /\ (subject = "transit" => Said(f, part) # None)
    /\ IsList(f.order) /\ ToSet(f.order) = DOMAIN f.got

\* One that is over has all of them, but for the departures.
WellAsked(f) ==
    /\ Heeded(f)
    /\ f.broken \in BOOLEAN
    /\ f.broken => subject = "transit"
    /\ ~f.broken => DOMAIN f.got = ToSet(Parts(subject, f.config))

\* What a fetch comes to is a value or a failure.
LEMMA OutcomeIsResult ==
    ASSUME NEW f, subject \in Integrations
    PROVE  IsResult(Outcome(f))
<1>1. \A a, b, c : IsResult(AgendaOf(a, b, c))
  BY ResultsAre DEF AgendaOf
<1>2. \A a, b, c : IsResult(RadarOf(a, b, c))
  BY ResultsAre DEF RadarOf
<1>3. \A a, b : IsResult(SummaryOf(a, b))
  BY ResultsAre DEF SummaryOf
<1>4. \A a : IsResult(ClaudeOf(a)) /\ IsResult(CodexOf(a)) /\ IsResult(HealthOf(a))
  BY ResultsAre DEF ClaudeOf, CodexOf, HealthOf
<1>5. \A a, b : IsResult(NetworkOf(a, b)) /\ IsResult(parse_forecast(a, b))
  BY ResultsAre DEF NetworkOf, parse_forecast
<1>6. \A a, b, c : IsResult(CurrentReading(a, b, c)) /\ IsResult(HistoryOf(a, b, c))
  BY ResultsAre DEF CurrentReading, HistoryOf
<1> QED BY <1>1, <1>2, <1>3, <1>4, <1>5, <1>6, ResultsAre
        DEF Outcome, Integrations, ByCommand

LEMMA PartsAre ==
    ASSUME NEW f, WellAsked(f), subject \in Subjects, subject \in Integrations
    PROVE  /\ IsList(Parts(subject, f.config))
           /\ \A part \in DOMAIN f.got :
                Said(f, part) # None => WellFormed(subject, part, Said(f, part))
<1>1. f.config \in Configs(subject) /\ subject \in Subjects \cap Integrations
  BY DEF WellAsked, Heeded
<1>2. ASSUME NEW part \in DOMAIN f.got
      PROVE  part \in ToSet(Parts(subject, f.config)) /\ f.got[part] \in Answers(subject, part)
  BY DEF WellAsked, Heeded
<1> QED BY <1>1, <1>2, SubjectsAssumption DEF SubjectsAssumption, Said

LEMMA AgendaTold ==
    ASSUME NEW f, WellAsked(f), subject = "agenda", subject \in Subjects
    PROVE  Outcome(f).is = "ready" <=> ToldWell(f)
<1> DEFINE accounts == f.config.accounts
           heard == {i \in DOMAIN accounts : AllSaid(f)[accounts[i]] # None}
           answered == Only(accounts, heard)
<1>1. Parts(subject, f.config) = accounts /\ subject \in Integrations
  BY DEF Parts, Integrations, ByCommand
<1>2. IsList(accounts)
  BY <1>1, PartsAre
<1>3. ToSet(accounts) = DOMAIN f.got
  BY <1>1 DEF WellAsked
<1>4. \A part \in DOMAIN f.got : AllSaid(f)[part] = Said(f, part)
  BY DEF AllSaid
<1>5. answered = << >> <=> heard = {}
  <2>1. heard \in SUBSET Nat /\ IsFiniteSet(heard)
    <3>1. heard \in SUBSET DOMAIN accounts
      OBVIOUS
    <3> HIDE DEF heard
    <3> QED BY <1>2, <3>1, IndicesAre
  <2> HIDE DEF heard
  <2> QED BY <2>1, OnlyHas
<1>6. Outcome(f) = AgendaOf(accounts, AllSaid(f), f.at)
  BY DEF Outcome
<1>7. Outcome(f).is = "ready" <=> answered # << >>
  <2>1. AgendaOf(accounts, AllSaid(f), f.at).is = "ready" <=> answered # << >>
    BY DEF AgendaOf, Ready, Failed
  <2> QED BY <1>6, <2>1
<1>8. heard # {} <=> \E a \in DOMAIN f.got : Said(f, a) # None
  BY <1>3, <1>4 DEF ToSet
<1>9. ToldWell(f) <=> \E a \in DOMAIN f.got : Said(f, a) # None
  BY DEF ToldWell
<1> QED BY <1>5, <1>7, <1>8, <1>9

\* The runs of a list are its own if the answer is not spoiled.
LEMMA OwnIs ==
    ASSUME NEW r, NEW runs, IsList(runs)
    PROVE  /\ ~Spoiled(r, runs) <=> Own(r, runs)
           /\ DOMAIN Take(runs, 10) = {i \in DOMAIN runs : i <= 10}
           /\ \A i \in DOMAIN Take(runs, 10) : Take(runs, 10)[i] = runs[i]
<1>1. runs \in Seq(ToSet(runs)) /\ 10 \in Nat
  BY DEF IsList
<1>2. Take(runs, 10) = [i \in 1..(IF 10 < Len(runs) THEN 10 ELSE Len(runs)) |-> runs[i]]
  BY <1>1, TakeIs
<1>3. DOMAIN runs = 1..Len(runs) /\ Len(runs) \in Nat
  BY <1>1
<1>4. DOMAIN Take(runs, 10) = {i \in DOMAIN runs : i <= 10}
  <2> DEFINE k == IF 10 < Len(runs) THEN 10 ELSE Len(runs)
  <2>1. DOMAIN Take(runs, 10) = 1..k
    BY <1>2
  <2>2. 1..k = {i \in 1..Len(runs) : i <= 10}
    BY <1>3
  <2> QED BY <1>3, <2>1, <2>2
<1>5. ~Spoiled(r, runs) <=> Own(r, runs)
  BY <1>4 DEF Spoiled, Own
<1> QED BY <1>2, <1>4, <1>5

LEMMA RadarTold ==
    ASSUME NEW f, WellAsked(f), subject = "radar", subject \in Subjects
    PROVE  Outcome(f).is = "ready" <=> ToldWell(f)
<1> DEFINE repositories == f.config.repositories
           got == AllSaid(f)
           fine == {i \in DOMAIN f.order : got[f.order[i]] # None /\ ~Spoiled(f.order[i], got[f.order[i]])}
           good == Only(f.order, fine)
<1>1. Parts(subject, f.config) = repositories /\ subject \in Integrations
  BY DEF Parts, Integrations, ByCommand
<1>2. IsList(repositories) /\ IsList(f.order)
  BY <1>1, PartsAre DEF WellAsked, Heeded
<1>3. ToSet(repositories) = DOMAIN f.got /\ ToSet(f.order) = DOMAIN f.got
  BY <1>1 DEF WellAsked, Heeded
<1>4. \A part \in DOMAIN f.got : got[part] = Said(f, part)
  BY DEF AllSaid
<1>5. good = << >> <=> fine = {}
  <2>1. fine \in SUBSET Nat /\ IsFiniteSet(fine)
    <3>1. fine \in SUBSET DOMAIN f.order
      OBVIOUS
    <3> HIDE DEF fine
    <3> QED BY <1>2, <3>1, IndicesAre
  <2> HIDE DEF fine
  <2> QED BY <2>1, OnlyHas
<1>6. Outcome(f) = RadarOf(repositories, got, f.order)
  BY DEF Outcome
<1>7. Outcome(f).is = "ready" <=> good # << >> \/ repositories = << >>
  <2>1. RadarOf(repositories, got, f.order).is = "ready" <=> good # << >> \/ repositories = << >>
    BY DEF RadarOf, Ready, Failed
  <2> QED BY <1>6, <2>1
<1>8. repositories = << >> <=> DOMAIN f.got = {}
  BY <1>2, <1>3, EmptyIs
<1>9. \A r \in DOMAIN f.got : Said(f, r) # None => IsList(Said(f, r))
  BY <1>1, PartsAre DEF WellFormed
<1>10. fine # {} <=> \E r \in DOMAIN f.got : Said(f, r) # None /\ Own(r, Said(f, r))
  <2>1. fine # {} <=> \E r \in DOMAIN f.got : got[r] # None /\ ~Spoiled(r, got[r])
    <3>1. fine # {} <=> \E i \in DOMAIN f.order : got[f.order[i]] # None /\ ~Spoiled(f.order[i], got[f.order[i]])
      OBVIOUS
    <3> HIDE DEF fine, got
    <3> QED BY <1>3, <3>1 DEF ToSet
  <2> HIDE DEF fine, got
  <2> QED BY <2>1, <1>4, <1>9, OwnIs
<1>11. ToldWell(f) <=> \/ DOMAIN f.got = {}
                       \/ \E r \in DOMAIN f.got : Said(f, r) # None /\ Own(r, Said(f, r))
  BY DEF ToldWell
<1> HIDE DEF good, fine, repositories
<1> QED BY <1>5, <1>7, <1>8, <1>10, <1>11

\* Everything that is not of several parts needs all of them.
LEMMA AllTold ==
    ASSUME NEW f, WellAsked(f), subject \in Subjects,
           subject \in Integrations \ {"agenda", "radar", "transit"}
    PROVE  /\ Outcome(f).is = "ready" => ToldWell(f)
           /\ subject \in {"github", "network"} /\ ToldWell(f) => Outcome(f).is = "ready"
<1>1. ToldWell(f) <=> \A part \in DOMAIN f.got : Said(f, part) # None
  BY DEF ToldWell
<1>2. DOMAIN f.got = ToSet(Parts(subject, f.config))
  BY DEF WellAsked
<1>3. \A part \in DOMAIN f.got : AllSaid(f)[part] = Said(f, part)
  BY DEF AllSaid
<1>4. CASE subject = "github"
  <2>1. DOMAIN f.got = Metrics
    <3>1. Parts(subject, f.config) = << "Inbox", "Reviews", "Prs", "Assigned" >>
      BY <1>4 DEF Parts
    <3> QED BY <1>2, <3>1 DEF ToSet, Metrics
  <2>2. Outcome(f) = SummaryOf(f.config.limit, AllSaid(f))
    BY <1>4 DEF Outcome
  <2>3. SummaryOf(f.config.limit, AllSaid(f)).is = "ready" <=> \A m \in Metrics : AllSaid(f)[m] # None
    BY DEF SummaryOf, Ready, Failed
  <2> QED BY <1>1, <1>3, <2>1, <2>2, <2>3
<1>5. CASE subject = "network"
  <2>1. DOMAIN f.got = {"nwi", "vpns"}
    <3>1. Parts(subject, f.config) = << "nwi", "vpns" >>
      BY <1>5 DEF Parts
    <3> QED BY <1>2, <3>1 DEF ToSet
  <2>2. Outcome(f) = NetworkOf(f.config.vpn, AllSaid(f))
    BY <1>5 DEF Outcome
  <2>3. NetworkOf(f.config.vpn, AllSaid(f)).is = "ready" <=>
            AllSaid(f)["nwi"] # None /\ AllSaid(f)["vpns"] # None
    BY DEF NetworkOf, Ready, Failed
  <2> QED BY <1>1, <1>3, <2>1, <2>2, <2>3
<1>6. CASE subject = "health"
  <2>1. DOMAIN f.got = {"pmset", "memory"}
    <3>1. Parts(subject, f.config) = << "pmset", "memory" >>
      BY <1>6 DEF Parts
    <3> QED BY <1>2, <3>1 DEF ToSet
  <2>2. Outcome(f) = HealthOf(AllSaid(f))
    BY <1>6 DEF Outcome
  <2>3. HealthOf(AllSaid(f)).is = "ready" => AllSaid(f)["pmset"] # None /\ AllSaid(f)["memory"] # None
    BY DEF HealthOf, Ready, Failed
  <2> QED BY <1>1, <1>3, <1>6, <2>1, <2>2, <2>3
<1>7. CASE subject \in {"claude", "codex", "forecast", "lake", "history"}
  <2>1. DOMAIN f.got = {"http"}
    <3>1. Parts(subject, f.config) = << "http" >>
      BY <1>7 DEF Parts
    <3> QED BY <1>2, <3>1 DEF ToSet
  <2> DEFINE said == AllSaid(f)["http"]
  <2>2. said = None => Outcome(f) = Failed
    <3>1. CASE subject \in {"claude", "codex"}
      BY <3>1 DEF Outcome, ClaudeOf, CodexOf
    <3>2. CASE subject = "forecast"
      <4>1. Outcome(f) = parse_forecast(f.config.place, said)
        BY <3>2 DEF Outcome
      <4>2. said = None => parse_forecast(f.config.place, said) = Failed
        BY DEF parse_forecast
      <4> QED BY <4>1, <4>2
    <3>3. CASE subject = "lake"
      <4>1. Outcome(f) = CurrentReading(f.config.lake, said, f.at)
        BY <3>3 DEF Outcome
      <4>2. said = None => CurrentReading(f.config.lake, said, f.at) = Failed
        BY DEF CurrentReading
      <4> QED BY <4>1, <4>2
    <3>4. CASE subject = "history"
      <4>1. Outcome(f) = HistoryOf(f.config.lake, said, f.at)
        BY <3>4 DEF Outcome
      <4>2. said = None => HistoryOf(f.config.lake, said, f.at) = Failed
        BY DEF HistoryOf, ReadingsOf
      <4> QED BY <4>1, <4>2
    <3> QED BY <1>7, <3>1, <3>2, <3>3, <3>4
  <2>3. Outcome(f).is = "ready" => said # None
    BY <2>2 DEF Failed
  <2> HIDE DEF said
  <2> QED BY <1>1, <1>3, <1>7, <2>1, <2>3 DEF said
<1> QED BY <1>4, <1>5, <1>6, <1>7 DEF Integrations, ByCommand

\* What a fetch comes to says what it was told.
LEMMA OutcomeTells ==
    ASSUME NEW f, WellAsked(f), subject \in Subjects, subject \in Integrations
    PROVE  /\ Outcome(f).is = "ready" => ToldWell(f)
           /\ Outcome(f).is # "ready" /\ subject \in ByCommand \ {"health"} => ~ToldWell(f)
           /\ Outcome(f).is # "ready" /\ subject = "transit" => f.broken
<1>1. CASE subject = "transit"
  <2>1. Outcome(f).is = "ready" <=> ~f.broken
    <3>1. f.broken => Outcome(f) = Failed
      BY <1>1 DEF Outcome
    <3>2. ~f.broken => \E v : Outcome(f) = Ready(v)
      BY <1>1 DEF Outcome
    <3> QED BY <3>1, <3>2 DEF Ready, Failed
  <2>2. ToldWell(f) <=> ~f.broken
    BY <1>1 DEF ToldWell
  <2>3. subject \notin ByCommand
    BY <1>1 DEF ByCommand
  <2> QED BY <2>1, <2>2, <2>3
<1>2. CASE subject # "transit"
  <2>1. CASE subject = "agenda"
    BY <2>1, AgendaTold
  <2>2. CASE subject = "radar"
    BY <2>2, RadarTold
  <2>3. CASE subject \notin {"agenda", "radar"}
    <3>1. subject \in ByCommand \ {"health"} => subject \in {"github", "network"}
      BY <2>3 DEF ByCommand
    <3> QED BY <1>2, <2>3, <3>1, AllTold
  <2> QED BY <1>2, <2>1, <2>2, <2>3
<1> QED BY <1>1, <1>2

-----------------------------------------------------------------------------
(* Glances: the invariant.  A value is what its fetch makes of its answers. *)

\* The fetch under way: what it was told so far, and what it may yet say of itself.
FetchIs ==
    /\ DOMAIN fetch = {"config", "at", "conditional", "got", "order", "step", "retried",
                       "fresh", "broken", "excused"}
    /\ fetch.step \in {"token", "stop"}
    /\ Heeded(fetch)
    /\ fetch.broken \in BOOLEAN
    /\ fetch.broken => subject = "transit" /\ fetch.excused
    /\ HasValue(feed) \/ fetch.conditional = FALSE
    /\ \A part \in DOMAIN fetch.got :
        subject = "forecast" /\ fetch.got[part].status = 304 => HasValue(feed)
    /\ subject = "transit" /\ fetch.retried =>
            /\ fetch.step = "token" => token = None
            /\ fetch.step = "stop" => fetch.fresh

\* The subject and what is about it.
SubjectIs ==
    /\ subject \in Subjects
    /\ config \in Configs(subject)
    /\ now \in Instants(subject)

\* The value of the feed is what the fetch that it came from was told.
ValueIs ==
    /\ feed.is \in {"loading", "ready", "stale", "failed"}
    /\ HasValue(feed) \/ modified = FALSE
    /\ HasValue(feed) /\ subject \in Integrations =>
            WellAsked(origin) /\ ~origin.broken /\ Outcome(origin) = Ready(feed.value)

GlanceInv ==
    /\ SubjectIs
    /\ fetch # NoFetch => FetchIs
    /\ ValueIs
    /\ MarksAreHonest

\* Times are numbers.
LEMMA TimesAre ==
    ASSUME SubjectIs
    PROVE  now \in Nat /\ Instants(subject) \subseteq Nat
BY GlancesAssumption DEF GlancesAssumption, SubjectIs

LEMMA GlanceInvInit == GlancesInit => GlanceInv
<1> SUFFICES ASSUME GlancesInit PROVE GlanceInv
  OBVIOUS
<1> USE DEF GlancesInit
<1>1. SubjectIs
  <2>1. Instants(subject) \in SUBSET Nat /\ Instants(subject) # {}
    BY GlancesAssumption DEF GlancesAssumption
  <2>2. Min(Instants(subject)) \in Instants(subject)
    BY <2>1, LeastExists
  <2> QED BY <2>2 DEF SubjectIs
<1>2. ValueIs
  BY DEF ValueIs, Loading, HasValue
<1>3. MarksAreHonest
  BY DEF MarksAreHonest, Loading
<1> QED BY <1>1, <1>2, <1>3 DEF GlanceInv

\* What says nothing new of the fetches that are over, or of the feed.
LEMMA FeedStays ==
    ASSUME ValueIs, MarksAreHonest,
           UNCHANGED << subject, feed, modified, latest, origin >>
    PROVE  ValueIs' /\ MarksAreHonest'
<1>1. subject' = subject /\ feed' = feed /\ modified' = modified /\ latest' = latest /\ origin' = origin
  OBVIOUS
<1>2. Outcome(origin)' = Outcome(origin)
  BY <1>1 DEF Outcome, AllSaid, Said
<1>3. WellAsked(origin)' = WellAsked(origin)
  BY <1>1 DEF WellAsked, Heeded, Said
<1>4. ToldWell(latest)' = ToldWell(latest)
  BY <1>1 DEF ToldWell, Said
<1>5. NotModified(latest)' = NotModified(latest)
  BY <1>1 DEF NotModified
<1>6. HasValue(feed)' = HasValue(feed)
  BY <1>1
<1>7. ValueIs'
  BY <1>1, <1>2, <1>3, <1>6 DEF ValueIs
<1>8. MarksAreHonest'
  BY <1>1, <1>4, <1>5 DEF MarksAreHonest
<1> QED BY <1>7, <1>8

LEMMA HeededStays ==
    ASSUME FetchIs, fetch' = fetch, UNCHANGED << subject, feed >>
    PROVE  Heeded(fetch)'
BY DEF FetchIs, Heeded, Said

LEMMA StartKeeps == GlanceInv /\ StartFetch => GlanceInv'
<1> SUFFICES ASSUME GlanceInv, StartFetch PROVE GlanceInv'
  OBVIOUS
<1>1. UNCHANGED << subject, config, now, feed, token, modified, latest, origin >>
  BY DEF StartFetch
<1>2. SubjectIs'
  BY <1>1 DEF GlanceInv, SubjectIs
<1>3. ValueIs' /\ MarksAreHonest'
  BY <1>1, FeedStays DEF GlanceInv
<1>4. FetchIs'
  <2>1. fetch' = [config |-> config, at |-> now, conditional |-> modified,
                 got |-> << >>, order |-> << >>,
                 step |-> "token", retried |-> FALSE, fresh |-> FALSE,
                 broken |-> FALSE, excused |-> FALSE]
    BY DEF StartFetch
  <2>2. Heeded(fetch)'
    <3>1. config \in Configs(subject) /\ now \in Nat
      BY TimesAre DEF GlanceInv, SubjectIs
    <3>2. DOMAIN << >> = {} /\ IsList(<< >>) /\ ToSet(<< >>) = {}
      BY DEF IsList, ToSet
    <3> QED BY <1>1, <2>1, <3>1, <3>2 DEF Heeded
  <2>3. HasValue(feed') \/ modified = FALSE
    BY <1>1 DEF GlanceInv, ValueIs, HasValue
  <2> QED BY <1>1, <2>1, <2>2, <2>3 DEF FetchIs, HasValue
<1> QED BY <1>2, <1>3, <1>4 DEF GlanceInv

\* An answer to one of its parts.
LEMMA AnsweredIs ==
    ASSUME FetchIs, NEW part, NEW answer,
           part \in ToSet(Parts(subject, fetch.config)), answer \in Answers(subject, part),
           subject = "transit" => Heard(subject, answer) # None,
           fetch' = Answered(part, answer), UNCHANGED subject
    PROVE  /\ Heeded(fetch)'
           /\ DOMAIN fetch' = DOMAIN fetch
           /\ DOMAIN fetch'.got = DOMAIN fetch.got \cup {part}
           /\ \A p \in DOMAIN fetch'.got :
                fetch'.got[p] = IF p = part THEN answer ELSE fetch.got[p]
           /\ fetch'.step = "token" /\ fetch'.retried = FALSE /\ fetch'.fresh = FALSE
           /\ fetch'.broken = fetch.broken /\ fetch'.excused = fetch.excused
           /\ fetch'.conditional = fetch.conditional /\ fetch'.config = fetch.config
<1> DEFINE got == [p \in DOMAIN fetch.got \cup {part} |-> IF p = part THEN answer ELSE fetch.got[p]]
<1>1. /\ DOMAIN fetch' = DOMAIN fetch
      /\ fetch'.got = got /\ fetch'.order = Append(fetch.order, part)
      /\ fetch'.step = "token" /\ fetch'.retried = FALSE /\ fetch'.fresh = FALSE
      /\ fetch'.broken = fetch.broken /\ fetch'.excused = fetch.excused
      /\ fetch'.conditional = fetch.conditional /\ fetch'.config = fetch.config
      /\ fetch'.at = fetch.at
  BY DEF Answered, FetchIs
<1>2. DOMAIN got = DOMAIN fetch.got \cup {part}
      /\ \A p \in DOMAIN got : got[p] = IF p = part THEN answer ELSE fetch.got[p]
  OBVIOUS
<1> HIDE DEF got
<1>3. Heeded(fetch)
  BY DEF FetchIs
<1>4. IsList(Append(fetch.order, part))
      /\ ToSet(Append(fetch.order, part)) = DOMAIN fetch.got \cup {part}
  <2>1. fetch.order \in Seq(DOMAIN fetch.got) /\ ToSet(fetch.order) = DOMAIN fetch.got
    BY <1>3 DEF Heeded, IsList
  <2> DEFINE s == fetch.order
             t == Append(s, part)
  <2>2. /\ DOMAIN s = 1..Len(s) /\ Len(s) \in Nat /\ DOMAIN t = 1..Len(s) + 1
        /\ \A i \in 1..Len(s) : t[i] = s[i]
        /\ t[Len(s) + 1] = part
        /\ t \in Seq(DOMAIN fetch.got \cup {part})
    BY <2>1
  <2> HIDE DEF t, s
  <2>3. ToSet(t) = ToSet(s) \cup {part}
    <3>1. ASSUME NEW i \in DOMAIN t PROVE t[i] \in ToSet(s) \cup {part}
      <4>1. i \in 1..Len(s) \/ i = Len(s) + 1
        BY <2>2
      <4> QED BY <2>2, <4>1 DEF ToSet
    <3>2. ToSet(s) \subseteq ToSet(t)
      <4>1. \A i \in DOMAIN s : i \in DOMAIN t /\ t[i] = s[i]
        BY <2>2
      <4> QED BY <4>1 DEF ToSet
    <3>3. part \in ToSet(t)
      <4>1. Len(s) + 1 \in DOMAIN t
        BY <2>2
      <4> QED BY <2>2, <4>1 DEF ToSet
    <3> QED BY <3>1, <3>2, <3>3 DEF ToSet
  <2> QED BY <2>1, <2>2, <2>3 DEF IsList, t, s
<1>5. Heeded(fetch)'
  <2>1. \A p \in DOMAIN fetch'.got : p \in DOMAIN fetch.got \/ p = part
    BY <1>1, <1>2
  <2>2. fetch'.config \in Configs(subject') /\ fetch'.at \in Nat
    BY <1>1, <1>3 DEF Heeded
  <2>3. DOMAIN fetch'.got \subseteq ToSet(Parts(subject', fetch'.config))
    BY <1>1, <1>2, <1>3 DEF Heeded
  <2>4. ASSUME NEW p \in DOMAIN fetch'.got
        PROVE  /\ fetch'.got[p] \in Answers(subject', p)
               /\ subject' = "transit" => Heard(subject', fetch'.got[p]) # None
    BY <1>1, <1>2, <1>3 DEF Heeded, Said
  <2>5. IsList(fetch'.order) /\ ToSet(fetch'.order) = DOMAIN fetch'.got
    BY <1>1, <1>2, <1>4
  <2> QED BY <2>2, <2>3, <2>4, <2>5 DEF Heeded, Said
<1> QED BY <1>1, <1>2, <1>5

LEMMA NextPartsAre ==
    ASSUME NEW part \in NextParts
    PROVE  part \in ToSet(Parts(subject, fetch.config))
BY DEF NextParts, Pending, ToSet

LEMMA AnswerKeeps == GlanceInv /\ AnswerComes => GlanceInv'
<1> SUFFICES ASSUME GlanceInv, AnswerComes PROVE GlanceInv'
  OBVIOUS
<1>1. UNCHANGED << subject, config, now, feed, token, modified, latest, origin >>
  BY DEF AnswerComes, untouched
<1>2. SubjectIs'
  BY <1>1 DEF GlanceInv, SubjectIs
<1>3. ValueIs' /\ MarksAreHonest'
  BY <1>1, FeedStays DEF GlanceInv
<1>4. FetchIs'
  <2>1. PICK part \in NextParts : \E answer \in Answers(subject, part) :
            /\ subject \notin ByCommand /\ answer.status = 304 => fetch.conditional
            /\ fetch' = Answered(part, answer)
    BY DEF AnswerComes
  <2>a. PICK answer \in Answers(subject, part) :
            /\ subject \notin ByCommand /\ answer.status = 304 => fetch.conditional
            /\ fetch' = Answered(part, answer)
    BY <2>1
  <2>2. FetchIs /\ subject # "transit"
    BY DEF AnswerComes, GlanceInv
  <2>3. /\ Heeded(fetch)'
        /\ DOMAIN fetch' = DOMAIN fetch
        /\ DOMAIN fetch'.got = DOMAIN fetch.got \cup {part}
        /\ \A p \in DOMAIN fetch'.got :
                fetch'.got[p] = IF p = part THEN answer ELSE fetch.got[p]
        /\ fetch'.step = "token"
        /\ fetch'.broken = fetch.broken /\ fetch'.excused = fetch.excused
        /\ fetch'.conditional = fetch.conditional
    <3>1. part \in ToSet(Parts(subject, fetch.config)) /\ answer \in Answers(subject, part)
      BY NextPartsAre
    <3>2. FetchIs /\ fetch' = Answered(part, answer) /\ UNCHANGED subject
      BY <1>1, <2>a, <2>2
    <3>3. subject = "transit" => Heard(subject, answer) # None
      BY <2>2
    <3> QED BY <3>1, <3>2, <3>3, AnsweredIs
  <2>4. subject = "forecast" /\ answer.status = 304 => HasValue(feed)
    <3>1. "forecast" \notin ByCommand
      BY DEF ByCommand
    <3> QED BY <2>a, <2>2, <3>1 DEF FetchIs
  <2>5. \A p \in DOMAIN fetch'.got :
            subject = "forecast" /\ fetch'.got[p].status = 304 => HasValue(feed)
    BY <2>2, <2>3, <2>4 DEF FetchIs
  <2>6. HasValue(feed) = HasValue(feed')
    BY <1>1 
  <2> QED BY <1>1, <2>2, <2>3, <2>5, <2>6 DEF FetchIs
<1> QED BY <1>2, <1>3, <1>4 DEF GlanceInv

\* The fetch under way stays what it is.
LEMMA FetchStays ==
    ASSUME FetchIs, UNCHANGED << subject, feed, fetch >>, subject = "transit" => token' = token \/ token # None
    PROVE  FetchIs'
<1>1. Heeded(fetch)'
  BY HeededStays
<1>2. HasValue(feed)' = HasValue(feed)
  OBVIOUS
<1>3. fetch' = fetch /\ subject' = subject
  OBVIOUS
<1>4. subject = "transit" /\ fetch.retried =>
            /\ fetch.step = "token" => token' = None
            /\ fetch.step = "stop" => fetch.fresh
  BY DEF FetchIs
<1> QED BY <1>1, <1>2, <1>3, <1>4 DEF FetchIs

\* Those steps of a fetch of the departures that answer nothing.
LEMMA StepKeeps ==
    ASSUME FetchIs, subject' = subject, feed' = feed, subject = "transit",
           DOMAIN fetch' = DOMAIN fetch,
           fetch'.config = fetch.config, fetch'.at = fetch.at, fetch'.got = fetch.got,
           fetch'.order = fetch.order, fetch'.conditional = fetch.conditional,
           fetch'.step \in {"token", "stop"}, fetch'.broken \in BOOLEAN,
           fetch'.broken => fetch'.excused,
           fetch'.retried /\ fetch'.step = "token" => token' = None,
           fetch'.retried /\ fetch'.step = "stop" => fetch'.fresh
    PROVE  FetchIs'
<1>1. Heeded(fetch)'
  <2>1. Heeded(fetch)
    BY DEF FetchIs
  <2> QED BY <2>1 DEF Heeded, Said
<1>2. HasValue(feed)' = HasValue(feed)
  OBVIOUS
<1> QED BY <1>1, <1>2 DEF FetchIs

LEMMA AskingIs ==
    ASSUME GlanceInv, NEW step, Asking(step)
    PROVE  FetchIs /\ subject = "transit" /\ fetch.step = step /\ fetch.broken = FALSE
BY DEF Asking, GlanceInv, FetchIs

LEMMA UseKeeps == GlanceInv /\ UseToken => GlanceInv'
<1> SUFFICES ASSUME GlanceInv, UseToken PROVE GlanceInv'
  OBVIOUS
<1>1. UNCHANGED << subject, config, now, feed, token, modified, latest, origin >>
  BY DEF UseToken, untouched
<1>2. SubjectIs' /\ ValueIs' /\ MarksAreHonest'
  BY <1>1, FeedStays DEF GlanceInv, SubjectIs
<1>3. FetchIs'
  <2>1. FetchIs /\ subject = "transit" /\ fetch.step = "token" /\ fetch.broken = FALSE
    BY AskingIs DEF UseToken
  <2>2. token # None /\ fetch' = [fetch EXCEPT !.step = "stop"]
    BY DEF UseToken, Usable
  <2>3. ~fetch.retried
    BY <2>1, <2>2 DEF FetchIs
  <2>4. /\ DOMAIN fetch' = DOMAIN fetch
        /\ fetch'.config = fetch.config /\ fetch'.at = fetch.at /\ fetch'.got = fetch.got
        /\ fetch'.order = fetch.order /\ fetch'.conditional = fetch.conditional
        /\ fetch'.step = "stop" /\ fetch'.broken = FALSE /\ fetch'.retried = fetch.retried
    BY <2>1, <2>2 DEF FetchIs
  <2> QED BY <1>1, <2>1, <2>3, <2>4, StepKeeps
<1> QED BY <1>2, <1>3 DEF GlanceInv

LEMMA AskTokenKeeps == GlanceInv /\ AskToken => GlanceInv'
<1> SUFFICES ASSUME GlanceInv, AskToken PROVE GlanceInv'
  OBVIOUS
<1>1. UNCHANGED << subject, config, now, feed, modified, latest, origin >>
  BY DEF AskToken, untouched
<1>2. SubjectIs' /\ ValueIs' /\ MarksAreHonest'
  BY <1>1, FeedStays DEF GlanceInv, SubjectIs
<1>3. FetchIs /\ subject = "transit" /\ fetch.step = "token" /\ fetch.broken = FALSE
  BY AskingIs DEF AskToken
<1>4. \/ fetch' = [fetch EXCEPT !.step = "stop", !.fresh = TRUE]
      \/ fetch' = [fetch EXCEPT !.broken = TRUE, !.excused = TRUE] /\ token' = token
  BY DEF AskToken
<1>5. FetchIs'
  <2>1. CASE fetch' = [fetch EXCEPT !.step = "stop", !.fresh = TRUE]
    <3>1. /\ DOMAIN fetch' = DOMAIN fetch
          /\ fetch'.config = fetch.config /\ fetch'.at = fetch.at /\ fetch'.got = fetch.got
          /\ fetch'.order = fetch.order /\ fetch'.conditional = fetch.conditional
          /\ fetch'.step = "stop" /\ fetch'.broken = FALSE /\ fetch'.fresh
      BY <1>3, <2>1 DEF FetchIs
    <3> QED BY <1>1, <1>3, <3>1, StepKeeps
  <2>2. CASE fetch' = [fetch EXCEPT !.broken = TRUE, !.excused = TRUE] /\ token' = token
    <3>1. /\ DOMAIN fetch' = DOMAIN fetch
          /\ fetch'.config = fetch.config /\ fetch'.at = fetch.at /\ fetch'.got = fetch.got
          /\ fetch'.order = fetch.order /\ fetch'.conditional = fetch.conditional
          /\ fetch'.step = "token" /\ fetch'.broken = TRUE /\ fetch'.excused
          /\ fetch'.retried = fetch.retried
      BY <1>3, <2>2 DEF FetchIs
    <3>2. fetch.retried => token' = None
      BY <1>3, <2>2 DEF FetchIs
    <3> QED BY <1>1, <1>3, <3>1, <3>2, StepKeeps
  <2> QED BY <1>4, <2>1, <2>2
<1> QED BY <1>2, <1>5 DEF GlanceInv

\* A rejection is no text, and it says why.
LEMMA RejectionIs ==
    Get(Rejection).is = "error" /\ Get(Rejection).why = "Unauthorized" /\ TextOf(Rejection) = None
<1>1. Get(Rejection) = Refused("Unauthorized")
  BY DEF Get, Dispatched, Rejection, Refused, NoAnswer
<1> QED BY <1>1 DEF TextOf, Refused

LEMMA AskStopKeeps == GlanceInv /\ AskStop => GlanceInv'
<1> SUFFICES ASSUME GlanceInv, AskStop PROVE GlanceInv'
  OBVIOUS
<1>1. UNCHANGED << subject, config, now, feed, modified, latest, origin >>
  BY DEF AskStop, untouched
<1>2. SubjectIs' /\ ValueIs' /\ MarksAreHonest'
  BY <1>1, FeedStays DEF GlanceInv, SubjectIs
<1>3. FetchIs /\ subject = "transit" /\ fetch.step = "stop" /\ fetch.broken = FALSE
  BY AskingIs DEF AskStop
<1> DEFINE again(got) == got.is = "error" /\ got.why = "Unauthorized" /\ ~fetch.retried
<1>4. PICK part \in NextParts :
        \E answer \in IF token.accepted THEN Answers(subject, part) ELSE {Rejection} :
            IF again(Get(answer))
              THEN /\ token' = Dropped
                   /\ fetch' = [fetch EXCEPT !.step = "token", !.retried = TRUE, !.fresh = FALSE]
              ELSE /\ fetch' = IF TextOf(answer) # None
                                 THEN Answered(part, answer)
                                 ELSE [fetch EXCEPT !.broken = TRUE,
                                                    !.excused = fetch.fresh \/ token.accepted]
                   /\ UNCHANGED token
  BY DEF AskStop
<1>5. PICK answer \in IF token.accepted THEN Answers(subject, part) ELSE {Rejection} :
            IF again(Get(answer))
              THEN /\ token' = Dropped
                   /\ fetch' = [fetch EXCEPT !.step = "token", !.retried = TRUE, !.fresh = FALSE]
              ELSE /\ fetch' = IF TextOf(answer) # None
                                 THEN Answered(part, answer)
                                 ELSE [fetch EXCEPT !.broken = TRUE,
                                                    !.excused = fetch.fresh \/ token.accepted]
                   /\ UNCHANGED token
  BY <1>4
<1>6. ~token.accepted => answer = Rejection
  OBVIOUS
<1>7. FetchIs'
  <2>1. CASE again(Get(answer))
    <3>1. token' = None /\ fetch' = [fetch EXCEPT !.step = "token", !.retried = TRUE, !.fresh = FALSE]
      BY <1>5, <2>1 DEF Dropped
    <3>2. /\ DOMAIN fetch' = DOMAIN fetch
          /\ fetch'.config = fetch.config /\ fetch'.at = fetch.at /\ fetch'.got = fetch.got
          /\ fetch'.order = fetch.order /\ fetch'.conditional = fetch.conditional
          /\ fetch'.step = "token" /\ fetch'.broken = FALSE
      BY <1>3, <3>1 DEF FetchIs
    <3> QED BY <1>1, <1>3, <3>1, <3>2, StepKeeps
  <2>2. CASE ~again(Get(answer)) /\ TextOf(answer) # None
    <3>1. fetch' = Answered(part, answer)
      BY <1>5, <2>2
    <3>2. answer \in Answers(subject, part)
      BY <2>2, <1>6, RejectionIs
    <3>3. part \in ToSet(Parts(subject, fetch.config))
      BY NextPartsAre
    <3>4. Heard(subject, answer) # None
      BY <1>3, <2>2 DEF Heard, ByCommand
    <3>5. UNCHANGED subject
      BY <1>1
    <3>6. /\ Heeded(fetch)'
           /\ DOMAIN fetch' = DOMAIN fetch
           /\ fetch'.step = "token" /\ fetch'.retried = FALSE
           /\ fetch'.broken = fetch.broken
           /\ fetch'.conditional = fetch.conditional
      BY <1>3, <3>1, <3>2, <3>3, <3>4, <3>5, AnsweredIs
    <3>7. HasValue(feed)' = HasValue(feed)
      BY <1>1
    <3> QED BY <1>1, <1>3, <3>6, <3>7 DEF FetchIs
  <2>3. CASE ~again(Get(answer)) /\ ~(TextOf(answer) # None)
    <3>1. fetch' = [fetch EXCEPT !.broken = TRUE, !.excused = fetch.fresh \/ token.accepted]
          /\ token' = token
      BY <1>5, <2>3
    <3>2. fetch.fresh \/ token.accepted
      <4>1. CASE token.accepted
        BY <4>1
      <4>2. CASE ~token.accepted
        <5>1. fetch.retried
          BY <1>6, <2>3, <4>2, RejectionIs
        <5> QED BY <1>3, <5>1 DEF FetchIs
      <4> QED BY <4>1, <4>2
    <3>3. /\ DOMAIN fetch' = DOMAIN fetch
          /\ fetch'.config = fetch.config /\ fetch'.at = fetch.at /\ fetch'.got = fetch.got
          /\ fetch'.order = fetch.order /\ fetch'.conditional = fetch.conditional
          /\ fetch'.step = "stop" /\ fetch'.broken = TRUE
          /\ fetch'.excused = (fetch.fresh \/ token.accepted)
          /\ fetch'.retried = fetch.retried /\ fetch'.fresh = fetch.fresh
      BY <1>3, <3>1 DEF FetchIs
    <3>4. fetch.retried => fetch.fresh
      BY <1>3 DEF FetchIs
    <3> QED BY <1>1, <1>3, <3>2, <3>3, <3>4, StepKeeps
  <2> QED BY <2>1, <2>2, <2>3
<1> QED BY <1>2, <1>7 DEF GlanceInv

LEMMA AgesKeeps == GlanceInv /\ TokenAges => GlanceInv'
<1> SUFFICES ASSUME GlanceInv, TokenAges PROVE GlanceInv'
  OBVIOUS
<1>1. UNCHANGED << subject, config, now, feed, fetch, modified, latest, origin >> /\ token # None
  BY DEF TokenAges, untouched
<1>2. SubjectIs' /\ ValueIs' /\ MarksAreHonest'
  BY <1>1, FeedStays DEF GlanceInv, SubjectIs
<1>3. fetch # NoFetch => FetchIs'
  BY <1>1, FetchStays DEF GlanceInv
<1> QED BY <1>1, <1>2, <1>3 DEF GlanceInv

LEMMA TicksKeeps == GlanceInv /\ ClockTicks => GlanceInv'
<1> SUFFICES ASSUME GlanceInv, ClockTicks PROVE GlanceInv'
  OBVIOUS
<1>1. UNCHANGED << subject, config, feed, fetch, token, modified, latest, origin >>
  BY DEF ClockTicks
<1>2. now' \in Instants(subject)
  <2> DEFINE later == {t \in Instants(subject) : t > now}
  <2>1. later \in SUBSET Nat /\ later # {}
    BY TimesAre DEF GlanceInv, ClockTicks
  <2>2. now' = Min(later)
    BY DEF ClockTicks
  <2> HIDE DEF later
  <2>3. now' \in later
    BY <2>1, <2>2, LeastExists
  <2> QED BY <2>3 DEF later
<1>3. SubjectIs' /\ ValueIs' /\ MarksAreHonest'
  BY <1>1, <1>2, FeedStays DEF GlanceInv, SubjectIs
<1>4. fetch # NoFetch => FetchIs'
  BY <1>1, FetchStays DEF GlanceInv
<1> QED BY <1>1, <1>3, <1>4 DEF GlanceInv

LEMMA ReloadKeeps == GlanceInv /\ ConfigReloads => GlanceInv'
<1> SUFFICES ASSUME GlanceInv, ConfigReloads PROVE GlanceInv'
  OBVIOUS
<1>1. UNCHANGED << subject, now, feed, fetch, token, modified, latest, origin >>
  BY DEF ConfigReloads
<1>2. config' \in Configs(subject)
  BY DEF ConfigReloads
<1>3. SubjectIs' /\ ValueIs' /\ MarksAreHonest'
  BY <1>1, <1>2, FeedStays DEF GlanceInv, SubjectIs
<1>4. fetch # NoFetch => FetchIs'
  BY <1>1, FetchStays DEF GlanceInv
<1> QED BY <1>1, <1>3, <1>4 DEF GlanceInv

\* A 304 comes only to a request that had a value to compare with.
LEMMA UnchangedHasValue ==
    ASSUME FetchIs, NotModified(fetch), Heeded(fetch), DOMAIN fetch.got = ToSet(Parts(subject, fetch.config))
    PROVE  HasValue(feed)
<1>1. subject = "forecast" /\ Get(fetch.got["http"]).is = "unchanged"
  BY DEF NotModified
<1>2. Parts(subject, fetch.config) = << "http" >>
  BY <1>1 DEF Parts
<1>3. "http" \in DOMAIN fetch.got
  BY <1>2 DEF ToSet
<1>4. fetch.got["http"].status = 304
  <2> DEFINE r == fetch.got["http"]
  <2>1. Dispatched(r).is # "error"
    BY <1>1 DEF Get
  <2>2. ReadBounded(r).is # "unchanged"
    BY DEF ReadBounded, Refused, Text
  <2> HIDE DEF r
  <2>3. Get(r).is = "unchanged"
    BY <1>1 DEF r
  <2>4. r.status = 304
    BY <2>2, <2>3 DEF Get, Refused, Dispatched
  <2> QED BY <2>4 DEF r
<1> QED BY <1>1, <1>3, <1>4 DEF FetchIs

LEMMA EndKeeps == subject \in Integrations /\ GlanceInv /\ FetchEnds => GlanceInv'
<1> SUFFICES ASSUME subject \in Integrations, GlanceInv, FetchEnds PROVE GlanceInv'
  OBVIOUS
<1> DEFINE outcome == IF NotModified(fetch) THEN Unchanged ELSE Outcome(fetch)
           told == [config |-> fetch.config, at |-> fetch.at, got |-> fetch.got,
                    order |-> fetch.order, step |-> "done", broken |-> fetch.broken,
                    excused |-> fetch.excused]
<1>1. UNCHANGED << subject, config, now, token, bounds >> /\ fetch' = NoFetch
  BY DEF FetchEnds
<1>2. /\ feed' = IF NotModified(fetch) THEN Revalidated(feed) ELSE Stored(feed, outcome)
      /\ modified' = IF subject = "forecast" /\ outcome.is = "ready"
                            THEN fetch.got["http"].modified
                            ELSE modified
      /\ latest' = told
      /\ origin' = IF outcome.is = "ready" THEN told ELSE origin
  BY DEF FetchEnds
<1>3. FetchIs /\ (fetch.broken \/ Pending = {})
  BY DEF FetchEnds, GlanceInv
<1>4. WellAsked(told)
  <2>1. Heeded(fetch) /\ fetch.broken \in BOOLEAN /\ (fetch.broken => subject = "transit")
    BY <1>3 DEF FetchIs
  <2>2. ~fetch.broken => DOMAIN fetch.got = ToSet(Parts(subject, fetch.config))
    BY <1>3, <2>1 DEF Pending, Heeded
  <2> QED BY <2>1, <2>2 DEF WellAsked, Heeded, Said
<1>5. /\ told.config = fetch.config /\ told.at = fetch.at /\ told.got = fetch.got
      /\ told.order = fetch.order /\ told.broken = fetch.broken /\ told.excused = fetch.excused
      /\ told # NoFetch
  BY DEF NoFetch
<1> HIDE DEF told
<1>6. Outcome(told) = Outcome(fetch)
  <2>1. AllSaid(told) = AllSaid(fetch)
    BY <1>5 DEF AllSaid, Said
  <2> QED BY <1>5, <2>1 DEF Outcome
<1>7. NotModified(told) = NotModified(fetch)
  BY <1>5 DEF NotModified
<1>8. told.broken => subject = "transit" /\ told.excused
  BY <1>3, <1>5 DEF FetchIs
<1>9. NotModified(fetch) => HasValue(feed) /\ subject = "forecast"
  <2>1. ~told.broken => DOMAIN fetch.got = ToSet(Parts(subject, fetch.config))
    BY <1>4, <1>5 DEF WellAsked
  <2> QED BY <1>3, <1>5, <2>1, UnchangedHasValue DEF NotModified, FetchIs
<1>10. WellAsked(told) /\ subject' = subject /\ latest' = told
  BY <1>1, <1>2, <1>4
<1>11. ToldWell(latest)' = ToldWell(told) /\ NotModified(latest)' = NotModified(told)
  BY <1>10 DEF ToldWell, NotModified, Said
<1>12. WellAsked(latest)'
  BY <1>10 DEF WellAsked, Heeded, Said
<1>13. Outcome(latest)' = Outcome(told)
  BY <1>10 DEF Outcome, AllSaid, Said
<1>14. SubjectIs
  BY DEF GlanceInv
<1>15. SubjectIs'
  BY <1>1, <1>14 DEF SubjectIs
<1>16. CASE NotModified(fetch)
  <2>1. HasValue(feed) /\ subject = "forecast"
    BY <1>9, <1>16
  <2>2. outcome.is = "unchanged"
    BY <1>16 DEF Unchanged
  <2>3. feed' = Ready(feed.value) /\ origin' = origin /\ modified' = modified
    BY <1>2, <1>16, <2>1, <2>2 DEF Revalidated
  <2>4. feed'.is = "ready" /\ feed'.value = feed.value /\ HasValue(feed)'
    BY <2>3 DEF Ready, HasValue
  <2>5. ValueIs'
    <3>1. WellAsked(origin) /\ ~origin.broken /\ Outcome(origin) = Ready(feed.value)
      BY <2>1 DEF GlanceInv, ValueIs
    <3>2. WellAsked(origin)' /\ Outcome(origin)' = Outcome(origin)
      BY <1>10, <2>3, <3>1 DEF WellAsked, Heeded, Outcome, AllSaid, Said
    <3> QED BY <2>3, <2>4, <3>1, <3>2 DEF ValueIs
  <2>6. MarksAreHonest'
    BY <1>5, <1>7, <1>10, <1>11, <1>16, <2>4 DEF MarksAreHonest
  <2> QED BY <1>1, <1>15, <2>5, <2>6 DEF GlanceInv
<1>17. CASE ~NotModified(fetch) /\ Outcome(fetch).is = "ready"
  <2>1. outcome = Outcome(told) /\ outcome.is = "ready"
    BY <1>6, <1>17
  <2>2. Outcome(told) = Ready(Outcome(told).value)
    BY <2>1, OutcomeIsResult DEF IsResult, Failed
  <2> HIDE DEF outcome
  <2>3. feed' = Outcome(told) /\ origin' = told
    BY <1>2, <1>17, <2>1 DEF Stored
  <2>4. feed'.is = "ready" /\ HasValue(feed)' /\ Outcome(told) = Ready(feed'.value)
    BY <2>1, <2>2, <2>3 DEF HasValue
  <2>5. ValueIs'
    <3>1. origin' = latest' /\ ~told.broken
      <4>1. told.broken => Outcome(told) = Failed
        BY <1>8 DEF Outcome
      <4> QED BY <1>10, <2>1, <2>3, <4>1 DEF Failed
    <3>2. WellAsked(origin)' /\ Outcome(origin)' = Outcome(told)
      BY <1>10, <1>12, <1>13, <3>1 DEF WellAsked, Heeded, Outcome, AllSaid, Said
    <3> QED BY <1>10, <2>4, <3>1, <3>2 DEF ValueIs
  <2>6. ToldWell(told)
    BY <1>10, <1>14, <2>1, OutcomeTells DEF SubjectIs
  <2>7. MarksAreHonest'
    BY <1>5, <1>10, <1>11, <2>3, <2>4, <2>6 DEF MarksAreHonest
  <2> QED BY <1>1, <1>15, <2>5, <2>7 DEF GlanceInv
<1>18. CASE ~NotModified(fetch) /\ Outcome(fetch).is # "ready"
  <2>1. outcome = Outcome(told) /\ outcome.is # "ready"
    BY <1>6, <1>18
  <2> HIDE DEF outcome
  <2>2. feed' = Failing(feed) /\ origin' = origin /\ modified' = modified
    BY <1>2, <1>18, <2>1 DEF Stored
  <2>3. HasValue(feed)' = HasValue(feed) /\ (HasValue(feed) => feed'.value = feed.value)
        /\ feed'.is \in {"stale", "failed"}
    BY <2>2 DEF Failing, HasValue, Kept, Failed
  <2>4. ValueIs'
    <3>1. HasValue(feed) => WellAsked(origin) /\ ~origin.broken /\ Outcome(origin) = Ready(feed.value)
      BY DEF GlanceInv, ValueIs
    <3>2. WellAsked(origin)' = WellAsked(origin) /\ Outcome(origin)' = Outcome(origin)
      BY <1>10, <2>2 DEF WellAsked, Heeded, Outcome, AllSaid, Said
    <3>3. HasValue(feed) \/ modified = FALSE
      BY DEF GlanceInv, ValueIs
    <3> QED BY <2>2, <2>3, <3>1, <3>2, <3>3 DEF ValueIs
  <2>5. /\ subject \in ByCommand \ {"health"} => ~ToldWell(told)
        /\ subject = "transit" => told.broken
    BY <1>10, <1>14, <2>1, OutcomeTells DEF SubjectIs
  <2>6. MarksAreHonest'
    BY <1>5, <1>7, <1>8, <1>10, <1>11, <1>18, <2>3, <2>5 DEF MarksAreHonest
  <2> QED BY <1>1, <1>15, <2>4, <2>6 DEF GlanceInv
<1> QED BY <1>16, <1>17, <1>18

\* Every step of a glance keeps the invariant; the others do not touch it.
LEMMA GlanceInvHolds == ControlsSpec => []GlanceInv
<1>1. ControlsInit => GlanceInv
  BY GlanceInvInit DEF ControlsInit
<1>2. GlanceInv /\ [ControlsNext]_deckControls => GlanceInv'
  <2> SUFFICES ASSUME GlanceInv, [ControlsNext]_deckControls PROVE GlanceInv'
    OBVIOUS
  <2>1. CASE subject \in Integrations /\ GlancesNext
    BY <2>1, StartKeeps, AnswerKeeps, EndKeeps, UseKeeps, AskTokenKeeps, AskStopKeeps, AgesKeeps,
       TicksKeeps, ReloadKeeps DEF GlancesNext
  <2>2. CASE UNCHANGED glances
    <3>1. UNCHANGED << subject, config, now, feed, fetch, token, modified, latest, origin >>
      BY <2>2 DEF glances
    <3>2. SubjectIs' /\ ValueIs' /\ MarksAreHonest'
      BY <3>1, FeedStays DEF GlanceInv, SubjectIs
    <3>3. fetch # NoFetch => FetchIs'
      BY <3>1, FetchStays DEF GlanceInv
    <3> QED BY <3>1, <3>2, <3>3 DEF GlanceInv
  <2> QED BY <2>1, <2>2 DEF ControlsNext, deckControls
<1> QED BY <1>1, <1>2, PTL DEF ControlsSpec

\* A mark on a tile is honest: without one, the fetch that ended last brought the value,
\* or the word that the value has not changed; with one, that fetch failed for want of
\* an answer, and never because of a token that could be had anew: `execute`, the
\* `fetch` of the services and `apply_action_outcome`.
THEOREM MarksAreAlwaysHonest == ControlsSpec => []MarksAreHonest
<1>1. GlanceInv => MarksAreHonest
  BY DEF GlanceInv
<1> QED BY <1>1, GlanceInvHolds, PTL

-----------------------------------------------------------------------------
(* What a tile shows.                                                       *)

\* The feed has a value, of a fetch that was told everything it is made of.
HasCome ==
    /\ subject \in Subjects \cap Integrations
    /\ HasValue(feed)
    /\ WellAsked(origin) /\ ~origin.broken
    /\ Outcome(origin) = Ready(feed.value)

LEMMA ReadyIs == \A v, w : Ready(v) # Failed /\ (Ready(v) = Ready(w) => v = w)
<1> SUFFICES ASSUME NEW v, NEW w PROVE Ready(v) # Failed /\ (Ready(v) = Ready(w) => v = w)
  OBVIOUS
<1>1. Ready(v).value = v /\ Ready(w).value = w /\ Ready(v).is = "ready"
  BY DEF Ready
<1> QED BY <1>1 DEF Failed

\* What it was told.
LEMMA OriginIs ==
    ASSUME HasCome
    PROVE  /\ DOMAIN origin.got = ToSet(Parts(subject, origin.config))
           /\ IsList(Parts(subject, origin.config))
           /\ \A part \in DOMAIN origin.got :
                /\ AllSaid(origin)[part] = Said(origin, part)
                /\ Said(origin, part) # None => WellFormed(subject, part, Said(origin, part))
           /\ origin.at \in Nat
           /\ origin.config \in Configs(subject)
<1>1. subject \in Subjects /\ subject \in Integrations /\ WellAsked(origin)
  BY DEF HasCome
<1>2. DOMAIN origin.got = ToSet(Parts(subject, origin.config))
  BY <1>1 DEF HasCome, WellAsked
<1>3. \A part \in DOMAIN origin.got : AllSaid(origin)[part] = Said(origin, part)
  BY DEF AllSaid
<1>4. origin.at \in Nat /\ origin.config \in Configs(subject)
  BY <1>1 DEF WellAsked, Heeded
<1> QED BY <1>1, <1>2, <1>3, <1>4, PartsAre

LEMMA NetworkComesRight == HasCome /\ subject = "network" => NetworkIsRight
<1> SUFFICES ASSUME HasCome, subject = "network" PROVE NetworkIsRight
  OBVIOUS
<1> DEFINE nwi == Said(origin, "nwi")
           vpns == Said(origin, "vpns")
           vpn == origin.config.vpn
<1>1. DOMAIN origin.got = {"nwi", "vpns"}
  <2>1. Parts(subject, origin.config) = << "nwi", "vpns" >>
    BY DEF Parts
  <2> QED BY <2>1, OriginIs DEF ToSet
<1>2. AllSaid(origin)["nwi"] = nwi /\ AllSaid(origin)["vpns"] = vpns
  BY <1>1, OriginIs
<1>3. NetworkOf(vpn, AllSaid(origin)) = Ready(feed.value)
  BY DEF HasCome, Outcome
<1>4. feed.value = [connected |-> nwi.reachable,
                    vpn |-> IF vpn \notin DOMAIN vpns THEN "Unavailable"
                            ELSE IF vpns[vpn] = "Connected" THEN "Connected"
                            ELSE "Disconnected"]
  <2> HIDE DEF nwi, vpns, vpn
  <2> QED BY <1>2, <1>3, ReadyIs DEF NetworkOf
<1>5. NetworkFace(feed).tone = NetworkTone(feed.value)
  BY DEF NetworkFace, HasCome, Face
<1> QED BY <1>4, <1>5 DEF NetworkIsRight, NetworkTone

\* A search shows the newest of what it may show.
LEMMA SearchIs ==
    ASSUME NEW items, IsList(items), \A i \in DOMAIN items : items[i].updated \in Int, NEW limit \in Nat
    PROVE  LET whole == {i \in DOMAIN items : items[i].whole /\ items[i].site = "github"}
               mine == {items[i] : i \in whole}
               shown == parse_search(items, limit)
           IN  /\ IsList(shown)
               /\ Len(shown) = Least(limit, Cardinality(whole))
               /\ ToSet(shown) \subseteq mine
               /\ \A i \in DOMAIN shown : \A item \in mine \ ToSet(shown) :
                    item.updated <= shown[i].updated
<1> DEFINE whole == {i \in DOMAIN items : items[i].whole /\ items[i].site = "github"}
           mine == {items[i] : i \in whole}
           left == Only(items, whole)
           key == [i \in DOMAIN left |-> -left[i].updated]
           sorted == SortedBy(left, key)
           shown == parse_search(items, limit)
           c == Cardinality(whole)
<1>1. whole \in SUBSET Nat /\ IsFiniteSet(whole) /\ c \in Nat
  <2>1. whole \in SUBSET DOMAIN items
    OBVIOUS
  <2> HIDE DEF whole
  <2> QED BY <2>1, IndicesAre, FS_CardinalityType
<1>2. shown = Take(sorted, limit)
  BY DEF parse_search
<1>3. \A x \in mine : x.updated \in Int
  OBVIOUS
<1> HIDE DEF whole, shown
<1>4. IsList(left) /\ ToSet(left) = mine /\ Len(left) = c
  BY <1>1, OnlyHas
<1> HIDE DEF left, mine, c
<1>5. key \in [DOMAIN left -> Int]
  BY <1>3, <1>4 DEF ToSet
<1>6. PICK at : Sorts(at, left, key) /\ sorted = [n \in 1..Len(left) |-> left[at[n]]]
  <2> HIDE DEF key
  <2> QED BY <1>4, <1>5, SortedHas
<1>7. IsList(sorted) /\ ToSet(sorted) = mine /\ Len(sorted) = c
  <2> HIDE DEF key
  <2> QED BY <1>4, <1>5, SortedHas
<1>8. \A n \in 1..c : at[n] \in DOMAIN left /\ key[at[n]] = -left[at[n]].updated
  BY <1>4, <1>6 DEF Sorts
<1>9. ASSUME NEW m \in 1..c, NEW n \in 1..c, m < n
      PROVE  sorted[n].updated <= sorted[m].updated
  <2>1. sorted[m] = left[at[m]] /\ sorted[n] = left[at[n]]
    BY <1>4, <1>6
  <2>2. key[at[m]] <= key[at[n]]
    BY <1>4, <1>6, <1>9 DEF Sorts
  <2>3. left[at[m]].updated \in Int /\ left[at[n]].updated \in Int
    BY <1>3, <1>4, <1>8 DEF ToSet
  <2> HIDE DEF key
  <2> QED BY <1>8, <2>1, <2>2, <2>3
<1> HIDE DEF sorted
<1> DEFINE k == IF limit < c THEN limit ELSE c
<1>10. sorted \in Seq(mine) /\ DOMAIN sorted = 1..c
  BY <1>7, IndicesAre DEF IsList
<1>11. shown = [n \in 1..k |-> sorted[n]] /\ shown \in Seq(mine) /\ Len(shown) = k
  BY <1>2, <1>7, <1>10, TakeIs
<1>12. k \in Nat /\ k <= c /\ k = Least(limit, c)
  BY <1>1 DEF Least
<1> HIDE DEF k
<1>13. DOMAIN shown = 1..k /\ \A n \in 1..k : shown[n] = sorted[n] /\ n \in 1..c
  BY <1>1, <1>11, <1>12
<1>14. IsList(shown)
  <2>1. shown \in [1..k -> ToSet(shown)]
    BY <1>11, <1>13 DEF ToSet
  <2> QED BY <1>12, <2>1 DEF IsList
<1>15. ToSet(shown) \subseteq mine
  <2>1. \A n \in 1..k : shown[n] \in ToSet(sorted)
    BY <1>10, <1>13 DEF ToSet
  <2>2. \A n \in DOMAIN shown : shown[n] \in mine
    BY <1>7, <1>13, <2>1
  <2> QED BY <2>2 DEF ToSet
<1>16. ASSUME NEW i \in DOMAIN shown, NEW item \in mine \ ToSet(shown)
       PROVE  item.updated <= shown[i].updated
  <2>1. PICK m \in 1..c : sorted[m] = item
    BY <1>7, <1>10 DEF ToSet
  <2>2. ~(m <= k)
    <3>1. SUFFICES ASSUME m <= k PROVE FALSE
      OBVIOUS
    <3>2. m \in 1..k
      BY <1>1, <1>12, <3>1
    <3> QED BY <1>13, <2>1, <3>2 DEF ToSet
  <2>3. i \in 1..k /\ i \in 1..c /\ i < m
    BY <1>1, <1>12, <1>13, <2>2
  <2> QED BY <1>9, <1>13, <2>1, <2>3
<1> QED BY <1>11, <1>12, <1>14, <1>15, <1>16 DEF whole, mine, shown, c

LEMMA GitHubComesRight == HasCome /\ subject = "github" => GitHubIsRight
<1> SUFFICES ASSUME HasCome, subject = "github" PROVE GitHubIsRight
  OBVIOUS
<1> DEFINE limit == origin.config.limit
           got == AllSaid(origin)
<1>1. DOMAIN origin.got = Metrics
  <2>1. Parts(subject, origin.config) = << "Inbox", "Reviews", "Prs", "Assigned" >>
    BY DEF Parts
  <2> QED BY <2>1, OriginIs DEF ToSet, Metrics
<1>2. SummaryOf(limit, got) = Ready(feed.value)
  BY DEF HasCome, Outcome
<1>3. limit \in Nat
  BY OriginIs, SubjectsAssumption DEF SubjectsAssumption, HasCome
<1>4. \A m \in Metrics : got[m] = Said(origin, m) /\ got[m] # None
  <2>1. \A m \in Metrics : got[m] = Said(origin, m)
    BY <1>1, OriginIs
  <2>2. \A m \in Metrics : got[m] # None
    BY <1>2, ReadyIs DEF SummaryOf
  <2> QED BY <2>1, <2>2
<1>5. feed.value = [Reviews  |-> parse_search(got["Reviews"], limit),
                  Prs      |-> parse_search(got["Prs"], limit),
                  Assigned |-> parse_search(got["Assigned"], limit),
                  Inbox    |-> got["Inbox"],
                  overflow |-> got["Inbox"] >= InboxCap]
  <2> HIDE DEF got, limit
  <2> QED BY <1>2, <1>4, ReadyIs DEF SummaryOf
<1> HIDE DEF got, limit
<1>6. ASSUME NEW m \in {"Reviews", "Prs", "Assigned"}
      PROVE  /\ feed.value[m] = parse_search(Said(origin, m), limit)
             /\ Count(feed.value, m) = Len(feed.value[m])
             /\ IsList(Said(origin, m))
             /\ \A i \in DOMAIN Said(origin, m) : Said(origin, m)[i].updated \in Int
  <2>1. m \in Metrics
    BY DEF Metrics
  <2>2. feed.value[m] = parse_search(got[m], limit)
    BY <1>5
  <2>3. WellFormed(subject, m, Said(origin, m)) /\ m # "Inbox"
    BY <1>1, <1>4, <2>1, OriginIs
  <2> QED BY <1>4, <2>1, <2>2, <2>3 DEF WellFormed, Count
<1> DEFINE whole(metric) == {i \in DOMAIN Said(origin, metric) :
                            Said(origin, metric)[i].whole /\ Said(origin, metric)[i].site = "github"}
           mine(metric) == {Said(origin, metric)[i] : i \in whole(metric)}
<1>7. ASSUME NEW m \in {"Reviews", "Prs", "Assigned"}
      PROVE  /\ Count(feed.value, m) = Least(limit, Cardinality(whole(m)))
             /\ ToSet(feed.value[m]) \subseteq mine(m)
             /\ \A i \in DOMAIN feed.value[m] : \A item \in mine(m) \ ToSet(feed.value[m]) :
                    item.updated <= feed.value[m][i].updated
  BY <1>3, <1>6, SearchIs
<1>8. feed.value["Prs"] = feed.value.Prs
  OBVIOUS
<1> QED BY <1>7, <1>8 DEF GitHubIsRight, limit

-----------------------------------------------------------------------------
\* The radar's list: the runs of those that answered, the newest first.
RunsTold == UNION {{Said(origin, r)[i] : i \in {i \in DOMAIN Said(origin, r) : i <= 10}} :
                   r \in {r \in DOMAIN origin.got :
                            Said(origin, r) # None /\ Own(r, Said(origin, r))}}

ShownRun(run) == [state |-> CiState(run), updated |-> run.updated, url |-> run.url]

LEMMA RadarIs ==
    ASSUME HasCome, subject = "radar"
    PROVE  /\ IsList(feed.value)
           /\ ToSet(feed.value) = {ShownRun(run) : run \in RunsTold}
           /\ \A i \in DOMAIN feed.value : feed.value[i].updated \in Int
           /\ \A i, j \in DOMAIN feed.value : i < j => feed.value[j].updated <= feed.value[i].updated
<1> DEFINE order == origin.order
           got == AllSaid(origin)
           fine == {i \in DOMAIN order : got[order[i]] # None /\ ~Spoiled(order[i], got[order[i]])}
           good == Only(order, fine)
           parts == [i \in DOMAIN good |-> parse_runs(got[good[i]])]
           all == FlattenSeq(parts)
           key == [i \in DOMAIN all |-> -all[i].updated]
           Good == {r \in DOMAIN origin.got : Said(origin, r) # None /\ Own(r, Said(origin, r))}
<1>1. IsList(order) /\ ToSet(order) = DOMAIN origin.got
  BY DEF HasCome, WellAsked, Heeded
<1>2. \A r \in DOMAIN origin.got :
        /\ got[r] = Said(origin, r)
        /\ Said(origin, r) # None =>
            /\ IsList(Said(origin, r))
            /\ \A i \in DOMAIN Said(origin, r) : Said(origin, r)[i].updated \in Int
            /\ ~Spoiled(r, Said(origin, r)) <=> Own(r, Said(origin, r))
  BY OriginIs, OwnIs DEF WellFormed
<1>3. RadarOf(origin.config.repositories, got, order) = Ready(feed.value)
  BY DEF HasCome, Outcome
<1>4. feed.value = SortedBy(all, key)
  <2>1. feed.value = MergeRuns(all)
    <3> HIDE DEF parts, got, order
    <3> QED BY <1>3, ReadyIs DEF RadarOf, parts
  <2> QED BY <2>1 DEF MergeRuns
<1> HIDE DEF got
<1>5. IsList(good) /\ ToSet(good) = {order[i] : i \in fine}
  <2>1. fine \in SUBSET DOMAIN order
    OBVIOUS
  <2>2. fine \in SUBSET Nat /\ IsFiniteSet(fine)
    <3> HIDE DEF fine
    <3> QED BY <1>1, <2>1, IndicesAre
  <2> HIDE DEF fine
  <2> QED BY <2>2, OnlyHas
<1>6. {order[i] : i \in fine} = Good
  <2>1. ASSUME NEW i \in fine PROVE order[i] \in Good
    <3>1. order[i] \in DOMAIN origin.got
      BY <1>1 DEF ToSet
    <3> QED BY <1>2, <3>1
  <2>2. ASSUME NEW r \in Good PROVE \E i \in fine : order[i] = r
    <3>1. PICK i \in DOMAIN order : order[i] = r
      BY <1>1 DEF ToSet
    <3> QED BY <1>2, <3>1
  <2> HIDE DEF fine, Good
  <2> QED BY <2>1, <2>2
<1>7. \A i \in DOMAIN good : good[i] \in Good
  BY <1>5, <1>6 DEF ToSet
<1> HIDE DEF good, fine
<1>8. ASSUME NEW r \in Good
      PROVE  /\ IsList(parse_runs(got[r]))
             /\ ToSet(parse_runs(got[r])) =
                    {ShownRun(Said(origin, r)[i]) : i \in {i \in DOMAIN Said(origin, r) : i <= 10}}
  <2> DEFINE runs == Said(origin, r)
             ten == {i \in DOMAIN runs : i <= 10}
             t == parse_runs(runs)
  <2>1. IsList(runs) /\ got[r] = runs
    BY <1>2
  <2>2. DOMAIN Take(runs, 10) = ten
    BY <2>1, OwnIs
  <2>3. t = [i \in ten |-> ShownRun(runs[i])]
    BY <2>2 DEF parse_runs, ShownRun
  <2>4. \E n \in Nat : ten = 1..n
    <3>1. DOMAIN runs = 1..Len(runs) /\ Len(runs) \in Nat
      BY <2>1, IndicesAre
    <3>2. ten = 1..(IF Len(runs) <= 10 THEN Len(runs) ELSE 10)
      BY <3>1
    <3> QED BY <3>1, <3>2
  <2> HIDE DEF t, ten, runs
  <2>5. PICK n \in Nat : ten = 1..n
    BY <2>4
  <2>6. DOMAIN t = ten /\ \A i \in ten : t[i] = ShownRun(runs[i])
    BY <2>3
  <2>7. ToSet(t) = {ShownRun(runs[i]) : i \in ten}
    <3>1. ToSet(t) = {t[i] : i \in ten}
      BY <2>6 DEF ToSet
    <3> QED BY <2>6, <3>1
  <2>8. t \in [1..n -> ToSet(t)]
    BY <2>3, <2>5, <2>6 DEF ToSet
  <2>9. IsList(t)
    BY <2>8 DEF IsList
  <2> QED BY <2>1, <2>7, <2>9 DEF t, ten, runs
<1>9. IsList(parts) /\ DOMAIN parts = DOMAIN good
      /\ \A i \in DOMAIN good : parts[i] = parse_runs(got[good[i]]) /\ IsList(parts[i])
  <2>1. \A i \in DOMAIN good : IsList(parse_runs(got[good[i]]))
    BY <1>7, <1>8
  <2>2. DOMAIN good = 1..Len(good) /\ Len(good) \in Nat
    BY <1>5, IndicesAre
  <2>3. DOMAIN parts = DOMAIN good /\ \A i \in DOMAIN good : parts[i] = parse_runs(got[good[i]])
    OBVIOUS
  <2>4. parts = [i \in 1..Len(good) |-> parts[i]]
    BY <2>2
  <2> HIDE DEF parts
  <2>5. parts \in [1..Len(good) -> ToSet(parts)]
    BY <2>2, <2>3, <2>4 DEF ToSet
  <2> QED BY <2>1, <2>2, <2>3, <2>5 DEF IsList
<1> HIDE DEF parts
<1>10. IsList(all) /\ ToSet(all) = UNION {ToSet(parts[i]) : i \in DOMAIN parts}
  BY <1>9, FlattenIs
<1>11. ToSet(all) = {ShownRun(run) : run \in RunsTold}
  <2> DEFINE Of(r) == {i \in DOMAIN Said(origin, r) : i <= 10}
  <2>1. \A r \in Good : ToSet(parse_runs(got[r])) = {ShownRun(Said(origin, r)[i]) : i \in Of(r)}
    BY <1>8
  <2>2. \A x : x \in ToSet(all) <=> \E i \in DOMAIN good : x \in ToSet(parse_runs(got[good[i]]))
    BY <1>9, <1>10
  <2>3. \A x : x \in ToSet(all) <=> \E r \in Good : x \in ToSet(parse_runs(got[r]))
    <3>1. \A r \in Good : \E i \in DOMAIN good : good[i] = r
      BY <1>5, <1>6 DEF ToSet
    <3> HIDE DEF Good, all
    <3> QED BY <1>7, <2>2, <3>1
  <2>4. \A x : x \in ToSet(all) <=> \E r \in Good : \E i \in Of(r) : x = ShownRun(Said(origin, r)[i])
    <3> HIDE DEF Good, all, Of
    <3> QED BY <2>1, <2>3
  <2>5. \A run : run \in RunsTold <=> \E r \in Good : \E i \in Of(r) : run = Said(origin, r)[i]
    BY DEF RunsTold
  <2> HIDE DEF Good, all, Of
  <2> QED BY <2>4, <2>5
<1>12. \A x \in ToSet(all) : x.updated \in Int
  <2>1. ASSUME NEW run \in RunsTold PROVE ShownRun(run).updated \in Int
    <3>1. run.updated \in Int
      BY <1>2 DEF RunsTold
    <3> QED BY <3>1 DEF ShownRun
  <2> QED BY <1>11, <2>1
<1> HIDE DEF all
<1>13. key \in [DOMAIN all -> Int]
  BY <1>12 DEF ToSet
<1>14. PICK at : Sorts(at, all, key) /\ feed.value = [n \in 1..Len(all) |-> all[at[n]]]
  <2> HIDE DEF key
  <2> QED BY <1>4, <1>10, <1>13, SortedHas
<1>15. IsList(feed.value) /\ ToSet(feed.value) = ToSet(all)
  <2> HIDE DEF key
  <2> QED BY <1>4, <1>10, <1>13, SortedHas
<1>16. DOMAIN feed.value = 1..Len(all) /\ \A n \in 1..Len(all) : feed.value[n] = all[at[n]]
  BY <1>14
<1>17. \A i \in DOMAIN feed.value : feed.value[i].updated \in Int
  BY <1>12, <1>15 DEF ToSet
<1>18. ASSUME NEW i \in DOMAIN feed.value, NEW j \in DOMAIN feed.value, i < j
       PROVE  feed.value[j].updated <= feed.value[i].updated
  <2>1. at[i] \in DOMAIN all /\ at[j] \in DOMAIN all /\ key[at[i]] <= key[at[j]]
    BY <1>14, <1>16, <1>18 DEF Sorts
  <2>2. -all[at[i]].updated <= -all[at[j]].updated
    BY <2>1
  <2>3. feed.value[i] = all[at[i]] /\ feed.value[j] = all[at[j]]
    BY <1>16
  <2> QED BY <1>17, <2>2, <2>3
<1> QED BY <1>11, <1>15, <1>17, <1>18

\* How many of a list have something is whether any has it.
LEMMA CountIs ==
    ASSUME NEW runs, IsList(runs), NEW state
    PROVE  RunsIn(runs, state) > 0 <=> \E i \in DOMAIN runs : runs[i].state = state
<1> DEFINE hits == {i \in DOMAIN runs : runs[i].state = state}
<1>1. hits \in SUBSET DOMAIN runs
  OBVIOUS
<1>2. RunsIn(runs, state) = Cardinality(hits)
  BY DEF RunsIn
<1>3. hits # {} <=> \E i \in DOMAIN runs : runs[i].state = state
  OBVIOUS
<1> HIDE DEF hits
<1>4. IsFiniteSet(hits)
  BY <1>1, IndicesAre
<1>5. Cardinality(hits) \in Nat /\ (Cardinality(hits) = 0 <=> hits = {})
  BY <1>4, FS_EmptySet, FS_CardinalityType
<1> QED BY <1>2, <1>3, <1>5

\* The colour of the radar.
LEMMA ToneIs ==
    ASSUME HasCome, subject = "radar"
    PROVE  LET any(state) == \E i \in DOMAIN feed.value : feed.value[i].state = state
           IN  RadarFace(feed).tone = IF any("Failure") THEN "error"
                                      ELSE IF any("Running") THEN "warning" ELSE "live"
<1>1. HasValue(feed)
  BY DEF HasCome
<1>2. RadarFace(feed).tone = IF RunsIn(feed.value, "Failure") > 0 THEN "error"
                  ELSE IF RunsIn(feed.value, "Running") > 0 THEN "warning" ELSE "live"
  BY <1>1 DEF RadarFace, Face
<1>3. IsList(feed.value)
  BY RadarIs
<1> QED BY <1>2, <1>3, CountIs

LEMMA RadarComesRight == HasCome /\ subject = "radar" => RadarIsRight
<1> SUFFICES ASSUME HasCome, subject = "radar" PROVE RadarIsRight
  OBVIOUS
<1> DEFINE any(state) == \E i \in DOMAIN feed.value : feed.value[i].state = state
           broken == {run \in RunsTold : /\ run.status = "completed"
                                  /\ run.conclusion \in {"failure", "timed_out", "action_required"}}
<1>1. \A state : any(state) <=> \E run \in RunsTold : CiState(run) = state
  <2>1. ToSet(feed.value) = {ShownRun(run) : run \in RunsTold}
    BY RadarIs
  <2>2. \A run : ShownRun(run).state = CiState(run)
    BY DEF ShownRun
  <2>3. \A state : any(state) <=> \E x \in ToSet(feed.value) : x.state = state
    BY DEF ToSet
  <2> QED BY <2>1, <2>2, <2>3
<1>2. \A run : CiState(run) = "Running" <=> run.status # "completed"
  BY DEF CiState
<1>3. \A run : CiState(run) = "Failure" <=>
            run.status = "completed" /\ run.conclusion \in {"failure", "timed_out", "action_required"}
  BY DEF CiState
<1>4. any("Failure") <=> broken # {}
  BY <1>1, <1>3
<1>5. any("Running") <=> \E run \in RunsTold : run.status # "completed"
  BY <1>1, <1>2
<1>6. RadarFace(feed).tone = IF any("Failure") THEN "error"
                                      ELSE IF any("Running") THEN "warning" ELSE "live"
  BY ToneIs
<1> HIDE DEF any
<1> QED BY <1>4, <1>5, <1>6 DEF RadarIsRight, RunsTold

-----------------------------------------------------------------------------
(* The agenda.                                                              *)

\* Of the meetings that share a link the first is kept, and they are in order.
LEMMA MergeIs ==
    ASSUME NEW meetings, IsList(meetings), \A i \in DOMAIN meetings : meetings[i].start \in Int
    PROVE  LET list == merge(meetings)
           IN  /\ IsList(list)
               /\ ToSet(list) \subseteq ToSet(meetings)
               /\ \A m \in ToSet(meetings) : \E i \in DOMAIN list : list[i].url = m.url
               /\ \A i, j \in DOMAIN list :
                    i < j => list[i].start <= list[j].start /\ list[i].url # list[j].url
               /\ \A i \in DOMAIN list : \A m \in ToSet(meetings) :
                    m.url = list[i].url => list[i].start <= m.start
<1> DEFINE key == [i \in DOMAIN meetings |-> meetings[i].start]
           sorted == SortedBy(meetings, key)
           firsts == {i \in DOMAIN sorted : \A j \in 1..i - 1 : sorted[j].url # sorted[i].url}
           list == merge(meetings)
           n == Len(meetings)
<1>1. list = Only(sorted, firsts)
  BY DEF merge
<1>2. key \in [DOMAIN meetings -> Int] /\ n \in Nat
  BY IndicesAre
<1>3. PICK at : Sorts(at, meetings, key) /\ sorted = [i \in 1..n |-> meetings[at[i]]]
  <2> HIDE DEF key
  <2> QED BY <1>2, SortedHas
<1>4. IsList(sorted) /\ ToSet(sorted) = ToSet(meetings) /\ Len(sorted) = n
  <2> HIDE DEF key
  <2> QED BY <1>2, SortedHas
<1>5. \A i \in 1..n : at[i] \in DOMAIN meetings /\ sorted[i] = meetings[at[i]] /\ key[at[i]] = sorted[i].start
  BY <1>3 DEF Sorts
<1>6. \A i \in 1..n : sorted[i].start \in Int
  BY <1>5
<1>7. \A i, j \in 1..n : i <= j => sorted[i].start <= sorted[j].start
  <2>1. ASSUME NEW i \in 1..n, NEW j \in 1..n, i < j
        PROVE  sorted[i].start <= sorted[j].start
    <3>1. key[at[i]] <= key[at[j]]
      BY <1>3, <2>1 DEF Sorts
    <3> HIDE DEF key, sorted
    <3> QED BY <1>5, <3>1
  <2> HIDE DEF sorted
  <2> QED BY <1>2, <1>6, <2>1
<1>8. DOMAIN sorted = 1..n
  BY <1>3
<1> HIDE DEF key, sorted, list
<1>9. firsts \in SUBSET Nat /\ IsFiniteSet(firsts) /\ firsts \subseteq 1..n
  <2>1. firsts \in SUBSET DOMAIN sorted
    OBVIOUS
  <2> HIDE DEF firsts
  <2> QED BY <1>4, <1>8, <2>1, IndicesAre
<1>10. IsList(list) /\ ToSet(list) = {sorted[i] : i \in firsts}
  <2> HIDE DEF firsts
  <2> QED BY <1>1, <1>9, OnlyHas
<1>11. PICK up : Climbs(up, Cardinality(firsts), firsts)
  BY <1>9, ClimbExists
<1> DEFINE c == Cardinality(firsts)
<1>12. list = [i \in 1..c |-> sorted[up[i]]]
  <2> HIDE DEF firsts
  <2> QED BY <1>1, <1>9, <1>11, OnlyIs
<1>13. /\ c \in Nat /\ \A i \in 1..c : up[i] \in firsts
       /\ \A i, j \in 1..c : i < j => up[i] < up[j]
       /\ \A k \in firsts : \E i \in 1..c : up[i] = k
  BY <1>11 DEF Climbs
<1> HIDE DEF c
<1>14. DOMAIN list = 1..c /\ \A i \in 1..c : list[i] = sorted[up[i]]
  BY <1>12
<1>15. ToSet(list) \subseteq ToSet(meetings)
  <2>1. \A i \in firsts : sorted[i] \in ToSet(sorted)
    BY <1>8, <1>9 DEF ToSet
  <2> QED BY <1>4, <1>10, <2>1
<1>16. ASSUME NEW m \in ToSet(meetings)
       PROVE  \E i \in DOMAIN list : list[i].url = m.url
  <2> DEFINE same == {i \in 1..n : sorted[i].url = m.url}
  <2>1. same # {} /\ same \in SUBSET Nat
    BY <1>2, <1>4, <1>8 DEF ToSet
  <2>2. Min(same) \in same /\ \A x \in same : Min(same) <= x
    <3> HIDE DEF same
    <3> QED BY <2>1, LeastExists
  <2> DEFINE k == Min(same)
  <2> HIDE DEF k
  <2>3. k \in 1..n /\ sorted[k].url = m.url /\ \A x \in 1..n : sorted[x].url = m.url => k <= x
    BY <2>2 DEF k
  <2>4. ASSUME NEW j \in 1..k - 1 PROVE sorted[j].url # sorted[k].url
    <3>1. j \in 1..n /\ ~(k <= j)
      BY <1>2, <2>3
    <3> QED BY <2>3, <3>1
  <2>5. k \in firsts
    BY <1>8, <2>3, <2>4
  <2> QED BY <1>13, <1>14, <2>3, <2>5
<1>17. ASSUME NEW i \in DOMAIN list, NEW j \in DOMAIN list, i < j
       PROVE  list[i].start <= list[j].start /\ list[i].url # list[j].url
  <2>1. up[i] \in firsts /\ up[j] \in firsts /\ up[i] < up[j]
    BY <1>13, <1>14, <1>17
  <2>2. up[i] \in 1..n /\ up[j] \in 1..n
    BY <1>9, <2>1
  <2>3. sorted[up[i]].start <= sorted[up[j]].start
    BY <1>7, <2>1, <2>2
  <2>4. up[i] \in 1..up[j] - 1
    BY <1>2, <2>1, <2>2
  <2>5. sorted[up[i]].url # sorted[up[j]].url
    BY <2>1, <2>4
  <2> QED BY <1>14, <2>3, <2>5
<1>18. ASSUME NEW i \in DOMAIN list, NEW m \in ToSet(meetings), m.url = list[i].url
       PROVE  list[i].start <= m.start
  <2>1. PICK k \in 1..n : sorted[k] = m
    BY <1>4, <1>8 DEF ToSet
  <2>2. up[i] \in firsts /\ list[i] = sorted[up[i]] /\ up[i] \in 1..n
    BY <1>9, <1>13, <1>14
  <2>3. k \notin 1..up[i] - 1
    BY <1>18, <2>1, <2>2
  <2>4. up[i] <= k
    BY <1>2, <2>2, <2>3
  <2> QED BY <1>7, <2>1, <2>2, <2>4
<1> QED BY <1>10, <1>15, <1>16, <1>17, <1>18 DEF list

\* The events that are shown, of the accounts that answered.
Events == UNION {{e \in ToSet(Said(origin, a)) : is_meeting(e) /\ origin.at < e.end} :
                 a \in {a \in DOMAIN origin.got : Said(origin, a) # None}}

LEMMA AgendaIs ==
    ASSUME HasCome, subject = "agenda"
    PROVE  \E meetings :
              /\ feed.value = merge(meetings)
              /\ IsList(meetings)
              /\ \A i \in DOMAIN meetings : meetings[i].start \in Int
              /\ \A m \in ToSet(meetings) :
                    \E e \in Events : m.url = find_meet_url(e) /\ m.start = e.start
              /\ \A e \in Events :
                    \E m \in ToSet(meetings) : m.url = find_meet_url(e) /\ m.start = e.start
<1> DEFINE accounts == origin.config.accounts
           got == AllSaid(origin)
           heard == {i \in DOMAIN accounts : got[accounts[i]] # None}
           answered == Only(accounts, heard)
           parsed == [i \in DOMAIN answered |-> parse_events(answered[i], got[answered[i]], origin.at)]
           Heard_ == {a \in DOMAIN origin.got : Said(origin, a) # None}
           all == FlattenSeq(parsed)
<1>1. IsList(accounts) /\ ToSet(accounts) = DOMAIN origin.got
  <2>1. Parts(subject, origin.config) = accounts
    BY DEF Parts
  <2> QED BY <2>1, OriginIs
<1>2. \A a \in DOMAIN origin.got :
        /\ got[a] = Said(origin, a)
        /\ Said(origin, a) # None =>
            /\ IsList(Said(origin, a))
            /\ \A i \in DOMAIN Said(origin, a) : {Said(origin, a)[i].start, Said(origin, a)[i].end} \subseteq Int
  BY OriginIs DEF WellFormed
<1>3. AgendaOf(accounts, got, origin.at) = Ready(feed.value)
  BY DEF HasCome, Outcome
<1>4. feed.value = merge(all)
  <2> HIDE DEF got, accounts
  <2> QED BY <1>3, ReadyIs DEF AgendaOf
<1>5. origin.at \in Nat
  BY OriginIs
<1> HIDE DEF got, accounts
<1>6. IsList(answered) /\ ToSet(answered) = {accounts[i] : i \in heard}
  <2>1. heard \in SUBSET DOMAIN accounts
    OBVIOUS
  <2>2. heard \in SUBSET Nat /\ IsFiniteSet(heard)
    <3> HIDE DEF heard
    <3> QED BY <1>1, <2>1, IndicesAre
  <2> HIDE DEF heard
  <2> QED BY <2>2, OnlyHas
<1>7. {accounts[i] : i \in heard} = Heard_
  <2>1. ASSUME NEW i \in heard PROVE accounts[i] \in Heard_
    <3>1. accounts[i] \in DOMAIN origin.got
      BY <1>1 DEF ToSet
    <3> QED BY <1>2, <3>1
  <2>2. ASSUME NEW r \in Heard_ PROVE \E i \in heard : accounts[i] = r
    <3>1. PICK i \in DOMAIN accounts : accounts[i] = r
      BY <1>1 DEF ToSet
    <3> QED BY <1>2, <3>1
  <2> HIDE DEF heard, Heard_
  <2> QED BY <2>1, <2>2
<1>8. (\A i \in DOMAIN answered : answered[i] \in Heard_) /\ \A a \in Heard_ : \E i \in DOMAIN answered : answered[i] = a
  BY <1>6, <1>7 DEF ToSet
<1> HIDE DEF answered, heard
<1> DEFINE Of(a) == {e \in ToSet(Said(origin, a)) : is_meeting(e) /\ origin.at < e.end}
           Parsed(a) == parse_events(a, got[a], origin.at)
<1>9. ASSUME NEW a \in Heard_
      PROVE  /\ IsList(Parsed(a))
             /\ ToSet(Parsed(a)) = {to_meeting(a, e) : e \in Of(a)}
  <2> DEFINE events == Said(origin, a)
             s == [i \in DOMAIN events |-> to_meeting(a, events[i])]
             I == {i \in DOMAIN events : is_meeting(events[i]) /\ events[i].end > origin.at}
  <2>1. IsList(events) /\ got[a] = events /\ \A i \in DOMAIN events : events[i].end \in Int
    BY <1>2
  <2>2. I \in SUBSET DOMAIN events
    OBVIOUS
  <2>3. I \in SUBSET Nat /\ IsFiniteSet(I)
    <3> HIDE DEF I, events
    <3> QED BY <2>1, <2>2, IndicesAre
  <2>4. Parsed(a) = Only(s, I)
    BY <2>1 DEF parse_events
  <2>5. IsList(Only(s, I)) /\ ToSet(Only(s, I)) = {s[i] : i \in I}
    <3> HIDE DEF I, s
    <3> QED BY <2>3, OnlyHas
  <2>6. {s[i] : i \in I} = {to_meeting(a, events[i]) : i \in I}
    OBVIOUS
  <2>7. Of(a) = {events[i] : i \in I}
    <3>1. \A i \in DOMAIN events : events[i].end > origin.at <=> origin.at < events[i].end
      BY <1>5, <2>1
    <3> HIDE DEF events
    <3> QED BY <3>1 DEF ToSet, events
  <2>8. {to_meeting(a, events[i]) : i \in I} = {to_meeting(a, e) : e \in Of(a)}
    <3> HIDE DEF I, Of, events
    <3> QED BY <2>7
  <2> QED BY <2>4, <2>5, <2>6, <2>8
<1> HIDE DEF Of
<1>10. IsList(parsed) /\ DOMAIN parsed = DOMAIN answered
      /\ \A i \in DOMAIN answered : parsed[i] = Parsed(answered[i]) /\ IsList(parsed[i])
  <2>1. \A i \in DOMAIN answered : IsList(Parsed(answered[i]))
    <3> HIDE DEF Heard_, Parsed
    <3> QED BY <1>8, <1>9
  <2>2. DOMAIN answered = 1..Len(answered) /\ Len(answered) \in Nat
    BY <1>6, IndicesAre
  <2>3. DOMAIN parsed = DOMAIN answered /\ \A i \in DOMAIN answered : parsed[i] = Parsed(answered[i])
    OBVIOUS
  <2>4. parsed = [i \in 1..Len(answered) |-> parsed[i]]
    BY <2>2
  <2> HIDE DEF parsed, Parsed
  <2>5. parsed \in [1..Len(answered) -> ToSet(parsed)]
    BY <2>2, <2>3, <2>4 DEF ToSet
  <2> QED BY <2>1, <2>2, <2>3, <2>5 DEF IsList
<1> HIDE DEF parsed, Parsed
<1>11. IsList(all) /\ ToSet(all) = UNION {ToSet(parsed[i]) : i \in DOMAIN parsed}
  BY <1>10, FlattenIs
<1>12. \A x : x \in ToSet(all) <=> \E a \in Heard_ : \E e \in Of(a) : x = to_meeting(a, e)
  <2>1. \A x : x \in ToSet(all) <=> \E i \in DOMAIN answered : x \in ToSet(Parsed(answered[i]))
    <3> HIDE DEF all
    <3> QED BY <1>10, <1>11
  <2>2. \A x : x \in ToSet(all) <=> \E a \in Heard_ : x \in ToSet(Parsed(a))
    <3> HIDE DEF Heard_, all
    <3> QED BY <1>8, <2>1
  <2> HIDE DEF Heard_, all
  <2> QED BY <1>9, <2>2
<1>13. \A e : e \in Events <=> \E a \in Heard_ : e \in Of(a)
  BY DEF Events, Of
<1>14. \A a, e : to_meeting(a, e).url = find_meet_url(e) /\ to_meeting(a, e).start = e.start
  BY DEF to_meeting
<1>15. \A a \in Heard_ : \A e \in Of(a) : e.start \in Int
  <2>1. ASSUME NEW a \in Heard_, NEW e \in Of(a) PROVE e.start \in Int
    <3>1. PICK i \in DOMAIN Said(origin, a) : Said(origin, a)[i] = e
      BY DEF Of, ToSet
    <3> QED BY <1>2, <3>1
  <2> QED BY <2>1
<1> HIDE DEF all, Heard_
<1>16. \A x \in ToSet(all) : x.start \in Int
  BY <1>12, <1>14, <1>15
<1>17. \A i \in DOMAIN all : all[i].start \in Int
  BY <1>16 DEF ToSet
<1>18. \A m \in ToSet(all) : \E e \in Events : m.url = find_meet_url(e) /\ m.start = e.start
  BY <1>12, <1>13, <1>14
<1>19. \A e \in Events : \E m \in ToSet(all) : m.url = find_meet_url(e) /\ m.start = e.start
  BY <1>12, <1>13, <1>14
<1> QED BY <1>4, <1>11, <1>17, <1>18, <1>19

LEMMA AgendaComesRight == HasCome /\ subject = "agenda" => AgendaIsRight
<1> SUFFICES ASSUME HasCome, subject = "agenda" PROVE AgendaIsRight
  OBVIOUS
<1> DEFINE candidates == UNION {{e \in ToSet(Said(origin, a)) :
                                /\ ~e.cancelled /\ ~e.allDay
                                /\ e.start < e.end /\ origin.at < e.end
                                /\ \E link \in {e.hangout, e.video} \ {None} :
                                        link.host = "meet" /\ link.path # ""} :
                             a \in {a \in DOMAIN origin.got : Said(origin, a) # None}}
           list == feed.value
<1>1. candidates = Events
  <2>1. ASSUME NEW a \in DOMAIN origin.got, Said(origin, a) # None, NEW e \in ToSet(Said(origin, a))
        PROVE  (\E link \in {e.hangout, e.video} \ {None} : link.host = "meet" /\ link.path # "")
                    <=> find_meet_url(e) # None
    <3>1. \A link \in {e.hangout, e.video} \ {None} : link.path # None
      <4>1. PICK i \in DOMAIN Said(origin, a) : Said(origin, a)[i] = e
        BY DEF ToSet
      <4> QED BY <2>1, <4>1, OriginIs DEF WellFormed
    <3> QED BY <3>1 DEF find_meet_url, normalize_meet_url
  <2> DEFINE Heard_ == {a \in DOMAIN origin.got : Said(origin, a) # None}
             Linked(e) == \E link \in {e.hangout, e.video} \ {None} : link.host = "meet" /\ link.path # ""
             Eligible(a) == {e \in ToSet(Said(origin, a)) :
                                /\ ~e.cancelled /\ ~e.allDay
                                /\ e.start < e.end /\ origin.at < e.end
                                /\ Linked(e)}
             Mine(a) == {e \in ToSet(Said(origin, a)) : is_meeting(e) /\ origin.at < e.end}
  <2>2. ASSUME NEW a \in Heard_ PROVE Eligible(a) = Mine(a)
    <3>1. \A e \in ToSet(Said(origin, a)) : Linked(e) <=> find_meet_url(e) # None
      BY <2>1
    <3> HIDE DEF Linked, Heard_
    <3> QED BY <3>1 DEF is_meeting
  <2>3. candidates = UNION {Eligible(a) : a \in Heard_}
    OBVIOUS
  <2>4. Events = UNION {Mine(a) : a \in Heard_}
    BY DEF Events
  <2> HIDE DEF candidates, Heard_, Eligible, Mine
  <2> QED BY <2>2, <2>3, <2>4
<1>2. PICK meetings :
              /\ feed.value = merge(meetings)
              /\ IsList(meetings)
              /\ \A i \in DOMAIN meetings : meetings[i].start \in Int
              /\ \A m \in ToSet(meetings) :
                    \E e \in Events : m.url = find_meet_url(e) /\ m.start = e.start
              /\ \A e \in Events :
                    \E m \in ToSet(meetings) : m.url = find_meet_url(e) /\ m.start = e.start
  BY AgendaIs
<1>3. /\ ToSet(list) \subseteq ToSet(meetings)
      /\ \A m \in ToSet(meetings) : \E i \in DOMAIN list : list[i].url = m.url
      /\ \A i, j \in DOMAIN list :
            i < j => list[i].start <= list[j].start /\ list[i].url # list[j].url
      /\ \A i \in DOMAIN list : \A m \in ToSet(meetings) :
            m.url = list[i].url => list[i].start <= m.start
  BY <1>2, MergeIs
<1> HIDE DEF candidates
<1>4. {list[i].url : i \in DOMAIN list} = {find_meet_url(e) : e \in candidates}
  <2>1. ASSUME NEW i \in DOMAIN list PROVE \E e \in candidates : list[i].url = find_meet_url(e)
    <3>1. list[i] \in ToSet(meetings)
      BY <1>3 DEF ToSet
    <3> QED BY <1>1, <1>2, <3>1
  <2>2. ASSUME NEW e \in candidates PROVE \E i \in DOMAIN list : list[i].url = find_meet_url(e)
    BY <1>1, <1>2, <1>3
  <2> QED BY <2>1, <2>2
<1>5. ASSUME NEW i \in DOMAIN list, NEW e \in candidates, find_meet_url(e) = list[i].url
      PROVE  list[i].start <= e.start
  BY <1>1, <1>2, <1>3, <1>5
<1> QED BY <1>3, <1>4, <1>5 DEF AgendaIsRight, candidates

-----------------------------------------------------------------------------
(* The boards.                                                              *)

OnlyItsRoute(stop) == \A t : retain_route(t, stop) = Only(t, {i \in DOMAIN t : OnRoute(t[i], stop)})

\* A board shows the first that leave on its route.
LEMMA BoardIs ==
    ASSUME NEW said, IsList(said), NEW when,
           NEW stop, OnlyItsRoute(stop)
    PROVE  LET ahead == {d \in DOMAIN said : said[d].at >= when - 2}
               onRoute == Only(said, {d \in ahead : OnRoute(said[d], stop)})
               board == StopBoard(stop, said, when)
           IN  /\ IsPrefix(board.departures, onRoute)
               /\ Cardinality(ahead) <= 8 => board.departures = onRoute
<1> DEFINE ahead == {d \in DOMAIN said : said[d].at >= when - 2}
           mine == {d \in ahead : OnRoute(said[d], stop)}
           onRoute == Only(said, mine)
           left == Only(said, ahead)
           first == Take(left, 8)
           K == {i \in DOMAIN first : OnRoute(first[i], stop)}
           shown == StopBoard(stop, said, when).departures
<1>1. shown = Only(first, K)
  BY DEF OnlyItsRoute, StopBoard, ParseDepartures
<1>2. ahead \in SUBSET Nat /\ IsFiniteSet(ahead)
  <2>1. ahead \in SUBSET DOMAIN said
    OBVIOUS
  <2> HIDE DEF ahead
  <2> QED BY <2>1, IndicesAre
<1>3. mine \in SUBSET Nat /\ IsFiniteSet(mine) /\ mine \subseteq ahead
  <2> HIDE DEF ahead
  <2>1. mine \in SUBSET ahead
    OBVIOUS
  <2> HIDE DEF mine
  <2> QED BY <1>2, <2>1, FS_Subset
<1> HIDE DEF ahead, shown
<1>21. \E at, c : c = Cardinality(ahead) /\ Climbs(at, c, ahead)
  BY <1>2, ClimbExists
<1>4. PICK up, c : c = Cardinality(ahead) /\ Climbs(up, c, ahead)
  BY <1>21
<1>5. left = [n \in 1..c |-> said[up[n]]]
  <2> QED BY <1>2, <1>4, OnlyIs
<1>6. IsList(left) /\ Len(left) = c
  BY <1>2, <1>4, OnlyHas
<1>20. /\ c \in Nat
       /\ \A n \in 1..c : up[n] \in ahead /\ up[n] \in Nat
       /\ \A i, j \in 1..c : i < j => up[i] < up[j]
       /\ \A d \in ahead : \E n \in 1..c : up[n] = d
  <2>1. /\ c \in Nat /\ up \in [1..c -> ahead]
        /\ \A i, j \in 1..c : i < j => up[i] < up[j]
        /\ \A d \in ahead : \E n \in 1..c : up[n] = d
    BY <1>4 DEF Climbs
  <2> QED BY <1>2, <2>1
<1> HIDE DEF left
<1> DEFINE k == IF 8 < c THEN 8 ELSE c
<1>7. first = [n \in 1..k |-> said[up[n]]]
  <2>1. first = [n \in 1..k |-> left[n]]
    <3>1. left \in Seq(ToSet(left)) /\ 8 \in Nat
      BY <1>6 DEF IsList
    <3> HIDE DEF first
    <3> QED BY <1>6, <3>1, TakeIs DEF first
  <2>2. \A n \in 1..k : left[n] = said[up[n]]
    BY <1>5, <1>20
  <2> HIDE DEF first, k
  <2> QED BY <2>1, <2>2
<1>8. k \in Nat /\ k <= c /\ (c <= 8 => k = c)
  BY <1>20
<1> HIDE DEF first, k
<1> DEFINE L == {n \in 1..c : OnRoute(said[up[n]], stop)}
           l == Cardinality(L)
<1>9. L \in SUBSET Nat /\ IsFiniteSet(L)
  <2>1. IsFiniteSet(1..c)
    BY <1>20, FS_Interval
  <2>3. L \in SUBSET (1..c)
    OBVIOUS
  <2>4. 1..c \in SUBSET Nat
    BY <1>20
  <2> HIDE DEF L
  <2> QED BY <2>1, <2>3, <2>4, FS_Subset
<1>10. K = {i \in L : i <= k}
  <2>1. DOMAIN first = 1..k /\ \A n \in 1..k : first[n] = said[up[n]]
    BY <1>7
  <2>2. \A n : n \in 1..k <=> n \in 1..c /\ n <= k
    BY <1>20, <1>8
  <2> QED BY <2>1, <2>2
<1>11. PICK b : Climbs(b, l, L)
  <2> HIDE DEF L
  <2> QED BY <1>9, ClimbExists
<1>12. PICK m \in 0..l : /\ Climbs([n \in 1..m |-> b[n]], m, {i \in L : i <= k})
                         /\ m < l => b[m + 1] > k
  <2> HIDE DEF L, l
  <2> QED BY <1>8, <1>9, <1>11, ClimbsUpTo
<1>13. /\ l \in Nat /\ \A n \in 1..l : b[n] \in L /\ b[n] \in 1..c /\ OnRoute(said[up[b[n]]], stop)
       /\ \A i, j \in 1..l : i < j => b[i] < b[j]
       /\ \A x \in L : \E n \in 1..l : b[n] = x
  BY <1>11 DEF Climbs
<1> HIDE DEF l
<1>14. onRoute = [n \in 1..l |-> said[up[b[n]]]]
  <2> DEFINE on == [n \in 1..l |-> up[b[n]]]
  <2>1. \A n \in 1..l : on[n] \in mine
    BY <1>20, <1>13
  <2>2. \A d \in mine : \E n \in 1..l : on[n] = d
    <3>1. ASSUME NEW d \in mine PROVE \E n \in 1..l : on[n] = d
      <4>1. PICK x \in 1..c : up[x] = d
        BY <1>20
      <4>2. x \in L
        BY <4>1
      <4>3. PICK n \in 1..l : b[n] = x
        BY <1>13, <4>2
      <4> QED BY <4>1, <4>3
    <3> QED BY <3>1
  <2>3. \A i, j \in 1..l : i < j => on[i] < on[j]
    <3>1. ASSUME NEW i \in 1..l, NEW j \in 1..l, i < j PROVE on[i] < on[j]
      <4>1. b[i] \in 1..c /\ b[j] \in 1..c /\ b[i] < b[j]
        BY <1>13, <3>1
      <4> QED BY <1>20, <4>1
    <3> QED BY <3>1
  <2>4. \A n \in 1..l : on[n] = up[b[n]]
    OBVIOUS
  <2>5. on \in [1..l -> mine]
    <3>1. on = [n \in 1..l |-> on[n]]
      OBVIOUS
    <3> HIDE DEF on, mine
    <3> QED BY <2>1, <3>1
  <2> HIDE DEF on, mine
  <2>6. Climbs(on, l, mine)
    BY <1>13, <2>1, <2>2, <2>3, <2>5 DEF Climbs
  <2>7. onRoute = [n \in 1..l |-> said[on[n]]]
    BY <1>3, <2>6, OnlyIs
  <2> HIDE DEF onRoute
  <2> QED BY <2>4, <2>7
<1>15. shown = [n \in 1..m |-> said[up[b[n]]]]
  <2> DEFINE to == [n \in 1..m |-> b[n]]
  <2>1. Climbs(to, m, K)
    BY <1>10, <1>12
  <2>2. K \in SUBSET Nat /\ IsFiniteSet(K)
    <3>1. K \in SUBSET L
      <4> HIDE DEF L, K
      <4> QED BY <1>10
    <3> HIDE DEF L, K
    <3> QED BY <1>9, <3>1, FS_Subset
  <2>3. shown = [n \in 1..m |-> first[to[n]]]
    <3> HIDE DEF K, to
    <3> QED BY <1>1, <2>1, <2>2, OnlyIs
  <2>4. \A n \in 1..m : first[to[n]] = said[up[b[n]]]
    <3>1. ASSUME NEW n \in 1..m PROVE first[to[n]] = said[up[b[n]]]
      <4>1. to[n] = b[n] /\ to[n] \in K
        BY <2>1 DEF Climbs
      <4>2. b[n] \in 1..k
        BY <1>7, <4>1
      <4> HIDE DEF to, K
      <4> QED BY <1>7, <4>1, <4>2
    <3> QED BY <3>1
  <2> HIDE DEF to
  <2> QED BY <2>3, <2>4
<1>16. IsList(onRoute) /\ Len(onRoute) = l
  <2>1. IsList(onRoute)
    <3> HIDE DEF mine
    <3> QED BY <1>3, OnlyHas
  <2>2. DOMAIN onRoute = 1..l
    <3> HIDE DEF onRoute
    <3> QED BY <1>14
  <2> HIDE DEF onRoute
  <2>3. DOMAIN onRoute = 1..Len(onRoute) /\ Len(onRoute) \in Nat
    BY <2>1, IndicesAre
  <2> QED BY <1>13, <2>1, <2>2, <2>3
<1>17. shown = [n \in 1..m |-> onRoute[n]]
  <2>1. \A n \in 1..m : n \in 1..l
    BY <1>13
  <2> HIDE DEF onRoute, mine
  <2> QED BY <1>14, <1>15, <2>1
<1>18. IsPrefix(shown, onRoute)
  <2> HIDE DEF onRoute, mine
  <2> QED BY <1>16, <1>17, FirstPartIs
<1>19. c <= 8 => shown = onRoute
  <2>1. SUFFICES ASSUME c <= 8 PROVE shown = onRoute
    OBVIOUS
  <2>2. m = l
    <3>1. SUFFICES ASSUME m < l PROVE FALSE
      BY <1>13
    <3>2. m + 1 \in 1..l
      BY <1>13, <3>1
    <3>3. b[m + 1] \in 1..c
      BY <1>13, <3>2
    <3> QED BY <1>20, <1>8, <1>12, <2>1, <3>1, <3>3
  <2> HIDE DEF onRoute
  <2> QED BY <1>14, <1>15, <2>2
<1> QED BY <1>4, <1>18, <1>19 DEF ahead, shown

LEMMA TransitIs ==
    ASSUME HasCome, subject = "transit"
    PROVE  /\ feed.value = [i \in DOMAIN origin.config.stops |->
                                StopBoard(origin.config.stops[i], Said(origin, i), origin.at)]
           /\ IsList(origin.config.stops)
           /\ \A i \in DOMAIN origin.config.stops :
                /\ IsList(Said(origin, i))
                /\ \A d \in DOMAIN Said(origin, i) : Said(origin, i)[d].at \in Int
<1> DEFINE stops == origin.config.stops
<1>1. DOMAIN origin.got = DOMAIN stops
  <2>1. Parts(subject, origin.config) = [i \in DOMAIN stops |-> i]
    BY DEF Parts
  <2> QED BY <2>1, OriginIs DEF ToSet
<1>2. \A i \in DOMAIN stops : AllSaid(origin)[i] = Said(origin, i)
  BY <1>1, OriginIs
<1>3. Outcome(origin) = Ready([i \in DOMAIN stops |-> StopBoard(stops[i], AllSaid(origin)[i], origin.at)])
  BY DEF HasCome, Outcome
<1>4. feed.value = [i \in DOMAIN stops |-> StopBoard(stops[i], AllSaid(origin)[i], origin.at)]
  BY <1>3, ReadyIs DEF HasCome
<1>5. IsList(stops)
  BY OriginIs, SubjectsAssumption DEF SubjectsAssumption, HasCome
<1>6. ASSUME NEW i \in DOMAIN stops
      PROVE  WellFormed(subject, i, Said(origin, i))
  <2>1. Said(origin, i) # None
    BY <1>1 DEF HasCome, WellAsked, Heeded
  <2> QED BY <1>1, <2>1, OriginIs
<1> QED BY <1>2, <1>4, <1>5, <1>6 DEF WellFormed

LEMMA TransitComesRight == HasCome /\ subject = "transit" => BoardsAreRight
<1> SUFFICES ASSUME HasCome, subject = "transit" PROVE BoardsAreRight
  OBVIOUS
<1>1. origin.at \in Int
  BY OriginIs
<1>2. DOMAIN feed.value = DOMAIN origin.config.stops
  BY TransitIs
<1>3. ASSUME NEW i \in DOMAIN feed.value
      PROVE  LET stop == origin.config.stops[i]
            board == feed.value[i]
            said == Said(origin, i)
            ahead == {d \in DOMAIN said : said[d].at >= origin.at - 2}
            onRoute == Only(said, {d \in ahead : OnRoute(said[d], stop)})
        IN  /\ board.gid = stop.gid
            /\ stop.line # "" => IsPrefix(board.departures, onRoute)
            /\ stop.line # "" /\ Cardinality(ahead) <= 8 => board.departures = onRoute
  <2>1. feed.value[i] = StopBoard(origin.config.stops[i], Said(origin, i), origin.at)
    BY <1>2, TransitIs
  <2>2. IsList(Said(origin, i)) /\ \A d \in DOMAIN Said(origin, i) : Said(origin, i)[d].at \in Int
    BY <1>2, TransitIs
  <2>3. feed.value[i].gid = origin.config.stops[i].gid
    BY <2>1 DEF StopBoard
  <2> DEFINE stop == origin.config.stops[i]
             said == Said(origin, i)
  <2>4. ASSUME stop.line # ""
        PROVE  LET ahead == {d \in DOMAIN said : said[d].at >= origin.at - 2}
                   onRoute == Only(said, {d \in ahead : OnRoute(said[d], stop)})
                   board == StopBoard(stop, said, origin.at)
               IN  /\ IsPrefix(board.departures, onRoute)
                   /\ Cardinality(ahead) <= 8 => board.departures = onRoute
    <3>2. OnlyItsRoute(stop)
      BY <2>4, Zenon DEF retain_route, OnlyItsRoute
    <3>1. IsList(said) /\ \A d \in DOMAIN said : said[d].at \in Int
      BY <2>2
    <3> HIDE DEF stop, said
    <3> QED BY <1>1, <3>2, <3>1, BoardIs
  <2> QED BY <2>1, <2>3, <2>4
<1> QED BY <1>3 DEF BoardsAreRight

-----------------------------------------------------------------------------
(* The limits.                                                              *)

\* A window that a response may have.
IsWindow(raw) ==
    /\ {"percent", "hours"} \subseteq DOMAIN raw
    /\ raw.percent \in Int \cup {None} /\ raw.hours \in Int
    /\ \A n \in 0..100 : [raw EXCEPT !.percent = n] # None

LEMMA WindowIs ==
    ASSUME NEW raw, raw # None => IsWindow(raw)
    PROVE  LET w == ParseWindow(raw)
           IN  /\ w = None <=> (raw = None \/ raw.percent = None)
               /\ w # None => /\ w.percent = Clamp(raw.percent, 0, 100)
                              /\ w.percent \in 0..100
                              /\ w.hours = raw.hours /\ w.hours \in Int
<1>1. CASE raw = None \/ raw.percent = None
  BY <1>1 DEF ParseWindow
<1>2. CASE ~(raw = None \/ raw.percent = None)
  <2> DEFINE n == Clamp(raw.percent, 0, 100)
  <2>1. IsWindow(raw) /\ raw.percent \in Int /\ raw.hours \in Int
        /\ "percent" \in DOMAIN raw /\ "hours" \in DOMAIN raw
    BY <1>2 DEF IsWindow
  <2>2. n \in 0..100
    BY <2>1 DEF Clamp
  <2> HIDE DEF n
  <2>3. ParseWindow(raw) = [raw EXCEPT !.percent = n]
    <3>1. ParseWindow(raw) = [raw EXCEPT !.percent = Clamp(raw.percent, 0, 100)]
      BY <1>2, <2>1 DEF ParseWindow
    <3> QED BY <3>1 DEF n
  <2>4. [raw EXCEPT !.percent = n].percent = n /\ [raw EXCEPT !.percent = n].hours = raw.hours
    BY <2>1
  <2>5. [raw EXCEPT !.percent = n] # None
    BY <2>1, <2>2 DEF IsWindow
  <2> QED BY <1>2, <2>1, <2>2, <2>3, <2>4, <2>5 DEF n
<1> QED BY <1>1, <1>2

\* The windows of the tile are those of the response.
LEMMA UsageIs ==
    ASSUME HasCome, subject = "codex"
    PROVE  LET said == Said(origin, "http")
               usage == feed.value
           IN  /\ usage.primary = ParseWindow(said.primary)
               /\ usage.secondary = ParseWindow(said.secondary)
               /\ usage.limit_reached = said.limit_reached
               /\ usage.primary # None \/ usage.secondary # None
               /\ said.primary # None => IsWindow(said.primary)
               /\ said.secondary # None => IsWindow(said.secondary)
               /\ said.limit_reached \in BOOLEAN
<1> DEFINE said == Said(origin, "http")
<1>1. DOMAIN origin.got = {"http"}
  <2>1. Parts(subject, origin.config) = << "http" >>
    BY DEF Parts
  <2> QED BY <2>1, OriginIs DEF ToSet
<1>2. AllSaid(origin)["http"] = said
  BY <1>1, OriginIs
<1>3. CodexOf(said) = Ready(feed.value)
  BY <1>2 DEF HasCome, Outcome
<1>4. said # None
  BY <1>3, ReadyIs DEF CodexOf
<1>5. WellFormed(subject, "http", said)
  BY <1>1, <1>4, OriginIs
<1>6. /\ said.limit_reached \in BOOLEAN
      /\ said.primary # None => IsWindow(said.primary)
      /\ said.secondary # None => IsWindow(said.secondary)
  BY <1>5 DEF WellFormed, IsWindow
<1> HIDE DEF said
<1> DEFINE usage == [primary |-> ParseWindow(said.primary), secondary |-> ParseWindow(said.secondary),
                     limit_reached |-> said.limit_reached]
<1>7. feed.value = usage /\ ~(usage.primary = None /\ usage.secondary = None)
  BY <1>3, <1>4, ReadyIs DEF CodexOf
<1> QED BY <1>6, <1>7 DEF said

LEMMA LimitsComeRight == HasCome /\ subject = "codex" => LimitsAreRight
<1> SUFFICES ASSUME HasCome, subject = "codex" PROVE LimitsAreRight
  OBVIOUS
<1> DEFINE said == Said(origin, "http")
           windows == {w \in {said.primary, said.secondary} : w # None /\ w.percent # None}
           Percentage(w) == Clamp(w.percent, 0, 100)
           p == feed.value.primary
           q == feed.value.secondary
           face == CodexFace(feed, config.limits, now)
           short == CodexFiveHourFace(feed, config.limits, now)
<1>1. /\ p = ParseWindow(said.primary) /\ q = ParseWindow(said.secondary)
      /\ feed.value.limit_reached = said.limit_reached /\ said.limit_reached \in BOOLEAN
      /\ p # None \/ q # None
      /\ said.primary # None => IsWindow(said.primary)
      /\ said.secondary # None => IsWindow(said.secondary)
  BY UsageIs
<1>2. HasValue(feed) /\ StatusOf(feed) # "Alert" /\ StatusOf(feed) # "Disabled"
  BY DEF HasCome, HasValue, StatusOf
<1> HIDE DEF said, p, q
<1>3. /\ p = None <=> said.primary \notin windows
      /\ q = None <=> said.secondary \notin windows
      /\ p # None => p.percent = Percentage(said.primary) /\ p.percent \in 0..100
                     /\ p.hours = said.primary.hours /\ p.hours \in Int
      /\ q # None => q.percent = Percentage(said.secondary) /\ q.percent \in 0..100
                     /\ q.hours = said.secondary.hours /\ q.hours \in Int
  BY <1>1, WindowIs
<1>4. \A w \in windows : \/ w = said.primary /\ p # None /\ p.percent = Percentage(w) /\ p.hours = w.hours
                         \/ w = said.secondary /\ q # None /\ q.percent = Percentage(w) /\ q.hours = w.hours
  BY <1>3
<1> HIDE DEF windows, Percentage
<1> DEFINE b == binding(feed.value)
           f == five_hour(feed.value)
<1>5. /\ face.shows[1] = b.percent
      /\ face.status = "Alert" <=> said.limit_reached
  <2>1. \A severity : /\ UsageFace(feed, b, severity, now).shows[1] = b.percent
                      /\ UsageFace(feed, b, severity, now).status = StatusOf(feed)
                      /\ [UsageFace(feed, b, severity, now) EXCEPT !.status = "Alert"].shows[1] = b.percent
                      /\ [UsageFace(feed, b, severity, now) EXCEPT !.status = "Alert"].status = "Alert"
    BY DEF UsageFace, Face
  <2> HIDE DEF b
  <2>2. CASE said.limit_reached
    <3>1. face = [UsageFace(feed, b, "critical", now) EXCEPT !.status = "Alert"]
      BY <1>1, <1>2, <2>2 DEF CodexFace, b
    <3> HIDE DEF face
    <3> QED BY <2>1, <2>2, <3>1
  <2>3. CASE ~said.limit_reached
    <3>1. face = UsageFace(feed, b, Severity(b.percent, config.limits), now)
      BY <1>1, <1>2, <2>3 DEF CodexFace, b
    <3> HIDE DEF face
    <3> QED BY <1>2, <2>1, <2>3, <3>1
  <2> QED BY <2>2, <2>3
<1>6. /\ b \in {p, q} \ {None}
      /\ p # None => p.percent <= b.percent
      /\ q # None => q.percent <= b.percent
  <2>1. b = IF p = None THEN q ELSE IF q # None /\ q.percent > p.percent THEN q ELSE p
    BY DEF binding, p, q
  <2>2. /\ p # None => p.percent \in Int
        /\ q # None => q.percent \in Int
    BY <1>3
  <2>3. p # None \/ q # None
    BY <1>1
  <2> HIDE DEF b
  <2> QED BY <2>1, <2>2, <2>3
<1>7. \E w \in windows : face.shows[1] = Percentage(w)
  BY <1>3, <1>5, <1>6
<1>8. \A w \in windows : Percentage(w) <= face.shows[1]
  BY <1>4, <1>5, <1>6
<1>9. IF (p # None /\ p.hours < 24) \/ (q # None /\ q.hours < 24)
        THEN \/ f = p /\ p # None /\ p.hours < 24
             \/ f = q /\ q # None /\ q.hours < 24
        ELSE f = None
  <2> DEFINE both == << p, q >>
             hits == {i \in DOMAIN both : both[i] # None /\ both[i].hours < 24}
  <2>1. DOMAIN both = {1, 2} /\ both[1] = p /\ both[2] = q
    OBVIOUS
  <2>2. f = IF hits = {} THEN None ELSE both[Min(hits)]
    BY DEF five_hour, FirstOf, p, q
  <2> HIDE DEF both, f
  <2>3. hits \in SUBSET {1, 2}
    BY <2>1
  <2>4. hits # {} => Min(hits) \in hits
    <3>1. hits \in SUBSET Nat
      BY <2>3
    <3> HIDE DEF hits
    <3> QED BY <3>1, LeastExists
  <2>5. (1 \in hits <=> p # None /\ p.hours < 24) /\ (2 \in hits <=> q # None /\ q.hours < 24)
    BY <2>1
  <2> HIDE DEF hits
  <2> QED BY <2>1, <2>2, <2>3, <2>4, <2>5
<1>10. /\ f # None => short.shows[1] = f.percent
       /\ f = None => short.status = "Disabled"
  <2> HIDE DEF f
  <2> QED BY <1>2 DEF CodexFiveHourFace, f, UsageFace, Face, NoData, Disabled
<1> HIDE DEF f, short, face, b
<1>11. (\E w \in windows : w.hours < 24) <=> (p # None /\ p.hours < 24) \/ (q # None /\ q.hours < 24)
  BY <1>3, <1>4
<1>12. IF \E w \in windows : w.hours < 24
         THEN \E w \in windows : w.hours < 24 /\ short.shows[1] = Percentage(w)
         ELSE short.status = "Disabled"
  BY <1>3, <1>9, <1>10, <1>11
<1> QED BY <1>5, <1>7, <1>8, <1>12 DEF LimitsAreRight, windows, said, Percentage, face, short

-----------------------------------------------------------------------------
(* The lake.                                                                *)

LEMMA LakeComesRight == HasCome /\ subject = "lake" => LakeIsRight
<1> SUFFICES ASSUME HasCome, subject = "lake" PROVE LakeIsRight
  OBVIOUS
<1> DEFINE said == Said(origin, "http")
           lake == origin.config.lake
           hits == {i \in DOMAIN said : said[i].lake = lake}
           entry == FirstOf(said, LAMBDA e : e.lake = lake)
<1>1. DOMAIN origin.got = {"http"}
  <2>1. Parts(subject, origin.config) = << "http" >>
    BY DEF Parts
  <2> QED BY <2>1, OriginIs DEF ToSet
<1>2. AllSaid(origin)["http"] = said
  BY <1>1, OriginIs
<1>3. CurrentReading(lake, said, origin.at) = Ready(feed.value)
  BY <1>2 DEF HasCome, Outcome
<1>4. said # None
  BY <1>3, ReadyIs DEF CurrentReading
<1>5. IsList(said) /\ \A i \in DOMAIN said : said[i].at \in Int
  BY <1>1, <1>4, OriginIs DEF WellFormed
<1>6. entry = IF hits = {} THEN None ELSE said[Min(hits)]
  BY DEF FirstOf
<1> HIDE DEF said, lake
<1>7. feed.value = entry /\ entry # None /\ IsReading(entry, origin.at)
  BY <1>3, <1>4, ReadyIs DEF CurrentReading
<1>8. hits # {} => Min(hits) \in hits
  <2>1. hits \in SUBSET DOMAIN said
    OBVIOUS
  <2> HIDE DEF hits
  <2>2. hits \in SUBSET Nat
    BY <1>5, <2>1, IndicesAre
  <2> QED BY <2>2, LeastExists
<1> HIDE DEF entry
<1>9. entry.lake = lake /\ entry.at \in Int
  BY <1>5, <1>6, <1>7, <1>8
<1>10. origin.at \in Nat
  BY OriginIs
<1>11. entry.temperature # None /\ entry.temperature \in -5..50 /\ entry.at \in 0..origin.at + 1
  BY <1>7, <1>9, <1>10 DEF IsReading
<1> QED BY <1>7, <1>9, <1>11 DEF LakeIsRight, lake

\* The readings of a lake that are kept are its newest.
LEMMA ReadingsAre ==
    ASSUME NEW daily, daily # None, NEW lake, lake \in DOMAIN daily,
           IsList(daily[lake]), \A i \in DOMAIN daily[lake] : daily[lake][i].at \in Int,
           NEW when \in Nat, NEW kept, HistoryOf(lake, daily, when) = Ready(kept)
    PROVE  LET good(e) == e.temperature # None /\ e.temperature \in -5..50 /\ e.at \in 0..when + 1
               all == {e \in ToSet(daily[lake]) : good(e)}
           IN  /\ ToSet(kept) \subseteq all
               /\ \A i \in DOMAIN kept : \A e \in all \ ToSet(kept) : e.at <= kept[i].at
               /\ \A e \in ToSet(kept) : Head(kept).at >= e.at /\ e.at >= Last(kept).at
<1> DEFINE s == daily[lake]
           I == {i \in DOMAIN s : IsReading(s[i], when)}
           good == Only(s, I)
           key == [i \in DOMAIN good |-> -good[i].at]
           all == {e \in ToSet(s) : e.temperature # None /\ e.temperature \in -5..50
                                    /\ e.at \in 0..when + 1}
<1>1. I \in SUBSET Nat /\ IsFiniteSet(I)
  <2>1. I \in SUBSET DOMAIN s
    OBVIOUS
  <2> HIDE DEF I
  <2> QED BY <2>1, IndicesAre
<1>2. good # << >> /\ kept = Take(SortedBy(good, key), 7)
  <2>1. ReadingsOf(lake, daily, when) = good
    BY DEF ReadingsOf
  <2> HIDE DEF good
  <2> QED BY <2>1, ReadyIs DEF HistoryOf, HistoryDays
<1>3. {s[i] : i \in I} = all
  <2>1. ASSUME NEW i \in DOMAIN s
        PROVE  IsReading(s[i], when) <=> /\ s[i].temperature # None /\ s[i].temperature \in -5..50
                                         /\ s[i].at \in 0..when + 1
    <3>1. s[i].at \in Int
      OBVIOUS
    <3> HIDE DEF s
    <3> QED BY <3>1 DEF IsReading
  <2> HIDE DEF s
  <2> QED BY <2>1 DEF ToSet
<1> HIDE DEF I
<1>4. IsList(good) /\ ToSet(good) = all /\ \A x \in all : x.at \in Int
  <2>1. ToSet(good) = {s[i] : i \in I} /\ IsList(good)
    BY <1>1, OnlyHas
  <2>2. \A x \in all : x.at \in Int
    OBVIOUS
  <2> HIDE DEF all, good
  <2> QED BY <1>3, <2>1, <2>2
<1> HIDE DEF good, all
<1>5. \A i \in DOMAIN good : good[i] \in all /\ key[i] = -good[i].at /\ good[i].at \in Int
  BY <1>4 DEF ToSet
<1>6. key \in [DOMAIN good -> Int]
  BY <1>5
<1>7. Len(good) \in Nat /\ DOMAIN good = 1..Len(good) /\ Len(good) # 0
  <2>1. Len(good) \in Nat /\ DOMAIN good = 1..Len(good)
    BY <1>4, IndicesAre
  <2>2. Len(good) = 0 => ToSet(good) = {}
    BY <2>1 DEF ToSet
  <2> QED BY <1>2, <1>4, <2>1, <2>2, EmptyIs
<1> HIDE DEF key
<1>8. PICK k, to : Leads(kept, k, to, good, key, 7)
  <2>1. 7 \in Nat
    OBVIOUS
  <2> QED BY <1>2, <1>4, <1>6, <2>1, FirstSortedIs
<1>9. k \in Nat /\ 1 <= k /\ DOMAIN kept = 1..k
  <2>1. k \in Nat /\ 1 <= k
    <3>1. k = IF 7 < Len(good) THEN 7 ELSE Len(good)
      BY <1>8 DEF Leads
    <3>2. ASSUME NEW c \in Nat, c # 0, k = IF 7 < c THEN 7 ELSE c
          PROVE  k \in Nat /\ 1 <= k
      BY <3>2
    <3>3. Len(good) \in Nat /\ Len(good) # 0
      BY <1>7
    <3> QED BY <3>1, <3>2, <3>3
  <2>2. DOMAIN kept = 1..Len(kept) /\ Len(kept) = k
    BY <1>8, IndicesAre DEF Leads
  <2> QED BY <2>1, <2>2
<1>10. \A n \in 1..k : kept[n] = good[to[n]] /\ kept[n] \in all /\ key[to[n]] = -kept[n].at
                       /\ kept[n].at \in Int
  BY <1>5, <1>8 DEF Leads
<1>11. \A m, n \in 1..k : m <= n => kept[n].at <= kept[m].at
  <2>1. ASSUME NEW m \in 1..k, NEW n \in 1..k, m <= n PROVE kept[n].at <= kept[m].at
    <3>1. key[to[m]] <= key[to[n]]
      BY <1>8, <2>1 DEF Leads
    <3>2. key[to[m]] = -kept[m].at /\ key[to[n]] = -kept[n].at /\ kept[m].at \in Int /\ kept[n].at \in Int
      BY <1>10
    <3> QED BY <3>1, <3>2
  <2> QED BY <2>1
<1>12. ToSet(kept) \subseteq all
  BY <1>9, <1>10 DEF ToSet
<1>13. ASSUME NEW i \in DOMAIN kept, NEW e \in all \ ToSet(kept)
       PROVE  e.at <= kept[i].at
  <2>1. PICK j \in DOMAIN good : good[j] = e /\ \A n \in 1..k : key[to[n]] <= key[j]
    BY <1>4, <1>8 DEF Leads
  <2>2. key[to[i]] <= key[j] /\ key[to[i]] = -kept[i].at /\ key[j] = -e.at
        /\ kept[i].at \in Int /\ e.at \in Int
    BY <1>5, <1>9, <1>10, <2>1
  <2> QED BY <2>2
<1>14. ASSUME NEW e \in ToSet(kept)
       PROVE  Head(kept).at >= e.at /\ e.at >= Last(kept).at
  <2>1. PICK n \in 1..k : kept[n] = e
    BY <1>9 DEF ToSet
  <2>2. Head(kept) = kept[1] /\ Last(kept) = kept[k]
    <3>1. kept \in Seq(ToSet(kept)) /\ Len(kept) = k
      BY <1>8 DEF Leads, IsList
    <3>2. kept # << >>
      BY <1>9, <3>1
    <3> QED BY <3>1, <3>2 DEF Last
  <2>3. 1 \in 1..k /\ k \in 1..k /\ 1 <= n /\ n <= k
    BY <1>9
  <2>4. kept[n].at <= kept[1].at /\ kept[k].at <= kept[n].at
    BY <1>11, <2>3
  <2>5. kept[1].at \in Int /\ kept[n].at \in Int /\ kept[k].at \in Int
    BY <1>10, <2>3
  <2> QED BY <2>1, <2>2, <2>4, <2>5
<1> QED BY <1>12, <1>13, <1>14 DEF all

LEMMA HistoryComesRight == HasCome /\ subject = "history" => LakeIsRight
<1> SUFFICES ASSUME HasCome, subject = "history" PROVE LakeIsRight
  OBVIOUS
<1> DEFINE said == Said(origin, "http")
           lake == origin.config.lake
<1>1. DOMAIN origin.got = {"http"}
  <2>1. Parts(subject, origin.config) = << "http" >>
    BY DEF Parts
  <2> QED BY <2>1, OriginIs DEF ToSet
<1>2. AllSaid(origin)["http"] = said
  BY <1>1, OriginIs
<1>3. HistoryOf(lake, said, origin.at) = Ready(feed.value)
  BY <1>2 DEF HasCome, Outcome
<1>4. said # None /\ lake \in DOMAIN said
  <2>1. SUFFICES ASSUME ~(said # None /\ lake \in DOMAIN said) PROVE FALSE
    OBVIOUS
  <2> HIDE DEF said, lake
  <2>2. ReadingsOf(lake, said, origin.at) = << >>
    BY <2>1 DEF ReadingsOf
  <2> QED BY <1>3, <2>2, ReadyIs DEF HistoryOf
<1>5. IsList(said[lake]) /\ \A i \in DOMAIN said[lake] : said[lake][i].at \in Int
  <2>1. WellFormed(subject, "http", said)
    BY <1>1, <1>4, OriginIs
  <2> HIDE DEF said, lake
  <2> QED BY <1>4, <2>1 DEF WellFormed
<1>6. origin.at \in Nat
  BY OriginIs
<1> HIDE DEF said, lake
<1> QED BY <1>3, <1>4, <1>5, <1>6, ReadingsAre DEF LakeIsRight, said, lake

-----------------------------------------------------------------------------
(* The forecast.                                                            *)

IsPoint(p) == p.time \in Int /\ p.temperature \in Int

\* The first n of the points that are of a date.
Hours(points, n, date) == {points[k] : k \in {k \in 1..n : DateOf(points[k].time) = date}}

\* A day is what its hours are.
DayIs(day, hours) ==
    /\ {"date", "at", "high", "low", "rain", "symbol"} \subseteq DOMAIN day
    /\ day.high \in Int /\ day.low \in Int
    /\ \A p \in hours : p.temperature \in day.low..day.high
    /\ \E p \in hours : p.temperature = day.low
    /\ \E p \in hours : p.temperature = day.high
    /\ \E p \in hours : /\ p.symbol = day.symbol /\ p.time = day.at
                        /\ \A q \in hours : FromNoon(p.time) <= FromNoon(q.time)

\* The days are those of the first n points.
DaysAre(days, points, n) ==
    /\ IsList(days)
    /\ \A i \in DOMAIN days : days[i].date \in Int /\ DayIs(days[i], Hours(points, n, days[i].date))
    /\ \A i, j \in DOMAIN days : i < j => days[i].date < days[j].date
    /\ \A k \in 1..n : \E i \in DOMAIN days : days[i].date = DateOf(points[k].time)
    /\ IF n = 0 THEN days = << >> ELSE days # << >> /\ Last(days).date = DateOf(points[n].time)

LEMMA TimeIs == \A a, b \in Int : /\ FromNoon(a) \in Nat /\ DateOf(a) \in Int
                                  /\ a <= b => DateOf(a) <= DateOf(b)
<1> SUFFICES ASSUME NEW a \in Int, NEW b \in Int
             PROVE  FromNoon(a) \in Nat /\ DateOf(a) \in Int /\ (a <= b => DateOf(a) <= DateOf(b))
  OBVIOUS
<1>1. a % 24 \in Int
  OBVIOUS
<1>2. FromNoon(a) \in Nat
  BY <1>1 DEF FromNoon, HourOfDay
<1>3. DateOf(a) \in Int /\ (a <= b => DateOf(a) <= DateOf(b))
  BY DEF DateOf
<1> QED BY <1>2, <1>3

LEMMA NewDayIs ==
    ASSUME NEW p, IsPoint(p)
    PROVE  DayIs(NewDay(p), {p}) /\ NewDay(p).date = DateOf(p.time)
<1>1. /\ DOMAIN NewDay(p) = {"date", "at", "high", "low", "rain", "symbol"}
      /\ NewDay(p).high = p.temperature /\ NewDay(p).low = p.temperature
      /\ NewDay(p).at = p.time /\ NewDay(p).symbol = p.symbol /\ NewDay(p).date = DateOf(p.time)
  BY DEF NewDay
<1>2. FromNoon(p.time) \in Nat /\ p.temperature \in Int
  BY TimeIs DEF IsPoint
<1> QED BY <1>1, <1>2 DEF DayIs

LEMMA WithPointIs ==
    ASSUME NEW p, IsPoint(p), NEW hours, \A q \in hours : IsPoint(q), NEW day, DayIs(day, hours)
    PROVE  DayIs(WithPoint(day, p), hours \cup {p}) /\ WithPoint(day, p).date = day.date
<1> DEFINE then == WithPoint(day, p)
           nearer == FromNoon(p.time) < FromNoon(day.at)
<1>1. {"date", "at", "high", "low", "rain", "symbol"} \subseteq DOMAIN day
  BY DEF DayIs
<1>2. /\ DOMAIN then = DOMAIN day
      /\ then.high = Greatest(day.high, p.temperature)
      /\ then.low = Least(day.low, p.temperature)
      /\ then.at = IF nearer THEN p.time ELSE day.at
      /\ then.symbol = IF nearer THEN p.symbol ELSE day.symbol
      /\ then.date = day.date
  BY <1>1 DEF WithPoint
<1>3. p.temperature \in Int /\ day.high \in Int /\ day.low \in Int
      /\ \A q \in hours : q.temperature \in Int
  BY DEF DayIs, IsPoint
<1>4. /\ \A q \in hours : q.temperature \in day.low..day.high
      /\ \E q \in hours : q.temperature = day.low
      /\ \E q \in hours : q.temperature = day.high
  BY DEF DayIs
<1>5. PICK noon \in hours : noon.symbol = day.symbol /\ noon.time = day.at
                            /\ \A q \in hours : FromNoon(noon.time) <= FromNoon(q.time)
  BY DEF DayIs
<1>6. FromNoon(p.time) \in Nat /\ FromNoon(noon.time) \in Nat
      /\ \A q \in hours : FromNoon(q.time) \in Nat
  BY TimeIs DEF IsPoint
<1> HIDE DEF then
<1>7. then.high \in Int /\ then.low \in Int
      /\ then.low <= day.low /\ then.low <= p.temperature
      /\ day.high <= then.high /\ p.temperature <= then.high
      /\ (then.low = day.low \/ then.low = p.temperature)
      /\ (then.high = day.high \/ then.high = p.temperature)
  BY <1>2, <1>3 DEF Greatest, Least
<1>8. \A q \in hours \cup {p} : q.temperature \in then.low..then.high
  <2>1. ASSUME NEW q \in hours PROVE q.temperature \in then.low..then.high
    <3>1. q.temperature \in Int /\ day.low <= q.temperature /\ q.temperature <= day.high
      BY <1>3, <1>4
    <3> QED BY <1>3, <1>7, <3>1
  <2>2. p.temperature \in then.low..then.high
    BY <1>3, <1>7
  <2> QED BY <2>1, <2>2
<1>9. /\ \E q \in hours \cup {p} : q.temperature = then.low
      /\ \E q \in hours \cup {p} : q.temperature = then.high
  BY <1>4, <1>7
<1>10. \E r \in hours \cup {p} : /\ r.symbol = then.symbol /\ r.time = then.at
                                 /\ \A q \in hours \cup {p} : FromNoon(r.time) <= FromNoon(q.time)
  <2>1. CASE nearer
    <3>1. p.symbol = then.symbol /\ p.time = then.at
      BY <1>2, <2>1
    <3>2. \A q \in hours : FromNoon(p.time) <= FromNoon(q.time)
      BY <1>5, <1>6, <2>1
    <3> QED BY <1>6, <3>1, <3>2
  <2>2. CASE ~nearer
    <3>1. noon.symbol = then.symbol /\ noon.time = then.at
      BY <1>2, <1>5, <2>2
    <3>2. FromNoon(noon.time) <= FromNoon(p.time)
      BY <1>5, <1>6, <2>2
    <3> QED BY <1>5, <3>1, <3>2
  <2> QED BY <2>1, <2>2
<1>11. {"date", "at", "high", "low", "rain", "symbol"} \subseteq DOMAIN then
  BY <1>1, <1>2
<1> QED BY <1>2, <1>7, <1>8, <1>9, <1>10, <1>11 DEF DayIs, then

\* The hours of another date, and of the date of the next point.
LEMMA HoursAre ==
    ASSUME NEW points, NEW n \in Nat, NEW date
    PROVE  Hours(points, n + 1, date) = IF DateOf(points[n + 1].time) = date
                                          THEN Hours(points, n, date) \cup {points[n + 1]}
                                          ELSE Hours(points, n, date)
<1>1. 1..n + 1 = (1..n) \cup {n + 1}
  OBVIOUS
<1> QED BY <1>1 DEF Hours

\* A point makes the days of one more.
LEMMA AddedIs ==
    ASSUME NEW points, NEW n \in Nat, \A k \in 1..n + 1 : IsPoint(points[k]),
           n > 0 => points[n].time <= points[n + 1].time, NEW days, DaysAre(days, points, n)
    PROVE  DaysAre(Added(days, points[n + 1]), points, n + 1)
<1> DEFINE p == points[n + 1]
           date == DateOf(p.time)
           m == Len(days)
           then == Added(days, p)
<1>1. IsPoint(p) /\ p.time \in Int /\ date \in Int
  BY TimeIs DEF IsPoint
<1>2. IsList(days) /\ days \in Seq(ToSet(days)) /\ DOMAIN days = 1..m /\ m \in Nat
  BY IndicesAre DEF DaysAre, IsList
<1>3. \A i \in 1..m : days[i].date \in Int /\ DayIs(days[i], Hours(points, n, days[i].date))
  BY <1>2 DEF DaysAre
<1>4. \A i, j \in 1..m : i < j => days[i].date < days[j].date
  BY <1>2 DEF DaysAre
<1>5. \A k \in 1..n : \E i \in 1..m : days[i].date = DateOf(points[k].time)
  BY <1>2 DEF DaysAre
<1>6. m = 0 <=> days = << >>
  BY <1>2
<1>7. m # 0 => m \in 1..m /\ Last(days) = days[m]
  BY <1>2 DEF Last
<1>8. m # 0 => days[m].date <= date
  <2>1. SUFFICES ASSUME m # 0 PROVE days[m].date <= date
    OBVIOUS
  <2>2. n # 0 /\ Last(days).date = DateOf(points[n].time)
    BY <1>6, <2>1 DEF DaysAre
  <2>3. n \in 1..n + 1 /\ n > 0
    BY <2>2
  <2>4. points[n].time \in Int /\ points[n].time <= p.time
    BY <2>3 DEF IsPoint
  <2>5. DateOf(points[n].time) <= date
    BY <1>1, <2>4, TimeIs
  <2> QED BY <1>7, <2>1, <2>2, <2>5
<1>9. \A i \in 1..m : i # m => days[i].date < date
  <2>1. ASSUME NEW i \in 1..m, i # m PROVE days[i].date < date
    <3>1. m \in 1..m /\ i < m /\ m # 0
      <4>1. m \in Nat
        BY <1>2
      <4> HIDE DEF m
      <4> QED BY <2>1, <4>1
    <3>2. days[i].date < days[m].date /\ days[i].date \in Int /\ days[m].date \in Int
      BY <1>3, <1>4, <3>1
    <3> QED BY <1>1, <1>8, <3>1, <3>2
  <2> QED BY <2>1
<1>10. \A d : Hours(points, n + 1, d) = IF date = d THEN Hours(points, n, d) \cup {p}
                                                    ELSE Hours(points, n, d)
  BY HoursAre
<1>11. \A d : \A q \in Hours(points, n, d) : IsPoint(q)
  BY DEF Hours
<1> HIDE DEF p, date, m
<1>12. CASE m # 0 /\ days[m].date = date
  <2> DEFINE last == WithPoint(days[m], p)
  <2>1. then = Append(Front(days), last)
    BY <1>6, <1>7, <1>12 DEF Added, date
  <2>2. DayIs(last, Hours(points, n, date) \cup {p}) /\ last.date = date
    <3>1. m \in 1..m
      BY <1>7, <1>12
    <3>2. DayIs(days[m], Hours(points, n, date))
      BY <1>3, <1>12, <3>1
    <3> QED BY <1>1, <1>11, <1>12, <3>2, WithPointIs
  <2> HIDE DEF last
  <2>13. /\ DOMAIN then = 1..m /\ then[m] = last /\ \A i \in 1..m : i # m => then[i] = days[i]
         /\ then \in Seq(ToSet(days) \cup {last})
    <3> DEFINE front == Front(days)
    <3>1. front = [i \in 1..m - 1 |-> days[i]]
      BY <1>2, <1>6, <1>12 DEF Front, m
    <3>2. front \in Seq(ToSet(days)) /\ Len(front) = m - 1
      <4>1. \A i \in 1..m - 1 : days[i] \in ToSet(days)
        BY <1>2 DEF ToSet
      <4>2. m - 1 \in Nat
        BY <1>2, <1>12
      <4> HIDE DEF front
      <4> QED BY <3>1, <4>1, <4>2
    <3> HIDE DEF front, then
    <3>3. front \in Seq(ToSet(days) \cup {last})
      BY <3>2
    <3>4. /\ DOMAIN Append(front, last) = 1..(m - 1) + 1
          /\ Append(front, last)[(m - 1) + 1] = last
          /\ \A i \in 1..m - 1 : Append(front, last)[i] = front[i]
      BY <3>2, <3>3, <1>2
    <3>5. (m - 1) + 1 = m /\ \A i \in 1..m : i # m => i \in 1..m - 1
      BY <1>2
    <3>6. then = Append(front, last)
      BY <2>1 DEF front
    <3>7. Append(front, last) \in Seq(ToSet(days) \cup {last})
      BY <3>3
    <3> QED BY <3>1, <3>4, <3>5, <3>6, <3>7
  <2>3. DOMAIN then = 1..m /\ then[m] = last /\ \A i \in 1..m : i # m => then[i] = days[i]
    BY <2>13
  <2>11. \E S : then \in Seq(S)
    BY <2>13
  <2> HIDE DEF then
  <2>4. \A i \in 1..m : then[i].date = days[i].date
    BY <1>12, <2>2, <2>3
  <2>5. ASSUME NEW i \in 1..m
        PROVE  then[i].date \in Int /\ DayIs(then[i], Hours(points, n + 1, then[i].date))
    <3>1. CASE i = m
      BY <1>1, <1>10, <2>2, <2>3, <3>1
    <3>2. CASE i # m
      <4>1. days[i].date # date /\ then[i] = days[i]
        BY <1>1, <1>3, <1>9, <2>3, <3>2
      <4> QED BY <1>3, <1>10, <4>1
    <3> QED BY <3>1, <3>2
  <2>6. \A i, j \in 1..m : i < j => then[i].date < then[j].date
    BY <1>4, <2>4
  <2>7. \A k \in 1..n + 1 : \E i \in 1..m : then[i].date = DateOf(points[k].time)
    <3>1. ASSUME NEW k \in 1..n + 1 PROVE \E i \in 1..m : then[i].date = DateOf(points[k].time)
      <4>1. CASE k = n + 1
        BY <1>7, <1>12, <2>4, <4>1 DEF date, p
      <4>2. CASE k # n + 1
        <5>1. k \in 1..n
          BY <4>2
        <5> QED BY <1>5, <2>4, <5>1
      <4> QED BY <4>1, <4>2
    <3> QED BY <3>1
  <2>8. IsList(then) /\ Len(then) = m
    <3>1. PICK S : then \in Seq(S)
      BY <2>11
    <3>2. IsList(then) /\ DOMAIN then = 1..Len(then) /\ Len(then) \in Nat
      BY <3>1, SeqIsList, IndicesAre
    <3> QED BY <1>2, <2>3, <3>2
  <2>9. then # << >> /\ Last(then).date = DateOf(points[n + 1].time)
    <3>1. then # << >>
      BY <1>12, <2>8
    <3>2. Last(then) = then[m]
      BY <2>8 DEF Last
    <3> QED BY <2>2, <2>3, <3>1, <3>2 DEF date, p
  <2>10. n + 1 # 0
    OBVIOUS
  <2> QED BY <2>3, <2>5, <2>6, <2>7, <2>8, <2>9, <2>10 DEF DaysAre, then, p
<1>13. CASE ~(m # 0 /\ days[m].date = date)
  <2> DEFINE last == NewDay(p)
  <2>1. then = Append(days, last)
    BY <1>6, <1>7, <1>13 DEF Added, date
  <2>2. DayIs(last, {p}) /\ last.date = date
    BY <1>1, NewDayIs DEF date
  <2> HIDE DEF last
  <2>12. \E S : then \in Seq(S)
    <3>1. Append(days, last) \in Seq(ToSet(days) \cup {last})
      BY <1>2
    <3> HIDE DEF then
    <3> QED BY <2>1, <3>1
  <2>3. DOMAIN then = 1..m + 1 /\ then[m + 1] = last /\ \A i \in 1..m : then[i] = days[i]
    <3>1. days \in Seq(ToSet(days) \cup {last})
      BY <1>2
    <3> HIDE DEF then
    <3> QED BY <1>2, <2>1, <3>1 DEF m
  <2>4. \A i \in 1..m : days[i].date < date
    <3>1. ASSUME NEW i \in 1..m PROVE days[i].date < date
      <4>1. CASE i = m
        <5>1. m # 0 /\ m \in 1..m
          BY <1>2, <4>1
        <5> QED BY <1>1, <1>3, <1>8, <1>13, <4>1, <5>1
      <4>2. CASE i # m
        BY <1>9, <4>2
      <4> QED BY <4>1, <4>2
    <3> QED BY <3>1
  <2>5. Hours(points, n, date) = {}
    <3>1. ASSUME NEW k \in 1..n PROVE DateOf(points[k].time) # date
      <4>1. PICK i \in 1..m : days[i].date = DateOf(points[k].time)
        BY <1>5
      <4> QED BY <1>1, <1>3, <2>4, <4>1
    <3> QED BY <3>1 DEF Hours
  <2> HIDE DEF then
  <2>6. ASSUME NEW i \in 1..m + 1
        PROVE  then[i].date \in Int /\ DayIs(then[i], Hours(points, n + 1, then[i].date))
    <3>1. CASE i = m + 1
      BY <1>1, <1>10, <2>2, <2>3, <2>5, <3>1
    <3>2. CASE i # m + 1
      <4>1. i \in 1..m
        BY <1>2, <3>2
      <4>2. days[i].date # date /\ then[i] = days[i]
        BY <1>1, <1>3, <2>3, <2>4, <4>1
      <4> QED BY <1>3, <1>10, <4>1, <4>2
    <3> QED BY <3>1, <3>2
  <2>7. \A i, j \in 1..m + 1 : i < j => then[i].date < then[j].date
    <3>1. ASSUME NEW i \in 1..m + 1, NEW j \in 1..m + 1, i < j PROVE then[i].date < then[j].date
      <4>1. i \in 1..m /\ (j = m + 1 \/ j \in 1..m)
        BY <1>2, <3>1
      <4> QED BY <1>4, <2>2, <2>3, <2>4, <3>1, <4>1
    <3> QED BY <3>1
  <2>8. \A k \in 1..n + 1 : \E i \in 1..m + 1 : then[i].date = DateOf(points[k].time)
    <3>1. ASSUME NEW k \in 1..n + 1 PROVE \E i \in 1..m + 1 : then[i].date = DateOf(points[k].time)
      <4>1. CASE k = n + 1
        <5>1. m + 1 \in 1..m + 1
          BY <1>2
        <5> QED BY <2>2, <2>3, <4>1, <5>1 DEF date, p
      <4>2. CASE k # n + 1
        <5>1. k \in 1..n
          BY <4>2
        <5>2. PICK i \in 1..m : days[i].date = DateOf(points[k].time)
          BY <1>5, <5>1
        <5>3. i \in 1..m + 1
          BY <1>2
        <5> QED BY <2>3, <5>2, <5>3
      <4> QED BY <4>1, <4>2
    <3> QED BY <3>1
  <2>9. IsList(then) /\ Len(then) = m + 1
    <3>1. PICK S : then \in Seq(S)
      BY <2>12
    <3>2. IsList(then) /\ DOMAIN then = 1..Len(then) /\ Len(then) \in Nat
      BY <3>1, SeqIsList, IndicesAre
    <3> QED BY <1>2, <2>3, <3>2
  <2>10. then # << >> /\ Last(then).date = DateOf(points[n + 1].time)
    <3>1. then # << >>
      BY <1>2, <2>9
    <3>2. Last(then) = then[m + 1]
      BY <2>9 DEF Last
    <3> QED BY <2>2, <2>3, <3>1, <3>2 DEF date, p
  <2>11. n + 1 # 0
    OBVIOUS
  <2> QED BY <2>3, <2>6, <2>7, <2>8, <2>9, <2>10, <2>11 DEF DaysAre, then, p
<1> QED BY <1>12, <1>13

\* The days of points in the order of their times.
LEMMA AggregateIs ==
    ASSUME NEW points, IsList(points), \A k \in DOMAIN points : IsPoint(points[k]),
           \A i, j \in DOMAIN points : i < j => points[i].time <= points[j].time
    PROVE  DaysAre(aggregate_days(points), points, Len(points))
<1> DEFINE Goes(f, k) == f = [n \in 0..k |-> IF n = 0 THEN << >> ELSE Added(f[n - 1], points[n])]
<1>1. PICK N : N = Len(points) /\ N \in Nat /\ DOMAIN points = 1..N
  BY IndicesAre
<1> DEFINE missing == {k \in 0..N : ~\E f : Goes(f, k)}
<1>2. missing = {}
  <2>1. SUFFICES ASSUME missing # {} PROVE FALSE
    OBVIOUS
  <2> DEFINE k == Min(missing)
  <2>2. k \in missing /\ \A x \in missing : k <= x
    <3>1. missing \in SUBSET Nat
      <4> HIDE DEF Goes
      <4> QED BY <1>1
    <3> HIDE DEF missing
    <3> QED BY <2>1, <3>1, LeastExists
  <2> HIDE DEF k
  <2>3. k \in 0..N /\ k \in Nat
    BY <1>1, <2>2
  <2>4. CASE k = 0
    <3> DEFINE f == [n \in 0..0 |-> << >>]
    <3>1. f = [n \in 0..0 |-> IF n = 0 THEN << >> ELSE Added(f[n - 1], points[n])]
      OBVIOUS
    <3>2. Goes(f, 0)
      <4> HIDE DEF f
      <4> QED BY <3>1
    <3> HIDE DEF f, Goes
    <3> QED BY <2>2, <2>4, <3>2
  <2>5. CASE k # 0
    <3>1. k - 1 \in 0..N /\ k - 1 \notin missing
      <4>1. k - 1 \in 0..N /\ ~(k <= k - 1)
        BY <1>1, <2>3, <2>5
      <4> HIDE DEF missing
      <4> QED BY <2>2, <4>1
    <3>2. PICK g : Goes(g, k - 1)
      BY <3>1
    <3> DEFINE f == [n \in 0..k |-> IF n = k THEN Added(g[k - 1], points[k]) ELSE g[n]]
    <3>3. g = [n \in 0..k - 1 |-> IF n = 0 THEN << >> ELSE Added(g[n - 1], points[n])]
      BY <3>2
    <3> HIDE DEF Goes
    <3>4. f = [n \in 0..k |-> IF n = 0 THEN << >> ELSE Added(f[n - 1], points[n])]
      <4>1. ASSUME NEW n \in 0..k
            PROVE  f[n] = IF n = 0 THEN << >> ELSE Added(f[n - 1], points[n])
        <5>1. CASE n = k
          <6>1. k - 1 \in 0..k /\ k - 1 # k
            BY <2>3, <2>5
          <6>2. f[k - 1] = g[k - 1]
            BY <6>1
          <6> QED BY <2>5, <5>1, <6>2
        <5>2. CASE n # k
          <6>1. n \in 0..k - 1
            BY <5>2, <2>3
          <6>2. g[n] = IF n = 0 THEN << >> ELSE Added(g[n - 1], points[n])
            BY <3>3, <6>1
          <6>3. n # 0 => f[n - 1] = g[n - 1]
            BY <6>1, <2>3
          <6>4. f[n] = g[n]
            BY <5>2
          <6> HIDE DEF f
          <6> QED BY <6>2, <6>3, <6>4
        <5> QED BY <5>1, <5>2
      <4>2. f = [n \in 0..k |-> f[n]]
        OBVIOUS
      <4> HIDE DEF f
      <4> QED BY <4>1, <4>2
    <3>5. Goes(f, k)
      <4> HIDE DEF f
      <4> QED BY <3>4 DEF Goes
    <3> HIDE DEF f
    <3> QED BY <2>2, <3>5
  <2> QED BY <2>4, <2>5
<1> DEFINE All(f) == f = [n \in 0..Len(points) |-> IF n = 0 THEN << >> ELSE Added(f[n - 1], points[n])]
           days == CHOOSE f : All(f)
<1>3. All(days)
  <2>1. N \in 0..N
    BY <1>1
  <2>2. PICK f : Goes(f, N)
    <3> HIDE DEF Goes
    <3> QED BY <1>2, <2>1
  <2>3. All(f)
    BY <1>1, <2>2
  <2> HIDE DEF All
  <2> QED BY <2>3
<1>4. aggregate_days(points) = days[N]
  BY <1>1 DEF aggregate_days
<1> HIDE DEF days
<1>5. \A n \in 0..N : days[n] = IF n = 0 THEN << >> ELSE Added(days[n - 1], points[n])
  BY <1>1, <1>3
<1> DEFINE wrong == {n \in 0..N : ~DaysAre(days[n], points, n)}
<1>6. wrong = {}
  <2>1. SUFFICES ASSUME wrong # {} PROVE FALSE
    OBVIOUS
  <2> DEFINE k == Min(wrong)
  <2>2. k \in wrong /\ \A x \in wrong : k <= x
    <3>1. wrong \in SUBSET Nat
      BY <1>1
    <3> HIDE DEF wrong
    <3> QED BY <2>1, <3>1, LeastExists
  <2> HIDE DEF k
  <2>3. k \in 0..N /\ k \in Nat
    BY <1>1, <2>2
  <2>4. CASE k = 0
    <3>1. DaysAre(<< >>, points, 0)
      <4>1. IsList(<< >>) /\ DOMAIN << >> = {}
        BY DEF IsList, ToSet
      <4> QED BY <4>1 DEF DaysAre
    <3>2. days[0] = << >>
      BY <1>5, <2>3, <2>4
    <3> QED BY <2>2, <2>4, <3>1, <3>2
  <2>5. CASE k # 0
    <3>1. PICK n \in Nat : n + 1 = k
      <4>1. k - 1 \in Nat /\ (k - 1) + 1 = k
        BY <2>3, <2>5
      <4> QED BY <4>1
    <3>2. n \in 0..N /\ ~(k <= n) /\ (n + 1) - 1 = n /\ n + 1 \in 1..N
      BY <1>1, <2>3, <3>1
    <3>3. DaysAre(days[n], points, n)
      BY <2>2, <3>2
    <3>4. \A i \in 1..n + 1 : IsPoint(points[i])
      BY <1>1, <3>2
    <3>5. n > 0 => points[n].time <= points[n + 1].time
      BY <1>1, <3>2
    <3>6. DaysAre(Added(days[n], points[n + 1]), points, n + 1)
      BY <3>3, <3>4, <3>5, AddedIs
    <3>7. days[k] = Added(days[k - 1], points[k])
      BY <1>5, <2>3, <2>5
    <3>8. days[k] = Added(days[n], points[n + 1])
      BY <3>1, <3>2, <3>7
    <3> QED BY <2>2, <3>1, <3>6, <3>8
  <2> QED BY <2>4, <2>5
<1>7. N \in 0..N
  BY <1>1
<1> HIDE DEF All
<1> QED BY <1>1, <1>4, <1>6, <1>7

LEMMA ForecastComesRight == HasCome /\ subject = "forecast" => ForecastIsRight
<1> SUFFICES ASSUME HasCome, subject = "forecast" PROVE ForecastIsRight
  OBVIOUS
<1> DEFINE said == Said(origin, "http")
           I == {i \in DOMAIN said : Plausible(said[i])}
           plausible == Only(said, I)
           key == [i \in DOMAIN plausible |-> plausible[i].time]
           points == SortedBy(plausible, key)
           all == {p \in ToSet(said) : Plausible(p)}
<1>1. DOMAIN origin.got = {"http"}
  <2>1. Parts(subject, origin.config) = << "http" >>
    BY DEF Parts
  <2> QED BY <2>1, OriginIs DEF ToSet
<1>2. AllSaid(origin)["http"] = said
  BY <1>1, OriginIs
<1>3. parse_forecast(origin.config.place, said) = Ready(feed.value)
  BY <1>2 DEF HasCome, Outcome
<1>4. said # None
  <2>1. SUFFICES ASSUME said = None PROVE FALSE
    OBVIOUS
  <2> HIDE DEF said
  <2>2. parse_forecast(origin.config.place, said) = Failed
    BY <2>1 DEF parse_forecast
  <2> QED BY <1>3, <2>2, ReadyIs
<1>5. IsList(said) /\ \A i \in DOMAIN said : said[i].time \in Int
  BY <1>1, <1>4, OriginIs DEF WellFormed
<1> HIDE DEF said
<1>6. I \in SUBSET Nat /\ IsFiniteSet(I)
  <2>1. I \in SUBSET DOMAIN said
    OBVIOUS
  <2> HIDE DEF I
  <2> QED BY <1>5, <2>1, IndicesAre
<1>7. points # << >>
      /\ feed.value = [place |-> origin.config.place, current |-> Head(points), days |-> aggregate_days(points)]
  <2>1. parse_forecast(origin.config.place, said) =
          IF points = << >>
            THEN Failed
            ELSE Ready([place |-> origin.config.place, current |-> Head(points), days |-> aggregate_days(points)])
    BY <1>4 DEF parse_forecast
  <2> HIDE DEF points
  <2> QED BY <1>3, <2>1, ReadyIs
<1>8. {said[i] : i \in I} = all
  BY DEF ToSet
<1>9. \A p \in all : IsPoint(p)
  <2>1. ASSUME NEW i \in DOMAIN said, Plausible(said[i]) PROVE IsPoint(said[i])
    BY <1>5, <2>1 DEF Plausible, IsPoint
  <2> QED BY <2>1 DEF ToSet
<1> HIDE DEF I, all
<1>10. IsList(plausible) /\ ToSet(plausible) = all
  <2>1. ToSet(plausible) = {said[i] : i \in I} /\ IsList(plausible)
    BY <1>6, OnlyHas
  <2> HIDE DEF plausible
  <2> QED BY <1>8, <2>1
<1> HIDE DEF plausible
<1>11. \A i \in DOMAIN plausible : plausible[i] \in all /\ key[i] = plausible[i].time
  BY <1>10 DEF ToSet
<1>12. key \in [DOMAIN plausible -> Int]
  BY <1>9, <1>11 DEF IsPoint
<1> HIDE DEF key
<1>13. PICK to : Sorts(to, plausible, key) /\ points = [n \in 1..Len(plausible) |-> plausible[to[n]]]
  BY <1>10, <1>12, SortedHas
<1>14. IsList(points) /\ ToSet(points) = all /\ Len(points) = Len(plausible)
  BY <1>10, <1>12, SortedHas
<1> HIDE DEF points
<1>15. PICK N : N = Len(points) /\ N \in Nat /\ DOMAIN points = 1..N
  BY <1>14, IndicesAre
<1>16. \A k \in 1..N : points[k] \in all /\ IsPoint(points[k])
  BY <1>9, <1>14, <1>15 DEF ToSet
<1>17. \A i, j \in 1..N : i < j => points[i].time <= points[j].time
  <2>1. ASSUME NEW i \in 1..N, NEW j \in 1..N, i < j PROVE points[i].time <= points[j].time
    <3>1. key[to[i]] <= key[to[j]] /\ to[i] \in DOMAIN plausible /\ to[j] \in DOMAIN plausible
      BY <1>13, <1>14, <1>15, <2>1 DEF Sorts
    <3>2. points[i] = plausible[to[i]] /\ points[j] = plausible[to[j]]
      BY <1>13, <1>14, <1>15
    <3> QED BY <1>11, <3>1, <3>2
  <2> QED BY <2>1
<1> DEFINE days == aggregate_days(points)
<1>18. DaysAre(days, points, N)
  BY <1>14, <1>15, <1>16, <1>17, AggregateIs
<1> HIDE DEF days
<1>19. N # 0 /\ 1 \in 1..N /\ Head(points) = points[1]
  <2>1. points \in Seq(ToSet(points))
    BY <1>14 DEF IsList
  <2>2. N # 0
    BY <1>7, <1>15, <2>1
  <2> QED BY <1>15, <2>1, <2>2
<1>20. Head(points) \in all /\ \A p \in all : Head(points).time <= p.time
  <2>1. ASSUME NEW p \in all PROVE points[1].time <= p.time
    <3>1. PICK k \in 1..N : points[k] = p
      BY <1>14, <1>15 DEF ToSet
    <3>2. k = 1 \/ 1 < k
      BY <1>15
    <3>3. points[1].time \in Int
      BY <1>16, <1>19 DEF IsPoint
    <3> QED BY <1>17, <1>19, <3>1, <3>2, <3>3
  <2> QED BY <1>16, <1>19, <2>1
<1>21. \A d : Hours(points, N, d) = {p \in all : DateOf(p.time) = d}
  BY <1>14, <1>15 DEF Hours, ToSet
<1>22. IsList(days) /\ DOMAIN days = 1..Len(days) /\ Len(days) \in Nat
  BY <1>18, IndicesAre DEF DaysAre
<1>23. \A i \in DOMAIN days : days[i].date \in Int /\ DayIs(days[i], {p \in all : DateOf(p.time) = days[i].date})
  BY <1>18, <1>21 DEF DaysAre
<1>24. {days[i].date : i \in DOMAIN days} = {DateOf(p.time) : p \in all}
  <2>1. ASSUME NEW i \in DOMAIN days PROVE \E p \in all : DateOf(p.time) = days[i].date
    BY <1>23 DEF DayIs
  <2>2. ASSUME NEW p \in all PROVE \E i \in DOMAIN days : days[i].date = DateOf(p.time)
    <3>1. PICK k \in 1..N : points[k] = p
      BY <1>14, <1>15 DEF ToSet
    <3> QED BY <1>18, <3>1 DEF DaysAre
  <2> QED BY <2>1, <2>2
<1>25. ASSUME NEW i \in DOMAIN days
       PROVE  LET hours == {p \in all : DateOf(p.time) = days[i].date}
              IN  /\ \A p \in hours : p.temperature \in days[i].low..days[i].high
                  /\ {days[i].low, days[i].high} \subseteq {p.temperature : p \in hours}
                  /\ \E p \in hours : /\ p.symbol = days[i].symbol
                                      /\ \A q \in hours : FromNoon(p.time) <= FromNoon(q.time)
                  /\ i > 1 => days[i - 1].date < days[i].date
  <2> DEFINE hours == {p \in all : DateOf(p.time) = days[i].date}
  <2>1. DayIs(days[i], hours)
    BY <1>23
  <2>2. i > 1 => days[i - 1].date < days[i].date
    <3>1. SUFFICES ASSUME i > 1 PROVE days[i - 1].date < days[i].date
      OBVIOUS
    <3>2. i - 1 \in DOMAIN days /\ i - 1 < i
      BY <1>22, <3>1
    <3> QED BY <1>18, <3>2 DEF DaysAre
  <2> HIDE DEF hours
  <2>3. /\ \A p \in hours : p.temperature \in days[i].low..days[i].high
        /\ {days[i].low, days[i].high} \subseteq {p.temperature : p \in hours}
        /\ \E p \in hours : /\ p.symbol = days[i].symbol
                            /\ \A q \in hours : FromNoon(p.time) <= FromNoon(q.time)
    BY <2>1 DEF DayIs
  <2> QED BY <2>2, <2>3 DEF hours
<1>26. feed.value.current = Head(points) /\ feed.value.days = days
  BY <1>7 DEF days
<1> DEFINE Right(seen, shown) ==
             /\ feed.value.current \in seen
             /\ \A p \in seen : feed.value.current.time <= p.time
             /\ {shown[i].date : i \in DOMAIN shown} = {DateOf(p.time) : p \in seen}
             /\ \A i \in DOMAIN shown :
                 LET hours == {p \in seen : DateOf(p.time) = shown[i].date}
                 IN  /\ \A p \in hours : p.temperature \in shown[i].low..shown[i].high
                     /\ {shown[i].low, shown[i].high} \subseteq {p.temperature : p \in hours}
                     /\ \E p \in hours : /\ p.symbol = shown[i].symbol
                                         /\ \A q \in hours : FromNoon(p.time) <= FromNoon(q.time)
                     /\ i > 1 => shown[i - 1].date < shown[i].date
<1>27. Right(all, days)
  BY <1>20, <1>24, <1>25, <1>26
<1>28. ForecastIsRight <=> Right(all, feed.value.days)
  BY DEF ForecastIsRight, all, said
<1> HIDE DEF Right
<1> QED BY <1>26, <1>27, <1>28

-----------------------------------------------------------------------------
(* Every tile.                                                              *)

LEMMA ValueHasCome == GlanceInv /\ subject \in Integrations /\ HasValue(feed) => HasCome
BY DEF GlanceInv, SubjectIs, ValueIs, HasCome

LEMMA ComesRight == GlanceInv => GlancesAreRight
<1> SUFFICES ASSUME GlanceInv, HasValue(feed)
             PROVE  CASE subject = "agenda"               -> AgendaIsRight
                      [] subject = "radar"                -> RadarIsRight
                      [] subject = "github"               -> GitHubIsRight
                      [] subject = "transit"              -> BoardsAreRight
                      [] subject = "codex"                -> LimitsAreRight
                      [] subject = "network"              -> NetworkIsRight
                      [] subject = "forecast"             -> ForecastIsRight
                      [] subject \in {"lake", "history"}  -> LakeIsRight
                      [] OTHER                            -> TRUE
  BY DEF GlancesAreRight
<1>1. subject \in Integrations => HasCome
  BY ValueHasCome
<1>2. {"agenda", "radar", "github", "network", "transit", "codex", "forecast", "lake", "history"}
        \subseteq Integrations
  BY DEF Integrations, ByCommand
<1>3. /\ subject = "agenda" => AgendaIsRight
      /\ subject = "radar" => RadarIsRight
      /\ subject = "github" => GitHubIsRight
      /\ subject = "transit" => BoardsAreRight
      /\ subject = "codex" => LimitsAreRight
      /\ subject = "network" => NetworkIsRight
      /\ subject = "forecast" => ForecastIsRight
      /\ subject \in {"lake", "history"} => LakeIsRight
  BY <1>1, <1>2, AgendaComesRight, RadarComesRight, GitHubComesRight, TransitComesRight,
     LimitsComeRight, NetworkComesRight, ForecastComesRight, LakeComesRight, HistoryComesRight
<1> QED BY <1>3

\* What a tile shows is right for the answers that the fetch of its value was told,
\* whatever they are: meetings once each and in order, the colour of the radar, the
\* last pull requests and their numbers, the departures of the route, the window that
\* is closest to its limit, the VPN of the configuration, the days of the hours, the
\* readings of the lake: the parsers of the services and the tiles of `views.rs`.
THEOREM GlancesAreAlwaysRight == ControlsSpec => []GlancesAreRight
BY GlanceInvHolds, ComesRight, PTL

-----------------------------------------------------------------------------
(* What a press opens.                                                      *)

\* The marks of a tile with a value, and of one without.
LEMMA MarkIs ==
    ASSUME ValueIs
    PROVE  IF HasValue(feed) THEN StatusOf(feed) \in {"Ok", "Stale"}
                             ELSE offline_or_loading(feed).status \notin {"Ok", "Stale"}
<1>1. feed.is \in {"loading", "ready", "stale", "failed"}
  BY DEF ValueIs
<1> QED BY <1>1 DEF HasValue, StatusOf, offline_or_loading, Face

LEMMA AtIs ==
    ASSUME NEW s, NEW i, At(s, i) # None
    PROVE  At(s, i) = s[i + 1] /\ i + 1 \in DOMAIN s /\ At(s, i) \in ToSet(s)
BY DEF At, ToSet

LEMMA MeetingOpens ==
    ASSUME ValueIs, subject = "agenda"
    PROVE  OpensWhatIsShown
<1>1. ASSUME NEW i \in 0..1
      PROVE  LET face == MeetingFace(feed, i, now)
                 list == IF HasValue(feed) THEN feed.value ELSE << >>
             IN  IF face.status \in {"Ok", "Stale"}
                   THEN \E m \in ToSet(list) :
                         /\ OpenMeeting(feed, i) = m.url
                         /\ face.shows[1] = m.title /\ face.shows[2] = m.start
                   ELSE OpenMeeting(feed, i) = None
  <2> DEFINE face == MeetingFace(feed, i, now)
             m == At(feed.value, i)
  <2>1. CASE ~HasValue(feed)
    <3>1. face = offline_or_loading(feed) /\ OpenMeeting(feed, i) = None
      BY <2>1 DEF MeetingFace, OpenMeeting
    <3> HIDE DEF face
    <3> QED BY <2>1, <3>1, MarkIs DEF face
  <2>2. CASE HasValue(feed) /\ m = None
    <3>1. face.status = "Disabled" /\ OpenMeeting(feed, i) = None
      BY <2>2 DEF MeetingFace, OpenMeeting, Disabled, Face
    <3> HIDE DEF face
    <3> QED BY <3>1 DEF face
  <2>3. CASE HasValue(feed) /\ m # None
    <3>1. /\ face.status = StatusOf(feed) /\ face.shows[1] = m.title /\ face.shows[2] = m.start
          /\ OpenMeeting(feed, i) = m.url
      <4> HIDE DEF m
      <4>1. face = Face(IF Urgency(m, now) \in {"now", "imminent", "soon"}
                          THEN Urgency(m, now)
                          ELSE IF i = 0 THEN "next" ELSE "following",
                        << m.title, m.start, status_label(m, now) >>,
                        StatusOf(feed))
        BY <2>3 DEF MeetingFace, m
      <4>2. OpenMeeting(feed, i) = m.url
        BY <2>3 DEF OpenMeeting, m
      <4> HIDE DEF face
      <4> QED BY <4>1, <4>2 DEF Face
    <3>2. m \in ToSet(feed.value)
      BY <2>3, AtIs
    <3> HIDE DEF face, m
    <3> QED BY <2>3, <3>1, <3>2, MarkIs DEF face
  <2> QED BY <2>1, <2>2, <2>3
<1> QED BY <1>1 DEF OpensWhatIsShown

LEMMA ItemOpens ==
    ASSUME ValueIs, subject = "github"
    PROVE  OpensWhatIsShown
<1>1. ASSUME NEW i \in 0..1
      PROVE  LET face == ItemFace(feed, i)
             IN  OpenGitHubItem(feed, i) =
                    IF face.status \in {"Ok", "Stale"} THEN face.shows[1] ELSE None
  <2> DEFINE face == ItemFace(feed, i)
             item == At(feed.value.Prs, i)
  <2>1. CASE ~HasValue(feed)
    <3>1. face = offline_or_loading(feed) /\ OpenGitHubItem(feed, i) = None
      BY <2>1 DEF ItemFace, OpenGitHubItem
    <3> HIDE DEF face
    <3> QED BY <2>1, <3>1, MarkIs DEF face
  <2>2. CASE HasValue(feed) /\ item = None
    <3>1. face.status = "Disabled" /\ OpenGitHubItem(feed, i) = None
      BY <2>2 DEF ItemFace, OpenGitHubItem, Disabled, Face
    <3> HIDE DEF face
    <3> QED BY <3>1 DEF face
  <2>3. CASE HasValue(feed) /\ item # None
    <3>1. face.status = StatusOf(feed) /\ face.shows[1] = item.number
          /\ OpenGitHubItem(feed, i) = item.number
      BY <2>3 DEF ItemFace, OpenGitHubItem, Face
    <3> HIDE DEF face, item
    <3> QED BY <2>3, <3>1, MarkIs DEF face
  <2> QED BY <2>1, <2>2, <2>3
<1> QED BY <1>1 DEF OpensWhatIsShown

LEMMA BoardOpens ==
    ASSUME GlanceInv, subject = "transit"
    PROVE  OpensWhatIsShown
<1>1. ASSUME NEW i \in 0..1,
             BoardFace(feed, i, now).status \in {"Ok", "Stale"}, config = origin.config
      PROVE  \E stop \in ToSet(config.stops) :
                /\ BoardFace(feed, i, now).shows[1] = stop.label
                /\ OpenDepartureBoard(config.stops, i) = stop.gid
  <2> DEFINE face == BoardFace(feed, i, now)
             board == At(feed.value, i)
             stops == origin.config.stops
  <2>1. HasValue(feed)
    <3>1. SUFFICES ASSUME ~HasValue(feed) PROVE FALSE
      OBVIOUS
    <3>2. face = offline_or_loading(feed)
      BY <3>1 DEF BoardFace
    <3> HIDE DEF face
    <3>3. ValueIs
      BY DEF GlanceInv
    <3>4. face.status \in {"Ok", "Stale"}
      BY <1>1 DEF face
    <3> QED BY <3>1, <3>2, <3>3, <3>4, MarkIs
  <2>2. board # None
    <3>1. SUFFICES ASSUME board = None PROVE FALSE
      OBVIOUS
    <3>2. face.status = "Disabled"
      BY <2>1, <3>1 DEF BoardFace, Disabled, Face
    <3> QED BY <1>1, <3>2
  <2>3. face.shows[1] = board.label
    BY <2>1, <2>2 DEF BoardFace, Face
  <2>4. HasCome
    <3>1. subject \in Integrations
      BY DEF Integrations
    <3> QED BY <2>1, <3>1, ValueHasCome
  <2>5. board = feed.value[i + 1] /\ i + 1 \in DOMAIN feed.value
    BY <2>2, AtIs
  <2>6. i + 1 \in DOMAIN stops
        /\ feed.value[i + 1] = StopBoard(stops[i + 1], Said(origin, i + 1), origin.at)
    BY <2>4, <2>5, TransitIs
  <2>7. board.label = stops[i + 1].label
    BY <2>5, <2>6 DEF StopBoard
  <2>8. None \notin ToSet(stops)
    BY <2>4, OriginIs, SubjectsAssumption DEF SubjectsAssumption, HasCome
  <2>9. stops[i + 1] \in ToSet(stops) /\ stops[i + 1] # None
    BY <2>6, <2>8 DEF ToSet
  <2>10. OpenDepartureBoard(stops, i) = stops[i + 1].gid
    BY <2>6, <2>9 DEF OpenDepartureBoard, At
  <2> HIDE DEF face, board
  <2> QED BY <1>1, <2>3, <2>7, <2>9, <2>10 DEF face
<1> QED BY <1>1 DEF OpensWhatIsShown

\* What the radar opens is the newest run of the worst kind on it.
LEMMA ActionableIs ==
    ASSUME NEW runs, IsList(runs), runs # << >>,
           \A i \in DOMAIN runs : runs[i].updated \in Int,
           \A i, j \in DOMAIN runs : i < j => runs[j].updated <= runs[i].updated
    PROVE  LET any(state) == \E i \in DOMAIN runs : runs[i].state = state
               run == actionable(runs)
           IN  /\ run \in ToSet(runs)
               /\ any("Failure") => run.state = "Failure"
               /\ ~any("Failure") /\ any("Running") => run.state = "Running"
               /\ \A r \in ToSet(runs) : r.state = run.state => r.updated <= run.updated
<1> DEFINE In(state) == {i \in DOMAIN runs : runs[i].state = state}
           failures == In("Failure")
           running == In("Running")
           worst == IF failures # {} THEN failures ELSE IF running # {} THEN running ELSE DOMAIN runs
           n == Min(worst)
<1>1. DOMAIN runs = 1..Len(runs) /\ Len(runs) \in Nat /\ DOMAIN runs # {}
  BY IndicesAre, EmptyIs DEF ToSet
<1>2. worst \in SUBSET DOMAIN runs /\ worst # {}
  BY <1>1
<1>3. actionable(runs) = runs[n]
  BY DEF actionable
<1> HIDE DEF worst
<1>4. n \in worst /\ \A x \in worst : n <= x
  <2>1. worst \in SUBSET Nat
    BY <1>2, IndicesAre
  <2> QED BY <1>2, <2>1, LeastExists
<1> HIDE DEF n
<1>5. n \in DOMAIN runs /\ n \in Nat
  BY <1>1, <1>2, <1>4
<1>6. failures # {} => runs[n].state = "Failure"
  BY <1>4 DEF worst
<1>7. failures = {} /\ running # {} => runs[n].state = "Running"
  BY <1>4 DEF worst
<1>8. ASSUME NEW i \in DOMAIN runs, runs[i].state = runs[n].state
      PROVE  runs[i].updated <= runs[n].updated
  <2>1. i \in worst
    BY <1>4, <1>5, <1>8 DEF worst
  <2>2. n = i \/ n < i
    BY <1>1, <1>4, <1>5, <2>1
  <2> QED BY <1>5, <2>2
<1> QED BY <1>3, <1>5, <1>6, <1>7, <1>8 DEF ToSet

LEMMA RunOpens ==
    ASSUME GlanceInv, subject = "radar"
    PROVE  OpensWhatIsShown
<1> DEFINE opened == {r \in ToSet(feed.value) : r.url = OpenCiRun(feed)}
           colour == RadarFace(feed).tone
           any(state) == \E i \in DOMAIN feed.value : feed.value[i].state = state
           run == actionable(feed.value)
<1>1. ASSUME HasValue(feed), feed.value # << >>
      PROVE  /\ colour = "error"   => \E r \in opened : r.state = "Failure"
             /\ colour = "warning" => \E r \in opened : r.state = "Running"
             /\ \E r \in opened : \A q \in ToSet(feed.value) :
                     q.state = r.state => q.updated <= r.updated
  <2>1. HasCome
    <3>1. subject \in Integrations
      BY DEF Integrations, ByCommand
    <3> QED BY <1>1, <3>1, ValueHasCome
  <2>2. /\ IsList(feed.value)
        /\ \A i \in DOMAIN feed.value : feed.value[i].updated \in Int
        /\ \A i, j \in DOMAIN feed.value : i < j => feed.value[j].updated <= feed.value[i].updated
    BY <2>1, RadarIs
  <2>3. /\ run \in ToSet(feed.value)
        /\ any("Failure") => run.state = "Failure"
        /\ ~any("Failure") /\ any("Running") => run.state = "Running"
        /\ \A r \in ToSet(feed.value) : r.state = run.state => r.updated <= run.updated
    <3> DEFINE runs == feed.value
    <3>1. IsList(runs) /\ runs # << >>
          /\ (\A i \in DOMAIN runs : runs[i].updated \in Int)
          /\ \A i, j \in DOMAIN runs : i < j => runs[j].updated <= runs[i].updated
      BY <1>1, <2>2
    <3> HIDE DEF runs
    <3> QED BY <3>1, ActionableIs DEF runs
  <2>4. colour = IF any("Failure") THEN "error" ELSE IF any("Running") THEN "warning" ELSE "live"
    BY <2>1, ToneIs
  <2>5. OpenCiRun(feed) = run.url
    BY <1>1 DEF OpenCiRun
  <2> HIDE DEF run, colour, any
  <2>6. run \in opened
    BY <2>3, <2>5
  <2> HIDE DEF opened
  <2>7. \A r \in opened : r \in ToSet(feed.value)
    BY DEF opened
  <2> QED BY <2>3, <2>4, <2>6, <2>7
<1> HIDE DEF opened, colour
<1> QED BY <1>1 DEF OpensWhatIsShown, opened, colour

LEMMA PressOpens == GlanceInv => OpensWhatIsShown
<1> SUFFICES ASSUME GlanceInv PROVE OpensWhatIsShown
  OBVIOUS
<1>1. ValueIs
  BY DEF GlanceInv
<1>2. CASE subject \notin {"agenda", "radar", "github", "transit"}
  BY <1>2 DEF OpensWhatIsShown
<1> QED BY <1>1, <1>2, MeetingOpens, RunOpens, ItemOpens, BoardOpens

\* A press of a glance opens what its tile shows: the meeting, the run that gives the
\* radar its colour and was updated last of those, the pull request, and the board of
\* the stop as long as the configuration has not changed: the tiles of `views.rs` and
\* the `open_*` of `actions.rs`.
THEOREM OpensAlwaysWhatIsShown == ControlsSpec => []OpensWhatIsShown
BY GlanceInvHolds, PressOpens, PTL

===============================================================================
