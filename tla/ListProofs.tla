------------------------------ MODULE ListProofs -------------------------------
(***************************************************************************)
(* Proofs about the components whose state is lists: how the parts of a    *)
(* list, a list of lists and the k-th of a set are counted comes first.    *)
(*                                                                         *)
(* The groups are the transitive closure of the duplicates, for any number *)
(* of records, any rules and any order of the pairs.  The partition that   *)
(* the forest stands for, leader, is kept by every shortened path; it is   *)
(* never coarser than a set that no duplicate leaves (Sound), and joins    *)
(* the pairs that have been dealt with (Complete).                         *)
(*                                                                         *)
(* What a group takes from OpenAlex are confirmed matches, with a DOI only *)
(* matches by DOI, for any works and any searches that fail; and no author *)
(* of either side is lost or taken twice.                                  *)
(*                                                                         *)
(* An export offers the rows of the index once and in order, and all that  *)
(* stay; and a harvest by day leaves nothing behind it that is not saved.  *)
(***************************************************************************)
EXTENDS ScieloDedup, OpenAlexFusion, ExportJobs, ListingHarvest, FiniteSetTheorems,
        SequenceTheorems, WellFoundedInduction, TLAPS

(***************************************************************************)
(* Least numbers, counting, and lists joined                               *)
(***************************************************************************)

\* Of the intervals 0 .. n, one is minimal for inclusion: that of the least n.
LEMMA LeastPlace ==
  ASSUME NEW S \in SUBSET Nat, S # {}
  PROVE  \E x \in S : \A y \in S : x <= y
<1> DEFINE Below == {0 .. n : n \in S}
<1>1. \A n \in Nat : 0 .. n \in FiniteSubsetsOf(Nat)
  BY FS_Interval DEF FiniteSubsetsOf
<1>2. PICK T \in Below : \A U \in Below : <<U, T>> \notin StrictSubsetOrdering(Nat)
  <2>1. Below \subseteq FiniteSubsetsOf(Nat) /\ Below # {}
    BY <1>1
  <2> HIDE DEF Below
  <2> QED BY <2>1, FS_StrictSubsetOrderingWellFounded, WFMin
<1>3. PICK x \in S : T = 0 .. x
  OBVIOUS
<1> SUFFICES ASSUME NEW y \in S, y < x PROVE FALSE
  OBVIOUS
<1>4. 0 .. y \subseteq 0 .. x /\ x \notin 0 .. y /\ x \in 0 .. x
  OBVIOUS
<1>5. <<0 .. y, 0 .. x>> \in StrictSubsetOrdering(Nat)
  BY <1>4 DEF StrictSubsetOrdering
<1> QED BY <1>2, <1>3, <1>5

\* What holds of 0 and of the successor of what it holds of, up to z, holds of z.
LEMMA CountedUp ==
  ASSUME NEW z \in Nat, NEW S, 0 \in S, \A n \in 0 .. z : n \in S /\ n + 1 \in 0 .. z => n + 1 \in S
  PROVE  z \in S
<1> DEFINE Lacks == {n \in 0 .. z : n \notin S}
<1> SUFFICES ASSUME z \notin S PROVE FALSE
  OBVIOUS
<1>1. PICK m \in Lacks : \A k \in Lacks : m <= k
  <2>1. Lacks \in SUBSET Nat /\ Lacks # {}
    OBVIOUS
  <2> HIDE DEF Lacks
  <2> QED BY <2>1, LeastPlace
<1>2. m \in 0 .. z /\ m \notin S /\ m # 0
  OBVIOUS
<1>3. PICK l \in 0 .. z : m = l + 1
  <2>1. m - 1 \in 0 .. z /\ m = (m - 1) + 1
    BY <1>2
  <2> QED BY <2>1
<1>4. l \in S
  <2>1. ~(m <= l)
    BY <1>3
  <2> QED BY <1>1, <2>1
<1> QED BY <1>2, <1>3, <1>4

LEMMA LeastIs ==
  ASSUME NEW S \in SUBSET Nat, S # {}
  PROVE  Min(S) \in S /\ \A y \in S : Min(S) <= y
<1>1. \E x \in S : \A y \in S : x <= y
  BY LeastPlace
<1> QED BY <1>1 DEF Min

\* How many places up to m are in P.
Count(P, m) == Cardinality({j \in 1 .. m : j \in P})

LEMMA CountIs ==
  ASSUME NEW P, NEW m \in Nat
  PROVE  /\ Count(P, m) \in Nat /\ Count(P, 0) = 0
         /\ Count(P, m + 1) = Count(P, m) + (IF m + 1 \in P THEN 1 ELSE 0)
         /\ \A n \in Nat : n <= m => Count(P, n) <= Count(P, m)
<1> DEFINE Up(n) == {j \in 1 .. n : j \in P}
<1>1. ASSUME NEW n \in Nat PROVE IsFiniteSet(Up(n)) /\ Cardinality(Up(n)) \in Nat
  <2>1. IsFiniteSet(1 .. n) /\ Up(n) \in SUBSET (1 .. n)
    BY FS_Interval
  <2>2. IsFiniteSet(Up(n))
    BY <2>1, FS_Subset
  <2> QED BY <2>2, FS_CardinalityType
<1>2. Up(0) = {} /\ Count(P, 0) = 0
  BY FS_EmptySet DEF Count
<1>3. Up(m + 1) = IF m + 1 \in P THEN Up(m) \cup {m + 1} ELSE Up(m)
  OBVIOUS
<1>4. m + 1 \notin Up(m)
  OBVIOUS
<1>5. ASSUME NEW n \in Nat, n <= m PROVE Cardinality(Up(n)) <= Cardinality(Up(m))
  <2>1. Up(n) \in SUBSET Up(m)
    BY <1>5
  <2> QED BY <1>1, <2>1, FS_Subset
<1> HIDE DEF Up
<1>6. Cardinality(Up(m + 1)) = Cardinality(Up(m)) + (IF m + 1 \in P THEN 1 ELSE 0)
  BY <1>1, <1>3, <1>4, FS_AddElement
<1>7. \A n \in Nat : Count(P, n) = Cardinality(Up(n))
  BY DEF Count, Up
<1> QED BY <1>1, <1>2, <1>5, <1>6, <1>7

\* The k-th of the places in P.
LEMMA KthIs ==
  ASSUME NEW n \in Nat, NEW P \in SUBSET (1 .. n), NEW k \in 1 .. Cardinality(P)
  PROVE  \E m \in P : Count(P, m) = k
<1> DEFINE S == {m \in 0 .. n : Count(P, m) >= k}
<1>1. Count(P, n) = Cardinality(P) /\ Cardinality(P) \in Nat
  <2>1. {j \in 1 .. n : j \in P} = P
    OBVIOUS
  <2> QED BY <2>1, CountIs DEF Count
<1>2. n \in S /\ S \in SUBSET Nat
  BY <1>1
<1>3. PICK m \in S : \A y \in S : m <= y
  <2> HIDE DEF S
  <2>1. S # {} /\ S \in SUBSET Nat
    BY <1>2
  <2> QED BY <2>1, LeastPlace
<1>4. m # 0
  BY <1>3, CountIs
<1>5. PICK l \in Nat : m = l + 1 /\ l \in 0 .. n
  <2>1. m - 1 \in Nat /\ m = (m - 1) + 1 /\ m - 1 \in 0 .. n
    BY <1>4
  <2> QED BY <2>1
<1>6. Count(P, l) < k /\ Count(P, l) \in Nat
  <2>1. l \notin S
    BY <1>3, <1>5
  <2> QED BY <1>5, <2>1, CountIs
<1>7. Count(P, m) = Count(P, l) + (IF m \in P THEN 1 ELSE 0)
  BY <1>5, CountIs
<1>8. m \in P /\ Count(P, m) = k
  BY <1>3, <1>6, <1>7
<1> QED BY <1>8

\* Two places in P with as many of P up to them are one.
LEMMA CountTells ==
  ASSUME NEW n \in Nat, NEW P \in SUBSET (1 .. n), NEW k \in P, NEW l \in P
  PROVE  /\ Count(P, k) \in 1 .. Cardinality(P)
         /\ k < l <=> Count(P, k) < Count(P, l)
<1>1. \A m \in P : Count(P, m) \in Nat /\ Count(P, m) >= 1
  <2> TAKE m \in P
  <2>1. PICK o \in Nat : m = o + 1
    <3>1. m - 1 \in Nat /\ m = (m - 1) + 1
      OBVIOUS
    <3> QED BY <3>1
  <2>2. Count(P, o) \in Nat /\ Count(P, m) = Count(P, o) + 1
    BY <2>1, CountIs
  <2> QED BY <2>2
<1>2. ASSUME NEW x \in P, NEW y \in P, x < y PROVE Count(P, x) < Count(P, y)
  <2>1. PICK o \in Nat : y = o + 1
    <3>1. y - 1 \in Nat /\ y = (y - 1) + 1
      OBVIOUS
    <3> QED BY <3>1
  <2>2. Count(P, o) \in Nat /\ Count(P, y) = Count(P, o) + 1
    BY <2>1, CountIs
  <2>3. x <= o /\ x \in Nat
    BY <1>2, <2>1
  <2>4. Count(P, x) <= Count(P, o)
    BY <2>1, <2>3, CountIs
  <2> QED BY <1>1, <2>2, <2>4
<1>3. Count(P, n) = Cardinality(P)
  <2>1. {j \in 1 .. n : j \in P} = P
    OBVIOUS
  <2> QED BY <2>1 DEF Count
<1>4. Count(P, k) <= Count(P, n) /\ Count(P, n) \in Nat
  BY CountIs
<1>5. Count(P, k) \in 1 .. Cardinality(P)
  BY <1>1, <1>3, <1>4
<1>6. k < l <=> Count(P, k) < Count(P, l)
  <2>1. CASE k < l
    BY <1>2, <2>1
  <2>2. CASE k = l
    BY <1>1, <2>2
  <2>3. CASE l < k
    <3>1. Count(P, l) < Count(P, k)
      BY <1>2, <2>3
    <3> QED BY <1>1, <2>3, <3>1
  <2> QED BY <2>1, <2>2, <2>3
<1> QED BY <1>5, <1>6

\* The first m of a set of numbers, in order.
FirstOf(S, m) == [i \in 1 .. m |-> CHOOSE k \in S : Cardinality({l \in S : l <= k}) = i]

LEMMA FirstOfIs ==
  ASSUME NEW n \in Nat, NEW S \in SUBSET (1 .. n), NEW m \in Nat, m <= Cardinality(S)
  PROVE  /\ FirstOf(S, m) \in Seq(S) /\ Len(FirstOf(S, m)) = m
         /\ \A i, j \in 1 .. m : i < j => FirstOf(S, m)[i] < FirstOf(S, m)[j]
         /\ m > 0 => \A k \in S : k <= FirstOf(S, m)[m] => \E i \in 1 .. m : FirstOf(S, m)[i] = k
<1> DEFINE Kth(i) == CHOOSE k \in S : Cardinality({l \in S : l <= k}) = i
<1>0. \A k \in S : k \in Nat /\ k >= 1
  OBVIOUS
<1>1. ASSUME NEW k \in S PROVE Cardinality({l \in S : l <= k}) = Count(S, k)
  <2>1. k \in Nat /\ \A l \in S : l <= k <=> l \in 1 .. k
    BY <1>0
  <2>2. {l \in S : l <= k} = {j \in 1 .. k : j \in S}
    BY <2>1
  <2> QED BY <2>2 DEF Count
<1>2. Cardinality(S) \in Nat
  <2>1. IsFiniteSet(1 .. n)
    BY FS_Interval
  <2> QED BY <2>1, FS_Subset, FS_CardinalityType
<1>3. ASSUME NEW i \in 1 .. m PROVE Kth(i) \in S /\ Count(S, Kth(i)) = i
  <2>1. i \in 1 .. Cardinality(S)
    BY <1>2
  <2>2. PICK k \in S : Count(S, k) = i
    BY <2>1, KthIs
  <2>3. \E x \in S : Cardinality({l \in S : l <= x}) = i
    BY <1>1, <2>2
  <2>4. Kth(i) \in S /\ Cardinality({l \in S : l <= Kth(i)}) = i
    BY <2>3
  <2> HIDE DEF Kth
  <2> QED BY <1>1, <2>4
<1>4. FirstOf(S, m) = [i \in 1 .. m |-> Kth(i)]
  BY DEF FirstOf
<1> HIDE DEF Kth
<1>5. ASSUME NEW i \in 1 .. m, NEW j \in 1 .. m, i < j PROVE Kth(i) < Kth(j)
  <2>1. Kth(i) \in S /\ Kth(j) \in S /\ Count(S, Kth(i)) < Count(S, Kth(j))
    BY <1>3, <1>5
  <2> QED BY <2>1, CountTells
<1>6. ASSUME m > 0, NEW k \in S, k <= Kth(m) PROVE \E i \in 1 .. m : Kth(i) = k
  <2>1. Kth(m) \in S /\ Count(S, Kth(m)) = m
    BY <1>3, <1>6
  <2>2. Count(S, k) \in 1 .. m
    <3>1. Count(S, k) \in 1 .. Cardinality(S) /\ ~(Count(S, Kth(m)) < Count(S, k))
      <4>1. ~(Kth(m) < k)
        <5>1. Kth(m) \in Nat /\ k \in Nat
          BY <1>0, <2>1
        <5> QED BY <1>6, <5>1
      <4> QED BY <2>1, <4>1, CountTells
    <3> QED BY <1>2, <2>1, <3>1
  <2>3. PICK i \in 1 .. m : i = Count(S, k)
    BY <2>2
  <2>4. PICK x \in S : x = Kth(i) /\ Count(S, x) = i
    BY <1>3
  <2>5. ~(x < k) /\ ~(k < x)
    <3>1. ~(i < i)
      OBVIOUS
    <3> QED BY <2>3, <2>4, <3>1, CountTells
  <2> QED BY <1>0, <2>4, <2>5
<1> QED BY <1>3, <1>4, <1>5, <1>6

\* A finite set of numbers has a greatest one.
LEMMA GreatestIs ==
  ASSUME NEW n \in Nat, NEW S \in SUBSET (0 .. n), S # {}
  PROVE  Max(S) \in S /\ \A y \in S : y <= Max(S)
<1> DEFINE Mirror == {n - x : x \in S}
<1>1. Mirror \in SUBSET Nat /\ Mirror # {}
  <2>1. \A x \in S : n - x \in Nat
    OBVIOUS
  <2> QED BY <2>1
<1>2. PICK least \in Mirror : \A y \in Mirror : least <= y
  <2> HIDE DEF Mirror
  <2> QED BY <1>1, LeastPlace
<1>3. PICK x \in S : least = n - x
  OBVIOUS
<1>4. \A y \in S : n - y \in Mirror
  OBVIOUS
<1>5. \A y \in S : x >= y
  <2> TAKE y \in S
  <2>1. n - x <= n - y
    BY <1>2, <1>3, <1>4
  <2> QED BY <2>1
<1>6. Max(S) \in S /\ \A y \in S : Max(S) >= y
  BY <1>5 DEF Max
<1> QED BY <1>6

\* Lists joined one after the other: the recursion of FlattenSeq has one solution.
Joins(g, f, n) == g = [i \in 1 .. n |-> IF i = 1 THEN f[i] ELSE g[i - 1] \o f[i]]

LEMMA JoinsAt ==
  ASSUME NEW n \in Nat, NEW f, NEW g, Joins(g, f, n), NEW i \in 1 .. n
  PROVE  g[i] = IF i = 1 THEN f[i] ELSE g[i - 1] \o f[i]
<1> DEFINE G == [j \in 1 .. n |-> IF j = 1 THEN f[j] ELSE g[j - 1] \o f[j]]
<1>1. g = G
  BY DEF Joins
<1>2. G[i] = IF i = 1 THEN f[i] ELSE g[i - 1] \o f[i]
  OBVIOUS
<1> HIDE DEF G
<1> QED BY <1>1, <1>2

LEMMA JoinsExist ==
  ASSUME NEW T, NEW z \in Nat, NEW f \in [1 .. z -> Seq(T)]
  PROVE  \E g \in [1 .. z -> Seq(T)] : Joins(g, f, z)
<1> DEFINE Has(n) == \E g \in [1 .. n -> Seq(T)] : Joins(g, f, n)
           S == {n \in 0 .. z : Has(n)}
<1>1. Has(0)
  <2> DEFINE none == [i \in 1 .. 0 |-> <<>>]
  <2>1. none \in [1 .. 0 -> Seq(T)] /\ Joins(none, f, 0)
    BY DEF Joins
  <2> QED BY <2>1
<1>2. ASSUME NEW n \in 0 .. z, n + 1 \in 0 .. z, Has(n) PROVE Has(n + 1)
  <2>1. PICK g \in [1 .. n -> Seq(T)] : Joins(g, f, n)
    BY <1>2
  <2> DEFINE more == IF n = 0 THEN f[n + 1] ELSE g[n] \o f[n + 1]
             h == [i \in 1 .. n + 1 |-> IF i = n + 1 THEN more ELSE g[i]]
  <2>2. f[n + 1] \in Seq(T) /\ (n # 0 => g[n] \in Seq(T))
    BY <1>2, <2>1
  <2>3. more \in Seq(T)
    BY <2>2
  <2> HIDE DEF more
  <2>4. h \in [1 .. n + 1 -> Seq(T)]
    BY <2>1, <2>3
  <2>5. ASSUME NEW i \in 1 .. n + 1 PROVE h[i] = IF i = 1 THEN f[i] ELSE h[i - 1] \o f[i]
    <3>1. CASE i = n + 1
      BY <3>1 DEF more
    <3>2. CASE i # n + 1
      <4>1. i \in 1 .. n /\ h[i] = g[i] /\ (i # 1 => i - 1 \in 1 .. n /\ h[i - 1] = g[i - 1])
        BY <3>2
      <4>2. g[i] = IF i = 1 THEN f[i] ELSE g[i - 1] \o f[i]
        BY <2>1, <4>1 DEF Joins
      <4> HIDE DEF h
      <4> QED BY <4>1, <4>2
    <3> QED BY <3>1, <3>2
  <2>6. Joins(h, f, n + 1)
    <3>1. h = [i \in 1 .. n + 1 |-> h[i]]
      OBVIOUS
    <3> HIDE DEF h
    <3> QED BY <2>5, <3>1 DEF Joins
  <2> QED BY <2>4, <2>6
<1> HIDE DEF Has
<1>3. 0 \in S /\ \A n \in 0 .. z : n \in S /\ n + 1 \in 0 .. z => n + 1 \in S
  BY <1>1, <1>2
<1>4. z \in S
  <2> HIDE DEF S
  <2> QED BY <1>3, CountedUp
<1> QED BY <1>4 DEF Has

LEMMA JoinsAgree ==
  ASSUME NEW z \in Nat, NEW n \in 0 .. z, NEW f, NEW g, NEW h, Joins(g, f, z), Joins(h, f, n)
  PROVE  \A i \in 1 .. n : g[i] = h[i]
<1> DEFINE Differ == {i \in 1 .. n : g[i] # h[i]}
<1> SUFFICES ASSUME Differ # {} PROVE FALSE
  OBVIOUS
<1>1. PICK m \in Differ : \A k \in Differ : m <= k
  <2>1. Differ \in SUBSET Nat
    OBVIOUS
  <2> HIDE DEF Differ
  <2> QED BY <2>1, LeastPlace
<1>2. /\ g[m] = IF m = 1 THEN f[m] ELSE g[m - 1] \o f[m]
      /\ h[m] = IF m = 1 THEN f[m] ELSE h[m - 1] \o f[m]
  <2>1. m \in 1 .. n /\ m \in 1 .. z /\ n \in Nat
    OBVIOUS
  <2> HIDE DEF Differ
  <2> QED BY <2>1, JoinsAt
<1>3. m # 1 => g[m - 1] = h[m - 1]
  <2> SUFFICES ASSUME m # 1 PROVE g[m - 1] = h[m - 1]
    OBVIOUS
  <2>1. m - 1 \in 1 .. n /\ ~(m <= m - 1)
    OBVIOUS
  <2> QED BY <1>1, <2>1
<1> QED BY <1>2, <1>3

\* The first n of the lists of f, joined.
Joined(f, n) == FlattenSeq([i \in 1 .. n |-> f[i]])

LEMMA JoinedIs ==
  ASSUME NEW T, NEW n \in Nat, NEW f, \A i \in 1 .. n + 1 : f[i] \in Seq(T)
  PROVE  /\ Joined(f, n) \in Seq(T) /\ Joined(f, 0) = <<>>
         /\ Joined(f, n + 1) = Joined(f, n) \o f[n + 1]
<1> DEFINE F == [i \in 1 .. n + 1 |-> f[i]]
<1>1. F \in [1 .. n + 1 -> Seq(T)] /\ n + 1 \in Nat
  OBVIOUS
<1>2. PICK g \in [1 .. n + 1 -> Seq(T)] : Joins(g, F, n + 1)
  <2> HIDE DEF F
  <2> QED BY <1>1, JoinsExist
<1>3. ASSUME NEW m \in 1 .. n + 1 PROVE Joined(f, m) = g[m]
  <2> DEFINE s == [i \in 1 .. m |-> f[i]]
             flat == CHOOSE h : h = [i \in 1 .. Len(s) |-> IF i = 1 THEN s[i] ELSE h[i - 1] \o s[i]]
  <2>1. Len(s) = m /\ m # 0 /\ m \in Nat
    OBVIOUS
  <2>2. Joined(f, m) = flat[m]
    BY <2>1 DEF Joined, FlattenSeq
  <2>3. Joins(flat, F, m)
    <3>1. PICK h \in [1 .. m -> Seq(T)] : Joins(h, s, m)
      <4>1. s \in [1 .. m -> Seq(T)] /\ m \in Nat
        OBVIOUS
      <4> HIDE DEF s
      <4> QED BY <4>1, JoinsExist
    <3>2. h = [i \in 1 .. Len(s) |-> IF i = 1 THEN s[i] ELSE h[i - 1] \o s[i]]
      BY <2>1, <3>1 DEF Joins
    <3>3. flat = [i \in 1 .. Len(s) |-> IF i = 1 THEN s[i] ELSE flat[i - 1] \o s[i]]
      <4> HIDE DEF s
      <4> QED BY <3>2
    <3>4. \A i \in 1 .. m : s[i] = F[i]
      OBVIOUS
    <3> HIDE DEF flat, s, F
    <3> QED BY <2>1, <3>3, <3>4 DEF Joins
  <2>4. m \in 0 .. n + 1 /\ m \in 1 .. m
    OBVIOUS
  <2> HIDE DEF flat, F
  <2> QED BY <1>2, <2>2, <2>3, <2>4, JoinsAgree
<1>4. Joined(f, 0) = <<>>
  BY DEF Joined, FlattenSeq
<1>5. Joined(f, n) \in Seq(T)
  <2>1. CASE n = 0
    <3>1. Joined(f, n) = <<>>
      BY <1>4, <2>1
    <3> QED BY <3>1
  <2>2. CASE n # 0
    <3>1. n \in 1 .. n + 1
      BY <2>2
    <3> QED BY <1>2, <1>3, <3>1
  <2> QED BY <2>1, <2>2
<1>6. Joined(f, n + 1) = Joined(f, n) \o f[n + 1]
  <2>1. Joined(f, n + 1) = g[n + 1]
    BY <1>3
  <2>2. g[n + 1] = IF n + 1 = 1 THEN F[n + 1] ELSE g[n + 1 - 1] \o F[n + 1]
    <3>1. n + 1 \in 1 .. n + 1 /\ n + 1 \in Nat
      OBVIOUS
    <3> HIDE DEF F
    <3> QED BY <1>2, <3>1, JoinsAt
  <2>3. F[n + 1] = f[n + 1] /\ f[n + 1] \in Seq(T)
    OBVIOUS
  <2>4. CASE n = 0
    <3>1. Joined(f, n) = <<>>
      BY <1>4, <2>4
    <3>2. <<>> \o f[n + 1] = f[n + 1]
      BY <2>3
    <3> QED BY <2>1, <2>2, <2>3, <2>4, <3>1, <3>2
  <2>5. CASE n # 0
    <3>1. n \in 1 .. n + 1 /\ n + 1 - 1 = n /\ n + 1 # 1
      BY <2>5
    <3>2. Joined(f, n) = g[n]
      BY <1>3, <3>1
    <3> QED BY <2>1, <2>2, <2>3, <3>1, <3>2
  <2> QED BY <2>4, <2>5
<1> QED BY <1>4, <1>5, <1>6

LEMMA JoinedNone == ASSUME NEW f PROVE Joined(f, 0) = <<>>
BY DEF Joined, FlattenSeq

LEMMA SplitList ==
  ASSUME NEW T, NEW s \in Seq(T), NEW n \in 0 .. Len(s)
  PROVE  /\ SubSeq(s, 1, n) \in Seq(T) /\ Len(SubSeq(s, 1, n)) = n
         /\ SubSeq(s, n + 1, Len(s)) \in Seq(T) /\ Len(SubSeq(s, n + 1, Len(s))) = Len(s) - n
         /\ SubSeq(s, 1, n) \o SubSeq(s, n + 1, Len(s)) = s
<1>1. Len(s) \in Nat /\ n \in Nat /\ n <= Len(s) /\ \A i \in 1 .. Len(s) : s[i] \in T
  OBVIOUS
<1>2. SubSeq(s, 1, n) \in Seq(T) /\ Len(SubSeq(s, 1, n)) = n
  <2>1. \A i \in 1 .. n : s[i] \in T
    BY <1>1
  <2>2. Len(SubSeq(s, 1, n)) = IF 1 <= n THEN n - 1 + 1 ELSE 0
    BY <1>1, <2>1, SubSeqProperties
  <2> QED BY <1>1, <2>1, <2>2, SubSeqProperties
<1>3. /\ SubSeq(s, n + 1, Len(s)) \in Seq(T)
      /\ Len(SubSeq(s, n + 1, Len(s))) = Len(s) - n
  <2>1. n + 1 \in Int /\ Len(s) \in Int /\ \A i \in n + 1 .. Len(s) : s[i] \in T
    BY <1>1
  <2>2. /\ SubSeq(s, n + 1, Len(s)) \in Seq(T)
        /\ Len(SubSeq(s, n + 1, Len(s))) = IF n + 1 <= Len(s) THEN Len(s) - (n + 1) + 1 ELSE 0
    BY <2>1, SubSeqProperties
  <2> QED BY <1>1, <2>2
<1>4. SubSeq(s, 1, n) \o SubSeq(s, n + 1, Len(s)) = s
  <2>1. 1 \in 1 .. Len(s) + 1 /\ n \in 1 - 1 .. Len(s) /\ Len(s) \in n .. Len(s)
    BY <1>1
  <2> QED BY <2>1, ConcatAdjacentSubSeq, SubSeqFull
<1> QED BY <1>2, <1>3, <1>4

\* What a list loses with its first member, and what a part of it has.
LEMMA WithoutFirst ==
  ASSUME NEW T, NEW s \in Seq(T), s # <<>>
  PROVE  /\ Head(s) \in T /\ Tail(s) \in Seq(T)
         /\ \A x \in Range(s) : x = Head(s) \/ x \in Range(Tail(s))
         /\ Range(Tail(s)) \subseteq Range(s) /\ Head(s) \in Range(s)
<1>1. Len(s) \in Nat /\ Len(s) > 0 /\ DOMAIN s = 1 .. Len(s)
  OBVIOUS
<1>2. Head(s) = s[1] /\ s[1] \in T /\ Tail(s) \in Seq(T) /\ Len(Tail(s)) = Len(s) - 1
  BY <1>1
<1>3. \A i \in 1 .. Len(s) - 1 : Tail(s)[i] = s[i + 1]
  BY <1>1
<1>4. DOMAIN Tail(s) = 1 .. Len(s) - 1
  BY <1>1, <1>2
<1>5. ASSUME NEW i \in 1 .. Len(s) PROVE s[i] = Head(s) \/ s[i] \in Range(Tail(s))
  <2>1. CASE i = 1
    BY <1>2, <2>1
  <2>2. CASE i # 1
    <3>1. i - 1 \in 1 .. Len(s) - 1 /\ (i - 1) + 1 = i
      BY <1>1, <2>2
    <3>2. Tail(s)[i - 1] = s[i]
      BY <1>3, <3>1
    <3> QED BY <1>4, <3>1, <3>2 DEF Range
  <2> QED BY <2>1, <2>2
<1>6. \A x \in Range(s) : x = Head(s) \/ x \in Range(Tail(s))
  BY <1>1, <1>5 DEF Range
<1>7. Range(Tail(s)) \subseteq Range(s)
  <2>1. \A i \in 1 .. Len(s) - 1 : i + 1 \in 1 .. Len(s)
    BY <1>1
  <2> QED BY <1>1, <1>3, <1>4, <2>1 DEF Range
<1>8. Head(s) \in Range(s)
  BY <1>1, <1>2 DEF Range
<1> QED BY <1>2, <1>6, <1>7, <1>8

LEMMA PartOf ==
  ASSUME NEW T, NEW s \in Seq(T), NEW k \in Nat, NEW n \in Nat, n <= Len(s)
  PROVE  /\ SubSeq(s, k + 1, n) \in Seq(T)
         /\ Len(SubSeq(s, k + 1, n)) = IF k + 1 <= n THEN n - k ELSE 0
         /\ \A i \in k + 1 .. n : s[i] \in Range(SubSeq(s, k + 1, n))
         /\ \A i \in 1 .. n - k : SubSeq(s, k + 1, n)[i] = s[k + i]
<1>1. /\ k + 1 \in Int /\ n \in Int /\ \A i \in k + 1 .. n : s[i] \in T
  <2>1. Len(s) \in Nat
    OBVIOUS
  <2>2. \A i \in k + 1 .. n : i \in 1 .. Len(s)
    BY <2>1
  <2> QED BY <2>2
<1>2. /\ SubSeq(s, k + 1, n) \in Seq(T)
      /\ Len(SubSeq(s, k + 1, n)) = IF k + 1 <= n THEN n - (k + 1) + 1 ELSE 0
      /\ \A i \in 1 .. n - (k + 1) + 1 : SubSeq(s, k + 1, n)[i] = s[(k + 1) + i - 1]
  BY <1>1, SubSeqProperties
<1> DEFINE part == SubSeq(s, k + 1, n)
<1> HIDE DEF part
<1>3. /\ part \in Seq(T) /\ Len(part) = IF k + 1 <= n THEN n - k ELSE 0
  BY <1>2 DEF part
<1>4. \A i \in 1 .. n - k : part[i] = s[k + i]
  <2> TAKE i \in 1 .. n - k
  <2>1. i \in 1 .. n - (k + 1) + 1 /\ (k + 1) + i - 1 = k + i
    OBVIOUS
  <2>2. part[i] = s[(k + 1) + i - 1]
    BY <1>2, <2>1 DEF part
  <2> QED BY <2>1, <2>2
<1>5. ASSUME NEW i \in k + 1 .. n PROVE s[i] \in Range(part)
  <2>1. i - k \in 1 .. n - k /\ k + (i - k) = i /\ k + 1 <= n
    OBVIOUS
  <2>2. i - k \in DOMAIN part /\ part[i - k] = s[i]
    BY <1>3, <1>4, <2>1
  <2> QED BY <2>2 DEF Range
<1> QED BY <1>3, <1>4, <1>5 DEF part

\* The page that is fetched: what the list has from the offset on, or its first part.

LEMMA TwoNumbers ==
  ASSUME NEW a \in Nat, NEW b \in Nat
  PROVE  /\ Min({a, b}) = IF a <= b THEN a ELSE b
         /\ Max({a, b}) = IF a >= b THEN a ELSE b
BY DEF Min, Max

(***************************************************************************)
(* The groups of the deduplication (ScieloDedup)                           *)
(***************************************************************************)

\* Parents stay in the tree, and lead to the leader: it is in every set that holds
\* the parents of its members, so there is no cycle.
Tree ==
  /\ \A i \in Articles : leader[parent[i]] = leader[i] /\ parent[leader[i]] = leader[i]
  /\ \A S \in SUBSET Articles :
       (\A i \in S : parent[i] \in S) => \A i \in S : leader[i] \in S

\* The pair in hand comes from the strategy at hand, and the finds stay in the
\* trees of the pair.
InHand ==
  /\ leader[hand.u] = leader[hand.i] /\ leader[hand.v] = leader[hand.j]
  /\ hand.call = "none" => hand = Free
  /\ hand.call \in {"compare", "union"} =>
       <<hand.i, hand.j>> \in Pairs /\ stage \in Strategies
  /\ hand.call = "union" => Duplicates(<<hand.i, hand.j>>)
  /\ hand.call = "compare" =>
       stage \in rules.use /\ <<hand.i, hand.j>> \in Candidates(stage)
  /\ hand.call = "collect" => hand.i = hand.j /\ stage = "fuzzy" /\ todo = {}
  /\ todo # {} => stage \in Strategies \cap rules.use /\ todo \subseteq Candidates(stage)

Sound ==
  \A S \in SUBSET Articles : Closed(S) => \A i \in Articles : i \in S <=> leader[i] \in S

\* The strategies behind the one at hand.
Past(s) ==
  \/ stage = "pid" /\ s = "doi"
  \/ stage = "fuzzy" /\ s \in {"doi", "pid"}
  \/ stage = "done" /\ s \in Strategies

\* Strategy s has dealt with pair p.
Dealt(s, p) ==
  \/ Past(s)
  \/ /\ s = stage /\ p \notin todo
     /\ ~(hand.call \in {"compare", "union"} /\ p = <<hand.i, hand.j>>)

Complete ==
  \A s \in Strategies : \A p \in Pairs :
    s \in rules.use /\ p \in Candidates(s) /\ Accepts(s, p) /\ Dealt(s, p)
      => leader[p[1]] = leader[p[2]]

Collecting ==
  /\ \A i \in Articles : group[i] # 0 =>
       /\ group[i] = leader[i] /\ stage \in {"fuzzy", "done"} /\ todo = {}
       /\ hand.call \in {"none", "collect"}
  /\ hand.call = "collect" => \A k \in 1 .. hand.i - 1 : group[k] # 0
  /\ stage = "done" => hand = Free /\ todo = {} /\ \A i \in Articles : group[i] # 0

Fresh ==
  stage \in {"idle", "read"} =>
    hand = Free /\ todo = {} /\ leader = [i \in Articles |-> i]

DedupInv ==
  DedupTypeOK /\ Tree /\ InHand /\ Sound /\ Complete /\ Collecting /\ Fresh

\* A root is the leader of its tree.
LEMMA RootLeads == ASSUME Tree, NEW i \in Articles, parent[i] = i PROVE leader[i] = i
<1>1. {i} \in SUBSET Articles /\ \A k \in {i} : parent[k] \in {i}
  OBVIOUS
<1>2. \A k \in {i} : leader[k] \in {i}
  BY <1>1 DEF Tree
<1> QED BY <1>2

LEMMA FreeType ==
  Free \in [call : {"none", "compare", "union", "collect"},
            i : Articles, j : Articles, u : Articles, v : Articles]
BY SizeAssumption DEF Free, Articles

LEMMA FindingType ==
  ASSUME NEW call \in {"none", "compare", "union", "collect"},
         NEW i \in Articles, NEW j \in Articles
  PROVE  Finding(call, i, j) \in [call : {"none", "compare", "union", "collect"},
            i : Articles, j : Articles, u : Articles, v : Articles]
BY DEF Finding

LEMMA PairMembers == \A p \in Pairs : p[1] \in Articles /\ p[2] \in Articles /\ p = <<p[1], p[2]>>
BY DEF Pairs

\* A pair a strategy accepts among its candidates is one of duplicates, and a pair of
\* duplicates is accepted among the candidates of a strategy in use: years within the
\* tolerance are both near one year.
LEMMA AcceptedAreDuplicates ==
  ASSUME NEW s \in Strategies, NEW p \in Pairs, s \in rules.use, p \in Candidates(s),
         Accepts(s, p)
  PROVE  Duplicates(p)
BY DEF Strategies, Candidates, Duplicates

LEMMA DuplicatesAreAccepted ==
  ASSUME DedupTypeOK, NEW p \in Pairs, Duplicates(p)
  PROVE  \E s \in Strategies : s \in rules.use /\ p \in Candidates(s) /\ Accepts(s, p)
<1>1. PICK s \in rules.use :
        /\ s = "doi" => article[p[1]].doi # 0 /\ article[p[1]].doi = article[p[2]].doi
        /\ s = "pid" => article[p[1]].pid # 0 /\ article[p[1]].pid = article[p[2]].pid
        /\ Accepts(s, p)
  BY DEF Duplicates
<1>2. s \in Strategies
  BY DEF DedupTypeOK, Rules
<1>3. ASSUME s = "fuzzy" PROVE p \in Candidates(s)
  <2>1. YearsClose(article[p[1]], article[p[2]])
    BY <1>1, <1>3 DEF Accepts
  <2>2. rules.tolerance \in Nat /\ article[p[1]].year \in Nat /\ article[p[2]].year \in Nat
    BY PairMembers DEF DedupTypeOK, Rules, Record
  <2> QED BY <1>3, <2>1, <2>2 DEF YearsClose, Candidates
<1>4. p \in Candidates(s)
  BY <1>1, <1>2, <1>3 DEF Strategies, Candidates
<1> QED BY <1>1, <1>2, <1>4

\* Only Read changes what makes duplicates.
LEMMA SameInputs ==
  ASSUME article' = article, rules' = rules
  PROVE  /\ \A s, p : Accepts(s, p)' <=> Accepts(s, p)
         /\ \A s : Candidates(s)' = Candidates(s)
         /\ \A p : Duplicates(p)' <=> Duplicates(p)
         /\ \A S : Closed(S)' <=> Closed(S)
<1>1. \A s, p : Accepts(s, p)' <=> Accepts(s, p)
  BY DEF Accepts, ContextMatches, SameYear, SameSource, SimilarTitles, YearsClose, Deduplicable
<1>2. \A s : Candidates(s)' = Candidates(s)
  BY DEF Candidates
<1>3. \A p : Duplicates(p)' <=> Duplicates(p)
  BY <1>1 DEF Duplicates
<1>4. \A S : Closed(S)' <=> Closed(S)
  BY <1>3 DEF Closed
<1> QED BY <1>1, <1>2, <1>3, <1>4

LEMMA InitInv == DedupInit => DedupInv
<1> SUFFICES ASSUME DedupInit PROVE DedupInv
  OBVIOUS
<1>1. article \in [Articles -> Record] /\ rules \in Rules
  BY InputAssumption DEF DedupInit
<1>2. DedupTypeOK
  BY <1>1, FreeType, SizeAssumption DEF DedupInit, DedupTypeOK, Articles
<1>3. Tree /\ Sound /\ Collecting /\ Fresh
  BY DEF DedupInit, Tree, Sound, Collecting, Fresh, Free
<1>4. InHand
  BY SizeAssumption DEF DedupInit, InHand, Free, Articles
<1>5. Complete
  BY DEF DedupInit, Complete, Dealt, Past, Strategies
<1> QED BY <1>2, <1>3, <1>4, <1>5 DEF DedupInv

\* The first pairs are read: every record is a tree.
LEMMA ReadKeeps == ASSUME DedupInv, Read PROVE DedupInv'
<1> USE DEF DedupInv
<1>1. DedupTypeOK'
  BY InputAssumption DEF Read, DedupTypeOK
<1>2. leader = [i \in Articles |-> i] /\ hand = Free /\ todo = {}
  BY DEF Read, Fresh
<1>3. Tree' /\ Sound' /\ Fresh' /\ Collecting'
  BY <1>2 DEF Read, Tree, Sound, Fresh, Collecting, Free
<1>4. InHand'
  BY <1>2 DEF Read, InHand, Free
<1>5. Complete'
  BY DEF Read, Complete, Dealt, Past, Strategies
<1> QED BY <1>1, <1>3, <1>4, <1>5

\* A strategy begins when the one before has dealt with all its pairs.
LEMMA BeginKeeps == ASSUME DedupInv, NEW s \in Strategies, Begin(s) PROVE DedupInv'
<1> USE DEF DedupInv
<1>0. article' = article /\ rules' = rules /\ UNCHANGED <<parent, leader, group, hand>>
      /\ hand = Free /\ todo = {} /\ stage' = s /\ Follows(stage, s)
      /\ stage \in {"read", "doi", "pid"}
  BY DEF Begin, Follows
<1>1. DedupTypeOK'
  BY <1>0 DEF Begin, DedupTypeOK, Candidates
<1>2. Tree' /\ Sound' /\ Fresh'
  BY <1>0, SameInputs DEF Tree, Sound, Fresh, Strategies
<1>3. Collecting'
  BY <1>0 DEF Collecting, Free, Follows, Strategies, Begin
<1>4. InHand'
  BY <1>0, SameInputs DEF InHand, Begin, Free
<1>5. Complete'
  <2> SUFFICES ASSUME NEW t \in Strategies, NEW p \in Pairs, t \in rules.use,
                      p \in Candidates(t), Accepts(t, p), Dealt(t, p)'
               PROVE  leader[p[1]] = leader[p[2]]
    BY <1>0, SameInputs DEF Complete
  <2>1. t # s
    BY <1>0 DEF Dealt, Past, Begin, Strategies
  <2>2. Dealt(t, p)
    BY <1>0, <2>1 DEF Dealt, Past, Follows, Strategies, Free
  <2> QED BY <2>2 DEF Complete
<1> QED BY <1>1, <1>2, <1>3, <1>4, <1>5

\* A pair is taken, or turned down at once because its records are no duplicates.
LEMMA TakeKeeps == ASSUME DedupInv, NEW p \in Pairs, TakePair(p) PROVE DedupInv'
<1> USE DEF DedupInv
<1>0. article' = article /\ rules' = rules /\ UNCHANGED <<stage, parent, leader, group>>
      /\ hand = Free /\ p \in todo /\ todo' = todo \ {p} /\ stage \in Strategies
      /\ stage \in rules.use /\ p \in Candidates(stage) /\ p[1] \in Articles /\ p[2] \in Articles
      /\ p = <<p[1], p[2]>>
  BY PairMembers DEF TakePair, InHand
<1>1. /\ hand' \in {Finding("compare", p[1], p[2]), Finding("union", p[1], p[2]), Free}
      /\ hand' = Finding("union", p[1], p[2]) => Accepts(stage, p)
  BY DEF TakePair, Finding, Free
<1>2. DedupTypeOK'
  <2>1. hand' \in [call : {"none", "compare", "union", "collect"},
                   i : Articles, j : Articles, u : Articles, v : Articles]
    BY <1>0, <1>1, FreeType, FindingType
  <2> QED BY <1>0, <2>1 DEF DedupTypeOK
<1>3. Tree' /\ Sound' /\ Fresh'
  BY <1>0, SameInputs DEF Tree, Sound, Fresh, Strategies
<1>4. Collecting'
  <2>1. \A i \in Articles : group[i] = 0
    BY <1>0 DEF Collecting
  <2>2. stage' # "done" /\ hand'.call # "collect"
    BY <1>0, <1>1 DEF Strategies, Finding, Free
  <2> QED BY <1>0, <2>1, <2>2 DEF Collecting
<1>5. InHand'
  <2>1. CASE hand' = Free
    BY <1>0, <2>1, SameInputs DEF InHand, Free
  <2>2. CASE hand' = Finding("compare", p[1], p[2])
    BY <1>0, <2>2, SameInputs DEF InHand, Finding, Free
  <2>3. CASE hand' = Finding("union", p[1], p[2])
    <3>1. Duplicates(p)
      BY <1>0, <1>1, <2>3, AcceptedAreDuplicates
    <3> QED BY <1>0, <2>3, <3>1, SameInputs DEF InHand, Finding, Free
  <2> QED BY <1>1, <2>1, <2>2, <2>3
<1>6. Complete'
  <2> SUFFICES ASSUME NEW t \in Strategies, NEW q \in Pairs, t \in rules.use,
                      q \in Candidates(t), Accepts(t, q), Dealt(t, q)'
               PROVE  leader[q[1]] = leader[q[2]]
    BY <1>0, SameInputs DEF Complete
  <2>1. ~(t = stage /\ q = p)
    <3> SUFFICES ASSUME t = stage, q = p PROVE FALSE
      OBVIOUS
    <3>1. ~Past(t)'
      BY <1>0 DEF Past, Strategies
    <3>2. hand' \in {Finding("compare", p[1], p[2]), Finding("union", p[1], p[2])}
      BY DEF TakePair
    <3> QED BY <1>0, <3>1, <3>2 DEF Dealt, Finding
  <2>2. Past(t)' <=> Past(t)
    BY <1>0 DEF Past
  <2>3. Dealt(t, q)
    BY <1>0, <2>1, <2>2 DEF Dealt, Free
  <2> QED BY <2>3 DEF Complete
<1> QED BY <1>2, <1>3, <1>4, <1>5, <1>6

\* Shortening a path moves a record and a find up within their tree.
LEMMA HalveKeeps == ASSUME DedupInv, HalvePath PROVE DedupInv'
<1> USE DEF DedupInv
<1> DEFINE x == IF AtRoot(hand.u) THEN hand.v ELSE hand.u
           up == parent[parent[x]]
<1>0. article' = article /\ rules' = rules /\ UNCHANGED <<stage, todo, leader, group>>
      /\ hand # Free /\ ~Found /\ parent' = [parent EXCEPT ![x] = up]
      /\ hand' = IF AtRoot(hand.u) THEN [hand EXCEPT !.v = up] ELSE [hand EXCEPT !.u = up]
  BY DEF HalvePath
<1>1. x \in Articles /\ up \in Articles /\ leader[up] = leader[x] /\ parent[x] # x
  BY <1>0 DEF DedupTypeOK, Tree, AtRoot, Found
<1>2. hand'.call = hand.call /\ hand'.i = hand.i /\ hand'.j = hand.j
  BY <1>0 DEF DedupTypeOK
<1>3. DedupTypeOK'
  BY <1>0, <1>1 DEF DedupTypeOK
<1>4. Tree'
  <2>1. \A i \in Articles : leader[parent'[i]] = leader[i] /\ parent'[leader[i]] = leader[i]
    BY <1>0, <1>1 DEF DedupTypeOK, Tree
  <2>2. ASSUME NEW S \in SUBSET Articles, \A i \in S : parent'[i] \in S, NEW i \in S
        PROVE  leader[i] \in S
    <3> DEFINE T == IF x \in S THEN S \cup {parent[x]} ELSE S
    <3>1. T \in SUBSET Articles /\ \A k \in T : parent[k] \in T
      BY <1>0, <1>1, <2>2 DEF DedupTypeOK
    <3>2. leader[i] \in T
      BY <3>1 DEF Tree
    <3>3. CASE leader[i] \notin S
      <4>1. x \in S /\ leader[i] = parent[x]
        BY <3>2, <3>3
      <4>2. up = parent[x]
        BY <4>1 DEF Tree
      <4> QED BY <1>0, <1>1, <2>2, <4>1, <4>2 DEF DedupTypeOK
    <3> QED BY <3>3
  <2> QED BY <1>0, <2>1, <2>2 DEF Tree
<1>5. leader[hand'.u] = leader[hand.i] /\ leader[hand'.v] = leader[hand.j]
  BY <1>0, <1>1 DEF DedupTypeOK, InHand
<1>6. InHand'
  <2>1. hand.call # "none"
    BY <1>0 DEF InHand
  <2> QED BY <1>0, <1>2, <1>5, <2>1, SameInputs DEF InHand
<1>7. Sound' /\ Fresh'
  BY <1>0, SameInputs DEF Sound, Fresh
<1>8. Collecting'
  BY <1>0, <1>2 DEF Collecting
<1>9. Complete'
  BY <1>0, <1>2, SameInputs DEF Complete, Dealt, Past
<1> QED BY <1>3, <1>4, <1>6, <1>7, <1>8, <1>9

\* A pair that is passed over is in one tree already, or is none of duplicates.
LEMMA CompareKeeps == ASSUME DedupInv, Compare PROVE DedupInv'
<1> USE DEF DedupInv
<1> DEFINE p == <<hand.i, hand.j>>
           unite == hand.u # hand.v /\ Accepts(stage, p)
<1>0. article' = article /\ rules' = rules /\ UNCHANGED <<stage, todo, parent, leader, group>>
      /\ hand.call = "compare" /\ Found
      /\ hand' = IF unite THEN Finding("union", hand.i, hand.j) ELSE Free
  BY DEF Compare
<1>1. p \in Pairs /\ stage \in Strategies /\ stage \in rules.use /\ p \in Candidates(stage)
      /\ hand.i \in Articles /\ hand.j \in Articles
  BY <1>0 DEF InHand, DedupTypeOK
<1>2. DedupTypeOK'
  <2>1. hand' \in [call : {"none", "compare", "union", "collect"},
                   i : Articles, j : Articles, u : Articles, v : Articles]
    BY <1>0, <1>1, FreeType, FindingType
  <2> QED BY <1>0, <2>1 DEF DedupTypeOK
<1>3. Tree' /\ Sound' /\ Fresh'
  BY <1>0, <1>1, SameInputs DEF Tree, Sound, Fresh, Strategies
<1>4. Collecting'
  <2>1. \A i \in Articles : group[i] = 0
    BY <1>0 DEF Collecting
  <2>2. stage' # "done" /\ hand'.call # "collect"
    BY <1>0, <1>1 DEF Strategies, Finding, Free
  <2> QED BY <1>0, <2>1, <2>2 DEF Collecting
<1>5. InHand'
  <2>1. CASE ~unite
    BY <1>0, <2>1, SameInputs DEF InHand, Free
  <2>2. CASE unite
    <3>1. Duplicates(p)
      BY <1>1, <2>2, AcceptedAreDuplicates
    <3> QED BY <1>0, <1>1, <2>2, <3>1, SameInputs DEF InHand, Finding, Free
  <2> QED BY <2>1, <2>2
<1>6. Complete'
  <2> SUFFICES ASSUME NEW t \in Strategies, NEW q \in Pairs, t \in rules.use,
                      q \in Candidates(t), Accepts(t, q), Dealt(t, q)'
               PROVE  leader[q[1]] = leader[q[2]]
    BY <1>0, SameInputs DEF Complete
  <2>1. CASE t = stage /\ q = p
    <3>1. ~Past(t)'
      BY <1>0, <2>1 DEF Past, Strategies
    <3>2. ~unite
      BY <1>0, <2>1, <3>1 DEF Dealt, Finding
    <3>3. hand.u = hand.v
      BY <2>1, <3>2
    <3> QED BY <2>1, <3>3 DEF InHand
  <2>2. CASE ~(t = stage /\ q = p)
    <3>1. Past(t)' <=> Past(t)
      BY <1>0 DEF Past
    <3>2. Dealt(t, q)
      BY <1>0, <2>2, <3>1 DEF Dealt
    <3> QED BY <3>2 DEF Complete
  <2> QED BY <2>1, <2>2
<1> QED BY <1>2, <1>3, <1>4, <1>5, <1>6

\* The trees of two duplicates become one.
LEMMA LinkKeeps == ASSUME DedupInv, Link PROVE DedupInv'
<1> USE DEF DedupInv
<1> DEFINE p == <<hand.i, hand.j>>
           u == hand.u
           v == hand.v
<1>0. article' = article /\ rules' = rules /\ UNCHANGED <<stage, todo, group>>
      /\ hand.call = "union" /\ parent[u] = u /\ parent[v] = v /\ hand' = Free
      /\ parent' = (IF u = v THEN parent ELSE [parent EXCEPT ![u] = v])
      /\ leader' = [i \in Articles |-> IF leader[i] = u THEN v ELSE leader[i]]
  BY DEF Link, Found, AtRoot
<1>1. p \in Pairs /\ stage \in Strategies /\ Duplicates(p)
      /\ hand.i \in Articles /\ hand.j \in Articles /\ u \in Articles /\ v \in Articles
  BY <1>0 DEF InHand, DedupTypeOK
<1>2. leader[u] = u /\ leader[v] = v /\ leader[hand.i] = u /\ leader[hand.j] = v
  BY <1>0, <1>1, RootLeads DEF InHand
<1>3. DedupTypeOK'
  <2>1. leader' \in [Articles -> Articles] /\ parent' \in [Articles -> Articles]
    BY <1>0, <1>1 DEF DedupTypeOK
  <2> QED BY <1>0, <2>1, FreeType DEF DedupTypeOK
<1>4. Tree'
  <2>1. \A i \in Articles : leader'[parent'[i]] = leader'[i] /\ parent'[leader'[i]] = leader'[i]
    BY <1>0, <1>1, <1>2 DEF Tree, DedupTypeOK
  <2>2. ASSUME NEW S \in SUBSET Articles, \A i \in S : parent'[i] \in S, NEW i \in S
        PROVE  leader'[i] \in S
    <3>1. \A k \in S : parent[k] \in S
      BY <1>0, <1>1, <2>2 DEF DedupTypeOK
    <3>2. leader[i] \in S
      BY <3>1 DEF Tree
    <3>3. CASE leader[i] = u /\ u # v
      BY <1>0, <1>1, <2>2, <3>2, <3>3 DEF DedupTypeOK
    <3> QED BY <1>0, <3>2, <3>3
  <2> QED BY <1>0, <2>1, <2>2 DEF Tree
<1>5. InHand'
  BY <1>0, SameInputs DEF InHand, Free
<1>6. Sound'
  <2> SUFFICES ASSUME NEW S \in SUBSET Articles, Closed(S), NEW i \in Articles
               PROVE  i \in S <=> leader'[i] \in S
    BY <1>0, SameInputs DEF Sound
  <2>1. hand.i \in S <=> hand.j \in S
    BY <1>1 DEF Closed
  <2>2. u \in S <=> v \in S
    BY <1>1, <1>2, <2>1 DEF Sound
  <2> QED BY <1>0, <1>1, <2>2 DEF Sound
<1>7. Fresh' /\ Collecting'
  <2>1. \A i \in Articles : group[i] = 0
    BY <1>0 DEF Collecting
  <2> QED BY <1>0, <1>1, <2>1 DEF Fresh, Collecting, Strategies, Free
<1>8. Complete'
  <2> SUFFICES ASSUME NEW t \in Strategies, NEW q \in Pairs, t \in rules.use,
                      q \in Candidates(t), Accepts(t, q), Dealt(t, q)'
               PROVE  leader'[q[1]] = leader'[q[2]]
    BY <1>0, SameInputs DEF Complete
  <2>0. q[1] \in Articles /\ q[2] \in Articles
    BY PairMembers
  <2>1. CASE q = p
    BY <1>0, <1>1, <1>2, <2>0, <2>1
  <2>2. CASE q # p
    <3>1. Past(t)' <=> Past(t)
      BY <1>0 DEF Past
    <3>2. Dealt(t, q)
      BY <1>0, <2>2, <3>1 DEF Dealt
    <3>3. leader[q[1]] = leader[q[2]]
      BY <3>2 DEF Complete
    <3> QED BY <1>0, <2>0, <3>3
  <2> QED BY <2>1, <2>2
<1> QED BY <1>3, <1>4, <1>5, <1>6, <1>7, <1>8

\* Records are collected under their leaders.
LEMMA CollectKeeps == ASSUME DedupInv, NEW i \in Articles, Collect(i) PROVE DedupInv'
<1> USE DEF DedupInv
<1>0. article' = article /\ rules' = rules /\ UNCHANGED <<stage, todo, parent, leader, group>>
      /\ stage = "fuzzy" /\ todo = {} /\ hand = Free /\ group[i] = 0
      /\ (\A k \in 1 .. i - 1 : group[k] # 0) /\ hand' = Finding("collect", i, i)
  BY DEF Collect
<1>1. DedupTypeOK'
  BY <1>0, FindingType DEF DedupTypeOK
<1>2. Tree' /\ Sound' /\ Fresh'
  BY <1>0, SameInputs DEF Tree, Sound, Fresh
<1>3. InHand' /\ Collecting'
  BY <1>0 DEF InHand, Collecting, Finding
<1>4. Complete'
  BY <1>0, SameInputs DEF Complete, Dealt, Past, Finding, Free
<1> QED BY <1>1, <1>2, <1>3, <1>4

LEMMA CollectedKeeps == ASSUME DedupInv, Collected PROVE DedupInv'
<1> USE DEF DedupInv
<1>0. article' = article /\ rules' = rules /\ UNCHANGED <<todo, parent, leader>>
      /\ hand.call = "collect" /\ parent[hand.u] = hand.u /\ hand' = Free
      /\ group' = [group EXCEPT ![hand.i] = hand.u]
      /\ stage' = (IF hand.i = N THEN "done" ELSE stage)
  BY DEF Collected, Found, AtRoot
<1>1. stage = "fuzzy" /\ todo = {} /\ hand.i \in Articles /\ hand.u \in Articles
      /\ hand.u = leader[hand.i] /\ (\A k \in 1 .. hand.i - 1 : group[k] # 0)
  BY <1>0, RootLeads DEF InHand, Collecting, DedupTypeOK
<1>2. DedupTypeOK'
  <2>1. group' \in [Articles -> 0 .. N]
    BY <1>0, <1>1 DEF DedupTypeOK, Articles
  <2> QED BY <1>0, <2>1, FreeType DEF DedupTypeOK
<1>3. Tree' /\ Sound' /\ Fresh'
  BY <1>0, <1>1, SameInputs DEF Tree, Sound, Fresh
<1>4. InHand'
  BY <1>0, <1>1, SameInputs DEF InHand, Free
<1>5. Collecting'
  <2>1. \A i \in Articles : group'[i] # 0 => group'[i] = leader[i]
    BY <1>0, <1>1 DEF Collecting, DedupTypeOK
  <2>2. ASSUME stage' = "done" PROVE \A i \in Articles : group'[i] # 0
    <3>1. hand.i = N
      BY <1>0, <1>1, <2>2
    <3>2. ASSUME NEW i \in Articles, i # N PROVE group[i] # 0
      BY <1>1, <3>1, <3>2, SizeAssumption DEF Articles
    <3>3. hand.u # 0 /\ group'[N] = hand.u
      BY <1>0, <1>1, <3>1 DEF DedupTypeOK, Articles
    <3>4. ASSUME NEW i \in Articles, i # N PROVE group'[i] = group[i]
      BY <1>0, <3>1, <3>4 DEF DedupTypeOK
    <3> QED BY <3>2, <3>3, <3>4
  <2> QED BY <1>0, <1>1, <2>1, <2>2 DEF Collecting, Free
<1>6. Complete'
  BY <1>0, <1>1, SameInputs DEF Complete, Dealt, Past, Free, Strategies
<1> QED BY <1>2, <1>3, <1>4, <1>5, <1>6

LEMMA StutterKeeps == ASSUME DedupInv, UNCHANGED dedupVars PROVE DedupInv'
BY SameInputs
DEF DedupInv, dedupVars, DedupTypeOK, Tree, InHand, Sound, Complete, Dealt, Past, Collecting, Fresh

LEMMA StepKeeps == DedupInv /\ [DedupNext]_dedupVars => DedupInv'
BY ReadKeeps, BeginKeeps, TakeKeeps, HalveKeeps, CompareKeeps, LinkKeeps, CollectKeeps,
   CollectedKeeps, StutterKeeps
DEF DedupNext

\* All steps of the run keep the forest, the pairs and the groups as the invariant says.
THEOREM DedupInvariant == DedupSpec => []DedupInv
BY InitInv, StepKeeps, PTL DEF DedupSpec

\* Every run of the deduplication keeps its variables to their types (UnionFind,
\* find_duplicates).
THEOREM DedupTypeCorrect == DedupSpec => []DedupTypeOK
<1>1. DedupInv => DedupTypeOK
  BY DEF DedupInv
<1> QED BY <1>1, DedupInvariant, PTL

\* When all pairs have been dealt with, the records of one leader are a set that no
\* duplicate leaves.
LEMMA LedIsClosed ==
  ASSUME DedupInv, stage = "done", NEW l \in Articles
  PROVE  Closed({k \in Articles : leader[k] = l})
<1> SUFFICES ASSUME NEW p \in Pairs, Duplicates(p) PROVE leader[p[1]] = leader[p[2]]
  BY PairMembers DEF Closed
<1>1. PICK s \in Strategies : s \in rules.use /\ p \in Candidates(s) /\ Accepts(s, p)
  BY DuplicatesAreAccepted DEF DedupInv
<1>2. Dealt(s, p)
  BY DEF Dealt, Past
<1> QED BY <1>1, <1>2 DEF DedupInv, Complete

LEMMA InvGivesClosure == DedupInv => GroupsAreClosure
<1> SUFFICES ASSUME DedupInv, stage = "done", NEW i \in Articles, NEW j \in Articles
             PROVE  group[i] = group[j]
                      <=> \A S \in SUBSET Articles : Closed(S) /\ i \in S => j \in S
  BY DEF GroupsAreClosure
<1>1. group[i] = leader[i] /\ group[j] = leader[j] /\ leader[i] \in Articles
  BY DEF DedupInv, Collecting, DedupTypeOK
<1>2. ASSUME leader[i] = leader[j], NEW S \in SUBSET Articles, Closed(S), i \in S
      PROVE  j \in S
  BY <1>2 DEF DedupInv, Sound
<1>3. ASSUME \A S \in SUBSET Articles : Closed(S) /\ i \in S => j \in S
      PROVE  leader[i] = leader[j]
  <2>1. Closed({k \in Articles : leader[k] = leader[i]})
    BY <1>1, LedIsClosed
  <2> QED BY <1>3, <2>1
<1> QED BY <1>1, <1>2, <1>3

\* For any number of records, any rules and any order of the pairs, two records are
\* grouped together exactly if a chain of duplicates joins them (find_duplicates).
THEOREM ClosureCorrect == DedupSpec => []GroupsAreClosure
BY DedupInvariant, InvGivesClosure, PTL

(***************************************************************************)
(* What is fused from OpenAlex (OpenAlexFusion): the matches               *)
(***************************************************************************)

\* The k-th match kept is one that shares no id with any before it.
IsNewMatch(k) == \A j \in 1 .. k - 1 : matches[j].ids \cap matches[k].ids = {}
NewMatches == {m \in DOMAIN matches : IsNewMatch(m)}

LEMMA KeptIs ==
  ASSUME matches \in Seq(Work)
  PROVE  /\ DOMAIN Kept = 1 .. Cardinality(NewMatches)
         /\ \A k \in DOMAIN Kept :
              \E m \in NewMatches : Kept[k] = matches[m] /\ Count(NewMatches, m) = k
         /\ matches # <<>> => Kept # <<>>
<1>0. PICK n \in Nat : n = Len(matches) /\ DOMAIN matches = 1 .. n
  OBVIOUS
<1>1. NewMatches \in SUBSET (1 .. n)
  BY <1>0 DEF NewMatches
<1> DEFINE Place(k) == CHOOSE m \in DOMAIN matches :
                         IsNewMatch(m) /\ Cardinality({j \in 1 .. m : IsNewMatch(j)}) = k
<1>2. Kept = [k \in 1 .. Cardinality(NewMatches) |-> matches[Place(k)]]
  BY DEF Kept, NewMatches, IsNewMatch
<1>3. ASSUME NEW m \in DOMAIN matches
      PROVE  Cardinality({j \in 1 .. m : IsNewMatch(j)}) = Count(NewMatches, m)
  <2>1. {j \in 1 .. m : IsNewMatch(j)} = {j \in 1 .. m : j \in NewMatches}
    BY <1>0, <1>3 DEF NewMatches
  <2> QED BY <2>1 DEF Count
<1>4. ASSUME NEW k \in 1 .. Cardinality(NewMatches)
      PROVE  Place(k) \in NewMatches /\ Count(NewMatches, Place(k)) = k
  <2>1. PICK m \in NewMatches : Count(NewMatches, m) = k
    BY <1>1, KthIs
  <2>2. \E x \in DOMAIN matches : IsNewMatch(x) /\ Cardinality({j \in 1 .. x : IsNewMatch(j)}) = k
    BY <1>3, <2>1 DEF NewMatches
  <2>3. /\ Place(k) \in DOMAIN matches /\ IsNewMatch(Place(k))
        /\ Cardinality({j \in 1 .. Place(k) : IsNewMatch(j)}) = k
    BY <2>2
  <2> HIDE DEF Place
  <2> QED BY <1>3, <2>3 DEF NewMatches
<1> HIDE DEF Place
<1>5. \A k \in DOMAIN Kept : \E m \in NewMatches : Kept[k] = matches[m] /\ Count(NewMatches, m) = k
  BY <1>2, <1>4
<1>6. ASSUME matches # <<>> PROVE Kept # <<>>
  <2>1. 1 \in NewMatches
    BY <1>0, <1>6 DEF NewMatches, IsNewMatch
  <2>2. IsFiniteSet(NewMatches)
    <3>1. IsFiniteSet(1 .. n)
      BY FS_Interval
    <3> QED BY <1>1, <3>1, FS_Subset
  <2>3. Cardinality(NewMatches) # 0 /\ Cardinality(NewMatches) \in Nat
    BY <2>1, <2>2, FS_EmptySet, FS_CardinalityType
  <2>4. 1 \in DOMAIN Kept
    BY <1>2, <2>3
  <2> QED BY <2>4
<1> QED BY <1>2, <1>5, <1>6

\* The configurations of the code tell works apart: titles that are alike are not
\* turned down as unlike, and no year alone makes up a strict score.
Discriminating ==
  \A c \in Configs : /\ c.titleReject <= c.titleMatch
                     /\ c.yearExact < c.strictMin /\ c.yearClose < c.strictMin

\* They search by DOI, when they do, before anything else.
DoiFirst ==
  \A c \in Configs : \A i, j \in DOMAIN c.strategies :
    i < j /\ c.strategies[j] = "doi" => c.strategies[i] = "doi"

FusionTypes ==
  /\ primary \in Primary /\ config \in Configs
  /\ works \subseteq Work /\ IsFiniteSet(works)
  /\ matches \in Seq(works) /\ doiAnswered \in BOOLEAN
  /\ doing \in {"idle", "search", "fuse", "fused"} /\ next \in Nat \ {0}
  /\ doing = "search" => next \in DOMAIN config.strategies
  /\ doing = "idle" => matches = <<>> /\ next = 1 /\ ~doiAnswered

LEMMA OrdersOf ==
  ASSUME NEW S, IsFiniteSet(S), NEW order \in SetToSeqs(S)
  PROVE  order \in Seq(S) /\ (S # {} => order # <<>>)
<1>1. Cardinality(S) \in Nat /\ (Cardinality(S) = 0 <=> S = {})
  BY FS_CardinalityType, FS_EmptySet
<1>2. order \in [1 .. Cardinality(S) -> S]
  BY DEF SetToSeqs
<1>3. PICK n \in Nat : n = Cardinality(S)
  BY <1>1
<1>4. order \in Seq(S) /\ Len(order) = n
  BY <1>2, <1>3
<1> QED BY <1>1, <1>3, <1>4

LEMMA NextPlace ==
  ASSUME FusionTypes, doing = "search", Following, config' = config
  PROVE  /\ next' = next + 1 /\ next' \in Nat \ {0} /\ doing' \in {"search", "fuse"}
         /\ doing' = "search" => next' \in DOMAIN config'.strategies
<1>1. config.strategies \in Seq(Strategy)
  BY FusionAssumption DEF FusionTypes, Config
<1> QED BY <1>1 DEF FusionTypes, Following

\* A match of the search is a hit that is accepted.
LEMMA FoundBySearch ==
  ASSUME FusionTypes, NEW hits \in SUBSET works, Search(hits)
  PROVE  /\ matches' \in Seq(works)
         /\ \A m \in DOMAIN matches' :
              \/ m \in DOMAIN matches /\ matches'[m] = matches[m]
              \/ matches'[m] \in hits /\ Accepted(config.strategies[next], matches'[m])
         /\ (\E w \in hits : Accepted(config.strategies[next], w)) => matches' # <<>>
<1> DEFINE good == {w \in hits : Accepted(config.strategies[next], w)}
<1>1. IsFiniteSet(good)
  BY FS_Subset DEF FusionTypes
<1>2. PICK order \in SetToSeqs(good) : matches' = matches \o order
  BY DEF Search
<1>3. order \in Seq(good) /\ (good # {} => order # <<>>)
  <2> HIDE DEF good
  <2> QED BY <1>1, <1>2, OrdersOf
<1>4. order \in Seq(works) /\ \A i \in DOMAIN order : order[i] \in good
  BY <1>3
<1>5. matches \in Seq(works)
  BY DEF FusionTypes
<1>6. matches' \in Seq(works)
  BY <1>2, <1>4, <1>5
<1>7. \A m \in DOMAIN matches' : \/ m \in DOMAIN matches /\ matches'[m] = matches[m]
                                 \/ matches'[m] \in good
  <2> HIDE DEF good
  <2> QED BY <1>2, <1>4, <1>5
<1>8. good # {} => matches' # <<>>
  <2> HIDE DEF good
  <2> QED BY <1>2, <1>3, <1>4, <1>5
<1> QED BY <1>6, <1>7, <1>8

LEMMA FusionTypesStart == FusionInit => FusionTypes
<1> SUFFICES ASSUME FusionInit PROVE FusionTypes
  OBVIOUS
<1>1. config \in Configs
  BY FusionAssumption DEF FusionInit
<1>2. primary \in Primary
  BY DEF FusionInit, Primary
<1>3. works \subseteq Work /\ IsFiniteSet(works)
  <2>1. works = {}
    BY DEF FusionInit
  <2> QED BY <2>1, FS_EmptySet
<1>4. matches = <<>> /\ matches \in Seq(works) /\ doing = "idle" /\ next = 1
  BY DEF FusionInit
<1>5. doiAnswered \in BOOLEAN /\ ~doiAnswered
  BY DEF FusionInit
<1> QED BY <1>1, <1>2, <1>3, <1>4, <1>5 DEF FusionTypes

LEMMA FusionTypesStep == FusionTypes /\ [FusionNext]_fusionVars => FusionTypes'
<1> SUFFICES ASSUME FusionTypes, [FusionNext]_fusionVars PROVE FusionTypes'
  OBVIOUS
<1>1. ASSUME NEW case \in Cases, NEW c \in Configs, BeginMatch(case, c) PROVE FusionTypes'
  <2>1. case[1] \in Primary /\ case[2] \subseteq Work /\ IsFiniteSet(case[2])
    BY FusionAssumption
  <2>2. c.strategies \in Seq(Strategy)
    BY FusionAssumption DEF Config
  <2>3. doing' = "search" => 1 \in DOMAIN c.strategies
    BY <1>1, <2>2 DEF BeginMatch
  <2> QED BY <1>1, <2>1, <2>3 DEF FusionTypes, BeginMatch
<1>2. ASSUME Skip \/ SearchRaises PROVE FusionTypes'
  <2>1. doing = "search" /\ Following /\ config' = config
    BY <1>2 DEF Skip, SearchRaises
  <2>2. UNCHANGED <<primary, works, config, matches, doiAnswered>>
    BY <1>2 DEF Skip, SearchRaises
  <2> QED BY <2>1, <2>2, NextPlace DEF FusionTypes
<1>3. ASSUME Fuse PROVE FusionTypes'
  BY <1>3 DEF FusionTypes, Fuse
<1>4. ASSUME NEW hits \in SUBSET works, Search(hits) PROVE FusionTypes'
  <2>1. doing = "search" /\ Following /\ UNCHANGED <<primary, works, config>>
    BY <1>4 DEF Search
  <2>2. matches' \in Seq(works)
    BY <1>4, FoundBySearch
  <2>3. doiAnswered' \in BOOLEAN
    BY <1>4 DEF Search, FusionTypes
  <2> QED BY <2>1, <2>2, <2>3, NextPlace DEF FusionTypes
<1>5. ASSUME UNCHANGED fusionVars PROVE FusionTypes'
  BY <1>5 DEF FusionTypes, fusionVars
<1> QED BY <1>1, <1>2, <1>3, <1>4, <1>5 DEF FusionNext

\* What a match has to agree in with the record.
Confirmed(w) ==
  /\ w.gap \in 0 .. config.tolerance
  /\ \/ SameDoi(w)
     \/ /\ BothTitled(w) => w.alike >= config.titleReject
        /\ \/ SharesIsbn(w)
           \/ BothTitled(w) /\ (w.alike >= config.titleMatch \/ SameSourceAs(w))

AllConfirmed == \A m \in DOMAIN matches : Confirmed(matches[m])
ConfirmedInv == FusionTypes /\ AllConfirmed

\* A year that agrees is not enough for a strict search.
LEMMA YearIsNotEnough ==
  ASSUME FusionTypes, Discriminating, NEW w \in Work,
         ~SameDoi(w), ~SharesIsbn(w), ~SameSourceAs(w), Alike(w) < config.titleMatch
  PROVE  Score(w) < config.strictMin
<1>1. /\ config.yearExact \in Nat /\ config.yearClose \in Nat /\ config.strictMin \in Nat
      /\ config.titleMatch \in Nat /\ config.tolerance \in Nat
      /\ config.yearExact < config.strictMin /\ config.yearClose < config.strictMin
  BY FusionAssumption DEF FusionTypes, Config, Discriminating
<1>2. Alike(w) \in 0 .. 100
  BY DEF Alike, Work
<1>3. /\ If(SameDoi(w), config.doi) = 0 /\ If(SharesIsbn(w), config.isbn) = 0
      /\ If(SharesIssn(w), config.sourceId) = 0
      /\ If(w.source = "title", config.sourceTitle) = 0
      /\ If(Alike(w) >= config.titleMatch, config.title) = 0
  <2>1. ~SharesIssn(w) /\ w.source # "title"
    BY DEF SameSourceAs
  <2>2. ~(Alike(w) >= config.titleMatch)
    BY <1>1, <1>2
  <2> QED BY <2>1, <2>2 DEF If
<1>4. If(w.gap = 0, config.yearExact) + If(w.gap \in 1 .. config.tolerance, config.yearClose)
        < config.strictMin
  <2>1. CASE w.gap = 0
    BY <1>1, <2>1 DEF If
  <2>2. CASE w.gap # 0
    BY <1>1, <2>2 DEF If
  <2> QED BY <2>1, <2>2
<1>5. /\ If(w.gap = 0, config.yearExact) \in Nat
      /\ If(w.gap \in 1 .. config.tolerance, config.yearClose) \in Nat
  BY <1>1 DEF If
<1> QED BY <1>1, <1>3, <1>4, <1>5 DEF Score

LEMMA AcceptedIsConfirmed ==
  ASSUME FusionTypes, Discriminating, NEW s \in Strategy, NEW w \in Selected(s), Accepted(s, w)
  PROVE  Confirmed(w)
<1>1. w \in works /\ w \in Work
  BY DEF Selected, FusionTypes
<1>2. w.gap \in 0 .. config.tolerance
  BY DEF Accepted, Valid
<1>3. /\ config.titleReject \in Nat /\ config.titleMatch \in Nat
      /\ config.titleReject <= config.titleMatch
  BY FusionAssumption DEF FusionTypes, Config, Discriminating
<1>4. w.alike \in 0 .. 100 /\ Alike(w) \in 0 .. 100
  BY <1>1 DEF Alike, Work
<1>5. CASE SameDoi(w)
  BY <1>2, <1>5 DEF Confirmed
<1>6. CASE ~SameDoi(w)
  <2>1. ASSUME BothTitled(w) PROVE w.alike >= config.titleReject
    <3>1. Alike(w) = w.alike
      BY <2>1 DEF Alike
    <3>2. Alike(w) >= config.titleMatch \/ ~(Alike(w) < config.titleReject)
      BY <1>6, <2>1 DEF Accepted, Valid
    <3> QED BY <1>3, <1>4, <3>1, <3>2
  <2>2. CASE s = "doi"
    BY <1>6, <2>2 DEF Selected, Accepted, SameDoi
  <2>3. CASE s = "isbn"
    BY <1>2, <2>1, <2>3 DEF Selected, Confirmed
  <2>4. CASE s = "title"
    <3>1. BothTitled(w) /\ ~SharesIsbn(w)
      BY <2>4 DEF Selected, SharesIsbn
    <3>2. Alike(w) = w.alike
      BY <3>1 DEF Alike
    <3>3. Score(w) >= config.strictMin
      BY <2>4 DEF Accepted, Valid
    <3>4. ASSUME ~SameSourceAs(w) PROVE w.alike >= config.titleMatch
      <4>1. SUFFICES ASSUME Alike(w) < config.titleMatch PROVE FALSE
        BY <1>3, <1>4, <3>2
      <4>2. Score(w) < config.strictMin
        BY <1>1, <1>6, <3>1, <3>4, <4>1, YearIsNotEnough
      <4>3. config.strictMin \in Nat /\ Score(w) \in Int
        <5>1. /\ config.doi \in Nat /\ config.yearExact \in Nat /\ config.yearClose \in Nat
              /\ config.isbn \in Nat /\ config.sourceId \in Nat /\ config.sourceTitle \in Nat
              /\ config.title \in Nat /\ config.strictMin \in Nat
          BY FusionAssumption DEF FusionTypes, Config
        <5> QED BY <5>1 DEF Score, If
      <4> QED BY <3>3, <4>2, <4>3
    <3> QED BY <1>2, <2>1, <3>1, <3>4 DEF Confirmed
  <2> QED BY <2>2, <2>3, <2>4 DEF Strategy
<1> QED BY <1>5, <1>6

LEMMA StillConfirmed ==
  ASSUME UNCHANGED <<primary, config>>, \A m \in DOMAIN matches' : Confirmed(matches'[m])
  PROVE  AllConfirmed'
BY DEF AllConfirmed, Confirmed, SameDoi, BothTitled, SharesIsbn, SameSourceAs, SharesIssn

LEMMA ConfirmedStep == Discriminating /\ ConfirmedInv /\ [FusionNext]_fusionVars => ConfirmedInv'
<1> SUFFICES ASSUME Discriminating, ConfirmedInv, [FusionNext]_fusionVars PROVE AllConfirmed'
  BY FusionTypesStep DEF ConfirmedInv
<1>1. FusionTypes /\ AllConfirmed
  BY DEF ConfirmedInv
<1>2. ASSUME NEW case \in Cases, NEW c \in Configs, BeginMatch(case, c) PROVE AllConfirmed'
  <2>1. matches' = <<>>
    BY <1>1, <1>2 DEF BeginMatch, FusionTypes
  <2> QED BY <2>1 DEF AllConfirmed
<1>3. ASSUME UNCHANGED <<primary, config, matches>> PROVE AllConfirmed'
  <2>1. \A m \in DOMAIN matches' : Confirmed(matches'[m])
    BY <1>1, <1>3 DEF AllConfirmed
  <2> QED BY <1>3, <2>1, StillConfirmed
<1>4. ASSUME NEW hits \in SUBSET works, Search(hits) PROVE AllConfirmed'
  <2>1. config.strategies[next] \in Strategy /\ hits \subseteq Selected(config.strategies[next])
    <3>1. config.strategies \in Seq(Strategy) /\ next \in DOMAIN config.strategies
      BY <1>1, <1>4, FusionAssumption DEF FusionTypes, Config, Search
    <3> QED BY <1>4, <3>1 DEF Search
  <2>2. UNCHANGED <<primary, config>>
    BY <1>4 DEF Search
  <2>3. ASSUME NEW m \in DOMAIN matches' PROVE Confirmed(matches'[m])
    <3>1. \/ m \in DOMAIN matches /\ matches'[m] = matches[m]
          \/ matches'[m] \in hits /\ Accepted(config.strategies[next], matches'[m])
      BY <1>1, <1>4, <2>3, FoundBySearch
    <3>2. CASE m \in DOMAIN matches /\ matches'[m] = matches[m]
      BY <1>1, <3>2 DEF AllConfirmed
    <3>3. CASE matches'[m] \in hits /\ Accepted(config.strategies[next], matches'[m])
      BY <1>1, <2>1, <3>3, AcceptedIsConfirmed
    <3> QED BY <3>1, <3>2, <3>3
  <2> QED BY <2>2, <2>3, StillConfirmed
<1>5. CASE UNCHANGED fusionVars
  BY <1>3, <1>5 DEF fusionVars
<1>6. CASE Skip \/ SearchRaises \/ Fuse
  BY <1>3, <1>6 DEF Skip, SearchRaises, Fuse
<1> QED BY <1>2, <1>4, <1>5, <1>6 DEF FusionNext

LEMMA ConfirmedInvGives == ConfirmedInv => MatchesAreConfirmed
<1> SUFFICES ASSUME ConfirmedInv PROVE MatchesAreConfirmed
  OBVIOUS
<1>1. matches \in Seq(Work)
  <2>1. matches \in Seq(works) /\ works \subseteq Work
    BY DEF ConfirmedInv, FusionTypes
  <2> QED BY <2>1
<1>2. /\ DOMAIN Kept = 1 .. Cardinality(NewMatches)
      /\ \A k \in DOMAIN Kept :
           \E m \in NewMatches : Kept[k] = matches[m] /\ Count(NewMatches, m) = k
  BY <1>1, KeptIs
<1>3. ASSUME NEW k \in DOMAIN Kept PROVE Confirmed(Kept[k])
  <2>1. PICK m \in NewMatches : Kept[k] = matches[m]
    BY <1>2
  <2> QED BY <2>1 DEF ConfirmedInv, AllConfirmed, NewMatches
<1>4. ASSUME NEW j \in DOMAIN Kept, NEW k \in DOMAIN Kept, j < k
      PROVE  Kept[j].ids \cap Kept[k].ids = {}
  <2>1. PICK a \in NewMatches : Kept[j] = matches[a] /\ Count(NewMatches, a) = j
    BY <1>2
  <2>2. PICK b \in NewMatches : Kept[k] = matches[b] /\ Count(NewMatches, b) = k
    BY <1>2
  <2>3. a \in Nat \ {0} /\ b \in Nat /\ IsNewMatch(b)
    BY <1>1 DEF NewMatches
  <2>4. a < b
    <3>1. SUFFICES ASSUME b <= a PROVE FALSE
      BY <2>3
    <3>2. Count(NewMatches, b) <= Count(NewMatches, a) /\ Count(NewMatches, a) \in Nat
      BY <2>3, <3>1, CountIs
    <3>3. Count(NewMatches, b) \in Nat
      BY <2>3, CountIs
    <3> QED BY <1>4, <2>1, <2>2, <3>2, <3>3
  <2>5. a \in 1 .. b - 1
    BY <2>3, <2>4
  <2> QED BY <2>1, <2>2, <2>3, <2>5 DEF IsNewMatch
<1> QED BY <1>3, <1>4 DEF MatchesAreConfirmed, Confirmed

\* The search by DOI takes all that it selects, and only works with the DOI; the
\* searches after it are for records without a match.
AllByDoi == \A m \in DOMAIN matches : SameDoi(matches[m])
Awaited(w) == SameDoi(w) /\ Valid(w, config.min)
DoiSearchIsFirst == doing = "search" /\ config.strategies[next] = "doi" => AllByDoi
AnsweredByDoi ==
  doiAnswered /\ Cardinality(Selected("doi")) <= MaxHits =>
    \A w \in works : Awaited(w) => matches # <<>> /\ AllByDoi
DoiInv == FusionTypes /\ DoiSearchIsFirst /\ AnsweredByDoi

LEMMA SameRecord ==
  ASSUME UNCHANGED <<primary, works, config>>
  PROVE  /\ Selected("doi")' = Selected("doi")
         /\ \A w : (SameDoi(w)' <=> SameDoi(w)) /\ (Awaited(w)' <=> Awaited(w))
<1>1. \A w : /\ SameDoi(w)' <=> SameDoi(w)
             /\ SharesIsbn(w)' <=> SharesIsbn(w)
             /\ SharesIssn(w)' <=> SharesIssn(w)
             /\ BothTitled(w)' <=> BothTitled(w)
  BY DEF SameDoi, SharesIsbn, SharesIssn, BothTitled
<1>2. \A w : (SameSourceAs(w)' <=> SameSourceAs(w)) /\ Alike(w)' = Alike(w)
  BY <1>1 DEF SameSourceAs, Alike
<1>3. \A w : Score(w)' = Score(w)
  BY <1>1, <1>2 DEF Score, If
<1>4. \A w : Awaited(w)' <=> Awaited(w)
  BY <1>1, <1>2, <1>3 DEF Awaited, Valid
<1>5. Selected("doi")' = Selected("doi")
  BY <1>1 DEF Selected
<1> QED BY <1>1, <1>4, <1>5

\* If the next search is by DOI, so is this one.
LEMMA DoiBeforeDoi ==
  ASSUME FusionTypes, DoiFirst, doing = "search", Following, config' = config,
         doing' = "search", config'.strategies[next'] = "doi"
  PROVE  config.strategies[next] = "doi"
<1>1. next \in DOMAIN config.strategies /\ next' \in DOMAIN config.strategies /\ next < next'
  BY NextPlace DEF FusionTypes
<1>2. config \in Configs
  BY DEF FusionTypes
<1> QED BY <1>1, <1>2 DEF DoiFirst

LEMMA DoiStart == FusionInit => DoiInv
<1> SUFFICES ASSUME FusionInit PROVE DoiInv
  OBVIOUS
<1>1. FusionTypes
  BY FusionTypesStart
<1>2. doing = "idle" /\ ~doiAnswered
  BY DEF FusionInit
<1> QED BY <1>1, <1>2 DEF DoiInv, DoiSearchIsFirst, AnsweredByDoi

LEMMA NoMoreMatches ==
  ASSUME DoiInv, DoiFirst, UNCHANGED <<primary, works, config, matches, doiAnswered>>,
         \/ doing = "search" /\ Following
         \/ doing' = doing /\ next' = next
         \/ doing' # "search"
  PROVE  DoiSearchIsFirst' /\ AnsweredByDoi'
<1>1. FusionTypes /\ DoiSearchIsFirst /\ AnsweredByDoi
  BY DEF DoiInv
<1>2. AllByDoi' <=> AllByDoi
  BY DEF AllByDoi, SameDoi
<1>3. AnsweredByDoi'
  <2>1. /\ Cardinality(Selected("doi"))' = Cardinality(Selected("doi"))
        /\ \A w : Awaited(w)' <=> Awaited(w)
    BY SameRecord
  <2> QED BY <1>1, <1>2, <2>1 DEF AnsweredByDoi
<1>4. ASSUME doing' = "search", config'.strategies[next'] = "doi" PROVE AllByDoi
  <2>1. CASE doing = "search" /\ Following
    BY <1>1, <1>4, <2>1, DoiBeforeDoi DEF DoiSearchIsFirst
  <2>2. CASE doing' = doing /\ next' = next
    BY <1>1, <1>4, <2>2 DEF DoiSearchIsFirst
  <2> QED BY <1>4, <2>1, <2>2
<1> QED BY <1>2, <1>3, <1>4 DEF DoiSearchIsFirst

\* The hits that are accepted have the DOI.
LEMMA DoiHits ==
  ASSUME FusionTypes, AllByDoi, NEW hits \in SUBSET works, Search(hits),
         config.strategies[next] = "doi"
  PROVE  AllByDoi'
<1>1. \A w : SameDoi(w)' <=> SameDoi(w)
  BY SameRecord DEF Search
<1>2. ASSUME NEW m \in DOMAIN matches' PROVE SameDoi(matches'[m])
  <2>1. \/ m \in DOMAIN matches /\ matches'[m] = matches[m]
        \/ matches'[m] \in hits /\ Accepted("doi", matches'[m])
    BY <1>2, FoundBySearch
  <2>2. hits \subseteq Selected("doi")
    BY DEF Search
  <2> QED BY <2>1, <2>2 DEF AllByDoi, Accepted, Selected, SameDoi
<1> QED BY <1>1, <1>2 DEF AllByDoi, SameDoi

\* All that are selected are hits when they are few.
LEMMA FewAreHits ==
  ASSUME FusionTypes, NEW hits \in SUBSET works, Search(hits),
         config.strategies[next] = "doi", Cardinality(Selected("doi")) <= MaxHits
  PROVE  hits = Selected("doi")
<1> DEFINE S == Selected("doi")
<1>1. hits \in SUBSET S /\ Cardinality(hits) = Min({Cardinality(S), MaxHits})
  BY DEF Search
<1>2. IsFiniteSet(S)
  <2>1. S \in SUBSET works /\ IsFiniteSet(works)
    BY DEF Selected, FusionTypes
  <2> HIDE DEF S
  <2> QED BY <2>1, FS_Subset
<1> HIDE DEF S
<1>3. Cardinality(S) \in Nat /\ MaxHits \in Nat /\ Cardinality(S) <= MaxHits
  BY <1>2, FS_CardinalityType, FusionAssumption DEF S
<1>4. Min({Cardinality(S), MaxHits}) = Cardinality(S)
  BY <1>3 DEF Min
<1> QED BY <1>1, <1>2, <1>4, FS_Subset DEF S

LEMMA DoiStep == DoiFirst /\ DoiInv /\ [FusionNext]_fusionVars => DoiInv'
<1> SUFFICES ASSUME DoiFirst, DoiInv, [FusionNext]_fusionVars
             PROVE  DoiSearchIsFirst' /\ AnsweredByDoi'
  BY FusionTypesStep DEF DoiInv
<1>1. FusionTypes /\ DoiSearchIsFirst /\ AnsweredByDoi
  BY DEF DoiInv
<1>2. ASSUME NEW case \in Cases, NEW c \in Configs, BeginMatch(case, c)
      PROVE  DoiSearchIsFirst' /\ AnsweredByDoi'
  <2>1. matches' = <<>> /\ ~doiAnswered'
    BY <1>1, <1>2 DEF BeginMatch, FusionTypes
  <2>2. AllByDoi'
    BY <2>1 DEF AllByDoi
  <2> QED BY <2>1, <2>2 DEF DoiSearchIsFirst, AnsweredByDoi
<1>3. CASE Skip \/ SearchRaises \/ Fuse \/ UNCHANGED fusionVars
  <2>1. /\ UNCHANGED <<primary, works, config, matches, doiAnswered>>
        /\ \/ doing = "search" /\ Following
           \/ doing' = doing /\ next' = next
           \/ doing' # "search"
    BY <1>3 DEF Skip, SearchRaises, Fuse, fusionVars
  <2> QED BY <2>1, NoMoreMatches
<1>4. ASSUME NEW hits \in SUBSET works, Search(hits)
      PROVE  DoiSearchIsFirst' /\ AnsweredByDoi'
  <2>1. /\ UNCHANGED <<primary, works, config>> /\ doing = "search" /\ Following
        /\ IsTried(config.strategies[next])
        /\ doiAnswered' = (doiAnswered \/ (config.strategies[next] = "doi" /\ primary.doi))
    BY <1>4 DEF Search
  <2>2. /\ Cardinality(Selected("doi"))' = Cardinality(Selected("doi"))
        /\ \A w : Awaited(w)' <=> Awaited(w)
    BY <2>1, SameRecord
  <2>3. CASE config.strategies[next] = "doi"
    <3>1. AllByDoi'
      BY <1>1, <1>4, <2>1, <2>3, DoiHits DEF DoiSearchIsFirst
    <3>2. ASSUME Cardinality(Selected("doi")) <= MaxHits, NEW w \in works, Awaited(w)
          PROVE  matches' # <<>>
      <4>1. w \in Selected("doi") /\ Accepted("doi", w)
        BY <3>2 DEF Awaited, Selected, Accepted, Valid, SameDoi
      <4>2. w \in hits
        BY <1>1, <1>4, <2>3, <3>2, <4>1, FewAreHits
      <4> QED BY <1>1, <1>4, <2>3, <4>1, <4>2, FoundBySearch
    <3> QED BY <2>1, <2>2, <3>1, <3>2 DEF DoiSearchIsFirst, AnsweredByDoi
  <2>4. CASE config.strategies[next] # "doi"
    <3>1. matches = <<>>
      BY <2>1, <2>4 DEF IsTried
    <3>2. doiAnswered' => doiAnswered
      BY <2>1, <2>4
    <3>3. AnsweredByDoi'
      BY <1>1, <2>1, <2>2, <3>1, <3>2 DEF AnsweredByDoi
    <3>4. DoiSearchIsFirst'
      BY <1>1, <2>1, <2>4, DoiBeforeDoi DEF DoiSearchIsFirst
    <3> QED BY <3>3, <3>4
  <2> QED BY <2>3, <2>4
<1> QED BY <1>2, <1>3, <1>4 DEF FusionNext

LEMMA DoiInvGives == DoiInv => DoiPrevails
<1> SUFFICES ASSUME DoiInv, doiAnswered, Cardinality(Selected("doi")) <= MaxHits,
                    NEW w \in works, SameDoi(w), Valid(w, config.min)
             PROVE  Kept # <<>> /\ \A k \in DOMAIN Kept : SameDoi(Kept[k])
  BY DEF DoiPrevails
<1>1. matches # <<>> /\ AllByDoi
  BY DEF DoiInv, AnsweredByDoi, Awaited
<1>2. matches \in Seq(Work)
  <2>1. matches \in Seq(works) /\ works \subseteq Work
    BY DEF DoiInv, FusionTypes
  <2> QED BY <2>1
<1>3. Kept # <<>> /\ \A k \in DOMAIN Kept : \E m \in NewMatches : Kept[k] = matches[m]
  BY <1>1, <1>2, KeptIs
<1> QED BY <1>1, <1>3 DEF AllByDoi, NewMatches

\* Works that are fused are confirmed matches (OpenAlexMatcher), whatever the record,
\* the works there are and the searches that fail.
THEOREM ConfirmedMatches == Discriminating /\ FusionSpec => []MatchesAreConfirmed
<1>1. FusionInit => ConfirmedInv
  <2>1. FusionInit => matches = <<>>
    BY DEF FusionInit
  <2> QED BY <2>1, FusionTypesStart DEF ConfirmedInv, AllConfirmed
<1>2. Discriminating /\ ConfirmedInv /\ [FusionNext]_fusionVars => ConfirmedInv'
  BY ConfirmedStep
<1>3. ConfirmedInv => MatchesAreConfirmed
  BY ConfirmedInvGives
<1>4. SUFFICES ASSUME Discriminating PROVE FusionSpec => []MatchesAreConfirmed
  OBVIOUS
<1>5. ConfirmedInv /\ [FusionNext]_fusionVars => ConfirmedInv'
  BY <1>2, <1>4
<1> QED BY <1>1, <1>3, <1>5, PTL DEF FusionSpec

\* A work with the DOI of the record is not left for one that looks alike
\* (_try_openalex_by_doi).
THEOREM DoiMatchesPrevail == DoiFirst /\ FusionSpec => []DoiPrevails
<1>1. SUFFICES ASSUME DoiFirst PROVE FusionSpec => []DoiPrevails
  OBVIOUS
<1>2. DoiInv /\ [FusionNext]_fusionVars => DoiInv'
  BY <1>1, DoiStep
<1> QED BY <1>2, DoiStart, DoiInvGives, PTL DEF FusionSpec

(***************************************************************************)
(* The authors of the fused document                                       *)
(***************************************************************************)

\* The authors of found that the k-th of own may take after those before it took t.
Untaken(t, own, found, k) ==
  {i \in DOMAIN found : SameAuthor(own[k], found[i]) /\ \A j \in 1 .. k - 1 : t[j] # i}
    \cup {Len(found) + 1}
Takes(t, own, found, n) == t = [k \in 1 .. n |-> Min(Untaken(t, own, found, k))]

LEMMA LeastFree ==
  ASSUME NEW t, NEW own, NEW found \in Seq(Author), NEW k
  PROVE  Min(Untaken(t, own, found, k)) \in Untaken(t, own, found, k) /\ Min(Untaken(t, own, found, k)) \in 1 .. Len(found) + 1
<1>1. DOMAIN found = 1 .. Len(found) /\ Len(found) \in Nat
  OBVIOUS
<1>2. Untaken(t, own, found, k) \in SUBSET (1 .. Len(found) + 1) /\ Untaken(t, own, found, k) # {}
  BY <1>1 DEF Untaken
<1>3. Untaken(t, own, found, k) \in SUBSET Nat
  BY <1>1, <1>2
<1> QED BY <1>2, <1>3, LeastIs

LEMMA TakesExist ==
  ASSUME NEW z \in Nat, NEW own, NEW found \in Seq(Author)
  PROVE  \E t \in [1 .. z -> 1 .. Len(found) + 1] : Takes(t, own, found, z)
<1> DEFINE Has(n) == \E t \in [1 .. n -> 1 .. Len(found) + 1] : Takes(t, own, found, n)
           S == {n \in 0 .. z : Has(n)}
<1>1. Has(0)
  <2> DEFINE none == [i \in 1 .. 0 |-> 1]
  <2>1. none \in [1 .. 0 -> 1 .. Len(found) + 1] /\ Takes(none, own, found, 0)
    BY DEF Takes
  <2> QED BY <2>1
<1>2. ASSUME NEW n \in 0 .. z, Has(n) PROVE Has(n + 1)
  <2>1. PICK t \in [1 .. n -> 1 .. Len(found) + 1] : Takes(t, own, found, n)
    BY <1>2
  <2> DEFINE more == Min(Untaken(t, own, found, n + 1))
             h == [i \in 1 .. n + 1 |-> IF i = n + 1 THEN more ELSE t[i]]
  <2>2. more \in 1 .. Len(found) + 1
    BY LeastFree
  <2> HIDE DEF more
  <2>3. h \in [1 .. n + 1 -> 1 .. Len(found) + 1]
    BY <2>1, <2>2
  <2>4. ASSUME NEW i \in 1 .. n + 1 PROVE h[i] = Min(Untaken(h, own, found, i))
    <3>1. \A j \in 1 .. i - 1 : h[j] = t[j]
      OBVIOUS
    <3>2. Untaken(h, own, found, i) = Untaken(t, own, found, i)
      <4> HIDE DEF h
      <4> QED BY <3>1 DEF Untaken
    <3>3. CASE i = n + 1
      BY <3>2, <3>3 DEF more
    <3>4. CASE i # n + 1
      <4>1. i \in 1 .. n /\ h[i] = t[i]
        BY <3>4
      <4>2. t[i] = Min(Untaken(t, own, found, i))
        <5> DEFINE T == [k \in 1 .. n |-> Min(Untaken(t, own, found, k))]
        <5>1. t = T
          BY <2>1 DEF Takes
        <5>2. T[i] = Min(Untaken(t, own, found, i))
          BY <4>1
        <5> HIDE DEF T
        <5> QED BY <5>1, <5>2
      <4> HIDE DEF h
      <4> QED BY <3>2, <4>1, <4>2
    <3> QED BY <3>3, <3>4
  <2>5. Takes(h, own, found, n + 1)
    <3>1. h = [i \in 1 .. n + 1 |-> h[i]]
      OBVIOUS
    <3> HIDE DEF h
    <3> QED BY <2>4, <3>1 DEF Takes
  <2> QED BY <2>3, <2>5
<1> HIDE DEF Has
<1>3. 0 \in S /\ \A n \in 0 .. z : n \in S /\ n + 1 \in 0 .. z => n + 1 \in S
  BY <1>1, <1>2
<1>4. z \in S
  <2> HIDE DEF S
  <2> QED BY <1>3, CountedUp
<1> QED BY <1>4 DEF Has

\* What an author takes is the same as it, and what nobody before it took.
LEMMA TakenIs ==
  ASSUME NEW own \in Seq(Author), NEW found \in Seq(Author)
  PROVE  /\ Taken(own, found) \in [DOMAIN own -> 1 .. Len(found) + 1]
         /\ \A k \in DOMAIN own : Taken(own, found)[k] \in DOMAIN found =>
              /\ SameAuthor(own[k], found[Taken(own, found)[k]])
              /\ \A j \in 1 .. k - 1 : Taken(own, found)[j] # Taken(own, found)[k]
<1> DEFINE z == Len(own)
           t == CHOOSE h : h = [k \in DOMAIN own |->
                  Min({i \in DOMAIN found : SameAuthor(own[k], found[i])
                                 /\ \A j \in 1 .. k - 1 : h[j] # i} \cup {Len(found) + 1})]
<1>1. DOMAIN own = 1 .. z /\ z \in Nat /\ DOMAIN found = 1 .. Len(found) /\ Len(found) \in Nat
  OBVIOUS
<1>2. Taken(own, found) = t
  BY DEF Taken
<1>3. Takes(t, own, found, z)
  <2>1. PICK h \in [1 .. z -> 1 .. Len(found) + 1] : Takes(h, own, found, z)
    BY <1>1, TakesExist
  <2>2. h = [k \in DOMAIN own |->
                  Min({i \in DOMAIN found : SameAuthor(own[k], found[i])
                                 /\ \A j \in 1 .. k - 1 : h[j] # i} \cup {Len(found) + 1})]
    BY <1>1, <2>1 DEF Takes, Untaken
  <2>3. t = [k \in DOMAIN own |->
                  Min({i \in DOMAIN found : SameAuthor(own[k], found[i])
                                 /\ \A j \in 1 .. k - 1 : t[j] # i} \cup {Len(found) + 1})]
    BY <2>2
  <2> HIDE DEF t
  <2> QED BY <1>1, <2>3 DEF Takes, Untaken
<1> HIDE DEF t
<1> DEFINE T == [k \in 1 .. z |-> Min(Untaken(t, own, found, k))]
<1>4. t = T
  BY <1>3 DEF Takes
<1>5. \A k \in 1 .. z : t[k] = Min(Untaken(t, own, found, k))
  <2>1. \A k \in 1 .. z : T[k] = Min(Untaken(t, own, found, k))
    OBVIOUS
  <2> HIDE DEF T
  <2> QED BY <1>4, <2>1
<1>6. DOMAIN t = 1 .. z /\ t = [k \in 1 .. z |-> t[k]]
  <2>1. DOMAIN T = 1 .. z /\ T = [k \in 1 .. z |-> T[k]]
    OBVIOUS
  <2> HIDE DEF T
  <2> QED BY <1>4, <2>1
<1>7. ASSUME NEW k \in 1 .. z PROVE t[k] \in Untaken(t, own, found, k) /\ t[k] \in 1 .. Len(found) + 1
  BY <1>5, LeastFree
<1>8. \A k \in DOMAIN own : t[k] \in DOMAIN found =>
        SameAuthor(own[k], found[t[k]]) /\ \A j \in 1 .. k - 1 : t[j] # t[k]
  <2> SUFFICES ASSUME NEW k \in DOMAIN own, t[k] \in DOMAIN found
               PROVE  SameAuthor(own[k], found[t[k]]) /\ \A j \in 1 .. k - 1 : t[j] # t[k]
    OBVIOUS
  <2>1. t[k] \in Untaken(t, own, found, k) /\ t[k] # Len(found) + 1
    BY <1>1, <1>7
  <2> QED BY <2>1 DEF Untaken
<1> QED BY <1>1, <1>2, <1>6, <1>7, <1>8

\* What an author is enriched with takes nothing from it.
LEMMA EnrichedIs ==
  ASSUME NEW a \in Author, NEW b \in Author
  PROVE  /\ Enriched(a, b) \in Author
         /\ Enriched(a, b).name = a.name /\ a.at \subseteq Enriched(a, b).at
         /\ Enriched(a, b).orcid = (IF a.orcid = 0 THEN b.orcid ELSE a.orcid)
         /\ Enriched(a, b).id = (IF a.id = 0 THEN b.id ELSE a.id)
BY DEF Enriched, Author

\* The authors of SciELO stay, and are the same as those they take.
LEMMA OwnEnrichedIs ==
  ASSUME NEW own \in Seq(Author), NEW found \in Seq(Author)
  PROVE  /\ OwnEnriched(own, found) \in Seq(Author) /\ Len(OwnEnriched(own, found)) = Len(own)
         /\ \A k \in DOMAIN own :
              LET a == OwnEnriched(own, found)[k]
                  t == Taken(own, found)[k]
              IN
              /\ a.name = own[k].name /\ own[k].at \subseteq a.at
              /\ own[k].orcid # 0 => a.orcid = own[k].orcid
              /\ own[k].id # 0 => a.id = own[k].id
              /\ own[k].id = 0 => a.id = IF t \in DOMAIN found THEN found[t].id ELSE 0
              /\ t \in DOMAIN found => SameAuthor(a, found[t])
<1> DEFINE t == Taken(own, found)
           E == OwnEnriched(own, found)
<1>1. E = [k \in DOMAIN own |-> IF t[k] \in DOMAIN found THEN Enriched(own[k], found[t[k]]) ELSE own[k]]
  BY DEF OwnEnriched
<1> HIDE DEF E, t
<1>2. DOMAIN own = 1 .. Len(own) /\ Len(own) \in Nat /\ \A k \in DOMAIN own : own[k] \in Author
  OBVIOUS
<1>3. \A i \in DOMAIN found : found[i] \in Author
  OBVIOUS
<1>4. \A k \in DOMAIN own : E[k] = IF t[k] \in DOMAIN found THEN Enriched(own[k], found[t[k]]) ELSE own[k]
  BY <1>1
<1>5. \A k \in DOMAIN own : E[k] \in Author
  BY <1>2, <1>3, <1>4, EnrichedIs
<1>6. E \in Seq(Author) /\ Len(E) = Len(own)
  BY <1>1, <1>2, <1>5
<1>7. ASSUME NEW k \in DOMAIN own
      PROVE  /\ E[k].name = own[k].name /\ own[k].at \subseteq E[k].at
             /\ own[k].orcid # 0 => E[k].orcid = own[k].orcid
             /\ own[k].id # 0 => E[k].id = own[k].id
             /\ own[k].id = 0 => E[k].id = IF t[k] \in DOMAIN found THEN found[t[k]].id ELSE 0
             /\ t[k] \in DOMAIN found => SameAuthor(E[k], found[t[k]])
  <2>1. CASE t[k] \notin DOMAIN found
    BY <1>4, <2>1
  <2>2. CASE t[k] \in DOMAIN found
    <3>1. PICK b \in Author : b = found[t[k]]
      BY <1>3, <2>2
    <3>2. PICK a \in Author : a = own[k]
      BY <1>2
    <3>3. E[k] = Enriched(a, b)
      BY <1>4, <2>2, <3>1, <3>2
    <3>4. SameAuthor(a, b)
      BY <2>2, <3>1, <3>2, TakenIs DEF t
    <3>5. /\ E[k].name = a.name /\ a.at \subseteq E[k].at
          /\ E[k].orcid = (IF a.orcid = 0 THEN b.orcid ELSE a.orcid)
          /\ E[k].id = (IF a.id = 0 THEN b.id ELSE a.id)
      BY <3>3, EnrichedIs
    <3>6. SameAuthor(E[k], b)
      BY <3>4, <3>5 DEF SameAuthor
    <3> QED BY <2>2, <3>1, <3>2, <3>5, <3>6
  <2> QED BY <2>1, <2>2
<1> QED BY <1>6, <1>7 DEF E, t

\* The list of the i-th step holds the first i authors of found.
Merging(m, own, found, i) ==
  IF i = 0 THEN OwnEnriched(own, found)
  ELSE IF \/ \E k \in DOMAIN own : Taken(own, found)[k] = i
          \/ \E a \in Range(m[i - 1]) : SameAuthor(a, found[i])
       THEN m[i - 1]
       ELSE Append(m[i - 1], found[i])
Merges(m, own, found, n) == m = [i \in 0 .. n |-> Merging(m, own, found, i)]

IsMerged(list, own, found, n) ==
  /\ list \in Seq(Author) /\ Len(own) <= Len(list)
  /\ \A k \in DOMAIN own : list[k] = OwnEnriched(own, found)[k]
  /\ \A i \in 1 .. n : \E k \in DOMAIN list : list[k] = found[i] \/ SameAuthor(list[k], found[i])
  /\ \A k \in Len(own) + 1 .. Len(list) : \A j \in 1 .. k - 1 : ~SameAuthor(list[j], list[k])

LEMMA MergingStep ==
  ASSUME NEW own \in Seq(Author), NEW found \in Seq(Author), NEW n \in Nat, n + 1 \in DOMAIN found,
         NEW m, IsMerged(m[n], own, found, n)
  PROVE  IsMerged(Merging(m, own, found, n + 1), own, found, n + 1)
<1> DEFINE list == m[n]
           b == found[n + 1]
           new == Merging(m, own, found, n + 1)
           E == OwnEnriched(own, found)
<1>1. b \in Author /\ DOMAIN own = 1 .. Len(own) /\ Len(own) \in Nat /\ n + 1 # 0 /\ n + 1 - 1 = n
  OBVIOUS
<1>2. /\ list \in Seq(Author) /\ Len(own) <= Len(list) /\ Len(list) \in Nat /\ DOMAIN list = 1 .. Len(list)
      /\ \A k \in DOMAIN own : list[k] = E[k]
      /\ \A i \in 1 .. n : \E k \in DOMAIN list : list[k] = found[i] \/ SameAuthor(list[k], found[i])
      /\ \A k \in Len(own) + 1 .. Len(list) : \A j \in 1 .. k - 1 : ~SameAuthor(list[j], list[k])
  BY DEF IsMerged
<1>3. new = IF \/ \E k \in DOMAIN own : Taken(own, found)[k] = n + 1
              \/ \E a \in Range(list) : SameAuthor(a, b)
           THEN list ELSE Append(list, b)
  BY <1>1 DEF Merging
<1>4. Range(list) = {list[k] : k \in DOMAIN list}
  BY DEF Range
<1> HIDE DEF list, b, new, E
<1>5. CASE (\E k \in DOMAIN own : Taken(own, found)[k] = n + 1) \/ (\E a \in Range(list) : SameAuthor(a, b))
  <2>1. new = list
    BY <1>3, <1>5
  <2>2. \E k \in DOMAIN list : SameAuthor(list[k], b)
    <3>1. CASE \E k \in DOMAIN own : Taken(own, found)[k] = n + 1
      <4>1. PICK k \in DOMAIN own : Taken(own, found)[k] = n + 1
        BY <3>1
      <4>2. SameAuthor(E[k], b)
        BY <4>1, OwnEnrichedIs DEF E, b
      <4>3. k \in DOMAIN list
        BY <1>1, <1>2
      <4> QED BY <1>2, <4>2, <4>3
    <3>2. CASE \E a \in Range(list) : SameAuthor(a, b)
      BY <1>4, <3>2
    <3> QED BY <1>5, <3>1, <3>2
  <2>3. \A i \in 1 .. n + 1 : i \in 1 .. n \/ found[i] = b
    BY DEF b
  <2>4. \A i \in 1 .. n + 1 : \E k \in DOMAIN new : new[k] = found[i] \/ SameAuthor(new[k], found[i])
    BY <1>2, <2>1, <2>2, <2>3
  <2> QED BY <1>2, <2>1, <2>4 DEF IsMerged, new, E
<1>6. CASE ~((\E k \in DOMAIN own : Taken(own, found)[k] = n + 1) \/ (\E a \in Range(list) : SameAuthor(a, b)))
  <2>1. new = Append(list, b)
    BY <1>3, <1>6
  <2>2. /\ new \in Seq(Author) /\ Len(new) = Len(list) + 1 /\ DOMAIN new = 1 .. Len(list) + 1
        /\ new[Len(list) + 1] = b /\ \A k \in 1 .. Len(list) : new[k] = list[k]
    BY <1>1, <1>2, <2>1
  <2>3. \A k \in DOMAIN own : new[k] = E[k]
    BY <1>1, <1>2, <2>2
  <2>4. \A i \in 1 .. n + 1 : i \in 1 .. n \/ found[i] = b
    BY DEF b
  <2>5. \A i \in 1 .. n + 1 : \E k \in DOMAIN new : new[k] = found[i] \/ SameAuthor(new[k], found[i])
    <3> TAKE i \in 1 .. n + 1
    <3>1. CASE i \in 1 .. n
      <4>1. PICK k \in DOMAIN list : list[k] = found[i] \/ SameAuthor(list[k], found[i])
        BY <1>2, <3>1
      <4>2. k \in DOMAIN new /\ new[k] = list[k]
        BY <1>2, <2>2
      <4> QED BY <4>1, <4>2
    <3>2. CASE found[i] = b
      <4>1. Len(list) + 1 \in DOMAIN new
        BY <1>2, <2>2
      <4> QED BY <2>2, <3>2, <4>1
    <3> QED BY <2>4, <3>1, <3>2
  <2>6. \A k \in Len(own) + 1 .. Len(new) : \A j \in 1 .. k - 1 : ~SameAuthor(new[j], new[k])
    <3> SUFFICES ASSUME NEW k \in Len(own) + 1 .. Len(new), NEW j \in 1 .. k - 1
                 PROVE  ~SameAuthor(new[j], new[k])
      OBVIOUS
    <3>0. j \in 1 .. Len(list) /\ new[j] = list[j]
      BY <1>1, <1>2, <2>2
    <3>1. CASE k = Len(list) + 1
      <4>1. list[j] \in Range(list)
        BY <1>2, <1>4, <3>0
      <4>2. ~SameAuthor(list[j], b)
        BY <1>6, <4>1
      <4> QED BY <2>2, <3>0, <3>1, <4>2
    <3>2. CASE k # Len(list) + 1
      <4>1. k \in Len(own) + 1 .. Len(list) /\ k \in 1 .. Len(list)
        <5>1. Len(list) \in Nat /\ Len(own) \in Nat /\ k \in Len(own) + 1 .. Len(list) + 1
          BY <1>1, <1>2, <2>2
        <5> QED BY <3>2, <5>1
      <4>2. new[k] = list[k] /\ ~SameAuthor(list[j], list[k])
        BY <1>2, <2>2, <4>1
      <4> QED BY <3>0, <4>2
    <3> QED BY <3>1, <3>2
  <2>7. Len(own) <= Len(new)
    BY <1>1, <1>2, <2>2
  <2> QED BY <2>2, <2>3, <2>5, <2>6, <2>7 DEF IsMerged, new, E
<1> QED BY <1>5, <1>6 DEF new

LEMMA MergedIs ==
  ASSUME NEW own \in Seq(Author), NEW found \in Seq(Author)
  PROVE  IsMerged(MergedAuthors(own, found), own, found, Len(found))
<1> DEFINE z == Len(found)
           Good(m, n) == Merges(m, own, found, n) /\ IsMerged(m[n], own, found, n)
           Has(n) == \E m \in [0 .. n -> Seq(Author)] : Good(m, n)
           S == {n \in 0 .. z : Has(n)}
<1>0. z \in Nat /\ DOMAIN found = 1 .. z
  OBVIOUS
<1>1. Has(0)
  <2> DEFINE first == [i \in 0 .. 0 |-> OwnEnriched(own, found)]
  <2>1. OwnEnriched(own, found) \in Seq(Author) /\ Len(OwnEnriched(own, found)) = Len(own)
    BY OwnEnrichedIs
  <2>2. IsMerged(OwnEnriched(own, found), own, found, 0)
    BY <2>1 DEF IsMerged
  <2>3. first \in [0 .. 0 -> Seq(Author)] /\ first[0] = OwnEnriched(own, found)
    BY <2>1
  <2>4. Merges(first, own, found, 0)
    <3>1. \A i \in 0 .. 0 : Merging(first, own, found, i) = OwnEnriched(own, found)
      BY DEF Merging
    <3> QED BY <3>1 DEF Merges
  <2> QED BY <2>2, <2>3, <2>4
<1>2. ASSUME NEW n \in 0 .. z, n + 1 \in 0 .. z, Has(n) PROVE Has(n + 1)
  <2>1. PICK m \in [0 .. n -> Seq(Author)] : Merges(m, own, found, n) /\ IsMerged(m[n], own, found, n)
    BY <1>2
  <2> DEFINE more == Merging(m, own, found, n + 1)
             h == [i \in 0 .. n + 1 |-> IF i = n + 1 THEN more ELSE m[i]]
  <2>2. IsMerged(more, own, found, n + 1)
    <3>1. n \in Nat /\ n + 1 \in DOMAIN found
      BY <1>0, <1>2
    <3> QED BY <2>1, <3>1, MergingStep
  <2> HIDE DEF more
  <2>3. more \in Seq(Author)
    BY <2>2 DEF IsMerged
  <2>4. h \in [0 .. n + 1 -> Seq(Author)] /\ h[n + 1] = more
    BY <2>1, <2>3
  <2>5. ASSUME NEW i \in 0 .. n + 1 PROVE h[i] = Merging(h, own, found, i)
    <3>1. i # 0 => h[i - 1] = m[i - 1]
      OBVIOUS
    <3>2. Merging(h, own, found, i) = Merging(m, own, found, i)
      <4> HIDE DEF h
      <4> QED BY <3>1 DEF Merging
    <3>3. CASE i = n + 1
      BY <3>2, <3>3 DEF more
    <3>4. CASE i # n + 1
      <4>1. i \in 0 .. n /\ h[i] = m[i]
        BY <3>4
      <4>2. m[i] = Merging(m, own, found, i)
        <5> DEFINE M == [k \in 0 .. n |-> Merging(m, own, found, k)]
        <5>1. m = M
          BY <2>1 DEF Merges
        <5>2. M[i] = Merging(m, own, found, i)
          BY <4>1
        <5> HIDE DEF M
        <5> QED BY <5>1, <5>2
      <4> HIDE DEF h
      <4> QED BY <3>2, <4>1, <4>2
    <3> QED BY <3>3, <3>4
  <2>6. Merges(h, own, found, n + 1)
    <3>1. h = [i \in 0 .. n + 1 |-> h[i]]
      OBVIOUS
    <3> HIDE DEF h
    <3> QED BY <2>5, <3>1 DEF Merges
  <2> HIDE DEF h
  <2>7. Good(h, n + 1)
    BY <2>2, <2>4, <2>6
  <2> HIDE DEF Good
  <2> QED BY <2>4, <2>7
<1> HIDE DEF Has
<1>3. 0 \in S /\ \A n \in 0 .. z : n \in S /\ n + 1 \in 0 .. z => n + 1 \in S
  BY <1>0, <1>1, <1>2
<1>4. z \in S
  <2> HIDE DEF S, z
  <2> QED BY <1>0, <1>3, CountedUp
<1>5. PICK m \in [0 .. z -> Seq(Author)] : Merges(m, own, found, z) /\ IsMerged(m[z], own, found, z)
  BY <1>4 DEF Has
<1> DEFINE Steps(h) ==
             [i \in 0 .. Len(found) |->
                IF i = 0 THEN OwnEnriched(own, found)
                ELSE IF \/ \E k \in DOMAIN own : Taken(own, found)[k] = i
                        \/ \E a \in Range(h[i - 1]) : SameAuthor(a, found[i])
                     THEN h[i - 1]
                     ELSE Append(h[i - 1], found[i])]
           merged == CHOOSE h : h = Steps(h)
<1>6. MergedAuthors(own, found) = merged[z]
  BY DEF MergedAuthors
<1>7. m = Steps(m)
  BY <1>5 DEF Merges, Merging
<1>8. merged = Steps(merged)
  <2> HIDE DEF Steps
  <2> QED BY <1>7
<1>9. Merges(merged, own, found, z)
  <2> HIDE DEF merged
  <2> QED BY <1>8 DEF Merges, Merging
<1> HIDE DEF merged
<1>10. merged = m
  <2>1. \A h : Merges(h, own, found, z) =>
          /\ DOMAIN h = 0 .. z /\ h = [i \in 0 .. z |-> h[i]]
          /\ \A i \in 0 .. z : h[i] = Merging(h, own, found, i)
    <3> TAKE h
    <3> SUFFICES ASSUME Merges(h, own, found, z)
                 PROVE  /\ DOMAIN h = 0 .. z /\ h = [i \in 0 .. z |-> h[i]]
                        /\ \A i \in 0 .. z : h[i] = Merging(h, own, found, i)
      OBVIOUS
    <3> DEFINE M == [k \in 0 .. z |-> Merging(h, own, found, k)]
    <3>1. h = M
      BY DEF Merges
    <3>2. /\ DOMAIN M = 0 .. z /\ M = [i \in 0 .. z |-> M[i]]
          /\ \A i \in 0 .. z : M[i] = Merging(h, own, found, i)
      OBVIOUS
    <3> HIDE DEF M
    <3> QED BY <3>1, <3>2
  <2> DEFINE Agree == {n \in 0 .. z : \A i \in 0 .. n : merged[i] = m[i]}
  <2>2. \A i \in 0 .. z : merged[i] = Merging(merged, own, found, i) /\ m[i] = Merging(m, own, found, i)
    BY <1>5, <1>9, <2>1
  <2>3. merged[0] = m[0]
    BY <1>0, <2>2 DEF Merging
  <2>4. ASSUME NEW n \in 0 .. z, n + 1 \in 0 .. z, merged[n] = m[n] PROVE merged[n + 1] = m[n + 1]
    <3>1. n + 1 # 0 /\ n + 1 - 1 = n
      OBVIOUS
    <3>2. Merging(merged, own, found, n + 1) = Merging(m, own, found, n + 1)
      BY <2>4, <3>1 DEF Merging
    <3> QED BY <2>2, <2>4, <3>2
  <2>5. 0 \in Agree /\ \A n \in 0 .. z : n \in Agree /\ n + 1 \in 0 .. z => n + 1 \in Agree
    <3>1. 0 \in Agree
      BY <1>0, <2>3
    <3>2. ASSUME NEW n \in 0 .. z, n \in Agree, n + 1 \in 0 .. z PROVE n + 1 \in Agree
      <4>1. n \in 0 .. n /\ \A i \in 0 .. n + 1 : i \in 0 .. n \/ i = n + 1
        OBVIOUS
      <4>2. merged[n] = m[n]
        BY <3>2, <4>1
      <4>3. merged[n + 1] = m[n + 1]
        BY <2>4, <3>2, <4>2
      <4> QED BY <3>2, <4>1, <4>3
    <3> QED BY <3>1, <3>2
  <2>6. z \in Agree
    <3> HIDE DEF Agree, z
    <3> QED BY <1>0, <2>5, CountedUp
  <2>7. DOMAIN merged = 0 .. z /\ DOMAIN m = 0 .. z /\ merged = [i \in 0 .. z |-> merged[i]] /\ m = [i \in 0 .. z |-> m[i]]
    BY <1>5, <1>9, <2>1
  <2> QED BY <2>6, <2>7
<1> QED BY <1>5, <1>6, <1>10

\* Authors of OpenAlex go to as many of SciELO as there are of them, at most.
LEMMA GivenOnce ==
  ASSUME NEW own \in Seq(Author), NEW found \in Seq(Author), NEW id \in Nat \ {0},
         NEW list, IsMerged(list, own, found, Len(found))
  PROVE  Cardinality({k \in DOMAIN own : own[k].id = 0 /\ list[k].id = id})
           <= Cardinality({i \in DOMAIN found : found[i].id = id})
<1> DEFINE Given == {k \in DOMAIN own : own[k].id = 0 /\ list[k].id = id}
           Theirs == {i \in DOMAIN found : found[i].id = id}
           t == Taken(own, found)
           given == [k \in Given |-> t[k]]
<1>1. DOMAIN own = 1 .. Len(own) /\ Len(own) \in Nat /\ DOMAIN found = 1 .. Len(found) /\ Len(found) \in Nat
  OBVIOUS
<1>2. IsFiniteSet(Theirs)
  <2>1. IsFiniteSet(1 .. Len(found)) /\ Theirs \in SUBSET (1 .. Len(found))
    BY <1>1, FS_Interval
  <2> QED BY <2>1, FS_Subset
<1>3. \A k \in Given : t[k] \in Theirs
  <2> TAKE k \in Given
  <2>1. list[k].id = IF t[k] \in DOMAIN found THEN found[t[k]].id ELSE 0
    BY OwnEnrichedIs DEF IsMerged
  <2> HIDE DEF t
  <2> QED BY <2>1
<1>4. \A j, k \in Given : t[j] = t[k] => j = k
  <2> SUFFICES ASSUME NEW j \in Given, NEW k \in Given, t[j] = t[k], j # k PROVE FALSE
    OBVIOUS
  <2>1. t[j] \in DOMAIN found /\ t[k] \in DOMAIN found
    BY <1>3
  <2>2. j \in DOMAIN own /\ k \in DOMAIN own /\ (j \in 1 .. k - 1 \/ k \in 1 .. j - 1)
    BY <1>1
  <2> QED BY <2>1, <2>2, TakenIs
<1>5. given \in Injection(Given, Theirs)
  <2>1. given \in [Given -> Theirs] /\ \A k \in Given : given[k] = t[k]
    <3> HIDE DEF t, Given, Theirs
    <3> QED BY <1>3
  <2> HIDE DEF given, t, Given, Theirs
  <2> QED BY <1>4, <2>1 DEF Injection, IsInjective
<1> HIDE DEF given, Given, Theirs
<1>6. Cardinality(Given) <= Cardinality(Theirs)
  BY <1>2, <1>5, FS_Injection
<1> QED BY <1>6 DEF Given, Theirs

\* What the authors of a fused document are to those of the record and of the works.
Fused(own, found, list) ==
  /\ list \in Seq(Author) /\ Len(own) <= Len(list)
  /\ own = <<>> => list = found
  /\ own # <<>> => IsMerged(list, own, found, Len(found))

LEMMA FoundIs == FusionTypes => FoundAuthors \in Seq(Author)
<1> SUFFICES ASSUME FusionTypes PROVE FoundAuthors \in Seq(Author)
  OBVIOUS
<1>1. matches \in Seq(Work)
  BY DEF FusionTypes
<1>2. \A w \in Work : w.authors \in Seq(Author)
  BY DEF Work
<1> DEFINE f == [k \in DOMAIN Kept |-> Kept[k].authors]
<1>3. PICK n \in Nat : DOMAIN Kept = 1 .. n
  <2>1. IsFiniteSet(NewMatches)
    <3>1. IsFiniteSet(DOMAIN matches)
      BY <1>1, FS_Interval
    <3> QED BY <3>1, FS_Subset DEF NewMatches
  <2> QED BY <1>1, <2>1, KeptIs, FS_CardinalityType
<1>4. \A k \in 1 .. n : f[k] \in Seq(Author)
  <2> TAKE k \in 1 .. n
  <2>1. PICK m \in DOMAIN matches : Kept[k] = matches[m]
    BY <1>1, <1>3, KeptIs DEF NewMatches
  <2>2. Kept[k] \in Work
    BY <1>1, <2>1
  <2> QED BY <1>2, <1>3, <2>2
<1>5. FoundAuthors = Joined(f, n)
  <2>1. f = [k \in 1 .. n |-> f[k]]
    BY <1>3
  <2> QED BY <2>1 DEF FoundAuthors, Joined
<1> HIDE DEF f
<1>6. Joined(f, n) \in Seq(Author)
  <2>1. CASE n = 0
    <3>1. Joined(f, 0) = <<>>
      BY JoinedNone
    <3>2. Joined(f, n) = <<>>
      BY <2>1, <3>1
    <3> QED BY <3>2
  <2>2. CASE n # 0
    <3>1. PICK o \in Nat : n = o + 1
      <4>1. n - 1 \in Nat /\ n = (n - 1) + 1
        BY <2>2
      <4> QED BY <4>1
    <3>2. f[n] \in Seq(Author) /\ \A i \in 1 .. o + 1 : f[i] \in Seq(Author)
      BY <1>4, <3>1
    <3>3. Joined(f, o) \in Seq(Author) /\ Joined(f, n) = Joined(f, o) \o f[n]
      BY <3>1, <3>2, JoinedIs
    <3> QED BY <3>2, <3>3
  <2> QED BY <2>1, <2>2
<1> QED BY <1>5, <1>6

\* The authors are those of the record and of the works once they are fused.
AuthorsInv ==
  /\ FusionTypes
  /\ next <= Len(config.strategies) + 1 /\ authors \in Seq(Author)
  /\ doing = "fused" => Fused(primary.authors, FoundAuthors, authors)

LEMMA AuthorsStart == FusionInit => AuthorsInv
<1> SUFFICES ASSUME FusionInit PROVE AuthorsInv
  OBVIOUS
<1>1. FusionTypes /\ doing # "fused" /\ next = 1 /\ authors = <<>>
  BY FusionTypesStart DEF FusionInit
<1>2. config.strategies \in Seq(Strategy)
  BY <1>1, FusionAssumption DEF FusionTypes, Config
<1> QED BY <1>1, <1>2 DEF AuthorsInv

LEMMA AuthorsStep == AuthorsInv /\ [FusionNext]_fusionVars => AuthorsInv'
<1> SUFFICES ASSUME AuthorsInv, [FusionNext]_fusionVars PROVE AuthorsInv'
  OBVIOUS
<1>0. FusionTypes /\ FusionTypes'
  BY FusionTypesStep DEF AuthorsInv
<1>1. /\ config.strategies \in Seq(Strategy) /\ config'.strategies \in Seq(Strategy)
      /\ next \in Nat /\ next <= Len(config.strategies) + 1 /\ authors \in Seq(Author)
  BY <1>0, FusionAssumption DEF AuthorsInv, FusionTypes, Config
<1>2. ASSUME NEW case \in Cases, NEW c \in Configs, BeginMatch(case, c) PROVE AuthorsInv'
  <2>1. next' = 1 /\ authors' = authors /\ doing' # "fused"
    BY <1>0, <1>2 DEF BeginMatch, FusionTypes
  <2> QED BY <1>0, <1>1, <2>1 DEF AuthorsInv
<1>3. ASSUME doing = "search", Following, UNCHANGED <<config, authors>> PROVE AuthorsInv'
  <2>1. next \in DOMAIN config.strategies
    BY <1>0, <1>3 DEF FusionTypes
  <2>2. next' <= Len(config'.strategies) + 1 /\ doing' # "fused"
    BY <1>1, <1>3, <2>1 DEF Following
  <2> QED BY <1>0, <1>1, <1>3, <2>2 DEF AuthorsInv
<1>4. ASSUME Fuse PROVE AuthorsInv'
  <2>1. UNCHANGED <<primary, matches, config, next>>
    BY <1>4 DEF Fuse
  <2>2. FoundAuthors' = FoundAuthors
    BY <2>1 DEF FoundAuthors, Kept
  <2>3. FoundAuthors \in Seq(Author) /\ primary.authors \in Seq(Author)
    BY <1>0, FoundIs DEF FusionTypes, Primary
  <2>4. Fused(primary.authors, FoundAuthors, authors')
    <3>1. CASE primary.authors = <<>>
      <4>1. authors' = FoundAuthors
        BY <1>4, <3>1 DEF Fuse
      <4>2. Len(primary.authors) = 0 /\ Len(FoundAuthors) \in Nat
        BY <2>3, <3>1
      <4> QED BY <2>3, <3>1, <4>1, <4>2 DEF Fused
    <3>2. CASE primary.authors # <<>>
      <4>1. authors' = MergedAuthors(primary.authors, FoundAuthors)
        BY <1>4, <3>2 DEF Fuse
      <4>2. IsMerged(authors', primary.authors, FoundAuthors, Len(FoundAuthors))
        BY <2>3, <4>1, MergedIs
      <4> QED BY <3>2, <4>2 DEF Fused, IsMerged
    <3> QED BY <3>1, <3>2
  <2>5. authors' \in Seq(Author)
    BY <2>1, <2>4 DEF Fused
  <2>6. Fused(primary.authors, FoundAuthors, authors)' = Fused(primary.authors, FoundAuthors, authors')
    BY <2>1, <2>2 DEF Fused, IsMerged, OwnEnriched, Taken
  <2> QED BY <1>0, <1>1, <2>1, <2>4, <2>5, <2>6 DEF AuthorsInv
<1>5. ASSUME UNCHANGED fusionVars PROVE AuthorsInv'
  <2>1. FoundAuthors' = FoundAuthors
    BY <1>5 DEF FoundAuthors, Kept, fusionVars
  <2>2. Fused(primary.authors, FoundAuthors, authors)' = Fused(primary.authors, FoundAuthors, authors)
    BY <1>5, <2>1 DEF Fused, fusionVars
  <2> QED BY <1>0, <1>5, <2>2 DEF AuthorsInv, fusionVars
<1>6. ASSUME Skip \/ SearchRaises PROVE AuthorsInv'
  BY <1>3, <1>6 DEF Skip, SearchRaises
<1>7. ASSUME NEW hits \in SUBSET works, Search(hits) PROVE AuthorsInv'
  BY <1>3, <1>7 DEF Search
<1> QED BY <1>2, <1>4, <1>5, <1>6, <1>7 DEF FusionNext

LEMMA AuthorsInvGives == AuthorsInv => AuthorsAreKept /\ FusionTypeOK
<1> SUFFICES ASSUME AuthorsInv PROVE AuthorsAreKept /\ FusionTypeOK
  OBVIOUS
<1> DEFINE own == primary.authors
           found == FoundAuthors
<1>1. own \in Seq(Author) /\ found \in Seq(Author) /\ authors \in Seq(Author) /\ FusionTypes
  BY FoundIs DEF AuthorsInv, FusionTypes, Primary
<1>2. FusionTypeOK
  <2>1. config.strategies \in Seq(Strategy)
    BY <1>1, FusionAssumption DEF FusionTypes, Config
  <2>2. next \in 1 .. Len(config.strategies) + 1
    BY <2>1 DEF AuthorsInv, FusionTypes
  <2>3. Range(matches) \subseteq works
    BY DEF AuthorsInv, FusionTypes, Range
  <2> QED BY <2>2, <2>3 DEF FusionTypeOK, AuthorsInv, FusionTypes
<1>3. ASSUME doing = "fused" PROVE AuthorsAreKept
  <2> DEFINE Given(id) == {k \in DOMAIN own : own[k].id = 0 /\ authors[k].id = id}
             Theirs(id) == {i \in DOMAIN found : found[i].id = id}
  <2>1. Fused(own, found, authors)
    BY <1>3 DEF AuthorsInv
  <2>2. Range(found) = {found[i] : i \in DOMAIN found} /\ Range(authors) = {authors[k] : k \in DOMAIN authors}
    BY DEF Range
  <2>3. CASE own = <<>>
    <3>1. authors = found /\ DOMAIN own = {}
      BY <2>1, <2>3 DEF Fused
    <3>2. \A id : Given(id) = {} /\ Cardinality(Given(id)) <= Cardinality(Theirs(id))
      <4> TAKE id
      <4>1. Given(id) = {} /\ Cardinality({}) = 0
        BY <3>1, FS_EmptySet
      <4>2. IsFiniteSet(DOMAIN found) /\ Theirs(id) \in SUBSET DOMAIN found
        BY <1>1, FS_Interval
      <4>3. Cardinality(Theirs(id)) \in Nat
        BY <4>2, FS_Subset, FS_CardinalityType
      <4> HIDE DEF Given, Theirs
      <4> QED BY <4>1, <4>3
    <3> QED BY <1>3, <2>3, <3>1, <3>2 DEF AuthorsAreKept
  <2>4. CASE own # <<>>
    <3>1. IsMerged(authors, own, found, Len(found))
      BY <2>1, <2>4 DEF Fused
    <3>2. DOMAIN found = 1 .. Len(found) /\ \A i \in DOMAIN found : found[i] \in Author /\ found[i].id \in Nat
      <4>1. DOMAIN found = 1 .. Len(found) /\ \A i \in DOMAIN found : found[i] \in Author
        <5> HIDE DEF own, found
        <5> QED BY <1>1
      <4>2. \A a \in Author : a.id \in Nat
        BY DEF Author
      <4> QED BY <4>1, <4>2
    <3>3. \A k \in DOMAIN own :
            /\ authors[k].name = own[k].name /\ own[k].at \subseteq authors[k].at
            /\ own[k].orcid # 0 => authors[k].orcid = own[k].orcid
            /\ own[k].id # 0 => authors[k].id = own[k].id
      BY <1>1, <3>1, OwnEnrichedIs DEF IsMerged
    <3>4. \A o \in Range(found) : \E a \in Range(authors) : a = o \/ SameAuthor(a, o)
      BY <2>2, <3>1, <3>2 DEF IsMerged
    <3>5. \A o \in Range(found) : o.id # 0 => Cardinality(Given(o.id)) <= Cardinality(Theirs(o.id))
      <4> SUFFICES ASSUME NEW o \in Range(found), o.id # 0
                   PROVE  Cardinality(Given(o.id)) <= Cardinality(Theirs(o.id))
        OBVIOUS
      <4>1. o.id \in Nat \ {0}
        <5>1. PICK i \in DOMAIN found : o = found[i]
          BY <2>2
        <5>2. found[i].id \in Nat
          BY <3>2
        <5> HIDE DEF found
        <5> QED BY <5>1, <5>2
      <4>2. \A id \in Nat \ {0} : Cardinality(Given(id)) <= Cardinality(Theirs(id))
        <5> TAKE id \in Nat \ {0}
        <5> HIDE DEF own, found
        <5> QED BY <1>1, <3>1, GivenOnce
      <4> HIDE DEF Given, Theirs
      <4> QED BY <4>1, <4>2
    <3>6. \A k \in Len(own) + 1 .. Len(authors) : \A j \in 1 .. k - 1 : ~SameAuthor(authors[j], authors[k])
      BY <3>1 DEF IsMerged
    <3> QED BY <3>3, <3>4, <3>5, <3>6 DEF AuthorsAreKept
  <2> QED BY <2>3, <2>4
<1> QED BY <1>2, <1>3 DEF AuthorsAreKept

\* The types of the search and the fusion (OpenAlexMatcher, SilverMerger).
THEOREM FusionTypeCorrect == FusionSpec => []FusionTypeOK
BY AuthorsStart, AuthorsStep, AuthorsInvGives, PTL DEF FusionSpec

\* The authors of SciELO stay, each author of OpenAlex is given once, and none is lost
\* or added twice (_merge_authorships), whatever the lists of authors.
THEOREM AuthorsStay == FusionSpec => []AuthorsAreKept
BY AuthorsStart, AuthorsStep, AuthorsInvGives, PTL DEF FusionSpec

(***************************************************************************)
(* Exports of the rows of an observation (ExportJobs)                      *)
(***************************************************************************)

Row == FieldPairs \X Keys
FileRows == [i \in DOMAIN files |-> files[i].rows]
Stored == Joined(FileRows, Len(files))

\* All rows read so far.
RowsRead == Stored \o thread.rows

\* The files stored and those offered, by where the thread is.
Offers ==
  /\ Len(files) = job.ready + IF thread.at \in {"ready", "last"} THEN 1 ELSE 0
  /\ thread.at \in {"ready", "last", "rest"} => job.mode = "batch"
  /\ thread.at \in {"write", "content"} => job.mode = "single"
  /\ thread.at = "read" => job.mode \in {"single", "batch"}
  /\ job.mode # "batch" => files = <<>>
  /\ thread.at \in {"read", "ready", "rest", "last", "write"} => job.status # "done"
  /\ job.status = "none" <=> thread.at = "none"
  /\ thread.at = "none" => thread = NoThread /\ job = NoJob /\ files = <<>>
  /\ job.csv = IF thread.at = "ended" /\ job.status = "done" /\ job.mode = "single"
               THEN thread.rows ELSE <<>>
  /\ thread.at = "content" => job.status = "done"
  /\ Finished => job.mode \in {"single", "batch"} /\ (job.mode = "batch" => thread.rows = <<>>)
  /\ job.split > 0

\* The rows read are of the pair the thread is at, in the order of their keys.
Ascend(s) == \A i, j \in DOMAIN s : i < j => s[i][2] < s[j][2]
InOrderOfKeys ==
  /\ \A i \in DOMAIN RowsRead : RowsRead[i][1] = thread.pair /\ RowsRead[i][2] <= thread.after
  /\ Ascend(RowsRead)
  /\ IF thread.found THEN RowsRead # <<>> ELSE RowsRead = <<>> /\ thread.after = 0

\* They have all that stayed in the index as far as the thread has read: nothing before
\* the pair it is at, which it has read to its end once it reads no more.
ReadToEnd == thread.at \in {"rest", "last", "write", "content"} \/ Finished
ReadSoFar ==
  /\ \A p \in FieldPairs : steady[p] \subseteq live[p]
  /\ \A p \in FieldPairs \ textual : p < thread.pair => steady[p] = {}
  /\ \A k \in steady[thread.pair] : k <= thread.after => \E i \in DOMAIN RowsRead : RowsRead[i][2] = k
  /\ ReadToEnd => /\ thread.found \/ thread.pair = LastPair
                  /\ thread.pair \notin textual => \A k \in steady[thread.pair] : k <= thread.after

\* The files are numbered by their rows, and full but for the last.
Numbered ==
  /\ \A i \in DOMAIN files :
       /\ files[i].first = IF i = 1 THEN 1 ELSE files[i - 1].last + 1
       /\ files[i].last - files[i].first + 1 = Len(files[i].rows)
       /\ files[i].last = Len(Joined(FileRows, i))
       /\ i < Len(files) \/ thread.at \in {"read", "ready"} \/ (thread.at = "rest" /\ thread.rows # <<>>)
            => Len(files[i].rows) = job.split
  /\ thread.stored = Len(Stored)
  /\ thread.at \in {"rest", "last"} => Len(thread.rows) < job.split
  /\ thread.at = "last" => thread.rows = <<>>
  /\ job.mode = "batch" => job.processed <= Len(Joined(FileRows, job.ready))

ExportInv == ExportTypeOK /\ Offers /\ InOrderOfKeys /\ ReadSoFar /\ Numbered

File == [rows : Seq(Row), first : Nat, last : Nat]

\* The next page has keys that follow, in order, and none is left between them.
LEMMA PageOfKeys ==
  ASSUME ExportTypeOK, job.split > 0
  PROVE  /\ NextPage \in Seq(Keys)
         /\ \A i \in DOMAIN NextPage : NextPage[i] \in live[thread.pair] /\ NextPage[i] > thread.after
         /\ \A i, j \in DOMAIN NextPage : i < j => NextPage[i] < NextPage[j]
         /\ NextPage # <<>> =>
              /\ Last(NextPage) \in Keys
              /\ \A k \in live[thread.pair] : k > thread.after /\ k <= Last(NextPage) =>
                   \E i \in DOMAIN NextPage : NextPage[i] = k
         /\ NextPage = <<>> => \A k \in live[thread.pair] : k <= thread.after
<1> DEFINE S == {k \in live[thread.pair] : k > thread.after}
           m == Min({PageSize, Cardinality(S)})
<1>1. S \in SUBSET (1 .. LastKey) /\ LastKey \in Nat
  BY ExportAssumption DEF ExportTypeOK, Keys
<1>2. IsFiniteSet(S) /\ Cardinality(S) \in Nat /\ (Cardinality(S) = 0 <=> S = {})
  <2>1. IsFiniteSet(1 .. LastKey)
    BY <1>1, FS_Interval
  <2> HIDE DEF S
  <2> QED BY <1>1, <2>1, FS_Subset, FS_CardinalityType, FS_EmptySet
<1>3. PageSize \in Nat /\ PageSize > 0
  <2>1. job.split \in Nat /\ MinPage \in Nat \ {0} /\ MaxPage \in Nat
    BY ExportAssumption DEF ExportTypeOK
  <2>2. Min({job.split, MaxPage}) \in Nat
    BY <2>1, TwoNumbers
  <2>3. /\ Max({MinPage, Min({job.split, MaxPage})}) \in Nat
        /\ Max({MinPage, Min({job.split, MaxPage})}) >= MinPage
        /\ Max({MinPage, job.split}) \in Nat /\ Max({MinPage, job.split}) >= MinPage
    <3> DEFINE least == Min({job.split, MaxPage})
    <3>1. least \in Nat
      BY <2>2
    <3> HIDE DEF least
    <3>2. Max({MinPage, least}) \in Nat /\ Max({MinPage, least}) >= MinPage
      <4>1. Max({MinPage, least}) = IF MinPage >= least THEN MinPage ELSE least
        BY <2>1, <3>1, TwoNumbers
      <4> QED BY <2>1, <3>1, <4>1
    <3>3. Max({MinPage, job.split}) \in Nat /\ Max({MinPage, job.split}) >= MinPage
      <4>1. Max({MinPage, job.split}) = IF MinPage >= job.split THEN MinPage ELSE job.split
        BY <2>1, TwoNumbers
      <4> QED BY <2>1, <4>1
    <3> QED BY <3>2, <3>3 DEF least
  <2> QED BY <2>1, <2>3 DEF PageSize
<1>4. m \in Nat /\ m <= Cardinality(S) /\ (m = 0 <=> S = {})
  <2>1. m = IF PageSize <= Cardinality(S) THEN PageSize ELSE Cardinality(S)
    BY <1>2, <1>3, TwoNumbers
  <2> HIDE DEF S, m
  <2> QED BY <1>2, <1>3, <2>1
<1>5. NextPage = FirstOf(S, m)
  BY DEF NextPage, FirstOf
<1> HIDE DEF m
<1>6. /\ NextPage \in Seq(S) /\ Len(NextPage) = m
      /\ \A i, j \in 1 .. m : i < j => NextPage[i] < NextPage[j]
      /\ m > 0 => \A k \in S : k <= NextPage[m] => \E i \in 1 .. m : NextPage[i] = k
  <2> HIDE DEF S
  <2>1. /\ FirstOf(S, m) \in Seq(S) /\ Len(FirstOf(S, m)) = m
        /\ \A i, j \in 1 .. m : i < j => FirstOf(S, m)[i] < FirstOf(S, m)[j]
        /\ m > 0 => \A k \in S : k <= FirstOf(S, m)[m] => \E i \in 1 .. m : FirstOf(S, m)[i] = k
    BY <1>1, <1>4, FirstOfIs
  <2> QED BY <1>5, <2>1
<1>7. DOMAIN NextPage = 1 .. m /\ \A i \in 1 .. m : NextPage[i] \in S
  <2> HIDE DEF S
  <2> QED BY <1>4, <1>6
<1>8. NextPage \in Seq(Keys)
  <2>1. S \subseteq Keys
    BY <1>1 DEF Keys
  <2> HIDE DEF S
  <2> QED BY <1>6, <2>1, SeqMonotonic
<1>9. ASSUME NextPage # <<>>
      PROVE  /\ Last(NextPage) \in Keys
             /\ \A k \in live[thread.pair] : k > thread.after /\ k <= Last(NextPage) =>
                  \E i \in DOMAIN NextPage : NextPage[i] = k
  <2>1. m > 0
    BY <1>4, <1>6, <1>9
  <2>2. Last(NextPage) = NextPage[m]
    BY <1>6 DEF Last
  <2>3. Last(NextPage) \in Keys
    BY <1>1, <1>4, <1>7, <2>1, <2>2 DEF Keys
  <2>4. \A k \in S : k <= Last(NextPage) => \E i \in 1 .. m : NextPage[i] = k
    BY <1>6, <2>1, <2>2
  <2> QED BY <1>7, <2>3, <2>4
<1>10. ASSUME NextPage = <<>> PROVE \A k \in live[thread.pair] : k <= thread.after
  <2>1. S = {}
    BY <1>4, <1>6, <1>10
  <2>2. \A k \in live[thread.pair] : ~(k > thread.after)
    BY <2>1
  <2>3. \A k \in live[thread.pair] : k \in Nat
    BY ExportAssumption DEF ExportTypeOK, Keys
  <2>4. thread.after \in Nat
    BY ExportAssumption DEF ExportTypeOK
  <2> QED BY <2>2, <2>3, <2>4
<1> QED BY <1>6, <1>7, <1>8, <1>9, <1>10

\* What the files join to.
LEMMA JoinedFiles ==
  ASSUME ExportTypeOK
  PROVE  /\ Len(files) \in Nat /\ Joined(FileRows, 0) = <<>>
         /\ \A n \in 0 .. Len(files) : Joined(FileRows, n) \in Seq(Row)
         /\ \A n \in 0 .. Len(files) : n < Len(files) =>
              Joined(FileRows, n + 1) = Joined(FileRows, n) \o files[n + 1].rows
         /\ Stored \in Seq(Row)
<1>1. files \in Seq(File) /\ Len(files) \in Nat /\ DOMAIN files = 1 .. Len(files)
  BY DEF ExportTypeOK, File, Row
<1>2. \A i \in 1 .. Len(files) : FileRows[i] = files[i].rows /\ FileRows[i] \in Seq(Row)
  <2> TAKE i \in 1 .. Len(files)
  <2>1. files[i] \in File /\ i \in DOMAIN files
    BY <1>1
  <2>2. FileRows[i] = files[i].rows
    BY <2>1 DEF FileRows
  <2> QED BY <2>1, <2>2 DEF File
<1> HIDE DEF FileRows
<1>3. Joined(FileRows, 0) = <<>>
  BY DEF Joined, FlattenSeq
<1>4. ASSUME NEW n \in 0 .. Len(files), n < Len(files)
      PROVE  /\ Joined(FileRows, n) \in Seq(Row)
             /\ Joined(FileRows, n + 1) = Joined(FileRows, n) \o files[n + 1].rows
             /\ Joined(FileRows, n + 1) \in Seq(Row)
  <2>1. n \in Nat /\ n + 1 \in 1 .. Len(files) /\ \A i \in 1 .. n + 1 : FileRows[i] \in Seq(Row)
    BY <1>1, <1>2, <1>4
  <2>2. Joined(FileRows, n) \in Seq(Row) /\ Joined(FileRows, n + 1) = Joined(FileRows, n) \o FileRows[n + 1]
    BY <2>1, JoinedIs
  <2> QED BY <1>2, <2>1, <2>2, ConcatProperties
<1>5. ASSUME NEW n \in 0 .. Len(files) PROVE Joined(FileRows, n) \in Seq(Row)
  <2>1. CASE n = 0
    <3>1. Joined(FileRows, n) = <<>>
      BY <1>3, <2>1
    <3> QED BY <3>1
  <2>2. CASE n # 0
    <3>1. PICK l \in 0 .. Len(files) : l < Len(files) /\ n = l + 1
      <4>1. n - 1 \in 0 .. Len(files) /\ n - 1 < Len(files) /\ n = (n - 1) + 1
        BY <1>1, <2>2
      <4> QED BY <4>1
    <3> QED BY <1>4, <3>1
  <2> QED BY <2>1, <2>2
<1>6. Stored \in Seq(Row)
  BY <1>1, <1>5 DEF Stored
<1> QED BY <1>1, <1>3, <1>4, <1>5, <1>6

LEMMA FileAppended ==
  ASSUME ExportTypeOK, NEW file \in File, files' = Append(files, file)
  PROVE  /\ Len(files') = Len(files) + 1 /\ files' \in Seq(File)
         /\ \A n \in 0 .. Len(files) : Joined(FileRows, n)' = Joined(FileRows, n)
         /\ Stored' = Stored \o file.rows
         /\ \A i \in DOMAIN files : files'[i] = files[i]
         /\ files'[Len(files) + 1] = file
<1>1. files \in Seq(File) /\ Len(files) \in Nat /\ DOMAIN files = 1 .. Len(files)
  BY DEF ExportTypeOK, File, Row
<1>2. /\ Len(files') = Len(files) + 1 /\ files' \in Seq(File) /\ DOMAIN files' = 1 .. Len(files) + 1
      /\ \A i \in 1 .. Len(files) : files'[i] = files[i]
      /\ files'[Len(files) + 1] = file
  BY <1>1
<1>3. /\ \A i \in 1 .. Len(files) + 1 : FileRows'[i] = files'[i].rows /\ FileRows'[i] \in Seq(Row)
      /\ \A i \in 1 .. Len(files) : FileRows'[i] = FileRows[i]
  <2>1. ASSUME NEW i \in 1 .. Len(files) + 1
        PROVE  FileRows'[i] = files'[i].rows /\ files'[i].rows \in Seq(Row)
    <3>1. files'[i] \in File /\ i \in DOMAIN files'
      BY <1>1, <1>2, <2>1
    <3>2. FileRows'[i] = files'[i].rows
      BY <3>1 DEF FileRows
    <3> QED BY <3>1, <3>2 DEF File
  <2>2. ASSUME NEW i \in 1 .. Len(files) PROVE FileRows[i] = files[i].rows
    BY <1>1, <2>2 DEF FileRows
  <2>3. \A i \in 1 .. Len(files) : i \in 1 .. Len(files) + 1
    BY <1>1
  <2> QED BY <1>2, <2>1, <2>2, <2>3
<1>4. ASSUME NEW n \in 0 .. Len(files) PROVE Joined(FileRows', n) = Joined(FileRows, n)
  <2>1. [i \in 1 .. n |-> FileRows'[i]] = [i \in 1 .. n |-> FileRows[i]]
    BY <1>1, <1>3
  <2> QED BY <2>1 DEF Joined
<1>5. Joined(FileRows', Len(files) + 1) = Joined(FileRows', Len(files)) \o FileRows'[Len(files) + 1]
  <2> HIDE DEF FileRows
  <2> QED BY <1>1, <1>3, JoinedIs
<1>6. Stored' = Stored \o file.rows
  <2>1. Len(files) \in 0 .. Len(files) /\ Len(files) + 1 \in 1 .. Len(files) + 1
    BY <1>1
  <2>2. Stored' = Joined(FileRows', Len(files) + 1)
    BY <1>2 DEF Stored
  <2> QED BY <1>2, <1>3, <1>4, <1>5, <2>1, <2>2 DEF Stored
<1>7. \A n \in 0 .. Len(files) : Joined(FileRows, n)' = Joined(FileRows, n)
  BY <1>4
<1> QED BY <1>1, <1>2, <1>6, <1>7

Entry ==
  [mode : {"none", "single", "batch"}, split : Nat,
   status : {"none", "queued", "running", "done", "error", "gone"},
   processed : Nat, ready : Nat, csv : Seq(Row)]
ThreadState ==
  [at : {"none", "read", "ready", "rest", "last", "write", "content", "ended"},
   pair : FieldPairs, after : 0 .. LastKey, found : BOOLEAN, rows : Seq(Row), stored : Nat]

LEMMA ExportTypes ==
  ExportTypeOK <=>
    /\ live \in [FieldPairs -> SUBSET Keys] /\ steady \in [FieldPairs -> SUBSET Keys]
    /\ textual \subseteq FieldPairs /\ edits \in 0 .. MaxEdits
    /\ job \in Entry /\ files \in Seq(File) /\ thread \in ThreadState
BY DEF ExportTypeOK, Entry, ThreadState, File, Row

LEMMA Starts == NoJob \in Entry /\ NoThread \in ThreadState /\ 1 \in FieldPairs
<1>1. 1 \in FieldPairs /\ 0 \in 0 .. LastKey
  BY ExportAssumption DEF FieldPairs
<1>2. <<>> \in Seq(Row)
  OBVIOUS
<1> QED BY <1>1, <1>2 DEF NoJob, NoThread, Entry, ThreadState

LEMMA ExportTypeStart == ExportInit => ExportTypeOK
<1> SUFFICES ASSUME ExportInit PROVE ExportTypeOK
  OBVIOUS
<1>1. live \in [FieldPairs -> SUBSET Keys] /\ steady \in [FieldPairs -> SUBSET Keys]
  BY DEF ExportInit
<1>2. textual \subseteq FieldPairs /\ edits \in 0 .. MaxEdits /\ files \in Seq(File)
  BY ExportAssumption DEF ExportInit
<1>3. job \in Entry /\ thread \in ThreadState
  BY Starts DEF ExportInit
<1> QED BY <1>1, <1>2, <1>3, ExportTypes

\* The rows of a page are rows of the pair.
NewRows == [i \in DOMAIN NextPage |-> <<thread.pair, NextPage[i]>>]

LEMMA NewRowsAre ==
  ASSUME ExportTypeOK, job.split > 0
  PROVE  /\ NewRows \in Seq(Row) /\ DOMAIN NewRows = DOMAIN NextPage
         /\ NextPage # <<>> => NewRows # <<>>
         /\ \A i \in DOMAIN NewRows : NewRows[i][1] = thread.pair /\ NewRows[i][2] = NextPage[i]
<1>1. NextPage \in Seq(Keys)
  BY PageOfKeys
<1>2. PICK n \in Nat : n = Len(NextPage) /\ DOMAIN NextPage = 1 .. n
  BY <1>1
<1>3. thread.pair \in FieldPairs /\ \A i \in 1 .. n : NextPage[i] \in Keys
  BY <1>1, <1>2 DEF ExportTypeOK
<1>4. NewRows = [i \in 1 .. n |-> <<thread.pair, NextPage[i]>>]
  BY <1>2 DEF NewRows
<1>5. \A i \in 1 .. n : <<thread.pair, NextPage[i]>> \in Row
  BY <1>3 DEF Row
<1>6. NewRows \in Seq(Row) /\ Len(NewRows) = n
  BY <1>4, <1>5
<1>7. NextPage # <<>> => NewRows # <<>>
  BY <1>1, <1>2, <1>6
<1>8. \A i \in 1 .. n : NewRows[i] = <<thread.pair, NextPage[i]>>
  BY <1>4
<1> QED BY <1>2, <1>4, <1>6, <1>7, <1>8

\* What a file takes from the rows at hand, and what it leaves.
LEMMA CutOff ==
  ASSUME ExportTypeOK, job.split > 0, CutFile
  PROVE  \E n \in Nat \ {0} :
           /\ n = Min({job.split, Len(thread.rows)}) /\ n <= Len(thread.rows) /\ n <= job.split
           /\ Len(thread.rows) >= job.split => n = job.split
           /\ Len(thread.rows) < job.split => n = Len(thread.rows)
           /\ files' = Append(files, [rows |-> SubSeq(thread.rows, 1, n),
                                      first |-> thread.stored + 1, last |-> thread.stored + n])
           /\ thread'.rows = SubSeq(thread.rows, n + 1, Len(thread.rows))
           /\ thread'.stored = thread.stored + n
           /\ SubSeq(thread.rows, 1, n) \in Seq(Row) /\ thread'.rows \in Seq(Row)
           /\ Len(SubSeq(thread.rows, 1, n)) = n /\ Len(thread'.rows) = Len(thread.rows) - n
           /\ SubSeq(thread.rows, 1, n) \o thread'.rows = thread.rows
<1>1. job.split \in Nat /\ thread.rows \in Seq(Row) /\ thread \in ThreadState
  BY ExportTypes DEF Entry, ThreadState
<1>2. Len(thread.rows) \in Nat
  BY <1>1
<1>3. PICK n \in Nat : n = Min({job.split, Len(thread.rows)})
  BY <1>1, <1>2, TwoNumbers
<1>4. n = IF job.split <= Len(thread.rows) THEN job.split ELSE Len(thread.rows)
  BY <1>1, <1>2, <1>3, TwoNumbers
<1>5. n > 0
  BY <1>3 DEF CutFile
<1>6. /\ files' = Append(files, [rows |-> SubSeq(thread.rows, 1, n),
                                 first |-> thread.stored + 1, last |-> thread.stored + n])
      /\ thread' = [thread EXCEPT !.rows = SubSeq(@, n + 1, Len(@)), !.stored = @ + n,
                                  !.at = IF @ = "read" THEN "ready" ELSE "last"]
  BY <1>3 DEF CutFile
<1>7. /\ thread'.rows = SubSeq(thread.rows, n + 1, Len(thread.rows))
      /\ thread'.stored = thread.stored + n
  BY <1>1, <1>6 DEF ThreadState
<1>8. n \in 0 .. Len(thread.rows)
  BY <1>1, <1>2, <1>4
<1>9. /\ SubSeq(thread.rows, 1, n) \in Seq(Row) /\ thread'.rows \in Seq(Row)
      /\ Len(SubSeq(thread.rows, 1, n)) = n /\ Len(thread'.rows) = Len(thread.rows) - n
      /\ SubSeq(thread.rows, 1, n) \o thread'.rows = thread.rows
  <2>1. PICK s \in Seq(Row) : s = thread.rows
    BY <1>1
  <2>2. /\ SubSeq(s, 1, n) \in Seq(Row) /\ Len(SubSeq(s, 1, n)) = n
        /\ SubSeq(s, n + 1, Len(s)) \in Seq(Row) /\ Len(SubSeq(s, n + 1, Len(s))) = Len(s) - n
        /\ SubSeq(s, 1, n) \o SubSeq(s, n + 1, Len(s)) = s
    BY <1>8, <2>1, SplitList
  <2> QED BY <1>7, <2>1, <2>2
<1>10. /\ n \in Nat \ {0} /\ n <= Len(thread.rows) /\ n <= job.split
       /\ Len(thread.rows) >= job.split => n = job.split
       /\ Len(thread.rows) < job.split => n = Len(thread.rows)
  BY <1>1, <1>2, <1>4, <1>5
<1> QED BY <1>3, <1>6, <1>7, <1>9, <1>10

LEMMA ExportTypeStep ==
  ExportTypeOK /\ job.split > 0 /\ [ExportNext]_exportVars => ExportTypeOK'
<1> SUFFICES ASSUME ExportTypeOK, job.split > 0, [ExportNext]_exportVars PROVE ExportTypeOK'
  OBVIOUS
<1>0. /\ live \in [FieldPairs -> SUBSET Keys] /\ steady \in [FieldPairs -> SUBSET Keys]
      /\ textual \subseteq FieldPairs /\ edits \in 0 .. MaxEdits
      /\ job \in Entry /\ files \in Seq(File) /\ thread \in ThreadState
  BY ExportTypes
<1> DEFINE Kept0 == /\ live' \in [FieldPairs -> SUBSET Keys] /\ steady' \in [FieldPairs -> SUBSET Keys]
                    /\ textual' \subseteq FieldPairs /\ edits' \in 0 .. MaxEdits
<1>1. ASSUME Kept0, job' \in Entry, files' \in Seq(File), thread' \in ThreadState PROVE ExportTypeOK'
  BY <1>1 DEF ExportTypeOK, Entry, ThreadState, File, Row
<1>2. UNCHANGED <<live, steady, textual, edits>> => Kept0
  BY <1>0
<1>3. job.split \in Nat /\ job.processed \in Nat /\ thread.rows \in Seq(Row) /\ Len(thread.rows) \in Nat
  BY <1>0 DEF Entry, ThreadState
<1>4. ASSUME NEW mode \in {"single", "batch"}, NEW split \in Splits, NEW table \in Tables,
             NEW text \in SUBSET FieldPairs, StartExport(mode, split, table, text)
      PROVE  ExportTypeOK'
  <2>1. split \in Nat /\ table \in [FieldPairs -> SUBSET Keys]
    BY ExportAssumption
  <2>2. Kept0 /\ files' = files
    BY <1>0, <1>4, <2>1 DEF StartExport
  <2>3. job' \in Entry
    BY <1>4, <2>1, Starts DEF StartExport, Entry
  <2>4. thread' \in ThreadState
    BY <1>4, Starts DEF StartExport, ThreadState
  <2> HIDE DEF Kept0
  <2> QED BY <1>0, <1>1, <2>2, <2>3, <2>4
<1>5. ASSUME NEW p \in FieldPairs, NEW k \in Keys, Edit(p, k) PROVE ExportTypeOK'
  <2>1. edits' \in 0 .. MaxEdits
    BY <1>0, <1>5, ExportAssumption DEF Edit
  <2>2. live' \in [FieldPairs -> SUBSET Keys]
    BY <1>0, <1>5 DEF Edit
  <2>3. steady' \in [FieldPairs -> SUBSET Keys]
    BY <1>0, <1>5 DEF Edit
  <2>4. UNCHANGED <<textual, job, files, thread>>
    BY <1>5 DEF Edit
  <2> QED BY <1>0, <1>1, <2>1, <2>2, <2>3, <2>4
<1>6. CASE ReadRows
  <2>1. thread' = [thread EXCEPT !.found = TRUE, !.after = Last(NextPage), !.rows = thread.rows \o NewRows]
    BY <1>6 DEF ReadRows, NewRows
  <2>2. /\ UNCHANGED <<live, textual, files, steady, edits>>
        /\ job' = IF job.mode = "batch" THEN job
                  ELSE [job EXCEPT !.status = "running", !.processed = Len(thread.rows \o NewRows)]
    BY <1>6 DEF ReadRows, NewRows
  <2>3. Last(NextPage) \in 0 .. LastKey
    <3>1. Last(NextPage) \in Keys
      BY <1>6, PageOfKeys DEF ReadRows
    <3> QED BY <3>1, ExportAssumption DEF Keys
  <2>4. thread.rows \o NewRows \in Seq(Row) /\ Len(thread.rows \o NewRows) \in Nat
    <3>1. thread.rows \o NewRows \in Seq(Row)
      BY <1>3, NewRowsAre, ConcatProperties
    <3> QED BY <3>1
  <2>5. thread' \in ThreadState
    BY <1>0, <2>1, <2>3, <2>4 DEF ThreadState
  <2>6. job' \in Entry
    BY <1>0, <2>2, <2>4 DEF Entry
  <2> QED BY <1>0, <1>1, <1>2, <2>2, <2>5, <2>6
<1>7. CASE NextPair
  <2>1. thread' = [thread EXCEPT !.pair = @ + 1, !.after = 0] /\ thread.pair < LastPair
    BY <1>7 DEF NextPair
  <2>2. thread.pair + 1 \in FieldPairs /\ 0 \in 0 .. LastKey
    BY <1>0, <2>1, ExportAssumption DEF ThreadState, FieldPairs
  <2>3. thread' \in ThreadState
    BY <1>0, <2>1, <2>2 DEF ThreadState
  <2>4. job' \in Entry /\ UNCHANGED <<live, textual, files, steady, edits>>
    BY <1>0, <1>7 DEF NextPair, Entry
  <2> QED BY <1>0, <1>1, <1>2, <2>3, <2>4
<1>8. CASE Fail
  <2>1. thread' \in ThreadState
    BY <1>0, <1>8 DEF Fail, ThreadState
  <2>2. job' \in Entry /\ UNCHANGED <<live, textual, files, steady, edits>>
    BY <1>0, <1>8 DEF Fail, Entry
  <2> QED BY <1>0, <1>1, <1>2, <2>1, <2>2
<1>9. CASE CutFile
  <2>1. PICK n \in Nat \ {0} :
          /\ files' = Append(files, [rows |-> SubSeq(thread.rows, 1, n),
                                     first |-> thread.stored + 1, last |-> thread.stored + n])
          /\ thread'.rows = SubSeq(thread.rows, n + 1, Len(thread.rows))
          /\ n = Min({job.split, Len(thread.rows)})
          /\ SubSeq(thread.rows, 1, n) \in Seq(Row) /\ thread'.rows \in Seq(Row)
    BY <1>9, CutOff
  <2>2. /\ thread.stored + 1 \in Nat /\ thread.stored + n \in Nat
        /\ SubSeq(thread.rows, n + 1, Len(thread.rows)) \in Seq(Row)
    <3>1. thread.stored \in Nat
      BY <1>0 DEF ThreadState
    <3>2. \A a, b \in Nat : a + 1 \in Nat /\ a + b \in Nat
      OBVIOUS
    <3>3. thread.stored + 1 \in Nat /\ thread.stored + n \in Nat
      BY <2>1, <3>1, <3>2
    <3>4. SubSeq(thread.rows, n + 1, Len(thread.rows)) \in Seq(Row)
      BY <2>1
    <3> QED BY <3>3, <3>4
  <2>3. [rows |-> SubSeq(thread.rows, 1, n), first |-> thread.stored + 1, last |-> thread.stored + n] \in File
    BY <2>1, <2>2 DEF File
  <2>4. files' \in Seq(File)
    BY <1>0, <2>1, <2>3
  <2>5. thread' = [thread EXCEPT !.rows = SubSeq(thread.rows, n + 1, Len(thread.rows)), !.stored = thread.stored + n,
                                 !.at = IF thread.at = "read" THEN "ready" ELSE "last"]
    BY <1>0, <1>9, <2>1 DEF CutFile, ThreadState
  <2>6. thread' \in ThreadState
    BY <1>0, <2>1, <2>2, <2>5 DEF ThreadState
  <2>7. UNCHANGED <<live, textual, job, steady, edits>>
    BY <1>9 DEF CutFile
  <2> QED BY <1>0, <1>1, <1>2, <2>4, <2>6, <2>7
<1>10. CASE OfferFile
  <2>1. thread' \in ThreadState
    BY <1>0, <1>10 DEF OfferFile, ThreadState
  <2>2. Len(files) \in Nat /\ thread.stored \in Nat
    BY <1>0 DEF ThreadState
  <2>3. job' \in Entry /\ UNCHANGED <<live, textual, files, steady, edits>>
    BY <1>0, <1>10, <2>2 DEF OfferFile, Entry
  <2> QED BY <1>0, <1>1, <1>2, <2>1, <2>3
<1>11. CASE EndOfPair
  <2>1. thread' \in ThreadState
    BY <1>0, <1>11 DEF EndOfPair, ThreadState
  <2>2. job' \in Entry /\ UNCHANGED <<live, textual, files, steady, edits>>
    BY <1>0, <1>11 DEF EndOfPair, Entry
  <2> QED BY <1>0, <1>1, <1>2, <2>1, <2>2
<1>12. CASE BatchDone
  <2>1. thread' \in ThreadState /\ thread.stored \in Nat
    BY <1>0, <1>12 DEF BatchDone, ThreadState
  <2>2. job' \in Entry /\ UNCHANGED <<live, textual, files, steady, edits>>
    BY <1>0, <1>12, <2>1 DEF BatchDone, Entry
  <2> QED BY <1>0, <1>1, <1>2, <2>1, <2>2
<1>13. CASE WriteRow
  <2>1. job' \in Entry
    <3>1. job' = [job EXCEPT !.processed = job.processed + 1] /\ job.processed + 1 \in Nat
      BY <1>0, <1>3, <1>13 DEF WriteRow, Entry
    <3> QED BY <1>0, <3>1 DEF Entry
  <2>2. UNCHANGED <<live, textual, files, thread, steady, edits>>
    BY <1>13 DEF WriteRow
  <2> QED BY <1>0, <1>1, <1>2, <2>1, <2>2
<1>14. CASE SayDone
  <2>1. thread' \in ThreadState
    BY <1>0, <1>14 DEF SayDone, ThreadState
  <2>2. job' \in Entry /\ UNCHANGED <<live, textual, files, steady, edits>>
    BY <1>0, <1>14 DEF SayDone, Entry
  <2> QED BY <1>0, <1>1, <1>2, <2>1, <2>2
<1>15. CASE SetContent
  <2>1. thread' \in ThreadState
    BY <1>0, <1>15 DEF SetContent, ThreadState
  <2>2. job' \in Entry /\ UNCHANGED <<live, textual, files, steady, edits>>
    BY <1>0, <1>3, <1>15 DEF SetContent, Entry
  <2> QED BY <1>0, <1>1, <1>2, <2>1, <2>2
<1>16. CASE ProcessStops
  <2>1. thread' \in ThreadState
    BY <1>16, Starts DEF ProcessStops, ThreadState
  <2>2. job' \in Entry /\ UNCHANGED <<live, textual, steady, edits>>
    BY <1>16, Starts DEF ProcessStops, Entry
  <2>3. files' \in Seq(File)
    BY <1>16 DEF ProcessStops
  <2> QED BY <1>0, <1>1, <1>2, <2>1, <2>2, <2>3
<1>17. CASE UNCHANGED exportVars
  BY <1>0, <1>1, <1>2, <1>17 DEF exportVars
<1> QED BY <1>4, <1>5, <1>6, <1>7, <1>8, <1>9, <1>10, <1>11, <1>12, <1>13, <1>14, <1>15, <1>16, <1>17
        DEF ExportNext, ThreadStep, SearchFails, NoRows

LEMMA OffersStart == ExportInit => Offers
BY DEF ExportInit, Offers, Finished, NoJob, NoThread

LEMMA OffersStep ==
  ExportTypeOK /\ Offers /\ [ExportNext]_exportVars => Offers'
<1> SUFFICES ASSUME ExportTypeOK, Offers, [ExportNext]_exportVars PROVE Offers'
  OBVIOUS
<1>0. job \in Entry /\ files \in Seq(File) /\ thread \in ThreadState /\ Len(files) \in Nat
  BY ExportTypes
<1>1. ASSUME NEW mode \in {"single", "batch"}, NEW split \in Splits, NEW table \in Tables,
             NEW text \in SUBSET FieldPairs, StartExport(mode, split, table, text)
      PROVE  Offers'
  <2>1. thread.at = "none" /\ thread = NoThread /\ job = NoJob /\ files = <<>> /\ split > 0
    BY <1>1, ExportAssumption DEF Offers, StartExport
  <2>2. /\ files' = <<>> /\ thread' = [NoThread EXCEPT !.at = "read"]
        /\ job' = [NoJob EXCEPT !.mode = mode, !.split = split,
                                !.status = IF mode = "batch" THEN "running" ELSE "queued"]
    BY <1>1, <2>1 DEF StartExport
  <2>3. /\ thread'.at = "read" /\ job'.mode = mode /\ job'.split = split /\ job'.ready = 0
        /\ job'.csv = <<>> /\ job'.status \in {"running", "queued"}
    BY <2>2 DEF NoThread, NoJob
  <2> QED BY <2>1, <2>2, <2>3 DEF Offers, Finished
<1>2. ASSUME UNCHANGED <<job, files, thread>> PROVE Offers'
  BY <1>2 DEF Offers, Finished
<1>3. CASE ReadRows
  <2>1. /\ files' = files /\ thread'.at = "read" /\ thread.at = "read"
        /\ job'.mode = job.mode /\ job'.split = job.split /\ job'.ready = job.ready /\ job'.csv = job.csv
        /\ job'.status \in {job.status, "running"}
    BY <1>0, <1>3 DEF ReadRows, Reading, Entry, ThreadState
  <2> QED BY <2>1 DEF Offers, Finished
<1>4. CASE NextPair
  <2>1. /\ files' = files /\ thread'.at = "read" /\ thread.at = "read"
        /\ job'.mode = job.mode /\ job'.split = job.split /\ job'.ready = job.ready /\ job'.csv = job.csv
        /\ job'.status \in {job.status, "running"}
    BY <1>0, <1>4 DEF NextPair, Reading, Entry, ThreadState
  <2> QED BY <2>1 DEF Offers, Finished
<1>5. CASE thread.at = "read" /\ Fail
  <2>1. /\ files' = files /\ thread'.at = "ended"
        /\ job'.mode = job.mode /\ job'.split = job.split /\ job'.ready = job.ready /\ job'.csv = job.csv
        /\ job'.status = "error"
    BY <1>0, <1>5 DEF Fail, Entry, ThreadState
  <2> QED BY <1>5, <2>1 DEF Offers, Finished
<1>6. CASE CutFile
  <2>1. /\ job' = job /\ job.mode = "batch" /\ thread.at \in {"read", "rest"}
        /\ thread'.at \in {"ready", "last"}
    BY <1>0, <1>6 DEF CutFile, ThreadState
  <2>2. Len(files') = Len(files) + 1
    <3>1. PICK file : files' = Append(files, file)
      BY <1>6 DEF CutFile
    <3> QED BY <1>0, <3>1
  <2>3. Len(files) = job.ready /\ job.ready \in Nat
    BY <1>0, <2>1 DEF Offers, Entry
  <2>4. Len(files') = job.ready + 1
    BY <2>2, <2>3
  <2> QED BY <2>1, <2>4 DEF Offers, Finished
<1>7. CASE OfferFile
  <2>1. /\ files' = files /\ thread'.at \in {"read", "rest"} /\ thread.at \in {"ready", "last"}
        /\ job'.mode = job.mode /\ job'.split = job.split /\ job'.ready = Len(files) /\ job'.csv = job.csv
        /\ job'.status = job.status
    BY <1>0, <1>7 DEF OfferFile, Entry, ThreadState
  <2> QED BY <1>0, <2>1 DEF Offers, Finished
<1>8. CASE EndOfPair
  <2>1. /\ files' = files /\ thread'.at = (IF job.mode = "batch" THEN "rest" ELSE "write")
        /\ thread.at = "read"
        /\ job'.mode = job.mode /\ job'.split = job.split /\ job'.ready = job.ready /\ job'.csv = job.csv
        /\ job'.status \in {job.status, "running"}
    BY <1>0, <1>8 DEF EndOfPair, Reading, Entry, ThreadState
  <2> QED BY <2>1 DEF Offers, Finished
<1>9. CASE BatchDone
  <2>1. /\ files' = files /\ thread'.at = "ended" /\ thread.at = "rest"
        /\ thread'.rows = thread.rows /\ thread.rows = <<>>
        /\ job'.mode = job.mode /\ job'.split = job.split /\ job'.ready = job.ready /\ job'.csv = job.csv
        /\ job'.status = "done"
    BY <1>0, <1>9 DEF BatchDone, Entry, ThreadState
  <2> QED BY <2>1 DEF Offers, Finished
<1>10. CASE WriteRow
  <2>1. /\ files' = files /\ thread' = thread /\ thread.at = "write"
        /\ job'.mode = job.mode /\ job'.split = job.split /\ job'.ready = job.ready /\ job'.csv = job.csv
        /\ job'.status = job.status
    BY <1>0, <1>10 DEF WriteRow, Entry, ThreadState
  <2> QED BY <2>1 DEF Offers, Finished
<1>11. CASE SayDone
  <2>1. /\ files' = files /\ thread'.at = "content" /\ thread.at = "write"
        /\ job'.mode = job.mode /\ job'.split = job.split /\ job'.ready = job.ready /\ job'.csv = job.csv
        /\ job'.status = "done"
    BY <1>0, <1>11 DEF SayDone, Entry, ThreadState
  <2> QED BY <2>1 DEF Offers, Finished
<1>12. CASE SetContent
  <2>1. /\ files' = files /\ thread'.at = "ended" /\ thread.at = "content" /\ thread'.rows = thread.rows
        /\ job'.mode = job.mode /\ job'.split = job.split /\ job'.ready = job.ready /\ job'.csv = thread.rows
        /\ job'.status = job.status
    BY <1>0, <1>12 DEF SetContent, Entry, ThreadState
  <2> QED BY <2>1 DEF Offers, Finished
<1>13. CASE ProcessStops
  <2>1. /\ files' = <<>> /\ thread'.at = "ended" /\ job'.mode = "none" /\ job'.split = 1
        /\ job'.ready = 0 /\ job'.csv = <<>> /\ job'.status = "gone"
    BY <1>13 DEF ProcessStops, NoJob, NoThread
  <2> QED BY <2>1 DEF Offers, Finished
<1>14. \A p \in FieldPairs, k \in Keys : Edit(p, k) => Offers'
  BY <1>2 DEF Edit
<1>15. UNCHANGED exportVars => Offers'
  BY <1>2 DEF exportVars
<1> QED BY <1>1, <1>3, <1>4, <1>5, <1>6, <1>7, <1>8, <1>9, <1>10, <1>11, <1>12, <1>13, <1>14, <1>15
        DEF ExportNext, ThreadStep, SearchFails, NoRows, Reading

LEMMA ThreeLists ==
  \A a, b, c \in Seq(Row) : (a \o b) \o c = a \o (b \o c)
BY ConcatAssociative

\* Rows that go from the thread into a file, or stay where they are, are the same rows read.
LEMMA SameRows ==
  ASSUME ExportTypeOK, job.split > 0,
         CutFile \/ UNCHANGED <<files, thread>> \/ (files' = files /\ thread'.rows = thread.rows)
  PROVE  RowsRead' = RowsRead
<1>1. ASSUME files' = files, thread'.rows = thread.rows PROVE RowsRead' = RowsRead
  BY <1>1 DEF RowsRead, Stored, FileRows, Joined
<1>2. CASE CutFile
  <2>1. PICK n \in Nat \ {0} :
          /\ files' = Append(files, [rows |-> SubSeq(thread.rows, 1, n),
                                     first |-> thread.stored + 1, last |-> thread.stored + n])
          /\ SubSeq(thread.rows, 1, n) \in Seq(Row) /\ thread'.rows \in Seq(Row)
          /\ SubSeq(thread.rows, 1, n) \o thread'.rows = thread.rows
    BY <1>2, CutOff
  <2> DEFINE file == [rows |-> SubSeq(thread.rows, 1, n),
                      first |-> thread.stored + 1, last |-> thread.stored + n]
  <2>2. thread.stored + 1 \in Nat /\ thread.stored + n \in Nat
    <3>1. thread.stored \in Nat
      BY DEF ExportTypeOK
    <3> QED BY <3>1
  <2>3. file \in File /\ file.rows = SubSeq(thread.rows, 1, n)
    BY <2>1, <2>2 DEF File
  <2>4. Stored' = Stored \o SubSeq(thread.rows, 1, n)
    <3>1. files' = Append(files, file)
      BY <2>1
    <3> HIDE DEF file
    <3> QED BY <2>3, <3>1, FileAppended
  <2>5. Stored \in Seq(Row)
    BY JoinedFiles
  <2>6. (Stored \o SubSeq(thread.rows, 1, n)) \o thread'.rows = Stored \o (SubSeq(thread.rows, 1, n) \o thread'.rows)
    BY <2>1, <2>5, ThreeLists, Zenon
  <2> QED BY <2>1, <2>4, <2>6 DEF RowsRead
<1> QED BY <1>1, <1>2

LEMMA RowsReadIs ==
  ASSUME ExportTypeOK
  PROVE  /\ RowsRead \in Seq(Row) /\ Len(RowsRead) \in Nat /\ DOMAIN RowsRead = 1 .. Len(RowsRead)
         /\ \A i \in DOMAIN RowsRead : RowsRead[i] \in Row /\ RowsRead[i][1] \in FieldPairs /\ RowsRead[i][2] \in Nat
         /\ RowsRead = <<>> <=> Len(RowsRead) = 0
<1>1. Stored \in Seq(Row) /\ thread.rows \in Seq(Row)
  BY JoinedFiles DEF ExportTypeOK, Row
<1>2. RowsRead \in Seq(Row)
  BY <1>1, ConcatProperties DEF RowsRead
<1>3. \A row \in Row : row[1] \in FieldPairs /\ row[2] \in Nat
  BY ExportAssumption DEF Row, Keys
<1> HIDE DEF RowsRead
<1> QED BY <1>2, <1>3

\* Nothing is read where no row is moved, the pair and the place in it stay.
LEMMA KeysKept ==
  ASSUME ExportTypeOK, InOrderOfKeys, RowsRead' = RowsRead,
         thread'.pair = thread.pair, thread'.after = thread.after, thread'.found = thread.found
  PROVE  InOrderOfKeys'
BY DEF InOrderOfKeys, Ascend

LEMMA SoFarKept ==
  ASSUME ExportTypeOK, ReadSoFar, RowsRead' = RowsRead, ReadToEnd' => ReadToEnd,
         thread'.pair = thread.pair, thread'.after = thread.after, thread'.found = thread.found,
         UNCHANGED <<live, steady, textual>>
  PROVE  ReadSoFar'
BY DEF ReadSoFar

LEMMA KeysStart == ExportInit => InOrderOfKeys /\ ReadSoFar /\ RowsRead = <<>>
<1> SUFFICES ASSUME ExportInit PROVE InOrderOfKeys /\ ReadSoFar /\ RowsRead = <<>>
  OBVIOUS
<1>1. ExportTypeOK
  BY ExportTypeStart
<1>2. RowsRead = <<>>
  <2>1. files = <<>> /\ thread.rows = <<>>
    BY DEF ExportInit, NoThread
  <2>2. Stored = Joined(FileRows, 0)
    BY <2>1 DEF Stored
  <2>3. Stored = <<>>
    BY <1>1, <2>2, JoinedFiles
  <2> QED BY <2>1, <2>3 DEF RowsRead
<1>3. thread.pair = 1 /\ thread.after = 0 /\ thread.found = FALSE /\ thread.at = "none"
  BY DEF ExportInit, NoThread
<1>4. InOrderOfKeys
  BY <1>2, <1>3 DEF InOrderOfKeys, Ascend
<1>5. \A p \in FieldPairs : steady[p] = {} /\ live[p] = {}
  BY DEF ExportInit
<1>6. ReadSoFar
  BY <1>3, <1>5, Starts DEF ReadSoFar, ReadToEnd, Finished
<1> QED BY <1>2, <1>4, <1>6

LEMMA KeysRead ==
  ASSUME ExportTypeOK, Offers, InOrderOfKeys, ReadSoFar, ReadRows
  PROVE  InOrderOfKeys' /\ ReadSoFar'
<1> DEFINE page == NextPage
           m == Len(RowsRead)
<1>1. job.split > 0 /\ NextPage # <<>>
  BY DEF Offers, ReadRows
<1>2. /\ thread'.pair = thread.pair /\ thread'.after = Last(page) /\ thread'.found = TRUE
      /\ thread'.at = "read" /\ thread'.rows = thread.rows \o NewRows
      /\ UNCHANGED <<live, textual, files, steady>>
  <2>1. thread \in ThreadState
    BY ExportTypes
  <2> QED BY <2>1 DEF ReadRows, Reading, ThreadState, NewRows
<1>3. /\ page \in Seq(Keys) /\ Last(page) \in Nat /\ thread.after \in Nat
      /\ \A i \in DOMAIN page : page[i] \in live[thread.pair] /\ page[i] > thread.after /\ page[i] \in Nat
      /\ \A i, j \in DOMAIN page : i < j => page[i] < page[j]
      /\ \A k \in live[thread.pair] : k > thread.after /\ k <= Last(page) => \E i \in DOMAIN page : page[i] = k
  <2>1. Keys \subseteq Nat /\ thread.after \in Nat
    BY ExportAssumption DEF Keys, ExportTypeOK
  <2>2. NextPage \in Seq(Keys) /\ Last(NextPage) \in Keys
    BY <1>1, PageOfKeys
  <2>3. \A i \in DOMAIN NextPage : NextPage[i] \in Keys
    BY <2>2
  <2> QED BY <1>1, <2>1, <2>2, <2>3, PageOfKeys
<1>4. PICK n \in Nat : n > 0 /\ DOMAIN page = 1 .. n /\ Last(page) = page[n]
  <2>1. NextPage \in Seq(Keys) /\ NextPage # <<>>
    BY <1>1, <1>3
  <2>2. Len(NextPage) \in Nat /\ Len(NextPage) > 0 /\ DOMAIN NextPage = 1 .. Len(NextPage)
    BY <2>1
  <2> QED BY <2>2 DEF Last
<1>5. /\ NewRows \in Seq(Row) /\ DOMAIN NewRows = 1 .. n /\ Len(NewRows) = n
      /\ \A i \in 1 .. n : NewRows[i][1] = thread.pair /\ NewRows[i][2] = page[i]
  <2>1. /\ NewRows \in Seq(Row) /\ DOMAIN NewRows = 1 .. n
        /\ \A i \in DOMAIN NewRows : NewRows[i][1] = thread.pair /\ NewRows[i][2] = NextPage[i]
    BY <1>1, <1>4, NewRowsAre
  <2>2. Len(NewRows) = n
    <3> HIDE DEF page
    <3> QED BY <1>4, <2>1
  <2> QED BY <2>1, <2>2
<1>6. /\ RowsRead \in Seq(Row) /\ m \in Nat /\ DOMAIN RowsRead = 1 .. m
      /\ \A i \in 1 .. m : RowsRead[i][2] \in Nat
  BY RowsReadIs
<1>7. RowsRead' = RowsRead \o NewRows
  <2>1. Stored \in Seq(Row) /\ thread.rows \in Seq(Row)
    BY JoinedFiles DEF ExportTypeOK, Row
  <2>2. Stored' = Stored
    BY <1>2 DEF Stored, FileRows, Joined
  <2>3. (Stored \o thread.rows) \o NewRows = Stored \o (thread.rows \o NewRows)
    BY <1>5, <2>1, ThreeLists, Zenon
  <2> QED BY <1>2, <2>2, <2>3 DEF RowsRead
<1> HIDE DEF page, m
<1>8. /\ DOMAIN RowsRead' = 1 .. m + n
      /\ \A i \in 1 .. m : RowsRead'[i] = RowsRead[i]
      /\ \A i \in m + 1 .. m + n : i - m \in 1 .. n /\ RowsRead'[i] = NewRows[i - m]
      /\ RowsRead' # <<>>
  <2>1. /\ Len(RowsRead') = m + n
        /\ \A i \in 1 .. m + n : RowsRead'[i] = IF i <= m THEN RowsRead[i] ELSE NewRows[i - m]
        /\ RowsRead' \in Seq(Row)
    BY <1>5, <1>6, <1>7, ConcatProperties DEF m
  <2>2. DOMAIN RowsRead' = 1 .. m + n
    BY <2>1
  <2>3. RowsRead' # <<>>
    BY <1>4, <1>6, <2>1
  <2>4. \A i \in 1 .. m : RowsRead'[i] = RowsRead[i]
    BY <1>4, <1>6, <2>1
  <2>5. \A i \in m + 1 .. m + n : i - m \in 1 .. n /\ RowsRead'[i] = NewRows[i - m]
    BY <1>4, <1>6, <2>1
  <2> QED BY <2>2, <2>3, <2>4, <2>5
<1>9. \A i \in 1 .. n : page[i] <= Last(page)
  <2> TAKE i \in 1 .. n
  <2>1. n \in 1 .. n /\ (i = n \/ i < n)
    BY <1>4
  <2>2. page[i] \in Nat /\ page[n] \in Nat /\ (i < n => page[i] < page[n])
    BY <1>3, <1>4, <2>1
  <2> QED BY <1>4, <2>1, <2>2
<1>10. \A i \in 1 .. m : RowsRead[i][1] = thread.pair /\ RowsRead[i][2] <= thread.after
  BY <1>6 DEF InOrderOfKeys
<1>11. /\ \A i \in 1 .. m : RowsRead'[i][1] = thread.pair /\ RowsRead'[i][2] <= thread.after /\ RowsRead'[i][2] \in Nat
       /\ \A i \in m + 1 .. m + n : /\ i - m \in 1 .. n /\ RowsRead'[i][1] = thread.pair
                                    /\ RowsRead'[i][2] = page[i - m] /\ page[i - m] \in Nat
                                    /\ thread.after < page[i - m] /\ page[i - m] <= Last(page)
  <2>1. ASSUME NEW i \in 1 .. m
        PROVE  RowsRead'[i][1] = thread.pair /\ RowsRead'[i][2] <= thread.after /\ RowsRead'[i][2] \in Nat
    BY <1>6, <1>8, <1>10
  <2>2. ASSUME NEW i \in m + 1 .. m + n
        PROVE  /\ i - m \in 1 .. n /\ RowsRead'[i][1] = thread.pair
               /\ RowsRead'[i][2] = page[i - m] /\ page[i - m] \in Nat
               /\ thread.after < page[i - m] /\ page[i - m] <= Last(page)
    <3>1. i - m \in 1 .. n /\ RowsRead'[i] = NewRows[i - m]
      BY <1>8
    <3>2. page[i - m] \in Nat /\ page[i - m] > thread.after /\ page[i - m] <= Last(page)
      BY <1>3, <1>4, <1>9, <3>1
    <3> QED BY <1>3, <1>5, <3>1, <3>2
  <2> QED BY <2>1, <2>2
<1>12. \A i \in 1 .. m + n : i \in 1 .. m \/ i \in m + 1 .. m + n
  BY <1>4, <1>6
<1>13. thread.after <= Last(page)
  <2>1. n \in 1 .. n
    BY <1>4
  <2> QED BY <1>3, <1>4, <2>1
<1>14. ASSUME NEW i \in DOMAIN RowsRead' PROVE RowsRead'[i][1] = thread.pair /\ RowsRead'[i][2] <= Last(page)
  BY <1>3, <1>8, <1>11, <1>12, <1>13, <1>14
<1>15. ASSUME NEW i \in DOMAIN RowsRead', NEW j \in DOMAIN RowsRead', i < j
       PROVE  RowsRead'[i][2] < RowsRead'[j][2]
  <2>1. CASE j \in 1 .. m
    <3>1. i \in 1 .. m
      BY <1>4, <1>6, <1>8, <1>15, <2>1
    <3>2. RowsRead[i][2] < RowsRead[j][2]
      BY <1>6, <1>15, <2>1, <3>1 DEF InOrderOfKeys, Ascend
    <3> QED BY <1>8, <2>1, <3>1, <3>2
  <2>2. CASE i \in 1 .. m /\ j \in m + 1 .. m + n
    BY <1>3, <1>11, <2>2
  <2>3. CASE i \in m + 1 .. m + n
    <3>1. j \in m + 1 .. m + n /\ i - m < j - m
      BY <1>4, <1>6, <1>8, <1>15, <2>3
    <3>2. page[i - m] < page[j - m]
      BY <1>3, <1>4, <1>11, <2>3, <3>1
    <3> QED BY <1>11, <2>3, <3>1, <3>2
  <2> QED BY <1>8, <1>12, <1>15, <2>1, <2>2, <2>3
<1>16. InOrderOfKeys'
  BY <1>2, <1>8, <1>14, <1>15 DEF InOrderOfKeys, Ascend
<1>17. ASSUME NEW k \in steady[thread.pair], k <= Last(page)
       PROVE  \E i \in DOMAIN RowsRead' : RowsRead'[i][2] = k
  <2>1. k \in live[thread.pair] /\ k \in Nat
    <3>1. thread.pair \in FieldPairs
      BY DEF ExportTypeOK
    <3> QED BY <3>1, <1>17, ExportAssumption DEF ReadSoFar, ExportTypeOK, Keys
  <2>2. CASE k <= thread.after
    <3>1. PICK i \in 1 .. m : RowsRead[i][2] = k
      BY <1>6, <1>17, <2>2 DEF ReadSoFar
    <3>2. i \in 1 .. m + n
      BY <1>4, <1>6
    <3> QED BY <1>8, <3>1, <3>2
  <2>3. CASE k > thread.after
    <3>1. PICK i \in 1 .. n : page[i] = k
      BY <1>3, <1>4, <1>17, <2>1, <2>3
    <3>2. i + m \in m + 1 .. m + n /\ (i + m) - m = i /\ i + m \in 1 .. m + n
      BY <1>4, <1>6
    <3>3. RowsRead'[i + m][2] = page[(i + m) - m]
      BY <1>11, <3>2
    <3>4. RowsRead'[i + m][2] = k
      BY <3>1, <3>2, <3>3
    <3> QED BY <1>8, <3>2, <3>4
  <2> QED BY <1>3, <2>1, <2>2, <2>3
<1>18. ReadSoFar'
  <2>1. ~ReadToEnd'
    BY <1>2 DEF ReadToEnd, Finished
  <2>2. (\A p \in FieldPairs : steady[p] \subseteq live[p])'
    BY <1>2 DEF ReadSoFar
  <2>3. (\A p \in FieldPairs \ textual : p < thread.pair => steady[p] = {})'
    BY <1>2 DEF ReadSoFar
  <2>4. (\A k \in steady[thread.pair] : k <= thread.after => \E i \in DOMAIN RowsRead : RowsRead[i][2] = k)'
    BY <1>2, <1>17
  <2> QED BY <2>1, <2>2, <2>3, <2>4 DEF ReadSoFar
<1> QED BY <1>16, <1>18

LEMMA KeysStep ==
  ExportTypeOK /\ Offers /\ InOrderOfKeys /\ ReadSoFar /\ [ExportNext]_exportVars
    => InOrderOfKeys' /\ ReadSoFar'
<1> SUFFICES ASSUME ExportTypeOK, Offers, InOrderOfKeys, ReadSoFar, [ExportNext]_exportVars
             PROVE  InOrderOfKeys' /\ ReadSoFar'
  OBVIOUS
<1>0. job \in Entry /\ thread \in ThreadState /\ job.split > 0 /\ thread.pair \in FieldPairs
  BY ExportTypes DEF Offers, ThreadState
<1>1. ASSUME NEW mode \in {"single", "batch"}, NEW split \in Splits, NEW table \in Tables,
             NEW text \in SUBSET FieldPairs, StartExport(mode, split, table, text)
      PROVE  InOrderOfKeys' /\ ReadSoFar'
  <2>1. thread = NoThread /\ files = <<>>
    BY <1>1 DEF Offers, StartExport
  <2>2. /\ files' = files /\ thread'.rows = thread.rows /\ thread'.pair = 1 /\ thread'.after = 0
        /\ thread'.found = FALSE /\ thread'.at = "read" /\ steady' = live'
    BY <1>1, <2>1 DEF StartExport, NoThread
  <2>3. RowsRead' = RowsRead
    BY <1>0, <2>2, SameRows
  <2>4. RowsRead = <<>>
    BY <2>1 DEF InOrderOfKeys, NoThread
  <2>5. InOrderOfKeys'
    BY <2>2, <2>3, <2>4 DEF InOrderOfKeys, Ascend
  <2>6. steady' = table /\ table \in [FieldPairs -> SUBSET Keys]
    BY <1>1, ExportAssumption DEF StartExport
  <2>7. \A p \in FieldPairs : ~(p < 1)
    BY ExportAssumption DEF FieldPairs
  <2>8. \A k \in steady'[1] : ~(k <= 0)
    BY <2>6, Starts, ExportAssumption DEF Keys
  <2>9. ~ReadToEnd'
    BY <2>2 DEF ReadToEnd, Finished
  <2>10. ReadSoFar'
    BY <2>2, <2>7, <2>8, <2>9 DEF ReadSoFar
  <2> QED BY <2>5, <2>10
<1>2. ASSUME NEW p \in FieldPairs, NEW k \in Keys, Edit(p, k) PROVE InOrderOfKeys' /\ ReadSoFar'
  <2>1. /\ UNCHANGED <<textual, job, files, thread>>
        /\ \A q \in FieldPairs : steady'[q] \subseteq steady[q]
        /\ \A q \in FieldPairs : steady'[q] \subseteq live'[q]
    <3>1. live \in [FieldPairs -> SUBSET Keys] /\ steady \in [FieldPairs -> SUBSET Keys]
      BY DEF ExportTypeOK
    <3>2. \A q \in FieldPairs : steady[q] \subseteq live[q]
      BY DEF ReadSoFar
    <3>3. /\ live' = [live EXCEPT ![p] = IF k \in @ THEN @ \ {k} ELSE @ \cup {k}]
          /\ steady' = [steady EXCEPT ![p] = @ \ {k}] /\ UNCHANGED <<textual, job, files, thread>>
      BY <1>2 DEF Edit
    <3> QED BY <3>1, <3>2, <3>3
  <2>2. RowsRead' = RowsRead
    BY <1>0, <2>1, SameRows
  <2>3. InOrderOfKeys'
    BY <2>1, <2>2, KeysKept
  <2>4. (ReadToEnd' => ReadToEnd) /\ thread' = thread /\ textual' = textual
    BY <2>1 DEF ReadToEnd, Finished
  <2>5. ReadSoFar'
    BY <1>0, <2>1, <2>2, <2>4 DEF ReadSoFar
  <2> QED BY <2>3, <2>5
<1>3. ASSUME CutFile \/ UNCHANGED <<files, thread>> \/ (files' = files /\ thread'.rows = thread.rows),
             thread'.pair = thread.pair, thread'.after = thread.after, thread'.found = thread.found,
             ReadToEnd' => ReadToEnd, UNCHANGED <<live, steady, textual>>
      PROVE  InOrderOfKeys' /\ ReadSoFar'
  <2>1. RowsRead' = RowsRead
    BY <1>0, <1>3, SameRows
  <2> QED BY <1>3, <2>1, KeysKept, SoFarKept
<1>4. CASE NextPair
  <2>1. /\ thread'.pair = thread.pair + 1 /\ thread'.after = 0 /\ thread'.found = thread.found
        /\ ~thread.found /\ thread'.at = "read" /\ thread'.rows = thread.rows
        /\ UNCHANGED <<live, textual, files, steady>>
    BY <1>0, <1>4 DEF NextPair, Reading, ThreadState
  <2>2. RowsRead' = RowsRead /\ RowsRead = <<>> /\ thread.after = 0
    BY <1>0, <2>1, SameRows DEF InOrderOfKeys
  <2>3. InOrderOfKeys'
    BY <2>1, <2>2 DEF InOrderOfKeys, Ascend
  <2>4. thread.pair \in textual \/ steady[thread.pair] = {}
    <3>1. CASE NextPage = <<>>
      <4>1. \A k \in live[thread.pair] : k <= 0
        BY <1>0, <2>2, <3>1, PageOfKeys
      <4>2. steady[thread.pair] \subseteq live[thread.pair] /\ live[thread.pair] \subseteq Keys
        BY <1>0 DEF ReadSoFar, ExportTypeOK
      <4>3. \A k \in Keys : ~(k <= 0)
        BY ExportAssumption DEF Keys
      <4> QED BY <4>1, <4>2, <4>3
    <3> QED BY <1>4, <3>1 DEF NextPair
  <2>5. \A p \in FieldPairs : p < thread.pair + 1 => p < thread.pair \/ p = thread.pair
    BY <1>0, ExportAssumption DEF FieldPairs
  <2>6. \A p \in FieldPairs \ textual : p < thread.pair + 1 => steady[p] = {}
    BY <2>4, <2>5 DEF ReadSoFar
  <2>7. thread.pair + 1 \in FieldPairs
    BY <1>0, <1>4, ExportAssumption DEF FieldPairs, NextPair
  <2>8. \A k \in steady[thread.pair + 1] : ~(k <= 0)
    BY <2>7, ExportAssumption DEF ExportTypeOK, Keys
  <2>9. ~ReadToEnd'
    BY <2>1 DEF ReadToEnd, Finished
  <2>10. ReadSoFar'
    BY <2>1, <2>6, <2>8, <2>9 DEF ReadSoFar
  <2> QED BY <2>3, <2>10
<1>5. CASE thread.at = "read" /\ Fail
  <2>1. /\ thread'.pair = thread.pair /\ thread'.after = thread.after /\ thread'.found = thread.found
        /\ thread'.rows = thread.rows /\ thread'.at = "ended" /\ job'.status = "error"
        /\ UNCHANGED <<live, textual, files, steady>>
    BY <1>0, <1>5 DEF Fail, Entry, ThreadState
  <2>2. ~ReadToEnd'
    BY <2>1 DEF ReadToEnd, Finished
  <2> QED BY <1>3, <2>1, <2>2
<1>6. CASE CutFile
  <2>1. /\ thread'.pair = thread.pair /\ thread'.after = thread.after /\ thread'.found = thread.found
        /\ UNCHANGED <<live, textual, job, steady>> /\ thread.at \in {"read", "rest"}
        /\ thread'.at = IF thread.at = "read" THEN "ready" ELSE "last"
    BY <1>0, <1>6 DEF CutFile, ThreadState
  <2>2. ReadToEnd' => ReadToEnd
    BY <2>1 DEF ReadToEnd, Finished
  <2> QED BY <1>3, <1>6, <2>1, <2>2
<1>7. CASE OfferFile
  <2>1. /\ thread'.pair = thread.pair /\ thread'.after = thread.after /\ thread'.found = thread.found
        /\ thread'.rows = thread.rows /\ UNCHANGED <<live, textual, files, steady>>
        /\ thread.at \in {"ready", "last"} /\ thread'.at = IF thread.at = "ready" THEN "read" ELSE "rest"
    BY <1>0, <1>7 DEF OfferFile, ThreadState
  <2>2. ReadToEnd' => ReadToEnd
    BY <2>1 DEF ReadToEnd, Finished
  <2> QED BY <1>3, <2>1, <2>2
<1>8. CASE EndOfPair
  <2>1. /\ thread'.pair = thread.pair /\ thread'.after = thread.after /\ thread'.found = thread.found
        /\ thread'.rows = thread.rows /\ UNCHANGED <<live, textual, files, steady>>
    BY <1>0, <1>8 DEF EndOfPair, ThreadState
  <2>2. RowsRead' = RowsRead
    BY <1>0, <2>1, SameRows
  <2>3. InOrderOfKeys'
    BY <2>1, <2>2, KeysKept
  <2>4. thread.found \/ thread.pair = LastPair
    BY <1>8 DEF EndOfPair
  <2>5. thread.pair \notin textual => \A k \in steady[thread.pair] : k <= thread.after
    <3>1. NextPage = <<>> => \A k \in live[thread.pair] : k <= thread.after
      BY <1>0, PageOfKeys
    <3>2. steady[thread.pair] \subseteq live[thread.pair]
      BY <1>0 DEF ReadSoFar
    <3> QED BY <1>8, <3>1, <3>2 DEF EndOfPair
  <2>6. ReadSoFar'
    BY <2>1, <2>2, <2>4, <2>5 DEF ReadSoFar
  <2> QED BY <2>3, <2>6
<1>9. CASE BatchDone
  <2>1. /\ thread'.pair = thread.pair /\ thread'.after = thread.after /\ thread'.found = thread.found
        /\ thread'.rows = thread.rows /\ UNCHANGED <<live, textual, files, steady>> /\ thread.at = "rest"
    BY <1>0, <1>9 DEF BatchDone, ThreadState
  <2> QED BY <1>3, <2>1 DEF ReadToEnd
<1>10. CASE WriteRow
  <2>1. UNCHANGED <<live, textual, files, thread, steady>> /\ thread.at = "write"
    BY <1>10 DEF WriteRow
  <2> QED BY <1>3, <2>1 DEF ReadToEnd
<1>11. CASE SayDone
  <2>1. /\ thread'.pair = thread.pair /\ thread'.after = thread.after /\ thread'.found = thread.found
        /\ thread'.rows = thread.rows /\ UNCHANGED <<live, textual, files, steady>> /\ thread.at = "write"
    BY <1>0, <1>11 DEF SayDone, ThreadState
  <2> QED BY <1>3, <2>1 DEF ReadToEnd
<1>12. CASE SetContent
  <2>1. /\ thread'.pair = thread.pair /\ thread'.after = thread.after /\ thread'.found = thread.found
        /\ thread'.rows = thread.rows /\ UNCHANGED <<live, textual, files, steady>> /\ thread.at = "content"
    BY <1>0, <1>12 DEF SetContent, ThreadState
  <2> QED BY <1>3, <2>1 DEF ReadToEnd
<1>13. CASE ProcessStops
  <2>1. /\ files' = <<>> /\ thread'.rows = <<>> /\ thread'.pair = 1 /\ thread'.after = 0
        /\ thread'.found = FALSE /\ thread'.at = "ended" /\ job'.status = "gone"
        /\ UNCHANGED <<live, textual, steady>>
    BY <1>13 DEF ProcessStops, NoThread, NoJob
  <2>2. RowsRead' = <<>>
    <3>1. Stored' = Joined(FileRows', 0)
      BY <2>1 DEF Stored
    <3>2. Joined(FileRows', 0) = <<>>
      BY DEF Joined, FlattenSeq
    <3> QED BY <2>1, <3>1, <3>2 DEF RowsRead
  <2>3. InOrderOfKeys'
    BY <2>1, <2>2 DEF InOrderOfKeys, Ascend
  <2>4. \A p \in FieldPairs : ~(p < 1)
    BY ExportAssumption DEF FieldPairs
  <2>5. \A k \in steady[1] : ~(k <= 0)
    BY Starts, ExportAssumption DEF ExportTypeOK, Keys
  <2>6. ~ReadToEnd'
    BY <2>1 DEF ReadToEnd, Finished
  <2>7. ReadSoFar'
    BY <2>1, <2>4, <2>5, <2>6 DEF ReadSoFar
  <2> QED BY <2>3, <2>7
<1>14. CASE UNCHANGED exportVars
  <2>1. UNCHANGED <<live, textual, files, steady, thread, job>>
    BY <1>14 DEF exportVars
  <2>2. ReadToEnd' => ReadToEnd
    BY <2>1 DEF ReadToEnd, Finished
  <2> QED BY <1>3, <2>1, <2>2
<1>15. ReadRows => InOrderOfKeys' /\ ReadSoFar'
  BY KeysRead
<1> QED BY <1>1, <1>2, <1>4, <1>5, <1>6, <1>7, <1>8, <1>9, <1>10, <1>11, <1>12, <1>13, <1>14, <1>15
        DEF ExportNext, ThreadStep, SearchFails, NoRows, Reading

\* How many rows the first files have.
LEMMA FilesGrow ==
  ASSUME ExportTypeOK
  PROVE  /\ \A n \in 0 .. Len(files) : Len(Joined(FileRows, n)) \in Nat
         /\ Len(Stored) \in Nat /\ Stored = Joined(FileRows, Len(files))
         /\ \A n \in 0 .. Len(files) : n < Len(files) =>
              Len(Joined(FileRows, n)) <= Len(Joined(FileRows, n + 1))
<1>1. \A n \in 0 .. Len(files) : Joined(FileRows, n) \in Seq(Row)
  BY JoinedFiles
<1>2. \A n \in 0 .. Len(files) : Len(Joined(FileRows, n)) \in Nat
  BY <1>1
<1>3. Stored \in Seq(Row) /\ Len(Stored) \in Nat
  BY JoinedFiles
<1>4. ASSUME NEW n \in 0 .. Len(files), n < Len(files)
      PROVE  Len(Joined(FileRows, n)) <= Len(Joined(FileRows, n + 1))
  <2>1. n + 1 \in DOMAIN files /\ files \in Seq(File)
    BY <1>4, ExportTypes, JoinedFiles
  <2>2. files[n + 1].rows \in Seq(Row)
    <3>1. files[n + 1] \in File
      BY <2>1
    <3> QED BY <3>1 DEF File
  <2>3. Joined(FileRows, n + 1) = Joined(FileRows, n) \o files[n + 1].rows
    BY <1>4, JoinedFiles
  <2> DEFINE some == Joined(FileRows, n)
             more == files[n + 1].rows
  <2>4. some \in Seq(Row) /\ more \in Seq(Row) /\ Joined(FileRows, n + 1) = some \o more
    BY <1>1, <2>2, <2>3
  <2> HIDE DEF some, more
  <2>5. Len(some \o more) = Len(some) + Len(more) /\ Len(some) \in Nat /\ Len(more) \in Nat
    BY <2>4, ConcatProperties
  <2>6. Len(some) <= Len(some \o more)
    BY <2>5
  <2> QED BY <2>4, <2>6 DEF some
<1> QED BY <1>2, <1>3, <1>4 DEF Stored

LEMMA NumberedStart == ExportInit => Numbered
<1> SUFFICES ASSUME ExportInit PROVE Numbered
  OBVIOUS
<1>1. ExportTypeOK
  BY ExportTypeStart
<1>2. /\ files = <<>> /\ thread.stored = 0 /\ thread.rows = <<>> /\ thread.at = "none" /\ job.mode = "none"
      /\ DOMAIN files = {}
  BY DEF ExportInit, NoThread, NoJob
<1>3. Stored = <<>>
  BY <1>1, <1>2, JoinedFiles DEF Stored
<1> QED BY <1>2, <1>3 DEF Numbered

\* The demands on the files where none is stored.
LEMMA NumberedKept ==
  ASSUME ExportTypeOK, Numbered, files' = files, thread'.stored = thread.stored,
         thread'.at \in {"read", "ready"} \/ (thread'.at = "rest" /\ thread'.rows # <<>>) =>
           thread.at \in {"read", "ready"} \/ (thread.at = "rest" /\ thread.rows # <<>>),
         job'.split = job.split,
         thread'.at \in {"rest", "last"} => Len(thread'.rows) < job.split,
         thread'.at = "last" => thread'.rows = <<>>,
         job'.mode = "batch" => job'.processed <= Len(Joined(FileRows, job'.ready))
  PROVE  Numbered'
<1>1. FileRows' = FileRows /\ Stored' = Stored
  BY DEF FileRows, Stored, Joined
<1>2. \A n : Joined(FileRows', n) = Joined(FileRows, n)
  BY <1>1
<1>3. ASSUME NEW i \in DOMAIN files'
      PROVE  (/\ files[i].first = IF i = 1 THEN 1 ELSE files[i - 1].last + 1
              /\ files[i].last - files[i].first + 1 = Len(files[i].rows)
              /\ files[i].last = Len(Joined(FileRows, i))
              /\ i < Len(files) \/ thread.at \in {"read", "ready"} \/ (thread.at = "rest" /\ thread.rows # <<>>)
                   => Len(files[i].rows) = job.split)'
  BY <1>2, <1>3 DEF Numbered
<1>4. (thread.stored = Len(Stored))'
  BY <1>1 DEF Numbered
<1>5. (job.mode = "batch" => job.processed <= Len(Joined(FileRows, job.ready)))'
  BY <1>2
<1> QED BY <1>3, <1>4, <1>5 DEF Numbered

LEMMA NumberedCut ==
  ASSUME ExportTypeOK, Offers, Numbered, CutFile
  PROVE  Numbered'
<1>0. PICK len \in Nat : len = Len(files)
  BY JoinedFiles
<1>1. job.split > 0 /\ job.split \in Nat /\ thread.stored \in Nat /\ Len(thread.rows) \in Nat /\ job.ready \in Nat
  BY DEF Offers, ExportTypeOK
<1>2. PICK n \in Nat \ {0} :
        /\ n <= Len(thread.rows) /\ n <= job.split
        /\ Len(thread.rows) >= job.split => n = job.split
        /\ Len(thread.rows) < job.split => n = Len(thread.rows)
        /\ files' = Append(files, [rows |-> SubSeq(thread.rows, 1, n),
                                   first |-> thread.stored + 1, last |-> thread.stored + n])
        /\ thread'.stored = thread.stored + n
        /\ SubSeq(thread.rows, 1, n) \in Seq(Row) /\ thread'.rows \in Seq(Row)
        /\ Len(SubSeq(thread.rows, 1, n)) = n /\ Len(thread'.rows) = Len(thread.rows) - n
        /\ n = Min({job.split, Len(thread.rows)})
  BY <1>1, CutOff
<1> DEFINE file == [rows |-> SubSeq(thread.rows, 1, n),
                    first |-> thread.stored + 1, last |-> thread.stored + n]
<1>3. /\ thread.at \in {"read", "rest"} /\ thread'.at = (IF thread.at = "read" THEN "ready" ELSE "last")
      /\ thread.at = "read" => n = job.split
      /\ job' = job
  <2>1. thread \in ThreadState
    BY ExportTypes
  <2> QED BY <1>2, <2>1 DEF CutFile, ThreadState
<1>4. /\ file \in File /\ file.first = thread.stored + 1 /\ file.last = thread.stored + n
      /\ Len(file.rows) = n /\ file.rows \in Seq(Row)
  <2>1. \A a, b \in Nat : a + 1 \in Nat /\ a + b \in Nat
    OBVIOUS
  <2>2. thread.stored + 1 \in Nat /\ thread.stored + n \in Nat
    BY <1>1, <1>2, <2>1
  <2>3. /\ file.first = thread.stored + 1 /\ file.last = thread.stored + n
        /\ file.rows = SubSeq(thread.rows, 1, n)
    OBVIOUS
  <2>4. file \in File
    BY <1>2, <2>2 DEF File
  <2> QED BY <1>2, <2>3, <2>4
<1>5. files' = Append(files, file)
  BY <1>2
<1> HIDE DEF file
<1>6. /\ Len(files') = len + 1 /\ DOMAIN files' = 1 .. len + 1 /\ len \in Nat /\ DOMAIN files = 1 .. len
      /\ \A m \in 0 .. len : Joined(FileRows, m)' = Joined(FileRows, m)
      /\ Stored' = Stored \o file.rows
      /\ \A i \in 1 .. len : files'[i] = files[i]
      /\ files'[len + 1] = file
  <2>1. files \in Seq(File) /\ files' \in Seq(File) /\ Len(files') = len + 1
    BY <1>0, <1>4, <1>5, ExportTypes, FileAppended
  <2>2. DOMAIN files' = 1 .. len + 1 /\ len \in Nat /\ DOMAIN files = 1 .. len
    BY <1>0, <2>1
  <2>3. /\ \A m \in 0 .. len : Joined(FileRows, m)' = Joined(FileRows, m)
        /\ Stored' = Stored \o file.rows
    BY <1>0, <1>4, <1>5, FileAppended
  <2>4. /\ \A i \in DOMAIN files : files'[i] = files[i]
        /\ files'[len + 1] = file
    BY <1>0, <1>4, <1>5, FileAppended
  <2> QED BY <2>1, <2>2, <2>3, <2>4
<1>7. Len(Stored') = thread.stored + n
  <2>1. Stored \in Seq(Row) /\ Len(Stored) = thread.stored
    BY JoinedFiles DEF Numbered
  <2>2. Len(Stored \o file.rows) = Len(Stored) + Len(file.rows)
    BY <1>4, <2>1, ConcatProperties
  <2> QED BY <1>4, <1>6, <2>1, <2>2
<1>8. Stored' = Joined(FileRows', len + 1)
  BY <1>6 DEF Stored
<1>9. \A i \in 1 .. len : Len(files[i].rows) = job.split
  <2>1. thread.at = "read" \/ (thread.at = "rest" /\ thread.rows # <<>>)
    BY <1>2, <1>3
  <2> QED BY <1>0, <1>6, <2>1 DEF Numbered
<1>10. ASSUME NEW i \in 1 .. len
       PROVE  /\ files'[i].first = IF i = 1 THEN 1 ELSE files'[i - 1].last + 1
              /\ files'[i].last - files'[i].first + 1 = Len(files'[i].rows)
              /\ files'[i].last = Len(Joined(FileRows, i)')
              /\ Len(files'[i].rows) = job.split
  <2>1. files'[i] = files[i] /\ i \in 0 .. len /\ (i # 1 => i - 1 \in 1 .. len)
    BY <1>6
  <2>2. i # 1 => files'[i - 1] = files[i - 1]
    BY <1>6, <2>1
  <2>3. Joined(FileRows, i)' = Joined(FileRows, i)
    BY <1>6, <2>1
  <2> QED BY <1>0, <1>6, <1>9, <2>1, <2>2, <2>3 DEF Numbered
<1>11. /\ file.first = IF len + 1 = 1 THEN 1 ELSE files'[len].last + 1
       /\ file.last - file.first + 1 = Len(file.rows)
       /\ file.last = Len(Joined(FileRows, len + 1)')
  <2>1. thread.stored = Len(Joined(FileRows, len))
    BY <1>0 DEF Numbered, Stored
  <2>2. CASE len = 0
    <3>1. Len(Joined(FileRows, len)) = 0
      BY <2>2, JoinedFiles
    <3>2. thread.stored = 0
      BY <2>1, <3>1
    <3>3. thread.stored + n - (thread.stored + 1) + 1 = n /\ len + 1 = 1
      BY <1>1, <1>2, <2>2
    <3>4. file.last = Len(Joined(FileRows, len + 1)')
      BY <1>4, <1>7, <1>8
    <3> QED BY <1>4, <3>2, <3>3, <3>4
  <2>3. CASE len # 0
    <3>1. files'[len].last = Len(Joined(FileRows, len))
      <4>1. len \in 1 .. len /\ len \in DOMAIN files
        BY <1>6, <2>3
      <4>2. files[len].last = Len(Joined(FileRows, len))
        BY <4>1 DEF Numbered
      <4> QED BY <1>6, <4>1, <4>2
    <3>2. thread.stored + n - (thread.stored + 1) + 1 = n /\ len + 1 # 1
      BY <1>1, <1>2, <1>6, <2>3
    <3>3. file.last = Len(Joined(FileRows, len + 1)')
      BY <1>4, <1>7, <1>8
    <3> QED BY <1>4, <2>1, <3>1, <3>2, <3>3
  <2> QED BY <2>2, <2>3
<1>12. (\A i \in DOMAIN files :
          /\ files[i].first = IF i = 1 THEN 1 ELSE files[i - 1].last + 1
          /\ files[i].last - files[i].first + 1 = Len(files[i].rows)
          /\ files[i].last = Len(Joined(FileRows, i))
          /\ i < Len(files) \/ thread.at \in {"read", "ready"} \/ (thread.at = "rest" /\ thread.rows # <<>>)
               => Len(files[i].rows) = job.split)'
  <2> SUFFICES ASSUME NEW i \in 1 .. len + 1
               PROVE  /\ files'[i].first = IF i = 1 THEN 1 ELSE files'[i - 1].last + 1
                      /\ files'[i].last - files'[i].first + 1 = Len(files'[i].rows)
                      /\ files'[i].last = Len(Joined(FileRows, i)')
                      /\ i < Len(files') \/ thread'.at \in {"read", "ready"}
                           \/ (thread'.at = "rest" /\ thread'.rows # <<>>)
                         => Len(files'[i].rows) = job'.split
    BY <1>6
  <2>1. CASE i \in 1 .. len
    BY <1>3, <1>10, <2>1
  <2>2. CASE i = len + 1
    <3>1. files'[i] = file /\ i - 1 = len /\ ~(i < Len(files'))
      BY <1>6, <2>2
    <3>2. thread'.at \in {"read", "ready"} \/ (thread'.at = "rest" /\ thread'.rows # <<>>)
            => Len(file.rows) = job.split
      BY <1>3, <1>4
    <3>3. (Joined(FileRows, i))' = (Joined(FileRows, len + 1))'
      BY <2>2
    <3>4. files'[i].first = IF i = 1 THEN 1 ELSE files'[i - 1].last + 1
      BY <1>11, <2>2, <3>1
    <3>5. /\ files'[i].last - files'[i].first + 1 = Len(files'[i].rows)
          /\ files'[i].last = Len(Joined(FileRows, i)')
      BY <1>11, <3>1, <3>3
    <3> QED BY <1>3, <3>1, <3>2, <3>4, <3>5
  <2> QED BY <1>6, <2>1, <2>2
<1>13. /\ thread'.at \in {"rest", "last"} => Len(thread'.rows) < job.split
       /\ thread'.at = "last" => thread'.rows = <<>>
  <2>1. CASE thread.at = "read"
    BY <1>3, <2>1
  <2>2. CASE thread.at = "rest"
    <3>1. Len(thread.rows) < job.split
      BY <2>2 DEF Numbered
    <3>2. Len(thread'.rows) = 0
      BY <1>1, <1>2, <3>1
    <3>3. thread'.rows = <<>>
      BY <1>2, <3>2
    <3> QED BY <1>1, <3>2, <3>3
  <2> QED BY <1>3, <2>1, <2>2
<1>14. job.mode = "batch" => job.processed <= Len(Joined(FileRows, job.ready)')
  <2>1. job.ready \in 0 .. len
    BY <1>0, <1>1, <1>3, <1>6 DEF Offers
  <2>2. Joined(FileRows, job.ready)' = Joined(FileRows, job.ready)
    BY <1>3, <1>6, <2>1
  <2> QED BY <1>3, <2>2 DEF Numbered
<1>15. (job.mode = "batch" => job.processed <= Len(Joined(FileRows, job.ready)))'
  BY <1>3, <1>14
<1>16. (thread.stored = Len(Stored))'
  BY <1>2, <1>7
<1>17. (/\ thread.at \in {"rest", "last"} => Len(thread.rows) < job.split
        /\ thread.at = "last" => thread.rows = <<>>)'
  BY <1>3, <1>13
<1> QED BY <1>12, <1>15, <1>16, <1>17 DEF Numbered

LEMMA NumberedStep ==
  ExportTypeOK /\ Offers /\ Numbered /\ [ExportNext]_exportVars => Numbered'
<1> SUFFICES ASSUME ExportTypeOK, Offers, Numbered, [ExportNext]_exportVars PROVE Numbered'
  OBVIOUS
<1>0. /\ job \in Entry /\ thread \in ThreadState /\ job.split \in Nat /\ job.ready \in Nat
      /\ thread.rows \in Seq(Row) /\ Len(thread.rows) \in Nat /\ Len(files) \in Nat
      /\ job.processed \in Nat
  BY ExportTypes DEF Entry, ThreadState
<1>1. job.mode = "batch" => job.processed <= Len(Joined(FileRows, job.ready))
  BY DEF Numbered
<1>2. ASSUME NEW mode \in {"single", "batch"}, NEW split \in Splits, NEW table \in Tables,
             NEW text \in SUBSET FieldPairs, StartExport(mode, split, table, text)
      PROVE  Numbered'
  <2>1. files = <<>> /\ thread = NoThread
    BY <1>2 DEF Offers, StartExport
  <2>2. /\ files' = <<>> /\ thread'.stored = 0 /\ thread'.at = "read" /\ thread'.rows = <<>>
        /\ job'.processed = 0 /\ job'.ready = 0 /\ DOMAIN files' = {}
    BY <1>2, <2>1 DEF StartExport, NoThread, NoJob
  <2>3. Joined(FileRows', 0) = <<>> /\ Stored' = Joined(FileRows', 0)
    BY <2>2 DEF Joined, FlattenSeq, Stored
  <2> QED BY <2>2, <2>3 DEF Numbered
<1>3. CASE CutFile
  BY <1>3, NumberedCut
<1>4. CASE ReadRows
  <2>1. /\ files' = files /\ thread'.at = "read" /\ thread.at = "read" /\ thread'.stored = thread.stored
        /\ job'.split = job.split /\ job'.mode = job.mode /\ (job.mode = "batch" => job' = job)
    BY <1>0, <1>4 DEF ReadRows, Reading, Entry, ThreadState
  <2> QED BY <1>1, <2>1, NumberedKept
<1>5. CASE NextPair
  <2>1. /\ files' = files /\ thread'.at = "read" /\ thread.at = "read" /\ thread'.stored = thread.stored
        /\ job'.split = job.split /\ job'.mode = job.mode /\ (job.mode = "batch" => job' = job)
    BY <1>0, <1>5 DEF NextPair, Reading, Entry, ThreadState
  <2> QED BY <1>1, <2>1, NumberedKept
<1>6. CASE thread.at = "read" /\ Fail
  <2>1. /\ files' = files /\ thread'.at = "ended" /\ thread'.stored = thread.stored
        /\ job'.split = job.split /\ job'.mode = job.mode /\ job'.processed = job.processed
        /\ job'.ready = job.ready
    BY <1>0, <1>6 DEF Fail, Entry, ThreadState
  <2> QED BY <1>1, <2>1, NumberedKept
<1>7. CASE OfferFile
  <2>1. /\ files' = files /\ thread.at \in {"ready", "last"} /\ thread'.stored = thread.stored
        /\ thread'.at = (IF thread.at = "ready" THEN "read" ELSE "rest") /\ thread'.rows = thread.rows
        /\ job'.split = job.split /\ job'.mode = job.mode /\ job'.ready = Len(files)
        /\ job'.processed = IF thread.at = "ready" THEN thread.stored ELSE job.processed
    BY <1>0, <1>7 DEF OfferFile, Entry, ThreadState
  <2>2. thread.at = "last" => thread.rows = <<>> /\ Len(thread.rows) < job.split
    BY DEF Numbered
  <2>3. job.mode = "batch" => job'.processed <= Len(Joined(FileRows, Len(files)))
    <3>1. CASE thread.at = "ready"
      <4>1. thread.stored = Len(Joined(FileRows, Len(files))) /\ thread.stored \in Nat
        BY <1>0 DEF Numbered, Stored, ThreadState
      <4> QED BY <2>1, <3>1, <4>1
    <3>2. CASE thread.at = "last" /\ job.mode = "batch"
      <4>1. job.ready \in 0 .. Len(files) /\ job.ready < Len(files) /\ Len(files) = job.ready + 1
        BY <1>0, <3>2 DEF Offers
      <4>2. Len(Joined(FileRows, job.ready)) <= Len(Joined(FileRows, job.ready + 1))
        BY <4>1, FilesGrow
      <4>3. Len(Joined(FileRows, job.ready)) \in Nat /\ Len(Joined(FileRows, job.ready + 1)) \in Nat
        <5>1. job.ready + 1 \in 0 .. Len(files)
          BY <1>0, <4>1
        <5> QED BY <4>1, <5>1, FilesGrow
      <4> QED BY <1>0, <1>1, <2>1, <3>2, <4>1, <4>2, <4>3
    <3> QED BY <2>1, <3>1, <3>2
  <2> QED BY <2>1, <2>2, <2>3, NumberedKept
<1>8. CASE EndOfPair
  <2>1. /\ files' = files /\ thread.at = "read" /\ thread'.stored = thread.stored
        /\ thread'.at = (IF job.mode = "batch" THEN "rest" ELSE "write") /\ thread'.rows = thread.rows
        /\ job'.split = job.split /\ job'.mode = job.mode /\ (job.mode = "batch" => job' = job)
        /\ (job.mode = "batch" => Len(thread.rows) < job.split)
    BY <1>0, <1>8 DEF EndOfPair, Reading, Entry, ThreadState
  <2> QED BY <1>1, <2>1, NumberedKept
<1>9. CASE BatchDone
  <2>1. /\ files' = files /\ thread.at = "rest" /\ thread'.at = "ended" /\ thread'.stored = thread.stored
        /\ job'.split = job.split /\ job'.mode = job.mode /\ job'.processed = thread.stored
        /\ job'.ready = job.ready
    BY <1>0, <1>9 DEF BatchDone, Entry, ThreadState
  <2>2. job.ready = Len(files)
    BY <1>0, <2>1 DEF Offers
  <2>3. thread.stored = Len(Joined(FileRows, Len(files))) /\ thread.stored \in Nat
    BY <1>0 DEF Numbered, Stored, ThreadState
  <2>4. job'.processed <= Len(Joined(FileRows, job'.ready))
    BY <2>1, <2>2, <2>3
  <2> QED BY <2>1, <2>4, NumberedKept
<1>10. CASE WriteRow
  <2>1. /\ files' = files /\ thread' = thread /\ thread.at = "write" /\ job'.split = job.split
        /\ job'.mode = job.mode
    BY <1>0, <1>10 DEF WriteRow, Entry
  <2>2. job'.mode # "batch"
    BY <2>1 DEF Offers
  <2> QED BY <2>1, <2>2, NumberedKept
<1>11. CASE SayDone
  <2>1. /\ files' = files /\ thread.at = "write" /\ thread'.at = "content" /\ thread'.stored = thread.stored
        /\ job'.split = job.split /\ job'.mode = job.mode
    BY <1>0, <1>11 DEF SayDone, Entry, ThreadState
  <2>2. job'.mode # "batch"
    BY <2>1 DEF Offers
  <2> QED BY <2>1, <2>2, NumberedKept
<1>12. CASE SetContent
  <2>1. /\ files' = files /\ thread.at = "content" /\ thread'.at = "ended" /\ thread'.stored = thread.stored
        /\ job'.split = job.split /\ job'.mode = job.mode
    BY <1>0, <1>12 DEF SetContent, Entry, ThreadState
  <2>2. job'.mode # "batch"
    BY <2>1 DEF Offers
  <2> QED BY <2>1, <2>2, NumberedKept
<1>13. CASE ProcessStops
  <2>1. /\ files' = <<>> /\ thread'.stored = 0 /\ thread'.at = "ended" /\ thread'.rows = <<>>
        /\ job'.mode = "none" /\ DOMAIN files' = {}
    BY <1>13 DEF ProcessStops, NoThread, NoJob
  <2>2. Joined(FileRows', 0) = <<>> /\ Stored' = Joined(FileRows', 0)
    BY <2>1 DEF Joined, FlattenSeq, Stored
  <2> QED BY <2>1, <2>2 DEF Numbered
<1>14. ASSUME UNCHANGED <<job, files, thread>> PROVE Numbered'
  BY <1>1, <1>14, NumberedKept DEF Numbered
<1>15. \A p \in FieldPairs, k \in Keys : Edit(p, k) => Numbered'
  BY <1>14 DEF Edit
<1>16. UNCHANGED exportVars => Numbered'
  BY <1>14 DEF exportVars
<1> QED BY <1>2, <1>3, <1>4, <1>5, <1>6, <1>7, <1>8, <1>9, <1>10, <1>11, <1>12, <1>13, <1>15, <1>16
        DEF ExportNext, ThreadStep, SearchFails, NoRows, Reading

\* The thread keeps the files and the rows it holds in the order of the index, none twice,
\* and the job offers a beginning of them (_run_export_job, _run_chunked_export_async).
THEOREM ExportCorrect == ExportSpec => []ExportInv
<1>1. ExportInit => ExportInv
  BY ExportTypeStart, OffersStart, KeysStart, NumberedStart DEF ExportInv
<1>2. ExportInv /\ [ExportNext]_exportVars => ExportInv'
  <2>1. ExportInv => ExportTypeOK /\ Offers /\ InOrderOfKeys /\ ReadSoFar /\ Numbered /\ job.split > 0
    BY DEF ExportInv, Offers
  <2> QED BY <2>1, ExportTypeStep, OffersStep, KeysStep, NumberedStep DEF ExportInv
<1> QED BY <1>1, <1>2, PTL DEF ExportSpec

\* What is offered is what the files have, or the content: the first of the rows read, and
\* all of them once the export is done.
LEMMA OfferedIs ==
  ASSUME ExportInv
  PROVE  /\ Offered \in Seq(Row) /\ Len(Offered) \in Nat /\ DOMAIN Offered = 1 .. Len(Offered)
         /\ Len(Offered) <= Len(RowsRead)
         /\ \A i \in 1 .. Len(Offered) : Offered[i] = RowsRead[i]
         /\ Finished => Offered = RowsRead
         /\ job.mode = "batch" => Offered = Joined(FileRows, job.ready)
<1>1. ExportTypeOK /\ Offers /\ job \in Entry /\ thread \in ThreadState
  BY ExportTypes DEF ExportInv
<1>2. /\ job.csv \in Seq(Row) /\ thread.rows \in Seq(Row) /\ job.ready \in Nat /\ Len(files) \in Nat
      /\ Stored \in Seq(Row) /\ files \in Seq(File)
  BY <1>1, JoinedFiles, ExportTypes DEF Entry, ThreadState
<1>3. job.ready \in 0 .. Len(files) /\ (Len(files) = job.ready \/ Len(files) = job.ready + 1)
  BY <1>1, <1>2 DEF Offers
<1>4. Offered = job.csv \o Joined(FileRows, job.ready)
  <2>1. [i \in 1 .. job.ready |-> files[i].rows] = [i \in 1 .. job.ready |-> FileRows[i]]
    <3>1. \A i \in 1 .. job.ready : i \in DOMAIN files
      BY <1>2, <1>3
    <3> QED BY <3>1 DEF FileRows
  <2> QED BY <2>1 DEF Offered, Joined
<1>5. Joined(FileRows, job.ready) \in Seq(Row)
  BY <1>1, <1>3, JoinedFiles
<1>6. \A s \in Seq(Row) : s \o <<>> = s /\ <<>> \o s = s
  OBVIOUS
<1>7. \A s, t \in Seq(Row) : /\ s \o t \in Seq(Row) /\ Len(s) <= Len(s \o t)
                             /\ \A i \in 1 .. Len(s) : (s \o t)[i] = s[i]
  <2> TAKE s, t \in Seq(Row)
  <2>1. /\ s \o t \in Seq(Row) /\ Len(s \o t) = Len(s) + Len(t) /\ Len(s) \in Nat /\ Len(t) \in Nat
        /\ \A i \in 1 .. Len(s) + Len(t) : (s \o t)[i] = IF i <= Len(s) THEN s[i] ELSE t[i - Len(s)]
    BY ConcatProperties
  <2> QED BY <2>1
<1>8. \A s \in Seq(Row) : Len(s) \in Nat /\ DOMAIN s = 1 .. Len(s)
  OBVIOUS
<1>9. RowsRead \in Seq(Row) /\ RowsRead = Stored \o thread.rows
  BY <1>2, <1>7 DEF RowsRead
<1>10. CASE job.mode = "batch"
  <2>1. Offered = Joined(FileRows, job.ready)
    BY <1>1, <1>4, <1>5, <1>6, <1>10 DEF Offers
  <2>2. CASE Len(files) = job.ready
    <3>1. Offered = Stored
      BY <2>1, <2>2 DEF Stored
    <3>2. Finished => RowsRead = Stored
      BY <1>1, <1>2, <1>6, <1>9, <1>10 DEF Offers
    <3> QED BY <1>2, <1>7, <1>8, <1>9, <2>1, <3>1, <3>2
  <2>3. CASE Len(files) = job.ready + 1
    <3>1. PICK more \in Seq(Row) : Stored = Joined(FileRows, job.ready) \o more
      <4>1. job.ready < Len(files) /\ job.ready + 1 \in DOMAIN files
        BY <1>2, <1>3, <2>3
      <4>2. Stored = Joined(FileRows, job.ready) \o files[job.ready + 1].rows
        BY <1>1, <1>3, <2>3, <4>1, JoinedFiles DEF Stored
      <4>3. files[job.ready + 1].rows \in Seq(Row)
        <5>1. files[job.ready + 1] \in File
          BY <1>2, <4>1
        <5> QED BY <5>1 DEF File
      <4> QED BY <4>2, <4>3
    <3>2. RowsRead = Offered \o (more \o thread.rows)
      <4>1. RowsRead = (Offered \o more) \o thread.rows
        BY <1>9, <2>1, <3>1
      <4>2. Offered \in Seq(Row)
        BY <1>5, <2>1
      <4>3. (Offered \o more) \o thread.rows = Offered \o (more \o thread.rows)
        BY <1>2, <4>2, ThreeLists, Zenon
      <4> QED BY <4>1, <4>3
    <3>3. more \o thread.rows \in Seq(Row)
      BY <1>2, <1>7
    <3>4. ~Finished
      BY <1>1, <1>2, <2>3 DEF Offers, Finished
    <3> QED BY <1>5, <1>7, <1>8, <2>1, <3>2, <3>3, <3>4
  <2> QED BY <1>3, <2>2, <2>3
<1>11. CASE job.mode # "batch"
  <2>1. files = <<>> /\ job.ready = 0
    BY <1>1, <1>2, <1>3, <1>11 DEF Offers
  <2>2. Joined(FileRows, 0) = <<>> /\ Stored = <<>>
    BY <1>1, <2>1, JoinedFiles DEF Stored
  <2>3. Offered = job.csv /\ RowsRead = thread.rows
    BY <1>2, <1>4, <1>6, <1>9, <2>1, <2>2
  <2>4. job.csv = thread.rows \/ job.csv = <<>>
    BY <1>1 DEF Offers
  <2>5. Finished => job.csv = thread.rows
    BY <1>1, <1>11 DEF Offers, Finished
  <2>6. Len(<<>>) = 0 /\ \A i : i \notin 1 .. 0
    OBVIOUS
  <2>7. /\ Len(Offered) <= Len(RowsRead) /\ \A i \in 1 .. Len(Offered) : Offered[i] = RowsRead[i]
    <3>1. CASE job.csv = thread.rows
      BY <1>2, <1>8, <2>3, <3>1
    <3>2. CASE job.csv = <<>>
      BY <1>2, <1>8, <2>3, <2>6, <3>2
    <3> QED BY <2>4, <3>1, <3>2
  <2> QED BY <1>2, <1>8, <1>11, <2>3, <2>5, <2>7
<1> QED BY <1>10, <1>11

\* While rows enter and leave the index under the paging, an export offers no row twice,
\* all of one pair and in order, and one that is done has every row that was there all the
\* time (_run_export_job, _run_chunked_export_async).
THEOREM ExportedRowsAreOnce == ExportSpec => []EveryRowOnce
<1>1. ASSUME ExportInv PROVE EveryRowOnce
  <2>1. /\ ExportTypeOK /\ InOrderOfKeys /\ ReadSoFar /\ Offers /\ thread.pair \in FieldPairs
        /\ FieldPairs \subseteq Nat /\ LastPair \in Nat
    BY <1>1, ExportAssumption DEF ExportInv, ExportTypeOK, FieldPairs
  <2>2. /\ Offered \in Seq(Row) /\ Len(Offered) \in Nat /\ DOMAIN Offered = 1 .. Len(Offered)
        /\ Len(Offered) <= Len(RowsRead)
        /\ \A i \in 1 .. Len(Offered) : Offered[i] = RowsRead[i]
        /\ Finished => Offered = RowsRead
    BY <1>1, OfferedIs
  <2>3. /\ RowsRead \in Seq(Row) /\ Len(RowsRead) \in Nat /\ DOMAIN RowsRead = 1 .. Len(RowsRead)
        /\ \A i \in DOMAIN RowsRead : RowsRead[i] \in Row
        /\ RowsRead = <<>> <=> Len(RowsRead) = 0
    BY <2>1, RowsReadIs
  <2>4. ASSUME NEW i \in 1 .. Len(Offered) - 1
        PROVE  Offered[i][1] = Offered[i + 1][1] /\ Offered[i][2] < Offered[i + 1][2]
    <3>1. i \in 1 .. Len(Offered) /\ i + 1 \in 1 .. Len(Offered) /\ i < i + 1
      BY <2>2
    <3>2. i \in DOMAIN RowsRead /\ i + 1 \in DOMAIN RowsRead
      BY <2>2, <2>3, <3>1
    <3>3. RowsRead[i][1] = RowsRead[i + 1][1] /\ RowsRead[i][2] < RowsRead[i + 1][2]
      BY <2>1, <3>1, <3>2 DEF InOrderOfKeys, Ascend
    <3> QED BY <2>2, <3>1, <3>3
  <2>5. ASSUME Finished, NEW p \in FieldPairs \ textual
        PROVE  \/ \A k \in steady[p] : <<p, k>> \in Range(Offered)
               \/ \E q \in 1 .. p - 1 : \E i \in DOMAIN Offered : Offered[i][1] = q
    <3>1. CASE p < thread.pair
      BY <2>1, <3>1 DEF ReadSoFar
    <3>2. CASE p = thread.pair
      <4> SUFFICES ASSUME NEW k \in steady[p] PROVE <<p, k>> \in Range(Offered)
        OBVIOUS
      <4>1. k <= thread.after
        BY <2>1, <2>5, <3>2 DEF ReadSoFar, ReadToEnd
      <4>2. PICK i \in DOMAIN RowsRead : RowsRead[i][2] = k
        BY <2>1, <3>2, <4>1 DEF ReadSoFar
      <4>3. RowsRead[i][1] = p /\ RowsRead[i] \in Row
        BY <2>1, <2>3, <3>2 DEF InOrderOfKeys
      <4>4. RowsRead[i] = <<p, k>>
        BY <4>2, <4>3 DEF Row
      <4> QED BY <2>2, <2>5, <4>2, <4>4 DEF Range
    <3>3. CASE p > thread.pair
      <4>1. thread.found
        BY <2>1, <2>5, <3>3 DEF ReadSoFar, ReadToEnd, FieldPairs
      <4>2. 1 \in DOMAIN RowsRead
        BY <2>1, <2>3, <4>1 DEF InOrderOfKeys
      <4>3. RowsRead[1][1] = thread.pair /\ thread.pair \in 1 .. p - 1
        BY <2>1, <3>3, <4>2 DEF InOrderOfKeys, FieldPairs
      <4> QED BY <2>2, <2>5, <4>2, <4>3
    <3>4. p \in Nat /\ thread.pair \in Nat
      BY <2>1
    <3> QED BY <3>1, <3>2, <3>3, <3>4
  <2> QED BY <2>4, <2>5 DEF EveryRowOnce
<1> QED BY <1>1, ExportCorrect, PTL

\* The files of a batch number the rows without gap or overlap, each full but the last, and
\* the batch shows no more rows than they have (_run_chunked_export_async, export_status).
THEOREM ExportedFilesAreConsecutive == ExportSpec => []FilesAreConsecutive
<1>1. ASSUME ExportInv PROVE FilesAreConsecutive
  <2>1. ExportTypeOK /\ Offers /\ Numbered /\ job.ready \in Nat /\ Len(files) \in Nat /\ files \in Seq(File)
    BY <1>1, ExportTypes DEF ExportInv, Entry
  <2>2. job.ready <= Len(files) /\ DOMAIN files = 1 .. Len(files)
    BY <2>1 DEF Offers
  <2>3. ASSUME NEW i \in 1 .. job.ready
        PROVE  /\ files[i].first = IF i = 1 THEN 1 ELSE files[i - 1].last + 1
               /\ files[i].last - files[i].first + 1 = Len(files[i].rows)
               /\ i < job.ready => Len(files[i].rows) = job.split
    <3>1. i \in DOMAIN files /\ (i < job.ready => i < Len(files))
      BY <2>1, <2>2
    <3> QED BY <2>1, <3>1 DEF Numbered
  <2>4. job.mode = "batch" => job.processed <= Len(Offered)
    BY <1>1, <2>1, OfferedIs DEF Numbered
  <2> QED BY <2>2, <2>3, <2>4 DEF FilesAreConsecutive
<1> QED BY <1>1, ExportCorrect, PTL

\* The types of the variables hold in every state (ObservationExportJob).
THEOREM ExportTypeCorrect == ExportSpec => []ExportTypeOK
<1>1. ExportInv => ExportTypeOK
  BY DEF ExportInv
<1> QED BY <1>1, ExportCorrect, PTL

(***************************************************************************)
(* Harvests of what changed since a day (ListingHarvest)                   *)
(***************************************************************************)

\* What a harvest owes a record: its row has what the source has, or is one for the retry.
IsSettled(r) == saved[r].got = record[r].date \/ saved[r].status = "failed"

\* A record that no row and no other record is later than.
IsLatest(r) == \A s \in Ids : saved[s].date <= record[r].date /\ record[s].date <= record[r].date

\* A record on the part of the list that the harvest has before it.
IsAhead(r) ==
  \/ reading.at = "list" /\ \E i \in DOMAIN Listed : i > reading.offset /\ Listed[i] = r
  \/ reading.at = "items" /\ r \in Range(reading.page)
  \/ /\ reading.at = "items" /\ source = "article"
     /\ \E i \in DOMAIN Listed : i > reading.offset + Limit /\ Listed[i] = r

Harvesting == reading.at \in {"list", "items"}

\* Nothing has a date that is still to come.
NoneToCome ==
  /\ reading.from <= today
  /\ \A r \in Ids : saved[r].date <= today /\ record[r].date <= today
  /\ IF Harvesting THEN reading.retry = {} ELSE reading.from = 0
  /\ reading.at = "items" => Range(reading.page) \subseteq Visible

\* At rest, what is from before a saved date is settled; during a harvest, what is from
\* before its first day, and of the rest what it has passed and is not the latest.
PassedIsSettled ==
  \A r \in Ids \ excused : record[r].date > 0 =>
    IF Harvesting
    THEN IsSettled(r) \/ (record[r].date >= reading.from /\ (IsLatest(r) \/ IsAhead(r)))
    ELSE (\E s \in Ids : record[r].date < saved[s].date) => IsSettled(r)

ListingInv == ListingTypeOK /\ NoneToCome /\ PassedIsSettled

Registered == [date : 0 .. LastDay, quality : Qualities]
SavedRow == [status : {"none", "in_progress", "success", "failed"}, got : 0 .. LastDay, date : 0 .. LastDay]
Harvest ==
  [at : {"rest", "list", "items", "retry"}, from : 0 .. LastDay + 1,
   offset : Nat, page : Seq(Ids), retry : SUBSET Ids]

LEMMA ListingTypes ==
  ListingTypeOK <=>
    /\ source \in {"article", "preprint"} /\ today \in Days /\ aborts \in 0 .. MaxAborts
    /\ record \in [Ids -> Registered] /\ saved \in [Ids -> SavedRow] /\ reading \in Harvest
    /\ excused \subseteq Ids
BY DEF ListingTypeOK, Registered, SavedRow, Harvest

LEMMA ListingFacts ==
  ASSUME ListingTypeOK
  PROVE  /\ Ids \subseteq Nat /\ IsFiniteSet(Ids) /\ LastDay \in Nat /\ Limit \in Nat /\ Limit > 0
         /\ \A r \in Ids : /\ record[r] \in Registered /\ saved[r] \in SavedRow
                           /\ record[r].date \in Nat /\ saved[r].date \in Nat /\ saved[r].got \in Nat
         /\ reading.from \in Nat /\ reading.offset \in Nat /\ reading.page \in Seq(Ids) /\ today \in Nat
         /\ Visible = {r \in Ids : record[r].date >= 1 /\ record[r].date >= reading.from}
<1>1. /\ record \in [Ids -> Registered] /\ saved \in [Ids -> SavedRow] /\ reading \in Harvest
      /\ today \in Days
  BY ListingTypes
<1>2. /\ LastId \in Nat /\ LastDay \in Nat /\ Limit \in Nat /\ Limit > 0
  BY ListingAssumption
<1>3. Ids \subseteq Nat /\ IsFiniteSet(Ids)
  BY <1>2, FS_Interval DEF Ids
<1>4. \A r \in Ids : /\ record[r] \in Registered /\ saved[r] \in SavedRow
                     /\ record[r].date \in Nat /\ saved[r].date \in Nat /\ saved[r].got \in Nat
  BY <1>1, <1>2 DEF Registered, SavedRow
<1>5. reading.from \in Nat /\ reading.offset \in Nat /\ reading.page \in Seq(Ids) /\ today \in Nat
  BY <1>1, <1>2 DEF Harvest, Days
<1>6. Max({1, reading.from}) = IF 1 >= reading.from THEN 1 ELSE reading.from
  BY <1>5, TwoNumbers
<1>7. \A r \in Ids : record[r].date >= Max({1, reading.from})
                       <=> record[r].date >= 1 /\ record[r].date >= reading.from
  BY <1>4, <1>5, <1>6
<1>8. Visible = {r \in Ids : record[r].date >= 1 /\ record[r].date >= reading.from}
  BY <1>7 DEF Visible
<1> QED BY <1>2, <1>3, <1>4, <1>5, <1>8

\* The list has all records that are visible, and no other.
Rank(r) == Cardinality({s \in Visible : s = r \/ ListedBefore(s, r)})

LEMMA ListIs ==
  ASSUME ListingTypeOK
  PROVE  /\ Listed \in Seq(Visible) /\ Listed \in Seq(Ids)
         /\ Len(Listed) \in Nat /\ DOMAIN Listed = 1 .. Len(Listed)
         /\ \A i \in DOMAIN Listed : Listed[i] \in Visible
         /\ \A r \in Visible : \E i \in DOMAIN Listed : Listed[i] = r
<1> DEFINE n == Cardinality(Visible)
           UpTo(r) == {s \in Visible : s = r \/ ListedBefore(s, r)}
           f == [r \in Visible |-> Rank(r)]
<1>1. Visible \subseteq Ids /\ IsFiniteSet(Visible) /\ n \in Nat
  <2>1. Visible \subseteq Ids /\ IsFiniteSet(Ids)
    BY ListingFacts
  <2>2. IsFiniteSet(Visible)
    BY <2>1, FS_Subset
  <2> QED BY <2>1, <2>2, FS_CardinalityType
<1>2. \A r \in Visible : r \in Nat /\ record[r].date \in Nat
  BY <1>1, ListingFacts
<1>3. /\ \A r, s \in Visible : r = s \/ ListedBefore(r, s) \/ ListedBefore(s, r)
      /\ \A r \in Visible : ~ListedBefore(r, r)
      /\ \A r, s \in Visible : ListedBefore(r, s) => ~ListedBefore(s, r)
      /\ \A r, s, t \in Visible : ListedBefore(r, s) /\ ListedBefore(s, t) => ListedBefore(r, t)
  BY <1>2 DEF ListedBefore
<1> HIDE DEF n
<1>4. ASSUME NEW r \in Visible
      PROVE  /\ UpTo(r) \in SUBSET Visible /\ r \in UpTo(r) /\ IsFiniteSet(UpTo(r))
             /\ Rank(r) = Cardinality(UpTo(r)) /\ Rank(r) \in 1 .. n
  <2>1. UpTo(r) \in SUBSET Visible /\ r \in UpTo(r)
    OBVIOUS
  <2>2. Rank(r) = Cardinality(UpTo(r))
    BY DEF Rank
  <2> HIDE DEF UpTo
  <2>3. IsFiniteSet(UpTo(r)) /\ Cardinality(UpTo(r)) <= n
    BY <1>1, <2>1, FS_Subset DEF n
  <2>4. Cardinality(UpTo(r)) \in Nat /\ Cardinality(UpTo(r)) # 0
    BY <2>1, <2>3, FS_CardinalityType, FS_EmptySet
  <2> QED BY <1>1, <2>1, <2>2, <2>3, <2>4
<1>5. ASSUME NEW r \in Visible, NEW s \in Visible, ListedBefore(r, s) PROVE Rank(r) < Rank(s)
  <2>1. UpTo(r) \in SUBSET UpTo(s) /\ s \in UpTo(s) /\ s \notin UpTo(r)
    BY <1>3, <1>5
  <2> HIDE DEF UpTo
  <2>2. IsFiniteSet(UpTo(s)) /\ UpTo(r) # UpTo(s)
    BY <1>4, <2>1
  <2>3. Cardinality(UpTo(r)) <= Cardinality(UpTo(s)) /\ Cardinality(UpTo(s)) # Cardinality(UpTo(r))
    BY <2>1, <2>2, FS_Subset
  <2>4. Rank(r) \in 1 .. n /\ Rank(s) \in 1 .. n /\ Rank(r) <= Rank(s) /\ Rank(r) # Rank(s)
    BY <1>4, <2>3
  <2> QED BY <1>1, <2>4
<1>6. \A r, s \in Visible : Rank(r) = Rank(s) => r = s
  <2> SUFFICES ASSUME NEW r \in Visible, NEW s \in Visible, r # s PROVE Rank(r) # Rank(s)
    OBVIOUS
  <2>1. Rank(r) \in 1 .. n /\ Rank(s) \in 1 .. n
    BY <1>4
  <2>2. Rank(r) < Rank(s) \/ Rank(s) < Rank(r)
    BY <1>3, <1>5
  <2> QED BY <1>1, <2>1, <2>2
<1>7. \A i \in 1 .. n : \E r \in Visible : Rank(r) = i
  <2>1. f \in [Visible -> 1 .. n] /\ \A r \in Visible : f[r] = Rank(r)
    BY <1>4
  <2>2. f \in Injection(Visible, 1 .. n)
    BY <1>6, <2>1 DEF Injection, IsInjective
  <2>3. IsFiniteSet(1 .. n) /\ Cardinality(1 .. n) = n
    BY <1>1, FS_Interval
  <2> HIDE DEF f
  <2>4. f \in Surjection(Visible, 1 .. n)
    BY <2>2, <2>3, FS_Injection DEF n
  <2>5. \A i \in 1 .. n : \E r \in Visible : f[r] = i
    BY <2>4 DEF Surjection
  <2> QED BY <2>1, <2>5
<1> DEFINE Kth(i) == CHOOSE r \in Visible : Rank(r) = i
<1>8. Listed = [i \in 1 .. n |-> Kth(i)]
  BY DEF Listed, Rank, n
<1>9. \A i \in 1 .. n : Kth(i) \in Visible /\ Rank(Kth(i)) = i
  BY <1>7
<1> HIDE DEF Kth
<1>10. Listed \in Seq(Visible) /\ DOMAIN Listed = 1 .. n /\ Len(Listed) = n
  BY <1>1, <1>8, <1>9
<1>11. Listed \in Seq(Ids)
  BY <1>1, <1>10, SeqMonotonic
<1>12. \A i \in 1 .. n : Listed[i] = Kth(i)
  BY <1>8
<1>13. ASSUME NEW r \in Visible PROVE Listed[Rank(r)] = r /\ Rank(r) \in 1 .. n
  <2>1. Rank(r) \in 1 .. n
    BY <1>4
  <2>2. Kth(Rank(r)) \in Visible /\ Rank(Kth(Rank(r))) = Rank(r)
    BY <1>9, <2>1
  <2>3. Kth(Rank(r)) = r
    BY <1>6, <2>2
  <2> QED BY <1>12, <2>1, <2>3
<1> QED BY <1>1, <1>9, <1>10, <1>11, <1>12, <1>13

\* The date a harvest begins at is that of a row, or none.
LEMMA CursorIs ==
  ASSUME ListingTypeOK
  PROVE  /\ Cursor \in 0 .. LastDay
         /\ Cursor = 0 \/ \E r \in Ids : saved[r].date = Cursor
<1>1. LastDay \in Nat /\ \A r \in Ids : saved[r].date \in 0 .. LastDay
  <2>1. LastDay \in Nat /\ saved \in [Ids -> SavedRow]
    BY ListingAssumption, ListingTypes
  <2> QED BY <2>1 DEF SavedRow
<1>2. Dates \cup {0} \in SUBSET (0 .. LastDay) /\ Dates \cup {0} # {}
  BY <1>1 DEF Dates
<1>3. Max(Dates \cup {0}) \in Dates \cup {0}
  <2> HIDE DEF Dates
  <2> QED BY <1>1, <1>2, GreatestIs
<1>4. Max(Dates \cup {0}) \in 0 .. LastDay
      /\ (Max(Dates \cup {0}) = 0 \/ \E r \in Ids : saved[r].date = Max(Dates \cup {0}))
  BY <1>2, <1>3 DEF Dates
<1>5. Cursor = Max(Dates \cup {0}) \/ Cursor = 0
  BY DEF Cursor, LatestArticle, LatestPreprint
<1>6. 0 \in 0 .. LastDay
  BY <1>1
<1> QED BY <1>4, <1>5, <1>6

Remaining == SubSeq(Listed, reading.offset + 1, Len(Listed))
NextItems ==
  IF source = "preprint" THEN Remaining ELSE SubSeq(Remaining, 1, Min({Limit, Len(Remaining)}))

LEMMA ItemsAre ==
  ASSUME ListingTypeOK
  PROVE  /\ Remaining \in Seq(Visible) /\ NextItems \in Seq(Visible) /\ NextItems \in Seq(Ids)
         /\ Remaining = <<>> => \A i \in DOMAIN Listed : i <= reading.offset
         /\ \A i \in DOMAIN Listed : i > reading.offset =>
              \/ Listed[i] \in Range(NextItems)
              \/ source = "article" /\ i > reading.offset + Limit
<1> DEFINE o == reading.offset
           n == Len(Listed)
           rest == SubSeq(Listed, o + 1, n)
<1>1. /\ o \in Nat /\ n \in Nat /\ Limit \in Nat /\ Limit > 0 /\ Visible \subseteq Ids
      /\ Listed \in Seq(Visible) /\ DOMAIN Listed = 1 .. n /\ source \in {"article", "preprint"}
  BY ListIs, ListingFacts, ListingTypes
<1> HIDE DEF o, n
<1>2. /\ rest \in Seq(Visible) /\ Len(rest) = (IF o + 1 <= n THEN n - o ELSE 0)
      /\ \A i \in o + 1 .. n : Listed[i] \in Range(rest)
      /\ \A i \in 1 .. n - o : rest[i] = Listed[o + i]
  <2>1. n <= Len(Listed)
    BY <1>1 DEF n
  <2> QED BY <1>1, <2>1, PartOf
<1> HIDE DEF rest
<1>3. Remaining = rest
  BY DEF Remaining, rest, o, n
<1>4. rest = <<>> => \A i \in 1 .. n : i <= o
  <2> SUFFICES ASSUME rest = <<>>, NEW i \in 1 .. n, i > o PROVE FALSE
    BY <1>1
  <2>1. Len(rest) = 0
    OBVIOUS
  <2> QED BY <1>1, <1>2, <2>1
<1>5. PICK l \in Nat : l = Len(rest)
  BY <1>2
<1>6. Min({Limit, Len(rest)}) = (IF Limit <= l THEN Limit ELSE l)
  BY <1>1, <1>5, TwoNumbers
<1>7. PICK m \in Nat : m = Min({Limit, Len(rest)}) /\ m <= l /\ m <= Limit /\ (m = Limit \/ m = l)
  BY <1>1, <1>5, <1>6
<1>8. /\ SubSeq(rest, 0 + 1, m) \in Seq(Visible)
      /\ \A i \in 0 + 1 .. m : rest[i] \in Range(SubSeq(rest, 0 + 1, m))
  BY <1>2, <1>5, <1>7, PartOf
<1>9. NextItems = IF source = "preprint" THEN rest ELSE SubSeq(rest, 1, m)
  BY <1>3, <1>7 DEF NextItems
<1>10. NextItems \in Seq(Visible)
  BY <1>2, <1>8, <1>9
<1>11. NextItems \in Seq(Ids)
  BY <1>1, <1>10, SeqMonotonic
<1>12. ASSUME NEW i \in 1 .. n, i > o
       PROVE  Listed[i] \in Range(NextItems) \/ (source = "article" /\ i > o + Limit)
  <2>1. CASE source = "preprint"
    BY <1>1, <1>2, <1>9, <1>12, <2>1
  <2>2. CASE source = "article" /\ ~(i > o + Limit)
    <3>1. i - o \in 1 .. n - o /\ o + (i - o) = i /\ i - o <= Limit /\ l = n - o
      BY <1>1, <1>2, <1>5, <1>12, <2>2
    <3>2. i - o \in 0 + 1 .. m
      BY <1>1, <1>7, <3>1
    <3>3. rest[i - o] = Listed[i] /\ rest[i - o] \in Range(SubSeq(rest, 1, m))
      BY <1>2, <1>8, <3>1, <3>2
    <3> QED BY <1>9, <2>2, <3>3
  <2> QED BY <1>1, <2>1, <2>2
<1> QED BY <1>1, <1>2, <1>3, <1>4, <1>10, <1>11, <1>12 DEF o

LEMMA ListingTypeStart == ListingInit => ListingTypeOK
<1> SUFFICES ASSUME ListingInit PROVE ListingTypeOK
  OBVIOUS
<1>1. 1 \in Days /\ 0 \in 0 .. MaxAborts /\ 0 \in 0 .. LastDay /\ 0 \in 0 .. LastDay + 1
  BY ListingAssumption DEF Days
<1>2. record \in [Ids -> Registered]
  BY <1>1 DEF ListingInit, Registered, Qualities
<1>3. saved \in [Ids -> SavedRow]
  BY <1>1 DEF ListingInit, SavedRow, Unsaved
<1>4. <<>> \in Seq(Ids)
  OBVIOUS
<1>5. reading \in Harvest
  BY <1>1, <1>4 DEF ListingInit, Harvest, Resting
<1> QED BY <1>1, <1>2, <1>3, <1>5, ListingTypes DEF ListingInit

LEMMA RowTypes ==
  ASSUME ListingTypeOK, NEW r \in Ids
  PROVE  /\ SaveRead(r) \in SavedRow /\ SaveRead(r).got = record[r].date
         /\ SaveRead(r).date \in {0, record[r].date}
         /\ SaveFailed(r) \in SavedRow /\ SaveFailed(r).status = "failed"
         /\ SaveFailed(r).date = saved[r].date
         /\ [saved EXCEPT ![r] = SaveRead(r)] \in [Ids -> SavedRow]
         /\ [saved EXCEPT ![r] = SaveFailed(r)] \in [Ids -> SavedRow]
         /\ InProgress(r) \in [Ids -> SavedRow] /\ \A s \in Ids : InProgress(r)[s].date = saved[s].date
         /\ \A s \in Ids \ {r} : InProgress(r)[s] = saved[s]
<1>1. saved \in [Ids -> SavedRow] /\ saved[r] \in SavedRow /\ record[r] \in Registered
  BY ListingFacts, ListingTypes
<1>2. record[r].date \in 0 .. LastDay /\ 0 \in 0 .. LastDay
  BY <1>1, ListingAssumption DEF Registered
<1>3. /\ SaveRead(r) \in SavedRow /\ SaveRead(r).got = record[r].date
      /\ SaveRead(r).date \in {0, record[r].date}
  BY <1>2 DEF SaveRead, SavedRow
<1>4. /\ SaveFailed(r) \in SavedRow /\ SaveFailed(r).status = "failed"
      /\ SaveFailed(r).date = saved[r].date
  BY <1>1 DEF SaveFailed, SavedRow
<1>5. /\ InProgress(r) \in [Ids -> SavedRow] /\ \A s \in Ids : InProgress(r)[s].date = saved[s].date
      /\ \A s \in Ids \ {r} : InProgress(r)[s] = saved[s]
  BY <1>1 DEF InProgress, SavedRow
<1> QED BY <1>1, <1>3, <1>4, <1>5

LEMMA HarvestTypes ==
  ASSUME ListingTypeOK
  PROVE  /\ reading \in Harvest /\ Resting \in Harvest
         /\ \A from \in 0 .. LastDay + 1 : [Resting EXCEPT !.at = "list", !.from = from] \in Harvest
         /\ \A page \in Seq(Ids) : /\ [reading EXCEPT !.page = page] \in Harvest
                                   /\ [reading EXCEPT !.at = "items", !.page = page] \in Harvest
         /\ [reading EXCEPT !.at = "list", !.offset = reading.offset + Limit] \in Harvest
         /\ \A some \in SUBSET Ids : /\ [Resting EXCEPT !.at = "retry", !.retry = some] \in Harvest
                                     /\ [reading EXCEPT !.retry = some] \in Harvest
<1>1. reading \in Harvest /\ reading.offset \in Nat /\ Limit \in Nat
  BY ListingFacts, ListingTypes
<1>2. 0 \in 0 .. LastDay + 1 /\ <<>> \in Seq(Ids)
  BY ListingAssumption
<1>3. reading.offset + Limit \in Nat
  BY <1>1
<1>4. Resting \in Harvest
  BY <1>2 DEF Resting, Harvest
<1>5. \A from \in 0 .. LastDay + 1 : [Resting EXCEPT !.at = "list", !.from = from] \in Harvest
  BY <1>4 DEF Harvest
<1>6. [reading EXCEPT !.at = "list", !.offset = reading.offset + Limit] \in Harvest
  BY <1>1, <1>3 DEF Harvest
<1>7. \A page \in Seq(Ids) : /\ [reading EXCEPT !.page = page] \in Harvest
                             /\ [reading EXCEPT !.at = "items", !.page = page] \in Harvest
  BY <1>1 DEF Harvest
<1>8. \A some \in SUBSET Ids : /\ [Resting EXCEPT !.at = "retry", !.retry = some] \in Harvest
                               /\ [reading EXCEPT !.retry = some] \in Harvest
  BY <1>1, <1>4 DEF Harvest
<1> QED BY <1>1, <1>4, <1>5, <1>6, <1>7, <1>8

\* The step from one item to the next.
LEMMA NextItem ==
  ASSUME ListingTypeOK, NEW r, AtItem(r)
  PROVE  /\ r \in Ids /\ r \in Range(reading.page) /\ reading.at = "items"
         /\ Rest(r) \in Harvest /\ Rest(r) = [reading EXCEPT !.page = Tail(reading.page)]
         /\ \A s \in Range(reading.page) : s = r \/ s \in Range(Tail(reading.page))
         /\ Range(Tail(reading.page)) \subseteq Range(reading.page)
<1>1. reading \in Harvest /\ reading.page \in Seq(Ids) /\ reading.page # <<>> /\ r = Head(reading.page)
      /\ reading.at = "items"
  BY ListingFacts, ListingTypes DEF AtItem
<1>2. /\ r \in Ids /\ r \in Range(reading.page) /\ Tail(reading.page) \in Seq(Ids)
      /\ \A s \in Range(reading.page) : s = r \/ s \in Range(Tail(reading.page))
      /\ Range(Tail(reading.page)) \subseteq Range(reading.page)
  BY <1>1, WithoutFirst
<1>3. Rest(r) = [reading EXCEPT !.page = Tail(reading.page)]
  BY DEF Rest
<1>4. Rest(r) \in Harvest
  BY <1>2, <1>3, HarvestTypes
<1> QED BY <1>1, <1>2, <1>3, <1>4

LEMMA ListingTypeStep == ListingTypeOK /\ [ListingNext]_listingVars => ListingTypeOK'
<1> SUFFICES ASSUME ListingTypeOK, [ListingNext]_listingVars PROVE ListingTypeOK'
  OBVIOUS
<1>0. /\ source \in {"article", "preprint"} /\ today \in Days /\ aborts \in 0 .. MaxAborts
      /\ record \in [Ids -> Registered] /\ saved \in [Ids -> SavedRow] /\ reading \in Harvest
      /\ excused \subseteq Ids /\ Visible \subseteq Ids
  BY ListingTypes, ListingFacts
<1>1. ASSUME source' \in {"article", "preprint"}, today' \in Days, aborts' \in 0 .. MaxAborts,
             record' \in [Ids -> Registered], saved' \in [Ids -> SavedRow], reading' \in Harvest,
             excused' \subseteq Ids
      PROVE  ListingTypeOK'
  BY <1>1 DEF ListingTypeOK, Registered, SavedRow, Harvest
<1>2. \A n : aborts < MaxAborts /\ n = aborts + 1 => n \in 0 .. MaxAborts
  BY <1>0, ListingAssumption
<1>3. ASSUME NEW r \in Ids, NEW day \in Days, NEW quality \in Qualities, Issue(r, day, quality)
      PROVE  ListingTypeOK'
  <2>1. [date |-> day, quality |-> quality] \in Registered
    BY ListingAssumption DEF Days, Registered
  <2>2. record' \in [Ids -> Registered] /\ UNCHANGED <<source, today, saved, reading, aborts>>
    BY <1>0, <1>3, <2>1 DEF Issue
  <2>3. excused' \subseteq Ids
    BY <1>0, <1>3 DEF Issue
  <2> QED BY <1>0, <1>1, <2>2, <2>3
<1>4. CASE NextDay
  <2>1. today' \in Days
    BY <1>0, <1>4, ListingAssumption DEF NextDay, Days
  <2>2. UNCHANGED <<source, record, saved, reading, excused, aborts>>
    BY <1>4 DEF NextDay
  <2> QED BY <1>0, <1>1, <2>1, <2>2
<1>5. ASSUME NEW all \in BOOLEAN, BeginHarvest(all) PROVE ListingTypeOK'
  <2>1. 0 \in 0 .. LastDay + 1 /\ Cursor \in 0 .. LastDay + 1
    BY CursorIs, ListingAssumption
  <2>2. reading' \in Harvest
    BY <1>5, <2>1, HarvestTypes DEF BeginHarvest
  <2>3. UNCHANGED <<source, today, record, saved, excused, aborts>>
    BY <1>5 DEF BeginHarvest
  <2> QED BY <1>0, <1>1, <2>2, <2>3
<1>6. CASE FetchPage
  <2>1. reading' = IF Remaining = <<>> THEN Resting
                   ELSE [reading EXCEPT !.at = "items", !.page = NextItems]
    BY <1>6 DEF FetchPage, Remaining, NextItems
  <2>2. reading' \in Harvest
    BY <2>1, HarvestTypes, ItemsAre
  <2>3. UNCHANGED <<source, today, record, saved, excused, aborts>>
    BY <1>6 DEF FetchPage
  <2> QED BY <1>0, <1>1, <2>2, <2>3
<1>7. CASE EndPage
  <2>1. reading' \in Harvest
    BY <1>7, HarvestTypes DEF EndPage
  <2>2. UNCHANGED <<source, today, record, saved, excused, aborts>>
    BY <1>7 DEF EndPage
  <2> QED BY <1>0, <1>1, <2>1, <2>2
<1>8. CASE FetchPageFails
  <2>1. reading' \in Harvest /\ aborts' \in 0 .. MaxAborts /\ excused' \subseteq Ids
    BY <1>0, <1>2, <1>8, HarvestTypes DEF FetchPageFails, Abort
  <2>2. UNCHANGED <<source, today, record, saved>>
    BY <1>8 DEF FetchPageFails
  <2> QED BY <1>0, <1>1, <2>1, <2>2
<1>9. ASSUME NEW r \in Ids, HarvestItem(r) PROVE ListingTypeOK'
  <2>1. /\ reading' = Rest(r) /\ saved' = [saved EXCEPT ![r] = SaveRead(r)] /\ excused' = excused \ {r}
        /\ AtItem(r) /\ UNCHANGED <<source, today, record, aborts>>
    BY <1>9 DEF HarvestItem
  <2> QED BY <1>0, <1>1, <2>1, NextItem, RowTypes
<1>10. ASSUME NEW r \in Ids, ArticleFails(r) PROVE ListingTypeOK'
  <2>1. /\ reading' = Rest(r) /\ saved' = [saved EXCEPT ![r] = SaveFailed(r)]
        /\ AtItem(r) /\ UNCHANGED <<source, today, record, excused, aborts>>
    BY <1>10 DEF ArticleFails
  <2> QED BY <1>0, <1>1, <2>1, NextItem, RowTypes
<1>11. ASSUME NEW r \in Ids, ArticleRaises(r) PROVE ListingTypeOK'
  <2>1. /\ reading' = Rest(r) /\ excused' = excused \cup {r} /\ aborts' \in 0 .. MaxAborts
        /\ AtItem(r) /\ UNCHANGED <<source, today, record, saved>>
    BY <1>2, <1>11 DEF ArticleRaises
  <2> QED BY <1>0, <1>1, <2>1, NextItem
<1>12. ASSUME NEW r \in Ids, Stops(r) PROVE ListingTypeOK'
  <2>1. /\ reading' = Resting /\ excused' = excused \cup Visible /\ aborts' \in 0 .. MaxAborts
        /\ saved' = InProgress(r) /\ UNCHANGED <<source, today, record>>
    BY <1>2, <1>12 DEF Stops, Abort
  <2> QED BY <1>0, <1>1, <2>1, HarvestTypes, RowTypes
<1>13. CASE BeginRetry
  <2>1. {r \in Ids : saved[r].status = "failed"} \in SUBSET Ids
    OBVIOUS
  <2>2. /\ reading' = [Resting EXCEPT !.at = "retry", !.retry = {r \in Ids : saved[r].status = "failed"}]
        /\ UNCHANGED <<source, today, record, saved, excused, aborts>>
    BY <1>13 DEF BeginRetry
  <2>3. reading' \in Harvest
    BY <2>1, <2>2, HarvestTypes
  <2> QED BY <1>0, <1>1, <2>2, <2>3
<1>14. ASSUME NEW r \in Ids, RetryItem(r) PROVE ListingTypeOK'
  <2>1. reading.retry \ {r} \in SUBSET Ids
    BY <1>0 DEF Harvest
  <2>2. reading' \in Harvest
    BY <1>14, <2>1, HarvestTypes DEF RetryItem, RetryOthers
  <2>3. saved' \in [Ids -> SavedRow] /\ excused' \subseteq Ids
    BY <1>0, <1>14, RowTypes DEF RetryItem
  <2>4. UNCHANGED <<source, today, record, aborts>>
    BY <1>14 DEF RetryItem
  <2> QED BY <1>0, <1>1, <2>2, <2>3, <2>4
<1>15. ASSUME NEW r \in Ids, RetryStops(r) PROVE ListingTypeOK'
  <2>1. /\ reading' = Resting /\ excused' = excused \cup {r} /\ aborts' \in 0 .. MaxAborts
        /\ saved' = InProgress(r) /\ UNCHANGED <<source, today, record>>
    BY <1>2, <1>15 DEF RetryStops
  <2> QED BY <1>0, <1>1, <2>1, HarvestTypes, RowTypes
<1>16. CASE UNCHANGED listingVars
  BY <1>0, <1>1, <1>16 DEF listingVars
<1> QED BY <1>3, <1>4, <1>5, <1>6, <1>7, <1>8, <1>9, <1>10, <1>11, <1>12, <1>13, <1>14, <1>15, <1>16 DEF ListingNext

LEMMA VisibleKept == ASSUME UNCHANGED record, reading'.from = reading.from PROVE Visible' = Visible
BY DEF Visible

LEMMA NoneToComeStart == ListingInit => NoneToCome
BY DEF ListingInit, NoneToCome, Harvesting, Resting, Unsaved

LEMMA NoneToComeStep == ListingTypeOK /\ NoneToCome /\ [ListingNext]_listingVars => NoneToCome'
<1> SUFFICES ASSUME ListingTypeOK, NoneToCome, [ListingNext]_listingVars PROVE NoneToCome'
  OBVIOUS
<1>0. /\ \A r \in Ids : /\ record[r].date \in Nat /\ saved[r].date \in Nat
                        /\ record[r].date <= today /\ saved[r].date <= today
      /\ reading.from \in Nat /\ reading.from <= today /\ today \in Nat /\ today \in Days
      /\ record \in [Ids -> Registered] /\ saved \in [Ids -> SavedRow] /\ reading \in Harvest
      /\ Visible = {r \in Ids : record[r].date >= 1 /\ record[r].date >= reading.from}
      /\ ~Harvesting => reading.from = 0
      /\ Harvesting => reading.retry = {}
      /\ reading.at = "items" => Range(reading.page) \subseteq Visible
  BY ListingFacts, ListingTypes DEF NoneToCome
<1>1. Resting.at = "rest" /\ Resting.from = 0 /\ 0 <= today /\ Resting.retry = {}
  BY <1>0 DEF Resting
<1>2. ASSUME UNCHANGED <<today, record>>, \A s \in Ids : saved'[s].date <= today,
             reading'.from = reading.from \/ reading'.from = 0, reading'.from = 0 \/ Harvesting',
             Harvesting' => reading'.retry = {},
             reading'.at = "items" => reading'.from = reading.from /\ Range(reading'.page) \subseteq Visible
      PROVE  NoneToCome'
  <2>1. reading'.at = "items" => Visible' = Visible
    BY <1>2, VisibleKept
  <2> QED BY <1>0, <1>1, <1>2, <2>1 DEF NoneToCome
<1>3. ASSUME reading' = Resting, UNCHANGED <<today, record>>, \A s \in Ids : saved'[s].date <= today
      PROVE  NoneToCome'
  BY <1>1, <1>2, <1>3
<1>4. ASSUME NEW r \in Ids, AtItem(r), reading' = Rest(r), UNCHANGED <<today, record>>,
             \A s \in Ids : saved'[s].date <= today
      PROVE  NoneToCome'
  <2>1. /\ reading.at = "items" /\ Rest(r) = [reading EXCEPT !.page = Tail(reading.page)]
        /\ Range(Tail(reading.page)) \subseteq Range(reading.page)
    BY <1>4, NextItem
  <2>2. /\ reading'.at = "items" /\ reading'.from = reading.from /\ reading'.page = Tail(reading.page)
        /\ reading'.retry = reading.retry
    BY <1>0, <1>4, <2>1 DEF Harvest
  <2>3. Harvesting' /\ Harvesting
    BY <2>1, <2>2 DEF Harvesting
  <2> QED BY <1>0, <1>2, <1>4, <2>1, <2>2, <2>3
<1>5. \A s \in Ids : UNCHANGED saved => saved'[s].date <= today
  BY <1>0
<1>6. ASSUME NEW r \in Ids, NEW row, row.date <= today, saved' = [saved EXCEPT ![r] = row]
      PROVE  \A s \in Ids : saved'[s].date <= today
  BY <1>0, <1>6
<1>7. ASSUME NEW r \in Ids
      PROVE  SaveRead(r).date <= today /\ SaveFailed(r).date <= today
  BY <1>0, <1>1, RowTypes
<1>8. ASSUME NEW r \in Ids, NEW day \in Days, NEW quality \in Qualities, Issue(r, day, quality)
      PROVE  NoneToCome'
  <2>1. /\ day \in Nat /\ day <= today /\ day > record[r].date
        /\ record' = [record EXCEPT ![r] = [date |-> day, quality |-> quality]]
        /\ UNCHANGED <<source, today, saved, reading, aborts>>
    BY <1>0, <1>8, ListingAssumption DEF Issue, Days
  <2>2. \A s \in Ids : record'[s].date <= today /\ record'[s].date \in Nat /\ record'[s].date >= record[s].date
    BY <1>0, <2>1
  <2>3. Visible \subseteq Visible'
    <3>1. PICK first \in Nat : first = Max({1, reading.from})
      BY <1>0, TwoNumbers
    <3>2. Visible = {s \in Ids : record[s].date >= first}
      BY <3>1 DEF Visible
    <3>3. Visible' = {s \in Ids : record'[s].date >= first}
      BY <2>1, <3>1 DEF Visible
    <3>4. \A s \in Ids : record[s].date >= first => record'[s].date >= first
      BY <1>0, <2>2
    <3> QED BY <3>2, <3>3, <3>4
  <2> QED BY <1>0, <2>1, <2>2, <2>3 DEF NoneToCome, Harvesting
<1>9. CASE NextDay
  <2>1. today' = today + 1 /\ UNCHANGED <<record, saved, reading>>
    BY <1>9 DEF NextDay
  <2>2. \A n \in Nat : n <= today => n <= today'
    BY <1>0, <2>1
  <2>3. Visible' = Visible
    BY <2>1, VisibleKept
  <2> QED BY <1>0, <2>1, <2>2, <2>3 DEF NoneToCome, Harvesting
<1>10. ASSUME NEW all \in BOOLEAN, BeginHarvest(all) PROVE NoneToCome'
  <2>1. UNCHANGED <<today, record, saved>> /\ reading'.at = "list" /\ reading'.from \in {0, Cursor}
        /\ reading'.retry = {}
    BY <1>10 DEF BeginHarvest, Resting
  <2>2. Cursor <= today
    BY <1>0, <1>1, CursorIs
  <2> QED BY <1>0, <1>1, <2>1, <2>2 DEF NoneToCome, Harvesting
<1>11. CASE FetchPage
  <2>1. UNCHANGED <<today, record, saved>> /\ reading.at = "list"
        /\ reading' = IF Remaining = <<>> THEN Resting
                      ELSE [reading EXCEPT !.at = "items", !.page = NextItems]
    BY <1>11 DEF FetchPage, Remaining, NextItems
  <2>2. CASE Remaining # <<>>
    <3>1. /\ reading'.at = "items" /\ reading'.from = reading.from /\ reading'.page = NextItems
          /\ reading'.retry = reading.retry
      BY <1>0, <2>1, <2>2 DEF Harvest
    <3>2. Range(NextItems) \subseteq Visible
      <4>1. NextItems \in Seq(Visible)
        BY ItemsAre
      <4>2. \A i \in DOMAIN NextItems : NextItems[i] \in Visible
        BY <4>1
      <4> QED BY <4>2 DEF Range
    <3>3. Harvesting' /\ Harvesting
      BY <2>1, <3>1 DEF Harvesting
    <3> QED BY <1>0, <1>2, <1>5, <2>1, <3>1, <3>2, <3>3
  <2>3. CASE Remaining = <<>>
    BY <1>3, <1>5, <2>1, <2>3
  <2> QED BY <2>2, <2>3
<1>12. CASE EndPage
  <2>1. UNCHANGED <<today, record, saved>>
    BY <1>12 DEF EndPage
  <2>2. CASE reading' = Resting
    BY <1>3, <1>5, <2>1, <2>2
  <2>3. CASE reading' = [reading EXCEPT !.at = "list", !.offset = @ + Limit]
    <3>1. reading'.at = "list" /\ reading'.from = reading.from /\ reading'.retry = reading.retry
      BY <1>0, <2>3 DEF Harvest
    <3>2. Harvesting' /\ Harvesting
      BY <1>12, <3>1 DEF EndPage, Harvesting
    <3> QED BY <1>0, <1>2, <1>5, <2>1, <3>1, <3>2
  <2> QED BY <1>12, <2>2, <2>3 DEF EndPage
<1>13. CASE FetchPageFails
  BY <1>3, <1>5, <1>13 DEF FetchPageFails, Abort
<1>14. ASSUME NEW r \in Ids, HarvestItem(r) PROVE NoneToCome'
  <2>1. AtItem(r) /\ reading' = Rest(r) /\ saved' = [saved EXCEPT ![r] = SaveRead(r)]
        /\ UNCHANGED <<today, record>>
    BY <1>14 DEF HarvestItem
  <2>2. \A s \in Ids : saved'[s].date <= today
    BY <1>6, <1>7, <2>1
  <2> QED BY <1>4, <2>1, <2>2
<1>15. ASSUME NEW r \in Ids, ArticleFails(r) PROVE NoneToCome'
  <2>1. AtItem(r) /\ reading' = Rest(r) /\ saved' = [saved EXCEPT ![r] = SaveFailed(r)]
        /\ UNCHANGED <<today, record>>
    BY <1>15 DEF ArticleFails
  <2>2. \A s \in Ids : saved'[s].date <= today
    BY <1>6, <1>7, <2>1
  <2> QED BY <1>4, <2>1, <2>2
<1>16. ASSUME NEW r \in Ids, ArticleRaises(r) PROVE NoneToCome'
  BY <1>4, <1>5, <1>16 DEF ArticleRaises
<1>17. ASSUME NEW r \in Ids, Stops(r) PROVE NoneToCome'
  <2>1. reading' = Resting /\ saved' = InProgress(r) /\ UNCHANGED <<today, record>>
    BY <1>17 DEF Stops, Abort
  <2>2. \A s \in Ids : saved'[s].date <= today
    BY <1>0, <2>1, RowTypes
  <2> QED BY <1>3, <2>1, <2>2
<1>18. CASE BeginRetry
  <2>1. UNCHANGED <<today, record, saved>> /\ reading'.at = "retry" /\ reading'.from = 0
    BY <1>18 DEF BeginRetry, Resting
  <2>2. ~Harvesting'
    BY <2>1 DEF Harvesting
  <2> QED BY <1>2, <1>5, <2>1, <2>2
<1>19. ASSUME NEW r \in Ids, RetryItem(r) PROVE NoneToCome'
  <2>1. \/ saved' = [saved EXCEPT ![r] = SaveRead(r)]
        \/ UNCHANGED saved
    BY <1>19 DEF RetryItem
  <2>2. \A s \in Ids : saved'[s].date <= today
    BY <1>5, <1>6, <1>7, <2>1
  <2>3. UNCHANGED <<today, record>>
    BY <1>19 DEF RetryItem
  <2>4. CASE reading' = Resting
    BY <1>3, <2>2, <2>3, <2>4
  <2>5. CASE reading' = [reading EXCEPT !.retry = @ \ {r}]
    <3>1. /\ reading'.from = reading.from /\ reading'.at = reading.at /\ reading'.page = reading.page
      BY <1>0, <2>5 DEF Harvest
    <3>2. ~Harvesting /\ ~Harvesting' /\ reading'.from = 0
      BY <1>0, <1>19, <3>1 DEF RetryItem, Harvesting
    <3> QED BY <1>0, <1>2, <2>2, <2>3, <3>1, <3>2
  <2> QED BY <1>19, <2>4, <2>5 DEF RetryItem, RetryOthers
<1>20. ASSUME NEW r \in Ids, RetryStops(r) PROVE NoneToCome'
  <2>1. reading' = Resting /\ saved' = InProgress(r) /\ UNCHANGED <<today, record>>
    BY <1>20 DEF RetryStops
  <2>2. \A s \in Ids : saved'[s].date <= today
    BY <1>0, <2>1, RowTypes
  <2> QED BY <1>3, <2>1, <2>2
<1>21. CASE UNCHANGED listingVars
  <2>1. UNCHANGED <<today, record, saved, reading>>
    BY <1>21 DEF listingVars
  <2>2. Visible' = Visible
    BY <2>1, VisibleKept
  <2> QED BY <1>0, <2>1, <2>2 DEF NoneToCome, Harvesting
<1> QED BY <1>8, <1>9, <1>10, <1>11, <1>12, <1>13, <1>14, <1>15, <1>16, <1>17, <1>18, <1>19, <1>20, <1>21
        DEF ListingNext

HasAll == Len(Listed) \in Nat /\ DOMAIN Listed = 1 .. Len(Listed)
          /\ \A r \in Visible : \E i \in DOMAIN Listed : Listed[i] = r

LEMMA NextListIs == ListingTypeOK' => HasAll'
<1>1. ListingTypeOK => HasAll
  BY ListIs DEF HasAll
<1> QED BY <1>1, PTL

LEMMA ListKept ==
  ASSUME UNCHANGED record, reading'.from = reading.from
  PROVE  Visible' = Visible /\ Listed' = Listed
BY DEF Visible, Listed, ListedBefore

LEMMA PassedStart == ListingInit => PassedIsSettled
<1> SUFFICES ASSUME ListingInit PROVE PassedIsSettled
  OBVIOUS
<1>1. \A r \in Ids : record[r].date = 0
  BY DEF ListingInit
<1>2. ~(0 > 0)
  OBVIOUS
<1> QED BY <1>1, <1>2 DEF PassedIsSettled

LEMMA PassedStep ==
  ListingTypeOK /\ NoneToCome /\ PassedIsSettled /\ [ListingNext]_listingVars => PassedIsSettled'
<1> SUFFICES ASSUME ListingTypeOK, NoneToCome, PassedIsSettled, [ListingNext]_listingVars
             PROVE  PassedIsSettled'
  OBVIOUS
<1>0. /\ \A r \in Ids : /\ record[r].date \in Nat /\ saved[r].date \in Nat
                        /\ record[r].date <= today /\ saved[r].date <= today
      /\ reading.from \in Nat /\ reading.from <= today /\ today \in Nat
      /\ record \in [Ids -> Registered] /\ saved \in [Ids -> SavedRow] /\ reading \in Harvest
      /\ Visible = {r \in Ids : record[r].date >= 1 /\ record[r].date >= reading.from}
      /\ Harvesting => reading.retry = {}
      /\ reading.at = "items" => Range(reading.page) \subseteq Visible
      /\ source \in {"article", "preprint"} /\ reading.offset \in Nat /\ Limit \in Nat
  BY ListingFacts, ListingTypes DEF NoneToCome
<1> DEFINE Passed(r) == record[r].date >= reading.from /\ (IsLatest(r) \/ IsAhead(r))
           Owed(r) ==
             record[r].date > 0 =>
               IF Harvesting THEN IsSettled(r) \/ Passed(r)
               ELSE (\E s \in Ids : record[r].date < saved[s].date) => IsSettled(r)
<1>1. \A r \in Ids \ excused : Owed(r)
  BY DEF PassedIsSettled
<1>2. ASSUME \A r \in Ids \ excused' : Owed(r)' PROVE PassedIsSettled'
  BY <1>2 DEF PassedIsSettled
<1>3. ASSUME NEW r \in Ids, UNCHANGED record, saved'[r] = saved[r] PROVE IsSettled(r)' <=> IsSettled(r)
  BY <1>3 DEF IsSettled
<1>4. ASSUME NEW r \in Ids, UNCHANGED record, IsLatest(r),
             \A s \in Ids : saved'[s].date \in {0, saved[s].date, record[s].date}
      PROVE  IsLatest(r)'
  BY <1>0, <1>4 DEF IsLatest
<1>5. ASSUME NEW r \in Ids, record[r].date > 0, IsSettled(r)' PROVE Owed(r)'
  BY <1>5
<1>6. ASSUME NEW r \in Ids, NEW day \in Days, NEW quality \in Qualities, Issue(r, day, quality)
      PROVE  PassedIsSettled'
  <2>1. /\ day \in Nat /\ day <= today /\ day > 0
        /\ record' = [record EXCEPT ![r] = [date |-> day, quality |-> quality]]
        /\ excused' = (IF day < today THEN excused \cup {r} ELSE excused \ {r})
                        \cup IF reading.at = "rest" THEN {} ELSE Visible \ {r}
        /\ UNCHANGED <<source, today, saved, reading, aborts>>
    BY <1>0, <1>6, ListingAssumption DEF Issue, Days
  <2>2. record'[r].date = day /\ \A s \in Ids \ {r} : record'[s] = record[s]
    BY <1>0, <2>1
  <2>3. Harvesting' <=> Harvesting
    BY <2>1 DEF Harvesting
  <2>4. ASSUME r \notin excused' PROVE Owed(r)'
    <3>1. day = today
      <4>1. ASSUME day < today PROVE FALSE
        <5>1. excused \cup {r} \subseteq excused'
          BY <2>1, <4>1
        <5> QED BY <2>4, <5>1
      <4>2. day \in Nat /\ today \in Nat /\ day <= today
        BY <1>0, <2>1
      <4> QED BY <4>1, <4>2
    <3>2. IsLatest(r)'
      BY <1>0, <2>1, <2>2, <3>1 DEF IsLatest
    <3>3. record'[r].date >= reading'.from
      BY <1>0, <2>1, <2>2, <3>1
    <3>4. ~\E s \in Ids : record'[r].date < saved'[s].date
      BY <1>0, <2>1, <2>2, <3>1
    <3> QED BY <3>2, <3>3, <3>4
  <2>5. ASSUME NEW s \in Ids \ {r}, s \notin excused' PROVE Owed(s)'
    <3>1. s \notin excused /\ Owed(s) /\ record'[s] = record[s] /\ saved'[s] = saved[s]
      BY <1>1, <2>1, <2>2, <2>5
    <3>2. IsSettled(s)' <=> IsSettled(s)
      BY <3>1 DEF IsSettled
    <3>3. CASE Harvesting
      <4>1. s \notin Visible
        BY <2>1, <2>5, <3>3 DEF Harvesting
      <4>2. record[s].date > 0 => ~(record[s].date >= reading.from)
        BY <1>0, <2>5, <4>1
      <4> QED BY <2>3, <3>1, <3>2, <3>3, <4>2
    <3>4. CASE ~Harvesting
      BY <2>1, <2>3, <3>1, <3>2, <3>4
    <3> QED BY <3>3, <3>4
  <2> QED BY <1>2, <2>4, <2>5
\* An item is done with: it is settled or excused, and the others are where they were.
<1>7. ASSUME NEW r \in Ids, AtItem(r), reading' = Rest(r), UNCHANGED <<source, record>>,
             \A s \in Ids \ {r} : saved'[s] = saved[s] /\ (s \notin excused' => s \notin excused),
             saved'[r].date \in {0, saved[r].date, record[r].date},
             r \notin excused' => IsSettled(r)'
      PROVE  PassedIsSettled'
  <2>1. /\ reading.at = "items" /\ Rest(r) = [reading EXCEPT !.page = Tail(reading.page)]
        /\ \A s \in Range(reading.page) : s = r \/ s \in Range(Tail(reading.page))
    BY <1>7, NextItem
  <2>2. /\ reading'.at = "items" /\ reading'.from = reading.from /\ reading'.page = Tail(reading.page)
        /\ reading'.offset = reading.offset
    BY <1>0, <1>7, <2>1 DEF Harvest
  <2>3. Harvesting /\ Harvesting' /\ Listed' = Listed
    BY <1>7, <2>1, <2>2, ListKept DEF Harvesting
  <2>4. \A s \in Ids : saved'[s].date \in {0, saved[s].date, record[s].date}
    BY <1>7
  <2>5. ASSUME NEW s \in Ids \ {r}, s \notin excused' PROVE Owed(s)'
    <3>1. s \notin excused /\ Owed(s) /\ saved'[s] = saved[s]
      BY <1>1, <1>7, <2>5
    <3>2. (IsSettled(s) => IsSettled(s)') /\ (IsLatest(s) => IsLatest(s)')
      BY <1>3, <1>4, <1>7, <2>4, <3>1
    <3>3. IsAhead(s) => IsAhead(s)'
      BY <1>7, <2>1, <2>2, <2>3, <2>5 DEF IsAhead
    <3> QED BY <1>7, <2>2, <2>3, <3>1, <3>2, <3>3
  <2>6. r \notin excused' => Owed(r)'
    BY <1>7, <2>3
  <2> QED BY <1>2, <2>5, <2>6
\* A harvest that ends before its list does leaves what is before its first day.
<1>8. ASSUME NEW r, Abort, UNCHANGED <<source, record>>, r \in Visible \/ UNCHANGED saved,
             \A s \in Ids \ {r} : saved'[s] = saved[s], Harvesting
      PROVE  PassedIsSettled'
  <2>1. reading' = Resting /\ excused' = excused \cup Visible
    BY <1>8 DEF Abort
  <2>2. ASSUME NEW s \in Ids \ excused' PROVE Owed(s)'
    <3>1. s \notin excused /\ s \notin Visible /\ saved'[s] = saved[s]
      BY <1>8, <2>1, <2>2
    <3>2. Owed(s)
      BY <1>1, <3>1
    <3>3. record[s].date > 0 => ~(record[s].date >= reading.from)
      BY <1>0, <3>1
    <3>4. record[s].date > 0 => IsSettled(s)
      BY <1>8, <3>2, <3>3
    <3>5. record[s].date > 0 => IsSettled(s)'
      BY <1>3, <1>8, <3>1, <3>4
    <3>6. ~Harvesting'
      BY <2>1 DEF Resting, Harvesting
    <3> QED BY <1>8, <3>5, <3>6
  <2> QED BY <1>2, <2>2
<1>9. CASE FetchPageFails
  BY <1>8, <1>9 DEF FetchPageFails, Harvesting
<1>10. ASSUME NEW r \in Ids, Stops(r) PROVE PassedIsSettled'
  <2>1. AtItem(r) /\ Abort /\ saved' = InProgress(r) /\ UNCHANGED <<source, record>>
    BY <1>10 DEF Stops
  <2>2. r \in Visible /\ Harvesting
    BY <1>0, <2>1, NextItem DEF Harvesting
  <2>3. \A s \in Ids \ {r} : saved'[s] = saved[s]
    BY <2>1, RowTypes
  <2> QED BY <1>8, <2>1, <2>2, <2>3
<1>11. ASSUME NEW r \in Ids, HarvestItem(r) PROVE PassedIsSettled'
  <2>1. /\ AtItem(r) /\ reading' = Rest(r) /\ UNCHANGED <<source, record>>
        /\ saved' = [saved EXCEPT ![r] = SaveRead(r)] /\ excused' = excused \ {r}
    BY <1>11 DEF HarvestItem
  <2>2. saved'[r] = SaveRead(r) /\ \A s \in Ids \ {r} : saved'[s] = saved[s]
    BY <1>0, <2>1
  <2>3. SaveRead(r).got = record[r].date /\ SaveRead(r).date \in {0, record[r].date}
    BY RowTypes
  <2>4. IsSettled(r)'
    BY <2>1, <2>2, <2>3 DEF IsSettled
  <2> QED BY <1>7, <2>1, <2>2, <2>3, <2>4
<1>12. ASSUME NEW r \in Ids, ArticleFails(r) PROVE PassedIsSettled'
  <2>1. /\ AtItem(r) /\ reading' = Rest(r) /\ UNCHANGED <<source, record, excused>>
        /\ saved' = [saved EXCEPT ![r] = SaveFailed(r)]
    BY <1>12 DEF ArticleFails
  <2>2. saved'[r] = SaveFailed(r) /\ \A s \in Ids \ {r} : saved'[s] = saved[s]
    BY <1>0, <2>1
  <2>3. SaveFailed(r).status = "failed" /\ SaveFailed(r).date = saved[r].date
    BY RowTypes
  <2>4. IsSettled(r)'
    BY <2>1, <2>2, <2>3 DEF IsSettled
  <2> QED BY <1>7, <2>1, <2>2, <2>3, <2>4
<1>13. ASSUME NEW r \in Ids, ArticleRaises(r) PROVE PassedIsSettled'
  <2>1. /\ AtItem(r) /\ reading' = Rest(r) /\ UNCHANGED <<source, record, saved>>
        /\ excused' = excused \cup {r}
    BY <1>13 DEF ArticleRaises
  <2>2. saved'[r] = saved[r] /\ r \in excused' /\ \A s \in Ids \ {r} : saved'[s] = saved[s]
    BY <2>1
  <2> QED BY <1>7, <2>1, <2>2
<1>14. CASE NextDay
  <2>1. UNCHANGED <<source, record, saved, reading, excused>>
    BY <1>14 DEF NextDay
  <2>2. Listed' = Listed /\ (Harvesting' <=> Harvesting)
    BY <2>1, ListKept DEF Harvesting
  <2> QED BY <2>1, <2>2 DEF PassedIsSettled, IsSettled, IsLatest, IsAhead
<1>15. CASE UNCHANGED listingVars
  <2>1. UNCHANGED <<source, record, saved, reading, excused>>
    BY <1>15 DEF listingVars
  <2>2. Listed' = Listed /\ (Harvesting' <=> Harvesting)
    BY <2>1, ListKept DEF Harvesting
  <2> QED BY <2>1, <2>2 DEF PassedIsSettled, IsSettled, IsLatest, IsAhead
<1>16. ASSUME NEW all \in BOOLEAN, BeginHarvest(all) PROVE PassedIsSettled'
  <2>1. /\ reading.at = "rest" /\ UNCHANGED <<source, today, record, saved, excused, aborts>>
        /\ reading'.at = "list" /\ reading'.from \in {0, Cursor} /\ reading'.offset = 0
    BY <1>16 DEF BeginHarvest, Resting
  <2>2. ~Harvesting /\ Harvesting'
    BY <2>1 DEF Harvesting
  <2>3. reading'.from \in Nat /\ (reading'.from = 0 \/ \E s \in Ids : saved[s].date = reading'.from)
    BY <2>1, CursorIs, ListingAssumption
  <2>4. ListingTypeOK'
    BY ListingTypeStep
  <2>5. ASSUME NEW r \in Ids \ excused', record[r].date > 0 PROVE Owed(r)'
    <3>1. Owed(r) /\ (IsSettled(r) => IsSettled(r)')
      BY <1>1, <1>3, <2>1, <2>5
    <3>2. CASE record[r].date < reading'.from
      <4>1. \E s \in Ids : record[r].date < saved[s].date
        BY <1>0, <2>3, <2>5, <3>2
      <4> QED BY <1>5, <2>2, <2>5, <3>1, <4>1
    <3>3. CASE record[r].date >= reading'.from
      <4>1. r \in Visible'
        <5>1. Max({1, reading'.from}) = IF 1 >= reading'.from THEN 1 ELSE reading'.from
          BY <2>3, TwoNumbers
        <5>2. record[r].date >= Max({1, reading'.from})
          BY <1>0, <2>3, <2>5, <3>3, <5>1
        <5> QED BY <2>1, <5>2 DEF Visible
      <4>2. \E i \in DOMAIN Listed' : Listed'[i] = r /\ i > 0
        <5>1. PICK i \in DOMAIN Listed' : Listed'[i] = r
          BY <2>4, <4>1, NextListIs DEF HasAll
        <5>2. i > 0
          BY <2>4, <5>1, NextListIs DEF HasAll
        <5> QED BY <5>1, <5>2
      <4>3. IsAhead(r)'
        BY <2>1, <4>2 DEF IsAhead
      <4> QED BY <2>1, <2>2, <3>3, <4>3
    <3> QED BY <1>0, <2>3, <3>2, <3>3
  <2>6. ASSUME NEW r \in Ids \ excused', ~(record[r].date > 0) PROVE Owed(r)'
    BY <2>1, <2>6
  <2> QED BY <1>2, <2>5, <2>6
<1>17. CASE FetchPage
  <2>1. /\ UNCHANGED <<source, today, record, saved, excused, aborts>> /\ reading.at = "list" /\ Harvesting
        /\ reading' = IF Remaining = <<>> THEN Resting
                      ELSE [reading EXCEPT !.at = "items", !.page = NextItems]
    BY <1>17 DEF FetchPage, Remaining, NextItems, Harvesting
  <2>2. \A r \in Ids : (IsSettled(r) => IsSettled(r)') /\ (IsLatest(r) => IsLatest(r)')
    BY <2>1 DEF IsSettled, IsLatest
  <2>3. CASE Remaining = <<>>
    <3>1. \A r \in Ids : ~IsAhead(r)
      <4>1. \A i \in DOMAIN Listed : i <= reading.offset /\ i \in Nat
        BY <2>3, ItemsAre, ListIs
      <4> QED BY <1>0, <2>1, <4>1 DEF IsAhead
    <3>2. ~Harvesting'
      BY <2>1, <2>3 DEF Harvesting, Resting
    <3>3. ASSUME NEW r \in Ids \ excused' PROVE Owed(r)'
      <4>1. Owed(r) /\ saved' = saved /\ record' = record
        BY <1>1, <2>1
      <4>2. IsLatest(r) => ~\E s \in Ids : record[r].date < saved[s].date
        BY <1>0 DEF IsLatest
      <4> QED BY <2>1, <2>2, <3>1, <3>2, <4>1, <4>2
    <3> QED BY <1>2, <3>3
  <2>4. CASE Remaining # <<>>
    <3>1. /\ reading'.at = "items" /\ reading'.from = reading.from /\ reading'.page = NextItems
          /\ reading'.offset = reading.offset
      BY <1>0, <2>1, <2>4 DEF Harvest
    <3>2. Harvesting' /\ Listed' = Listed
      BY <2>1, <3>1, ListKept DEF Harvesting
    <3>3. ASSUME NEW r \in Ids, IsAhead(r) PROVE IsAhead(r)'
      <4>1. PICK i \in DOMAIN Listed : i > reading.offset /\ Listed[i] = r
        BY <2>1, <3>3 DEF IsAhead
      <4>2. r \in Range(NextItems) \/ (source = "article" /\ i > reading.offset + Limit)
        BY <4>1, ItemsAre
      <4> QED BY <2>1, <3>1, <3>2, <4>1, <4>2 DEF IsAhead
    <3>4. ASSUME NEW r \in Ids \ excused' PROVE Owed(r)'
      <4>1. Owed(r) /\ record' = record
        BY <1>1, <2>1
      <4> QED BY <2>1, <2>2, <3>1, <3>2, <3>3, <4>1
    <3> QED BY <1>2, <3>4
  <2> QED BY <2>3, <2>4
<1>18. CASE EndPage
  <2>1. /\ UNCHANGED <<source, today, record, saved, excused, aborts>> /\ reading.at = "items"
        /\ reading.page = <<>> /\ Harvesting
        /\ reading' = IF source = "preprint" \/ Len(Listed) < reading.offset + Limit THEN Resting
                      ELSE [reading EXCEPT !.at = "list", !.offset = reading.offset + Limit]
    BY <1>18 DEF EndPage, Harvesting
  <2>2. \A r \in Ids : (IsSettled(r) => IsSettled(r)') /\ (IsLatest(r) => IsLatest(r)')
    BY <2>1 DEF IsSettled, IsLatest
  <2>3. \A r : r \notin Range(reading.page)
    BY <2>1 DEF Range
  <2>4. Len(Listed) \in Nat /\ DOMAIN Listed = 1 .. Len(Listed)
    BY ListIs
  <2>5. CASE source = "preprint" \/ Len(Listed) < reading.offset + Limit
    <3>1. \A r \in Ids : ~IsAhead(r)
      <4>1. source = "article" => \A i \in DOMAIN Listed : ~(i > reading.offset + Limit)
        BY <1>0, <2>4, <2>5
      <4> QED BY <1>0, <2>1, <2>3, <4>1 DEF IsAhead
    <3>2. ~Harvesting'
      BY <2>1, <2>5 DEF Harvesting, Resting
    <3>3. ASSUME NEW r \in Ids \ excused' PROVE Owed(r)'
      <4>1. Owed(r) /\ saved' = saved /\ record' = record
        BY <1>1, <2>1
      <4>2. IsLatest(r) => ~\E s \in Ids : record[r].date < saved[s].date
        BY <1>0 DEF IsLatest
      <4> QED BY <2>1, <2>2, <3>1, <3>2, <4>1, <4>2
    <3> QED BY <1>2, <3>3
  <2>6. CASE ~(source = "preprint" \/ Len(Listed) < reading.offset + Limit)
    <3>1. /\ reading'.at = "list" /\ reading'.from = reading.from
          /\ reading'.offset = reading.offset + Limit
      BY <1>0, <2>1, <2>6 DEF Harvest
    <3>2. Harvesting' /\ Listed' = Listed
      BY <2>1, <3>1, ListKept DEF Harvesting
    <3>3. \A r \in Ids : IsAhead(r) => IsAhead(r)'
      BY <2>1, <2>3, <3>1, <3>2 DEF IsAhead
    <3>4. ASSUME NEW r \in Ids \ excused' PROVE Owed(r)'
      <4>1. Owed(r) /\ record' = record
        BY <1>1, <2>1
      <4> QED BY <2>1, <2>2, <3>1, <3>2, <3>3, <4>1
    <3> QED BY <1>2, <3>4
  <2> QED BY <2>5, <2>6
\* At rest and in a retry it is the rows that count.
<1>19. ASSUME ~Harvesting, ~Harvesting', UNCHANGED record,
              \A r \in Ids \ excused' : \/ IsSettled(r)'
                                        \/ /\ r \notin excused /\ saved'[r] = saved[r]
                                           /\ \A s \in Ids : record[r].date < saved'[s].date
                                                               => record[r].date < saved[s].date
       PROVE  PassedIsSettled'
  <2>1. ASSUME NEW r \in Ids \ excused' PROVE Owed(r)'
    <3>1. CASE IsSettled(r)'
      BY <1>19, <3>1
    <3>2. CASE /\ r \notin excused /\ saved'[r] = saved[r]
               /\ \A s \in Ids : record[r].date < saved'[s].date => record[r].date < saved[s].date
      <4>1. Owed(r) /\ (IsSettled(r) => IsSettled(r)')
        BY <1>1, <1>3, <1>19, <3>2
      <4> QED BY <1>19, <3>2, <4>1
    <3> QED BY <1>19, <3>1, <3>2
  <2> QED BY <1>2, <2>1
<1>20. CASE BeginRetry
  <2>1. UNCHANGED <<record, saved, excused>> /\ reading.at = "rest" /\ reading'.at = "retry"
    BY <1>20 DEF BeginRetry, Resting
  <2> QED BY <1>19, <2>1 DEF Harvesting
<1>21. ASSUME NEW r \in Ids, r \in reading.retry, reading' \in {Resting, [reading EXCEPT !.retry = @ \ {r}]}
       PROVE  ~Harvesting /\ ~Harvesting'
  <2>1. ~Harvesting
    BY <1>0, <1>21
  <2>2. reading'.at \in {"rest", reading.at}
    BY <1>0, <1>21 DEF Resting, Harvest
  <2> QED BY <2>1, <2>2 DEF Harvesting
<1>22. ASSUME NEW r \in Ids, RetryItem(r) PROVE PassedIsSettled'
  <2>1. ~Harvesting /\ ~Harvesting' /\ UNCHANGED record
    BY <1>21, <1>22 DEF RetryItem, RetryOthers
  <2>2. CASE UNCHANGED <<saved, excused>>
    BY <1>19, <2>1, <2>2
  <2>3. CASE /\ saved' = [saved EXCEPT ![r] = SaveRead(r)]
             /\ excused' = (excused \cup {s \in Ids : record[s].date < record[r].date}) \ {r}
    <3>1. saved'[r] = SaveRead(r) /\ \A s \in Ids \ {r} : saved'[s] = saved[s]
      BY <1>0, <2>3
    <3>2. SaveRead(r).got = record[r].date /\ SaveRead(r).date \in {0, record[r].date}
      BY RowTypes
    <3>3. IsSettled(r)'
      BY <2>1, <3>1, <3>2 DEF IsSettled
    <3>4. ASSUME NEW t \in Ids \ excused', t # r
          PROVE  /\ t \notin excused /\ saved'[t] = saved[t]
                 /\ \A s \in Ids : record[t].date < saved'[s].date => record[t].date < saved[s].date
      <4>1. t \notin excused /\ saved'[t] = saved[t] /\ ~(record[t].date < record[r].date)
        BY <2>3, <3>1, <3>4
      <4>2. ~(record[t].date < saved'[r].date)
        BY <1>0, <3>1, <3>2, <4>1
      <4> QED BY <3>1, <4>1, <4>2
    <3> QED BY <1>19, <2>1, <3>3, <3>4
  <2> QED BY <1>22, <2>2, <2>3 DEF RetryItem
<1>23. ASSUME NEW r \in Ids, RetryStops(r) PROVE PassedIsSettled'
  <2>1. ~Harvesting /\ ~Harvesting' /\ UNCHANGED record /\ saved' = InProgress(r) /\ excused' = excused \cup {r}
    BY <1>21, <1>23 DEF RetryStops
  <2>2. (\A s \in Ids : saved'[s].date = saved[s].date) /\ \A s \in Ids \ {r} : saved'[s] = saved[s]
    BY <2>1, RowTypes
  <2> QED BY <1>19, <2>1, <2>2
<1> QED BY <1>6, <1>9, <1>10, <1>11, <1>12, <1>13, <1>14, <1>15, <1>16, <1>17, <1>18, <1>20, <1>22, <1>23
        DEF ListingNext

\* A harvest leaves nothing behind the day it has come to, wherever it stops: what it has
\* passed is saved as it is at the source, fails, or has its day still ahead
\* (harvest_articles, harvest_preprint).
THEOREM ListingCorrect == ListingSpec => []ListingInv
<1>1. ListingInit => ListingInv
  BY ListingTypeStart, NoneToComeStart, PassedStart DEF ListingInv
<1>2. ListingInv /\ [ListingNext]_listingVars => ListingInv'
  BY ListingTypeStep, NoneToComeStep, PassedStep DEF ListingInv
<1> QED BY <1>1, <1>2, PTL DEF ListingSpec

\* Between harvests, what is from before the day where the next one begins is saved as it
\* is at the source or has a row for the retry, but for the records a harvest cannot be
\* blamed for (harvest_articles, harvest_preprint, get_latest_article, get_latest_preprint).
THEOREM PassedAreSaved == ListingSpec => []CursorPassesOnlySaved
<1>1. ASSUME ListingInv PROVE CursorPassesOnlySaved
  <2>1. ListingTypeOK /\ PassedIsSettled
    BY <1>1 DEF ListingInv
  <2>2. ASSUME reading.at = "rest", NEW r \in Ids \ excused, record[r].date > 0, record[r].date < Cursor
        PROVE  saved[r].got = record[r].date \/ saved[r].status = "failed"
    <3>1. \E s \in Ids : saved[s].date = Cursor
      <4>1. record[r].date \in Nat
        BY <2>1, ListingFacts
      <4>2. Cursor # 0
        BY <2>2, <4>1
      <4> QED BY <2>1, <4>2, CursorIs
    <3>2. \E s \in Ids : record[r].date < saved[s].date
      BY <2>2, <3>1
    <3>3. ~Harvesting
      BY <2>2 DEF Harvesting
    <3> QED BY <2>1, <2>2, <3>2, <3>3 DEF PassedIsSettled, IsSettled
  <2> QED BY <2>2 DEF CursorPassesOnlySaved
<1> QED BY <1>1, ListingCorrect, PTL

\* The types of the variables hold in every state (HarvestedArticle, HarvestedPreprint).
THEOREM ListingTypeCorrect == ListingSpec => []ListingTypeOK
<1>1. ListingInv => ListingTypeOK
  BY DEF ListingInv
<1> QED BY <1>1, ListingCorrect, PTL
================================================================================
