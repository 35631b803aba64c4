----------------------------- MODULE Dcap_proofs -----------------------------
(***************************************************************************)
(* What the stable sort does to every finite sequence of stamped messages: *)
(* a rearrangement in the order of the stamps that keeps equal stamps in   *)
(* the order they came in.  What Only finds in every sequence: all the     *)
(* members of the set, in their order.  And what the other proofs share:   *)
(* that a recursive definition has a function, and the joining of          *)
(* sequences to one.                                                       *)
(***************************************************************************)
EXTENDS Dcap, Functions, FiniteSetTheorems, SequenceTheorems, TLAPS

\* A sequence of records with a stamp.
Stamped(S) == \A m \in S : m.stamp \in Int

LEMMA NotAfterFinite ==
  ASSUME NEW S, NEW s \in Seq(S), NEW j \in 1..Len(s)
  PROVE  /\ NotAfter(s, j) \subseteq 1..Len(s)
         /\ IsFiniteSet(NotAfter(s, j))
         /\ Cardinality(NotAfter(s, j)) \in Nat
         /\ Cardinality(NotAfter(s, j)) <= Len(s)
<1>1. Len(s) \in Nat
  OBVIOUS
<1>2. NotAfter(s, j) \subseteq 1..Len(s)
  BY DEF NotAfter
<1>3. IsFiniteSet(1..Len(s)) /\ Cardinality(1..Len(s)) = Len(s)
  BY <1>1, FS_Interval
<1>4. QED
  BY <1>2, <1>3, FS_Subset, FS_CardinalityType

\* The rank of a message is a place of the sorted sequence.
LEMMA RankInRange ==
  ASSUME NEW S, Stamped(S), NEW s \in Seq(S), NEW j \in 1..Len(s)
  PROVE  Rank(s, j) \in 1..Len(s)
<1>1. s[j].stamp \in Int
  BY DEF Stamped
<1>2. j \in NotAfter(s, j)
  BY <1>1 DEF NotAfter
<1>3. Cardinality(NotAfter(s, j)) # 0
  BY <1>2, NotAfterFinite, FS_EmptySet
<1>4. QED
  BY <1>3, NotAfterFinite DEF Rank

\* A message that goes before another one has a smaller rank.
LEMMA RankMonotone ==
  ASSUME NEW S, Stamped(S), NEW s \in Seq(S),
         NEW j \in 1..Len(s), NEW k \in 1..Len(s),
         \/ s[j].stamp < s[k].stamp
         \/ s[j].stamp = s[k].stamp /\ j < k
  PROVE  Rank(s, j) < Rank(s, k)
<1>1. \A i \in 1..Len(s) : s[i].stamp \in Int
  BY DEF Stamped
<1>2. NotAfter(s, j) \subseteq NotAfter(s, k)
  BY <1>1 DEF NotAfter
<1>3. k \in NotAfter(s, k) /\ k \notin NotAfter(s, j)
  BY <1>1 DEF NotAfter
<1>4. /\ Cardinality(NotAfter(s, j)) <= Cardinality(NotAfter(s, k))
      /\ Cardinality(NotAfter(s, j)) # Cardinality(NotAfter(s, k))
  BY <1>2, <1>3, NotAfterFinite, FS_Subset
<1>5. QED
  BY <1>4, NotAfterFinite DEF Rank

LEMMA RankInjective ==
  ASSUME NEW S, Stamped(S), NEW s \in Seq(S),
         NEW j \in 1..Len(s), NEW k \in 1..Len(s), Rank(s, j) = Rank(s, k)
  PROVE  j = k
<1>1. s[j].stamp \in Int /\ s[k].stamp \in Int
  BY DEF Stamped
<1>2. Rank(s, j) \in Int /\ Rank(s, k) \in Int
  BY RankInRange
<1>3. SUFFICES ASSUME j # k
               PROVE  FALSE
  OBVIOUS
<1>4. CASE s[j].stamp < s[k].stamp \/ (s[j].stamp = s[k].stamp /\ j < k)
  BY <1>2, <1>4, RankMonotone
<1>5. CASE s[k].stamp < s[j].stamp \/ (s[k].stamp = s[j].stamp /\ k < j)
  BY <1>2, <1>5, RankMonotone
<1>6. QED
  BY <1>1, <1>3, <1>4, <1>5

\* Every place of the sorted sequence is the rank of some message.
LEMMA RankOnto ==
  ASSUME NEW S, Stamped(S), NEW s \in Seq(S), NEW i \in 1..Len(s)
  PROVE  \E j \in 1..Len(s) : Rank(s, j) = i
<1> DEFINE places == 1..Len(s)
           rank == [j \in places |-> Rank(s, j)]
<1>1. rank \in [places -> places]
  BY RankInRange
<1>2. \A j, k \in places : rank[j] = rank[k] => j = k
  BY RankInjective
<1>3. rank \in Injection(places, places)
  BY <1>1, <1>2 DEF Injection, IsInjective
<1>4. IsFiniteSet(places)
  BY FS_Interval
<1>5. rank \in Surjection(places, places)
  BY <1>3, <1>4, FS_Injection
<1>6. \E j \in places : rank[j] = i
  BY <1>5 DEF Surjection
<1>7. QED
  BY <1>6

LEMMA PlaceOfRank ==
  ASSUME NEW S, Stamped(S), NEW s \in Seq(S), NEW i \in 1..Len(s)
  PROVE  Place(s, i) \in 1..Len(s) /\ Rank(s, Place(s, i)) = i
  BY RankOnto DEF Place

\* The sort keeps the length and the messages.
THEOREM StableSortRearranges ==
  ASSUME NEW S, Stamped(S), NEW s \in Seq(S)
  PROVE  /\ StableSort(s) \in Seq(S)
         /\ Len(StableSort(s)) = Len(s)
         /\ \A i \in 1..Len(s) : \E j \in 1..Len(s) : StableSort(s)[i] = s[j]
         /\ \A j \in 1..Len(s) : \E i \in 1..Len(s) : StableSort(s)[i] = s[j]
<1>1. \A i \in 1..Len(s) : Place(s, i) \in 1..Len(s)
  BY PlaceOfRank
<1>2. StableSort(s) \in [1..Len(s) -> S]
  BY <1>1 DEF StableSort
<1>3. StableSort(s) \in Seq(S) /\ Len(StableSort(s)) = Len(s)
  BY <1>2
<1>4. ASSUME NEW j \in 1..Len(s)
      PROVE  \E i \in 1..Len(s) : StableSort(s)[i] = s[j]
  <2>1. Rank(s, j) \in 1..Len(s)
    BY RankInRange
  <2>2. Place(s, Rank(s, j)) = j
    BY <2>1, PlaceOfRank, RankInjective
  <2>3. QED
    BY <2>1, <2>2 DEF StableSort
<1>5. \A i \in 1..Len(s) : \E j \in 1..Len(s) : StableSort(s)[i] = s[j]
  BY <1>1 DEF StableSort
<1>6. QED
  BY <1>3, <1>4, <1>5

\* The sort puts the messages in the order of their stamps.
THEOREM StableSortSorts ==
  ASSUME NEW S, Stamped(S), NEW s \in Seq(S)
  PROVE  SortedByStamp(StableSort(s))
<1>1. Len(StableSort(s)) = Len(s)
  BY StableSortRearranges
<1>2. SUFFICES ASSUME NEW i \in 1..Len(s), NEW j \in 1..Len(s), i <= j
               PROVE  StableSort(s)[i].stamp <= StableSort(s)[j].stamp
  BY <1>1 DEF SortedByStamp
<1>3. /\ Place(s, i) \in 1..Len(s) /\ Rank(s, Place(s, i)) = i
      /\ Place(s, j) \in 1..Len(s) /\ Rank(s, Place(s, j)) = j
  BY PlaceOfRank
<1>4. s[Place(s, i)].stamp \in Int /\ s[Place(s, j)].stamp \in Int
  BY <1>3 DEF Stamped
<1>5. ~(s[Place(s, j)].stamp < s[Place(s, i)].stamp)
  BY <1>2, <1>3, RankMonotone
<1>6. QED
  BY <1>4, <1>5 DEF StableSort

\* Messages with the same stamp stay in the order they came in.
THEOREM StableSortIsStable ==
  ASSUME NEW S, Stamped(S), NEW s \in Seq(S),
         NEW i \in 1..Len(s), NEW j \in 1..Len(s), i < j,
         StableSort(s)[i].stamp = StableSort(s)[j].stamp
  PROVE  Place(s, i) < Place(s, j)
<1>1. /\ Place(s, i) \in 1..Len(s) /\ Rank(s, Place(s, i)) = i
      /\ Place(s, j) \in 1..Len(s) /\ Rank(s, Place(s, j)) = j
  BY PlaceOfRank
<1>2. s[Place(s, i)].stamp = s[Place(s, j)].stamp
  BY DEF StableSort
<1>3. ~(Place(s, j) < Place(s, i))
  BY <1>1, <1>2, RankMonotone
<1>4. Place(s, i) # Place(s, j)
  BY <1>1
<1>5. QED
  BY <1>1, <1>3, <1>4

------------------------------------------------------------------------------
(* Induction, and what follows from it for sorted sequences *)

\* Induction over the natural numbers is used as the principle of the least
\* counterexample.
Before == {pair \in Nat \X Nat : pair[1] < pair[2]}

LEMMA Least ==
  ASSUME NEW T, T \subseteq Nat, T # {}
  PROVE  \E x \in T : \A y \in T : x <= y
<1>1. IsWellFoundedOn(Before, Nat)
  BY NatLessThanWellFounded DEF Before, OpToRel
<1>2. PICK x \in T : \A y \in T : ~(<<y, x>> \in Before)
  BY <1>1, WFMin
<1>3. ASSUME NEW y \in T
      PROVE  x <= y
  <2>1. x \in Nat /\ y \in Nat /\ <<y, x>> \notin Before
    BY <1>2
  <2>2. QED
    BY <2>1 DEF Before
<1>4. QED
  BY <1>3

\* A set of places that has, with a place, the places before it.
LEMMA PrefixSet ==
  ASSUME NEW n \in Nat, NEW T \in SUBSET (1..n),
         \A i \in T : \A j \in 1..n : j <= i => j \in T
  PROVE  Cardinality(T) \in 0..n /\ T = 1..Cardinality(T)
<1> DEFINE Out == {i \in 1..n + 1 : i \notin T}
<1>1. Out \subseteq Nat /\ n + 1 \in Out
  OBVIOUS
<1>2. PICK m \in Out : \A i \in Out : m <= i
  BY <1>1, Least
<1>3. \A i \in 1..n : i \in T <=> i < m
  BY <1>2
<1>4. m \in 1..n + 1
  BY <1>2
<1>5. T = 1..m - 1
  <2>1. \A i \in T : i \in 1..m - 1
    BY <1>3, <1>4
  <2>2. \A i \in 1..m - 1 : i \in T
    BY <1>3, <1>4
  <2>3. QED
    BY <2>1, <2>2
<1>6. Cardinality(T) = m - 1
  BY <1>4, <1>5, FS_Interval
<1>7. QED
  BY <1>4, <1>5, <1>6


\* A map of n places to n places that keeps their order leaves them in place.
LEMMA IncreasingIsIdentity ==
  ASSUME NEW n \in Nat, NEW f \in [1..n -> 1..n],
         \A i, j \in 1..n : i < j => f[i] < f[j]
  PROVE  \A i \in 1..n : f[i] = i
<1> DEFINE Low == {i \in 1..n : f[i] < i}
           High == {k \in 0..n - 1 : f[n - k] > n - k}
<1>1. Low = {}
  <2>1. SUFFICES ASSUME Low # {}
                 PROVE  FALSE
    OBVIOUS
  <2>2. PICK i \in Low : \A j \in Low : i <= j
    <3>1. Low \subseteq Nat
      OBVIOUS
    <3> HIDE DEF Low
    <3>2. QED
      BY <2>1, <3>1, Least
  <2>3. i \in 1..n /\ f[i] \in 1..n /\ f[i] < i
    BY <2>2
  <2>4. f[f[i]] < f[i]
    BY <2>3
  <2>5. QED
    BY <2>2, <2>3, <2>4
<1>2. High = {}
  <2>1. SUFFICES ASSUME High # {}
                 PROVE  FALSE
    OBVIOUS
  <2>2. PICK k \in High : \A j \in High : k <= j
    <3>1. High \subseteq Nat
      OBVIOUS
    <3> HIDE DEF High
    <3>2. QED
      BY <2>1, <3>1, Least
  <2>3. /\ k \in 0..n - 1 /\ n - k \in 1..n
        /\ f[n - k] \in 1..n /\ f[n - k] > n - k
    BY <2>2
  <2>4. f[f[n - k]] > f[n - k]
    BY <2>3
  <2>5. n - f[n - k] \in 0..n - 1 /\ n - (n - f[n - k]) = f[n - k]
    BY <2>3
  <2>6. QED
    BY <2>2, <2>3, <2>4, <2>5
<1>3. SUFFICES ASSUME NEW i \in 1..n, f[i] > i
               PROVE  FALSE
  BY <1>1
<1>4. n - i \in 0..n - 1 /\ n - (n - i) = i
  OBVIOUS
<1>5. QED
  BY <1>2, <1>3, <1>4

\* The messages of s, message at[i] at place i, in the order of their stamps,
\* and equal stamps in the order of s.
SortsStably(s, t, at) ==
  /\ Len(t) = Len(s)
  /\ at \in [1..Len(s) -> 1..Len(s)]
  /\ \A i \in 1..Len(s) : t[i] = s[at[i]]
  /\ \A i, j \in 1..Len(s) :
       i < j => \/ t[i].stamp < t[j].stamp
                \/ t[i].stamp = t[j].stamp /\ at[i] < at[j]

\* Only the stable sort is like that.
THEOREM StableSortIsUnique ==
  ASSUME NEW S, Stamped(S), NEW s \in Seq(S), NEW t \in Seq(S), NEW at,
         SortsStably(s, t, at)
  PROVE  StableSort(s) = t /\ \A i \in 1..Len(s) : Place(s, i) = at[i]
<1> USE DEF SortsStably
<1> DEFINE rank == [i \in 1..Len(s) |-> Rank(s, at[i])]
<1>1. rank \in [1..Len(s) -> 1..Len(s)]
  BY RankInRange
<1>2. ASSUME NEW i \in 1..Len(s), NEW j \in 1..Len(s), i < j
      PROVE  rank[i] < rank[j]
  <2>1. at[i] \in 1..Len(s) /\ at[j] \in 1..Len(s)
    OBVIOUS
  <2>2. \/ s[at[i]].stamp < s[at[j]].stamp
        \/ s[at[i]].stamp = s[at[j]].stamp /\ at[i] < at[j]
    BY <1>2
  <2>3. Rank(s, at[i]) < Rank(s, at[j])
    BY <2>1, <2>2, RankMonotone
  <2>4. QED
    BY <2>3
<1>3. \A i \in 1..Len(s) : Rank(s, at[i]) = i
  <2>1. Len(s) \in Nat
    OBVIOUS
  <2>2. \A i \in 1..Len(s) : rank[i] = i
    <3> HIDE DEF rank
    <3>1. QED
      BY <1>1, <1>2, <2>1, IncreasingIsIdentity
  <2>3. QED
    BY <2>2
<1>4. ASSUME NEW i \in 1..Len(s)
      PROVE  Place(s, i) = at[i]
  <2>1. at[i] \in 1..Len(s) /\ Rank(s, at[i]) = i
    BY <1>3
  <2>2. Place(s, i) \in 1..Len(s) /\ Rank(s, Place(s, i)) = i
    BY PlaceOfRank
  <2>3. QED
    BY <2>1, <2>2, RankInjective
<1>5. StableSort(s) = [i \in 1..Len(s) |-> t[i]]
  BY <1>4 DEF StableSort
<1>6. QED
  BY <1>4, <1>5

\* What is in order stays as it is.
LEMMA SortOfSorted ==
  ASSUME NEW S, Stamped(S), NEW s \in Seq(S), SortedByStamp(s)
  PROVE  StableSort(s) = s
<1> DEFINE at == [i \in 1..Len(s) |-> i]
<1>1. \A i \in 1..Len(s) : s[i].stamp \in Int
  BY DEF Stamped
<1>2. \A i, j \in 1..Len(s) :
        i < j => \/ s[i].stamp < s[j].stamp
                 \/ s[i].stamp = s[j].stamp /\ at[i] < at[j]
  BY <1>1 DEF SortedByStamp
<1>3. /\ at \in [1..Len(s) -> 1..Len(s)]
      /\ \A i \in 1..Len(s) : s[i] = s[at[i]]
  OBVIOUS
<1>4. SortsStably(s, s, at)
  BY <1>2, <1>3 DEF SortsStably
<1> HIDE DEF at
<1>5. QED
  BY <1>4, StableSortIsUnique

LEMMA DivisionBounds ==
  ASSUME NEW a \in Int, NEW b \in Nat \ {0}
  PROVE  /\ a \div b \in Int
         /\ b * (a \div b) <= a /\ a < b * (a \div b) + b
         /\ a >= 0 => a \div b \in Nat
  BY Z3

------------------------------------------------------------------------------
(* Functions defined step by step *)

Agree(f, g, n) ==
  /\ f[0] = g[0]
  /\ \A i \in 1..n : f[i - 1] = g[i - 1] => f[i] = g[i]

LEMMA StepByStep ==
  ASSUME NEW n \in Nat, NEW f, NEW g, Agree(f, g, n)
  PROVE  \A i \in 0..n : f[i] = g[i]
<1> DEFINE Apart == {i \in 0..n : f[i] # g[i]}
<1>1. SUFFICES ASSUME Apart # {}
               PROVE  FALSE
  OBVIOUS
<1>2. PICK i \in Apart : \A j \in Apart : i <= j
  <2>1. Apart \subseteq Nat
    OBVIOUS
  <2> HIDE DEF Apart
  <2>2. QED
    BY <1>1, <2>1, Least
<1>3. i \in 1..n /\ i - 1 \in 0..n /\ ~(i <= i - 1)
  BY <1>2 DEF Agree
<1>4. f[i - 1] = g[i - 1]
  BY <1>2, <1>3
<1>5. QED
  BY <1>2, <1>3, <1>4 DEF Agree

Stepwise(f, n, T, start, step) ==
  /\ f \in [0..n -> T] /\ f[0] = start
  /\ \A i \in 1..n : f[i] = step[i][f[i - 1]]

\* A value for 0 and a step from each number to the next make a function.
LEMMA StepsExist ==
  ASSUME NEW n \in Nat, NEW T, NEW start \in T, NEW step \in [1..n -> [T -> T]]
  PROVE  \E f : Stepwise(f, n, T, start, step)
<1> DEFINE Fits(k, f) == Stepwise(f, k, T, start, step)
           Missing == {k \in 0..n : ~\E f : Fits(k, f)}
<1> USE DEF Stepwise
<1>1. Fits(0, [i \in 0..0 |-> start])
  OBVIOUS
<1>2. ASSUME NEW k \in 1..n, NEW f, Fits(k - 1, f)
      PROVE  \E g : Fits(k, g)
  <2> DEFINE v == step[k][f[k - 1]]
             g == [i \in 0..k |-> IF i = k THEN v ELSE f[i]]
  <2>1. f[k - 1] \in T /\ k - 1 \in 0..k /\ k # 0 /\ 0 \in 0..k
    BY <1>2
  <2>2. v \in T
    BY <2>1
  <2>3. \A i \in 0..k : i # k => i \in 0..k - 1 /\ f[i] \in T
    BY <1>2
  <2>4. v = step[k][f[k - 1]]
    OBVIOUS
  <2> HIDE DEF v
  <2>5. g \in [0..k -> T]
    BY <2>2, <2>3
  <2>6. \A i \in 0..k : g[i] = IF i = k THEN v ELSE f[i]
    OBVIOUS
  <2> HIDE DEF g
  <2>7. ASSUME NEW i \in 1..k
        PROVE  g[i] = step[i][g[i - 1]]
    <3>1. i \in 0..k /\ i - 1 \in 0..k /\ i - 1 # k
      OBVIOUS
    <3>2. g[i - 1] = f[i - 1]
      BY <2>6, <3>1
    <3>3. CASE i = k
      BY <2>4, <2>6, <3>1, <3>2, <3>3
    <3>4. CASE i # k
      <4>1. i \in 1..k - 1
        BY <3>4
      <4>2. f[i] = step[i][f[i - 1]]
        BY <1>2, <4>1
      <4>3. QED
        BY <2>6, <3>1, <3>2, <3>4, <4>2
    <3>5. QED
      BY <3>3, <3>4
  <2>8. g[0] = start
    BY <1>2, <2>1, <2>6
  <2>9. QED
    BY <2>5, <2>7, <2>8
<1> HIDE DEF Fits
<1>3. Missing = {}
  <2>1. SUFFICES ASSUME Missing # {}
                 PROVE  FALSE
    OBVIOUS
  <2>2. PICK k \in Missing : \A j \in Missing : k <= j
    <3>1. Missing \subseteq Nat
      OBVIOUS
    <3> HIDE DEF Missing
    <3>2. QED
      BY <2>1, <3>1, Least
  <2>3. k # 0
    BY <1>1, <2>2
  <2>4. k \in 1..n /\ k - 1 \in 0..n /\ ~(k <= k - 1)
    BY <2>2, <2>3
  <2>5. \E f : Fits(k - 1, f)
    BY <2>2, <2>4
  <2>6. \E f : Fits(k, f)
    BY <1>2, <2>4, <2>5
  <2>7. QED
    BY <2>2, <2>6
<1>4. n \in 0..n
  OBVIOUS
<1>5. \E f : Fits(n, f)
  BY <1>3, <1>4
<1>6. QED
  BY <1>5 DEF Fits

------------------------------------------------------------------------------
(* What a recursive definition computes *)

\* F[d] computes a value of T for d from those for the members of D that have a
\* smaller rank.
Descends(D, T, n, rank, t, F) ==
  /\ n \in Nat /\ rank \in [D -> 0..n] /\ t \in T
  /\ F \in [D -> [[D -> T] -> T]]
  /\ \A d \in D, g \in [D -> T], h \in [D -> T] :
       (\A e \in D : rank[e] < rank[d] => g[e] = h[e]) => F[d][g] = F[d][h]

Computes(D, T, F, f) == f \in [D -> T] /\ \A d \in D : f[d] = F[d][f]

\* Such a computation defines a function.
LEMMA RecursionExists ==
  ASSUME NEW D, NEW T, NEW n, NEW rank, NEW t, NEW F,
         Descends(D, T, n, rank, t, F)
  PROVE  \E f : Computes(D, T, F, f)
<1> USE DEF Descends, Computes
<1> DEFINE G == [D -> T]
           top == n + 2
           start == [d \in D |-> t]
           step == [i \in 1..top |-> [g \in G |-> [d \in D |-> F[d][g]]]]
<1>1. top \in Nat /\ start \in G
  OBVIOUS
<1>2. \A d \in D, g \in G : F[d][g] \in T
  OBVIOUS
<1>3. step \in [1..top -> [G -> G]]
  BY <1>2
<1>4. PICK q : /\ q \in [0..top -> G]
               /\ \A i \in 1..top : q[i] = step[i][q[i - 1]]
  <2> HIDE DEF G, step, start, top
  <2>1. \E q : Stepwise(q, top, G, start, step)
    BY <1>1, <1>3, StepsExist
  <2>2. QED
    BY <2>1 DEF Stepwise
<1>5. ASSUME NEW i \in 1..top
      PROVE  q[i] \in G /\ q[i - 1] \in G /\ \A d \in D : q[i][d] = F[d][q[i - 1]]
  <2>1. i \in 0..top /\ i - 1 \in 0..top
    BY <1>1
  <2>2. q[i] \in G /\ q[i - 1] \in G
    BY <1>4, <2>1
  <2>3. q[i] = [d \in D |-> F[d][q[i - 1]]]
    BY <1>4, <2>2
  <2>4. QED
    BY <2>2, <2>3
<1> DEFINE Bad == {i \in 1..n + 1 : \E d \in D : rank[d] < i /\ q[i + 1][d] # q[i][d]}
<1>6. Bad = {}
  <2>1. SUFFICES ASSUME Bad # {} PROVE FALSE
    OBVIOUS
  <2>2. PICK i \in Bad : \A j \in Bad : i <= j
    <3>1. Bad \subseteq Nat
      OBVIOUS
    <3> HIDE DEF Bad
    <3>2. QED
      BY <2>1, <3>1, Least
  <2>3. PICK d \in D : rank[d] < i /\ q[i + 1][d] # q[i][d]
    BY <2>2
  <2>4. i \in 1..n + 1 /\ i \in 1..top /\ i + 1 \in 1..top /\ i + 1 - 1 = i
    BY <2>2
  <2>5. /\ q[i + 1][d] = F[d][q[i]] /\ q[i][d] = F[d][q[i - 1]]
        /\ q[i] \in G /\ q[i - 1] \in G
    BY <1>5, <2>4
  <2>6. ASSUME NEW e \in D, rank[e] < rank[d] PROVE q[i][e] = q[i - 1][e]
    <3>1. rank[e] \in Nat /\ rank[d] \in Nat
      OBVIOUS
    <3>2. i - 1 \in 1..n + 1 /\ rank[e] < i - 1 /\ i - 1 + 1 = i /\ ~(i <= i - 1)
      BY <2>3, <2>4, <2>6, <3>1
    <3>3. i - 1 \notin Bad
      BY <2>2, <3>2
    <3>4. QED
      BY <3>2, <3>3
  <2> HIDE DEF Bad
  <2>7. F[d][q[i]] = F[d][q[i - 1]]
    BY <2>5, <2>6
  <2>8. QED
    BY <2>3, <2>5, <2>7
<1> DEFINE f == q[n + 1]
<1>7. n + 1 \in 1..n + 1 /\ n + 1 \in 1..top /\ n + 2 \in 1..top /\ n + 1 + 1 = n + 2 /\ n + 2 - 1 = n + 1
  OBVIOUS
<1>8. f \in G
  BY <1>5, <1>7
<1>9. ASSUME NEW d \in D PROVE f[d] = F[d][f]
  <2>1. q[n + 2][d] = F[d][f]
    BY <1>5, <1>7
  <2>2. rank[d] < n + 1
    <3>1. rank[d] \in 0..n
      OBVIOUS
    <3>2. QED
      BY <3>1
  <2>3. q[n + 2][d] = q[n + 1][d]
    <3>1. \A i \in 1..n + 1 : rank[d] < i => q[i + 1][d] = q[i][d]
      BY <1>6
    <3>2. q[n + 1 + 1][d] = q[n + 1][d]
      BY <1>7, <2>2, <3>1, Zenon
    <3>3. QED
      BY <1>7, <3>2, Zenon
  <2>4. QED
    BY <2>1, <2>3
<1> HIDE DEF f
<1>10. QED
  BY <1>8, <1>9

------------------------------------------------------------------------------
(* Sequences joined to one *)

\* f[i] are the first i sequences, one behind the other.
Joins(f, s) ==
  /\ f[0] = <<>>
  /\ \A i \in 1..Len(s) : f[i] = f[i - 1] \o s[i]

\* FlattenSeq of the community modules, which this module does not extend.
JoinedUp(s) ==
  IF Len(s) = 0 THEN s
  ELSE LET flatten[i \in 1..Len(s)] == IF i = 1 THEN s[i] ELSE flatten[i - 1] \o s[i]
       IN  flatten[Len(s)]

\* It joins the sequences from the first to the last.
LEMMA JoinsAll ==
  ASSUME NEW M, NEW s \in Seq(Seq(M))
  PROVE  \E f \in [0..Len(s) -> Seq(M)] : Joins(f, s) /\ JoinedUp(s) = f[Len(s)]
<1> DEFINE n == Len(s)
           step == [i \in 1..n |-> [u \in Seq(M) |-> u \o s[i]]]
           Body(f) == [i \in 1..n |-> IF i = 1 THEN s[i] ELSE f[i - 1] \o s[i]]
           flatten == CHOOSE f : f = Body(f)
<1>1. n \in Nat /\ \A i \in 1..n : s[i] \in Seq(M)
  OBVIOUS
<1>2. step \in [1..n -> [Seq(M) -> Seq(M)]]
  BY <1>1
<1>3. <<>> \in Seq(M)
  OBVIOUS
<1>4. PICK f \in [0..n -> Seq(M)] :
             f[0] = <<>> /\ \A i \in 1..n : f[i] = step[i][f[i - 1]]
  <2> HIDE DEF step, n
  <2>1. \E f : Stepwise(f, n, Seq(M), <<>>, step)
    BY <1>1, <1>2, <1>3, StepsExist
  <2>2. QED
    BY <2>1 DEF Stepwise
<1>5. \A i \in 1..n : f[i] = f[i - 1] \o s[i]
  <2>1. \A i \in 1..n : f[i - 1] \in Seq(M)
    <3>1. \A i \in 1..n : i - 1 \in 0..n
      BY <1>1
    <3>2. QED
      BY <1>4, <3>1
  <2>2. QED
    BY <1>4, <2>1
<1>6. Joins(f, s)
  BY <1>4, <1>5 DEF Joins
<1>7. CASE n = 0
  <2>1. JoinedUp(s) = s
    BY <1>7 DEF JoinedUp
  <2>2. s = <<>>
    BY <1>7
  <2>3. QED
    BY <1>4, <1>6, <1>7, <2>1, <2>2
<1>8. CASE n # 0
  <2> DEFINE g == [i \in 1..n |-> f[i]]
  <2>1. \A i \in 1..n : g[i] = IF i = 1 THEN s[i] ELSE g[i - 1] \o s[i]
    <3>1. ASSUME NEW i \in 1..n PROVE g[i] = IF i = 1 THEN s[i] ELSE g[i - 1] \o s[i]
      <4>1. g[i] = f[i - 1] \o s[i]
        BY <1>5
      <4>2. CASE i = 1
        <5>1. f[i - 1] = <<>> /\ s[i] \in Seq(M)
          BY <1>1, <1>4, <4>2
        <5>2. <<>> \o s[i] = s[i]
          BY <5>1
        <5>3. QED
          BY <4>1, <4>2, <5>1, <5>2
      <4>3. CASE i # 1
        <5>1. i - 1 \in 1..n
          BY <1>1, <4>3
        <5>2. QED
          BY <4>1, <4>3, <5>1
      <4>4. QED
        BY <4>2, <4>3
    <3>2. QED
      BY <3>1
  <2>2. g = Body(g)
    <3>1. g = [i \in 1..n |-> g[i]]
      OBVIOUS
    <3>2. \A i \in 1..n : g[i] = Body(g)[i]
      BY <2>1
    <3>3. QED
      BY <3>1, <3>2
  <2>3. flatten = Body(flatten)
    <3> HIDE DEF g
    <3>1. QED
      BY <2>2
  <2>4. JoinedUp(s) = flatten[n]
    BY <1>8 DEF JoinedUp
  <2> HIDE DEF flatten
  <2>5. \A i \in 1..n : flatten[i] = IF i = 1 THEN s[i] ELSE flatten[i - 1] \o s[i]
    BY <2>3
  <2> DEFINE h == [i \in 0..n |-> IF i = 0 THEN <<>> ELSE flatten[i]]
  <2>6. h[0] = f[0]
    BY <1>1, <1>4
  <2>7. ASSUME NEW i \in 1..n, h[i - 1] = f[i - 1] PROVE h[i] = f[i]
    <3>1. i \in 0..n /\ i - 1 \in 0..n /\ i # 0
      BY <1>1
    <3>2. h[i] = flatten[i]
      BY <3>1
    <3>3. CASE i = 1
      <4>1. flatten[i] = s[i]
        BY <2>5, <3>3
      <4>2. f[i] = s[i]
        <5>1. f[i - 1] = <<>> /\ s[i] \in Seq(M)
          BY <1>1, <1>4, <3>3
        <5>2. <<>> \o s[i] = s[i]
          BY <5>1
        <5>3. QED
          BY <1>5, <5>1, <5>2
      <4>3. QED
        BY <3>2, <4>1, <4>2
    <3>4. CASE i # 1
      <4>1. i - 1 # 0
        BY <3>4
      <4>2. h[i - 1] = flatten[i - 1]
        BY <3>1, <4>1
      <4>3. flatten[i] = flatten[i - 1] \o s[i]
        BY <2>5, <3>4
      <4>4. QED
        BY <1>5, <2>7, <3>2, <4>2, <4>3
    <3>5. QED
      BY <3>3, <3>4
  <2> HIDE DEF h
  <2>8. Agree(h, f, n)
    BY <2>6, <2>7 DEF Agree
  <2>9. h[n] = f[n]
    <3> HIDE DEF n
    <3>1. \A i \in 0..n : h[i] = f[i]
      BY <1>1, <2>8, StepByStep
    <3>2. QED
      BY <1>1, <3>1
  <2>10. h[n] = flatten[n]
    BY <1>1, <1>8 DEF h
  <2>11. QED
    BY <1>6, <2>4, <2>9, <2>10
<1>9. QED
  BY <1>7, <1>8

------------------------------------------------------------------------------
(* The members of a set in a sequence *)

\* f[i] are those among the first i.
OnlyUpto(f, s, S) ==
  /\ f[0] = <<>>
  /\ \A i \in 1..Len(s) :
       f[i] = IF s[i] \in S THEN Append(f[i - 1], s[i]) ELSE f[i - 1]

LEMMA OnlyIs ==
  ASSUME NEW M, NEW s \in Seq(M), NEW S
  PROVE  \E f \in [0..Len(s) -> Seq(M)] :
           OnlyUpto(f, s, S) /\ Only(s, S) = f[Len(s)]
<1> DEFINE n == Len(s)
           step == [i \in 1..n |-> [u \in Seq(M) |->
                      IF s[i] \in S THEN Append(u, s[i]) ELSE u]]
           Body(f) == [i \in 0..n |->
                         IF i = 0 THEN <<>>
                         ELSE IF s[i] \in S THEN Append(f[i - 1], s[i])
                         ELSE f[i - 1]]
           upto == CHOOSE f : f = Body(f)
<1>1. n \in Nat
  OBVIOUS
<1>2. step \in [1..n -> [Seq(M) -> Seq(M)]]
  OBVIOUS
<1>3. <<>> \in Seq(M)
  OBVIOUS
<1>4. PICK f \in [0..n -> Seq(M)] :
             f[0] = <<>> /\ \A i \in 1..n : f[i] = step[i][f[i - 1]]
  <2> HIDE DEF step, n
  <2>1. \E f : Stepwise(f, n, Seq(M), <<>>, step)
    BY <1>1, <1>2, <1>3, StepsExist
  <2>2. QED
    BY <2>1 DEF Stepwise
<1>5. \A i \in 1..n :
        f[i] = IF s[i] \in S THEN Append(f[i - 1], s[i]) ELSE f[i - 1]
  <2>1. \A i \in 1..n : f[i - 1] \in Seq(M)
    <3>1. \A i \in 1..n : i - 1 \in 0..n
      BY <1>1
    <3>2. QED
      BY <1>4, <3>1
  <2>2. QED
    BY <1>4, <2>1
<1>6. f = Body(f)
  <2>1. f = [i \in 0..n |-> f[i]]
    OBVIOUS
  <2>2. \A i \in 0..n : i = 0 \/ i \in 1..n
    BY <1>1
  <2>3. \A i \in 0..n : f[i] = Body(f)[i]
    BY <1>4, <1>5, <2>2
  <2>4. QED
    BY <2>1, <2>3
<1>7. upto = Body(upto)
  BY <1>6
<1>8. Only(s, S) = upto[n]
  BY DEF Only
<1> HIDE DEF upto
<1>9. /\ upto[0] = <<>>
      /\ \A i \in 1..n :
           upto[i] = IF s[i] \in S THEN Append(upto[i - 1], s[i]) ELSE upto[i - 1]
  <2>1. \A i \in 0..n : upto[i] = Body(upto)[i]
    BY <1>7
  <2>2. 0 \in 0..n /\ \A i \in 1..n : i \in 0..n /\ i # 0
    BY <1>1
  <2>3. QED
    BY <2>1, <2>2
<1> HIDE DEF n
<1>10. \A i \in 0..n : upto[i] = f[i]
  <2>1. upto[0] = f[0]
    BY <1>4, <1>9
  <2>2. \A i \in 1..n : upto[i - 1] = f[i - 1] => upto[i] = f[i]
    BY <1>5, <1>9
  <2>3. Agree(upto, f, n)
    BY <2>1, <2>2 DEF Agree
  <2>4. QED
    BY <1>1, <2>3, StepByStep
<1>11. Only(s, S) = f[n]
  BY <1>1, <1>8, <1>10
<1>12. OnlyUpto(f, s, S)
  BY <1>4, <1>5 DEF OnlyUpto, n
<1>13. QED
  BY <1>11, <1>12 DEF n

LEMMA OnlyOfNone == ASSUME NEW S PROVE Only(<<>>, S) = <<>>
<1> DEFINE s == <<>>
<1>1. s \in Seq({}) /\ Len(s) = 0
  OBVIOUS
<1> HIDE DEF s
<1>2. PICK f \in [0..Len(s) -> Seq({})] :
             OnlyUpto(f, s, S) /\ Only(s, S) = f[Len(s)]
  BY <1>1, OnlyIs
<1>3. Only(s, S) = <<>>
  BY <1>1, <1>2 DEF OnlyUpto
<1>4. QED
  BY <1>3 DEF s

LEMMA OnlyType ==
  ASSUME NEW M, NEW s \in Seq(M), NEW S
  PROVE  Only(s, S) \in Seq(M)
<1>1. Len(s) \in 0..Len(s)
  OBVIOUS
<1>2. QED
  BY <1>1, OnlyIs

\* One more element is looked at, and what was found stays.
LEMMA OnlyAppend ==
  ASSUME NEW M, NEW s \in Seq(M), NEW e \in M, NEW S
  PROVE  Only(Append(s, e), S) =
           IF e \in S THEN Append(Only(s, S), e) ELSE Only(s, S)
<1> DEFINE t == Append(s, e)
<1>1. /\ t \in Seq(M) /\ Len(t) = Len(s) + 1 /\ Len(s) \in Nat
      /\ t[Len(t)] = e /\ \A i \in 1..Len(s) : t[i] = s[i]
  OBVIOUS
<1> HIDE DEF t
<1>2. PICK f \in [0..Len(s) -> Seq(M)] :
             OnlyUpto(f, s, S) /\ Only(s, S) = f[Len(s)]
  BY OnlyIs
<1>3. PICK g \in [0..Len(t) -> Seq(M)] :
             OnlyUpto(g, t, S) /\ Only(t, S) = g[Len(t)]
  BY <1>1, OnlyIs
<1>4. \A i \in 0..Len(s) : f[i] = g[i]
  <2>1. f[0] = g[0]
    BY <1>2, <1>3 DEF OnlyUpto
  <2>2. ASSUME NEW i \in 1..Len(s), f[i - 1] = g[i - 1]
        PROVE  f[i] = g[i]
    <3>1. i \in 1..Len(t) /\ t[i] = s[i]
      BY <1>1
    <3>2. QED
      BY <1>2, <1>3, <2>2, <3>1 DEF OnlyUpto
  <2>3. Len(s) \in Nat
    BY <1>1
  <2>4. Agree(f, g, Len(s))
    BY <2>1, <2>2 DEF Agree
  <2>5. QED
    BY <2>3, <2>4, StepByStep
<1>5. Len(t) \in 1..Len(t) /\ Len(t) - 1 = Len(s) /\ Len(s) \in 0..Len(s)
  BY <1>1
<1>6. g[Len(t)] = IF e \in S THEN Append(g[Len(s)], e) ELSE g[Len(s)]
  BY <1>1, <1>3, <1>5 DEF OnlyUpto
<1>7. QED
  BY <1>2, <1>3, <1>4, <1>5, <1>6 DEF t

\* at[k] is the place in s of the k-th member of S.
Picks(s, S, r, at) ==
  /\ at \in [1..Len(r) -> 1..Len(s)]
  /\ \A j, k \in 1..Len(r) : j < k => at[j] < at[k]
  /\ \A k \in 1..Len(r) : r[k] = s[at[k]] /\ s[at[k]] \in S
  /\ \A i \in 1..Len(s) : s[i] \in S => \E k \in 1..Len(r) : at[k] = i

\* The same for the first n elements of s only.
PicksUpto(s, S, n, r, at) ==
  /\ at \in [1..Len(r) -> 1..n]
  /\ \A j, k \in 1..Len(r) : j < k => at[j] < at[k]
  /\ \A k \in 1..Len(r) : r[k] = s[at[k]] /\ s[at[k]] \in S
  /\ \A i \in 1..n : s[i] \in S => \E k \in 1..Len(r) : at[k] = i

LEMMA PickOne ==
  ASSUME NEW M, NEW s \in Seq(M), NEW S, NEW n \in 1..Len(s),
         NEW r \in Seq(M), NEW at, PicksUpto(s, S, n - 1, r, at), s[n] \in S
  PROVE  \E new : PicksUpto(s, S, n, Append(r, s[n]), new)
<1> DEFINE x == Append(r, s[n])
           new == [k \in 1..Len(x) |-> IF k = Len(x) THEN n ELSE at[k]]
<1>1. /\ x \in Seq(M) /\ Len(x) = Len(r) + 1 /\ Len(r) \in Nat
      /\ x[Len(x)] = s[n] /\ \A k \in 1..Len(r) : x[k] = r[k]
  OBVIOUS
<1> HIDE DEF x
<1>2. \A k \in 1..Len(x) : k = Len(x) \/ k \in 1..Len(r)
  BY <1>1
<1>3. \A k \in 1..Len(r) : /\ at[k] \in 1..n - 1 /\ r[k] = s[at[k]]
                           /\ s[at[k]] \in S
  BY DEF PicksUpto
<1>4. /\ new \in [1..Len(x) -> 1..n]
      /\ new[Len(x)] = n
      /\ \A k \in 1..Len(r) : new[k] = at[k] /\ k \in 1..Len(x)
  BY <1>1, <1>2, <1>3
<1> HIDE DEF new
<1>5. ASSUME NEW j \in 1..Len(x), NEW k \in 1..Len(x), j < k
      PROVE  new[j] < new[k]
  <2>1. j \in 1..Len(r)
    BY <1>1, <1>5
  <2>2. CASE k = Len(x)
    BY <1>3, <1>4, <2>1, <2>2
  <2>3. CASE k \in 1..Len(r)
    <3>1. at[j] < at[k]
      BY <1>5, <2>1, <2>3 DEF PicksUpto
    <3>2. QED
      BY <1>4, <2>1, <2>3, <3>1
  <2>4. QED
    BY <1>2, <2>2, <2>3
<1>6. ASSUME NEW k \in 1..Len(x)
      PROVE  x[k] = s[new[k]] /\ s[new[k]] \in S
  <2>1. CASE k = Len(x)
    BY <1>1, <1>4, <2>1
  <2>2. CASE k \in 1..Len(r)
    BY <1>1, <1>3, <1>4, <2>2
  <2>3. QED
    BY <1>2, <2>1, <2>2
<1>7. ASSUME NEW i \in 1..n, s[i] \in S
      PROVE  \E k \in 1..Len(x) : new[k] = i
  <2>1. CASE i = n
    <3>1. Len(x) \in 1..Len(x)
      BY <1>1
    <3>2. QED
      BY <1>4, <2>1, <3>1
  <2>2. CASE i # n
    <3>1. i \in 1..n - 1
      BY <2>2
    <3>2. PICK k \in 1..Len(r) : at[k] = i
      BY <1>7, <3>1 DEF PicksUpto
    <3>3. QED
      BY <1>4, <3>2
  <2>3. QED
    BY <2>1, <2>2
<1>8. PicksUpto(s, S, n, x, new)
  BY <1>4, <1>5, <1>6, <1>7 DEF PicksUpto
<1>9. QED
  BY <1>8 DEF x

LEMMA PickNone ==
  ASSUME NEW M, NEW s \in Seq(M), NEW S, NEW n \in 1..Len(s),
         NEW r \in Seq(M), NEW at, PicksUpto(s, S, n - 1, r, at), s[n] \notin S
  PROVE  PicksUpto(s, S, n, r, at)
<1>1. \A k \in 1..Len(r) : at[k] \in 1..n - 1
  BY DEF PicksUpto
<1>2. at \in [1..Len(r) -> 1..n]
  BY DEF PicksUpto
<1>3. ASSUME NEW i \in 1..n, s[i] \in S
      PROVE  \E k \in 1..Len(r) : at[k] = i
  <2>1. i \in 1..n - 1
    BY <1>3
  <2>2. QED
    BY <1>3, <2>1 DEF PicksUpto
<1>4. QED
  BY <1>2, <1>3 DEF PicksUpto

\* Only finds all of them, in the order of s.
LEMMA OnlyPicks ==
  ASSUME NEW M, NEW s \in Seq(M), NEW S
  PROVE  \E at : Picks(s, S, Only(s, S), at)
<1>1. PICK f \in [0..Len(s) -> Seq(M)] :
             OnlyUpto(f, s, S) /\ Only(s, S) = f[Len(s)]
  BY OnlyIs
<1> DEFINE Lost == {n \in 0..Len(s) : ~\E at : PicksUpto(s, S, n, f[n], at)}
<1>2. Len(s) \in Nat
  OBVIOUS
<1>3. \E at : PicksUpto(s, S, 0, f[0], at)
  <2> DEFINE none == [k \in 1..0 |-> 0]
  <2>1. f[0] = <<>>
    BY <1>1 DEF OnlyUpto
  <2>2. Len(<<>>) = 0
    OBVIOUS
  <2>3. PicksUpto(s, S, 0, <<>>, none)
    BY <2>2 DEF PicksUpto
  <2>4. QED
    BY <2>1, <2>3
<1>4. Lost = {}
  <2>1. SUFFICES ASSUME Lost # {}
                 PROVE  FALSE
    OBVIOUS
  <2>2. PICK n \in Lost : \A m \in Lost : n <= m
    <3>1. Lost \subseteq Nat
      OBVIOUS
    <3> HIDE DEF Lost
    <3>2. QED
      BY <2>1, <3>1, Least
  <2>3. n # 0
    BY <1>3, <2>2
  <2>4. n \in 1..Len(s) /\ n - 1 \in 0..Len(s) /\ ~(n <= n - 1)
    BY <1>2, <2>2, <2>3
  <2>5. PICK at : PicksUpto(s, S, n - 1, f[n - 1], at)
    BY <2>2, <2>4
  <2>6. f[n - 1] \in Seq(M)
    BY <1>1, <2>4
  <2>7. f[n] = IF s[n] \in S THEN Append(f[n - 1], s[n]) ELSE f[n - 1]
    BY <1>1, <2>4 DEF OnlyUpto
  <2>8. CASE s[n] \in S
    <3>1. \E new : PicksUpto(s, S, n, f[n], new)
      BY <2>4, <2>5, <2>6, <2>7, <2>8, PickOne
    <3>2. QED
      BY <2>2, <3>1
  <2>9. CASE s[n] \notin S
    <3>1. PicksUpto(s, S, n, f[n], at)
      BY <2>4, <2>5, <2>6, <2>7, <2>9, PickNone
    <3>2. QED
      BY <2>2, <3>1
  <2>10. QED
    BY <2>8, <2>9
<1>5. Len(s) \in 0..Len(s)
  BY <1>2
<1>6. PICK at : PicksUpto(s, S, Len(s), f[Len(s)], at)
  BY <1>4, <1>5
<1>7. Picks(s, S, Only(s, S), at)
  BY <1>1, <1>6 DEF Picks, PicksUpto
<1>8. QED
  BY <1>7

Increasing(f, n) == \A i, j \in 1..n : i < j => f[i] < f[j]
Within(f, m, g, n) == \A i \in 1..m : \E j \in 1..n : g[j] = f[i]

\* A set of numbers is counted upwards in one way only.
LEMMA CountedOnce ==
  ASSUME NEW m \in Nat, NEW n \in Nat, NEW x \in Nat,
         NEW f \in [1..m -> 1..x], NEW g \in [1..n -> 1..x],
         Increasing(f, m), Increasing(g, n),
         Within(f, m, g, n), Within(g, n, f, m)
  PROVE  m = n /\ f = g
<1> USE DEF Increasing, Within
<1> DEFINE Apart == {i \in 1..m : i \notin 1..n \/ f[i] # g[i]}
<1>1. Apart = {}
  <2>1. SUFFICES ASSUME Apart # {}
                 PROVE  FALSE
    OBVIOUS
  <2>2. PICK i \in Apart : \A j \in Apart : i <= j
    <3>1. Apart \subseteq Nat
      OBVIOUS
    <3> HIDE DEF Apart
    <3>2. QED
      BY <2>1, <3>1, Least
  <2>3. i \in 1..m /\ \A j \in 1..i - 1 : j \in 1..m /\ j \in 1..n /\ f[j] = g[j]
    <3>1. i \in 1..m
      BY <2>2
    <3>2. ASSUME NEW j \in 1..i - 1
          PROVE  j \in 1..m /\ j \in 1..n /\ f[j] = g[j]
      <4>1. j \in 1..m /\ ~(i <= j)
        BY <3>1
      <4>2. j \notin Apart
        BY <2>2, <4>1
      <4>3. QED
        BY <4>1, <4>2
    <3>3. QED
      BY <3>1, <3>2
  <2>4. PICK j \in 1..n : g[j] = f[i]
    BY <2>3
  <2>5. ~(j < i)
    <3>1. SUFFICES ASSUME j < i
                   PROVE  FALSE
      OBVIOUS
    <3>2. j \in 1..i - 1
      BY <2>3, <3>1
    <3>3. f[j] = f[i] /\ f[j] < f[i] /\ f[i] \in 1..x
      BY <2>3, <2>4, <3>1, <3>2
    <3>4. QED
      BY <3>3
  <2>6. i \in 1..n
    BY <2>3, <2>5
  <2>7. i < j
    BY <2>2, <2>4, <2>5, <2>6
  <2>8. PICK k \in 1..m : f[k] = g[i]
    BY <2>6
  <2>9. f[k] < f[i]
    BY <2>4, <2>6, <2>7, <2>8
  <2>10. k < i
    <3>1. f[k] \in 1..x /\ f[i] \in 1..x
      BY <2>3
    <3>2. i < k => f[i] < f[k]
      BY <2>3
    <3>3. k # i
      BY <2>9, <3>1
    <3>4. QED
      BY <2>3, <2>9, <3>1, <3>2, <3>3
  <2>11. k \in 1..i - 1
    BY <2>3, <2>10
  <2>12. g[k] = g[i] /\ g[k] < g[i] /\ g[i] \in 1..x
    BY <2>3, <2>6, <2>8, <2>10, <2>11
  <2>13. QED
    BY <2>12
<1>2. \A i \in 1..m : i \in 1..n /\ f[i] = g[i]
  BY <1>1
<1>3. ~(m < n)
  <2>1. SUFFICES ASSUME m < n
                 PROVE  FALSE
    OBVIOUS
  <2>2. m + 1 \in 1..n
    BY <2>1
  <2>3. PICK i \in 1..m : f[i] = g[m + 1]
    BY <2>2
  <2>4. g[i] = g[m + 1] /\ g[i] < g[m + 1] /\ g[i] \in 1..x
    BY <1>2, <2>2, <2>3
  <2>5. QED
    BY <2>4
<1>4. m = n
  <2>1. m > 0 => m \in 1..m
    OBVIOUS
  <2>2. QED
    BY <1>2, <1>3, <2>1
<1>5. QED
  BY <1>2, <1>4

\* A rearrangement that leaves the members of S in their order.
MovesAround(s, t, S, at) ==
  /\ Len(t) = Len(s)
  /\ at \in [1..Len(s) -> 1..Len(s)]
  /\ \A p \in 1..Len(s) : t[p] = s[at[p]]
  /\ \A i \in 1..Len(s) : \E p \in 1..Len(s) : at[p] = i
  /\ \A p, q \in 1..Len(s) :
       p < q /\ t[p] \in S /\ t[q] \in S => at[p] < at[q]

\* It does not change what is picked.
LEMMA OnlyOfReordered ==
  ASSUME NEW M, NEW s \in Seq(M), NEW t \in Seq(M), NEW S, NEW at,
         MovesAround(s, t, S, at)
  PROVE  Only(t, S) = Only(s, S)
<1> USE DEF MovesAround
<1> DEFINE u == Only(s, S)
           v == Only(t, S)
<1>1. u \in Seq(M) /\ v \in Seq(M)
  BY OnlyType
<1>2. PICK f : Picks(s, S, u, f)
  BY OnlyPicks
<1>3. PICK g : Picks(t, S, v, g)
  BY OnlyPicks
<1> HIDE DEF u, v
<1> DEFINE h == [k \in 1..Len(v) |-> at[g[k]]]
<1>4. \A k \in 1..Len(v) : /\ g[k] \in 1..Len(s) /\ h[k] = at[g[k]]
                           /\ h[k] \in 1..Len(s)
                           /\ v[k] = t[g[k]] /\ t[g[k]] \in S
                           /\ t[g[k]] = s[h[k]]
  BY <1>3 DEF Picks
<1>5. h \in [1..Len(v) -> 1..Len(s)]
  BY <1>4
<1> HIDE DEF h
<1>6. ASSUME NEW j \in 1..Len(v), NEW k \in 1..Len(v), j < k
      PROVE  h[j] < h[k]
  <2>1. g[j] < g[k]
    BY <1>3, <1>6 DEF Picks
  <2>2. QED
    BY <1>4, <2>1, ZenonT(30)
<1>7. ASSUME NEW k \in 1..Len(v)
      PROVE  \E j \in 1..Len(u) : f[j] = h[k]
  BY <1>2, <1>4 DEF Picks
<1>8. ASSUME NEW j \in 1..Len(u)
      PROVE  \E k \in 1..Len(v) : h[k] = f[j]
  <2>1. f[j] \in 1..Len(s) /\ s[f[j]] \in S
    BY <1>2 DEF Picks
  <2>2. PICK p \in 1..Len(s) : at[p] = f[j]
    BY <2>1
  <2>3. t[p] \in S
    BY <2>1, <2>2
  <2>4. PICK k \in 1..Len(v) : g[k] = p
    BY <1>3, <2>3 DEF Picks
  <2>5. QED
    BY <1>4, <2>2, <2>4, ZenonT(30)
<1>9. f \in [1..Len(u) -> 1..Len(s)]
  BY <1>2 DEF Picks
<1>10. \A i, j \in 1..Len(u) : i < j => f[i] < f[j]
  BY <1>2 DEF Picks
<1>11. Len(u) \in Nat /\ Len(v) \in Nat /\ Len(s) \in Nat
  BY <1>1
<1>12. Len(v) = Len(u) /\ h = f
  <2>1. Increasing(h, Len(v)) /\ Within(h, Len(v), f, Len(u))
    BY <1>6, <1>7 DEF Increasing, Within
  <2>2. Increasing(f, Len(u)) /\ Within(f, Len(u), h, Len(v))
    BY <1>8, <1>10 DEF Increasing, Within
  <2>3. QED
    BY <1>5, <1>9, <1>11, <2>1, <2>2, CountedOnce
<1>13. \A k \in 1..Len(v) : v[k] = u[k]
  BY <1>2, <1>4, <1>12 DEF Picks
<1>14. v = u
  BY <1>1, <1>12, <1>13, SeqEqual
<1>15. QED
  BY <1>14 DEF u, v

\* One more element of s.
LEMMA OnlyNext ==
  ASSUME NEW M, NEW s \in Seq(M), NEW S, NEW i \in 1..Len(s)
  PROVE  Only(SubSeq(s, 1, i), S) =
           IF s[i] \in S THEN Append(Only(SubSeq(s, 1, i - 1), S), s[i])
           ELSE Only(SubSeq(s, 1, i - 1), S)
<1> DEFINE t == SubSeq(s, 1, i - 1)
<1>1. t \in Seq(M) /\ s[i] \in M
  OBVIOUS
<1>2. SubSeq(s, 1, i) = Append(t, s[i])
  OBVIOUS
<1> HIDE DEF t
<1>3. Only(Append(t, s[i]), S) =
        IF s[i] \in S THEN Append(Only(t, S), s[i]) ELSE Only(t, S)
  BY <1>1, OnlyAppend
<1>4. QED
  BY <1>2, <1>3 DEF t

\* g begins with f.
Grown(f, g) ==
  Len(f) <= Len(g) /\ \A k \in 1..Len(f) : g[k] = f[k]

LEMMA AppendGrows ==
  ASSUME NEW M, NEW f \in Seq(M), NEW g \in Seq(M), NEW e \in M, Grown(f, g)
  PROVE  Grown(f, Append(g, e))
<1>1. /\ Len(f) \in Nat /\ Len(g) \in Nat /\ Len(Append(g, e)) = Len(g) + 1
      /\ \A k \in 1..Len(g) : Append(g, e)[k] = g[k]
  OBVIOUS
<1>2. QED
  BY <1>1 DEF Grown

\* What is found in a part is the first of what is found in all.
LEMMA OnlyGrows ==
  ASSUME NEW M, NEW s \in Seq(M), NEW S, NEW n \in 0..Len(s)
  PROVE  Grown(Only(SubSeq(s, 1, n), S), Only(s, S))
<1> DEFINE o(m) == Only(SubSeq(s, 1, m), S)
           Bad == {m \in n..Len(s) : ~Grown(o(n), o(m))}
<1>1. \A m \in 0..Len(s) : o(m) \in Seq(M)
  <2>1. \A m \in 0..Len(s) : SubSeq(s, 1, m) \in Seq(M)
    OBVIOUS
  <2>2. QED
    BY <2>1, OnlyType
<1>2. \A m \in 1..Len(s) :
        o(m) = IF s[m] \in S THEN Append(o(m - 1), s[m]) ELSE o(m - 1)
  BY OnlyNext
<1>3. SubSeq(s, 1, Len(s)) = s /\ Len(s) \in Nat
  OBVIOUS
<1>4. o(Len(s)) = Only(s, S)
  BY <1>3
<1> HIDE DEF o
<1>5. Bad = {}
  <2>1. SUFFICES ASSUME Bad # {}
                 PROVE  FALSE
    OBVIOUS
  <2>2. PICK m \in Bad : \A j \in Bad : m <= j
    <3>1. Bad \subseteq Nat
      OBVIOUS
    <3> HIDE DEF Bad
    <3>2. QED
      BY <2>1, <3>1, Least
  <2>3. m # n
    <3>1. Grown(o(n), o(n))
      <4>1. Len(o(n)) \in Nat
        BY <1>1
      <4>2. QED
        BY <4>1 DEF Grown
    <3>2. QED
      BY <2>2, <3>1
  <2>4. /\ m \in 1..Len(s) /\ m - 1 \in n..Len(s) /\ m - 1 \in 0..Len(s)
        /\ ~(m <= m - 1)
    BY <1>3, <2>2, <2>3
  <2>5. Grown(o(n), o(m - 1))
    BY <2>2, <2>4
  <2>6. o(n) \in Seq(M) /\ o(m - 1) \in Seq(M) /\ s[m] \in M
    BY <1>1, <2>4
  <2>7. Grown(o(n), o(m))
    <3>1. Grown(o(n), Append(o(m - 1), s[m]))
      BY <2>5, <2>6, AppendGrows
    <3>2. o(m) = IF s[m] \in S THEN Append(o(m - 1), s[m]) ELSE o(m - 1)
      BY <1>2, <2>4
    <3>3. QED
      BY <2>5, <3>1, <3>2
  <2>8. QED
    BY <2>2, <2>7
<1>6. Len(s) \in n..Len(s)
  BY <1>3
<1>7. QED
  BY <1>4, <1>5, <1>6 DEF o

\* A member of S is the next that is found.
LEMMA OnlyHas ==
  ASSUME NEW M, NEW s \in Seq(M), NEW S, NEW i \in 1..Len(s), s[i] \in S
  PROVE  LET n == Len(Only(SubSeq(s, 1, i - 1), S))
         IN  /\ n \in Nat /\ n < Len(Only(s, S))
             /\ Only(s, S)[n + 1] = s[i]
             /\ Len(Only(SubSeq(s, 1, i), S)) = n + 1
<1> DEFINE u == Only(SubSeq(s, 1, i - 1), S)
           v == Only(SubSeq(s, 1, i), S)
           w == Only(s, S)
<1>1. v = Append(u, s[i])
  BY OnlyNext
<1>2. Grown(v, w)
  BY OnlyGrows
<1>3. u \in Seq(M) /\ w \in Seq(M) /\ s[i] \in M
  <2>1. SubSeq(s, 1, i - 1) \in Seq(M) /\ s[i] \in M
    OBVIOUS
  <2>2. u \in Seq(M)
    BY <2>1, OnlyType
  <2>3. w \in Seq(M)
    BY OnlyType
  <2>4. QED
    BY <2>1, <2>2, <2>3
<1> HIDE DEF u, v, w
<1>4. /\ Len(u) \in Nat /\ Len(w) \in Nat /\ Len(v) = Len(u) + 1
      /\ v[Len(u) + 1] = s[i]
  BY <1>1, <1>3
<1>5. Len(u) < Len(w) /\ w[Len(u) + 1] = s[i]
  BY <1>2, <1>4 DEF Grown
<1>6. QED
  BY <1>4, <1>5 DEF u, v, w

\* t is s with some elements moved: of two that stand the other way round, the
\* one that now is first has the smaller stamp.
Rearranged(s, t, at) ==
  /\ Len(t) = Len(s)
  /\ at \in [1..Len(s) -> 1..Len(s)]
  /\ \A p \in 1..Len(s) : t[p] = s[at[p]]
  /\ \A i \in 1..Len(s) : \E p \in 1..Len(s) : at[p] = i
  /\ \A p, q \in 1..Len(s) : p < q => at[p] < at[q] \/ t[p].stamp < t[q].stamp

LEMMA SortRearranged ==
  ASSUME NEW M, Stamped(M), NEW s \in Seq(M)
  PROVE  Rearranged(s, StableSort(s), [i \in 1..Len(s) |-> Place(s, i)])
<1> DEFINE at == [i \in 1..Len(s) |-> Place(s, i)]
           t == StableSort(s)
<1>1. \A i \in 1..Len(s) : /\ Place(s, i) \in 1..Len(s)
                           /\ Rank(s, Place(s, i)) = i
  BY PlaceOfRank
<1>2. t \in Seq(M) /\ Len(t) = Len(s) /\ SortedByStamp(t)
  BY StableSortRearranges, StableSortSorts
<1>3. \A i \in 1..Len(s) : t[i] = s[at[i]] /\ at[i] = Place(s, i)
  BY DEF StableSort
<1>4. at \in [1..Len(s) -> 1..Len(s)]
  BY <1>1
<1>5. ASSUME NEW i \in 1..Len(s)
      PROVE  \E p \in 1..Len(s) : at[p] = i
  <2> DEFINE p == Rank(s, i)
  <2>1. p \in 1..Len(s)
    BY RankInRange
  <2> HIDE DEF p
  <2>2. Place(s, p) \in 1..Len(s) /\ Rank(s, Place(s, p)) = Rank(s, i)
    BY <1>1, <2>1 DEF p
  <2>3. Place(s, p) = i
    BY <2>2, RankInjective
  <2>4. QED
    BY <1>3, <2>1, <2>3
<1>6. ASSUME NEW p \in 1..Len(s), NEW q \in 1..Len(s), p < q
      PROVE  at[p] < at[q] \/ t[p].stamp < t[q].stamp
  <2>1. t[p].stamp <= t[q].stamp
    BY <1>2, <1>6 DEF SortedByStamp
  <2>2. t[p].stamp \in Int /\ t[q].stamp \in Int
    BY <1>2 DEF Stamped
  <2>3. t[p].stamp = t[q].stamp => Place(s, p) < Place(s, q)
    BY <1>6, StableSortIsStable
  <2>4. QED
    BY <1>3, <2>1, <2>2, <2>3
<1> HIDE DEF at, t
<1>7. Rearranged(s, t, at)
  BY <1>2, <1>3, <1>4, <1>5, <1>6 DEF Rearranged
<1>8. QED
  BY <1>7 DEF at, t

\* Where what is found is sorted, so are the elements it was found at.
LEMMA OnlySorted ==
  ASSUME NEW M, NEW s \in Seq(M), NEW S, SortedByStamp(Only(s, S)),
         NEW i \in 1..Len(s), NEW j \in 1..Len(s), i < j, s[i] \in S, s[j] \in S
  PROVE  s[i].stamp <= s[j].stamp
<1> DEFINE u == Only(s, S)
<1>1. PICK at : Picks(s, S, u, at)
  BY OnlyPicks
<1>2. u \in Seq(M) /\ SortedByStamp(u)
  BY OnlyType
<1> HIDE DEF u
<1>3. PICK k \in 1..Len(u) : at[k] = i /\ u[k] = s[i]
  BY <1>1 DEF Picks
<1>4. PICK l \in 1..Len(u) : at[l] = j /\ u[l] = s[j]
  BY <1>1 DEF Picks
<1>5. l < k => j < i
  BY <1>1, <1>3, <1>4 DEF Picks
<1>6. k <= l
  BY <1>3, <1>4, <1>5
<1>7. QED
  BY <1>2, <1>3, <1>4, <1>6 DEF SortedByStamp

\* What was sorted before is not changed by the sort, whatever lies between.
THEOREM OnlyOfRearranged ==
  ASSUME NEW M, Stamped(M), NEW s \in Seq(M), NEW t \in Seq(M), NEW S, NEW at,
         Rearranged(s, t, at), SortedByStamp(Only(s, S))
  PROVE  Only(t, S) = Only(s, S)
<1> DEFINE n == Len(s)
<1>1. /\ Len(t) = n /\ at \in [1..n -> 1..n]
      /\ \A p \in 1..n : t[p] = s[at[p]]
      /\ \A i \in 1..n : \E p \in 1..n : at[p] = i
  BY DEF Rearranged
<1>2. ASSUME NEW p \in 1..n, NEW q \in 1..n, p < q, t[p] \in S, t[q] \in S
      PROVE  at[p] < at[q]
  <2>1. at[p] < at[q] \/ t[p].stamp < t[q].stamp
    BY <1>2 DEF Rearranged
  <2>2. SUFFICES ASSUME t[p].stamp < t[q].stamp, ~(at[p] < at[q])
                 PROVE  FALSE
    BY <2>1
  <2>3. /\ at[p] \in 1..n /\ at[q] \in 1..n
        /\ t[p] = s[at[p]] /\ t[q] = s[at[q]]
        /\ t[p].stamp \in Int /\ t[q].stamp \in Int
    <3>1. t[p] \in M /\ t[q] \in M
      <4>1. p \in 1..Len(t) /\ q \in 1..Len(t)
        BY <1>1
      <4>2. QED
        BY <4>1
    <3>2. QED
      BY <1>1, <3>1 DEF Stamped
  <2>4. at[q] < at[p]
    <3>1. at[p] # at[q]
      BY <2>2, <2>3
    <3>2. QED
      BY <2>2, <2>3, <3>1
  <2>5. s[at[q]].stamp <= s[at[p]].stamp
    BY <1>2, <2>3, <2>4, OnlySorted
  <2>6. QED
    BY <2>2, <2>3, <2>5
<1>3. \A p, q \in 1..n : p < q /\ t[p] \in S /\ t[q] \in S => at[p] < at[q]
  BY <1>2
<1>4. MovesAround(s, t, S, at)
  BY <1>1, <1>3 DEF MovesAround
<1>5. QED
  BY <1>4, OnlyOfReordered
==============================================================================
