---------------------- MODULE ChatHistoryLemmas_proofs ----------------------
(***************************************************************************)
(* What the operators of ChatHistory return, of lists of any length.       *)
(*                                                                         *)
(* Induction is by a smallest counterexample.                              *)
(***************************************************************************)
EXTENDS ChatHistory, FiniteSetTheorems, SequenceTheorems, WellFoundedInduction, TLAPS

-----------------------------------------------------------------------------
(***************************************************************************)
(* Numbers and finite sets.                                                *)
(***************************************************************************)

LEMMA Smallest ==
    ASSUME NEW T \in SUBSET Nat, T # {}
    PROVE  \E n \in T : \A k \in T : n <= k
<1>1. PICK n \in T : \A k \in T : ~(<<k, n>> \in OpToRel(<, Nat))
  BY NatLessThanWellFounded, WFMin
<1>2. \A k \in T : n <= k
  <2> SUFFICES ASSUME NEW k \in T PROVE n <= k
    OBVIOUS
  <2>1. n \in Nat /\ k \in Nat
    OBVIOUS
  <2>2. ~(k < n)
    BY <1>1, <2>1 DEF OpToRel
  <2> QED BY <2>1, <2>2
<1> QED BY <1>2

LEMMA MinFacts ==
    ASSUME NEW T \in SUBSET Nat, T # {}
    PROVE  Min(T) \in T /\ \A k \in T : Min(T) <= k
BY Smallest DEF Min

LEMMA MaxFacts ==
    ASSUME NEW T \in SUBSET Nat, IsFiniteSet(T), T # {}
    PROVE  Max(T) \in T /\ \A k \in T : k <= Max(T)
<1> DEFINE HasMax(S) == \E x \in S : \A y \in S : x >= y
           Bad == {S \in SUBSET T : S # {} /\ ~HasMax(S)}
           Sizes == {n \in Nat : \E S \in Bad : Cardinality(S) = n}
<1>1. \A S \in SUBSET T : IsFiniteSet(S) /\ Cardinality(S) \in Nat
  BY FS_Subset, FS_CardinalityType
<1>2. ASSUME Bad # {} PROVE FALSE
  <2>1. Sizes \in SUBSET Nat /\ Sizes # {}
    BY <1>1, <1>2
  <2>2. PICK n \in Sizes : \A k \in Sizes : n <= k
    BY <2>1, Smallest
  <2>3. PICK S \in Bad : Cardinality(S) = n
    BY <2>2
  <2>4. PICK x \in S : TRUE
    OBVIOUS
  <2>5. /\ S \ {x} \in SUBSET T /\ Cardinality(S \ {x}) \in Nat
        /\ Cardinality(S \ {x}) < n
    BY <1>1, <2>3, <2>4, FS_RemoveElement
  <2>6. S \ {x} \notin Bad
    <3>1. S \ {x} \in Bad => Cardinality(S \ {x}) \in Sizes
      BY <2>5
    <3>2. n \in Nat
      BY <2>1
    <3> HIDE DEF Bad, Sizes
    <3> QED BY <2>2, <2>5, <3>1, <3>2
  <2>7. CASE S \ {x} = {}
    <3>1. \A y \in S : x >= y
      BY <2>7
    <3> QED BY <2>4, <3>1
  <2>8. CASE S \ {x} # {}
    <3>1. PICK z \in S \ {x} : \A y \in S \ {x} : z >= y
      BY <2>5, <2>6, <2>8
    <3>2. x \in Nat /\ z \in Nat /\ S \subseteq Nat
      BY <2>4, <3>1
    <3>3. CASE z >= x
      <4>1. \A y \in S : z >= y
        BY <3>1, <3>3
      <4> QED BY <3>1, <4>1
    <3>4. CASE x >= z
      <4>1. \A y \in S : x >= y
        BY <3>1, <3>2, <3>4
      <4> QED BY <2>4, <4>1
    <3> QED BY <3>2, <3>3, <3>4
  <2> QED BY <2>7, <2>8
<1>3. \E x \in T : \A y \in T : x >= y
  BY <1>2
<1>4. Max(T) \in T /\ \A y \in T : Max(T) >= y
  BY <1>3 DEF Max
<1> QED BY <1>4

LEMMA UpTo ==
    ASSUME NEW n \in Nat
    PROVE  IsFiniteSet(1..n) /\ Cardinality(1..n) = n
BY FS_Interval

\* The elements of a finite set in an order: for each number of elements there is
\* one that has as many ahead of it.
IsOrder(P, R) ==
    /\ R \subseteq P \X P
    /\ \A i \in P : <<i, i>> \notin R
    /\ \A i, j, k \in P : <<i, j>> \in R /\ <<j, k>> \in R => <<i, k>> \in R
    /\ \A i, j \in P : i = j \/ <<i, j>> \in R \/ <<j, i>> \in R
AheadOf(i, P, R) == {j \in P : <<j, i>> \in R}

LEMMA Ranks ==
    ASSUME NEW P, IsFiniteSet(P), NEW R, IsOrder(P, R)
    PROVE  \A k \in 1..Cardinality(P) : \E i \in P : Cardinality(AheadOf(i, P, R)) = k - 1
<1> DEFINE Ahead(i) == AheadOf(i, P, R)
           n == Cardinality(P)
<1>1. /\ \A i \in P : Ahead(i) \in SUBSET (P \ {i}) /\ Ahead(i) \in SUBSET P
      /\ \A i, j \in P : <<i, j>> \in R => /\ Ahead(i) \cup {i} \in SUBSET Ahead(j)
                                           /\ i \notin Ahead(i)
  BY DEF IsOrder, AheadOf
<1>2. n \in Nat /\ \A S \in SUBSET P : IsFiniteSet(S) /\ Cardinality(S) \in Nat
  BY FS_Subset, FS_CardinalityType
<1> SUFFICES \A k \in 1..n : \E i \in P : Cardinality(Ahead(i)) = k - 1
  OBVIOUS
<1> HIDE DEF Ahead
<1>3. \A i \in P : Cardinality(Ahead(i)) \in Nat /\ Cardinality(Ahead(i)) + 1 <= n
  <2> SUFFICES ASSUME NEW i \in P
               PROVE  Cardinality(Ahead(i)) \in Nat /\ Cardinality(Ahead(i)) + 1 <= n
    OBVIOUS
  <2>1. IsFiniteSet(P \ {i}) /\ Cardinality(P \ {i}) = n - 1
    BY FS_RemoveElement
  <2>2. Cardinality(Ahead(i)) <= Cardinality(P \ {i})
    BY <1>1, <2>1, FS_Subset
  <2>3. Cardinality(Ahead(i)) \in Nat
    BY <1>1, <1>2
  <2> HIDE DEF n
  <2> QED BY <1>2, <2>1, <2>2, <2>3
<1>4. ASSUME NEW i \in P, NEW j \in P, <<i, j>> \in R
      PROVE  Cardinality(Ahead(i)) + 1 <= Cardinality(Ahead(j))
  <2>1. IsFiniteSet(Ahead(i)) /\ IsFiniteSet(Ahead(j))
    BY <1>1, <1>2
  <2>2. Cardinality(Ahead(i) \cup {i}) = Cardinality(Ahead(i)) + 1
    BY <1>1, <1>4, <2>1, FS_AddElement
  <2>3. Cardinality(Ahead(i) \cup {i}) <= Cardinality(Ahead(j))
    BY <1>1, <1>4, <2>1, FS_Subset
  <2> QED BY <2>2, <2>3
<1> DEFINE rank == [i \in P |-> Cardinality(Ahead(i)) + 1]
<1>5. rank \in Injection(P, 1..n)
  <2>1. rank \in [P -> 1..n]
    BY <1>2, <1>3
  <2>2. ASSUME NEW i \in P, NEW j \in P, rank[i] = rank[j] PROVE i = j
    <3>1. /\ Cardinality(Ahead(i)) = Cardinality(Ahead(j))
          /\ Cardinality(Ahead(i)) \in Nat
      BY <1>3, <2>2
    <3>2. ~(<<i, j>> \in R) /\ ~(<<j, i>> \in R)
      BY <1>4, <3>1
    <3> QED BY <3>2 DEF IsOrder
  <2> QED BY <2>1, <2>2 DEF Injection, IsInjective
<1>6. IsFiniteSet(1..n) /\ Cardinality(1..n) = n
  BY <1>2, UpTo
<1>7. rank \in Surjection(P, 1..n)
  BY <1>5, <1>6, FS_Injection
<1>8. \A k \in 1..n : \E i \in P : rank[i] = k
  BY <1>7 DEF Surjection
<1> SUFFICES ASSUME NEW k \in 1..n PROVE \E i \in P : Cardinality(Ahead(i)) = k - 1
  OBVIOUS
<1>9. PICK i \in P : rank[i] = k
  BY <1>8
<1> HIDE DEF n
<1> QED BY <1>2, <1>3, <1>9
-----------------------------------------------------------------------------
(***************************************************************************)
(* Choosing from lists and sorting them.                                   *)
(***************************************************************************)

LEMMA NthFacts ==
    ASSUME NEW P \in SUBSET Nat, IsFiniteSet(P), NEW k \in 1..Cardinality(P)
    PROVE  Nth[P][k] \in P /\ Cardinality({j \in P : j < Nth[P][k]}) = k - 1
<1> DEFINE R == {r \in P \X P : r[1] < r[2]}
<1>1. \A i, j \in P : <<i, j>> \in R <=> i < j
  OBVIOUS
<1>2. IsOrder(P, R)
  <2>1. R \subseteq P \X P
    OBVIOUS
  <2> HIDE DEF R
  <2>2. /\ \A i \in P : ~(i < i)
        /\ \A i, j, h \in P : i < j /\ j < h => i < h
        /\ \A i, j \in P : i = j \/ i < j \/ j < i
    OBVIOUS
  <2> QED BY <1>1, <2>1, <2>2 DEF IsOrder
<1> HIDE DEF R
<1>3. PICK i \in P : Cardinality(AheadOf(i, P, R)) = k - 1
  BY <1>2, Ranks
<1>4. AheadOf(i, P, R) = {j \in P : j < i}
  BY <1>1 DEF AheadOf
<1>5. \E h \in P : Cardinality({j \in P : j < h}) = k - 1
  BY <1>3, <1>4
<1>6. Nth[P][k] = CHOOSE h \in P : Cardinality({j \in P : j < h}) = k - 1
  BY DEF Nth
<1> QED BY <1>5, <1>6

LEMMA ElementsFacts ==
    ASSUME NEW S, NEW s \in Seq(S), NEW P \in SUBSET DOMAIN s
    PROVE  /\ Elements(s, P) \in Seq(S)
           /\ DOMAIN Elements(s, P) = 1..Cardinality(P)
           /\ \A k \in DOMAIN Elements(s, P) :
                 Nth[P][k] \in P /\ Elements(s, P)[k] = s[Nth[P][k]]
           /\ \A k, l \in DOMAIN Elements(s, P) : k # l => Nth[P][k] # Nth[P][l]
<1>1. /\ Len(s) \in Nat /\ DOMAIN s = 1..Len(s)
      /\ P \in SUBSET Nat
  BY LenProperties
<1>2. IsFiniteSet(P) /\ Cardinality(P) \in Nat
  <2>1. IsFiniteSet(1..Len(s))
    BY <1>1, UpTo
  <2> QED BY <1>1, <2>1, FS_Subset, FS_CardinalityType
<1> DEFINE r == Elements(s, P)
<1>3. DOMAIN r = 1..Cardinality(P) /\ \A k \in DOMAIN r : r[k] = s[Nth[P][k]]
  BY DEF Elements
<1> HIDE DEF r
<1>4. \A k \in DOMAIN r : Nth[P][k] \in P
  BY <1>1, <1>2, <1>3, NthFacts
<1>5. \A k \in DOMAIN r : r[k] \in S
  BY <1>1, <1>3, <1>4
<1>6. ASSUME NEW k \in DOMAIN r, NEW l \in DOMAIN r, Nth[P][k] = Nth[P][l] PROVE k = l
  <2>1. k - 1 = l - 1
    BY <1>1, <1>2, <1>3, <1>6, NthFacts
  <2>2. k \in Int /\ l \in Int
    BY <1>3
  <2> QED BY <2>1, <2>2
<1>7. r \in Seq(S)
  <2>1. r = [k \in 1..Cardinality(P) |-> r[k]]
    BY <1>3 DEF r, Elements
  <2> QED BY <1>2, <1>3, <1>5, <2>1, IsASeq
<1> QED BY <1>3, <1>4, <1>6, <1>7 DEF r

LEMMA ArrayDiffFacts ==
    ASSUME NEW a \in Lists, NEW b \in SUBSET Sequence
    PROVE  ArrayDiff[a][b] \in Lists /\ ToSet(ArrayDiff[a][b]) \subseteq ToSet(a) \ b
<1> DEFINE P == {i \in DOMAIN a : a[i] \notin b}
<1>1. ArrayDiff[a][b] = Elements(a, P)
  BY DEF ArrayDiff, Select
<1>2. P \in SUBSET DOMAIN a /\ \A i \in P : a[i] \in ToSet(a) \ b
  BY DEF ToSet
<1> HIDE DEF P
<1>3. /\ Elements(a, P) \in Lists
      /\ \A k \in DOMAIN Elements(a, P) :
            Nth[P][k] \in P /\ Elements(a, P)[k] = a[Nth[P][k]]
  BY <1>2, ElementsFacts DEF Lists
<1>4. ToSet(Elements(a, P)) \subseteq ToSet(a) \ b
  BY <1>2, <1>3 DEF ToSet
<1> QED BY <1>1, <1>3, <1>4

LEMMA ArrayIntersectFacts ==
    ASSUME NEW a \in Lists, NEW b \in SUBSET Sequence
    PROVE  ArrayIntersect[a][b] \in Lists /\ ToSet(ArrayIntersect[a][b]) \subseteq b
<1> DEFINE P == {i \in DOMAIN a : a[i] \in b}
<1>1. ArrayIntersect[a][b] = Elements(a, P)
  BY DEF ArrayIntersect, Select
<1>2. P \in SUBSET DOMAIN a /\ \A i \in P : a[i] \in b
  OBVIOUS
<1> HIDE DEF P
<1>3. /\ Elements(a, P) \in Lists
      /\ \A k \in DOMAIN Elements(a, P) :
            Nth[P][k] \in P /\ Elements(a, P)[k] = a[Nth[P][k]]
  BY <1>2, ElementsFacts DEF Lists
<1>4. ToSet(Elements(a, P)) \subseteq b
  BY <1>2, <1>3 DEF ToSet
<1> QED BY <1>1, <1>3, <1>4

\* The positions of a list that go before position i when it is sorted in the
\* order B of numbers.
Sooner(s, i, B) == {j \in DOMAIN s : <<s[j], s[i]>> \in B \/ (s[j] = s[i] /\ j < i)}

LEMMA SortRanks ==
    ASSUME NEW s \in Seq(Nat), NEW B, IsOrder(Nat, B)
    PROVE  \A k \in DOMAIN s : \E i \in DOMAIN s : Cardinality(Sooner(s, i, B)) = k - 1
<1> DEFINE P == DOMAIN s
           R == {r \in P \X P : \/ <<s[r[1]], s[r[2]]>> \in B
                                \/ s[r[1]] = s[r[2]] /\ r[1] < r[2]}
<1>1. /\ Len(s) \in Nat /\ P = 1..Len(s) /\ P \in SUBSET Nat
      /\ \A i \in P : s[i] \in Nat
  BY LenProperties
<1>2. IsFiniteSet(P) /\ Cardinality(P) = Len(s)
  <2>1. IsFiniteSet(1..Len(s)) /\ Cardinality(1..Len(s)) = Len(s)
    BY <1>1, UpTo
  <2> QED BY <1>1, <2>1
<1>3. \A i, j \in P : <<j, i>> \in R <=> <<s[j], s[i]>> \in B \/ (s[j] = s[i] /\ j < i)
  OBVIOUS
<1>4. R \subseteq P \X P
  OBVIOUS
<1>5. \A i \in P : AheadOf(i, P, R) = Sooner(s, i, B)
  BY <1>3 DEF AheadOf, Sooner
<1>6. \A i, j, k \in P : ~(i < i) /\ (i < j /\ j < k => i < k) /\ (i = j \/ i < j \/ j < i)
  BY <1>1
<1> HIDE DEF R, P
<1>7. IsOrder(P, R)
  <2>1. \A i \in P : <<i, i>> \notin R
    BY <1>1, <1>3, <1>6 DEF IsOrder
  <2>2. ASSUME NEW i \in P, NEW j \in P, NEW k \in P, <<i, j>> \in R, <<j, k>> \in R
        PROVE  <<i, k>> \in R
    <3>1. s[i] \in Nat /\ s[j] \in Nat /\ s[k] \in Nat
      BY <1>1
    <3> QED BY <1>3, <1>6, <2>2, <3>1 DEF IsOrder
  <2>3. ASSUME NEW i \in P, NEW j \in P PROVE i = j \/ <<i, j>> \in R \/ <<j, i>> \in R
    <3>1. s[i] \in Nat /\ s[j] \in Nat
      BY <1>1
    <3> QED BY <1>3, <1>6, <3>1 DEF IsOrder
  <2> QED BY <1>4, <2>1, <2>2, <2>3 DEF IsOrder
<1>8. \A k \in 1..Cardinality(P) : \E i \in P : Cardinality(AheadOf(i, P, R)) = k - 1
  BY <1>2, <1>7, Ranks
<1>9. \A k \in P : \E i \in P : Cardinality(Sooner(s, i, B)) = k - 1
  BY <1>1, <1>2, <1>5, <1>8
<1> QED BY <1>9 DEF P

-----------------------------------------------------------------------------
(***************************************************************************)
(* The sequences.                                                          *)
(***************************************************************************)

LEMMA BoundFacts ==
    /\ {MaxSends, MaxLeaves, MaxAnswers} \subseteq Nat
    /\ MaxRequest \in Nat \ {0} /\ Window \in Nat \ {0}
BY BoundsType, LimitsType

LEMMA HeldIsPositive == Held \subseteq Nat \ {0}
<1> DEFINE M == [sequence : Nat \ {0}, timems : Nat, clientid : Client]
<1> SUFFICES ASSUME NEW c \in Client, NEW e \in ToSet(Begin[c])
             PROVE  e.sequence \in Nat \ {0}
  BY DEF Held
<1>1. Begin[c] \in Seq(M)
  BY BeginType
<1>2. PICK i \in DOMAIN Begin[c] : e = Begin[c][i]
  BY DEF ToSet
<1>3. \A m \in M : m.sequence \in Nat \ {0}
  OBVIOUS
<1> HIDE DEF M
<1>4. e \in M
  BY <1>1, <1>2, LenProperties
<1> QED BY <1>3, <1>4

LEMMA SequencesOfFacts ==
    ASSUME NEW n \in Nat
    PROVE  /\ SequencesOf(n) \subseteq Nat \ {0}
           /\ \A h \in SequencesOf(n) \cup {0} : h + 1 \in SequencesOf(n + 1)
           /\ \A k \in Nat : n <= k => SequencesOf(n) \subseteq SequencesOf(k)
<1> DEFINE H == Held
<1>3. H \subseteq Nat \ {0}
  BY HeldIsPositive
<1>4. \A k \in Nat : \A x : x \in SequencesOf(k) <=>
         x \in H \/ \E h \in H \cup {0} : \E j \in 1..k : x = h + j
  BY DEF SequencesOf
<1> HIDE DEF H
<1>5. SequencesOf(n) \subseteq Nat \ {0}
  <2> SUFFICES ASSUME NEW x \in SequencesOf(n), x \notin H PROVE x \in Nat \ {0}
    BY <1>3
  <2>1. PICK h \in H \cup {0} : \E j \in 1..n : x = h + j
    BY <1>4
  <2>2. PICK j \in 1..n : x = h + j
    BY <2>1
  <2>3. h \in Nat /\ j \in Nat \ {0}
    BY <1>3
  <2> QED BY <2>2, <2>3
<1>6. ASSUME NEW h \in SequencesOf(n) \cup {0} PROVE h + 1 \in SequencesOf(n + 1)
  <2>1. CASE h \in H \cup {0}
    <3>1. 1 \in 1..(n + 1)
      OBVIOUS
    <3> QED BY <1>4, <2>1, <3>1
  <2>2. CASE h \notin H \cup {0}
    <3>1. PICK g \in H \cup {0} : \E j \in 1..n : h = g + j
      BY <1>4, <2>2
    <3>2. PICK j \in 1..n : h = g + j
      BY <3>1
    <3>3. j + 1 \in 1..(n + 1) /\ h + 1 = g + (j + 1)
      BY <1>3, <3>2
    <3> QED BY <1>4, <3>3
  <2> QED BY <2>1, <2>2
<1>7. ASSUME NEW k \in Nat, n <= k PROVE SequencesOf(n) \subseteq SequencesOf(k)
  <2>1. 1..n \subseteq 1..k
    BY <1>7
  <2> QED BY <1>4, <2>1
<1> QED BY <1>5, <1>6, <1>7

LEMMA SequenceIsPositive == Sequence \subseteq Nat \ {0}
BY BoundFacts, SequencesOfFacts DEF Sequence

LEMMA ListsFacts ==
    ASSUME NEW list \in Lists
    PROVE  /\ list \in Seq(Nat) /\ list \in Seq(Sequence) /\ Len(list) \in Nat
           /\ DOMAIN list = 1..Len(list)
           /\ \A i \in DOMAIN list : list[i] \in Sequence
<1>1. list \in Seq(Sequence) /\ Sequence \subseteq Nat
  BY SequenceIsPositive DEF Lists
<1>2. list \in Seq(Nat)
  BY <1>1, SeqMonotonic
<1> QED BY <1>1, <1>2, LenProperties

-----------------------------------------------------------------------------
(***************************************************************************)
(* Sorting.                                                                *)
(***************************************************************************)

LEMMA SortAsTextFacts ==
    ASSUME NEW list \in Lists
    PROVE  SortAsText[list] \in Lists /\ ToSet(SortAsText[list]) \subseteq ToSet(list)
<1> DEFINE B == {r \in Nat \X Nat : SortsBefore(r[1], r[2])}
           ahead(i) == {j \in DOMAIN list : \/ SortsBefore(list[j], list[i])
                                            \/ list[j] = list[i] /\ j < i}
           at(k) == CHOOSE i \in DOMAIN list : Cardinality(ahead(i)) = k - 1
<1>1. SortAsText[list] = [k \in DOMAIN list |-> list[at(k)]]
  BY DEF SortAsText, Sort
<1>2. list \in Seq(Nat) /\ \A i \in DOMAIN list : list[i] \in Nat
  BY ListsFacts, SequenceIsPositive
<1>3. \A m, n \in Nat : <<m, n>> \in B <=> SortsBefore(m, n)
  OBVIOUS
<1>4. IsOrder(Nat, B)
  <2>1. B \subseteq Nat \X Nat
    OBVIOUS
  <2>2. /\ \A m \in Nat : ~SortsBefore(m, m)
        /\ \A l, m, n \in Nat : SortsBefore(l, m) /\ SortsBefore(m, n) => SortsBefore(l, n)
        /\ \A m, n \in Nat : m = n \/ SortsBefore(m, n) \/ SortsBefore(n, m)
    BY DEF SortsBefore, Lead
  <2> HIDE DEF B
  <2> QED BY <1>3, <2>1, <2>2 DEF IsOrder
<1>5. \A i \in DOMAIN list : ahead(i) = Sooner(list, i, B)
  BY <1>2, <1>3 DEF Sooner
<1> HIDE DEF B
<1>6. \A k \in DOMAIN list : \E i \in DOMAIN list : Cardinality(Sooner(list, i, B)) = k - 1
  BY <1>2, <1>4, SortRanks
<1> HIDE DEF ahead
<1>7. \A k \in DOMAIN list : at(k) \in DOMAIN list
  BY <1>5, <1>6
<1> HIDE DEF at
<1>8. ToSet(SortAsText[list]) \subseteq ToSet(list)
  BY <1>1, <1>7 DEF ToSet
<1>9. SortAsText[list] \in Lists
  <2>1. \A k \in 1..Len(list) : list[at(k)] \in Sequence
    BY <1>7, ListsFacts
  <2>2. [k \in 1..Len(list) |-> list[at(k)]] \in Seq(Sequence)
    BY <2>1, ListsFacts, IsASeq
  <2> QED BY <1>1, <2>2, ListsFacts DEF Lists
<1> QED BY <1>8, <1>9

LEMMA LatestFirstFacts ==
    ASSUME NEW list \in Lists
    PROVE  LatestFirst[list] \in Lists /\ ToSet(LatestFirst[list]) \subseteq ToSet(list)
<1> DEFINE B == {r \in Nat \X Nat : r[1] < r[2]}
           ahead(i) == {j \in DOMAIN list : \/ list[j] < list[i]
                                            \/ list[j] = list[i] /\ j < i}
           at(k) == CHOOSE i \in DOMAIN list : Cardinality(ahead(i)) = k - 1
           sorted == [k \in DOMAIN list |-> list[at(k)]]
<1>1. LatestFirst[list] = Reverse(sorted)
  BY DEF LatestFirst, Sort
<1>2. list \in Seq(Nat) /\ \A i \in DOMAIN list : list[i] \in Nat
  BY ListsFacts, SequenceIsPositive
<1>3. \A m, n \in Nat : <<m, n>> \in B <=> m < n
  OBVIOUS
<1>4. IsOrder(Nat, B)
  <2>1. B \subseteq Nat \X Nat
    OBVIOUS
  <2>2. /\ \A m \in Nat : ~(m < m)
        /\ \A l, m, n \in Nat : l < m /\ m < n => l < n
        /\ \A m, n \in Nat : m = n \/ m < n \/ n < m
    OBVIOUS
  <2> HIDE DEF B
  <2> QED BY <1>3, <2>1, <2>2 DEF IsOrder
<1>5. \A i \in DOMAIN list : ahead(i) = Sooner(list, i, B)
  BY <1>2, <1>3 DEF Sooner
<1> HIDE DEF B
<1>6. \A k \in DOMAIN list : \E i \in DOMAIN list : Cardinality(Sooner(list, i, B)) = k - 1
  BY <1>2, <1>4, SortRanks
<1> HIDE DEF ahead
<1>7. \A k \in DOMAIN list : at(k) \in DOMAIN list
  BY <1>5, <1>6
<1> HIDE DEF at
<1>8. sorted \in Lists /\ Len(sorted) = Len(list)
  <2>1. \A k \in 1..Len(list) : list[at(k)] \in Sequence
    BY <1>7, ListsFacts
  <2>2. [k \in 1..Len(list) |-> list[at(k)]] \in Seq(Sequence)
    BY <2>1, ListsFacts, IsASeq
  <2> QED BY <2>2, ListsFacts DEF Lists
<1>9. \A k \in 1..Len(list) : sorted[k] = list[at(k)] /\ at(k) \in DOMAIN list
  BY <1>7, ListsFacts
<1> HIDE DEF sorted
<1>10. Reverse(sorted) = [i \in 1..Len(list) |-> sorted[(Len(list) - i) + 1]]
  BY <1>8 DEF Reverse
<1>11. \A i \in 1..Len(list) : (Len(list) - i) + 1 \in 1..Len(list)
  BY ListsFacts
<1>12. \A i \in 1..Len(list) : sorted[(Len(list) - i) + 1] \in ToSet(list)
  BY <1>9, <1>11 DEF ToSet
<1>13. ToSet(list) \subseteq Sequence
  BY ListsFacts DEF ToSet
<1>14. Reverse(sorted) \in Seq(Sequence)
  BY <1>10, <1>12, <1>13, ListsFacts, IsASeq
<1>15. ToSet(Reverse(sorted)) \subseteq ToSet(list)
  BY <1>10, <1>12 DEF ToSet
<1> QED BY <1>1, <1>14, <1>15 DEF Lists

-----------------------------------------------------------------------------
(***************************************************************************)
(* Offers.                                                                 *)
(***************************************************************************)

LEMMA ListOfSequences ==
    ASSUME NEW ms \in Seq(Message)
    PROVE  /\ Sequences(ms) \in Lists
           /\ DOMAIN Sequences(ms) = DOMAIN ms
           /\ \A i \in DOMAIN ms : Sequences(ms)[i] = ms[i].sequence
           /\ ToSet(Sequences(ms)) \subseteq Sequence
           /\ ToSet(Sequences(ms)) = {m.sequence : m \in ToSet(ms)}
<1>1. Len(ms) \in Nat /\ DOMAIN ms = 1..Len(ms)
  BY LenProperties
<1>2. \A i \in DOMAIN ms : ms[i].sequence \in Sequence
  <2>1. \A m \in Message : m.sequence \in Sequence
    BY DEF Message
  <2> QED BY <1>1, <2>1, LenProperties
<1>3. /\ DOMAIN Sequences(ms) = DOMAIN ms
      /\ \A i \in DOMAIN ms : Sequences(ms)[i] = ms[i].sequence
  BY DEF Sequences
<1>4. Sequences(ms) \in Lists
  BY <1>1, <1>2, IsASeq DEF Sequences, Lists
<1>5. ToSet(Sequences(ms)) \subseteq Sequence
  BY <1>2, <1>3 DEF ToSet
<1>6. ToSet(Sequences(ms)) = {m.sequence : m \in ToSet(ms)}
  BY <1>3 DEF ToSet
<1> QED BY <1>3, <1>4, <1>5, <1>6

\* What is spelled out of an offer is a list, if it is of sequences.
LEMMA ExpandIsList ==
    ASSUME NEW o \in Offer, ToSet(ExpandSequences[o]) \subseteq Sequence
    PROVE  ExpandSequences[o] \in Lists
<1>1. CASE o \in [key : {"availablesequences"}, value : Lists]
  <2>1. ExpandSequences[o] = SortAsText[o.value]
    BY <1>1 DEF ExpandSequences
  <2> QED BY <1>1, <2>1, SortAsTextFacts
<1>2. CASE o \in [key : {"availablerange"}, value : Sequence \X Sequence]
  <2> DEFINE n == o.value[2] - o.value[1] + 1
             e(i) == o.value[1] + i - 1
  <2>1. ExpandSequences[o] = [i \in 1..n |-> e(i)]
    BY <1>2 DEF ExpandSequences
  <2>2. o.value[1] \in Nat /\ o.value[2] \in Nat
    BY <1>2, SequenceIsPositive
  <2>3. n \in Int
    BY <2>2
  <2> HIDE DEF n, e
  <2>4. PICK k \in Nat : 1..n = 1..k
    <3>1. CASE n \in Nat
      BY <3>1
    <3>2. CASE n \notin Nat
      <4>1. 1..n = 1..0
        BY <2>3, <3>2
      <4> QED BY <4>1
    <3> QED BY <3>1, <3>2
  <2>5. \A i \in 1..k : e(i) \in Sequence
    BY <2>1, <2>4 DEF ToSet
  <2>6. [i \in 1..k |-> e(i)] \in Seq(Sequence)
    BY <2>5, IsASeq
  <2> QED BY <2>1, <2>4, <2>6 DEF Lists
<1> QED BY <1>1, <1>2 DEF Offer

\* A list of three or more in which each follows its predecessor is told by its
\* ends.
LEMMA Unbroken ==
    ASSUME NEW list \in Lists, ~Broken(list), Len(list) >= 3
    PROVE  \A i \in 1..Len(list) : list[i] = list[1] + i - 1
<1> DEFINE T == {i \in 1..Len(list) : list[i] # list[1] + i - 1}
<1>1. Len(list) \in Nat /\ \A i \in 1..Len(list) : list[i] \in Nat
  BY ListsFacts, SequenceIsPositive
<1>2. \A i \in 2..Len(list) : list[i] = list[i-1] + 1
  BY DEF Broken
<1> SUFFICES ASSUME T # {} PROVE FALSE
  OBVIOUS
<1>3. PICK n \in T : \A k \in T : n <= k
  <2>1. T \in SUBSET Nat
    OBVIOUS
  <2> HIDE DEF T
  <2> QED BY <2>1, Smallest
<1>4. n \in 1..Len(list) /\ list[n] # list[1] + n - 1
  BY <1>3
<1>5. n # 1
  BY <1>1, <1>4
<1>6. n \in 2..Len(list) /\ n - 1 \in 1..Len(list) /\ ~(n <= n - 1)
  BY <1>1, <1>4, <1>5
<1>7. list[n-1] = list[1] + (n - 1) - 1
  BY <1>3, <1>6
<1>8. list[n] = list[n-1] + 1
  BY <1>2, <1>6
<1>9. list[1] \in Nat /\ n \in Nat
  BY <1>1, <1>6
<1> QED BY <1>4, <1>7, <1>8, <1>9

\* An offer of the messages ms spells out to nothing that is not in ms.
LEMMA HonestOffer ==
    ASSUME NEW ms \in Seq(Message), ms # <<>>
    PROVE  /\ GetSequences(ms) \in Offer
           /\ ToSet(ExpandSequences[GetSequences(ms)]) \subseteq ToSet(Sequences(ms))
<1> DEFINE list == Sequences(ms)
           o    == GetSequences(ms)
<1>1. list \in Lists
  BY ListOfSequences
<1>2. /\ Len(list) \in Nat /\ DOMAIN list = 1..Len(list)
      /\ \A i \in 1..Len(list) : list[i] \in Sequence
  BY <1>1, ListsFacts
<1>3. CASE Broken(list) \/ Len(list) < 3
  <2>1. o = [key |-> "availablesequences", value |-> list]
    BY <1>3 DEF GetSequences
  <2> HIDE DEF o, list
  <2>2. o \in Offer
    BY <1>1, <2>1 DEF Offer
  <2>3. ExpandSequences[o] = SortAsText[list]
    BY <2>1, <2>2 DEF ExpandSequences
  <2> QED BY <1>1, <2>2, <2>3, SortAsTextFacts DEF o, list
<1>4. CASE ~(Broken(list) \/ Len(list) < 3)
  <2>1. o = [key |-> "availablerange", value |-> <<list[1], list[Len(list)]>>]
    BY <1>4 DEF GetSequences
  <2>2. Len(list) >= 3 /\ 1 \in 1..Len(list) /\ Len(list) \in 1..Len(list)
    BY <1>2, <1>4
  <2>3. \A i \in 1..Len(list) : list[i] = list[1] + i - 1
    BY <1>1, <1>4, <2>2, Unbroken
  <2> HIDE DEF o, list
  <2>4. list[1] \in Sequence /\ list[Len(list)] \in Sequence
    BY <1>2, <2>2
  <2>5. o \in Offer
    BY <2>1, <2>4 DEF Offer
  <2>6. ExpandSequences[o]
           = [i \in 1..(list[Len(list)] - list[1] + 1) |-> list[1] + i - 1]
    BY <2>1, <2>5 DEF ExpandSequences
  <2>7. list[Len(list)] - list[1] + 1 = Len(list)
    <3>1. list[Len(list)] = list[1] + Len(list) - 1 /\ list[1] \in Nat
      BY <2>2, <2>3, <2>4, SequenceIsPositive
    <3> QED BY <1>2, <3>1
  <2>8. ExpandSequences[o] = [i \in 1..Len(list) |-> list[1] + i - 1]
    BY <2>6, <2>7
  <2>9. ToSet(ExpandSequences[o]) \subseteq ToSet(list)
    BY <1>2, <2>3, <2>8 DEF ToSet
  <2> QED BY <2>5, <2>9 DEF o, list
<1> QED BY <1>3, <1>4

-----------------------------------------------------------------------------
(***************************************************************************)
(* Messages that are added.                                                *)
(***************************************************************************)

LEMMA InsertAtFacts ==
    ASSUME NEW S, NEW s \in Seq(S), NEW i \in 1..(Len(s) + 1), NEW e \in S
    PROVE  /\ InsertAt(s, i, e) \in Seq(S)
           /\ Len(InsertAt(s, i, e)) = Len(s) + 1
           /\ \A j \in 1..(Len(s) + 1) :
                 InsertAt(s, i, e)[j] = IF j < i THEN s[j] ELSE IF j = i THEN e ELSE s[j-1]
<1> DEFINE a == SubSeq(s, 1, i - 1)
           b == SubSeq(s, i, Len(s))
           n == Len(s)
<1>1. n \in Nat /\ i \in Nat /\ 1 <= i /\ i <= n + 1 /\ \A j \in 1..n : s[j] \in S
  BY LenProperties
<1> HIDE DEF n
<1>2. (i - 1) \in Int /\ \A j \in 1..(i - 1) : s[j] \in S
  BY <1>1
<1>3. a \in Seq(S) /\ Len(a) = i - 1 /\ \A j \in 1..(i - 1) : a[j] = s[j]
  <2>1. /\ a \in Seq(S) /\ Len(a) = (IF 1 <= i - 1 THEN (i - 1) - 1 + 1 ELSE 0)
        /\ \A j \in 1..((i - 1) - 1 + 1) : a[j] = s[1 + j - 1]
    BY <1>2, SubSeqProperties
  <2> HIDE DEF a
  <2> QED BY <1>1, <2>1
<1>4. \A j \in i..n : s[j] \in S
  BY <1>1
<1>5. b \in Seq(S) /\ Len(b) = n - i + 1 /\ \A j \in 1..(n - i + 1) : b[j] = s[i + j - 1]
  <2>1. /\ b \in Seq(S) /\ Len(b) = (IF i <= n THEN n - i + 1 ELSE 0)
        /\ \A j \in 1..(n - i + 1) : b[j] = s[i + j - 1]
    BY <1>1, <1>4, SubSeqProperties DEF n
  <2> HIDE DEF b
  <2> QED BY <1>1, <2>1
<1> HIDE DEF a, b
<1> DEFINE ae == a \o <<e>>
<1>6. <<e>> \in Seq(S) /\ Len(<<e>>) = 1 /\ <<e>>[1] = e
  OBVIOUS
<1>7. /\ ae \in Seq(S) /\ Len(ae) = i
      /\ \A j \in 1..i : ae[j] = IF j < i THEN s[j] ELSE e
  <2>1. /\ ae \in Seq(S) /\ Len(ae) = Len(a) + Len(<<e>>)
        /\ \A j \in 1..(Len(a) + Len(<<e>>)) :
              ae[j] = IF j <= Len(a) THEN a[j] ELSE <<e>>[j - Len(a)]
    BY <1>3, <1>6, ConcatProperties
  <2> HIDE DEF ae
  <2>2. Len(ae) = i
    BY <1>1, <1>3, <1>6, <2>1
  <2>3. ASSUME NEW j \in 1..i PROVE ae[j] = IF j < i THEN s[j] ELSE e
    <3> DEFINE e1 == <<e>>
    <3>0. /\ \A k \in 1..(Len(a) + Len(e1)) :
                ae[k] = IF k <= Len(a) THEN a[k] ELSE e1[k - Len(a)]
          /\ Len(a) = i - 1 /\ Len(e1) = 1
      BY <1>3, <1>6, <2>1
    <3> HIDE DEF e1
    <3>1. ae[j] = IF j <= i - 1 THEN a[j] ELSE e1[j - (i - 1)]
      <4>1. j \in 1..(Len(a) + Len(e1))
        BY <1>1, <3>0
      <4> QED BY <3>0, <4>1
    <3>2. CASE j < i
      BY <1>1, <1>3, <3>1, <3>2
    <3>3. CASE ~(j < i)
      <4>1. ~(j <= i - 1) /\ j - (i - 1) = 1
        BY <1>1, <3>3
      <4> QED BY <1>6, <3>1, <3>3, <4>1 DEF e1
    <3> QED BY <3>2, <3>3
  <2> QED BY <2>1, <2>2, <2>3
<1> HIDE DEF ae
<1> DEFINE r == ae \o b
<1>8. /\ r \in Seq(S) /\ Len(r) = Len(ae) + Len(b)
      /\ \A j \in 1..(Len(ae) + Len(b)) :
            r[j] = IF j <= Len(ae) THEN ae[j] ELSE b[j - Len(ae)]
  BY <1>5, <1>7, ConcatProperties
<1> HIDE DEF r
<1>9. Len(r) = n + 1
  BY <1>1, <1>5, <1>7, <1>8
<1>10. ASSUME NEW j \in 1..(n + 1)
       PROVE  r[j] = IF j < i THEN s[j] ELSE IF j = i THEN e ELSE s[j-1]
  <2>1. r[j] = IF j <= i THEN ae[j] ELSE b[j - i]
    BY <1>1, <1>5, <1>7, <1>8
  <2>2. CASE j <= i
    <3>1. j \in 1..i /\ (j < i \/ j = i)
      BY <1>1, <2>2
    <3>2. r[j] = IF j < i THEN s[j] ELSE e
      BY <1>7, <2>1, <2>2, <3>1
    <3> QED BY <3>1, <3>2
  <2>3. CASE ~(j <= i)
    <3>1. j - i \in 1..(n - i + 1) /\ i + (j - i) - 1 = j - 1 /\ ~(j < i) /\ j # i
      BY <1>1, <2>3
    <3>2. b[j - i] = s[i + (j - i) - 1]
      BY <1>5, <3>1
    <3> QED BY <2>1, <2>3, <3>1, <3>2
  <2> QED BY <2>2, <2>3
<1>11. InsertAt(s, i, e) = r
  BY DEF InsertAt, r, ae, a, b
<1> QED BY <1>8, <1>9, <1>10, <1>11 DEF n

\* No element of a list is there twice.
Once(s) == \A i, j \in DOMAIN s : s[i] = s[j] => i = j

LEMMA AddMessageFacts ==
    ASSUME NEW M, NEW ms \in Seq(M), NEW m \in M
    PROVE  /\ AddMessage(ms, m) \in Seq(M)
           /\ ToSet(AddMessage(ms, m)) = ToSet(ms) \cup {m}
           /\ Once(ms) => Once(AddMessage(ms, m))
<1>1. CASE m \in ToSet(ms)
  BY <1>1 DEF AddMessage
<1>2. CASE m \notin ToSet(ms)
  <2> DEFINE n == Len(ms)
             P == {i \in DOMAIN ms : ms[i].timems <= m.timems}
             i == 1 + Cardinality(P)
             r == InsertAt(ms, i, m)
  <2>1. n \in Nat /\ DOMAIN ms = 1..n
    BY LenProperties
  <2>2. Cardinality(P) \in 0..n
    <3>1. P \in SUBSET (1..n)
      BY <2>1
    <3> HIDE DEF P, n
    <3>2. IsFiniteSet(P) /\ Cardinality(P) <= Cardinality(1..n) /\ Cardinality(1..n) = n
      BY <2>1, <3>1, UpTo, FS_Subset
    <3>3. Cardinality(P) \in Nat
      BY <3>2, FS_CardinalityType
    <3> QED BY <2>1, <3>2, <3>3
  <2> HIDE DEF P
  <2>3. i \in 1..(n + 1)
    BY <2>1, <2>2
  <2> HIDE DEF i
  <2>4. /\ r \in Seq(M) /\ Len(r) = n + 1
        /\ \A j \in 1..(n + 1) : r[j] = IF j < i THEN ms[j] ELSE IF j = i THEN m ELSE ms[j-1]
    BY <2>3, InsertAtFacts
  <2>5. DOMAIN r = 1..(n + 1)
    BY <2>4, LenProperties
  <2>6. AddMessage(ms, m) = r
    BY <1>2 DEF AddMessage, AddAgain, P, i
  <2> HIDE DEF r, n
  <2>7. ToSet(r) \subseteq ToSet(ms) \cup {m}
    <3> SUFFICES ASSUME NEW j \in 1..(n + 1) PROVE r[j] \in ToSet(ms) \cup {m}
      BY <2>5 DEF ToSet
    <3>1. CASE j < i
      <4>1. j \in 1..n /\ r[j] = ms[j]
        BY <2>1, <2>3, <2>4, <3>1
      <4> QED BY <2>1, <4>1 DEF ToSet
    <3>2. CASE j = i
      BY <2>1, <2>3, <2>4, <3>2
    <3>3. CASE i < j
      <4>1. j - 1 \in 1..n /\ r[j] = ms[j-1]
        BY <2>1, <2>3, <2>4, <3>3
      <4> QED BY <2>1, <4>1 DEF ToSet
    <3> QED BY <2>3, <3>1, <3>2, <3>3
  <2>8. \A k \in 1..n : \E j \in 1..(n + 1) : r[j] = ms[k]
    <3> SUFFICES ASSUME NEW k \in 1..n PROVE \E j \in 1..(n + 1) : r[j] = ms[k]
      OBVIOUS
    <3>1. CASE k < i
      <4>1. k \in 1..(n + 1) /\ r[k] = ms[k]
        BY <2>1, <2>3, <2>4, <3>1
      <4> QED BY <4>1
    <3>2. CASE ~(k < i)
      <4>1. k + 1 \in 1..(n + 1) /\ (k + 1) - 1 = k /\ ~(k + 1 < i) /\ k + 1 # i
        BY <2>1, <2>3, <3>2
      <4>2. r[k + 1] = ms[k]
        BY <2>4, <4>1
      <4> QED BY <4>1, <4>2
    <3> QED BY <3>1, <3>2
  <2>9. r[i] = m
    BY <2>1, <2>3, <2>4
  <2>10. ToSet(ms) \cup {m} \subseteq ToSet(r)
    BY <2>1, <2>3, <2>5, <2>8, <2>9 DEF ToSet
  <2>11. ASSUME Once(ms) PROVE Once(r)
    <3>1. \A j \in 1..n : ms[j] # m
      BY <1>2, <2>1 DEF ToSet
    <3>2. \A j, k \in 1..n : ms[j] = ms[k] => j = k
      BY <2>1, <2>11 DEF Once
    <3> SUFFICES ASSUME NEW j \in 1..(n + 1), NEW k \in 1..(n + 1), r[j] = r[k], j < k
                 PROVE  FALSE
      BY <2>1, <2>5 DEF Once
    <3>3. CASE k < i
      BY <2>1, <2>3, <2>4, <3>2, <3>3
    <3>4. CASE k = i
      BY <2>1, <2>3, <2>4, <3>1, <3>4
    <3>5. CASE i < k /\ j < i
      <4>1. r[j] = ms[j] /\ r[k] = ms[k-1] /\ j \in 1..n /\ k - 1 \in 1..n /\ j # k - 1
        BY <2>1, <2>3, <2>4, <3>5
      <4> QED BY <3>2, <4>1
    <3>6. CASE j = i
      <4>1. r[j] = m /\ r[k] = ms[k-1] /\ k - 1 \in 1..n
        BY <2>1, <2>3, <2>4, <3>6
      <4> QED BY <3>1, <4>1
    <3>7. CASE i < j
      <4>1. /\ r[j] = ms[j-1] /\ r[k] = ms[k-1] /\ j - 1 \in 1..n /\ k - 1 \in 1..n
            /\ j - 1 # k - 1
        BY <2>1, <2>3, <2>4, <3>7
      <4> QED BY <3>2, <4>1
    <3> QED BY <2>1, <2>3, <3>3, <3>4, <3>5, <3>6, <3>7
  <2> QED BY <2>4, <2>6, <2>7, <2>10, <2>11 DEF r
<1> QED BY <1>1, <1>2

\* The sequence of a new message is one that is possible once it is sent.
LEMMA NextSequenceFacts ==
    ASSUME NEW n \in Nat, NEW ms \in Seq(Message),
           \A m \in ToSet(ms) : m.sequence \in SequencesOf(n)
    PROVE  NextSequence(ms) \in SequencesOf(n + 1)
<1> DEFINE T == ToSet(Sequences(ms)) \cup {0}
<1>1. T \subseteq SequencesOf(n) \cup {0}
  BY ListOfSequences
<1>2. IsFiniteSet(T)
  <2>1. Sequences(ms) \in Lists
    BY ListOfSequences
  <2> DEFINE list == Sequences(ms)
  <2>2. Len(list) \in Nat /\ DOMAIN list = 1..Len(list)
    BY <2>1, ListsFacts
  <2> HIDE DEF list
  <2>3. IsFiniteSet(DOMAIN list)
    BY <2>2, UpTo
  <2>4. [i \in DOMAIN list |-> list[i]] \in Surjection(DOMAIN list, ToSet(list))
    BY DEF Surjection, ToSet
  <2>5. IsFiniteSet(ToSet(list))
    BY <2>3, <2>4, FS_Surjection
  <2> QED BY <2>5, FS_AddElement DEF list
<1>3. T \in SUBSET Nat /\ T # {}
  BY <1>1, SequencesOfFacts
<1>4. NextSequence(ms) = Max(T) + 1
  BY DEF NextSequence, MaxSequence
<1> HIDE DEF T
<1>5. Max(T) \in T
  BY <1>2, <1>3, MaxFacts
<1> QED BY <1>1, <1>4, <1>5, SequencesOfFacts

\* What is sent of a sequence is a message that is held.
LEMMA GetMessageFacts ==
    ASSUME NEW ms \in Seq(Message), NEW n \in ToSet(Sequences(ms))
    PROVE  GetMessage(ms, n) \in ToSet(ms)
<1> DEFINE I == {i \in 1..Len(ms) : ms[i].sequence = n}
<1>1. Len(ms) \in Nat /\ DOMAIN ms = 1..Len(ms)
  BY LenProperties
<1>2. I # {}
  <2>1. PICK m \in ToSet(ms) : n = m.sequence
    BY ListOfSequences
  <2>2. PICK i \in DOMAIN ms : m = ms[i]
    BY DEF ToSet
  <2> QED BY <1>1, <2>1, <2>2
<1>3. GetMessage(ms, n) = ms[Min(I)]
  BY <1>2 DEF GetMessage, SelectInSeq
<1>4. I \in SUBSET Nat /\ I \subseteq 1..Len(ms)
  BY <1>1
<1> HIDE DEF I
<1>5. Min(I) \in I
  BY <1>2, <1>4, MinFacts
<1> QED BY <1>1, <1>3, <1>4, <1>5 DEF ToSet

-----------------------------------------------------------------------------
(***************************************************************************)
(* Folds.  They are defined over the subsets of the domain, an element of  *)
(* which is picked at each step: that there is such a function, and that   *)
(* what each step keeps holds in the end.                                  *)
(***************************************************************************)

Picks(pick, D)    == \A s \in SUBSET D : s # {} => pick[s] \in s
Steps(step, D, A) == \A x \in D, a \in A : step[<<x, a>>] \in A
IsFold(g, D, base, pick, step) ==
    \A s \in SUBSET D :
        g[s] = IF s = {} THEN base ELSE step[<<pick[s], g[s \ {pick[s]}]>>]

LEMMA FoldStays ==
    ASSUME NEW D, IsFiniteSet(D), NEW A, NEW pick, Picks(pick, D), NEW h, h[{}] \in A,
           \A s \in SUBSET D : s # {} /\ h[s \ {pick[s]}] \in A => h[s] \in A
    PROVE  h[D] \in A
<1> DEFINE Bad == {s \in SUBSET D : h[s] \notin A}
           Sizes == {Cardinality(s) : s \in Bad}
<1> SUFFICES ASSUME Bad # {} PROVE FALSE
  OBVIOUS
<1>1. \A s \in SUBSET D : IsFiniteSet(s) /\ Cardinality(s) \in Nat
  BY FS_Subset, FS_CardinalityType
<1>2. Sizes \in SUBSET Nat /\ Sizes # {}
  BY <1>1
<1> HIDE DEF Bad
<1>3. PICK n \in Sizes : \A k \in Sizes : n <= k
  <2> HIDE DEF Sizes
  <2> QED BY <1>2, Smallest
<1>4. PICK s \in Bad : Cardinality(s) = n
  OBVIOUS
<1>5. s \in SUBSET D /\ s # {} /\ h[s] \notin A
  BY DEF Bad
<1>6. pick[s] \in s
  BY <1>5 DEF Picks
<1> DEFINE t == s \ {pick[s]}
<1>7. t \in SUBSET D /\ Cardinality(t) = n - 1
  BY <1>1, <1>4, <1>5, <1>6, FS_RemoveElement
<1>8. h[t] \notin A
  BY <1>5
<1>9. t \in Bad
  BY <1>7, <1>8 DEF Bad
<1>10. n - 1 \in Sizes
  BY <1>7, <1>9
<1>11. n \in Nat
  BY <1>2
<1> HIDE DEF Sizes
<1> QED BY <1>3, <1>10, <1>11

LEMMA FoldExists ==
    ASSUME NEW D, IsFiniteSet(D), NEW A, NEW base \in A, NEW pick, Picks(pick, D),
           NEW step, Steps(step, D, A)
    PROVE  \E g \in [SUBSET D -> A] : IsFold(g, D, base, pick, step)
<1> DEFINE Rest(s) == s \ {pick[s]}
           Small(n) == {s \in SUBSET D : Cardinality(s) <= n}
           Value(g, s) == IF s = {} THEN base ELSE step[<<pick[s], g[Rest(s)]>>]
           Done(n) == \E g \in [Small(n) -> A] : \A s \in Small(n) : g[s] = Value(g, s)
           Bad == {n \in Nat : ~Done(n)}
<1>1. \A s \in SUBSET D : IsFiniteSet(s) /\ Cardinality(s) \in Nat
  BY FS_Subset, FS_CardinalityType
<1>2. \A s \in SUBSET D : s # {} => /\ Rest(s) \in SUBSET D /\ pick[s] \in D
                                    /\ Cardinality(Rest(s)) = Cardinality(s) - 1
  BY <1>1, FS_RemoveElement DEF Picks
<1>3. \A s \in SUBSET D : Cardinality(s) = 0 => s = {}
  BY <1>1, FS_EmptySet
<1> HIDE DEF Rest
<1>4. Done(0)
  <2> DEFINE g == [s \in Small(0) |-> base]
  <2>1. \A s \in Small(0) : s = {}
    BY <1>1, <1>3
  <2>2. g \in [Small(0) -> A]
    OBVIOUS
  <2>3. \A s \in Small(0) : g[s] = Value(g, s)
    BY <2>1
  <2> HIDE DEF g, Small
  <2> QED BY <2>2, <2>3
<1>5. ASSUME NEW n \in Nat, Done(n) PROVE Done(n + 1)
  <2>1. PICK g \in [Small(n) -> A] : \A s \in Small(n) : g[s] = Value(g, s)
    BY <1>5
  <2> DEFINE f == [s \in Small(n + 1) |-> Value(g, s)]
  <2>2. \A s \in Small(n + 1) : s # {} => Rest(s) \in Small(n) /\ pick[s] \in D
    BY <1>1, <1>2
  <2>3. Small(n) \subseteq Small(n + 1)
    BY <1>1
  <2> HIDE DEF Small
  <2>4. \A s \in Small(n + 1) : Value(g, s) \in A
    BY <2>1, <2>2 DEF Steps
  <2>5. \A s \in Small(n) : f[s] = g[s]
    BY <2>1, <2>3
  <2>6. \A s \in Small(n + 1) : f[s] = Value(f, s)
    BY <2>2, <2>5
  <2>7. f \in [Small(n + 1) -> A]
    BY <2>4
  <2> HIDE DEF f, Value
  <2> QED BY <2>6, <2>7
<1> HIDE DEF Done
<1>6. \A n \in Nat : Done(n)
  <2> SUFFICES ASSUME Bad # {} PROVE FALSE
    OBVIOUS
  <2>1. Bad \in SUBSET Nat
    OBVIOUS
  <2>2. PICK n \in Bad : \A k \in Bad : n <= k
    <3> HIDE DEF Bad
    <3> QED BY <2>1, Smallest
  <2>3. n # 0 /\ n \in Nat
    BY <1>4
  <2>4. n - 1 \in Nat /\ ~(n <= n - 1) /\ (n - 1) + 1 = n
    BY <2>3
  <2>5. Done(n - 1)
    BY <2>2, <2>4
  <2> QED BY <1>5, <2>4, <2>5
<1>7. Cardinality(D) \in Nat /\ Small(Cardinality(D)) = SUBSET D
  BY <1>1, FS_Subset
<1>8. Done(Cardinality(D))
  BY <1>6, <1>7
<1> HIDE DEF Small
<1>9. \E g \in [SUBSET D -> A] : \A s \in SUBSET D : g[s] = Value(g, s)
  BY <1>7, <1>8 DEF Done
<1> QED BY <1>9 DEF Rest, IsFold

\* Messages sent in bulk are added to those that are held, none twice.
LEMMA BulkFacts ==
    ASSUME NEW M, NEW ms \in Seq(M), NEW ns \in Seq(M)
    PROVE  /\ AddAll(ms, ns) \in Seq(M)
           /\ ToSet(ms) \subseteq ToSet(AddAll(ms, ns))
           /\ Once(ms) => Once(AddAll(ms, ns))
<1> DEFINE A == {l \in Seq(M) : ToSet(ms) \subseteq ToSet(l) /\ (Once(ms) => Once(l))}
           D == DOMAIN ns
           pick == [s \in SUBSET D |-> Min(s)]
           step == [p \in D \X A |-> AddMessage(p[2], ns[p[1]])]
           Sol(h) == h = [s \in SUBSET D |->
                            IF s = {} THEN ms ELSE AddMessage(h[s \ {Min(s)}], ns[Min(s)])]
<1>1. AddAll(ms, ns) = (CHOOSE h : Sol(h))[D]
  BY DEF AddAll, FoldRight, MapThenFoldSet
<1>2. D = 1..Len(ns) /\ Len(ns) \in Nat /\ \A x \in D : ns[x] \in M
  BY LenProperties
<1>3. IsFiniteSet(D) /\ \A s \in SUBSET D : s # {} => Min(s) \in s
  <2>1. IsFiniteSet(1..Len(ns))
    BY <1>2, UpTo
  <2>2. D \subseteq Nat /\ IsFiniteSet(D)
    BY <1>2, <2>1
  <2> HIDE DEF D
  <2> QED BY <2>2, MinFacts
<1> HIDE DEF D
<1>4. Picks(pick, D) /\ \A s \in SUBSET D : pick[s] = Min(s)
  BY <1>3 DEF Picks
<1> HIDE DEF pick
<1>5. ms \in A
  OBVIOUS
<1>6. \A x \in D, l \in A : AddMessage(l, ns[x]) \in A
  <2> SUFFICES ASSUME NEW x \in D, NEW l \in A PROVE AddMessage(l, ns[x]) \in A
    OBVIOUS
  <2>1. ns[x] \in M /\ l \in Seq(M)
    BY <1>2
  <2> DEFINE n == ns[x]
  <2>2. n \in M /\ l \in Seq(M) /\ ToSet(ms) \subseteq ToSet(l) /\ (Once(ms) => Once(l))
    BY <2>1
  <2> HIDE DEF n, A
  <2>3. /\ AddMessage(l, n) \in Seq(M)
        /\ ToSet(l) \subseteq ToSet(AddMessage(l, n))
        /\ Once(l) => Once(AddMessage(l, n))
    BY <2>2, AddMessageFacts
  <2> QED BY <2>2, <2>3 DEF n, A
<1> HIDE DEF A
<1>7. \A x \in D, l \in A : step[<<x, l>>] = AddMessage(l, ns[x])
  OBVIOUS
<1> HIDE DEF step
<1>8. PICK g \in [SUBSET D -> A] : IsFold(g, D, ms, pick, step)
  <2>1. Steps(step, D, A)
    BY <1>6, <1>7 DEF Steps
  <2> QED BY <1>3, <1>4, <1>5, <2>1, FoldExists
<1>9. \A s \in SUBSET D :
         g[s] = IF s = {} THEN ms ELSE AddMessage(g[s \ {Min(s)}], ns[Min(s)])
  <2> SUFFICES ASSUME NEW s \in SUBSET D, s # {}
               PROVE  g[s] = AddMessage(g[s \ {Min(s)}], ns[Min(s)])
    BY <1>8 DEF IsFold
  <2>1. pick[s] = Min(s) /\ Min(s) \in D /\ s \ {Min(s)} \in SUBSET D
    BY <1>3, <1>4
  <2> QED BY <1>7, <1>8, <2>1 DEF IsFold
<1>10. Sol(g)
  BY <1>9
<1> DEFINE h == CHOOSE h : Sol(h)
<1>11. Sol(h)
  <2> HIDE DEF Sol
  <2> QED BY <1>10
<1> HIDE DEF h
<1>12. \A s \in SUBSET D :
         h[s] = IF s = {} THEN ms ELSE AddMessage(h[s \ {Min(s)}], ns[Min(s)])
  BY <1>11
<1>13. \A s \in SUBSET D : s # {} /\ h[s \ {pick[s]}] \in A => h[s] \in A
  <2> SUFFICES ASSUME NEW s \in SUBSET D, s # {}, h[s \ {pick[s]}] \in A PROVE h[s] \in A
    OBVIOUS
  <2>1. pick[s] = Min(s) /\ Min(s) \in D
    BY <1>3, <1>4
  <2> QED BY <1>6, <1>12, <2>1
<1>14. h[{}] \in A
  BY <1>5, <1>12
<1>15. h[D] \in A
  BY <1>3, <1>4, <1>13, <1>14, FoldStays
<1>16. AddAll(ms, ns) \in A
  BY <1>1, <1>15 DEF h
<1> QED BY <1>16 DEF A

-----------------------------------------------------------------------------
(***************************************************************************)
(* Requests.                                                               *)
(***************************************************************************)

Request == [clientid : Client, sequenceList : Lists, left : 1..Window]

\* The sequences in lists of requests, or of offers, and that none is in two.
Wanted(rs) == UNION {ToSet(r.sequenceList) : r \in ToSet(rs)}
Apart(rs)  == \A i, j \in DOMAIN rs :
                 i # j => ToSet(rs[i].sequenceList) \cap ToSet(rs[j].sequenceList) = {}

LEMMA WantedIsSequences ==
    ASSUME NEW R, NEW rs \in Seq(R), \A r \in R : r.sequenceList \in Lists
    PROVE  Wanted(rs) \in SUBSET Sequence
<1> SUFFICES ASSUME NEW r \in ToSet(rs) PROVE ToSet(r.sequenceList) \subseteq Sequence
  BY DEF Wanted
<1>1. r.sequenceList \in Lists
  BY LenProperties DEF ToSet
<1> DEFINE list == r.sequenceList
<1> HIDE DEF list
<1>2. ToSet(list) \subseteq Sequence
  BY <1>1, ListsFacts DEF ToSet, list
<1> QED BY <1>2 DEF list

LEMMA LatestFacts ==
    ASSUME NEW list \in Lists
    PROVE  Latest[list] \in Lists /\ ToSet(Latest[list]) \subseteq ToSet(list)
<1>1. Latest[list] = IF Len(list) > MaxRequest
                     THEN SubSeq(list, Len(list) - MaxRequest + 1, Len(list)) ELSE list
  BY DEF Latest
<1>2. CASE ~(Len(list) > MaxRequest)
  BY <1>1, <1>2
<1>3. CASE Len(list) > MaxRequest
  <2> DEFINE n == Len(list)
             m == n - MaxRequest + 1
             r == SubSeq(list, m, n)
  <2>1. n \in Nat /\ DOMAIN list = 1..n /\ \A i \in 1..n : list[i] \in Sequence
    BY ListsFacts
  <2>2. MaxRequest \in Nat \ {0} /\ n > MaxRequest
    BY <1>3, BoundFacts
  <2> HIDE DEF n
  <2>3. m \in Int /\ 1 <= m /\ m <= n /\ n - m + 1 = MaxRequest
    BY <2>1, <2>2
  <2> HIDE DEF m
  <2>4. \A i \in m..n : list[i] \in Sequence
    BY <2>1, <2>3
  <2>5. /\ r \in Seq(Sequence)
        /\ Len(r) = (IF m <= n THEN n - m + 1 ELSE 0)
        /\ \A i \in 1..(n - m + 1) : r[i] = list[m + i - 1]
    BY <2>1, <2>3, <2>4, SubSeqProperties
  <2> HIDE DEF r
  <2>6. DOMAIN r = 1..MaxRequest
    BY <2>3, <2>5, LenProperties
  <2>7. \A i \in 1..MaxRequest : r[i] = list[m + i - 1] /\ m + i - 1 \in 1..n
    BY <2>1, <2>2, <2>3, <2>5
  <2>8. ToSet(r) \subseteq ToSet(list)
    BY <2>1, <2>6, <2>7 DEF ToSet
  <2>9. Latest[list] = r
    BY <1>1, <1>3 DEF r, m, n
  <2> QED BY <2>5, <2>8, <2>9 DEF Lists
<1> QED BY <1>2, <1>3

LEMMA ConsiderRequestFacts ==
    ASSUME NEW list \in Lists, NEW R, NEW asked \in Seq(R),
           \A r \in R : r.sequenceList \in Lists
    PROVE  /\ ConsiderRequest(list, asked) \in Lists
           /\ ToSet(ConsiderRequest(list, asked)) \subseteq ToSet(list) \ Wanted(asked)
<1> DEFINE d == ArrayDiff[list][Wanted(asked)]
<1>1. d \in Lists /\ ToSet(d) \subseteq ToSet(list) \ Wanted(asked)
  BY WantedIsSequences, ArrayDiffFacts
<1>2. ConsiderRequest(list, asked) = Latest[d]
  BY DEF ConsiderRequest, AskAgain, Wanted
<1> HIDE DEF d
<1> QED BY <1>1, <1>2, LatestFacts

\* What is considered to be asked for of a list was not asked for before.
LEMMA ConsiderOfferFacts ==
    ASSUME NEW c \in Client, messages[c] \in Seq(Message), requests[c] \in Seq(Request),
           NEW list \in Lists
    PROVE  /\ ConsiderOffer(c, list) \in Lists
           /\ ToSet(ConsiderOffer(c, list)) \subseteq ToSet(list) \ Wanted(requests[c])
<1> DEFINE d == ArrayDiff[list][ToSet(Sequences(messages[c]))]
<1>1. d \in Lists /\ ToSet(d) \subseteq ToSet(list)
  <2>1. ToSet(Sequences(messages[c])) \in SUBSET Sequence
    BY ListOfSequences
  <2> QED BY <2>1, ArrayDiffFacts
<1>2. \A r \in Request : r.sequenceList \in Lists
  BY DEF Request
<1>3. ConsiderOffer(c, list) = ConsiderRequest(d, requests[c])
  BY DEF ConsiderOffer
<1> HIDE DEF d
<1> QED BY <1>1, <1>2, <1>3, ConsiderRequestFacts

LEMMA AppendApart ==
    ASSUME NEW R, NEW rs \in Seq(R), NEW r \in R, Apart(rs),
           ToSet(r.sequenceList) \cap Wanted(rs) = {}
    PROVE  /\ Append(rs, r) \in Seq(R) /\ Apart(Append(rs, r))
           /\ ToSet(Append(rs, r)) = ToSet(rs) \cup {r}
           /\ Wanted(Append(rs, r)) = Wanted(rs) \cup ToSet(r.sequenceList)
<1> DEFINE t == Append(rs, r)
           n == Len(rs)
<1>1. n \in Nat /\ DOMAIN rs = 1..n
  BY LenProperties
<1>2. /\ t \in Seq(R) /\ Len(t) = n + 1 /\ DOMAIN t = 1..(n + 1)
      /\ \A i \in 1..n : t[i] = rs[i]
      /\ t[n + 1] = r
  BY AppendProperties, LenProperties
<1>3. \A i \in 1..n : ToSet(rs[i].sequenceList) \subseteq Wanted(rs)
  BY <1>1 DEF Wanted, ToSet
<1> HIDE DEF t, n
<1>4. \A i \in 1..(n + 1) : i \in 1..n \/ i = n + 1
  BY <1>1
<1>5. \A i, j \in 1..n : i # j => ToSet(rs[i].sequenceList) \cap ToSet(rs[j].sequenceList) = {}
  BY <1>1 DEF Apart
<1>6. Apart(t)
  <2> SUFFICES ASSUME NEW i \in 1..(n + 1), NEW j \in 1..(n + 1), i # j
               PROVE  ToSet(t[i].sequenceList) \cap ToSet(t[j].sequenceList) = {}
    BY <1>2 DEF Apart
  <2>1. CASE i \in 1..n /\ j \in 1..n
    BY <1>2, <1>5, <2>1
  <2>2. CASE i = n + 1 /\ j \in 1..n
    BY <1>2, <1>3, <2>2
  <2>3. CASE i \in 1..n /\ j = n + 1
    BY <1>2, <1>3, <2>3
  <2> QED BY <1>4, <2>1, <2>2, <2>3
<1>7. ToSet(t) = ToSet(rs) \cup {r}
  <2>1. ToSet(t) \subseteq ToSet(rs) \cup {r}
    BY <1>1, <1>2, <1>4 DEF ToSet
  <2>2. ToSet(rs) \subseteq ToSet(t)
    BY <1>1, <1>2 DEF ToSet
  <2>3. r \in ToSet(t)
    BY <1>1, <1>2 DEF ToSet
  <2> QED BY <2>1, <2>2, <2>3
<1>8. Wanted(t) = Wanted(rs) \cup ToSet(r.sequenceList)
  BY <1>7 DEF Wanted
<1> QED BY <1>2, <1>6, <1>7, <1>8 DEF t

\* The client of the event can send its list.
Honest(o) == ToSet(o.sequenceList) \subseteq ToSet(Sequences(messages[o.clientid]))

\* What scheduleRequest collects are lists that share nothing, nor have they
\* anything of what was asked for before, and that their clients can send.
Collected(c) ==
    {t \in Seq(HistoryEvent) : /\ Apart(t) /\ Wanted(t) \cap Wanted(requests[c]) = {}
                               /\ \A r \in ToSet(t) : Honest(r)}

LEMMA ConsiderFacts ==
    ASSUME NEW c \in Client, messages[c] \in Seq(Message), requests[c] \in Seq(Request),
           NEW total \in Collected(c), NEW o \in HistoryEvent, Honest(o)
    PROVE  Consider(c)[total][o] \in Collected(c)
<1> DEFINE a == ArrayDiff[o.sequenceList][Wanted(total)]
           list == ConsiderOffer(c, a)
           e == [o EXCEPT !.sequenceList = list]
<1>1. /\ total \in Seq(HistoryEvent) /\ Apart(total)
      /\ Wanted(total) \cap Wanted(requests[c]) = {}
      /\ \A r \in ToSet(total) : Honest(r)
  BY DEF Collected
<1>2. o.sequenceList \in Lists /\ \A r \in HistoryEvent : r.sequenceList \in Lists
  BY DEF HistoryEvent
<1>3. /\ a \in Lists /\ ToSet(a) \cap Wanted(total) = {}
      /\ ToSet(a) \subseteq ToSet(o.sequenceList)
  <2>1. Wanted(total) \in SUBSET Sequence
    BY <1>1, <1>2, WantedIsSequences
  <2> QED BY <1>2, <2>1, ArrayDiffFacts
<1>4. Consider(c)[total][o] = IF list = <<>> THEN total ELSE Append(total, e)
  BY <1>1 DEF Consider, Wanted
<1> HIDE DEF a
<1>5. list \in Lists /\ ToSet(list) \subseteq ToSet(a) \ Wanted(requests[c])
  BY <1>3, ConsiderOfferFacts
<1> HIDE DEF list
<1>6. e \in HistoryEvent /\ e.sequenceList = list /\ e.clientid = o.clientid
  BY <1>5 DEF HistoryEvent
<1> HIDE DEF e
<1>7. /\ Append(total, e) \in Seq(HistoryEvent) /\ Apart(Append(total, e))
      /\ Wanted(Append(total, e)) = Wanted(total) \cup ToSet(list)
      /\ ToSet(Append(total, e)) = ToSet(total) \cup {e}
  BY <1>1, <1>3, <1>5, <1>6, AppendApart
<1>8. Honest(e)
  BY <1>3, <1>5, <1>6 DEF Honest
<1>9. Append(total, e) \in Collected(c)
  BY <1>1, <1>5, <1>7, <1>8 DEF Collected
<1> QED BY <1>4, <1>9

LEMMA CollectFacts ==
    ASSUME NEW c \in Client, messages[c] \in Seq(Message), requests[c] \in Seq(Request),
           offers[c] \in Seq(HistoryEvent), \A o \in ToSet(offers[c]) : Honest(o)
    PROVE  Collect(c) \in Collected(c)
<1> DEFINE A == Collected(c)
           os == offers[c]
           D == DOMAIN os
           pick == [s \in SUBSET D |-> Max(s)]
           step == [p \in D \X A |-> Consider(c)[p[2]][os[p[1]]]]
           Sol(h) == h = [s \in SUBSET D |->
                            IF s = {} THEN <<>> ELSE Consider(c)[h[s \ {Max(s)}]][os[Max(s)]]]
<1>1. Collect(c) = (CHOOSE h : Sol(h))[D]
  BY DEF Collect, FoldLeft, MapThenFoldSet
<1>2. /\ D = 1..Len(os) /\ Len(os) \in Nat
      /\ \A x \in D : os[x] \in HistoryEvent /\ Honest(os[x])
  <2>1. \A x \in D : os[x] \in ToSet(os)
    BY DEF ToSet
  <2> QED BY <2>1, LenProperties
<1>3. IsFiniteSet(D) /\ \A s \in SUBSET D : s # {} => Max(s) \in s
  <2>1. IsFiniteSet(1..Len(os))
    BY <1>2, UpTo
  <2>2. D \subseteq Nat /\ IsFiniteSet(D)
    BY <1>2, <2>1
  <2> HIDE DEF D
  <2>3. \A s \in SUBSET D : IsFiniteSet(s)
    BY <2>2, FS_Subset
  <2> QED BY <2>2, <2>3, MaxFacts
<1> HIDE DEF D
<1>4. Picks(pick, D) /\ \A s \in SUBSET D : pick[s] = Max(s)
  BY <1>3 DEF Picks
<1> HIDE DEF pick
<1>5. <<>> \in A
  <2>1. ToSet(<<>>) = {} /\ DOMAIN <<>> = {}
    BY DEF ToSet
  <2>2. Wanted(<<>>) = {} /\ Apart(<<>>)
    BY <2>1 DEF Wanted, Apart
  <2> QED BY <2>1, <2>2 DEF Collected
<1>6. \A x \in D, t \in A : Consider(c)[t][os[x]] \in A
  BY <1>2, ConsiderFacts
<1> HIDE DEF A
<1>7. \A x \in D, t \in A : step[<<x, t>>] = Consider(c)[t][os[x]]
  OBVIOUS
<1> HIDE DEF step
<1>8. PICK g \in [SUBSET D -> A] : IsFold(g, D, <<>>, pick, step)
  <2>1. Steps(step, D, A)
    BY <1>6, <1>7 DEF Steps
  <2> QED BY <1>3, <1>4, <1>5, <2>1, FoldExists
<1>9. \A s \in SUBSET D :
         g[s] = IF s = {} THEN <<>> ELSE Consider(c)[g[s \ {Max(s)}]][os[Max(s)]]
  <2> SUFFICES ASSUME NEW s \in SUBSET D, s # {}
               PROVE  g[s] = Consider(c)[g[s \ {Max(s)}]][os[Max(s)]]
    BY <1>8 DEF IsFold
  <2>1. pick[s] = Max(s) /\ Max(s) \in D /\ s \ {Max(s)} \in SUBSET D
    BY <1>3, <1>4
  <2> QED BY <1>7, <1>8, <2>1 DEF IsFold
<1>10. Sol(g)
  BY <1>9
<1> DEFINE h == CHOOSE h : Sol(h)
<1>11. Sol(h)
  <2> HIDE DEF Sol
  <2> QED BY <1>10
<1> HIDE DEF h
<1>12. \A s \in SUBSET D :
         h[s] = IF s = {} THEN <<>> ELSE Consider(c)[h[s \ {Max(s)}]][os[Max(s)]]
  BY <1>11
<1>13. \A s \in SUBSET D : s # {} /\ h[s \ {pick[s]}] \in A => h[s] \in A
  <2> SUFFICES ASSUME NEW s \in SUBSET D, s # {}, h[s \ {pick[s]}] \in A PROVE h[s] \in A
    OBVIOUS
  <2>1. pick[s] = Max(s) /\ Max(s) \in D
    BY <1>3, <1>4
  <2> QED BY <1>6, <1>12, <2>1
<1>14. h[{}] \in A
  BY <1>5, <1>12
<1>15. h[D] \in A
  BY <1>3, <1>4, <1>13, <1>14, FoldStays
<1> QED BY <1>1, <1>15 DEF h, A

\* Of each client that is asked one list is taken, and of two clients two.
LEMMA GetFacts ==
    ASSUME NEW total \in Seq(HistoryEvent)
    PROVE  /\ DOMAIN Get(total) \in SUBSET Client
           /\ Get(total) \in [DOMAIN Get(total) -> Lists]
           /\ \A id \in DOMAIN Get(total) : ToSet(Get(total)[id]) \subseteq Wanted(total)
           /\ Apart(total) => \A a, b \in DOMAIN Get(total) :
                                 a # b => ToSet(Get(total)[a]) \cap ToSet(Get(total)[b]) = {}
           /\ (\A r \in ToSet(total) : Honest(r)) =>
                 \A id \in DOMAIN Get(total) :
                     ToSet(Get(total)[id]) \subseteq ToSet(Sequences(messages[id]))
<1> DEFINE S == {r.clientid : r \in ToSet(total)}
           Of(id) == {i \in DOMAIN total : total[i].clientid = id}
           at(id) == Max(Of(id))
           get == Get(total)
<1>1. /\ DOMAIN total = 1..Len(total) /\ Len(total) \in Nat
      /\ \A i \in DOMAIN total : total[i] \in HistoryEvent
  BY LenProperties
<1>2. DOMAIN get = S /\ \A id \in S : get[id] = total[at(id)].sequenceList
  BY DEF Get
<1>3. get = [id \in S |-> total[at(id)].sequenceList]
  BY DEF Get
<1> HIDE DEF get
<1>4. \A id \in S : at(id) \in DOMAIN total /\ total[at(id)].clientid = id
  <2> SUFFICES ASSUME NEW id \in S PROVE Max(Of(id)) \in Of(id)
    OBVIOUS
  <2>1. Of(id) # {}
    BY DEF ToSet
  <2>2. Of(id) \in SUBSET (1..Len(total))
    BY <1>1
  <2>3. IsFiniteSet(1..Len(total))
    BY <1>1, UpTo
  <2> HIDE DEF Of
  <2>4. IsFiniteSet(Of(id)) /\ Of(id) \in SUBSET Nat
    BY <2>2, <2>3, FS_Subset
  <2> QED BY <2>1, <2>4, MaxFacts
<1> HIDE DEF Of
<1>5. S \in SUBSET Client
  <2>1. \A r \in ToSet(total) : r.clientid \in Client
    BY <1>1 DEF ToSet, HistoryEvent
  <2> QED BY <2>1
<1>6. \A i \in DOMAIN total : /\ total[i].sequenceList \in Lists
                              /\ ToSet(total[i].sequenceList) \subseteq Wanted(total)
  <2>1. \A i \in DOMAIN total : total[i].sequenceList \in Lists
    BY <1>1 DEF HistoryEvent
  <2> QED BY <2>1 DEF Wanted, ToSet
<1> HIDE DEF S, at
<1>7. get \in [S -> Lists]
  BY <1>3, <1>4, <1>6
<1>8. \A id \in S : ToSet(get[id]) \subseteq Wanted(total)
  BY <1>2, <1>4, <1>6
<1>9. ASSUME Apart(total), NEW a \in S, NEW b \in S, a # b
      PROVE  ToSet(get[a]) \cap ToSet(get[b]) = {}
  <2>1. at(a) \in DOMAIN total /\ at(b) \in DOMAIN total /\ at(a) # at(b)
    BY <1>4, <1>9
  <2> QED BY <1>2, <1>9, <2>1 DEF Apart
<1>10. ASSUME \A r \in ToSet(total) : Honest(r), NEW id \in S
       PROVE  ToSet(get[id]) \subseteq ToSet(Sequences(messages[id]))
  <2>1. total[at(id)] \in ToSet(total) /\ total[at(id)].clientid = id
    BY <1>4 DEF ToSet
  <2> QED BY <1>2, <1>10, <2>1 DEF Honest
<1> QED BY <1>2, <1>5, <1>7, <1>8, <1>9, <1>10 DEF get

LEMMA AskedFacts ==
    ASSUME NEW c \in Client, requests[c] \in Seq(Request), Apart(requests[c]),
           NEW S \in SUBSET Client, NEW get \in [S -> Lists],
           \A a, b \in S : a # b => ToSet(get[a]) \cap ToSet(get[b]) = {},
           \A a \in S : ToSet(get[a]) \cap Wanted(requests[c]) = {}
    PROVE  Asked(c, get) \in Seq(Request) /\ Apart(Asked(c, get))
<1> DEFINE rs == requests[c]
           ids == SetToSeq(S)
           k == Cardinality(S)
           n == Len(rs)
           new == [i \in DOMAIN ids |->
                      [clientid |-> ids[i], sequenceList |-> get[ids[i]], left |-> Window]]
           r == rs \o new
<1>1. IsFiniteSet(S) /\ k \in Nat /\ ExistsBijection(1..k, S)
  BY ClientIsFinite, FS_Subset, FS_CardinalityType
<1>2. ids \in [1..k -> S] /\ \A i, j \in 1..k : ids[i] = ids[j] => i = j
  <2>1. \E f \in [1..k -> S] : IsInjective(f)
    BY <1>1 DEF ExistsBijection, Bijection, Injection
  <2>2. ids \in [1..k -> S] /\ IsInjective(ids)
    BY <2>1 DEF SetToSeq
  <2> HIDE DEF ids
  <2> QED BY <2>2 DEF IsInjective
<1> HIDE DEF k, ids
<1>3. /\ DOMAIN new = 1..k
      /\ \A i \in 1..k : new[i].sequenceList = get[ids[i]] /\ new[i] \in Request
  <2>1. DOMAIN new = 1..k
    BY <1>2
  <2>2. Window \in 1..Window
    BY BoundFacts
  <2> QED BY <1>2, <2>1, <2>2 DEF Request
<1>4. new \in Seq(Request) /\ Len(new) = k
  <2>1. new = [i \in 1..k |-> new[i]]
    BY <1>3
  <2> HIDE DEF new
  <2> QED BY <1>1, <1>3, <2>1, IsASeq
<1> HIDE DEF new
<1>5. n \in Nat /\ rs \in Seq(Request) /\ DOMAIN rs = 1..n
  BY LenProperties
<1>6. /\ r \in Seq(Request) /\ Len(r) = n + k /\ DOMAIN r = 1..(n + k)
      /\ \A i \in 1..(n + k) : r[i] = IF i <= n THEN rs[i] ELSE new[i - n]
  <2> HIDE DEF rs
  <2>1. /\ r \in Seq(Request) /\ Len(r) = Len(rs) + Len(new)
        /\ \A i \in 1..(Len(rs) + Len(new)) :
              r[i] = IF i <= Len(rs) THEN rs[i] ELSE new[i - Len(rs)]
    BY <1>4, <1>5, ConcatProperties
  <2> HIDE DEF r
  <2>2. DOMAIN r = 1..Len(r)
    BY <2>1, LenProperties
  <2> QED BY <1>4, <2>1, <2>2
<1>7. \A i \in 1..n : ToSet(rs[i].sequenceList) \subseteq Wanted(rs)
  BY <1>5 DEF Wanted, ToSet
<1>8. \A i, j \in 1..n : i # j => ToSet(rs[i].sequenceList) \cap ToSet(rs[j].sequenceList) = {}
  BY <1>5 DEF Apart
<1> HIDE DEF r, n
<1>9. \A i \in 1..(n + k) : i <= n => i \in 1..n /\ r[i] = rs[i]
  BY <1>5, <1>6
<1>10. \A i \in 1..(n + k) : ~(i <= n) => /\ i - n \in 1..k
                                          /\ r[i].sequenceList = get[ids[i - n]]
  <2> SUFFICES ASSUME NEW i \in 1..(n + k), ~(i <= n)
               PROVE  i - n \in 1..k /\ r[i].sequenceList = get[ids[i - n]]
    OBVIOUS
  <2>1. i - n \in 1..k
    BY <1>1, <1>5
  <2>2. r[i] = new[i - n]
    BY <1>6
  <2> QED BY <1>3, <2>1, <2>2
<1>11. Apart(r)
  <2> SUFFICES ASSUME NEW i \in 1..(n + k), NEW j \in 1..(n + k), i # j
               PROVE  ToSet(r[i].sequenceList) \cap ToSet(r[j].sequenceList) = {}
    BY <1>6 DEF Apart
  <2>1. CASE i <= n /\ j <= n
    BY <1>8, <1>9, <2>1
  <2>2. CASE i <= n /\ ~(j <= n)
    <3>1. ToSet(r[j].sequenceList) \cap Wanted(rs) = {}
      BY <1>2, <1>10, <2>2
    <3> QED BY <1>7, <1>9, <2>2, <3>1
  <2>3. CASE ~(i <= n) /\ j <= n
    <3>1. ToSet(r[i].sequenceList) \cap Wanted(rs) = {}
      BY <1>2, <1>10, <2>3
    <3> QED BY <1>7, <1>9, <2>3, <3>1
  <2>4. CASE ~(i <= n) /\ ~(j <= n)
    <3>1. i - n \in 1..k /\ j - n \in 1..k /\ i - n # j - n
      BY <1>5, <1>10, <2>4
    <3>2. ids[i - n] \in S /\ ids[j - n] \in S /\ ids[i - n] # ids[j - n]
      BY <1>2, <3>1
    <3> QED BY <1>10, <2>4, <3>2
  <2> QED BY <2>1, <2>2, <2>3, <2>4
<1>12. Asked(c, get) = r
  BY DEF Asked, r, new, ids
<1> QED BY <1>6, <1>11, <1>12

\* A request that gets no answer for the time of the window is outstanding no
\* more.
LEMMA OutstandingFacts ==
    ASSUME NEW rs \in Seq(Request), Apart(rs)
    PROVE  Outstanding(rs) \in Seq(Request) /\ Apart(Outstanding(rs))
<1> DEFINE AgedRequest == [clientid : Client, sequenceList : Lists, left : Nat]
           aged == [i \in DOMAIN rs |-> Older(rs[i])]
           P == {i \in DOMAIN aged : aged[i].left > 0}
           r == Elements(aged, P)
<1>1. DOMAIN rs = 1..Len(rs) /\ Len(rs) \in Nat /\ \A i \in DOMAIN rs : rs[i] \in Request
  BY LenProperties
<1>2. \A i \in DOMAIN rs : /\ Older(rs[i]) \in AgedRequest
                           /\ Older(rs[i]).sequenceList = rs[i].sequenceList
                           /\ Older(rs[i]).left > 0 => Older(rs[i]) \in Request
  <2> SUFFICES ASSUME NEW q \in Request
               PROVE  /\ Older(q) \in AgedRequest /\ Older(q).sequenceList = q.sequenceList
                      /\ Older(q).left > 0 => Older(q) \in Request
    BY <1>1
  <2>1. Older(q) = [q EXCEPT !.left = q.left - 1]
    BY DEF Older
  <2>2. q.left \in 1..Window /\ Window \in Nat
    BY BoundFacts DEF Request
  <2>3. q.left - 1 \in Nat /\ (q.left - 1 > 0 => q.left - 1 \in 1..Window)
    BY <2>2
  <2> QED BY <2>1, <2>3 DEF Request
<1>3. aged \in Seq(AgedRequest) /\ DOMAIN aged = DOMAIN rs
  BY <1>1, <1>2, IsASeq
<1>4. \A i \in DOMAIN rs : aged[i].sequenceList = rs[i].sequenceList
  BY <1>2
<1>5. P \in SUBSET DOMAIN aged /\ \A i \in P : aged[i] \in Request
  BY <1>2
<1>6. Outstanding(rs) = r
  BY DEF Outstanding, Aged, Select
<1> HIDE DEF AgedRequest, aged, P
<1>7. /\ r \in Seq(AgedRequest) /\ DOMAIN r = 1..Cardinality(P)
      /\ \A k \in DOMAIN r : Nth[P][k] \in P /\ r[k] = aged[Nth[P][k]]
      /\ \A k, l \in DOMAIN r : k # l => Nth[P][k] # Nth[P][l]
  BY <1>3, <1>5, ElementsFacts
<1> HIDE DEF r
<1>8. r \in Seq(Request)
  <2>1. \A k \in DOMAIN r : r[k] \in Request
    BY <1>5, <1>7
  <2>2. Len(r) \in Nat /\ DOMAIN r = 1..Len(r) /\ r = [k \in 1..Len(r) |-> r[k]]
    BY <1>7, LenProperties
  <2> QED BY <2>1, <2>2, IsASeq
<1>9. Apart(r)
  <2> SUFFICES ASSUME NEW k \in DOMAIN r, NEW l \in DOMAIN r, k # l
               PROVE  ToSet(r[k].sequenceList) \cap ToSet(r[l].sequenceList) = {}
    BY DEF Apart
  <2> DEFINE i == Nth[P][k]
             j == Nth[P][l]
  <2>1. i \in DOMAIN rs /\ j \in DOMAIN rs /\ i # j /\ r[k] = aged[i] /\ r[l] = aged[j]
    BY <1>3, <1>5, <1>7
  <2> HIDE DEF i, j
  <2> QED BY <1>4, <2>1 DEF Apart
<1> QED BY <1>6, <1>8, <1>9

-----------------------------------------------------------------------------
(***************************************************************************)
(* Times, and what can be known and be under way when n messages were      *)
(* sent.                                                                   *)
(***************************************************************************)

LEMMA StartIsNat == Start \in Nat /\ Times \subseteq Nat
<1> DEFINE M == [sequence : Nat \ {0}, timems : Nat, clientid : Client]
           Of(c) == {m.timems : m \in ToSet(Begin[c])}
<1>1. ASSUME NEW c \in Client PROVE IsFiniteSet(Of(c)) /\ Of(c) \subseteq Nat
  <2> DEFINE b == Begin[c]
  <2>1. \A m \in M : m.timems \in Nat
    OBVIOUS
  <2>2. b \in Seq(M)
    BY BeginType
  <2> HIDE DEF M, b
  <2>3. DOMAIN b = 1..Len(b) /\ Len(b) \in Nat /\ \A i \in DOMAIN b : b[i].timems \in Nat
    BY <2>1, <2>2, LenProperties
  <2>4. IsFiniteSet(DOMAIN b)
    BY <2>3, UpTo
  <2>5. Of(c) = {b[i].timems : i \in DOMAIN b}
    BY DEF b, ToSet
  <2> HIDE DEF Of
  <2>6. [i \in DOMAIN b |-> b[i].timems] \in Surjection(DOMAIN b, Of(c))
    BY <2>5 DEF Surjection
  <2> QED BY <2>3, <2>4, <2>5, <2>6, FS_Surjection
<1> DEFINE All == {Of(c) : c \in Client}
<1>2. Times = UNION All
  BY DEF Times
<1> HIDE DEF Of
<1>3. IsFiniteSet(All)
  <2>1. [c \in Client |-> Of(c)] \in Surjection(Client, All)
    BY DEF Surjection
  <2> QED BY <2>1, ClientIsFinite, FS_Surjection
<1>4. IsFiniteSet(Times) /\ Times \subseteq Nat
  <2>1. \A T \in All : IsFiniteSet(T) /\ T \subseteq Nat
    BY <1>1
  <2> HIDE DEF All
  <2> QED BY <1>2, <1>3, <2>1, FS_UNION
<1>5. IsFiniteSet(Times \cup {0}) /\ Times \cup {0} \in SUBSET Nat /\ Times \cup {0} # {}
  BY <1>4, FS_AddElement
<1>6. Max(Times \cup {0}) \in Times \cup {0}
  BY <1>5, MaxFacts
<1>7. Start \in Times \cup {0}
  BY <1>6 DEF Start
<1> HIDE DEF All
<1> QED BY <1>5, <1>7

Known(n) == [sequence : SequencesOf(n), timems : Times \cup {Start + k : k \in 1..n},
             clientid : Client]
FrameOf(n) ==
    [type : {"init"}] \cup [type : {"msg"}, msg : Known(n)]
        \cup [type : {"response"}, offer : Offer]
        \cup [type : {"bulk"}, messages : Seq(Known(n))]
        \cup UNION {[type : {"request"}, get : [S -> Lists]] : S \in SUBSET Client}

LEMMA KnownFacts ==
    ASSUME NEW n \in Nat
    PROVE  /\ \A k \in Nat :
                  n <= k => Known(n) \subseteq Known(k) /\ FrameOf(n) \subseteq FrameOf(k)
           /\ n <= MaxSends => Known(n) \subseteq Message
<1>1. ASSUME NEW k \in Nat, n <= k PROVE Known(n) \subseteq Known(k)
  <2>1. SequencesOf(n) \subseteq SequencesOf(k)
    BY <1>1, SequencesOfFacts
  <2>2. 1..n \subseteq 1..k
    BY <1>1
  <2>3. {Start + j : j \in 1..n} \subseteq {Start + j : j \in 1..k}
    BY <2>2
  <2> QED BY <2>1, <2>3 DEF Known
<1>2. Message = Known(MaxSends)
  BY DEF Message, Known, Sequence
<1>3. ASSUME NEW k \in Nat, n <= k PROVE FrameOf(n) \subseteq FrameOf(k)
  <2>1. Known(n) \subseteq Known(k)
    BY <1>1, <1>3
  <2>2. Seq(Known(n)) \subseteq Seq(Known(k))
    BY <2>1, SeqMonotonic
  <2> QED BY <2>1, <2>2 DEF FrameOf
<1> QED BY <1>1, <1>2, <1>3, BoundFacts

LEMMA FrameFacts ==
    ASSUME NEW n \in Nat, NEW f \in FrameOf(n)
    PROVE  /\ f.type = "msg" => f.msg \in Known(n)
           /\ f.type = "response" => f.offer \in Offer
           /\ f.type = "bulk" => f.messages \in Seq(Known(n))
           /\ f.type = "request" => \E S \in SUBSET Client : f.get \in [S -> Lists]
           /\ n <= MaxSends => IsFrame(f)
<1>1. CASE f \in [type : {"init"}]
  BY <1>1 DEF IsFrame
<1>2. CASE f \in [type : {"msg"}, msg : Known(n)]
  <2>1. f.type = "msg" /\ f.msg \in Known(n)
    BY <1>2
  <2>2. n <= MaxSends => f \in [type : {"msg"}, msg : Message]
    BY <1>2, KnownFacts
  <2> QED BY <2>1, <2>2 DEF IsFrame
<1>3. CASE f \in [type : {"response"}, offer : Offer]
  <2>1. f.type = "response" /\ f.offer \in Offer
    BY <1>3
  <2> QED BY <1>3, <2>1 DEF IsFrame
<1>4. CASE f \in [type : {"bulk"}, messages : Seq(Known(n))]
  <2>1. f.type = "bulk" /\ f.messages \in Seq(Known(n))
    BY <1>4
  <2>2. ASSUME n <= MaxSends PROVE f \in [type : {"bulk"}, messages : Seq(Message)]
    <3>1. f.messages \in Seq(Message)
      BY <2>1, <2>2, KnownFacts, SeqMonotonic
    <3> QED BY <1>4, <3>1
  <2> QED BY <2>1, <2>2 DEF IsFrame
<1>5. CASE f \in UNION {[type : {"request"}, get : [S -> Lists]] : S \in SUBSET Client}
  <2>1. PICK S \in SUBSET Client : f \in [type : {"request"}, get : [S -> Lists]]
    BY <1>5
  <2>2. f.type = "request" /\ f.get \in [S -> Lists]
    BY <2>1
  <2> QED BY <2>1, <2>2 DEF IsFrame
<1> QED BY <1>1, <1>2, <1>3, <1>4, <1>5 DEF FrameOf
=============================================================================
