-------------------------- MODULE Subsequences_proofs --------------------------
(***************************************************************************)
(* Least numbers, and which elements a selection from a list holds, at     *)
(* which place: what the proofs about lists rest on.                       *)
(***************************************************************************)
EXTENDS Subsequences, FiniteSetTheorems, WellFoundedInduction, TLAPS

LEMMA LeastNumber ==
  ASSUME NEW S \in SUBSET Nat, S # {}
  PROVE  \E least \in S : \A n \in S : least <= n
<1>1. PICK least \in S : \A n \in S : ~ <<n, least>> \in OpToRel(<, Nat)
  BY NatLessThanWellFounded, WFMin
<1>2. \A n \in S : ~(n < least)
  BY <1>1 DEF OpToRel
<1> QED
  BY <1>2

\* Every number up to the size of a finite set of numbers counts one of its members.
LEMMA CountedMember ==
  ASSUME NEW n \in Nat, NEW I \in SUBSET (1..n), NEW k \in 1..Cardinality(I)
  PROVE  \E i \in I : Cardinality({j \in I : j <= i}) = k
<1> DEFINE G(m) == {j \in I : j <= m}
           B == {m \in Nat : Cardinality(G(m)) >= k}
<1>1. \A j \in I : j \in Nat /\ 1 <= j /\ j <= n
  OBVIOUS
<1>2. IsFiniteSet(I) /\ Cardinality(I) \in Nat
  <2>1. IsFiniteSet(1..n)
    BY FS_Interval
  <2>2. IsFiniteSet(I)
    BY <2>1, FS_Subset
  <2> QED
    BY <2>2, FS_CardinalityType
<1>3. k \in Nat /\ k >= 1 /\ k <= Cardinality(I)
  BY <1>2
<1>4. ASSUME NEW m PROVE IsFiniteSet(G(m)) /\ Cardinality(G(m)) \in Nat
  <2>1. G(m) \in SUBSET I
    OBVIOUS
  <2>2. IsFiniteSet(G(m))
    BY <1>2, <2>1, FS_Subset
  <2> QED
    BY <2>2, FS_CardinalityType
<1>5. G(n) = I /\ G(0) = {}
  <2>1. \A j \in I : j <= n /\ ~(j <= 0)
    BY <1>1
  <2> QED
    BY <2>1
<1>6. ASSUME NEW m \in Nat, m # 0, m \notin I PROVE G(m) = G(m - 1)
  <2>1. \A j \in I : j <= m <=> j <= m - 1
    BY <1>1, <1>6
  <2> QED
    BY <2>1
<1>7. ASSUME NEW m \in Nat, m # 0, m \in I
      PROVE  G(m) = G(m - 1) \cup {m} /\ m \notin G(m - 1)
  <2>1. \A j \in I : j <= m <=> j <= m - 1 \/ j = m
    BY <1>1, <1>7
  <2>2. m <= m /\ ~(m <= m - 1)
    OBVIOUS
  <2> QED
    BY <1>7, <2>1, <2>2
<1>8. I = G(n) /\ Cardinality(G(0)) = 0
  BY <1>5, FS_EmptySet
<1> HIDE DEF G
<1>9. n \in B
  BY <1>3, <1>8
<1>10. PICK m \in B : \A l \in B : m <= l
  BY <1>9, LeastNumber
<1>11. m \in Nat /\ Cardinality(G(m)) >= k /\ m # 0
  BY <1>3, <1>8, <1>10
<1>12. m - 1 \in Nat /\ Cardinality(G(m - 1)) < k
  <2>1. m - 1 \in Nat /\ ~(m <= m - 1)
    BY <1>11
  <2>2. m - 1 \notin B
    BY <1>10, <2>1
  <2> QED
    BY <1>3, <1>4, <2>1, <2>2
<1>13. m \in I
  BY <1>3, <1>4, <1>6, <1>11, <1>12
<1>14. Cardinality(G(m)) = Cardinality(G(m - 1)) + 1
  BY <1>4, <1>7, <1>11, <1>13, FS_AddElement
<1>15. Cardinality(G(m)) = k
  BY <1>3, <1>4, <1>11, <1>12, <1>14
<1> QED
  BY <1>13, <1>15 DEF G

\* What is selected is a sequence as long as there are positions, of elements that
\* stand at one of them.
LEMMA SelectedElements ==
  ASSUME NEW s, NEW n \in Nat, NEW I \in SUBSET (1..n)
  PROVE  /\ Cardinality(I) \in 0..n
         /\ DOMAIN Selected(s, I) = 1..Cardinality(I)
         /\ Len(Selected(s, I)) = Cardinality(I)
         /\ \A k \in DOMAIN Selected(s, I) : \E i \in I : Selected(s, I)[k] = s[i]
<1>1. Cardinality(I) \in 0..n
  <2>1. IsFiniteSet(1..n) /\ Cardinality(1..n) = n
    BY FS_Interval
  <2>2. IsFiniteSet(I) /\ Cardinality(I) <= n
    BY <2>1, FS_Subset
  <2>3. Cardinality(I) \in Nat
    BY <2>2, FS_CardinalityType
  <2> QED
    BY <2>2, <2>3
<1>2. DOMAIN Selected(s, I) = 1..Cardinality(I) /\ Len(Selected(s, I)) = Cardinality(I)
  BY <1>1 DEF Selected
<1>3. ASSUME NEW k \in 1..Cardinality(I)
      PROVE  \E i \in I : Selected(s, I)[k] = s[i]
  <2> DEFINE i == CHOOSE j \in I : Cardinality({l \in I : l <= j}) = k
  <2>1. i \in I
    BY CountedMember
  <2>2. Selected(s, I)[k] = s[i]
    BY DEF Selected
  <2> QED
    BY <2>1, <2>2
<1> QED
  BY <1>1, <1>2, <1>3

LEMMA SelectedIsSeq ==
  ASSUME NEW S, NEW s \in Seq(S), NEW I \in SUBSET DOMAIN s
  PROVE  Selected(s, I) \in Seq(S)
<1>1. Len(s) \in Nat /\ I \in SUBSET (1..Len(s)) /\ \A i \in I : s[i] \in S
  OBVIOUS
<1>2. /\ Cardinality(I) \in 0..Len(s)
      /\ DOMAIN Selected(s, I) = 1..Cardinality(I)
      /\ \A k \in DOMAIN Selected(s, I) : \E i \in I : Selected(s, I)[k] = s[i]
  BY <1>1, SelectedElements
<1>3. Cardinality(I) \in Nat /\ \A k \in 1..Cardinality(I) : Selected(s, I)[k] \in S
  BY <1>1, <1>2
<1>4. Selected(s, I) = [k \in 1..Cardinality(I) |-> Selected(s, I)[k]]
  BY DEF Selected
<1> QED
  BY <1>3, <1>4

\* An element that is kept stands after as many as are kept before it.
LEMMA SelectedPlace ==
  ASSUME NEW s, NEW n \in Nat, NEW I \in SUBSET (1..n), NEW i \in I
  PROVE  LET k == Cardinality({j \in I : j <= i})
         IN  k \in DOMAIN Selected(s, I) /\ Selected(s, I)[k] = s[i]
<1> DEFINE G(m) == {j \in I : j <= m}
           k == Cardinality(G(i))
           c == CHOOSE m \in I : Cardinality(G(m)) = k
<1>1. IsFiniteSet(I) /\ Cardinality(I) \in Nat
  <2>1. IsFiniteSet(1..n)
    BY FS_Interval
  <2>2. IsFiniteSet(I)
    BY <2>1, FS_Subset
  <2> QED
    BY <2>2, FS_CardinalityType
<1>2. ASSUME NEW m PROVE IsFiniteSet(G(m)) /\ Cardinality(G(m)) \in Nat /\ Cardinality(G(m)) <= Cardinality(I)
  <2>1. G(m) \in SUBSET I
    OBVIOUS
  <2>2. IsFiniteSet(G(m)) /\ Cardinality(G(m)) <= Cardinality(I)
    BY <1>1, <2>1, FS_Subset
  <2> QED
    BY <2>2, FS_CardinalityType
<1>3. ASSUME NEW l \in I, NEW m \in I, l < m PROVE Cardinality(G(l)) < Cardinality(G(m))
  <2>1. G(l) \cup {m} \subseteq G(m) /\ m \notin G(l)
    <3>1. \A j \in I : j \in Nat
      OBVIOUS
    <3>2. \A j \in I : j <= l => j <= m
      BY <1>3, <3>1
    <3>3. ~(m <= l) /\ m <= m
      BY <1>3, <3>1
    <3> QED
      BY <3>2, <3>3
  <2> HIDE DEF G
  <2>2. Cardinality(G(l) \cup {m}) = Cardinality(G(l)) + 1
    BY <1>2, <2>1, FS_AddElement
  <2>3. Cardinality(G(l) \cup {m}) <= Cardinality(G(m))
    BY <1>2, <2>1, FS_Subset
  <2> QED
    BY <1>2, <2>2, <2>3
<1>4. k # 0
  <2>1. i \in G(i)
    OBVIOUS
  <2> HIDE DEF G
  <2> QED
    BY <1>2, <2>1, FS_EmptySet
<1>5. k \in 1..Cardinality(I)
  BY <1>1, <1>2, <1>4
<1>6. c \in I /\ Cardinality(G(c)) = k
  OBVIOUS
<1>7. c = i
  <2>1. ~(c < i) /\ ~(i < c)
    <3> HIDE DEF c
    <3> QED
      BY <1>2, <1>3, <1>6
  <2> HIDE DEF c
  <2> QED
    BY <1>6, <2>1
<1>8. Selected(s, I) = [l \in 1..Cardinality(I) |-> s[CHOOSE m \in I : Cardinality(G(m)) = l]]
  BY DEF Selected
<1>9. DOMAIN Selected(s, I) = 1..Cardinality(I) /\ Selected(s, I)[k] = s[c]
  BY <1>5, <1>8
<1> HIDE DEF c
<1> QED
  BY <1>5, <1>7, <1>9

\* What a selection keeps is in it.
LEMMA SelectedHas ==
  ASSUME NEW S, NEW s \in Seq(S), NEW I \in SUBSET DOMAIN s, NEW i \in I
  PROVE  \E k \in DOMAIN Selected(s, I) : Selected(s, I)[k] = s[i]
<1>1. Len(s) \in Nat /\ I \in SUBSET (1..Len(s))
  OBVIOUS
<1> DEFINE k == Cardinality({j \in I : j <= i})
<1>2. k \in DOMAIN Selected(s, I) /\ Selected(s, I)[k] = s[i]
  BY <1>1, SelectedPlace
<1> HIDE DEF k
<1> QED
  BY <1>2

\* Which of the members of I it is.
Counted(I, i) == Cardinality({j \in I : j <= i})

LEMMA SelectedCounts ==
  ASSUME NEW s, NEW n \in Nat, NEW I \in SUBSET (1..n)
  PROVE  \A k \in 1..Cardinality(I) : \E i \in I : Selected(s, I)[k] = s[i] /\ Counted(I, i) = k
<1> SUFFICES ASSUME NEW k \in 1..Cardinality(I)
             PROVE  \E i \in I : Selected(s, I)[k] = s[i] /\ Counted(I, i) = k
  OBVIOUS
<1>1. \E i \in I : Cardinality({j \in I : j <= i}) = k
  BY CountedMember
<1> QED
  BY <1>1 DEF Selected, Counted

\* The element at a position that is kept is where the position is counted.
LEMMA SelectedAt ==
  ASSUME NEW s, NEW n \in Nat, NEW I \in SUBSET (1..n), NEW i \in I
  PROVE  Counted(I, i) \in 1..Cardinality(I) /\ Selected(s, I)[Counted(I, i)] = s[i]
<1> DEFINE k == Cardinality({j \in I : j <= i})
<1>1. k \in DOMAIN Selected(s, I) /\ Selected(s, I)[k] = s[i]
  BY SelectedPlace
<1>2. DOMAIN Selected(s, I) = 1..Cardinality(I)
  BY SelectedElements
<1>3. Counted(I, i) = k
  BY DEF Counted
<1> HIDE DEF k
<1> QED
  BY <1>1, <1>2, <1>3

===============================================================================
