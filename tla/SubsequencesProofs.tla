------------------------- MODULE SubsequencesProofs -------------------------
(***************************************************************************)
(* What Picked returns, for sequences of every length.  The facts that need *)
(* an induction over the places get it from the well-foundedness of the     *)
(* natural numbers, as an induction about a set.                            *)
(***************************************************************************)
EXTENDS Subsequences, Integers, FiniteSetTheorems, SequenceTheorems,
        WellFoundedInduction, TLAPS

\* A set of natural numbers has a least element, if any.
LEMMA LeastNumber ==
  ASSUME NEW T \in SUBSET Nat, T # {}
  PROVE  \E n \in T : \A k \in T : n <= k
  <1> DEFINE R == OpToRel(<, Nat)
  <1>1. IsWellFoundedOn(R, Nat)
    BY NatLessThanWellFounded
  <1> HIDE DEF R
  <1>2. PICK n \in T : \A k \in T : <<k, n>> \notin R
    BY <1>1, WFMin
  <1>3. \A k \in T : ~(k < n)
    BY <1>2 DEF R, OpToRel
  <1> QED  BY <1>3

\* A set that has 0, and the next of each number it has, has them all.
LEMMA SetInduction ==
  ASSUME NEW T \in SUBSET Nat, 0 \in T, \A n \in T : n + 1 \in T
  PROVE  T = Nat
  <1> SUFFICES ASSUME T # Nat PROVE FALSE
    OBVIOUS
  <1>1. PICK n \in Nat \ T : \A k \in Nat \ T : n <= k
    BY LeastNumber
  <1>2. n # 0 /\ n - 1 \in Nat
    BY <1>1
  <1>3. n - 1 \in T
    BY <1>1, <1>2
  <1>4. (n - 1) + 1 \in T
    BY <1>3
  <1> QED  BY <1>1, <1>4

-----------------------------------------------------------------------------
(* The rank.                                                               *)

Places == UNION {SUBSET (1 .. n) : n \in Nat}

LEMMA PlacesAre ==
  ASSUME NEW n \in Nat, NEW I \in SUBSET (1 .. n)
  PROVE  I \in Places
  BY DEF Places

LEMMA PlacesHave ==
  ASSUME NEW I \in Places
  PROVE  /\ IsFiniteSet(I) /\ Cardinality(I) \in Nat
         /\ \A i \in I : i \in Nat /\ i # 0 /\ i - 1 \in Nat /\ (i - 1) + 1 = i
  <1>1. PICK n \in Nat : I \in SUBSET (1 .. n)
    BY DEF Places
  <1>2. IsFiniteSet(1 .. n)
    BY FS_Interval
  <1>3. IsFiniteSet(I)
    BY <1>1, <1>2, FS_Subset
  <1>4. \A i \in I : i \in 1 .. n
    BY <1>1
  <1> QED  BY <1>3, <1>4, FS_CardinalityType

\* It counts up with the places.
LEMMA RankSteps ==
  ASSUME NEW I \in Places
  PROVE  /\ \A n \in Nat : Rank(I, n) \in Nat
         /\ Rank(I, 0) = 0
         /\ \A n \in Nat : Rank(I, n + 1) = IF n + 1 \in I THEN Rank(I, n) + 1 ELSE Rank(I, n)
  <1> DEFINE U(n) == {j \in I : j <= n}
  <1>0. IsFiniteSet(I) /\ \A j \in I : j \in Nat /\ j # 0
    BY PlacesHave
  <1>1. \A n \in Nat : IsFiniteSet(U(n)) /\ Cardinality(U(n)) \in Nat
    <2> TAKE n \in Nat
    <2>1. U(n) \subseteq I /\ IsFiniteSet(I)
      BY <1>0
    <2>2. IsFiniteSet(U(n))
      BY <2>1, FS_Subset
    <2> QED  BY <2>2, FS_CardinalityType
  <1>2. U(0) = {}
    BY <1>0
  <1>3. ASSUME NEW n \in Nat, n + 1 \in I
        PROVE  Cardinality(U(n + 1)) = Cardinality(U(n)) + 1
    <2>1. U(n + 1) = U(n) \cup {n + 1} /\ n + 1 \notin U(n)
      BY <1>0, <1>3
    <2> QED  BY <1>1, <2>1, FS_AddElement
  <1>4. ASSUME NEW n \in Nat, n + 1 \notin I
        PROVE  U(n + 1) = U(n)
    BY <1>0, <1>4
  <1>5. Cardinality({}) = 0
    BY FS_EmptySet
  <1> QED  BY <1>1, <1>2, <1>3, <1>4, <1>5 DEF Rank

\* It reaches the number of all.
LEMMA RankAll ==
  ASSUME NEW n \in Nat, NEW I \in SUBSET (1 .. n)
  PROVE  Rank(I, n) = Cardinality(I)
  <1>1. \A j \in I : j <= n
    OBVIOUS
  <1>2. {j \in I : j <= n} = I
    BY <1>1
  <1> QED  BY <1>2 DEF Rank

LEMMA RankEnd ==
  ASSUME NEW I \in Places
  PROVE  \E n \in Nat : Rank(I, n) = Cardinality(I) /\ \A i \in I : i <= n
  <1>1. PICK n \in Nat : I \in SUBSET (1 .. n)
    BY DEF Places
  <1>2. \A i \in I : i <= n
    BY <1>1
  <1> QED  BY <1>1, <1>2, RankAll

\* Each number up to a rank is the rank of a place.
LEMMA RankOnto ==
  ASSUME NEW I \in Places, NEW n \in Nat
  PROVE  \A k \in 1 .. Rank(I, n) : \E i \in I : i <= n /\ Rank(I, i) = k
  <1> DEFINE T == {m \in Nat : \A k \in 1 .. Rank(I, m) :
                                  \E i \in I : i <= m /\ Rank(I, i) = k}
  <1>1. 0 \in T
    BY RankSteps
  <1>2. ASSUME NEW m \in T PROVE m + 1 \in T
    <2>1. m \in Nat /\ m + 1 \in Nat
      OBVIOUS
    <2> SUFFICES ASSUME NEW k \in 1 .. Rank(I, m + 1)
                 PROVE  \E i \in I : i <= m + 1 /\ Rank(I, i) = k
      BY <2>1
    <2>2. Rank(I, m) \in Nat
      BY <2>1, RankSteps
    <2>3. CASE k <= Rank(I, m)
      <3>1. k \in 1 .. Rank(I, m)
        BY <2>1, <2>2, <2>3, RankSteps
      <3>2. PICK i \in I : i <= m /\ Rank(I, i) = k
        BY <3>1
      <3> QED  BY <2>1, <3>2, PlacesHave
    <2>4. CASE ~(k <= Rank(I, m))
      <3>1. m + 1 \in I /\ Rank(I, m + 1) = Rank(I, m) + 1
        BY <2>1, <2>2, <2>4, RankSteps
      <3>2. k = Rank(I, m + 1)
        BY <2>2, <2>4, <3>1
      <3> QED  BY <2>1, <3>1, <3>2
    <2> QED  BY <2>3, <2>4
  <1> HIDE DEF T
  <1>3. T \in SUBSET Nat
    BY DEF T
  <1>4. n \in T
    BY <1>1, <1>2, <1>3, SetInduction
  <1> QED  BY <1>4 DEF T

\* It does not fall, and a later place has a greater one.
LEMMA RankRises ==
  ASSUME NEW I \in Places, NEW m \in Nat, NEW n \in Nat, m <= n
  PROVE  Rank(I, m) <= Rank(I, n)
  <1> DEFINE T == {d \in Nat : Rank(I, m) <= Rank(I, m + d)}
  <1>1. 0 \in T
    BY RankSteps
  <1>2. ASSUME NEW d \in T PROVE d + 1 \in T
    <2>1. d \in Nat /\ m + d \in Nat /\ m + (d + 1) = (m + d) + 1
      OBVIOUS
    <2> QED  BY <2>1, RankSteps
  <1> HIDE DEF T
  <1>3. T = Nat
    <2>1. T \in SUBSET Nat
      BY DEF T
    <2> QED  BY <1>1, <1>2, <2>1, SetInduction
  <1>4. n - m \in T /\ m + (n - m) = n
    BY <1>3
  <1> QED  BY <1>4 DEF T

LEMMA RankDiffers ==
  ASSUME NEW I \in Places, NEW i \in I, NEW j \in I, Rank(I, i) = Rank(I, j)
  PROVE  i = j
  <1>1. ASSUME NEW a \in I, NEW b \in I, a < b
        PROVE  Rank(I, a) < Rank(I, b)
    <2>1. /\ a \in Nat /\ b - 1 \in Nat /\ a <= b - 1 /\ (b - 1) + 1 = b /\ b \in Nat
      BY <1>1, PlacesHave
    <2>2. Rank(I, a) <= Rank(I, b - 1)
      BY <2>1, RankRises
    <2>3. Rank(I, b) = Rank(I, b - 1) + 1
      BY <2>1, RankSteps
    <2> QED  BY <2>1, <2>2, <2>3, RankSteps
  <1>2. i \in Nat /\ j \in Nat
    BY PlacesHave
  <1> QED  BY <1>1, <1>2, RankSteps

-----------------------------------------------------------------------------
(* The part picked.                                                        *)

\* p is the part of s at the places I.
PartOf(p, s, I) ==
    /\ p = [k \in 1 .. Cardinality(I) |-> p[k]]
    /\ \A i \in I : Rank(I, i) \in 1 .. Cardinality(I) /\ p[Rank(I, i)] = s[i]
    /\ \A k \in 1 .. Cardinality(I) : \E i \in I : Rank(I, i) = k /\ p[k] = s[i]

\* The element at place i of I has the number that is i's rank.
LEMMA PickedAt ==
  ASSUME NEW s, NEW I \in Places
  PROVE  PartOf(Picked(s, I), s, I)
  <1> DEFINE p == Picked(s, I)
  <1>1. PICK n \in Nat : Rank(I, n) = Cardinality(I) /\ \A i \in I : i <= n
    BY RankEnd
  <1>2. p = [k \in 1 .. Cardinality(I) |-> p[k]]
    BY DEF Picked
  <1>3. \A k \in 1 .. Cardinality(I) : \E i \in I : Rank(I, i) = k
    BY <1>1, RankOnto
  <1>4. ASSUME NEW i \in I
        PROVE  Rank(I, i) \in 1 .. Cardinality(I) /\ p[Rank(I, i)] = s[i]
    <2>1. i \in Nat /\ i <= n /\ i - 1 \in Nat /\ (i - 1) + 1 = i
      BY <1>1, PlacesHave
    <2>2. Rank(I, i) = Rank(I, i - 1) + 1 /\ Rank(I, i - 1) \in Nat
      BY <2>1, RankSteps
    <2>3. Rank(I, i) <= Cardinality(I)
      BY <1>1, <2>1, RankRises
    <2>4. Rank(I, i) \in 1 .. Cardinality(I)
      BY <2>2, <2>3, PlacesHave
    <2>5. \A j \in I : Rank(I, j) = Rank(I, i) => j = i
      BY RankDiffers
    <2>6. (CHOOSE j \in I : Rank(I, j) = Rank(I, i)) = i
      BY <2>5
    <2> QED  BY <2>4, <2>6 DEF Picked
  <1> HIDE DEF p
  <1>5. \A k \in 1 .. Cardinality(I) : \E i \in I : Rank(I, i) = k /\ p[k] = s[i]
    BY <1>3, <1>4
  <1>6. PartOf(p, s, I)
    BY <1>2, <1>4, <1>5 DEF PartOf
  <1> QED  BY <1>6 DEF p

\* It is a sequence of elements of s, no longer than s.
LEMMA PickedType ==
  ASSUME NEW S, NEW s \in Seq(S), NEW I \in SUBSET DOMAIN s
  PROVE  /\ Picked(s, I) \in Seq(S)
         /\ Len(Picked(s, I)) = Cardinality(I) /\ Len(Picked(s, I)) <= Len(s)
         /\ \A k \in DOMAIN Picked(s, I) : \E i \in I : Picked(s, I)[k] = s[i]
  <1> DEFINE p == Picked(s, I)
             n == Cardinality(I)
  <1>1. Len(s) \in Nat /\ I \in SUBSET (1 .. Len(s)) /\ \A i \in I : s[i] \in S
    OBVIOUS
  <1>2. I \in Places
    BY <1>1, PlacesAre
  <1>3. PartOf(p, s, I)
    BY <1>2, PickedAt
  <1>4. n \in Nat /\ n <= Len(s)
    <2>1. IsFiniteSet(1 .. Len(s)) /\ Cardinality(1 .. Len(s)) = Len(s)
      <3>1. \A b \in Nat : IsFiniteSet(1 .. b) /\ Cardinality(1 .. b) = b
        BY FS_Interval
      <3> QED  BY <1>1, <3>1
    <2> QED  BY <1>1, <1>2, <2>1, FS_Subset, PlacesHave
  <1> HIDE DEF p
  <1>5. p = [k \in 1 .. n |-> p[k]] /\ \A k \in 1 .. n : \E i \in I : p[k] = s[i]
    BY <1>3 DEF PartOf
  <1> HIDE DEF n
  <1>6. \A k \in 1 .. n : p[k] \in S
    BY <1>1, <1>5
  <1>7. p \in [1 .. n -> S]
    BY <1>5, <1>6
  <1>8. p \in Seq(S) /\ Len(p) = n /\ DOMAIN p = 1 .. n
    BY <1>4, <1>7
  <1>9. \A k \in DOMAIN p : \E i \in I : p[k] = s[i]
    BY <1>5, <1>8
  <1> QED  BY <1>4, <1>8, <1>9 DEF p, n

\* It keeps the order.
LEMMA PickedOrder ==
  ASSUME NEW s, NEW I \in Places,
         NEW k \in 1 .. Cardinality(I), NEW l \in 1 .. Cardinality(I), k < l
  PROVE  \E i, j \in I : i < j /\ Picked(s, I)[k] = s[i] /\ Picked(s, I)[l] = s[j]
  <1> DEFINE p == Picked(s, I)
  <1>1. PartOf(p, s, I)
    BY PickedAt
  <1> HIDE DEF p
  <1>2. PICK i \in I : Rank(I, i) = k /\ p[k] = s[i]
    BY <1>1 DEF PartOf
  <1>3. PICK j \in I : Rank(I, j) = l /\ p[l] = s[j]
    BY <1>1 DEF PartOf
  <1>4. i \in Nat /\ j \in Nat
    BY PlacesHave
  <1>5. j <= i => l <= k
    BY <1>2, <1>3, <1>4, RankRises
  <1>6. i < j
    BY <1>4, <1>5, PlacesHave
  <1> QED  BY <1>2, <1>3, <1>6 DEF p

\* Two parts are the same when their places correspond, with their ranks.
LEMMA PickedLike ==
  ASSUME NEW s, NEW I \in Places, NEW t, NEW J \in Places,
         \A i \in I : \E j \in J : Rank(J, j) = Rank(I, i) /\ t[j] = s[i],
         \A j \in J : \E i \in I : Rank(J, j) = Rank(I, i)
  PROVE  Picked(t, J) = Picked(s, I)
  <1> DEFINE p == Picked(s, I)
             q == Picked(t, J)
             a == Cardinality(I)
             b == Cardinality(J)
  <1>1. PartOf(p, s, I) /\ a \in Nat
    BY PickedAt, PlacesHave
  <1>2. PartOf(q, t, J) /\ b \in Nat
    BY PickedAt, PlacesHave
  <1> HIDE DEF p, q
  <1>3. /\ p = [k \in 1 .. a |-> p[k]]
        /\ \A i \in I : Rank(I, i) \in 1 .. a /\ p[Rank(I, i)] = s[i]
        /\ \A k \in 1 .. a : \E i \in I : Rank(I, i) = k
    BY <1>1 DEF PartOf
  <1>4. /\ q = [k \in 1 .. b |-> q[k]]
        /\ \A j \in J : Rank(J, j) \in 1 .. b /\ q[Rank(J, j)] = t[j]
        /\ \A k \in 1 .. b : \E j \in J : Rank(J, j) = k
    BY <1>2 DEF PartOf
  <1> HIDE DEF a, b
  <1>5. ASSUME NEW k \in 1 .. a PROVE k \in 1 .. b /\ p[k] = q[k]
    <2>1. PICK i \in I : Rank(I, i) = k
      BY <1>3
    <2>2. PICK j \in J : Rank(J, j) = k /\ t[j] = s[i]
      BY <2>1
    <2> QED  BY <1>3, <1>4, <2>1, <2>2
  <1>6. ASSUME NEW k \in 1 .. b PROVE k \in 1 .. a
    <2>1. PICK j \in J : Rank(J, j) = k
      BY <1>4
    <2>2. PICK i \in I : Rank(I, i) = k
      BY <2>1
    <2> QED  BY <1>3, <2>2
  <1>7. 1 .. a = 1 .. b
    BY <1>5, <1>6
  <1>8. [k \in 1 .. a |-> p[k]] = [k \in 1 .. b |-> q[k]]
    BY <1>5, <1>7
  <1>9. p = q
    BY <1>3, <1>4, <1>8
  <1> QED  BY <1>9 DEF p, q

\* It depends on what is at its places only.
LEMMA PickedSame ==
  ASSUME NEW s, NEW t, NEW I \in Places, \A i \in I : t[i] = s[i]
  PROVE  Picked(t, I) = Picked(s, I)
  <1>1. \A i \in I : \E j \in I : Rank(I, j) = Rank(I, i) /\ t[j] = s[i]
    OBVIOUS
  <1> QED  BY <1>1, PickedLike

\* Of no places it is empty.
LEMMA PickedNone ==
  ASSUME NEW s
  PROVE  Picked(s, {}) = <<>>
  <1>1. Cardinality({}) = 0
    BY FS_EmptySet
  <1> QED  BY <1>1 DEF Picked

\* There is no rank before the first place.
LEMMA RankNone ==
  ASSUME NEW I \in Places, NEW n \in Nat, \A i \in I : n < i
  PROVE  Rank(I, n) = 0
  <1>1. Rank(I, n) \in Nat
    BY RankSteps
  <1>2. \A i \in I : ~(i <= n)
    BY PlacesHave
  <1>3. \A k \in 1 .. Rank(I, n) : FALSE
    BY <1>2, RankOnto
  <1>4. Rank(I, n) > 0 => 1 \in 1 .. Rank(I, n)
    BY <1>1
  <1> QED  BY <1>1, <1>3, <1>4

\* The places of J behind d are those of I, moved on by d.
MovedOn(I, J, d) == \A i \in Nat \ {0} : i + d \in J <=> i \in I

\* The ranks of places that are moved on.
LEMMA RankMoved ==
  ASSUME NEW I \in Places, NEW J \in Places, NEW d \in Nat, MovedOn(I, J, d),
         NEW i \in Nat
  PROVE  Rank(J, i + d) = Rank(J, d) + Rank(I, i)
  <1> DEFINE T == {k \in Nat : Rank(J, k + d) = Rank(J, d) + Rank(I, k)}
  <1>1. 0 \in T
    <2>1. Rank(I, 0) = 0 /\ Rank(J, d) \in Nat /\ 0 + d = d
      BY RankSteps
    <2> QED  BY <2>1
  <1>2. ASSUME NEW k \in T PROVE k + 1 \in T
    <2>1. /\ k \in Nat /\ k + 1 \in Nat \ {0} /\ k + d \in Nat
          /\ (k + d) + 1 = (k + 1) + d
          /\ Rank(J, k + d) = Rank(J, d) + Rank(I, k)
      OBVIOUS
    <2>2. (k + d) + 1 \in J <=> k + 1 \in I
      BY <2>1 DEF MovedOn
    <2>3. Rank(I, k) \in Nat /\ Rank(J, d) \in Nat
      BY <2>1, RankSteps
    <2>4. Rank(J, (k + d) + 1) = IF (k + d) + 1 \in J THEN Rank(J, k + d) + 1
                                                      ELSE Rank(J, k + d)
      BY <2>1, RankSteps
    <2>5. Rank(I, k + 1) = IF k + 1 \in I THEN Rank(I, k) + 1 ELSE Rank(I, k)
      BY <2>1, RankSteps
    <2>6. Rank(J, (k + d) + 1) = Rank(J, d) + Rank(I, k + 1)
      BY <2>1, <2>2, <2>3, <2>4, <2>5
    <2> QED  BY <2>1, <2>6
  <1> HIDE DEF T
  <1>3. T \in SUBSET Nat
    BY DEF T
  <1>4. i \in T
    BY <1>1, <1>2, <1>3, SetInduction
  <1> QED  BY <1>4 DEF T

\* The part of a sequence that follows others of which nothing is picked.
LEMMA PickedMoved ==
  ASSUME NEW s, NEW I \in Places, NEW t, NEW J \in Places, NEW d \in Nat,
         MovedOn(I, J, d), \A j \in J : d < j, \A i \in I : t[i + d] = s[i]
  PROVE  Picked(t, J) = Picked(s, I)
  <1>1. Rank(J, d) = 0
    BY RankNone
  <1>2. ASSUME NEW i \in I
        PROVE  i + d \in J /\ Rank(J, i + d) = Rank(I, i)
    <2>1. i \in Nat \ {0} /\ i \in Nat
      BY PlacesHave
    <2>2. Rank(I, i) \in Nat
      BY <2>1, RankSteps
    <2>3. Rank(J, i + d) = Rank(J, d) + Rank(I, i)
      BY <2>1, RankMoved
    <2> QED  BY <1>1, <2>1, <2>2, <2>3 DEF MovedOn
  <1>3. \A i \in I : \E j \in J : Rank(J, j) = Rank(I, i) /\ t[j] = s[i]
    BY <1>2
  <1>4. \A j \in J : \E i \in I : Rank(J, j) = Rank(I, i)
    <2> TAKE j \in J
    <2>1. j \in Nat /\ d < j
      BY PlacesHave
    <2>2. j - d \in Nat \ {0} /\ (j - d) + d = j
      BY <2>1
    <2>3. j - d \in I
      BY <2>2 DEF MovedOn
    <2> QED  BY <1>2, <2>2, <2>3
  <1> QED  BY <1>3, <1>4, PickedLike

\* The first picked is at the front: the rest is picked of the tail.
LEMMA PickedTail ==
  ASSUME NEW S, NEW s \in Seq(S), s # <<>>, NEW I \in SUBSET DOMAIN Tail(s),
         NEW J \in SUBSET DOMAIN s, 1 \in J, MovedOn(I, J, 1)
  PROVE  Picked(s, J) # <<>> /\ Picked(Tail(s), I) = Tail(Picked(s, J))
  <1> DEFINE n == Len(Tail(s))
             m == Len(s)
             a == Cardinality(I)
             p == Picked(Tail(s), I)
             q == Picked(s, J)
  <1>1. /\ n \in Nat /\ m \in Nat /\ m = n + 1 /\ Tail(s) \in Seq(S)
        /\ I \in SUBSET (1 .. n) /\ J \in SUBSET (1 .. m)
        /\ \A i \in 1 .. n : Tail(s)[i] = s[i + 1]
    OBVIOUS
  <1>2. I \in Places /\ Rank(I, n) = a /\ a \in Nat
    BY <1>1, PlacesAre, PlacesHave, RankAll
  <1>3. J \in Places /\ Rank(J, m) = Cardinality(J)
    BY <1>1, PlacesAre, RankAll
  <1>4. Rank(J, 1) = 1
    <2>1. Rank(J, 0) = 0 /\ Rank(J, 0 + 1) = Rank(J, 0) + 1
      BY <1>3, RankSteps
    <2> QED  BY <2>1
  <1>5. ASSUME NEW i \in Nat
        PROVE  Rank(J, i + 1) = Rank(I, i) + 1
    <2>1. Rank(J, i + 1) = Rank(J, 1) + Rank(I, i)
      BY <1>2, <1>3, RankMoved
    <2>2. Rank(I, i) \in Nat
      BY <1>2, RankSteps
    <2> QED  BY <1>4, <2>1, <2>2
  <1>6. p \in Seq(S) /\ Len(p) = a
    BY <1>1, PickedType
  <1>7. q \in Seq(S) /\ Len(q) = a + 1
    <2>1. Cardinality(J) = a + 1
      BY <1>1, <1>2, <1>3, <1>5
    <2> QED  BY <2>1, PickedType
  <1>8. PartOf(p, Tail(s), I) /\ PartOf(q, s, J)
    BY <1>2, <1>3, PickedAt
  <1> HIDE DEF p, q
  <1>9. ASSUME NEW k \in 1 .. a
        PROVE  p[k] = q[k + 1]
    <2>1. PICK i \in I : Rank(I, i) = k /\ p[k] = Tail(s)[i]
      BY <1>8 DEF PartOf
    <2>2. i \in Nat \ {0} /\ i \in Nat
      BY <1>2, PlacesHave
    <2>3. i + 1 \in J /\ Rank(J, i + 1) = k + 1
      BY <1>5, <2>1, <2>2 DEF MovedOn
    <2>4. q[Rank(J, i + 1)] = s[i + 1]
      BY <1>8, <2>3 DEF PartOf
    <2> QED  BY <1>1, <2>1, <2>3, <2>4
  <1> HIDE DEF a, n, m
  <1>10. /\ q # <<>> /\ Len(Tail(q)) = Len(p) /\ Tail(q) \in Seq(S)
         /\ \A k \in 1 .. Len(p) : Tail(q)[k] = q[k + 1]
    BY <1>2, <1>6, <1>7
  <1>11. \A k \in 1 .. Len(p) : p[k] = Tail(q)[k]
    BY <1>6, <1>9, <1>10
  <1>12. p = Tail(q)
    BY <1>6, <1>10, <1>11, SeqEqual
  <1> QED  BY <1>10, <1>12 DEF p, q

\* An element more, picked or not.
LEMMA PickedAppend ==
  ASSUME NEW S, NEW s \in Seq(S), NEW x \in S, NEW I \in SUBSET DOMAIN s
  PROVE  /\ Picked(Append(s, x), I) = Picked(s, I)
         /\ Picked(Append(s, x), I \cup {Len(s) + 1}) = Append(Picked(s, I), x)
  <1> DEFINE n == Len(s)
             J == I \cup {n + 1}
             a == Cardinality(I)
             t == Append(s, x)
             p == Picked(s, I)
             q == Picked(t, J)
  <1>1. /\ n \in Nat /\ n + 1 \in Nat /\ I \in SUBSET (1 .. n) /\ J \in SUBSET (1 .. n + 1)
        /\ t \in Seq(S) /\ Len(t) = n + 1 /\ J \in SUBSET DOMAIN t
        /\ \A i \in I : t[i] = s[i]
        /\ t[n + 1] = x /\ n + 1 \notin I
    OBVIOUS
  <1> HIDE DEF n
  <1>2. I \in Places /\ J \in Places /\ a \in Nat
    BY <1>1, PlacesAre, PlacesHave
  <1>3. Picked(t, I) = p
    BY <1>1, <1>2, PickedSame
  <1>4. \A i \in 0 .. n : Rank(J, i) = Rank(I, i)
    <2> TAKE i \in 0 .. n
    <2>1. ~(n + 1 <= i)
      BY <1>1
    <2>2. {j \in J : j <= i} = {j \in I : j <= i}
      BY <2>1
    <2> QED  BY <2>2 DEF Rank
  <1>5. Rank(J, n + 1) = a + 1 /\ Cardinality(J) = a + 1
    <2>1. Rank(J, n + 1) = Cardinality(J) /\ Rank(I, n) = a
      BY <1>1, RankAll
    <2>2. Rank(J, n + 1) = Rank(J, n) + 1
      <3>1. n + 1 \in J
        OBVIOUS
      <3> QED  BY <1>1, <1>2, <3>1, RankSteps
    <2>3. Rank(J, n) = Rank(I, n)
      <3>1. n \in 0 .. n
        BY <1>1
      <3> QED  BY <1>4, <3>1
    <2> QED  BY <2>1, <2>2, <2>3
  <1>6. p \in Seq(S) /\ Len(p) = a
    BY PickedType
  <1>7. q \in Seq(S) /\ Len(q) = a + 1
    BY <1>1, <1>5, PickedType
  <1>8. PartOf(p, s, I) /\ PartOf(q, t, J)
    BY <1>2, PickedAt
  <1> HIDE DEF p, q
  <1>9. \A k \in 1 .. a : q[k] = p[k]
    <2> TAKE k \in 1 .. a
    <2>1. PICK i \in I : Rank(I, i) = k /\ p[k] = s[i]
      BY <1>8 DEF PartOf
    <2>2. i \in J /\ i \in 0 .. n
      BY <1>1
    <2>3. Rank(J, i) = k
      BY <1>4, <2>1, <2>2
    <2>4. q[Rank(J, i)] = t[i]
      BY <1>8, <2>2 DEF PartOf
    <2> QED  BY <1>1, <2>1, <2>3, <2>4
  <1>10. q[a + 1] = x
    <2>1. n + 1 \in J
      OBVIOUS
    <2>2. q[Rank(J, n + 1)] = t[n + 1]
      BY <1>8, <2>1 DEF PartOf
    <2> QED  BY <1>1, <1>5, <2>2
  <1> HIDE DEF a, J, t
  <1>11. /\ Append(p, x) \in Seq(S) /\ Len(Append(p, x)) = a + 1
         /\ \A k \in 1 .. a : Append(p, x)[k] = p[k]
         /\ Append(p, x)[a + 1] = x
    BY <1>6, AppendProperties
  <1>12. \A k \in 1 .. Len(q) : q[k] = Append(p, x)[k]
    <2> TAKE k \in 1 .. Len(q)
    <2>1. k \in 1 .. a \/ k = a + 1
      BY <1>2, <1>7
    <2> QED  BY <1>9, <1>10, <1>11, <2>1
  <1>13. q = Append(p, x)
    BY <1>7, <1>11, <1>12, SeqEqual
  <1> QED  BY <1>3, <1>13 DEF q, t, J, n, p

\* The first element is replaced, picked or not.
LEMMA PickedFirst ==
  ASSUME NEW S, NEW s \in Seq(S), s # <<>>, NEW t \in Seq(S), Len(t) = Len(s),
         \A i \in DOMAIN s : i # 1 => t[i] = s[i],
         NEW I \in SUBSET DOMAIN s
  PROVE  /\ 1 \notin I => Picked(t, I) = Picked(s, I)
         /\ 1 \in I => /\ Picked(s, I) # <<>> /\ Picked(s, I)[1] = s[1]
                       /\ Picked(t, I)[1] = t[1]
                       /\ Len(Picked(t, I)) = Len(Picked(s, I))
                       /\ \A k \in 1 .. Len(Picked(s, I)) :
                             k # 1 => Picked(t, I)[k] = Picked(s, I)[k]
  <1> DEFINE x == t[1]
             a == Cardinality(I)
             p == Picked(s, I)
             q == Picked(t, I)
  <1>1. /\ Len(s) \in Nat /\ I \in SUBSET (1 .. Len(s)) /\ 1 \in DOMAIN s
        /\ DOMAIN t = DOMAIN s /\ t[1] = x /\ x \in S
        /\ \A i \in DOMAIN s : i # 1 => t[i] = s[i]
    OBVIOUS
  <1>2. I \in Places /\ a \in Nat
    BY <1>1, PlacesAre, PlacesHave
  <1>3. p \in Seq(S) /\ Len(p) = a
    BY PickedType
  <1>4. q \in Seq(S) /\ Len(q) = a
    BY <1>1, PickedType
  <1>5. PartOf(p, s, I) /\ PartOf(q, t, I)
    BY <1>2, PickedAt
  <1>6. 1 \notin I => q = p
    <2>1. 1 \notin I => \A i \in I : t[i] = s[i]
      BY <1>1
    <2> QED  BY <1>2, <2>1, PickedSame
  <1> HIDE DEF p, q
  <1>7. ASSUME 1 \in I
        PROVE  /\ p # <<>> /\ p[1] = s[1] /\ q[1] = x /\ Len(q) = Len(p)
               /\ \A k \in 1 .. Len(p) : k # 1 => q[k] = p[k]
    <2>1. Rank(I, 1) = 1
      <3>1. Rank(I, 0) = 0 /\ Rank(I, 0 + 1) = Rank(I, 0) + 1
        BY <1>2, <1>7, RankSteps
      <3> QED  BY <3>1
    <2>2. /\ Rank(I, 1) \in 1 .. a
          /\ p[Rank(I, 1)] = s[1] /\ q[Rank(I, 1)] = t[1]
      BY <1>5, <1>7 DEF PartOf
    <2>3. 1 \in 1 .. a /\ p[1] = s[1] /\ q[1] = x
      BY <1>1, <2>1, <2>2
    <2>4. \A k \in 1 .. a : k # 1 => q[k] = p[k]
      <3> TAKE k \in 1 .. a
      <3>1. PICK i \in I : Rank(I, i) = k /\ p[k] = s[i]
        BY <1>5 DEF PartOf
      <3>2. k # 1 => i # 1
        BY <2>1, <3>1
      <3>3. q[Rank(I, i)] = t[i]
        BY <1>5 DEF PartOf
      <3>4. i \in DOMAIN s
        OBVIOUS
      <3> QED  BY <1>1, <3>1, <3>2, <3>3, <3>4
    <2> HIDE DEF a, x
    <2>5. p # <<>>
      BY <1>3, <2>3
    <2> QED  BY <1>3, <1>4, <2>3, <2>4, <2>5
  <1> QED  BY <1>6, <1>7 DEF p, q

-----------------------------------------------------------------------------
(* Sequences put together.                                                 *)

\* What a concatenation has at its places.
LEMMA JoinAt ==
  ASSUME NEW S, NEW s \in Seq(S), NEW t \in Seq(S)
  PROVE  /\ s \o t \in Seq(S) /\ Len(s \o t) = Len(s) + Len(t)
         /\ Len(s) \in Nat /\ Len(t) \in Nat
         /\ \A i \in 1 .. Len(s) : (s \o t)[i] = s[i]
         /\ \A i \in 1 .. Len(t) : (s \o t)[Len(s) + i] = t[i]
  OBVIOUS

LEMMA PartAt ==
  ASSUME NEW S, NEW s \in Seq(S), NEW m \in 0 .. Len(s), NEW n \in m .. Len(s)
  PROVE  /\ SubSeq(s, m + 1, n) \in Seq(S) /\ Len(SubSeq(s, m + 1, n)) = n - m
         /\ \A i \in 1 .. n - m : SubSeq(s, m + 1, n)[i] = s[m + i]
         /\ Len(s) \in Nat
  OBVIOUS

\* The whole, and nothing, of a sequence.
LEMMA PartAll ==
  ASSUME NEW S, NEW s \in Seq(S)
  PROVE  SubSeq(s, 1, Len(s)) = s /\ SubSeq(s, Len(s) + 1, Len(s)) = <<>>
  OBVIOUS

LEMMA JoinNothing ==
  ASSUME NEW S, NEW s \in Seq(S)
  PROVE  s \o <<>> = s
  OBVIOUS

\* An element added to the second is added to both.
LEMMA JoinAppend ==
  ASSUME NEW S, NEW s \in Seq(S), NEW t \in Seq(S), NEW x \in S
  PROVE  Append(s \o t, x) = s \o Append(t, x)
  OBVIOUS

\* Sequences with the same elements are the same.
LEMMA SameSeq ==
  ASSUME NEW S, NEW s \in Seq(S), NEW t \in Seq(S), Len(s) = Len(t),
         \A i \in 1 .. Len(s) : s[i] = t[i]
  PROVE  s = t
  BY SeqEqual

\* The first of the second goes over to the first.
LEMMA JoinNext ==
  ASSUME NEW S, NEW s \in Seq(S), NEW t \in Seq(S), NEW f \in 0 .. Len(t) - 1
  PROVE  Append(s, t[f + 1]) \o SubSeq(t, (f + 1) + 1, Len(t)) = s \o SubSeq(t, f + 1, Len(t))
  <1> DEFINE n == Len(t)
             a == Append(s, t[f + 1])
             b == SubSeq(t, (f + 1) + 1, n)
             c == SubSeq(t, f + 1, n)
  <1>1. n \in Nat /\ f \in Nat /\ f + 1 \in 0 .. n /\ f \in 0 .. n /\ Len(s) \in Nat
    OBVIOUS
  <1>2. /\ a \in Seq(S) /\ Len(a) = Len(s) + 1
        /\ \A i \in 1 .. Len(s) : a[i] = s[i]
        /\ a[Len(s) + 1] = t[f + 1]
    OBVIOUS
  <1>3. /\ b \in Seq(S) /\ Len(b) = n - (f + 1)
        /\ \A i \in 1 .. n - (f + 1) : b[i] = t[(f + 1) + i]
    BY <1>1, PartAt
  <1>4. /\ c \in Seq(S) /\ Len(c) = n - f
        /\ \A i \in 1 .. n - f : c[i] = t[f + i]
    BY <1>1, PartAt
  <1> HIDE DEF n, a, b, c
  <1>5. /\ a \o b \in Seq(S) /\ Len(a \o b) = Len(a) + Len(b)
        /\ \A i \in 1 .. Len(a) : (a \o b)[i] = a[i]
        /\ \A i \in 1 .. Len(b) : (a \o b)[Len(a) + i] = b[i]
    <2>1. a \in Seq(S) /\ b \in Seq(S)
      BY <1>2, <1>3
    <2> QED  BY <2>1
  <1>6. /\ s \o c \in Seq(S) /\ Len(s \o c) = Len(s) + Len(c)
        /\ \A i \in 1 .. Len(s) : (s \o c)[i] = s[i]
        /\ \A i \in 1 .. Len(c) : (s \o c)[Len(s) + i] = c[i]
    BY <1>4, JoinAt
  <1>7. Len(a \o b) = Len(s) + (n - f) /\ Len(s \o c) = Len(s) + (n - f)
    BY <1>1, <1>2, <1>3, <1>4, <1>5, <1>6
  <1>8. ASSUME NEW i \in 1 .. Len(s) + (n - f)
        PROVE  (a \o b)[i] = (s \o c)[i]
    <2>1. CASE i <= Len(s)
      <3>1. i \in 1 .. Len(s) /\ i \in 1 .. Len(a)
        BY <1>1, <1>2, <2>1
      <3> QED  BY <1>2, <1>5, <1>6, <3>1
    <2>2. CASE i = Len(s) + 1
      <3>1. i \in 1 .. Len(a) /\ 1 \in 1 .. Len(c) /\ 1 \in 1 .. n - f
        BY <1>1, <1>2, <1>4, <2>2
      <3>2. (s \o c)[Len(s) + 1] = c[1] /\ c[1] = t[f + 1]
        BY <1>4, <1>6, <3>1
      <3> QED  BY <1>2, <1>5, <2>2, <3>1, <3>2
    <2>3. CASE i > Len(s) + 1
      <3> DEFINE k == i - (Len(s) + 1)
      <3>1. /\ k \in 1 .. Len(b) /\ k \in 1 .. n - (f + 1) /\ Len(a) + k = i
            /\ k + 1 \in 1 .. Len(c) /\ k + 1 \in 1 .. n - f /\ Len(s) + (k + 1) = i
            /\ (f + 1) + k = f + (k + 1)
        BY <1>1, <1>2, <1>3, <1>4, <2>3
      <3> HIDE DEF k
      <3>2. (a \o b)[i] = b[k] /\ b[k] = t[(f + 1) + k]
        BY <1>3, <1>5, <3>1
      <3>3. (s \o c)[i] = c[k + 1] /\ c[k + 1] = t[f + (k + 1)]
        BY <1>4, <1>6, <3>1
      <3> QED  BY <3>1, <3>2, <3>3
    <2>4. i \in Int /\ Len(s) \in Int
      BY <1>1
    <2>5. i <= Len(s) \/ i = Len(s) + 1 \/ i > Len(s) + 1
      BY <2>4
    <2> QED  BY <2>1, <2>2, <2>3, <2>5
  <1>9. a \o b = s \o c
    BY <1>5, <1>6, <1>7, <1>8, SameSeq
  <1> QED  BY <1>9 DEF a, b, c, n

\* The parts of a concatenation.
LEMMA JoinBegin ==
  ASSUME NEW S, NEW s \in Seq(S), NEW t \in Seq(S)
  PROVE  SubSeq(s \o t, 1, Len(s)) = s
  OBVIOUS

LEMMA JoinRest ==
  ASSUME NEW S, NEW s \in Seq(S), NEW t \in Seq(S), NEW n \in 0 .. Len(s)
  PROVE  SubSeq(s \o t, n + 1, Len(s \o t)) = SubSeq(s, n + 1, Len(s)) \o t
  <1> DEFINE j == s \o t
             a == SubSeq(j, n + 1, Len(j))
             b == SubSeq(s, n + 1, Len(s))
  <1>1. /\ j \in Seq(S) /\ Len(j) = Len(s) + Len(t) /\ Len(s) \in Nat /\ Len(t) \in Nat
        /\ n \in Nat /\ n <= Len(s)
        /\ \A i \in 1 .. Len(s) : j[i] = s[i]
        /\ \A i \in 1 .. Len(t) : j[Len(s) + i] = t[i]
    BY JoinAt
  <1>2. /\ b \in Seq(S) /\ Len(b) = Len(s) - n
        /\ \A i \in 1 .. Len(s) - n : b[i] = s[n + i]
    <2>1. n \in 0 .. Len(s) /\ Len(s) \in n .. Len(s)
      BY <1>1
    <2> QED  BY <2>1, PartAt
  <1> HIDE DEF j
  <1>3. /\ a \in Seq(S) /\ Len(a) = Len(j) - n
        /\ \A i \in 1 .. Len(j) - n : a[i] = j[n + i]
    <2>1. n \in 0 .. Len(j) /\ Len(j) \in n .. Len(j)
      BY <1>1
    <2> QED  BY <1>1, <2>1, PartAt
  <1> HIDE DEF a, b
  <1>4. /\ b \o t \in Seq(S) /\ Len(b \o t) = Len(b) + Len(t)
        /\ \A i \in 1 .. Len(b) : (b \o t)[i] = b[i]
        /\ \A i \in 1 .. Len(t) : (b \o t)[Len(b) + i] = t[i]
    <2>1. b \in Seq(S)
      BY <1>2
    <2> QED  BY <2>1
  <1>5. Len(a) = Len(b \o t)
    BY <1>1, <1>2, <1>3, <1>4
  <1>6. ASSUME NEW i \in 1 .. Len(a)
        PROVE  a[i] = (b \o t)[i]
    <2>1. i \in 1 .. Len(j) - n /\ a[i] = j[n + i]
      BY <1>3
    <2>2. CASE i <= Len(b)
      <3>1. i \in 1 .. Len(b) /\ i \in 1 .. Len(s) - n /\ n + i \in 1 .. Len(s)
        BY <1>1, <1>2, <2>2
      <3> QED  BY <1>1, <1>2, <1>4, <2>1, <3>1
    <2>3. CASE i > Len(b)
      <3> DEFINE k == i - Len(b)
      <3>1. k \in 1 .. Len(t) /\ Len(b) + k = i /\ Len(s) + k = n + i
        BY <1>1, <1>2, <2>1, <2>3
      <3> HIDE DEF k
      <3>2. (b \o t)[i] = t[k] /\ j[n + i] = t[k]
        BY <1>1, <1>4, <3>1
      <3> QED  BY <2>1, <3>2
    <2>4. i \in Int /\ Len(b) \in Int
      BY <1>1, <1>2
    <2>5. i <= Len(b) \/ i > Len(b)
      BY <2>4
    <2> QED  BY <2>2, <2>3, <2>5
  <1>7. a = b \o t
    BY <1>3, <1>4, <1>5, <1>6, SameSeq
  <1> QED  BY <1>7 DEF a, b, j

LEMMA JoinEnd ==
  ASSUME NEW S, NEW s \in Seq(S), NEW t \in Seq(S)
  PROVE  SubSeq(s \o t, Len(s) + 1, Len(s \o t)) = t
  <1>1. Len(s) \in 0 .. Len(s)
    OBVIOUS
  <1>2. SubSeq(s, Len(s) + 1, Len(s)) = <<>>
    BY PartAll
  <1>3. <<>> \o t = t
    OBVIOUS
  <1> QED  BY <1>1, <1>2, <1>3, JoinRest

=============================================================================
