--------------------------- MODULE SlotOrderProofs --------------------------
(***************************************************************************)
(* Lemmas on the order of the slots in use: the places of k slots are the  *)
(* numbers from 1 to k, and each is the place of one slot.                 *)
(***************************************************************************)
EXTENDS SlotOrder, FunctionTheorems, FiniteSetTheorems, TLAPS

LEMMA CountOf ==
  ASSUME NEW n \in Nat, NEW S \in SUBSET (1 .. n)
  PROVE  /\ IsFiniteSet(S)
         /\ Cardinality(S) \in Nat
         /\ Cardinality(S) <= n
<1>1. IsFiniteSet(1 .. n) /\ Cardinality(1 .. n) = n
  BY FS_Interval
<1> QED  BY <1>1, FS_Subset, FS_CardinalityType

LEMMA PlaceIn ==
  ASSUME NEW n \in Nat, NEW S \in SUBSET (1 .. n), NEW r \in S
  PROVE  Place(S, r) \in 1 .. Cardinality(S)
<1> DEFINE down == {q \in S : q <= r}
<1>1. down \in SUBSET (1 .. n) /\ down \in SUBSET S /\ r \in down
  <2>1. r \in Nat /\ r <= r
    OBVIOUS
  <2> QED  BY <2>1
<1>2. /\ IsFiniteSet(down) /\ Cardinality(down) \in Nat
      /\ IsFiniteSet(S) /\ Cardinality(S) \in Nat
  BY <1>1, CountOf
<1>3. Cardinality(down) <= Cardinality(S)
  BY <1>1, <1>2, FS_Subset
<1>4. Cardinality(down) # 0
  BY <1>1, <1>2, FS_EmptySet
<1> QED  BY <1>2, <1>3, <1>4 DEF Place

LEMMA PlaceApart ==
  ASSUME NEW n \in Nat, NEW S \in SUBSET (1 .. n), NEW q \in S, NEW r \in S, q < r
  PROVE  Place(S, q) # Place(S, r)
<1> DEFINE down(s) == {x \in S : x <= s}
<1>1. q \in Nat /\ r \in Nat /\ \A x \in S : x \in Nat
  OBVIOUS
<1>2. down(q) \in SUBSET down(r) /\ r \in down(r) /\ r \notin down(q)
  <2>1. ASSUME NEW x \in down(q) PROVE x \in down(r)
    BY <1>1
  <2>2. r <= r /\ ~(r <= q)
    BY <1>1
  <2> QED  BY <2>1, <2>2
<1>3. IsFiniteSet(down(r))
  BY CountOf, down(r) \in SUBSET (1 .. n)
<1>4. Cardinality(down(r)) # Cardinality(down(q))
  BY <1>2, <1>3, FS_Subset
<1> QED  BY <1>4 DEF Place

\* Every place is that of a slot.
LEMMA PlaceTaken ==
  ASSUME NEW n \in Nat, NEW S \in SUBSET (1 .. n), NEW i \in 1 .. Cardinality(S)
  PROVE  \E r \in S : Place(S, r) = i
<1> DEFINE f == [r \in S |-> Place(S, r)]
           T == 1 .. Cardinality(S)
<1>1. f \in [S -> T]
  BY PlaceIn
<1>2. \A q, r \in S : f[q] = f[r] => q = r
  <2> SUFFICES ASSUME NEW q \in S, NEW r \in S, q # r PROVE Place(S, q) # Place(S, r)
    OBVIOUS
  <2>1. q < r \/ r < q
    OBVIOUS
  <2> QED  BY <2>1, PlaceApart
<1>3. IsFiniteSet(S) /\ IsFiniteSet(T) /\ Cardinality(T) = Cardinality(S)
  <2>1. IsFiniteSet(S) /\ Cardinality(S) \in Nat
    BY CountOf
  <2>2. IsFiniteSet(T) /\ Cardinality(T) = IF 1 > Cardinality(S) THEN 0 ELSE Cardinality(S) - 1 + 1
    BY <2>1, FS_Interval
  <2> QED  BY <2>1, <2>2
<1>4. f \in Injection(S, T)
  BY <1>1, <1>2 DEF Injection, IsInjective
<1>5. f \in Surjection(S, T)
  <2> HIDE DEF f, T
  <2> QED  BY <1>3, <1>4, FS_Injection
<1>6. \E r \in S : f[r] = i
  <2> HIDE DEF f
  <2> QED  BY <1>5 DEF Surjection
<1> QED  BY <1>6

LEMMA NthSlotIs ==
  ASSUME NEW n \in Nat, NEW S \in SUBSET (1 .. n), NEW i \in 1 .. Cardinality(S)
  PROVE  NthSlot(S, i) \in S /\ Place(S, NthSlot(S, i)) = i
BY PlaceTaken DEF NthSlot

LEMMA SlotAtItsPlace ==
  ASSUME NEW n \in Nat, NEW S \in SUBSET (1 .. n), NEW r \in S
  PROVE  Place(S, r) \in 1 .. Cardinality(S) /\ NthSlot(S, Place(S, r)) = r
<1> DEFINE i == Place(S, r)
           q == NthSlot(S, i)
<1>1. i \in 1 .. Cardinality(S)
  BY PlaceIn
<1>2. q \in S /\ Place(S, q) = Place(S, r)
  BY <1>1, NthSlotIs
<1>3. q \in Nat /\ r \in Nat
  <2>1. \A x \in S : x \in Nat
    OBVIOUS
  <2> QED  BY <1>2, <2>1
<1>4. ~(q < r) /\ ~(r < q)
  BY <1>2, PlaceApart
<1> QED  BY <1>1, <1>3, <1>4

\* The slot the loop meets first is the lowest.
LEMMA LowestSlot ==
  ASSUME NEW n \in Nat, NEW S \in SUBSET (1 .. n), S # {}
  PROVE  \E r \in S : \A q \in S : r <= q
<1>1. PICK s : s \in S
  OBVIOUS
<1>2. Cardinality(S) \in Nat /\ Place(S, s) \in 1 .. Cardinality(S)
  BY <1>1, CountOf, PlaceIn
<1>3. 1 \in 1 .. Cardinality(S)
  BY <1>2
<1>4. PICK r \in S : Place(S, r) = 1
  BY <1>3, PlaceTaken
<1>5. ASSUME NEW q \in S, q < r PROVE FALSE
  <2> DEFINE down == {x \in S : x <= r}
  <2>1. q \in down /\ r \in down /\ q # r /\ down \in SUBSET (1 .. n)
    <3>1. q \in Nat /\ r \in Nat
      OBVIOUS
    <3>2. q <= r /\ r <= r /\ q # r
      BY <1>5, <3>1
    <3> QED  BY <3>2
  <2>2. IsFiniteSet(down)
    BY <2>1, CountOf
  <2>3. Cardinality({q, r}) = 2 /\ {q, r} \subseteq down
    <3>1. IsFiniteSet({q}) /\ Cardinality({q}) = 1
      BY FS_Singleton
    <3>2. Cardinality({q} \cup {r}) = 2
      <4>1. r \notin {q}
        BY <2>1
      <4> HIDE DEF down
      <4> QED  BY <3>1, <4>1, FS_AddElement
    <3>3. {q} \cup {r} = {q, r}
      OBVIOUS
    <3> QED  BY <2>1, <3>2, <3>3
  <2>4. 2 <= Cardinality(down)
    <3> HIDE DEF down
    <3> QED  BY <2>2, <2>3, FS_Subset
  <2>5. Cardinality(down) = 1
    BY <1>4 DEF Place
  <2> QED  BY <2>4, <2>5
<1>6. \A q \in S : q \in Nat
  OBVIOUS
<1> QED  BY <1>5, <1>6

\* Of a place in front of r there is one for each slot up to it.
LEMMA PlaceUpTo ==
  ASSUME NEW n \in Nat, NEW S \in SUBSET (1 .. n), NEW q \in Int, NEW r \in Int, q <= r
  PROVE  Place(S, q) \in Nat /\ Place(S, r) \in Nat /\ Place(S, q) <= Place(S, r)
<1> DEFINE Q == {x \in S : x <= q}
           R == {x \in S : x <= r}
<1>1. R \in SUBSET (1 .. n) /\ Q \in SUBSET (1 .. n)
  OBVIOUS
<1>2. Q \subseteq R
  <2>1. ASSUME NEW x \in S, x <= q PROVE x <= r
    <3>1. x \in Int
      OBVIOUS
    <3> QED  BY <2>1, <3>1
  <2> QED  BY <2>1
<1>3. Place(S, q) = Cardinality(Q) /\ Place(S, r) = Cardinality(R)
  BY DEF Place
<1> HIDE DEF Q, R
<1>4. IsFiniteSet(R) /\ Cardinality(R) \in Nat /\ Cardinality(Q) \in Nat
  BY <1>1, CountOf
<1>5. Cardinality(Q) <= Cardinality(R)
  BY <1>2, <1>4, FS_Subset
<1> QED  BY <1>3, <1>4, <1>5

LEMMA PlaceNext ==
  ASSUME NEW n \in Nat, NEW S \in SUBSET (1 .. n), NEW i \in Nat
  PROVE  Place(S, i + 1) = IF i + 1 \in S THEN Place(S, i) + 1 ELSE Place(S, i)
<1> DEFINE Q == {x \in S : x <= i}
           R == {x \in S : x <= i + 1}
<1>1. IsFiniteSet(Q)
  <2>1. Q \in SUBSET (1 .. n)
    OBVIOUS
  <2> HIDE DEF Q
  <2> QED  BY <2>1, CountOf
<1>2. \A x \in S : x \in Int /\ (x <= i + 1 <=> x <= i \/ x = i + 1)
  OBVIOUS
<1>3. CASE i + 1 \in S
  <2>1. R = Q \cup {i + 1}
    BY <1>2, <1>3
  <2>2. i + 1 \notin Q
    OBVIOUS
  <2>3. Cardinality(R) = Cardinality(Q) + 1
    <3> HIDE DEF Q, R
    <3> QED  BY <1>1, <2>1, <2>2, FS_AddElement
  <2> QED  BY <1>3, <2>3 DEF Place
<1>4. CASE i + 1 \notin S
  <2>1. R = Q
    BY <1>2, <1>4
  <2> QED  BY <1>4, <2>1 DEF Place
<1> QED  BY <1>3, <1>4

LEMMA PlaceEnds ==
  ASSUME NEW n \in Nat, NEW S \in SUBSET (1 .. n)
  PROVE  Place(S, 0) = 0 /\ Place(S, n) = Cardinality(S)
<1>1. ASSUME NEW x \in S PROVE ~(x <= 0) /\ x <= n
  OBVIOUS
<1>2. {x \in S : x <= 0} = {} /\ {x \in S : x <= n} = S
  BY <1>1
<1> QED  BY <1>2, FS_EmptySet DEF Place

\* Nobody is passed over in 1 .. n.
LEMMA PlaceOfAll ==
  ASSUME NEW n \in Nat
  PROVE  Cardinality(1 .. n) = n /\ \A i \in 1 .. n : Place(1 .. n, i) = i
<1>1. Cardinality(1 .. n) = n
  BY FS_Interval
<1>2. ASSUME NEW i \in 1 .. n PROVE Place(1 .. n, i) = i
  <2>1. {x \in 1 .. n : x <= i} = 1 .. i
    OBVIOUS
  <2>2. Cardinality(1 .. i) = i
    <3>1. 1 \in Int /\ i \in Int /\ ~(1 > i) /\ i - 1 + 1 = i
      OBVIOUS
    <3>2. Cardinality(1 .. i) = IF 1 > i THEN 0 ELSE i - 1 + 1
      BY <3>1, FS_Interval
    <3> QED  BY <3>1, <3>2
  <2> QED  BY <2>1, <2>2 DEF Place
<1> QED  BY <1>1, <1>2

\* The first k of S.
FirstOf(S, k) == {i \in S : Place(S, i) <= k}

\* They have the places they had in S.
LEMMA PlaceKept ==
  ASSUME NEW n \in Nat, NEW S \in SUBSET (1 .. n), NEW k \in Nat
  PROVE  /\ \A i \in FirstOf(S, k) : Place(FirstOf(S, k), i) = Place(S, i)
         /\ Cardinality(FirstOf(S, k)) = IF Cardinality(S) < k THEN Cardinality(S) ELSE k
<1> DEFINE K == FirstOf(S, k)
<1>1. K = {i \in S : Place(S, i) <= k}
  BY DEF FirstOf
<1> HIDE DEF K
<1>2. \A x \in S : x \in Int
  OBVIOUS
<1>3. ASSUME NEW i \in K PROVE Place(K, i) = Place(S, i)
  <2>1. ASSUME NEW q \in S, q <= i PROVE q \in K
    <3>1. Place(S, q) <= Place(S, i) /\ Place(S, q) \in Nat /\ Place(S, i) \in Nat
      BY <1>1, <1>2, <2>1, PlaceUpTo
    <3> QED  BY <1>1, <3>1
  <2>2. {q \in K : q <= i} = {q \in S : q <= i}
    BY <1>1, <2>1
  <2> QED  BY <2>2 DEF Place
<1>4. K \in SUBSET (1 .. n) /\ K \subseteq S
  BY <1>1
<1>5. Cardinality(S) \in Nat /\ Cardinality(K) \in Nat
  BY <1>4, CountOf
<1>6. Cardinality(K) <= k /\ Cardinality(K) <= Cardinality(S)
  <2>1. CASE Cardinality(K) = 0
    BY <1>5, <2>1
  <2>2. CASE Cardinality(K) # 0
    <3>1. Cardinality(K) \in 1 .. Cardinality(K)
      BY <1>5, <2>2
    <3>2. PICK r \in K : Place(K, r) = Cardinality(K)
      BY <1>4, <3>1, PlaceTaken
    <3>3. Place(S, r) \in 1 .. Cardinality(S)
      BY <1>4, PlaceIn
    <3>4. Place(S, r) <= k
      BY <1>1
    <3> QED  BY <1>3, <1>5, <3>2, <3>3, <3>4
  <2> QED  BY <2>1, <2>2
<1>7. ASSUME NEW m \in Nat, m <= Cardinality(S), m <= k PROVE m <= Cardinality(K)
  <2>1. CASE m = 0
    BY <1>5, <2>1
  <2>2. CASE m # 0
    <3>1. m \in 1 .. Cardinality(S)
      BY <1>5, <1>7, <2>2
    <3>2. PICK r \in S : Place(S, r) = m
      BY <3>1, PlaceTaken
    <3>3. r \in K
      BY <1>1, <1>7, <3>2
    <3>4. Place(K, r) \in 1 .. Cardinality(K)
      BY <1>4, <3>3, PlaceIn
    <3> QED  BY <1>3, <1>5, <3>2, <3>3, <3>4
  <2> QED  BY <2>1, <2>2
<1> QED  BY <1>3, <1>5, <1>6, <1>7 DEF K
=============================================================================
