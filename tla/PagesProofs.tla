----------------------------- MODULE PagesProofs ----------------------------
(***************************************************************************)
(* Proofs about Pages, for any list and page size.                         *)
(***************************************************************************)
EXTENDS Pages, FiniteSetTheorems, FunctionTheorems, WellFoundedInduction, TLAPS

\* Every set of naturals that is not empty has a least element.
LEMMA Least ==
  ASSUME NEW S, S \subseteq Nat, S # {}
  PROVE  \E x \in S : \A y \in S : x <= y
  <1> DEFINE Less == OpToRel(<, Nat)
  <1>1. IsWellFoundedOn(Less, Nat)
    BY NatLessThanWellFounded
  <1>2. PICK x \in S : \A y \in S : <<y, x>> \notin Less
    <2> HIDE DEF Less
    <2>1. QED
      BY <1>1, WFMin
  <1>3. \A y \in S : ~(y < x)
    BY <1>2 DEF OpToRel
  <1>4. QED
    BY <1>3

\* How many stand before a number.
LEMMA BeforeIsNat ==
  ASSUME NEW list, IsFiniteSet(list), list \subseteq Nat
  PROVE  /\ Cardinality(list) \in Nat
         /\ \A n : IsFiniteSet({m \in list : m > n}) /\ Before(list, n) \in Nat
         /\ \A p : IsFiniteSet(OnPage(list, p)) /\ Cardinality(OnPage(list, p)) \in Nat
  <1>1. ASSUME NEW n PROVE IsFiniteSet({m \in list : m > n}) /\ Before(list, n) \in Nat
    BY FS_Subset, FS_CardinalityType DEF Before
  <1>2. ASSUME NEW p PROVE IsFiniteSet(OnPage(list, p)) /\ Cardinality(OnPage(list, p)) \in Nat
    BY FS_Subset, FS_CardinalityType DEF OnPage
  <1>3. QED
    BY <1>1, <1>2, FS_CardinalityType

\* What is added to a list moves nothing towards its beginning.
LEMMA BeforeGrows ==
  ASSUME NEW list, NEW longer, IsFiniteSet(longer), longer \subseteq Nat, list \subseteq longer,
         NEW n
  PROVE  Before(list, n) <= Before(longer, n)
  <1>1. {m \in list : m > n} \subseteq {m \in longer : m > n}
    OBVIOUS
  <1>2. QED
    BY <1>1, BeforeIsNat, FS_Subset DEF Before

\* A newer issue stands before an older one.
LEMMA NewerIsBefore ==
  ASSUME NEW list, IsFiniteSet(list), list \subseteq Nat,
         NEW n \in list, NEW m \in list, n < m
  PROVE  Before(list, m) < Before(list, n)
  <1> DEFINE A == {x \in list : x > m}
             B == {x \in list : x > n}
  <1>1. A \subseteq B /\ m \in B /\ m \notin A
    <2>1. m \in Nat /\ n \in Nat /\ \A x \in list : x \in Nat
      OBVIOUS
    <2>2. A \subseteq B
      <3>1. \A x \in list : x > m => x > n
        BY <2>1
      <3>2. QED
        BY <3>1
    <2>3. m \in B /\ m \notin A
      BY <2>1
    <2>4. QED
      BY <2>2, <2>3
  <1>2. IsFiniteSet(B) /\ IsFiniteSet(A) /\ Before(list, m) \in Nat /\ Before(list, n) \in Nat
    BY BeforeIsNat
  <1>3. Cardinality(A) <= Cardinality(B) /\ Cardinality(A) # Cardinality(B)
    BY <1>1, <1>2, FS_Subset
  <1>4. QED
    BY <1>2, <1>3 DEF Before

\* The list has no gaps: whoever has more than r before them has somebody there who has r.
LEMMA NoGaps ==
  ASSUME NEW list, IsFiniteSet(list), list \subseteq Nat,
         NEW m \in list, NEW r \in Nat, r <= Before(list, m)
  PROVE  \E n \in list : Before(list, n) = r
  <1> DEFINE V == {Before(list, n) : n \in {k \in list : Before(list, k) >= r}}
  <1>1. V \subseteq Nat /\ Before(list, m) \in V
    BY BeforeIsNat
  <1>2. PICK v \in V : \A w \in V : v <= w
    <2> HIDE DEF V
    <2>1. QED
      BY <1>1, Least
  <1>3. PICK n \in list : Before(list, n) = v /\ v >= r
    OBVIOUS
  <1>4. ASSUME v # r PROVE FALSE
    <2> DEFINE B == {x \in list : x > n}
    <2>1. IsFiniteSet(B) /\ Cardinality(B) = v /\ v \in Nat /\ v > 0
      BY <1>1, <1>3, <1>4, BeforeIsNat DEF Before
    <2>2. B # {} /\ B \subseteq Nat
      <3>1. B \subseteq Nat
        OBVIOUS
      <3> HIDE DEF B
      <3>2. QED
        BY <2>1, <3>1, FS_EmptySet
    <2>3. PICK k \in B : \A x \in B : k <= x
      <3> HIDE DEF B
      <3>1. QED
        BY <2>2, Least
    <2>4. {x \in list : x > k} = B \ {k}
      <3> HIDE DEF V
      <3>1. k \in list /\ k > n /\ k \in Nat /\ n \in Nat
        BY <2>3
      <3>2. ASSUME NEW x \in list PROVE x > k <=> x > n /\ x # k
        BY <2>3, <3>1
      <3>3. QED
        BY <3>1, <3>2
    <2>5. Before(list, k) = v - 1
      BY <2>1, <2>3, <2>4, FS_RemoveElement DEF Before
    <2>6. v - 1 >= r
      BY <1>3, <1>4, <2>1
    <2>7. k \in list
      OBVIOUS
    <2>8. v - 1 \in V
      BY <2>5, <2>6, <2>7
    <2>9. QED
      BY <1>2, <2>1, <2>8
  <1>5. QED
    BY <1>3, <1>4

\* Where a page begins and ends.
LEMMA PageEnds ==
  ASSUME NEW p \in Nat \ {0}
  PROVE  /\ (p - 1) * PageSize \in Nat /\ PageSize \in Nat
         /\ p * PageSize = (p - 1) * PageSize + PageSize
  BY PageSizeAssumption

\* A page with something behind it is full.
LEMMA PageIsFull ==
  ASSUME NEW list, IsFiniteSet(list), list \subseteq Nat,
         NEW p \in Nat \ {0}, NEW m \in list, Before(list, m) >= p * PageSize
  PROVE  ~Short(list, p)
  <1>1. PICK from \in Nat : from = (p - 1) * PageSize
    BY PageEnds
  <1>2. p * PageSize = from + PageSize /\ PageSize \in Nat
    BY <1>1, PageEnds
  <1> DEFINE I == from .. (from + PageSize - 1)
             f == [r \in I |-> CHOOSE n \in list : Before(list, n) = r]
  <1>3. ASSUME NEW r \in I PROVE f[r] \in OnPage(list, p) /\ Before(list, f[r]) = r
    <2>1. r \in Nat /\ r <= Before(list, m) /\ from <= r /\ r < from + PageSize
      <3>1. PICK b \in Nat : b = Before(list, m)
        BY BeforeIsNat
      <3>2. b >= from + PageSize
        BY <1>2, <3>1
      <3>3. PICK s \in Nat : s = PageSize
        BY <1>2
      <3>4. r \in from .. (from + s - 1)
        BY <3>3
      <3>5. r \in Nat /\ r <= b /\ from <= r /\ r < from + s
        BY <3>2, <3>3, <3>4
      <3>6. QED
        BY <3>1, <3>3, <3>5
    <2>2. \E n \in list : Before(list, n) = r
      BY <2>1, NoGaps
    <2>3. f[r] \in list /\ Before(list, f[r]) = r
      BY <2>2
    <2>4. QED
      BY <1>1, <1>2, <2>1, <2>3 DEF OnPage
  <1>4. f \in Injection(I, OnPage(list, p))
    <2>1. f \in [I -> OnPage(list, p)]
      BY <1>3
    <2>2. \A r, q \in I : f[r] = f[q] => r = q
      BY <1>3
    <2> HIDE DEF f, I
    <2>3. QED
      BY <2>1, <2>2 DEF Injection, IsInjective
  <1>5. IsFiniteSet(OnPage(list, p))
    BY BeforeIsNat
  <1>6. Cardinality(I) <= Cardinality(OnPage(list, p))
    <2> HIDE DEF f, I
    <2>1. QED
      BY <1>4, <1>5, FS_Injection
  <1>7. Cardinality(I) = PageSize
    BY <1>2, FS_Interval
  <1>8. Cardinality(OnPage(list, p)) \in Nat
    BY BeforeIsNat
  <1> HIDE DEF I, f
  <1>9. QED
    BY <1>2, <1>6, <1>7, <1>8 DEF Short

\* Behind a full page there are as many as the pages up to it hold.
LEMMA PagesAreFull ==
  ASSUME NEW list, IsFiniteSet(list), list \subseteq Nat, NEW p \in Nat \ {0}, ~Short(list, p)
  PROVE  Cardinality(list) >= p * PageSize
  <1>1. PICK from \in Nat : from = (p - 1) * PageSize
    BY PageEnds
  <1>2. p * PageSize = from + PageSize /\ PageSize \in Nat \ {0}
    BY <1>1, PageEnds, PageSizeAssumption
  <1>3. PICK all \in Nat : all = Cardinality(list)
    BY BeforeIsNat
  <1> DEFINE I == from .. (all - 1)
             f == [n \in OnPage(list, p) |-> Before(list, n)]
  <1>4. ASSUME NEW n \in OnPage(list, p) PROVE f[n] \in I
    <2>1. n \in list /\ from <= Before(list, n)
      BY <1>1 DEF OnPage
    <2>2. /\ IsFiniteSet(list \ {n}) /\ Cardinality(list \ {n}) = all - 1
      BY <1>3, <2>1, BeforeIsNat, FS_RemoveElement
    <2>3. {x \in list : x > n} \subseteq list \ {n}
      BY <2>1, BeforeIsNat
    <2>4. Before(list, n) <= all - 1
      BY <2>2, <2>3, FS_Subset DEF Before
    <2>5. Before(list, n) \in Nat
      BY BeforeIsNat
    <2>6. QED
      BY <2>1, <2>4, <2>5
  <1>5. f \in Injection(OnPage(list, p), I)
    <2>1. f \in [OnPage(list, p) -> I]
      BY <1>4
    <2>2. ASSUME NEW n \in OnPage(list, p), NEW m \in OnPage(list, p), n # m PROVE f[n] # f[m]
      <3>1. n \in list /\ m \in list /\ (n < m \/ m < n)
        BY <2>2 DEF OnPage
      <3>2. Before(list, n) \in Nat /\ Before(list, m) \in Nat
        BY BeforeIsNat
      <3>3. ASSUME n < m PROVE Before(list, m) < Before(list, n)
        BY <3>1, <3>3, NewerIsBefore
      <3>4. ASSUME m < n PROVE Before(list, n) < Before(list, m)
        BY <3>1, <3>4, NewerIsBefore
      <3>5. Before(list, n) # Before(list, m)
        BY <3>1, <3>2, <3>3, <3>4
      <3>6. QED
        BY <3>5
    <2> HIDE DEF f, I
    <2>3. QED
      BY <2>1, <2>2 DEF Injection, IsInjective
  <1>6. IsFiniteSet(I) /\ Cardinality(I) = IF from > all - 1 THEN 0 ELSE all - 1 - from + 1
    <2>1. PICK top \in Int : top = all - 1
      BY <1>3
    <2>2. IsFiniteSet(from..top)
      BY <2>1, FS_Interval
    <2>3. Cardinality(from..top) = IF from > top THEN 0 ELSE top - from + 1
      BY <2>1, FS_Interval
    <2>4. QED
      BY <2>1, <2>2, <2>3
  <1>7. Cardinality(OnPage(list, p)) <= Cardinality(I)
    <2> HIDE DEF f, I
    <2>1. QED
      BY <1>5, <1>6, FS_Injection
  <1>8. Cardinality(I) >= PageSize
    <2>1. Cardinality(OnPage(list, p)) \in Nat /\ Cardinality(I) \in Nat
      BY <1>6, BeforeIsNat, FS_CardinalityType
    <2>2. Cardinality(OnPage(list, p)) >= PageSize
      BY <1>2, <2>1 DEF Short
    <2> HIDE DEF I
    <2>3. QED
      BY <1>2, <1>7, <2>1, <2>2
  <1>9. QED
    BY <1>2, <1>3, <1>6, <1>8
=============================================================================
