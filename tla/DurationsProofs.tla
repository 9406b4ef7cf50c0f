-------------------------- MODULE DurationsProofs ----------------------------
(***************************************************************************)
(* The loops of the duration quill are folds.  What a fold computes is     *)
(* first told position by position (LastCreatedRun and so on): a function  *)
(* that its recursion goes by exists (FoldExists), so that the fold is one *)
(* of these, and it can be read at the sets 1..m.  An induction over the   *)
(* positions (Climb) then tells what each loop finds.  DurationInv, the    *)
(* inductive invariant of Durations, is kept by each action.               *)
(***************************************************************************)
EXTENDS Durations, FiniteSetTheorems, FunctionTheorems, SequenceTheorems, TLAPS

-----------------------------------------------------------------------------
(* Numbers and lists *)

\* Every set of naturals that is not empty has a least element.
LEMMA Least ==
  ASSUME NEW S, S \subseteq Nat, S # {}
  PROVE  \E x \in S : \A y \in S : x <= y
  <1> DEFINE Less == OpToRel(<, Nat)
  <1>1. IsWellFoundedOn(Less, Nat)
    BY NatLessThanWellFounded
  <1>2. PICK x \in S : \A y \in S : <<y, x>> \notin Less
    <2> HIDE DEF Less
    <2>1. QED
      BY <1>1, WFMin
  <1>3. \A y \in S : ~(y < x)
    BY <1>2 DEF OpToRel
  <1>4. QED
    BY <1>3

\* Counting up: what holds of 0, and of m + 1 when it holds of m, holds up to n.
LEMMA Climb ==
  ASSUME NEW n \in Nat, NEW S, 0 \in S, \A m \in 0..n : m < n /\ m \in S => m + 1 \in S
  PROVE  \A m \in 0..n : m \in S
  <1> DEFINE Left == {m \in 0..n : m \notin S}
  <1>1. SUFFICES ASSUME Left # {} PROVE FALSE
    OBVIOUS
  <1>2. PICK x \in Left : \A y \in Left : x <= y
    <2>1. Left \subseteq Nat
      OBVIOUS
    <2> HIDE DEF Left
    <2>2. QED
      BY <1>1, <2>1, Least
  <1>3. x \in 0..n /\ x # 0 /\ x - 1 \in 0..n /\ x - 1 < n
    OBVIOUS
  <1>4. x - 1 \notin Left
    BY <1>2, <1>3
  <1>5. (x - 1) + 1 \in S
    BY <1>3, <1>4
  <1>6. QED
    BY <1>3, <1>5

\* The greatest of some numbers up to n.
LEMMA Greatest ==
  ASSUME NEW n \in Nat, NEW s \in SUBSET (1..n), s # {}
  PROVE  Max(s) \in s /\ \A y \in s : y <= Max(s)
  <1> DEFINE B == {b \in Nat : \A y \in s : y <= b}
  <1>1. PICK x \in B : \A y \in B : x <= y
    <2>1. B \subseteq Nat /\ n \in B
      OBVIOUS
    <2> HIDE DEF B
    <2>2. QED
      BY <2>1, Least
  <1>2. x \in s
    <2>1. SUFFICES ASSUME x \notin s PROVE FALSE
      OBVIOUS
    <2>2. x # 0
      <3>1. PICK y \in s : TRUE
        OBVIOUS
      <3>2. y \in 1..n /\ y <= x
        OBVIOUS
      <3>3. QED
        BY <3>2
    <2>3. x - 1 \in B
      BY <2>1, <2>2
    <2>4. QED
      BY <1>1, <2>2, <2>3
  <1>3. \E m \in s : \A y \in s : m >= y
    BY <1>2
  <1>4. Max(s) \in s /\ \A y \in s : Max(s) >= y
    BY <1>3 DEF Max
  <1>5. QED
    BY <1>4

\* The empty list has no positions.
LEMMA EmptyDomain ==
  ASSUME NEW s, s = <<>> PROVE DOMAIN s = {}
  OBVIOUS

\* A list with no positions is empty.
LEMMA NoPositions ==
  ASSUME NEW S, NEW s \in Seq(S), DOMAIN s = {} PROVE s = <<>>
  <1>1. DOMAIN s = 1..Len(s) /\ Len(s) \in Nat
    BY LenProperties
  <1>2. Len(s) = 0
    <2>1. Len(s) # 0 => 1 \in 1..Len(s)
      BY <1>1
    <2>2. QED
      BY <1>1, <2>1
  <1>3. QED
    BY <1>2, EmptySeq

\* A list of some things is a list of more.
LEMMA SeqOfSubset ==
  ASSUME NEW S, NEW T, S \subseteq T, NEW s \in Seq(S) PROVE s \in Seq(T)
  <1>1. PICK n \in Nat : n = Len(s) /\ s \in [1..n -> S]
    BY LenProperties
  <1>2. s \in [1..n -> T]
    BY <1>1
  <1>3. QED
    BY <1>2

\* What was added to a list is its part after the old length.
LEMMA TailOfConcat ==
  ASSUME NEW S, NEW s \in Seq(S), NEW t \in Seq(S)
  PROVE  SubSeq(s \o t, Len(s) + 1, Len(s \o t)) = t
  <1>1. PICK n \in Nat, m \in Nat : n = Len(s) /\ m = Len(t)
    BY LenProperties
  <1>2. PICK u : u = s \o t
    OBVIOUS
  <1>3. /\ u \in Seq(S) /\ Len(u) = n + m
        /\ \A i \in 1..(n + m) : u[i] = IF i <= n THEN s[i] ELSE t[i - n]
    BY <1>1, <1>2, ConcatProperties
  <1>4. \A i \in (n + 1)..(n + m) : u[i] \in S
    BY <1>3, ElementOfSeq
  <1>5. PICK v : v = SubSeq(u, n + 1, n + m)
    OBVIOUS
  <1>6. /\ v \in Seq(S) /\ Len(v) = m
        /\ \A i \in 1..m : v[i] = u[n + i]
    <2>1. PICK a \in Int, b \in Int : a = n + 1 /\ b = n + m /\ b - a + 1 = m
      <3>1. n + 1 \in Int /\ n + m \in Int /\ (n + m) - (n + 1) + 1 = m
        OBVIOUS
      <3>2. QED
        BY <3>1
    <2>2. v = SubSeq(u, a, b) /\ \A i \in a..b : u[i] \in S
      BY <1>4, <1>5, <2>1
    <2>3. /\ v \in Seq(S)
          /\ Len(v) = IF a <= b THEN b - a + 1 ELSE 0
          /\ \A i \in 1..(b - a + 1) : v[i] = u[a + i - 1]
      BY <2>2, SubSeqProperties
    <2>4. ASSUME NEW i \in 1..m PROVE v[i] = u[n + i]
      <3>1. a + i - 1 = n + i
        BY <2>1
      <3>2. QED
        BY <2>1, <2>3, <3>1
    <2>5. Len(v) = m
      BY <2>1, <2>3
    <2>6. QED
      BY <2>3, <2>4, <2>5
  <1>7. \A i \in 1..m : v[i] = t[i]
    <2>1. ASSUME NEW i \in 1..m PROVE v[i] = t[i]
      <3>1. n + i \in 1..(n + m) /\ ~(n + i <= n) /\ (n + i) - n = i
        OBVIOUS
      <3>2. QED
        BY <1>3, <1>6, <3>1
    <2>2. QED
      BY <2>1
  <1>8. v = t
    BY <1>1, <1>6, <1>7, SeqEqual
  <1>9. QED
    BY <1>1, <1>2, <1>3, <1>5, <1>8

-----------------------------------------------------------------------------
(* The loops, position by position *)

\* What a fold over the positions 1..n computes for the sets s of positions, if step[i] is
\* what it does at the position i.
FoldsBy(it, n, base, step) ==
  it = [s \in SUBSET (1..n) |-> IF s = {} THEN base ELSE step[Max(s)][it[s \ {Max(s)}]]]

\* The function that a fold goes by exists.
LEMMA FoldExists ==
  ASSUME NEW n \in Nat, NEW V, NEW base \in V, NEW step \in [1..n -> [V -> V]]
  PROVE  \E it \in [SUBSET (1..n) -> V] : FoldsBy(it, n, base, step)
  <1> DEFINE Unfolds(it, m) ==
        \A s \in SUBSET (1..m) :
          it[s] = IF s = {} THEN base ELSE step[Max(s)][it[s \ {Max(s)}]]
      S == {m \in 0..n : \E it \in [SUBSET (1..m) -> V] : Unfolds(it, m)}
  <1>1. 0 \in S
    <2> DEFINE it == [s \in SUBSET (1..0) |-> base]
    <2>1. it \in [SUBSET (1..0) -> V]
      OBVIOUS
    <2>2. Unfolds(it, 0)
      <3>1. ASSUME NEW s \in SUBSET (1..0) PROVE s = {} /\ it[s] = base
        OBVIOUS
      <3> HIDE DEF it
      <3>2. QED
        BY <3>1
    <2> HIDE DEF it, Unfolds
    <2>3. \E g \in [SUBSET (1..0) -> V] : Unfolds(g, 0)
      BY <2>1, <2>2
    <2>4. 0 \in 0..n
      OBVIOUS
    <2>5. QED
      BY <2>3, <2>4
  <1>2. ASSUME NEW m \in 0..n, m < n, m \in S PROVE m + 1 \in S
    <2>1. PICK it \in [SUBSET (1..m) -> V] : Unfolds(it, m)
      BY <1>2
    <2> DEFINE more == [s \in SUBSET (1..(m + 1)) |->
                          IF m + 1 \in s THEN step[m + 1][it[s \ {m + 1}]] ELSE it[s]]
    <2>2. m + 1 \in 1..n /\ step[m + 1] \in [V -> V]
      BY <1>2
    <2>3. ASSUME NEW s \in SUBSET (1..(m + 1)), m + 1 \in s
          PROVE  /\ s \ {m + 1} \in SUBSET (1..m) /\ Max(s) = m + 1
                 /\ more[s] \in V /\ more[s \ {m + 1}] = it[s \ {m + 1}]
                 /\ more[s] = step[m + 1][it[s \ {m + 1}]]
      <3>1. s \ {m + 1} \in SUBSET (1..m)
        BY <1>2
      <3>2. m + 1 \in Nat /\ s # {}
        BY <1>2, <2>3
      <3>3. Max(s) = m + 1
        <4>1. PICK M : M = Max(s)
          OBVIOUS
        <4>2. M \in s /\ m + 1 <= M
          BY <2>3, <3>2, <4>1, Greatest
        <4>3. M \in 1..(m + 1)
          BY <4>2
        <4>4. M = m + 1
          BY <1>2, <4>2, <4>3
        <4>5. QED
          BY <4>1, <4>4
      <3>4. it[s \ {m + 1}] \in V
        BY <2>1, <3>1
      <3>5. s \ {m + 1} \in SUBSET (1..(m + 1))
        OBVIOUS
      <3>6. QED
        BY <2>2, <2>3, <3>1, <3>3, <3>4, <3>5
    <2>4. ASSUME NEW s \in SUBSET (1..(m + 1)), m + 1 \notin s
          PROVE  s \in SUBSET (1..m) /\ more[s] \in V /\ more[s] = it[s]
      <3>1. s \in SUBSET (1..m)
        BY <1>2, <2>4
      <3>2. QED
        BY <2>1, <2>4, <3>1
    <2>5. more \in [SUBSET (1..(m + 1)) -> V]
      <3>1. \A s \in SUBSET (1..(m + 1)) : more[s] \in V
        BY <2>3, <2>4
      <3>2. QED
        BY <3>1
    <2>6. ASSUME NEW s \in SUBSET (1..(m + 1))
          PROVE  more[s] = IF s = {} THEN base ELSE step[Max(s)][more[s \ {Max(s)}]]
      <3> HIDE DEF more
      <3>1. CASE m + 1 \in s
        BY <2>3, <3>1
      <3>2. CASE s = {}
        BY <2>1, <2>4, <3>2
      <3>3. CASE m + 1 \notin s /\ s # {}
        <4>1. s \in SUBSET (1..m) /\ more[s] = it[s]
          BY <2>4, <3>3
        <4>2. Max(s) \in s
          <5>1. m \in Nat
            BY <1>2
          <5>2. QED
            BY <3>3, <4>1, <5>1, Greatest
        <4>3. s \ {Max(s)} \in SUBSET (1..(m + 1)) /\ m + 1 \notin s \ {Max(s)}
          BY <3>3
        <4>4. more[s \ {Max(s)}] = it[s \ {Max(s)}]
          BY <2>4, <4>3
        <4>5. it[s] = step[Max(s)][it[s \ {Max(s)}]]
          BY <2>1, <3>3, <4>1
        <4>6. QED
          BY <3>3, <4>1, <4>4, <4>5
      <3>4. QED
        BY <3>1, <3>2, <3>3
    <2>7. Unfolds(more, m + 1)
      <3> HIDE DEF more
      <3>1. QED
        BY <2>6
    <2> HIDE DEF more, Unfolds
    <2>8. QED
      BY <1>2, <2>2, <2>5, <2>7
  <1>3. n \in S
    <2> HIDE DEF S
    <2>1. \A m \in 0..n : m < n /\ m \in S => m + 1 \in S
      BY <1>2
    <2>2. \A m \in 0..n : m \in S
      BY <1>1, <2>1, Climb
    <2>3. QED
      BY <2>2
  <1>4. PICK it \in [SUBSET (1..n) -> V] : Unfolds(it, n)
    BY <1>3
  <1>5. it = [s \in SUBSET (1..n) |->
                IF s = {} THEN base ELSE step[Max(s)][it[s \ {Max(s)}]]]
    BY <1>4
  <1>6. QED
    BY <1>5 DEF FoldsBy

\* The positions up to m.
LEMMA UpTo ==
  ASSUME NEW n \in Nat, NEW m \in 1..n
  PROVE  /\ 1..m \in SUBSET (1..n) /\ 1..m # {}
         /\ Max(1..m) = m /\ (1..m) \ {Max(1..m)} = 1..(m - 1)
  <1>1. m \in Nat /\ m \in 1..m /\ 1..m \in SUBSET (1..n)
    OBVIOUS
  <1>2. PICK top : top = Max(1..m)
    OBVIOUS
  <1>3. top \in 1..m /\ m <= top
    BY <1>1, <1>2, Greatest
  <1>4. top = m
    BY <1>1, <1>3
  <1>5. (1..m) \ {m} = 1..(m - 1)
    BY <1>1
  <1>6. QED
    BY <1>1, <1>2, <1>4, <1>5

\* findArrivalByLabel, over sets of positions of the list.
CreatedFold(it, list) ==
  it = [s \in SUBSET (DOMAIN list) |->
          IF s = {} THEN None
          ELSE LET i == Max(s)
               IN  IF it[s \ {i}] = None \/ arrivals[list[i]].created > arrivals[it[s \ {i}]].created
                   THEN list[i] ELSE it[s \ {i}]]

\* The loop of findArrivalByLabel, position by position.
CreatedSteps(f, list) ==
  /\ f[0] = None /\ f[Len(list)] = LastCreated(list)
  /\ \A m \in 1..Len(list) :
       f[m] = IF f[m - 1] = None \/ arrivals[list[m]].created > arrivals[f[m - 1]].created
              THEN list[m] ELSE f[m - 1]

\* The loop runs so.
LEMMA LastCreatedRun ==
  ASSUME NEW list \in Seq(Ids)
  PROVE  \E f : CreatedSteps(f, list)
  <1>1. PICK n \in Nat : n = Len(list) /\ DOMAIN list = 1..n
    OBVIOUS
  <1> DEFINE V == Ids \cup {None}
  <1>2. None \in V /\ \A i \in 1..n : list[i] \in V
    BY <1>1
  <1> HIDE DEF V
  <1>3. PICK step : step = [i \in 1..n |-> [v \in V |->
          IF v = None \/ arrivals[list[i]].created > arrivals[v].created THEN list[i] ELSE v]]
    OBVIOUS
  <1>4. step \in [1..n -> [V -> V]]
    BY <1>2, <1>3
  <1>5. PICK it \in [SUBSET (1..n) -> V] : FoldsBy(it, n, None, step)
    BY <1>2, <1>4, FoldExists
  <1>6. CreatedFold(it, list)
    <2>1. ASSUME NEW s \in SUBSET (1..n), s # {}
          PROVE  /\ Max(s) \in 1..n /\ s \ {Max(s)} \in SUBSET (1..n)
                 /\ it[s \ {Max(s)}] \in V
      BY <1>5, <2>1, Greatest
    <2>2. QED
      BY <1>1, <1>3, <1>5, <2>1 DEF FoldsBy, CreatedFold
  <1>7. PICK g : CreatedFold(g, list) /\ LastCreated(list) = g[DOMAIN list]
    BY <1>6, Zenon DEF LastCreated, FoldLeft, MapThenFoldSet, CreatedFold
  <1>8. PICK f : f = [m \in 0..n |-> g[1..m]]
    OBVIOUS
  <1>9. f[0] = None /\ f[n] = LastCreated(list)
    <2>1. 1..0 = {} /\ {} \in SUBSET (DOMAIN list) /\ 0 \in 0..n /\ n \in 0..n
      BY <1>1
    <2>2. g[{}] = None
      BY <1>7, <2>1 DEF CreatedFold
    <2>3. QED
      BY <1>1, <1>7, <1>8, <2>1, <2>2
  <1>10. ASSUME NEW m \in 1..n
         PROVE  f[m] = IF f[m - 1] = None \/ arrivals[list[m]].created > arrivals[f[m - 1]].created
                       THEN list[m] ELSE f[m - 1]
    <2>1. /\ 1..m \in SUBSET (DOMAIN list) /\ 1..m # {}
          /\ Max(1..m) = m /\ (1..m) \ {Max(1..m)} = 1..(m - 1)
      BY <1>1, UpTo
    <2>2. f[m] = g[1..m] /\ f[m - 1] = g[1..(m - 1)]
      BY <1>1, <1>8
    <2>3. PICK top, rest : top = Max(1..m) /\ rest = (1..m) \ {top}
      OBVIOUS
    <2>4. g[1..m] = IF g[rest] = None \/ arrivals[list[top]].created > arrivals[g[rest]].created
                    THEN list[top] ELSE g[rest]
      BY <1>7, <2>1, <2>3 DEF CreatedFold
    <2>5. QED
      BY <2>1, <2>2, <2>3, <2>4
  <1>11. QED
    BY <1>1, <1>9, <1>10 DEF CreatedSteps

\* findPriorFinalizedArrival, over sets of positions of the list.
FinalizedFold(it, list) ==
  it = [s \in SUBSET (DOMAIN list) |->
          IF s = {} THEN None
          ELSE LET i == Max(s)
               IN  IF /\ Comparable(list[i])
                      /\ it[s \ {i}] = None \/ arrivals[list[i]].finalizedAt > arrivals[it[s \ {i}]].finalizedAt
                   THEN list[i] ELSE it[s \ {i}]]

\* The loop of findPriorFinalizedArrival, position by position.
FinalizedSteps(f, list) ==
  /\ f[0] = None /\ f[Len(list)] = LastFinalized(list)
  /\ \A m \in 1..Len(list) :
       f[m] = IF /\ Comparable(list[m])
                 /\ f[m - 1] = None \/ arrivals[list[m]].finalizedAt > arrivals[f[m - 1]].finalizedAt
              THEN list[m] ELSE f[m - 1]

\* The loop runs so.
LEMMA LastFinalizedRun ==
  ASSUME NEW list \in Seq(Ids)
  PROVE  \E f : FinalizedSteps(f, list)
  <1>1. PICK n \in Nat : n = Len(list) /\ DOMAIN list = 1..n
    OBVIOUS
  <1> DEFINE V == Ids \cup {None}
  <1>2. None \in V /\ \A i \in 1..n : list[i] \in V
    BY <1>1
  <1> HIDE DEF V
  <1>3. PICK step : step = [i \in 1..n |-> [v \in V |->
          IF /\ Comparable(list[i])
             /\ v = None \/ arrivals[list[i]].finalizedAt > arrivals[v].finalizedAt
          THEN list[i] ELSE v]]
    OBVIOUS
  <1>4. step \in [1..n -> [V -> V]]
    BY <1>2, <1>3
  <1>5. PICK it \in [SUBSET (1..n) -> V] : FoldsBy(it, n, None, step)
    BY <1>2, <1>4, FoldExists
  <1>6. FinalizedFold(it, list)
    <2>1. ASSUME NEW s \in SUBSET (1..n), s # {}
          PROVE  /\ Max(s) \in 1..n /\ s \ {Max(s)} \in SUBSET (1..n)
                 /\ it[s \ {Max(s)}] \in V
      BY <1>5, <2>1, Greatest
    <2>2. QED
      BY <1>1, <1>3, <1>5, <2>1 DEF FoldsBy, FinalizedFold
  <1>7. PICK g : FinalizedFold(g, list) /\ LastFinalized(list) = g[DOMAIN list]
    BY <1>6, Zenon DEF LastFinalized, FoldLeft, MapThenFoldSet, FinalizedFold
  <1>8. PICK f : f = [m \in 0..n |-> g[1..m]]
    OBVIOUS
  <1>9. f[0] = None /\ f[n] = LastFinalized(list)
    <2>1. 1..0 = {} /\ {} \in SUBSET (DOMAIN list) /\ 0 \in 0..n /\ n \in 0..n
      BY <1>1
    <2>2. g[{}] = None
      BY <1>7, <2>1 DEF FinalizedFold
    <2>3. QED
      BY <1>1, <1>7, <1>8, <2>1, <2>2
  <1>10. ASSUME NEW m \in 1..n
         PROVE  f[m] = IF /\ Comparable(list[m])
                          /\ f[m - 1] = None \/ arrivals[list[m]].finalizedAt > arrivals[f[m - 1]].finalizedAt
                       THEN list[m] ELSE f[m - 1]
    <2>1. /\ 1..m \in SUBSET (DOMAIN list) /\ 1..m # {}
          /\ Max(1..m) = m /\ (1..m) \ {Max(1..m)} = 1..(m - 1)
      BY <1>1, UpTo
    <2>2. f[m] = g[1..m] /\ f[m - 1] = g[1..(m - 1)]
      BY <1>1, <1>8
    <2>3. PICK top, rest : top = Max(1..m) /\ rest = (1..m) \ {top}
      OBVIOUS
    <2>4. g[1..m] = IF /\ Comparable(list[top])
                       /\ g[rest] = None \/ arrivals[list[top]].finalizedAt > arrivals[g[rest]].finalizedAt
                    THEN list[top] ELSE g[rest]
      BY <1>7, <2>1, <2>3 DEF FinalizedFold
    <2>5. QED
      BY <2>1, <2>2, <2>3, <2>4
  <1>11. QED
    BY <1>1, <1>9, <1>10 DEF FinalizedSteps

\* prevByName, over sets of positions of the file.
PrevFold(it, file) ==
  it = [s \in SUBSET (DOMAIN file) |->
          IF s = {} THEN <<>>
          ELSE LET i == Max(s)
               IN  [x \in DOMAIN it[s \ {i}] \cup {file[i].name} |->
                      IF x = file[i].name THEN file[i].ms ELSE it[s \ {i}][x]]]

\* The loop that builds prevByName, position by position.
PrevSteps(f, file) ==
  /\ f[0] = <<>> /\ f[Len(file)] = PrevByName(file)
  /\ \A m \in 1..Len(file) :
       /\ DOMAIN f[m] = DOMAIN f[m - 1] \cup {file[m].name}
       /\ f[m][file[m].name] = file[m].ms
       /\ \A x \in DOMAIN f[m - 1] : x # file[m].name => f[m][x] = f[m - 1][x]

\* The loop runs so.
LEMMA PrevByNameRun ==
  ASSUME NEW file \in Seq([name : STRING, ms : Nat])
  PROVE  \E f : PrevSteps(f, file)
  <1>1. PICK n \in Nat : n = Len(file) /\ DOMAIN file = 1..n
    OBVIOUS
  <1> DEFINE V == UNION {[S -> Nat] : S \in SUBSET STRING}
             More(v, i) == [x \in DOMAIN v \cup {file[i].name} |->
                              IF x = file[i].name THEN file[i].ms ELSE v[x]]
  <1>2. <<>> \in V
    <2>1. <<>> \in [{} -> Nat]
      <3>1. <<>> \in Seq(Nat) /\ Len(<<>>) = 0 /\ 1..0 = {}
        OBVIOUS
      <3>2. QED
        BY <3>1
    <2>2. QED
      BY <2>1
  <1>3. ASSUME NEW i \in 1..n, NEW v \in V PROVE More(v, i) \in V
    <2>1. PICK S \in SUBSET STRING : v \in [S -> Nat]
      OBVIOUS
    <2>2. file[i].name \in STRING /\ file[i].ms \in Nat
      <3>1. file[i] \in [name : STRING, ms : Nat]
        BY <1>1, ElementOfSeq
      <3>2. QED
        BY <3>1
    <2>3. More(v, i) \in [S \cup {file[i].name} -> Nat]
      BY <2>1, <2>2
    <2>4. S \cup {file[i].name} \in SUBSET STRING
      BY <2>2
    <2> HIDE DEF More
    <2>5. QED
      BY <2>3, <2>4
  <1> HIDE DEF V
  <1>4. PICK step : step = [i \in 1..n |-> [v \in V |-> More(v, i)]]
    OBVIOUS
  <1>5. step \in [1..n -> [V -> V]]
    <2> HIDE DEF More
    <2>1. QED
      BY <1>3, <1>4
  <1>6. PICK it \in [SUBSET (1..n) -> V] : FoldsBy(it, n, <<>>, step)
    BY <1>2, <1>5, FoldExists
  <1>7. PrevFold(it, file)
    <2>1. ASSUME NEW s \in SUBSET (1..n), s # {}
          PROVE  step[Max(s)][it[s \ {Max(s)}]] = More(it[s \ {Max(s)}], Max(s))
      <3>1. /\ Max(s) \in 1..n /\ s \ {Max(s)} \in SUBSET (1..n)
            /\ it[s \ {Max(s)}] \in V
        BY <1>6, <2>1, Greatest
      <3> HIDE DEF More
      <3>2. QED
        BY <1>4, <3>1
    <2>2. it = [s \in SUBSET (1..n) |-> IF s = {} THEN <<>> ELSE More(it[s \ {Max(s)}], Max(s))]
      <3> HIDE DEF More
      <3>1. QED
        BY <1>6, <2>1 DEF FoldsBy
    <2>3. QED
      BY <1>1, <2>2, Zenon DEF PrevFold
  <1>8. PICK g : PrevFold(g, file) /\ PrevByName(file) = g[DOMAIN file]
    BY <1>7, Zenon DEF PrevByName, FoldLeft, MapThenFoldSet, PrevFold
  <1>9. PICK f : f = [m \in 0..n |-> g[1..m]]
    OBVIOUS
  <1>10. f[0] = <<>> /\ f[n] = PrevByName(file)
    <2>1. 1..0 = {} /\ {} \in SUBSET (DOMAIN file) /\ 0 \in 0..n /\ n \in 0..n
      BY <1>1
    <2>2. g[{}] = <<>>
      BY <1>8, <2>1 DEF PrevFold
    <2>3. QED
      BY <1>1, <1>8, <1>9, <2>1, <2>2
  <1>11. ASSUME NEW m \in 1..n PROVE f[m] = More(f[m - 1], m)
    <2>1. /\ 1..m \in SUBSET (DOMAIN file) /\ 1..m # {}
          /\ Max(1..m) = m /\ (1..m) \ {Max(1..m)} = 1..(m - 1)
      BY <1>1, UpTo
    <2>2. f[m] = g[1..m] /\ f[m - 1] = g[1..(m - 1)]
      BY <1>1, <1>9
    <2>3. g[1..m] = More(g[(1..m) \ {Max(1..m)}], Max(1..m))
      BY <1>8, <2>1, Zenon DEF PrevFold
    <2> HIDE DEF More
    <2>4. QED
      BY <2>1, <2>2, <2>3
  <1>12. ASSUME NEW m \in 1..n
         PROVE  /\ DOMAIN f[m] = DOMAIN f[m - 1] \cup {file[m].name}
                /\ f[m][file[m].name] = file[m].ms
                /\ \A x \in DOMAIN f[m - 1] : x # file[m].name => f[m][x] = f[m - 1][x]
    <2>1. PICK v, w : v = f[m - 1] /\ w = f[m]
      OBVIOUS
    <2>2. w = More(v, m)
      <3> HIDE DEF More
      <3>1. QED
        BY <1>11, <2>1
    <2>3. /\ DOMAIN w = DOMAIN v \cup {file[m].name}
          /\ w[file[m].name] = file[m].ms
          /\ \A x \in DOMAIN v : x # file[m].name => w[x] = v[x]
      BY <2>2
    <2>4. QED
      BY <2>1, <2>3
  <1>13. f[0] = <<>> /\ f[Len(file)] = PrevByName(file)
    BY <1>1, <1>10
  <1>14. \A m \in 1..Len(file) :
            /\ DOMAIN f[m] = DOMAIN f[m - 1] \cup {file[m].name}
            /\ f[m][file[m].name] = file[m].ms
            /\ \A x \in DOMAIN f[m - 1] : x # file[m].name => f[m][x] = f[m - 1][x]
    BY <1>1, <1>12
  <1>15. PrevSteps(f, file)
    BY <1>13, <1>14 DEF PrevSteps
  <1>16. QED
    BY <1>15

\* compareDurations, over sets of positions of the current file.
CompareFold(it, pack, base, curr) ==
  it = [s \in SUBSET (DOMAIN curr) |->
          IF s = {} THEN <<>>
          ELSE LET i == Max(s)
               IN  IF Regressed(PrevByName(base), curr[i])
                   THEN Append(it[s \ {i}], [pack |-> pack, test |-> curr[i]]) ELSE it[s \ {i}]]

\* The loop of compareDurations, position by position.
CompareSteps(f, pack, base, curr) ==
  /\ f[0] = <<>> /\ f[Len(curr)] = CompareDurations(pack, base, curr)
  /\ \A m \in 1..Len(curr) :
       f[m] = IF Regressed(PrevByName(base), curr[m])
              THEN Append(f[m - 1], [pack |-> pack, test |-> curr[m]]) ELSE f[m - 1]

\* The loop runs so.
LEMMA CompareRun ==
  ASSUME NEW pack, NEW base, NEW Test, NEW curr \in Seq(Test)
  PROVE  \E f : CompareSteps(f, pack, base, curr)
  <1>1. PICK n \in Nat : n = Len(curr) /\ DOMAIN curr = 1..n
    OBVIOUS
  <1> DEFINE V == Seq([pack : {pack}, test : Test])
  <1>2. <<>> \in V /\ \A v \in V, i \in 1..n : Append(v, [pack |-> pack, test |-> curr[i]]) \in V
    <2>1. <<>> \in V
      OBVIOUS
    <2>2. ASSUME NEW v \in V, NEW i \in 1..n
          PROVE  Append(v, [pack |-> pack, test |-> curr[i]]) \in V
      <3>1. curr[i] \in Test
        BY <1>1
      <3>2. [pack |-> pack, test |-> curr[i]] \in [pack : {pack}, test : Test]
        BY <3>1
      <3>3. QED
        BY <3>2, AppendProperties
    <2>3. QED
      BY <2>1, <2>2
  <1> HIDE DEF V
  <1>3. PICK step : step = [i \in 1..n |-> [v \in V |->
          IF Regressed(PrevByName(base), curr[i])
          THEN Append(v, [pack |-> pack, test |-> curr[i]]) ELSE v]]
    OBVIOUS
  <1>4. step \in [1..n -> [V -> V]]
    BY <1>2, <1>3
  <1>5. PICK it \in [SUBSET (1..n) -> V] : FoldsBy(it, n, <<>>, step)
    BY <1>2, <1>4, FoldExists
  <1>6. CompareFold(it, pack, base, curr)
    <2>1. ASSUME NEW s \in SUBSET (1..n), s # {}
          PROVE  /\ Max(s) \in 1..n /\ s \ {Max(s)} \in SUBSET (1..n)
                 /\ it[s \ {Max(s)}] \in V
      BY <1>5, <2>1, Greatest
    <2>2. QED
      BY <1>1, <1>3, <1>5, <2>1 DEF FoldsBy, CompareFold
  <1>7. PICK g : /\ CompareFold(g, pack, base, curr)
                 /\ CompareDurations(pack, base, curr) = g[DOMAIN curr]
    BY <1>6, Zenon DEF CompareDurations, FoldLeft, MapThenFoldSet, CompareFold
  <1>8. PICK f : f = [m \in 0..n |-> g[1..m]]
    OBVIOUS
  <1>9. f[0] = <<>> /\ f[n] = CompareDurations(pack, base, curr)
    <2>1. 1..0 = {} /\ {} \in SUBSET (DOMAIN curr) /\ 0 \in 0..n /\ n \in 0..n
      BY <1>1
    <2>2. g[{}] = <<>>
      BY <1>7, <2>1 DEF CompareFold
    <2>3. QED
      BY <1>1, <1>7, <1>8, <2>1, <2>2
  <1>10. ASSUME NEW m \in 1..n
         PROVE  f[m] = IF Regressed(PrevByName(base), curr[m])
                       THEN Append(f[m - 1], [pack |-> pack, test |-> curr[m]]) ELSE f[m - 1]
    <2>1. /\ 1..m \in SUBSET (DOMAIN curr) /\ 1..m # {}
          /\ Max(1..m) = m /\ (1..m) \ {Max(1..m)} = 1..(m - 1)
      BY <1>1, UpTo
    <2>2. f[m] = g[1..m] /\ f[m - 1] = g[1..(m - 1)]
      BY <1>1, <1>8
    <2>3. PICK top, rest : top = Max(1..m) /\ rest = (1..m) \ {top}
      OBVIOUS
    <2>4. g[1..m] = IF Regressed(PrevByName(base), curr[top])
                    THEN Append(g[rest], [pack |-> pack, test |-> curr[top]]) ELSE g[rest]
      BY <1>7, <2>1, <2>3 DEF CompareFold
    <2>5. QED
      BY <2>1, <2>2, <2>3, <2>4
  <1>11. QED
    BY <1>1, <1>9, <1>10 DEF CompareSteps

-----------------------------------------------------------------------------
(* What the loops find *)

\* A search for the greatest: f[m] is the one taken among the first m of the list, of those
\* that are Ok.
Searches(f, S, n, list, key, Ok) ==
  /\ None \notin S /\ list \in [1..n -> S] /\ Ok \in SUBSET S
  /\ \A a \in S : key[a] \in Nat
  /\ f[0] = None
  /\ \A m \in 1..n : f[m] = IF list[m] \in Ok /\ (f[m - 1] = None \/ key[list[m]] > key[f[m - 1]])
                            THEN list[m] ELSE f[m - 1]

\* The search takes one that is Ok, if there is one, and none of these is greater.
LEMMA Search ==
  ASSUME NEW f, NEW S, NEW n \in Nat, NEW list, NEW key, NEW Ok, Searches(f, S, n, list, key, Ok)
  PROVE  /\ f[n] \in (Ok \cap Range(list)) \cup {None}
         /\ f[n] = None => Ok \cap Range(list) = {}
         /\ f[n] # None => \A a \in Ok \cap Range(list) : key[a] <= key[f[n]]
  <1> USE DEF Searches
  <1> DEFINE Seen(m) == {a \in Ok : \E i \in 1..m : list[i] = a}
             Found(m) == \/ f[m] = None /\ Seen(m) = {}
                         \/ f[m] \in Seen(m) /\ \A a \in Seen(m) : key[a] <= key[f[m]]
             P == {m \in 0..n : Found(m)}
  <1>1. 0 \in P
    <2>1. Found(0)
      OBVIOUS
    <2> HIDE DEF Found
    <2>2. 0 \in 0..n
      OBVIOUS
    <2>3. QED
      BY <2>1, <2>2
  <1>2. ASSUME NEW m \in 0..n, m < n, m \in P PROVE m + 1 \in P
    <2>1. PICK j \in 1..n : j = m + 1 /\ j - 1 = m
      BY <1>2
    <2>2. PICK x \in S : x = list[j]
      BY <2>1
    <2>3. Seen(j) = IF x \in Ok THEN Seen(m) \cup {x} ELSE Seen(m)
      <3>1. 1..j = 1..m \cup {j}
        BY <2>1
      <3>2. QED
        BY <2>2, <3>1
    <2>4. PICK best, next : best = f[m] /\ next = f[j]
      OBVIOUS
    <2>5. next = IF x \in Ok /\ (best = None \/ key[x] > key[best]) THEN x ELSE best
      BY <2>1, <2>2, <2>4
    <2>6. PICK A, B : A = Seen(m) /\ B = Seen(j)
      OBVIOUS
    <2>7. A \in SUBSET S /\ B = IF x \in Ok THEN A \cup {x} ELSE A
      BY <2>3, <2>6
    <2>8. \/ best = None /\ A = {}
          \/ best \in A /\ \A a \in A : key[a] <= key[best]
      BY <1>2, <2>4, <2>6
    <2>9. \/ next = None /\ B = {}
          \/ next \in B /\ \A a \in B : key[a] <= key[next]
      <3> HIDE DEF Seen, Found, P
      <3>1. \A a \in S : key[a] \in Nat
        OBVIOUS
      <3>2. CASE best = None /\ A = {}
        BY <2>2, <2>5, <2>7, <3>1, <3>2
      <3>3. CASE best \in A /\ \A a \in A : key[a] <= key[best]
        <4>1. best # None /\ best \in S
          BY <2>7, <3>3
        <4>2. CASE x \in Ok /\ key[x] > key[best]
          BY <2>2, <2>5, <2>7, <3>1, <3>3, <4>1, <4>2
        <4>3. CASE x \in Ok /\ ~(key[x] > key[best])
          BY <2>2, <2>5, <2>7, <3>1, <3>3, <4>1, <4>3
        <4>4. CASE x \notin Ok
          BY <2>5, <2>7, <3>3, <4>1, <4>4
        <4>5. QED
          BY <4>2, <4>3, <4>4
      <3>4. QED
        BY <2>8, <3>2, <3>3
    <2>10. Found(j)
      BY <2>4, <2>6, <2>9
    <2> HIDE DEF Found
    <2>11. j \in 0..n
      OBVIOUS
    <2>12. QED
      BY <2>1, <2>10, <2>11
  <1>3. Found(n)
    <2>1. n \in 0..n
      OBVIOUS
    <2> HIDE DEF P
    <2>2. \A m \in 0..n : m \in P
      BY <1>1, <1>2, Climb
    <2>3. QED
      BY <2>1, <2>2 DEF P
  <1>4. Seen(n) = Ok \cap Range(list)
    BY DEF Range
  <1> HIDE DEF Seen
  <1>5. None \notin Ok
    OBVIOUS
  <1>6. QED
    BY <1>3, <1>4, <1>5

\* findArrivalByLabel returns an arrival of the list unless that is empty, and none of them
\* was created after it.
LEMMA LastCreatedIsLast ==
  ASSUME None \notin Ids, NEW list \in Seq(Ids), \A a \in Ids : arrivals[a].created \in Nat
  PROVE  /\ LastCreated(list) \in Range(list) \cup {None}
         /\ LastCreated(list) = None => Range(list) = {}
         /\ LastCreated(list) # None =>
              \A a \in Range(list) : arrivals[a].created <= arrivals[LastCreated(list)].created
  <1>1. PICK n \in Nat : n = Len(list) /\ list \in [1..n -> Ids]
    OBVIOUS
  <1>2. PICK f : CreatedSteps(f, list)
    BY <1>1, LastCreatedRun
  <1>3. PICK key : key = [x \in Ids \cup {f[m] : m \in 0..n} |-> arrivals[x].created]
    OBVIOUS
  <1>4. \A a \in Ids : key[a] = arrivals[a].created /\ key[a] \in Nat
    BY <1>3
  <1>5. ASSUME NEW m \in 1..n
        PROVE  f[m] = IF list[m] \in Ids /\ (f[m - 1] = None \/ key[list[m]] > key[f[m - 1]])
                      THEN list[m] ELSE f[m - 1]
    <2>1. list[m] \in Ids /\ m - 1 \in 0..n
      BY <1>1
    <2>2. key[f[m - 1]] = arrivals[f[m - 1]].created
      BY <1>3, <2>1
    <2>3. QED
      BY <1>1, <1>2, <1>4, <2>1, <2>2 DEF CreatedSteps
  <1>6. /\ f[n] \in (Ids \cap Range(list)) \cup {None}
        /\ f[n] = None => Ids \cap Range(list) = {}
        /\ f[n] # None => \A a \in Ids \cap Range(list) : key[a] <= key[f[n]]
    <2>1. Searches(f, Ids, n, list, key, Ids)
      BY <1>1, <1>2, <1>4, <1>5 DEF Searches, CreatedSteps
    <2>2. QED
      BY <2>1, Search
  <1>7. Ids \cap Range(list) = Range(list)
    BY <1>1 DEF Range
  <1>8. QED
    BY <1>1, <1>2, <1>4, <1>6, <1>7 DEF CreatedSteps

\* findPriorFinalizedArrival returns a comparable arrival of the list unless it has none, and
\* none of them was finalized after it.
LEMMA LastFinalizedIsLast ==
  ASSUME None \notin Ids, NEW list \in Seq(Ids), \A a \in Ids : arrivals[a].finalizedAt \in Nat
  PROVE  /\ LastFinalized(list) \in {a \in Range(list) : Comparable(a)} \cup {None}
         /\ LastFinalized(list) # None =>
              \A a \in Range(list) : Comparable(a) =>
                arrivals[a].finalizedAt <= arrivals[LastFinalized(list)].finalizedAt
  <1>1. PICK n \in Nat : n = Len(list) /\ list \in [1..n -> Ids]
    OBVIOUS
  <1>2. PICK f : FinalizedSteps(f, list)
    BY <1>1, LastFinalizedRun
  <1>3. PICK Ok, key : /\ Ok = {a \in Ids : Comparable(a)}
                       /\ key = [x \in Ids \cup {f[m] : m \in 0..n} |-> arrivals[x].finalizedAt]
    OBVIOUS
  <1>4. /\ Ok \in SUBSET Ids
        /\ \A a \in Ids : key[a] = arrivals[a].finalizedAt /\ key[a] \in Nat
    BY <1>3
  <1>5. ASSUME NEW m \in 1..n
        PROVE  f[m] = IF list[m] \in Ok /\ (f[m - 1] = None \/ key[list[m]] > key[f[m - 1]])
                      THEN list[m] ELSE f[m - 1]
    <2>1. list[m] \in Ids /\ m - 1 \in 0..n
      BY <1>1
    <2>2. key[f[m - 1]] = arrivals[f[m - 1]].finalizedAt
      BY <1>3, <2>1
    <2>3. list[m] \in Ok <=> Comparable(list[m])
      BY <1>3, <2>1
    <2>4. QED
      BY <1>1, <1>2, <1>4, <2>1, <2>2, <2>3 DEF FinalizedSteps
  <1>6. /\ f[n] \in (Ok \cap Range(list)) \cup {None}
        /\ f[n] # None => \A a \in Ok \cap Range(list) : key[a] <= key[f[n]]
    <2>1. Searches(f, Ids, n, list, key, Ok)
      BY <1>1, <1>2, <1>4, <1>5 DEF Searches, FinalizedSteps
    <2>2. QED
      BY <2>1, Search
  <1>7. Ok \cap Range(list) = {a \in Range(list) : Comparable(a)}
    BY <1>1, <1>3 DEF Range
  <1>8. QED
    BY <1>1, <1>2, <1>4, <1>6, <1>7 DEF FinalizedSteps

\* A List returns the arrivals that are there, each of them.
LEMMA ListsAll ==
  ASSUME IsFiniteSet(Ids), NEW V, NEW list \in Lists(V)
  PROVE  /\ list \in Seq(Ids)
         /\ Range(list) = {a \in Ids : arrivals[a].listed /\ arrivals[a].version \in V}
  <1>1. PICK S : S = {a \in Ids : arrivals[a].listed /\ arrivals[a].version \in V}
    OBVIOUS
  <1>2. IsFiniteSet(S) /\ S \subseteq Ids
    BY <1>1, FS_Subset
  <1>3. PICK n \in Nat : n = Cardinality(S)
    BY <1>2, FS_CardinalityType
  <1>4. list \in [1..n -> S] /\ \A i, j \in 1..n : i # j => list[i] # list[j]
    BY <1>1, <1>3 DEF Lists, SetToSeqs
  <1>5. list \in Injection(1..n, S)
    BY <1>4 DEF Injection, IsInjective
  <1>6. IsFiniteSet(1..n) /\ Cardinality(1..n) = n
    BY FS_Interval
  <1>7. list \in Surjection(1..n, S)
    BY <1>2, <1>3, <1>5, <1>6, FS_Injection
  <1>8. Range(list) = S
    BY <1>4, <1>7 DEF Range, Surjection
  <1>9. list \in Seq(Ids)
    BY <1>2, <1>4
  <1>10. QED
    BY <1>1, <1>8, <1>9

\* The position j of the file is the last one, up to m, of a test named x.
LastNamed(file, m, x, j) ==
  /\ j \in 1..m /\ file[j].name = x
  /\ \A l \in (j + 1)..m : file[l].name # x

\* prevByName has the names of the file, each with the duration of its last test.
LEMMA PrevByNameIs ==
  ASSUME NEW file \in Seq([name : STRING, ms : Nat])
  PROVE  /\ \A x \in DOMAIN PrevByName(file) :
              \E j \in 1..Len(file) : /\ LastNamed(file, Len(file), x, j)
                                      /\ PrevByName(file)[x] = file[j].ms
         /\ \A i \in 1..Len(file) : file[i].name \in DOMAIN PrevByName(file)
  <1>1. PICK n \in Nat : n = Len(file)
    OBVIOUS
  <1>2. PICK f : PrevSteps(f, file)
    BY PrevByNameRun
  <1> DEFINE Values(m) == \A x \in DOMAIN f[m] :
                            \E j \in 1..m : LastNamed(file, m, x, j) /\ f[m][x] = file[j].ms
             Names(m) == \A i \in 1..m : file[i].name \in DOMAIN f[m]
             P == {m \in 0..n : Values(m) /\ Names(m)}
  <1>3. 0 \in P
    <2>1. DOMAIN f[0] = {} /\ 1..0 = {} /\ 0 \in 0..n
      BY <1>2 DEF PrevSteps
    <2>2. Values(0) /\ Names(0)
      BY <2>1
    <2> HIDE DEF Values, Names
    <2>3. QED
      BY <2>1, <2>2
  <1>4. ASSUME NEW m \in 0..n, m < n, m \in P PROVE m + 1 \in P
    <2>1. PICK t \in 1..n : t = m + 1 /\ t - 1 = m /\ t \in 0..n
      BY <1>4
    <2>2. /\ DOMAIN f[t] = DOMAIN f[m] \cup {file[t].name}
          /\ f[t][file[t].name] = file[t].ms
          /\ \A x \in DOMAIN f[m] : x # file[t].name => f[t][x] = f[m][x]
      BY <1>1, <1>2, <2>1 DEF PrevSteps
    <2>3. 1..t = 1..m \cup {t} /\ t \in 1..t /\ (t + 1)..t = {}
      BY <2>1
    <2>4. ASSUME NEW x \in DOMAIN f[t]
          PROVE  \E j \in 1..t : LastNamed(file, t, x, j) /\ f[t][x] = file[j].ms
      <3>1. CASE x = file[t].name
        <4>1. LastNamed(file, t, x, t) /\ f[t][x] = file[t].ms
          BY <2>2, <2>3, <3>1 DEF LastNamed
        <4>2. QED
          BY <2>3, <4>1
      <3>2. CASE x # file[t].name
        <4>1. x \in DOMAIN f[m] /\ f[t][x] = f[m][x]
          BY <2>2, <3>2
        <4>2. PICK j \in 1..m : LastNamed(file, m, x, j) /\ f[m][x] = file[j].ms
          BY <1>4, <4>1
        <4>3. (j + 1)..t = ((j + 1)..m) \cup {t} /\ j \in 1..t
          BY <2>1
        <4>4. LastNamed(file, t, x, j)
          BY <3>2, <4>2, <4>3 DEF LastNamed
        <4>5. QED
          BY <4>1, <4>2, <4>3, <4>4
      <3>3. QED
        BY <3>1, <3>2
    <2>5. Names(t)
      BY <1>4, <2>2, <2>3
    <2>6. Values(t)
      BY <2>4
    <2> HIDE DEF Values, Names
    <2>7. QED
      BY <2>1, <2>5, <2>6
  <1>5. n \in P
    <2> HIDE DEF P
    <2>1. \A m \in 0..n : m \in P
      BY <1>3, <1>4, Climb
    <2>2. QED
      BY <2>1
  <1>6. Values(n) /\ Names(n)
    <2> HIDE DEF Values, Names
    <2>1. QED
      BY <1>5
  <1>7. QED
    BY <1>1, <1>2, <1>6 DEF PrevSteps

\* A quotient reaches r if and only if the dividend reaches r times the divisor.
LEMMA RatioReached ==
  ASSUME NEW c \in Nat, NEW b \in Nat \ {0}, NEW r \in Nat
  PROVE  c \div b >= r <=> c >= r * b
  <1>1. PICK q \in Nat : q = c \div b
    <2>1. b > 0
      OBVIOUS
    <2>2. c \div b \in Nat
      BY <2>1, Z3
    <2>3. QED
      BY <2>2
  <1>2. b * q <= c /\ c < b * q + b
    BY <1>1
  <1>3. CASE q >= r
    <2>1. PICK d \in Nat : q = r + d
      BY <1>3
    <2>2. b * q = r * b + b * d /\ b * d >= 0
      BY <2>1
    <2>3. QED
      BY <1>1, <1>2, <1>3, <2>2
  <1>4. CASE q < r
    <2>1. PICK d \in Nat : r = q + 1 + d
      <3>1. r - q - 1 \in Nat /\ r = q + 1 + (r - q - 1)
        BY <1>4
      <3>2. QED
        BY <3>1
    <2>2. r * b = b * q + b + b * d /\ b * d >= 0
      BY <2>1
    <2>3. QED
      BY <1>1, <1>2, <1>4, <2>2
  <1>5. QED
    BY <1>3, <1>4

\* compareDurations flags the slow tests.
LEMMA SlowIsRegressed ==
  ASSUME NEW base \in Seq([name : STRING, ms : Nat]), NEW curr \in Seq([name : STRING, ms : Nat]),
         NEW i \in DOMAIN curr, Ratio \in Nat, Delta \in Nat
  PROVE  Slow(base, curr, i) <=> Regressed(PrevByName(base), curr[i])
  <1>1. PICK t \in [name : STRING, ms : Nat] : t = curr[i]
    <2>1. i \in 1..Len(curr)
      OBVIOUS
    <2>2. QED
      BY <2>1, ElementOfSeq
  <1>2. PICK n \in Nat : n = Len(base) /\ DOMAIN base = 1..n
    OBVIOUS
  <1>3. PICK p : p = PrevByName(base)
    OBVIOUS
  <1>4. /\ \A x \in DOMAIN p : \E j \in 1..n : LastNamed(base, n, x, j) /\ p[x] = base[j].ms
        /\ \A j \in 1..n : base[j].name \in DOMAIN p
    BY <1>2, <1>3, PrevByNameIs
  <1>5. ASSUME NEW j \in 1..n
        PROVE  /\ base[j].ms \in Nat
               /\ (base[j].ms # 0 /\ t.ms \div base[j].ms >= Ratio /\ t.ms - base[j].ms >= Delta)
                  <=> (base[j].ms > 0 /\ t.ms >= Ratio * base[j].ms /\ t.ms >= base[j].ms + Delta)
    <2>1. PICK b \in Nat : b = base[j].ms
      <3>1. base[j] \in [name : STRING, ms : Nat]
        BY <1>2, ElementOfSeq
      <3>2. QED
        BY <3>1
    <2>2. PICK c \in Nat : c = t.ms
      OBVIOUS
    <2>3. b # 0 => (c \div b >= Ratio <=> c >= Ratio * b)
      <3>1. SUFFICES ASSUME b # 0 PROVE c \div b >= Ratio <=> c >= Ratio * b
        OBVIOUS
      <3>2. b \in Nat \ {0}
        BY <3>1
      <3>3. QED
        BY <3>2, RatioReached
    <2>4. c - b >= Delta <=> c >= b + Delta
      OBVIOUS
    <2>5. b # 0 <=> b > 0
      OBVIOUS
    <2>6. (b # 0 /\ c \div b >= Ratio /\ c - b >= Delta) <=> (b > 0 /\ c >= Ratio * b /\ c >= b + Delta)
      BY <2>3, <2>4, <2>5, Zenon
    <2>7. QED
      BY <2>1, <2>2, <2>6, Zenon
  <1>6. Slow(base, curr, i) <=>
          \E j \in 1..n : /\ LastNamed(base, n, t.name, j)
                          /\ base[j].ms # 0 /\ t.ms \div base[j].ms >= Ratio /\ t.ms - base[j].ms >= Delta
    BY <1>1, <1>2 DEF Slow, LastNamed
  <1>7. ASSUME NEW j \in 1..n, LastNamed(base, n, t.name, j)
        PROVE  t.name \in DOMAIN p /\ p[t.name] = base[j].ms
    <2>1. t.name \in DOMAIN p
      BY <1>4, <1>7 DEF LastNamed
    <2>2. PICK l \in 1..n : LastNamed(base, n, t.name, l) /\ p[t.name] = base[l].ms
      BY <1>4, <2>1
    <2>3. ~(l < j) /\ ~(j < l)
      <3>1. /\ base[l].name = t.name /\ \A x \in (l + 1)..n : base[x].name # t.name
            /\ base[j].name = t.name /\ \A x \in (j + 1)..n : base[x].name # t.name
        BY <1>7, <2>2 DEF LastNamed
      <3>2. (l < j => j \in (l + 1)..n) /\ (j < l => l \in (j + 1)..n)
        OBVIOUS
      <3>3. QED
        BY <3>1, <3>2
    <2>4. QED
      BY <2>1, <2>2, <2>3
  <1>8. Regressed(p, t) <=>
          \E j \in 1..n : /\ LastNamed(base, n, t.name, j)
                          /\ base[j].ms > 0 /\ t.ms >= Ratio * base[j].ms /\ t.ms >= base[j].ms + Delta
    BY <1>4, <1>7 DEF Regressed
  <1>9. QED
    BY <1>1, <1>3, <1>5, <1>6, <1>8

\* The rows of the regressed tests of the current file, each once.
AreRegressed(rows, pack, base, Test, curr) ==
  LET slow == {i \in DOMAIN curr : Regressed(PrevByName(base), curr[i])}
  IN  /\ rows \in Seq([pack : {pack}, test : Test])
      /\ Len(rows) = Cardinality(slow)
      /\ Range(rows) = {[pack |-> pack, test |-> curr[i]] : i \in slow}

\* compareDurations of a pack lists these.
LEMMA CompareIs ==
  ASSUME NEW pack, NEW base, NEW Test, NEW curr \in Seq(Test)
  PROVE  AreRegressed(CompareDurations(pack, base, curr), pack, base, Test, curr)
  <1>1. PICK n \in Nat : n = Len(curr) /\ DOMAIN curr = 1..n
    OBVIOUS
  <1> DEFINE Row == [pack : {pack}, test : Test]
             Slows(m) == {i \in 1..m : Regressed(PrevByName(base), curr[i])}
             Rows(m) == {[pack |-> pack, test |-> curr[i]] : i \in Slows(m)}
  <1>2. PICK f : CompareSteps(f, pack, base, curr)
    BY CompareRun
  <1> DEFINE Listed(m) == /\ f[m] \in Seq(Row) /\ IsFiniteSet(Slows(m))
                          /\ Len(f[m]) = Cardinality(Slows(m)) /\ Range(f[m]) = Rows(m)
             P == {m \in 0..n : Listed(m)}
  <1>3. 0 \in P
    <2>1. Slows(0) = {}
      OBVIOUS
    <2>2. Rows(0) = {}
      BY <2>1
    <2>3. f[0] \in Seq(Row) /\ Len(f[0]) = 0 /\ Range(f[0]) = {}
      BY <1>2 DEF Range, CompareSteps
    <2> HIDE DEF Slows, Rows, Row
    <2>4. Listed(0)
      BY <2>1, <2>2, <2>3, FS_EmptySet
    <2> HIDE DEF Listed
    <2>5. 0 \in 0..n
      OBVIOUS
    <2>6. QED
      BY <2>4, <2>5
  <1>4. ASSUME NEW m \in 0..n, m < n, m \in P PROVE m + 1 \in P
    <2>1. PICK t \in 1..n : t = m + 1 /\ t - 1 = m /\ t \in 0..n
      BY <1>4
    <2>2. PICK row \in Row : row = [pack |-> pack, test |-> curr[t]]
      <3>1. curr[t] \in Test
        BY <1>1, ElementOfSeq
      <3>2. QED
        BY <3>1
    <2>3. Listed(m)
      BY <1>4
    <2>4. 1..t = 1..m \cup {t} /\ t \notin 1..m
      BY <2>1
    <2>5. CASE Regressed(PrevByName(base), curr[t])
      <3>1. Slows(t) = Slows(m) \cup {t} /\ t \notin Slows(m)
        BY <2>4, <2>5
      <3>2. Rows(t) = Rows(m) \cup {row}
        BY <2>2, <3>1
      <3>3. f[t] = Append(f[m], row)
        BY <1>1, <1>2, <2>1, <2>2, <2>5 DEF CompareSteps
      <3> HIDE DEF Slows, Rows, Row
      <3>4. PICK v \in Seq(Row), w \in {f[t]} : v = f[m] /\ w = f[t]
        BY <2>3
      <3>5. w \in Seq(Row) /\ Len(w) = Len(v) + 1 /\ Range(w) = Range(v) \cup {row}
        <4>1. w = Append(v, row)
          BY <3>3, <3>4
        <4>2. /\ w \in Seq(Row) /\ Len(w) = Len(v) + 1 /\ w[Len(w)] = row
              /\ \A i \in 1..Len(v) : w[i] = v[i]
          BY <4>1, AppendProperties
        <4>3. DOMAIN w = (DOMAIN v) \cup {Len(w)} /\ DOMAIN v = 1..Len(v)
          BY <4>2
        <4>4. QED
          BY <4>2, <4>3 DEF Range
      <3>6. IsFiniteSet(Slows(t)) /\ Cardinality(Slows(t)) = Cardinality(Slows(m)) + 1
        BY <2>3, <3>1, FS_AddElement
      <3>7. Listed(t)
        BY <2>3, <3>2, <3>4, <3>5, <3>6
      <3> HIDE DEF Listed
      <3>8. QED
        BY <2>1, <3>7
    <2>6. CASE ~Regressed(PrevByName(base), curr[t])
      <3>1. Slows(t) = Slows(m)
        BY <2>4, <2>6
      <3>2. Rows(t) = Rows(m)
        BY <3>1
      <3>3. f[t] = f[m]
        BY <1>1, <1>2, <2>1, <2>6 DEF CompareSteps
      <3> HIDE DEF Slows, Rows, Row
      <3>4. Listed(t)
        BY <2>3, <3>1, <3>2, <3>3
      <3> HIDE DEF Listed
      <3>5. QED
        BY <2>1, <3>4
    <2>7. QED
      BY <2>5, <2>6
  <1>5. Listed(n)
    <2> HIDE DEF P
    <2>1. \A m \in 0..n : m \in P
      BY <1>3, <1>4, Climb
    <2>2. n \in 0..n
      OBVIOUS
    <2>3. n \in P
      BY <2>1, <2>2
    <2> HIDE DEF Listed
    <2>4. QED
      BY <2>3 DEF P
  <1>6. QED
    BY <1>1, <1>2, <1>5 DEF AreRegressed, CompareSteps

-----------------------------------------------------------------------------
(* Each action keeps the invariant *)

\* What depends on the arrivals and on the choices among them alone.
Outcome == <<world, decided, current, prev>>

\* Nothing read, nothing to count.
LEMMA NothingRead == Cardinality({}) = 0
  BY FS_EmptySet

\* A quill that has read nothing does not speak of regressions.
LEMMA NothingToTell ==
  ASSUME packsCompared' = 0, read' = {}, regressions' = <<>>,
         pc' = "done" => reason' \notin {"no regressions", "regressions"}
  PROVE  TellsWhatItRead'
  <1>1. DOMAIN regressions' = {}
    BY EmptyDomain
  <1>2. SUFFICES ASSUME pc' = "done" PROVE TellsWhatItRead'
    BY DEF TellsWhatItRead
  <1>3. /\ packsCompared' = Cardinality(read')
        /\ reason' \in {"no regressions", "regressions"} <=> read' # {}
        /\ reason' = "regressions" <=> regressions' # <<>>
    BY <1>2, NothingRead
  <1>4. QED
    BY <1>1, <1>3 DEF TellsWhatItRead

\* The quill begins with nothing chosen and nothing read.
LEMMA Initially == Init => DurationInv
  <1>1. SUFFICES ASSUME Init PROVE DurationInv
    OBVIOUS
  <1>2. /\ \A a \in Ids : arrivals[a] = Unborn
        /\ decided = None /\ current = None /\ prev = None /\ pc = "post-deploy"
        /\ k = 1 /\ files = <<>> /\ regressions = <<>> /\ packsCompared = 0 /\ read = {} /\ reason = None
    BY <1>1 DEF Init
  <1>3. Unborn.listed = FALSE
    BY DEF Unborn
  <1>4. TypeOK
    <2>1. Unborn \in [version : Versions, phase : Phases, created : 0..MaxTime,
                      finalizedAt : 0..MaxTime, packs : PackLists \cup {<<>>}, listed : BOOLEAN]
      BY ThresholdAssumption DEF Unborn, Versions, Phases, Unset
    <2>2. arrivals = [a \in Ids |-> Unborn] /\ now = 1 /\ 1 \in 1..MaxTime
      BY <1>1, ThresholdAssumption DEF Init
    <2>3. QED
      BY <1>2, <2>1, <2>2 DEF TypeOK
  <1>5. SeenIsCreated
    BY <1>2, <1>3 DEF SeenIsCreated
  <1>6. Phased /\ InHand
    BY <1>2 DEF Phased, InHand, progress
  <1>7. Counted
    <2>1. Cardinality(read) = 0 /\ read \subseteq 1..(k - 1) /\ regressions = <<>>
      BY <1>2, FS_EmptySet
    <2>2. QED
      BY <1>2, <2>1 DEF Counted
  <1>8. BaselineIsLatest /\ SameDeploymentOrLater /\ TellsWhatItRead
    BY <1>2 DEF BaselineIsLatest, SameDeploymentOrLater, TellsWhatItRead
  <1>9. QED
    BY <1>4, <1>5, <1>6, <1>7, <1>8 DEF DurationInv

\* The facts on the arrivals, and on what was chosen among them, last as long as these do.
LEMMA OutcomeKept ==
  ASSUME DurationInv, UNCHANGED Outcome
  PROVE  /\ now' \in 1..MaxTime
         /\ arrivals' \in [Ids -> [version : Versions, phase : Phases, created : 0..MaxTime,
                                   finalizedAt : 0..MaxTime, packs : PackLists \cup {<<>>},
                                   listed : BOOLEAN]]
         /\ {decided', current', prev'} \subseteq Ids \cup {None}
         /\ SeenIsCreated' /\ BaselineIsLatest' /\ SameDeploymentOrLater'
  <1>1. now' = now /\ arrivals' = arrivals /\ decided' = decided /\ current' = current /\ prev' = prev
    BY DEF Outcome, world
  <1>2. TypeOK /\ SeenIsCreated /\ BaselineIsLatest /\ SameDeploymentOrLater
    BY DEF DurationInv
  <1>3. SeenIsCreated'
    BY <1>1, <1>2 DEF SeenIsCreated
  <1>4. BaselineIsLatest' /\ SameDeploymentOrLater'
    BY <1>1, <1>2 DEF BaselineIsLatest, SameDeploymentOrLater, Comparable
  <1>5. QED
    BY <1>1, <1>2, <1>3, <1>4 DEF TypeOK

\* The packs of an arrival are a list of names.
LEMMA PacksAreNames ==
  ASSUME TypeOK, NEW a \in Ids
  PROVE  /\ arrivals[a].packs \in Seq(STRING)
         /\ \A i \in 1..Len(arrivals[a].packs) : arrivals[a].packs[i] \in Packs
  <1>1. PICK list : list = arrivals[a].packs /\ list \in PackLists \cup {<<>>}
    BY DEF TypeOK
  <1>2. list \in Seq(STRING)
    <2>1. <<>> \in Seq(STRING)
      OBVIOUS
    <2>2. QED
      BY <1>1, <2>1, FileAssumption
  <1>3. ASSUME NEW i \in 1..Len(list) PROVE list[i] \in Packs
    <2>1. list # <<>> /\ i \in DOMAIN list
      BY <1>2
    <2>2. list \in PackLists /\ list[i] \in Range(list)
      BY <1>1, <2>1 DEF Range
    <2>3. QED
      BY <2>2 DEF Packs
  <1>4. QED
    BY <1>1, <1>2, <1>3

\* What the post-deploy quill takes carries the version of the release.
LEMMA PostDeployKeeps ==
  ASSUME DurationInv, PostDeploy PROVE DurationInv'
  <1>1. TypeOK /\ SeenIsCreated /\ Phased /\ InHand /\ Counted
    BY DEF DurationInv
  <1>2. /\ pc = "post-deploy" /\ pc' = "current" /\ now' = now /\ arrivals' = arrivals
        /\ current' = current /\ prev' = prev /\ k' = k /\ files' = files
        /\ regressions' = regressions /\ packsCompared' = packsCompared /\ read' = read /\ reason' = reason
    BY DEF PostDeploy, world, progress
  <1>3. /\ current = None /\ prev = None /\ decided = None /\ reason = None
        /\ k = 1 /\ files = <<>> /\ regressions = <<>> /\ packsCompared = 0 /\ read = {}
    BY <1>1, <1>2 DEF Phased, progress
  <1>4. \/ decided' = None
        \/ decided' \in Ids /\ arrivals[decided'].listed /\ arrivals[decided'].version = Current
    BY <1>3 DEF PostDeploy, PickLatest, Finalized
  <1>5. TypeOK'
    BY <1>1, <1>2, <1>3, <1>4 DEF TypeOK
  <1>6. SeenIsCreated'
    BY <1>1, <1>2, <1>3, <1>4 DEF SeenIsCreated
  <1>7. Phased' /\ InHand'
    BY <1>2, <1>3 DEF Phased, InHand, progress
  <1>8. Counted'
    BY <1>1, <1>2, <1>3 DEF Counted
  <1>9. BaselineIsLatest' /\ SameDeploymentOrLater' /\ TellsWhatItRead'
    BY <1>2, <1>3 DEF BaselineIsLatest, SameDeploymentOrLater, TellsWhatItRead
  <1>10. QED
    BY <1>5, <1>6, <1>7, <1>8, <1>9 DEF DurationInv

\* The current arrival is the one created last of its version; if the one decided on is
\* still there, it is among those.
LEMMA FindCurrentKeeps ==
  ASSUME DurationInv, FindCurrent PROVE DurationInv'
  <1>1. TypeOK /\ SeenIsCreated /\ Phased /\ InHand /\ Counted
    BY DEF DurationInv
  <1>2. /\ pc = "current" /\ now' = now /\ arrivals' = arrivals /\ decided' = decided
        /\ prev' = prev /\ k' = k /\ files' = files
        /\ regressions' = regressions /\ packsCompared' = packsCompared /\ read' = read
    BY DEF FindCurrent, world, progress
  <1>3. /\ current = None /\ prev = None /\ reason = None
        /\ k = 1 /\ files = <<>> /\ regressions = <<>> /\ packsCompared = 0 /\ read = {}
    BY <1>1, <1>2 DEF Phased, progress
  <1>4. \/ pc' = "prior" /\ current' # None /\ reason' = reason
        \/ pc' = "done" /\ reason' \in {"no current arrival", "no tests"}
    BY DEF FindCurrent, Return
  <1>5. PICK list \in Lists({Current}) \cup {<<>>} : current' = LastCreated(list)
    BY DEF FindCurrent
  <1>6. /\ list \in Seq(Ids)
        /\ list # <<>> => Range(list) = {a \in Ids : arrivals[a].listed /\ arrivals[a].version = Current}
    <2>1. CASE list = <<>>
      BY <2>1
    <2>2. CASE list \in Lists({Current})
      BY <2>2, ListsAll, ArrivalAssumption
    <2>3. QED
      BY <1>5, <2>1, <2>2
  <1>7. \A a \in Ids : arrivals[a].created \in Nat
    BY <1>1, ThresholdAssumption DEF TypeOK
  <1>8. /\ current' \in Range(list) \cup {None}
        /\ current' # None => \A a \in Range(list) : arrivals[a].created <= arrivals[current'].created
    BY <1>5, <1>6, <1>7, ArrivalAssumption, LastCreatedIsLast
  <1>9. current' # None =>
          /\ current' \in Ids /\ arrivals[current'].listed
          /\ \A a \in Ids : arrivals[a].listed /\ arrivals[a].version = Current =>
               arrivals[a].created <= arrivals[current'].created
    <2>1. list = <<>> => Range(list) = {}
      BY DEF Range
    <2>2. QED
      BY <1>6, <1>8, <2>1
  <1>10. TypeOK'
    <2>1. current' \in Ids \cup {None}
      BY <1>9
    <2>2. QED
      BY <1>1, <1>2, <1>3, <1>4, <2>1 DEF TypeOK
  <1>11. SeenIsCreated'
    BY <1>1, <1>2, <1>9 DEF SeenIsCreated
  <1>12. Phased' /\ InHand'
    BY <1>2, <1>3, <1>4 DEF Phased, InHand, progress
  <1>13. Counted'
    <2>1. Cardinality(read) = 0
      BY <1>3, NothingRead
    <2>2. current' # None => k' <= Len(PackNames') + 1
      <3>1. SUFFICES ASSUME current' # None PROVE 1 <= Len(arrivals[current'].packs) + 1
        BY <1>2, <1>3 DEF PackNames
      <3>2. arrivals[current'].packs \in Seq(STRING)
        BY <1>1, <1>9, <3>1, PacksAreNames
      <3>3. QED
        BY <3>2
    <2>3. pc' \notin {"prev", "compare"}
      BY <1>4
    <2>4. /\ read' \subseteq 1..(k' - 1) /\ Cardinality(read') = packsCompared'
          /\ DOMAIN regressions' = {}
      BY <1>2, <1>3, <2>1
    <2>5. QED
      BY <2>2, <2>3, <2>4 DEF Counted
  <1>14. SameDeploymentOrLater'
    BY <1>1, <1>2, <1>9 DEF SameDeploymentOrLater, SeenIsCreated, TypeOK
  <1>15. BaselineIsLatest' /\ TellsWhatItRead'
    BY <1>2, <1>3, <1>4, NothingToTell DEF BaselineIsLatest
  <1>16. QED
    BY <1>10, <1>11, <1>12, <1>13, <1>14, <1>15 DEF DurationInv

\* The baseline is comparable, and none that is was finalized after it.
LEMMA FindPriorKeeps ==
  ASSUME DurationInv, FindPrior PROVE DurationInv'
  <1>1. TypeOK /\ SeenIsCreated /\ Phased /\ InHand /\ Counted /\ SameDeploymentOrLater
    BY DEF DurationInv
  <1>2. /\ pc = "prior" /\ now' = now /\ arrivals' = arrivals /\ decided' = decided
        /\ current' = current /\ k' = k /\ files' = files
        /\ regressions' = regressions /\ packsCompared' = packsCompared /\ read' = read
    BY DEF FindPrior, world, progress
  <1>3. /\ current # None /\ prev = None /\ reason = None
        /\ k = 1 /\ files = <<>> /\ regressions = <<>> /\ packsCompared = 0 /\ read = {}
    BY <1>1, <1>2 DEF Phased, progress
  <1>4. \/ pc' = "curr" /\ prev' # None /\ reason' = reason
        \/ pc' = "done" /\ prev' = None /\ reason' = "no baseline"
    BY DEF FindPrior, Return
  <1>5. PICK list \in Lists(Versions) \cup {<<>>} : prev' = LastFinalized(list)
    BY DEF FindPrior
  <1>6. /\ list \in Seq(Ids)
        /\ list # <<>> => Range(list) = {a \in Ids : arrivals[a].listed /\ arrivals[a].version \in Versions}
    <2>1. CASE list = <<>>
      BY <2>1
    <2>2. CASE list \in Lists(Versions)
      BY <2>2, ListsAll, ArrivalAssumption
    <2>3. QED
      BY <1>5, <2>1, <2>2
  <1>7. \A a \in Ids : arrivals[a].finalizedAt \in Nat /\ arrivals[a].version \in Versions
    BY <1>1, ThresholdAssumption DEF TypeOK
  <1>8. /\ prev' \in {a \in Range(list) : Comparable(a)} \cup {None}
        /\ prev' # None =>
             \A a \in Range(list) : Comparable(a) => arrivals[a].finalizedAt <= arrivals[prev'].finalizedAt
    BY <1>5, <1>6, <1>7, ArrivalAssumption, LastFinalizedIsLast
  <1>9. prev' # None =>
          /\ prev' \in Ids /\ Comparable(prev')
          /\ \A a \in Ids : arrivals[a].listed /\ Comparable(a) =>
               arrivals[a].finalizedAt <= arrivals[prev'].finalizedAt
    <2>1. list = <<>> => Range(list) = {}
      BY DEF Range
    <2>2. QED
      BY <1>6, <1>7, <1>8, <2>1
  <1>10. TypeOK'
    <2>1. prev' \in Ids \cup {None}
      BY <1>9
    <2>2. QED
      BY <1>1, <1>2, <1>3, <1>4, <2>1 DEF TypeOK
  <1>11. SeenIsCreated' /\ SameDeploymentOrLater'
    BY <1>1, <1>2 DEF SeenIsCreated, SameDeploymentOrLater
  <1>12. Phased' /\ InHand'
    BY <1>2, <1>3, <1>4 DEF Phased, InHand, progress
  <1>13. Counted'
    BY <1>1, <1>2, <1>3, <1>4 DEF Counted, PackNames
  <1>14. BaselineIsLatest'
    BY <1>2, <1>9 DEF BaselineIsLatest, Comparable
  <1>15. TellsWhatItRead'
    BY <1>2, <1>3, <1>4, NothingToTell
  <1>16. QED
    BY <1>10, <1>11, <1>12, <1>13, <1>14, <1>15 DEF DurationInv

\* A lookup that fails ends the quill before anything is read.
LEMMA LookupFailsKeeps ==
  ASSUME DurationInv, LookupFails PROVE DurationInv'
  <1>1. TypeOK /\ Phased /\ InHand /\ Counted
    BY DEF DurationInv
  <1>2. /\ pc \in {"current", "prior"} /\ pc' = "done" /\ reason' = "lookup failed"
        /\ UNCHANGED Outcome /\ arrivals' = arrivals /\ current' = current
        /\ k' = k /\ files' = files
        /\ regressions' = regressions /\ packsCompared' = packsCompared /\ read' = read
    BY DEF LookupFails, Return, world, progress, Outcome
  <1>3. k = 1 /\ files = <<>> /\ regressions = <<>> /\ packsCompared = 0 /\ read = {}
    BY <1>1, <1>2 DEF Phased, progress
  <1>4. TypeOK' /\ SeenIsCreated' /\ BaselineIsLatest' /\ SameDeploymentOrLater'
    BY <1>1, <1>2, OutcomeKept DEF TypeOK
  <1>5. Phased' /\ InHand'
    BY <1>2, <1>3 DEF Phased, InHand
  <1>6. Counted'
    BY <1>1, <1>2, <1>3 DEF Counted, PackNames
  <1>7. TellsWhatItRead'
    BY <1>2, <1>3, NothingToTell
  <1>8. QED
    BY <1>4, <1>5, <1>6, <1>7 DEF DurationInv

\* The first download leaves one file in hand.
LEMMA FetchCurrKeeps ==
  ASSUME DurationInv, FetchCurr PROVE DurationInv'
  <1>1. TypeOK /\ Phased /\ InHand /\ Counted /\ TellsWhatItRead
    BY DEF DurationInv
  <1>2. /\ pc = "curr" /\ pc' = "prev" /\ k <= Len(PackNames) /\ UNCHANGED Outcome
        /\ arrivals' = arrivals /\ decided' = decided /\ current' = current /\ prev' = prev
        /\ k' = k /\ regressions' = regressions /\ packsCompared' = packsCompared
        /\ reason' = reason /\ read' = read
    BY DEF FetchCurr, world, Outcome
  <1>3. \E f \in CurrFiles : files' = <<f>>
    BY DEF FetchCurr
  <1>4. TypeOK' /\ SeenIsCreated' /\ BaselineIsLatest' /\ SameDeploymentOrLater'
    BY <1>1, <1>2, OutcomeKept DEF TypeOK
  <1>5. Phased'
    BY <1>1, <1>2 DEF Phased
  <1>6. InHand'
    BY <1>2, <1>3 DEF InHand
  <1>7. Counted'
    BY <1>1, <1>2 DEF Counted, PackNames
  <1>8. TellsWhatItRead'
    BY <1>2 DEF TellsWhatItRead
  <1>9. QED
    BY <1>4, <1>5, <1>6, <1>7, <1>8 DEF DurationInv

\* A position added to some of those before it.
LEMMA OneMoreRead ==
  ASSUME NEW n \in Nat \ {0}, NEW R \in SUBSET (1..(n - 1))
  PROVE  /\ R \cup {n} \in SUBSET (1..n) /\ IsFiniteSet(R)
         /\ Cardinality(R) \in Nat /\ Cardinality(R) <= n - 1
         /\ Cardinality(R \cup {n}) = Cardinality(R) + 1
  <1>1. IsFiniteSet(1..(n - 1)) /\ Cardinality(1..(n - 1)) = n - 1
    <2>1. n - 1 \in Nat
      OBVIOUS
    <2>2. QED
      BY <2>1, FS_Interval
  <1>2. IsFiniteSet(R) /\ Cardinality(R) <= n - 1
    BY <1>1, FS_Subset
  <1>3. n \notin R /\ R \cup {n} \in SUBSET (1..n)
    OBVIOUS
  <1>4. Cardinality(R) \in Nat
    BY <1>2, FS_CardinalityType
  <1>5. Cardinality(R \cup {n}) = Cardinality(R) + 1
    BY <1>2, <1>3, FS_AddElement
  <1>6. QED
    BY <1>2, <1>3, <1>4, <1>5

\* The second download makes the pack one that was read.
LEMMA FetchPrevKeeps ==
  ASSUME DurationInv, FetchPrev PROVE DurationInv'
  <1>1. TypeOK /\ Phased /\ InHand /\ Counted
    BY DEF DurationInv
  <1>2. /\ pc = "prev" /\ pc' = "compare" /\ UNCHANGED Outcome
        /\ arrivals' = arrivals /\ decided' = decided /\ current' = current /\ prev' = prev
        /\ k' = k /\ regressions' = regressions /\ packsCompared' = packsCompared
        /\ reason' = reason /\ read' = read \cup {k}
    BY DEF FetchPrev, world, Outcome
  <1>3. PICK f \in CurrFiles, g \in BaseFiles : files' = <<f, g>>
    <2>1. PICK f \in CurrFiles : files = <<f>>
      BY <1>1, <1>2 DEF InHand
    <2>2. PICK g \in BaseFiles : files' = <<files[1], g>>
      BY DEF FetchPrev
    <2>3. QED
      BY <2>1, <2>2
  <1>4. TypeOK' /\ SeenIsCreated' /\ BaselineIsLatest' /\ SameDeploymentOrLater'
    BY <1>1, <1>2, OutcomeKept DEF TypeOK
  <1>5. Phased'
    BY <1>1, <1>2 DEF Phased
  <1>6. InHand'
    BY <1>2, <1>3 DEF InHand
  <1>7. Counted'
    <2>1. k \in Nat \ {0} /\ read \in SUBSET (1..(k - 1)) /\ Cardinality(read) = packsCompared
      BY <1>1, <1>2 DEF TypeOK, Counted
    <2>2. read' \subseteq 1..k /\ Cardinality(read') = packsCompared + 1 /\ k \in read'
      BY <1>2, <2>1, OneMoreRead
    <2>3. \A i \in DOMAIN regressions' : regressions'[i].pack \in {PackNames'[r] : r \in read'}
      BY <1>1, <1>2 DEF Counted, PackNames
    <2>4. current # None /\ k <= Len(PackNames)
      BY <1>1, <1>2 DEF Phased, Counted
    <2>5. k <= Len(PackNames) + 1
      BY <1>1, <2>4 DEF Counted
    <2>6. QED
      BY <1>2, <2>2, <2>3, <2>4, <2>5 DEF Counted, PackNames
  <1>8. TellsWhatItRead'
    BY <1>2 DEF TellsWhatItRead
  <1>9. QED
    BY <1>4, <1>5, <1>6, <1>7, <1>8 DEF DurationInv

\* There is a next position.
LEMMA NextPack ==
  ASSUME TypeOK, current # None, k <= Len(PackNames)
  PROVE  /\ Len(PackNames) \in Nat /\ k \in 1..Len(PackNames)
         /\ k + 1 \in Nat \ {0} /\ k + 1 <= Len(PackNames) + 1 /\ (k + 1) - 1 = k
  <1>1. current \in Ids /\ k \in Nat \ {0}
    BY DEF TypeOK
  <1>2. PackNames \in Seq(STRING)
    BY <1>1, PacksAreNames DEF PackNames
  <1>3. QED
    BY <1>1, <1>2

\* A download that fails skips the pack.
LEMMA FetchFailsKeeps ==
  ASSUME DurationInv, FetchFails PROVE DurationInv'
  <1>1. TypeOK /\ Phased /\ InHand /\ Counted
    BY DEF DurationInv
  <1>2. /\ pc \in {"curr", "prev"} /\ pc' = "curr" /\ k <= Len(PackNames) /\ UNCHANGED Outcome
        /\ arrivals' = arrivals /\ decided' = decided /\ current' = current /\ prev' = prev
        /\ k' = k + 1 /\ files' = <<>> /\ regressions' = regressions /\ packsCompared' = packsCompared
        /\ reason' = reason /\ read' = read
    BY DEF FetchFails, world, Outcome
  <1>3. /\ Len(PackNames) \in Nat /\ k \in 1..Len(PackNames)
        /\ k + 1 \in Nat \ {0} /\ k + 1 <= Len(PackNames) + 1 /\ (k + 1) - 1 = k
    BY <1>1, <1>2, NextPack DEF Phased
  <1>4. TypeOK' /\ SeenIsCreated' /\ BaselineIsLatest' /\ SameDeploymentOrLater'
    BY <1>1, <1>2, <1>3, OutcomeKept DEF TypeOK
  <1>5. Phased' /\ InHand'
    BY <1>1, <1>2 DEF Phased, InHand
  <1>6. Counted'
    <2>1. /\ read \subseteq 1..(k - 1) /\ Cardinality(read) = packsCompared
          /\ \A i \in DOMAIN regressions : regressions[i].pack \in {PackNames[r] : r \in read}
      BY <1>1, <1>2 DEF Counted
    <2>2. 1..(k - 1) \subseteq 1..k
      BY <1>3
    <2>3. PackNames' = PackNames
      BY <1>2 DEF PackNames
    <2>4. QED
      BY <1>2, <1>3, <2>1, <2>2, <2>3 DEF Counted
  <1>7. TellsWhatItRead'
    BY <1>2 DEF TellsWhatItRead
  <1>8. QED
    BY <1>4, <1>5, <1>6, <1>7 DEF DurationInv

\* The rows of the slow tests of the current file, each once.
AreSlow(rows, pack, base, curr) ==
  LET slow == {i \in DOMAIN curr : Slow(base, curr, i)}
  IN  /\ Len(rows) = Cardinality(slow)
      /\ Range(rows) = {[pack |-> pack, test |-> curr[i]] : i \in slow}

\* What a comparison adds to the regressions.
LEMMA ComparedIs ==
  ASSUME DurationInv, Compare
  PROVE  LET new == CompareDurations(PackNames[k], files[2], files[1])
         IN  /\ new \in Seq([pack : {PackNames[k]}, test : Tests])
             /\ AreSlow(new, PackNames[k], files[2], files[1])
  <1>1. pc = "compare"
    BY DEF Compare
  <1>2. PICK f \in CurrFiles, g \in BaseFiles : files = <<f, g>>
    BY <1>1 DEF DurationInv, InHand
  <1>3. /\ f \in Seq([name : STRING, ms : Nat]) /\ g \in Seq([name : STRING, ms : Nat])
        /\ files[1] = f /\ files[2] = g
    BY <1>2, FileAssumption
  <1>4. f \in Seq(Tests)
    <2>1. \A i \in DOMAIN f : f[i] \in Tests
      BY <1>2 DEF Tests, Range
    <2>2. PICK n \in Nat : n = Len(f) /\ f \in [1..n -> [name : STRING, ms : Nat]]
      BY <1>3, LenProperties
    <2>3. f \in [1..n -> Tests]
      BY <2>1, <2>2
    <2>4. QED
      BY <2>3
  <1>5. \A i \in DOMAIN f : Slow(g, f, i) <=> Regressed(PrevByName(g), f[i])
    BY <1>3, SlowIsRegressed, ThresholdAssumption
  <1>6. {i \in DOMAIN f : Slow(g, f, i)} = {i \in DOMAIN f : Regressed(PrevByName(g), f[i])}
    BY <1>5
  <1>7. PICK p : p = PackNames[k]
    OBVIOUS
  <1>8. AreRegressed(CompareDurations(p, g, f), p, g, Tests, f)
    BY <1>4, CompareIs
  <1>9. AreSlow(CompareDurations(p, g, f), p, g, f)
    BY <1>6, <1>8, Zenon DEF AreRegressed, AreSlow
  <1>10. CompareDurations(p, g, f) \in Seq([pack : {p}, test : Tests])
    BY <1>8 DEF AreRegressed
  <1>11. QED
    BY <1>3, <1>7, <1>9, <1>10
\* A comparison counts the pack, whose regressions are those of a pack that was read.
LEMMA CompareKeeps ==
  ASSUME DurationInv, Compare PROVE DurationInv'
  <1>1. TypeOK /\ Phased /\ InHand /\ Counted
    BY DEF DurationInv
  <1>2. PICK new : new = CompareDurations(PackNames[k], files[2], files[1])
    OBVIOUS
  <1>3. /\ pc = "compare" /\ pc' = "curr" /\ UNCHANGED Outcome
        /\ arrivals' = arrivals /\ decided' = decided /\ current' = current /\ prev' = prev
        /\ k' = k + 1 /\ files' = <<>> /\ regressions' = regressions \o new
        /\ packsCompared' = packsCompared + 1 /\ reason' = reason /\ read' = read
    BY <1>2 DEF Compare, world, Outcome
  <1>4. new \in Seq([pack : {PackNames[k]}, test : Tests])
    BY <1>2, ComparedIs
  <1>5. /\ Len(PackNames) \in Nat /\ k \in 1..Len(PackNames)
        /\ k + 1 \in Nat \ {0} /\ k + 1 <= Len(PackNames) + 1 /\ (k + 1) - 1 = k
    BY <1>1, <1>3, NextPack DEF Phased, Counted
  <1>6. PackNames[k] \in Packs
    <2>1. current \in Ids
      BY <1>1, <1>3 DEF Phased, TypeOK
    <2>2. QED
      BY <1>1, <1>5, <2>1, PacksAreNames DEF PackNames
  <1>7. /\ regressions' \in Seq([pack : Packs, test : Tests])
        /\ \A i \in DOMAIN regressions' :
             \/ i \in DOMAIN regressions /\ regressions'[i] = regressions[i]
             \/ regressions'[i].pack = PackNames[k]
    <2> DEFINE Row == [pack : Packs, test : Tests]
    <2>1. [pack : {PackNames[k]}, test : Tests] \subseteq Row
      BY <1>6
    <2>2. regressions \in Seq(Row)
      BY <1>1 DEF TypeOK
    <2> HIDE DEF Row
    <2>3. new \in Seq(Row) /\ Len(new) \in Nat
      <3>1. new \in Seq(Row)
        BY <1>4, <2>1, SeqOfSubset
      <3>2. QED
        BY <3>1, LenProperties
    <2>4. \A i \in 1..Len(new) : new[i].pack = PackNames[k]
      <3>1. ASSUME NEW i \in 1..Len(new) PROVE new[i] \in [pack : {PackNames[k]}, test : Tests]
        BY <1>4, ElementOfSeq
      <3>2. QED
        BY <3>1
    <2>5. Len(regressions) \in Nat /\ DOMAIN regressions = 1..Len(regressions)
      BY <2>2, LenProperties
    <2>6. /\ regressions' \in Seq(Row)
          /\ Len(regressions') = Len(regressions) + Len(new)
          /\ \A i \in 1..(Len(regressions) + Len(new)) :
               regressions'[i] = IF i <= Len(regressions) THEN regressions[i] ELSE new[i - Len(regressions)]
      BY <1>3, <2>2, <2>3, ConcatProperties
    <2>7. ASSUME NEW i \in DOMAIN regressions'
          PROVE  \/ i \in DOMAIN regressions /\ regressions'[i] = regressions[i]
                 \/ regressions'[i].pack = PackNames[k]
      <3>1. i \in 1..(Len(regressions) + Len(new))
        BY <2>6, LenProperties
      <3>2. CASE i <= Len(regressions)
        BY <2>5, <2>6, <3>1, <3>2
      <3>3. CASE i > Len(regressions)
        <4>1. i - Len(regressions) \in 1..Len(new)
          BY <2>3, <2>5, <3>1, <3>3
        <4>2. regressions'[i] = new[i - Len(regressions)]
          BY <2>5, <2>6, <3>1, <3>3
        <4>3. QED
          BY <2>4, <4>1, <4>2
      <3>4. QED
        BY <2>5, <3>1, <3>2, <3>3
    <2>8. QED
      BY <2>6, <2>7 DEF Row
  <1>8. TypeOK' /\ SeenIsCreated' /\ BaselineIsLatest' /\ SameDeploymentOrLater'
    BY <1>1, <1>3, <1>5, <1>7, OutcomeKept DEF TypeOK
  <1>9. Phased' /\ InHand'
    BY <1>1, <1>3 DEF Phased, InHand
  <1>10. Counted'
    <2>1. /\ k \in read /\ read \subseteq 1..k /\ Cardinality(read) = packsCompared + 1
          /\ \A i \in DOMAIN regressions : regressions[i].pack \in {PackNames[r] : r \in read}
      BY <1>1, <1>3 DEF Counted
    <2>2. PackNames' = PackNames
      BY <1>3 DEF PackNames
    <2>3. \A i \in DOMAIN regressions' : regressions'[i].pack \in {PackNames[r] : r \in read}
      BY <1>7, <2>1
    <2>4. QED
      BY <1>3, <1>5, <2>1, <2>2, <2>3 DEF Counted
  <1>11. TellsWhatItRead'
    BY <1>3 DEF TellsWhatItRead
  <1>12. QED
    BY <1>8, <1>9, <1>10, <1>11 DEF DurationInv

\* The verdict speaks of what was read.
LEMMA DecideKeeps ==
  ASSUME DurationInv, Decide PROVE DurationInv'
  <1>1. TypeOK /\ Phased /\ InHand /\ Counted
    BY DEF DurationInv
  <1>2. /\ pc = "curr" /\ pc' = "done" /\ UNCHANGED Outcome
        /\ arrivals' = arrivals /\ decided' = decided /\ current' = current /\ prev' = prev
        /\ k' = k /\ files' = files /\ regressions' = regressions
        /\ packsCompared' = packsCompared /\ read' = read
        /\ reason' = IF packsCompared = 0 THEN "no artifacts"
                     ELSE IF regressions = <<>> THEN "no regressions" ELSE "regressions"
    BY DEF Decide, Return, world, progress, Outcome
  <1>3. TypeOK' /\ SeenIsCreated' /\ BaselineIsLatest' /\ SameDeploymentOrLater'
    BY <1>1, <1>2, OutcomeKept DEF TypeOK
  <1>4. Phased' /\ InHand'
    BY <1>1, <1>2 DEF Phased, InHand
  <1>5. PackNames' = PackNames
    BY <1>2 DEF PackNames
  <1>6. Counted'
    BY <1>1, <1>2, <1>5 DEF Counted
  <1>7. /\ Cardinality(read) = packsCompared /\ read \in SUBSET (1..(k - 1)) /\ k \in Nat \ {0}
        /\ \A i \in DOMAIN regressions : regressions[i].pack \in {PackNames[r] : r \in read}
    BY <1>1, <1>2 DEF Counted, TypeOK
  <1>8. packsCompared = 0 <=> read = {}
    <2>1. IsFiniteSet(read)
      BY <1>7, OneMoreRead
    <2>2. QED
      BY <1>7, <2>1, FS_EmptySet
  <1>9. read = {} => regressions = <<>>
    <2>1. regressions \in Seq([pack : Packs, test : Tests])
      BY <1>1 DEF TypeOK
    <2>2. read = {} => DOMAIN regressions = {}
      BY <1>7
    <2>3. DOMAIN regressions = {} => regressions = <<>>
      BY <2>1, NoPositions
    <2>4. QED
      BY <2>2, <2>3
  <1>10. /\ reason' \in {"no regressions", "regressions"} <=> read # {}
         /\ reason' = "regressions" <=> regressions # <<>>
    BY <1>2, <1>8, <1>9
  <1>11. TellsWhatItRead'
    BY <1>2, <1>5, <1>7, <1>10 DEF TellsWhatItRead
  <1>12. QED
    BY <1>3, <1>4, <1>6, <1>11 DEF DurationInv

\* While the observer goes on, nothing was read and no baseline was chosen; it creates
\* arrivals that nobody has seen, and changes neither when one was created nor its version.
LEMMA ObserverKeeps ==
  ASSUME DurationInv, Observing, now' \in 1..MaxTime,
         arrivals' \in [Ids -> [version : Versions, phase : Phases, created : 0..MaxTime,
                                finalizedAt : 0..MaxTime, packs : PackLists \cup {<<>>},
                                listed : BOOLEAN]],
         \A a \in Ids : arrivals'[a].listed => arrivals'[a].created # Unset,
         \A a \in Ids : arrivals[a].created # Unset =>
           /\ arrivals'[a].created = arrivals[a].created /\ arrivals'[a].version = arrivals[a].version
           /\ arrivals'[a].listed => arrivals[a].listed
  PROVE  DurationInv'
  <1>1. TypeOK /\ SeenIsCreated /\ Phased /\ InHand /\ Counted /\ SameDeploymentOrLater
    BY DEF DurationInv
  <1>2. /\ pc \in {"post-deploy", "current", "prior"} /\ pc' = pc /\ decided' = decided
        /\ current' = current /\ prev' = prev /\ k' = k /\ files' = files
        /\ regressions' = regressions /\ packsCompared' = packsCompared /\ read' = read /\ reason' = reason
    BY DEF Observing, progress
  <1>3. /\ prev = None /\ reason = None
        /\ k = 1 /\ files = <<>> /\ regressions = <<>> /\ packsCompared = 0 /\ read = {}
    BY <1>1, <1>2 DEF Phased, progress
  <1>4. /\ decided # None => decided \in Ids /\ arrivals[decided].created # Unset
        /\ current # None => current \in Ids /\ arrivals[current].created # Unset
    BY <1>1 DEF TypeOK, SeenIsCreated
  <1>5. TypeOK'
    BY <1>1, <1>2 DEF TypeOK
  <1>6. SeenIsCreated'
    BY <1>1, <1>2, <1>4 DEF SeenIsCreated
  <1>7. SameDeploymentOrLater'
    BY <1>1, <1>2, <1>4 DEF SameDeploymentOrLater
  <1>8. Phased' /\ InHand'
    BY <1>1, <1>2 DEF Phased, InHand, progress
  <1>9. Counted'
    <2>1. current' # None => k' <= Len(PackNames') + 1
      <3>1. SUFFICES ASSUME current \in Ids PROVE 1 <= Len(arrivals'[current].packs) + 1
        BY <1>2, <1>3, <1>4 DEF PackNames
      <3>2. PICK list \in Seq(STRING) : list = arrivals'[current].packs
        <4>1. arrivals'[current].packs \in PackLists \cup {<<>>}
          BY <3>1
        <4>2. <<>> \in Seq(STRING)
          OBVIOUS
        <4>3. QED
          BY <4>1, <4>2, FileAssumption
      <3>3. QED
        BY <3>2
    <2>2. /\ read' \subseteq 1..(k' - 1) /\ Cardinality(read') = packsCompared'
          /\ DOMAIN regressions' = {}
      BY <1>2, <1>3, NothingRead, EmptyDomain
    <2>3. QED
      BY <1>2, <2>1, <2>2 DEF Counted
  <1>10. BaselineIsLatest' /\ TellsWhatItRead'
    BY <1>2, <1>3 DEF BaselineIsLatest, TellsWhatItRead
  <1>11. QED
    BY <1>5, <1>6, <1>7, <1>8, <1>9, <1>10 DEF DurationInv

\* A step of the observer is of that kind.
LEMMA ObserverStep ==
  ASSUME DurationInv, Observer PROVE DurationInv'
  <1> DEFINE Arrival == [version : Versions, phase : Phases, created : 0..MaxTime,
                         finalizedAt : 0..MaxTime, packs : PackLists \cup {<<>>}, listed : BOOLEAN]
  <1>1. /\ arrivals \in [Ids -> Arrival] /\ now \in 1..MaxTime
        /\ \A a \in Ids : arrivals[a].listed => arrivals[a].created # Unset
    BY DEF DurationInv, TypeOK, SeenIsCreated
  <1>2. ASSUME NEW a \in Ids, NEW v \in Versions, NEW packs \in PackLists, Deploy(a, v, packs)
        PROVE  DurationInv'
    <2>1. PICK new : new = [Unborn EXCEPT !.version = v, !.created = now, !.packs = packs, !.listed = TRUE]
      OBVIOUS
    <2>2. new \in Arrival /\ new.created # Unset
      <3>1. new = [version |-> v, phase |-> "Testing", created |-> now, finalizedAt |-> Unset,
                   packs |-> packs, listed |-> TRUE]
        BY <2>1 DEF Unborn
      <3>2. /\ now \in 0..MaxTime /\ now # 0 /\ 0 \in 0..MaxTime
            /\ "Testing" \in Phases /\ packs \in PackLists \cup {<<>>}
        BY <1>1, ThresholdAssumption DEF Phases
      <3>3. QED
        BY <3>1, <3>2 DEF Unset
    <2>3. Unborn.created = Unset
      BY DEF Unborn
    <2>4. Observing /\ arrivals[a] = Unborn /\ arrivals' = [arrivals EXCEPT ![a] = new] /\ now' = now
      BY <1>2, <2>1 DEF Deploy
    <2> HIDE DEF Arrival
    <2>5. arrivals' \in [Ids -> Arrival]
      BY <1>1, <2>2, <2>4
    <2>6. \A b \in Ids : arrivals'[b] = IF b = a THEN new ELSE arrivals[b]
      BY <1>1, <2>4
    <2>7. \A b \in Ids : arrivals'[b].listed => arrivals'[b].created # Unset
      BY <1>1, <2>2, <2>6
    <2>8. \A b \in Ids : arrivals[b].created # Unset => arrivals'[b] = arrivals[b]
      BY <2>3, <2>4, <2>6
    <2>9. QED
      BY <1>1, <2>4, <2>5, <2>7, <2>8, ObserverKeeps DEF Arrival
  <1>3. ASSUME NEW a \in Ids, NEW phase \in Outcomes, NEW at \in {now, Unset}, Finalize(a, phase, at)
        PROVE  DurationInv'
    <2>1. Observing /\ arrivals' = [arrivals EXCEPT ![a].phase = phase, ![a].finalizedAt = at] /\ now' = now
      BY <1>3 DEF Finalize
    <2>2. phase \in Phases /\ at \in 0..MaxTime
      BY <1>1, ArrivalAssumption, ThresholdAssumption DEF Phases, Unset
    <2>3. [arrivals[a] EXCEPT !.phase = phase, !.finalizedAt = at] \in Arrival
      <3>1. arrivals[a] \in Arrival
        BY <1>1
      <3>2. QED
        BY <2>2, <3>1
    <2>4. arrivals' = [arrivals EXCEPT ![a] = [arrivals[a] EXCEPT !.phase = phase, !.finalizedAt = at]]
      BY <2>1
    <2>5. arrivals' \in [Ids -> Arrival]
      <3> HIDE DEF Arrival
      <3>1. QED
        BY <1>1, <2>3, <2>4
    <2>6. \A b \in Ids : /\ arrivals'[b].created = arrivals[b].created
                         /\ arrivals'[b].version = arrivals[b].version
                         /\ arrivals'[b].listed = arrivals[b].listed
      BY <1>1, <2>4
    <2>7. QED
      BY <1>1, <2>1, <2>5, <2>6, ObserverKeeps
  <1>4. ASSUME NEW a \in Ids, Withdraw(a) PROVE DurationInv'
    <2>1. Observing /\ arrivals' = [arrivals EXCEPT ![a].listed = FALSE] /\ now' = now
      BY <1>4 DEF Withdraw
    <2>2. arrivals' \in [Ids -> Arrival]
      BY <1>1, <2>1
    <2>3. \A b \in Ids : /\ arrivals'[b].created = arrivals[b].created
                         /\ arrivals'[b].version = arrivals[b].version
                         /\ arrivals'[b].listed => arrivals[b].listed
      BY <1>1, <2>1
    <2>4. QED
      BY <1>1, <2>1, <2>2, <2>3, ObserverKeeps
  <1>5. ASSUME Tick PROVE DurationInv'
    <2>1. Observing /\ arrivals' = arrivals /\ now' \in 1..MaxTime
      BY <1>1, <1>5, ThresholdAssumption DEF Tick
    <2>2. QED
      BY <1>1, <2>1, ObserverKeeps
  <1>6. QED
    BY <1>2, <1>3, <1>4, <1>5 DEF Observer

\* A step that changes nothing.
LEMMA StutterKeeps ==
  ASSUME DurationInv, UNCHANGED vars PROVE DurationInv'
  <1>1. /\ pc' = pc /\ now' = now /\ arrivals' = arrivals /\ decided' = decided
        /\ current' = current /\ prev' = prev /\ k' = k /\ files' = files
        /\ regressions' = regressions /\ packsCompared' = packsCompared /\ reason' = reason /\ read' = read
    BY DEF vars, world, progress
  <1>2. TypeOK' /\ SeenIsCreated' /\ Phased'
    BY <1>1 DEF DurationInv, TypeOK, SeenIsCreated, Phased, progress
  <1>3. PackNames' = PackNames
    BY <1>1 DEF PackNames
  <1>4. InHand' /\ Counted'
    BY <1>1, <1>3 DEF DurationInv, InHand, Counted
  <1>5. BaselineIsLatest' /\ SameDeploymentOrLater' /\ TellsWhatItRead'
    BY <1>1, <1>3 DEF DurationInv, BaselineIsLatest, SameDeploymentOrLater, TellsWhatItRead, Comparable
  <1>6. QED
    BY <1>2, <1>4, <1>5 DEF DurationInv
-----------------------------------------------------------------------------
\* The inductive invariant of the duration quill and of the observer beside it.
THEOREM DurationInvariance == Spec => []DurationInv
  <1>1. ASSUME DurationInv, [Next]_vars PROVE DurationInv'
    <2>1. CASE PostDeploy
      BY <1>1, <2>1, PostDeployKeeps
    <2>2. CASE FindCurrent
      BY <1>1, <2>2, FindCurrentKeeps
    <2>3. CASE FindPrior
      BY <1>1, <2>3, FindPriorKeeps
    <2>4. CASE LookupFails
      BY <1>1, <2>4, LookupFailsKeeps
    <2>5. CASE FetchCurr
      BY <1>1, <2>5, FetchCurrKeeps
    <2>6. CASE FetchPrev
      BY <1>1, <2>6, FetchPrevKeeps
    <2>7. CASE FetchFails
      BY <1>1, <2>7, FetchFailsKeeps
    <2>8. CASE Compare
      BY <1>1, <2>8, CompareKeeps
    <2>9. CASE Decide
      BY <1>1, <2>9, DecideKeeps
    <2>10. CASE Observer
      BY <1>1, <2>10, ObserverStep
    <2>11. CASE UNCHANGED vars
      BY <1>1, <2>11, StutterKeeps
    <2>12. QED
      BY <1>1, <2>1, <2>2, <2>3, <2>4, <2>5, <2>6, <2>7, <2>8, <2>9, <2>10, <2>11
         DEF Next, Quill, Finished
  <1>2. QED
    BY Initially, <1>1, PTL DEF Spec

\* The durations are compared with those of the arrival of another version, tested to an
\* end, that was finalized last.
THEOREM BaselineHolds == Spec => []BaselineIsLatest
  <1>1. DurationInv => BaselineIsLatest
    BY DEF DurationInv
  <1>2. QED
    BY <1>1, DurationInvariance, PTL

\* The duration quill speaks of the deployment that the post-deploy quill decided on, as
\* long as that is there, or of a later one.
THEOREM SameDeploymentHolds == Spec => []SameDeploymentOrLater
  <1>1. DurationInv => SameDeploymentOrLater
    BY DEF DurationInv
  <1>2. QED
    BY <1>1, DurationInvariance, PTL

\* The verdict speaks of as many packs as were read, and of a regression only with a slow
\* test of one of them.
THEOREM TellsHolds == Spec => []TellsWhatItRead
  <1>1. DurationInv => TellsWhatItRead
    BY DEF DurationInv
  <1>2. QED
    BY <1>1, DurationInvariance, PTL

\* A pack adds to the regressions its slow tests, each once, and nothing else.
THEOREM FlagsHold == Spec => FlagsAreReal
  <1> DEFINE Flags ==
        pc = "compare" =>
          LET slow == {i \in DOMAIN files[1] : Slow(files[2], files[1], i)}
              new  == SubSeq(regressions', Len(regressions) + 1, Len(regressions'))
          IN  /\ Len(new) = Cardinality(slow)
              /\ Range(new) = {[pack |-> PackNames[k], test |-> files[1][i]] : i \in slow}
  <1>1. ASSUME DurationInv, [Next]_vars PROVE [Flags]_vars
    <2>1. SUFFICES ASSUME pc = "compare", ~UNCHANGED vars PROVE Flags
      OBVIOUS
    <2>2. Compare
      BY <1>1, <2>1 DEF Next, Quill, Observer, Finished, PostDeploy, FindCurrent, FindPrior,
         LookupFails, FetchCurr, FetchPrev, FetchFails, Decide, Deploy, Finalize, Withdraw, Tick, Observing
    <2>3. PICK new : new = CompareDurations(PackNames[k], files[2], files[1])
      OBVIOUS
    <2>4. regressions' = regressions \o new
      BY <2>2, <2>3 DEF Compare
    <2>5. /\ new \in Seq([pack : {PackNames[k]}, test : Tests])
          /\ AreSlow(new, PackNames[k], files[2], files[1])
      BY <1>1, <2>2, <2>3, ComparedIs
    <2>6. SubSeq(regressions', Len(regressions) + 1, Len(regressions')) = new
      <3> DEFINE Row == [pack : Packs \cup {PackNames[k]}, test : Tests]
      <3>1. regressions \in Seq([pack : Packs, test : Tests])
        BY <1>1 DEF DurationInv, TypeOK
      <3>2. [pack : Packs, test : Tests] \subseteq Row /\ [pack : {PackNames[k]}, test : Tests] \subseteq Row
        OBVIOUS
      <3> HIDE DEF Row
      <3>3. regressions \in Seq(Row) /\ new \in Seq(Row)
        BY <2>5, <3>1, <3>2, SeqOfSubset
      <3>4. QED
        BY <2>4, <3>3, TailOfConcat
    <2>7. QED
      BY <2>5, <2>6, Zenon DEF AreSlow
  <1>2. QED
    BY <1>1, DurationInvariance, PTL DEF Spec, FlagsAreReal
=============================================================================
