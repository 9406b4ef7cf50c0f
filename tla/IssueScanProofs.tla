--------------------------- MODULE IssueScanProofs --------------------------
(***************************************************************************)
(* Proofs about IssueScan, for any repository, any page size and any       *)
(* number of pages.                                                        *)
(***************************************************************************)
EXTENDS IssueScan, PagesProofs

\* The open numbers are finitely many.
LEMMA OpenIsFinite ==
  ASSUME TypeOK
  PROVE  IsFiniteSet(open) /\ open \subseteq Nat /\ \A n : Before(open, n) \in Nat
  <1>1. filed \in Nat /\ open \subseteq 1..filed
    BY PageAssumption DEF TypeOK
  <1>2. IsFiniteSet(1..filed)
    BY <1>1, FS_Interval
  <1>3. IsFiniteSet(open)
    BY <1>1, <1>2, FS_Subset
  <1>4. open \subseteq Nat
    BY <1>1
  <1>5. QED
    BY <1>3, <1>4, BeforeIsNat
-----------------------------------------------------------------------------
(* The invariant *)

\* Nothing has been read yet when the scan begins.
LEMMA InitHolds ==
  Init => ScanInv
  <1> SUFFICES ASSUME Init PROVE ScanInv
    OBVIOUS
  <1>1. TypeOK
    BY PageAssumption DEF Init, TypeOK, Numbers
  <1>2. open \subseteq born /\ born \subseteq 1..began
    BY DEF Init
  <1>3. NoneSlipped
    <2>1. (page - 1) * PageSize = 0
      <3>1. page = 1
        BY DEF Init
      <3>2. 0 * PageSize = 0
        BY PageSizeAssumption
      <3>3. QED
        BY <3>1, <3>2
    <2>2. \A m : Before(open, m) \in Nat
      BY <1>1, OpenIsFinite
    <2>3. QED
      BY <2>1, <2>2 DEF NoneSlipped
  <1>4. NoMiss /\ HitIsNewest
    BY DEF Init, NoMiss, HitIsNewest
  <1>5. QED
    BY <1>1, <1>2, <1>3, <1>4 DEF ScanInv

\* Types, and which numbers can be open at all.
LEMMA NumbersKept ==
  ASSUME ScanInv, [Next]_vars
  PROVE  /\ TypeOK'
         /\ (open \subseteq born \cup {n \in Numbers : began < n /\ n <= filed})'
         /\ (born \subseteq 1..began)'
  <1> USE PageAssumption DEF ScanInv, TypeOK, Numbers
  <1>1. CASE FetchHit
    <2>1. PICK n \in Newest(Fetched) : hit' = n
      BY <1>1 DEF FetchHit
    <2>2. n \in open
      BY DEF Newest, Fetched, Matches, OnPage
    <2>3. n \in 0..MaxNumber
      BY <2>2
    <2>4. QED
      BY <1>1, <2>1, <2>3 DEF FetchHit
  <1>2. CASE FetchShort \/ FetchMissing \/ FetchError \/ Exhausted
    BY <1>2 DEF FetchShort, FetchMissing, FetchError, Exhausted
  <1>3. CASE FetchFull
    BY <1>3 DEF FetchFull
  <1>4. CASE Open
    BY <1>4 DEF Open
  <1>5. ASSUME NEW n \in Numbers, Close(n)
        PROVE  /\ TypeOK'
               /\ (open \subseteq born \cup {k \in Numbers : began < k /\ k <= filed})'
               /\ (born \subseteq 1..began)'
    BY <1>5 DEF Close
  <1>6. CASE Finished \/ UNCHANGED vars
    BY <1>6 DEF Finished, vars
  <1>7. QED
    BY <1>1, <1>2, <1>3, <1>4, <1>5, <1>6 DEF Next, Scan

\* A gate issue of the beginning that is not on the page read stands behind that page.
LEMMA StandsBehind ==
  ASSUME ScanInv, result = "scanning", OnlyOpened, NEW m \in Matches(born)
  PROVE  /\ m \in open /\ kind[m] = "gate"
         /\ m \notin Fetched => Before(open, m) >= page * PageSize
  <1>1. m \in born /\ kind[m] = "gate"
    BY DEF Matches
  <1>2. m \in open
    BY <1>1 DEF OnlyOpened
  <1>3. Before(open, m) >= (page - 1) * PageSize
    BY DEF ScanInv, NoneSlipped
  <1>4. Before(open, m) \in Nat
    BY OpenIsFinite DEF ScanInv
  <1>5. page \in Nat \ {0}
    BY PageAssumption DEF ScanInv, TypeOK
  <1>6. ASSUME m \notin Fetched PROVE Before(open, m) >= page * PageSize
    <2>1. ~(Before(open, m) < page * PageSize)
      BY <1>1, <1>2, <1>3, <1>6 DEF Fetched, Matches, OnPage
    <2>2. page * PageSize \in Nat
      BY <1>5, PageEnds
    <2>3. QED
      BY <1>4, <2>1, <2>2
  <1>7. QED
    BY <1>1, <1>2, <1>6

\* A hit is the newest there is.
LEMMA HitStep ==
  ASSUME ScanInv, FetchHit
  PROVE  HitIsNewest'
  <1>1. PICK n \in Fetched :
          /\ \A m \in Fetched : m <= n
          /\ hit' = n
    BY DEF FetchHit, Newest
  <1>2. result = "scanning" /\ UNCHANGED <<kind, open, filed, born, began, page>>
    BY DEF FetchHit
  <1>3. n \in open /\ kind[n] = "gate" /\ Before(open, n) < page * PageSize
    BY DEF Fetched, Matches, OnPage
  <1>4. TypeOK
    BY DEF ScanInv
  <1>5. ASSUME OnlyOpened, NEW m \in Matches(born) PROVE m <= n
    <2>1. m \in open
      BY <1>2, <1>5, StandsBehind
    <2>2. CASE m \in Fetched
      BY <1>1, <2>2
    <2>3. CASE m \notin Fetched
      <3>1. Before(open, m) >= page * PageSize
        BY <1>2, <1>5, <2>3, StandsBehind
      <3>2. Before(open, m) \in Nat /\ Before(open, n) \in Nat /\ m \in Nat /\ n \in Nat
        BY <1>3, <1>4, <2>1, OpenIsFinite
      <3>3. page * PageSize \in Nat
        BY <1>4, PageAssumption, PageEnds DEF TypeOK
      <3>4. ~(n < m)
        <4>1. SUFFICES ASSUME n < m PROVE FALSE
          OBVIOUS
        <4>2. Before(open, m) < Before(open, n)
          BY <1>3, <1>4, <2>1, <4>1, OpenIsFinite, NewerIsBefore
        <4>3. QED
          BY <1>3, <3>1, <3>2, <3>3, <4>2
      <3>5. QED
        BY <3>2, <3>4
    <2>4. QED
      BY <2>2, <2>3
  <1>6. Matches(born)' = Matches(born) /\ (OnlyOpened' <=> OnlyOpened)
    BY <1>2 DEF Matches, OnlyOpened
  <1>7. kind'[hit'] = "gate"
    BY <1>1, <1>2, <1>3
  <1>8. OnlyOpened' => \A m \in Matches(born)' : m <= hit'
    BY <1>1, <1>5, <1>6
  <1>9. QED
    BY <1>7, <1>8 DEF HitIsNewest

\* Behind a short page there is nothing.
LEMMA ShortStep ==
  ASSUME ScanInv, FetchShort
  PROVE  NoMiss'
  <1>1. /\ result = "scanning" /\ Fetched = {}
        /\ Short(open, page)
        /\ UNCHANGED <<kind, open, filed, born, began, page>>
    BY DEF FetchShort
  <1>2. TypeOK /\ page \in Nat \ {0}
    BY PageAssumption DEF ScanInv, TypeOK
  <1>3. ASSUME OnlyOpened, NEW m \in Matches(born) PROVE FALSE
    <2>1. m \in open /\ Before(open, m) >= page * PageSize
      BY <1>1, <1>3, StandsBehind
    <2>2. ~Short(open, page)
      BY <1>2, <2>1, OpenIsFinite, PageIsFull
    <2>3. QED
      BY <1>1, <2>2
  <1>4. Matches(born)' = Matches(born) /\ (OnlyOpened' <=> OnlyOpened)
    BY <1>1 DEF Matches, OnlyOpened
  <1>5. QED
    BY <1>3, <1>4 DEF NoMiss

\* What was not on a full page stands behind it.
LEMMA FullStep ==
  ASSUME ScanInv, FetchFull
  PROVE  NoneSlipped'
  <1>1. /\ result = "scanning" /\ Fetched = {} /\ page' = page + 1
        /\ UNCHANGED <<kind, open, filed, born, began, result>>
    BY DEF FetchFull
  <1>2. page' - 1 = page
    BY <1>1, PageAssumption DEF ScanInv, TypeOK
  <1>3. ASSUME OnlyOpened, NEW m \in Matches(born) PROVE Before(open, m) >= page * PageSize
    BY <1>1, <1>3, StandsBehind
  <1>4. Matches(born)' = Matches(born) /\ (OnlyOpened' <=> OnlyOpened)
    BY <1>1 DEF Matches, OnlyOpened
  <1>5. \A m : Before(open, m)' = Before(open, m)
    BY <1>1 DEF Before
  <1>6. QED
    BY <1>2, <1>3, <1>4, <1>5 DEF NoneSlipped

\* A new issue moves the others towards later pages.
LEMMA OpenStep ==
  ASSUME ScanInv, Open
  PROVE  NoneSlipped'
  <1>1. /\ result = "scanning" /\ filed' = filed + 1 /\ open' = open \cup {filed + 1}
        /\ UNCHANGED <<kind, born, began, page, result>>
    BY DEF Open
  <1>2. TypeOK /\ filed \in Nat /\ began \in Nat /\ began <= filed /\ born \subseteq 1..began
    BY PageAssumption DEF ScanInv, TypeOK
  <1>3. ASSUME OnlyOpened' PROVE OnlyOpened
    <2>1. open \cup {filed + 1}
            = born \cup {n \in Numbers : began < n /\ n <= filed + 1}
      BY <1>1, <1>3 DEF OnlyOpened, Numbers
    <2>2. filed + 1 \notin born /\ filed + 1 \notin {n \in Numbers : began < n /\ n <= filed}
      BY <1>2
    <2>3. born \cup {n \in Numbers : began < n /\ n <= filed} \subseteq open
      BY <1>2, <2>1, <2>2 DEF Numbers
    <2>4. QED
      BY <2>3 DEF ScanInv, OnlyOpened
  <1>4. ASSUME NEW m
        PROVE  /\ Before(open, m) <= Before(open, m)'
               /\ Before(open, m) \in Nat /\ Before(open, m)' \in Nat
    <2>1. IsFiniteSet(open') /\ open' \subseteq Nat /\ open \subseteq open'
      BY <1>1, <1>2, OpenIsFinite, FS_AddElement
    <2>2. Before(open, m) <= Before(open', m) /\ Before(open', m) \in Nat
      BY <2>1, BeforeGrows, BeforeIsNat
    <2>3. Before(open, m)' = Before(open', m)
      BY DEF Before
    <2>4. QED
      BY <1>2, <2>2, <2>3, OpenIsFinite
  <1>5. (page - 1) * PageSize \in Nat
    BY <1>2, PageAssumption, PageEnds DEF TypeOK
  <1>6. Matches(born)' = Matches(born)
    BY <1>1 DEF Matches
  <1>7. ASSUME OnlyOpened', NEW m \in Matches(born)
        PROVE  Before(open, m)' >= (page - 1) * PageSize
    <2>1. Before(open, m) >= (page - 1) * PageSize
      BY <1>1, <1>3, <1>7 DEF ScanInv, NoneSlipped
    <2>2. QED
      BY <1>4, <1>5, <2>1
  <1>8. QED
    BY <1>1, <1>6, <1>7 DEF NoneSlipped

\* After an issue is closed nothing is promised.
LEMMA CloseStep ==
  ASSUME ScanInv, NEW n \in Numbers, Close(n)
  PROVE  ~OnlyOpened'
  <1>1. n \in open /\ open' = open \ {n} /\ UNCHANGED <<filed, born, began>>
    BY DEF Close
  <1>2. n \in born \cup {k \in Numbers : began < k /\ k <= filed}
    BY <1>1 DEF ScanInv
  <1>3. QED
    BY <1>1, <1>2 DEF OnlyOpened

\* Every step keeps the invariant.
LEMMA StepKeeps ==
  ScanInv /\ [Next]_vars => ScanInv'
  <1> SUFFICES ASSUME ScanInv, [Next]_vars PROVE (NoneSlipped /\ NoMiss /\ HitIsNewest)'
    BY NumbersKept DEF ScanInv
  <1>1. CASE FetchHit
    <2>1. result' = "found"
      BY <1>1 DEF FetchHit
    <2>2. QED
      BY <1>1, <2>1, HitStep DEF NoneSlipped, NoMiss
  <1>2. CASE FetchShort
    <2>1. result' = "none"
      BY <1>2 DEF FetchShort
    <2>2. QED
      BY <1>2, <2>1, ShortStep DEF NoneSlipped, HitIsNewest
  <1>3. CASE FetchFull
    <2>1. result' = "scanning"
      BY <1>3 DEF FetchFull
    <2>2. QED
      BY <1>3, <2>1, FullStep DEF NoMiss, HitIsNewest
  <1>4. CASE FetchMissing \/ FetchError \/ Exhausted
    <2>1. result' \in {"missing", "error", "exhausted"}
      BY <1>4 DEF FetchMissing, FetchError, Exhausted
    <2>2. QED
      BY <2>1 DEF NoneSlipped, NoMiss, HitIsNewest
  <1>5. CASE Open
    <2>1. result' = "scanning"
      BY <1>5 DEF Open
    <2>2. QED
      BY <1>5, <2>1, OpenStep DEF NoMiss, HitIsNewest
  <1>6. ASSUME NEW n \in Numbers, Close(n) PROVE (NoneSlipped /\ NoMiss /\ HitIsNewest)'
    <2>1. result' = "scanning"
      BY <1>6 DEF Close
    <2>2. QED
      BY <1>6, <2>1, CloseStep DEF NoneSlipped, NoMiss, HitIsNewest
  <1>7. CASE Finished \/ UNCHANGED vars
    <2>1. UNCHANGED vars
      BY <1>7 DEF Finished
    <2>2. QED
      BY <2>1 DEF vars, ScanInv, NoneSlipped, NoMiss, HitIsNewest, OnlyOpened, Before, Matches
  <1>8. QED
    BY <1>1, <1>2, <1>3, <1>4, <1>5, <1>6, <1>7 DEF Next, Scan

\* The invariant holds whatever is opened and closed between the requests.
THEOREM ScanInvariance == Spec => []ScanInv
  <1>1. QED
    BY InitHolds, StepKeeps, PTL DEF Spec

\* "No issue" is true of the beginning of the scan while issues are only opened, for
\* any number of pages: the page arithmetic of findOpenIssue loses none.
THEOREM NoMissHolds == Spec => []NoMiss
  <1>1. ScanInv => NoMiss
    BY DEF ScanInv
  <1>2. QED
    BY <1>1, ScanInvariance, PTL

\* What is found is the newest gate issue.
THEOREM HitHolds == Spec => []HitIsNewest
  <1>1. ScanInv => HitIsNewest
    BY DEF ScanInv
  <1>2. QED
    BY <1>1, ScanInvariance, PTL

\* The scan gives up only on a repository that fills every page it may read.
THEOREM FullHolds == Spec => GivesUpOnlyWhenFull
  <1>1. ASSUME ScanInv, [Next]_vars
        PROVE  [page' > MaxPages /\ page <= MaxPages
                  => Cardinality(open) >= MaxPages * PageSize]_vars
    <2> SUFFICES ASSUME page' > MaxPages, page <= MaxPages
                 PROVE  Cardinality(open) >= MaxPages * PageSize
      OBVIOUS
    <2>1. TypeOK /\ page \in Nat \ {0} /\ MaxPages \in Nat
      BY <1>1, PageAssumption DEF ScanInv, TypeOK
    <2>2. page' # page
      BY <2>1
    <2>3. FetchFull
      BY <1>1, <2>2 DEF Next, Scan, FetchHit, FetchShort, FetchMissing, FetchError,
           Exhausted, Open, Close, Finished, vars
    <2>4. page = MaxPages /\ ~Short(open, page)
      BY <2>1, <2>3 DEF FetchFull
    <2>5. QED
      BY <2>1, <2>4, OpenIsFinite, PagesAreFull
  <1>2. QED
    BY <1>1, ScanInvariance, PTL DEF Spec, GivesUpOnlyWhenFull
=============================================================================
