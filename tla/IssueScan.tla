------------------------------ MODULE IssueScan -----------------------------
(***************************************************************************)
(* findOpenIssue of cmd/gate-cli/issues.go: one request after another for  *)
(* the pages of a repository's open issues, while issues and pull requests *)
(* are opened and closed between the requests.                             *)
(***************************************************************************)
EXTENDS Pages

CONSTANTS
  MaxPages,   \* maxIssuePages
  MaxNumber,  \* bound: issues and pull requests ever in the repository
  Moves,      \* what happens to the repository: a subset of {"open", "close"}
  Faults      \* what the API does: a subset of {"error", "missing"}

ASSUME PageAssumption ==
  MaxPages \in Nat \ {0} /\ MaxNumber \in Nat

VARIABLES
  kind,    \* what each number is: a gate issue of the service, a pull request, another
  open,    \* the numbers that are open
  filed,   \* the numbers 1..filed have been given out
  born,    \* history: the numbers that were open when the scan began
  began,   \* history: filed at that time
  page,    \* the page to request next
  result,  \* "scanning", or how the scan ended
  hit      \* the number found

vars == <<kind, open, filed, born, began, page, result, hit>>
-----------------------------------------------------------------------------
Numbers == 1..MaxNumber

\* Mutant: pull requests are not told apart.
MatchesWithPulls(S) == {n \in S : kind[n] # "other"}

\* Not a pull request, and the title starts with the prefix.
Matches(S) == {n \in S : kind[n] = "gate"}

\* The matches on the page that is asked for.
Fetched == Matches(OnPage(open, page))

Init ==
  /\ kind \in [Numbers -> {"gate", "pull", "other"}]
  /\ open \in SUBSET Numbers
  /\ filed \in 0..MaxNumber
  /\ open \subseteq 1..filed
  /\ born = open
  /\ began = filed
  /\ page = 1
  /\ result = "scanning"
  /\ hit = 0

\* The first match on the page is returned.
FetchHit ==
  /\ result = "scanning" /\ page <= MaxPages
  /\ \E n \in Newest(Fetched) : hit' = n
  /\ result' = "found"
  /\ UNCHANGED <<kind, open, filed, born, began, page>>

\* Mutant: only one page is read.
FetchOnePage ==
  /\ result = "scanning" /\ page <= MaxPages
  /\ Fetched = {}
  /\ result' = "none"
  /\ UNCHANGED <<kind, open, filed, born, began, page, hit>>

\* A short page is the last one.
FetchShort ==
  /\ result = "scanning" /\ page <= MaxPages
  /\ Fetched = {}
  /\ Short(open, page)
  /\ result' = "none"
  /\ UNCHANGED <<kind, open, filed, born, began, page, hit>>

\* Mutant: the pages are not bounded.
FetchFullUnbounded ==
  /\ result = "scanning"
  /\ Fetched = {}
  /\ page' = page + 1
  /\ UNCHANGED <<kind, open, filed, born, began, result, hit>>

\* Mutant: a short page does not end the scan.
FetchFullAlways ==
  /\ result = "scanning" /\ page <= MaxPages
  /\ Fetched = {}
  /\ page' = page + 1
  /\ UNCHANGED <<kind, open, filed, born, began, result, hit>>

FetchFull ==
  /\ result = "scanning" /\ page <= MaxPages
  /\ Fetched = {}
  /\ ~Short(open, page)
  /\ page' = page + 1
  /\ UNCHANGED <<kind, open, filed, born, began, result, hit>>

\* 404 and 422 are read as a repository without the issue: the caller cannot tell
\* this end of the scan from "none".
FetchMissing ==
  /\ result = "scanning" /\ page <= MaxPages
  /\ "missing" \in Faults
  /\ result' = "missing"
  /\ UNCHANGED <<kind, open, filed, born, began, page, hit>>

FetchError ==
  /\ result = "scanning" /\ page <= MaxPages
  /\ "error" \in Faults
  /\ result' = "error"
  /\ UNCHANGED <<kind, open, filed, born, began, page, hit>>

\* The bounded scan is used up.
Exhausted ==
  /\ result = "scanning" /\ page > MaxPages
  /\ result' = "exhausted"
  /\ UNCHANGED <<kind, open, filed, born, began, page, hit>>

Open ==
  /\ "open" \in Moves /\ result = "scanning" /\ filed < MaxNumber
  /\ filed' = filed + 1
  /\ open' = open \cup {filed'}
  /\ UNCHANGED <<kind, born, began, page, result, hit>>

Close(n) ==
  /\ "close" \in Moves /\ result = "scanning"
  /\ n \in open
  /\ open' = open \ {n}
  /\ UNCHANGED <<kind, filed, born, began, page, result, hit>>

Finished == result # "scanning" /\ UNCHANGED vars

Scan == FetchHit \/ FetchShort \/ FetchFull \/ FetchMissing \/ FetchError \/ Exhausted
Next == Scan \/ Open \/ (\E n \in Numbers : Close(n)) \/ Finished

Spec == Init /\ [][Next]_vars
-----------------------------------------------------------------------------
\* The values of the state.
TypeOK ==
  /\ kind \in [Numbers -> {"gate", "pull", "other"}]
  /\ filed \in 0..MaxNumber
  /\ open \subseteq 1..filed
  /\ born \subseteq 1..filed
  /\ page \in 1..(MaxPages + 1)
  /\ began \in 0..filed
  /\ result \in {"scanning", "none", "missing", "found", "exhausted", "error"}
  /\ hit \in 0..MaxNumber

\* Nothing has been closed since the scan began.
OnlyOpened == open = born \cup {n \in Numbers : began < n /\ n <= filed}

\* The scan misses nothing while issues are only opened: "no issue" means that no
\* gate issue was open when it began, however the new ones shift the pages.
NoMiss == OnlyOpened /\ result = "none" => Matches(born) = {}

\* What is found is a gate issue, and none of those open when the scan began is newer
\* unless issues were closed meanwhile: of two the newer is preferred.
HitIsNewest ==
  result = "found" =>
    /\ kind[hit] = "gate"
    /\ OnlyOpened => \A m \in Matches(born) : m <= hit

\* The scan gives up only on a repository that fills every page it may read, even if
\* issues are closed on the way.
GivesUpOnlyWhenFull ==
  [][page' > MaxPages /\ page <= MaxPages => Cardinality(open) >= MaxPages * PageSize]_vars
-----------------------------------------------------------------------------
(* Why: the inductive invariant *)

\* While issues are only opened, those open when the scan began only move towards later
\* pages: none that matches has slipped behind the scan.
NoneSlipped ==
  result = "scanning" /\ OnlyOpened =>
    \A m \in Matches(born) : Before(open, m) >= (page - 1) * PageSize

\* The invariant that the proofs go by.
ScanInv ==
  /\ TypeOK
  /\ open \subseteq born \cup {n \in Numbers : began < n /\ n <= filed}
  /\ born \subseteq 1..began
  /\ NoneSlipped /\ NoMiss /\ HitIsNewest
=============================================================================
