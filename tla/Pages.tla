-------------------------------- MODULE Pages -------------------------------
(***************************************************************************)
(* The list of open issues that findOpenIssue of cmd/gate-cli/issues.go    *)
(* reads: GitHub serves it newest first, a page at a time, as it is when   *)
(* the page is asked for.  So a page is a window over the numbers that are *)
(* open at that moment.                                                    *)
(***************************************************************************)
EXTENDS Naturals, FiniteSets

CONSTANT PageSize  \* listIssuesPageSize

ASSUME PageSizeAssumption == PageSize \in Nat \ {0}
-----------------------------------------------------------------------------
\* How many the list shows before n.
Before(list, n) == Cardinality({m \in list : m > n})

OnPage(list, p) ==
  {n \in list : (p - 1) * PageSize <= Before(list, n) /\ Before(list, n) < p * PageSize}

\* A page with room left is the last one.
Short(list, p) == Cardinality(OnPage(list, p)) < PageSize

\* The first in the list of those in S.
Newest(S) == {n \in S : \A m \in S : m <= n}
=============================================================================
