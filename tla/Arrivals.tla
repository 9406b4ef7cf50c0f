------------------------------ MODULE Arrivals ------------------------------
(***************************************************************************)
(* What the gate reads off Arrival custom resources: phases, and the       *)
(* choice of one arrival among several that carry the same labels          *)
(* (cmd/gate-cli/main.go).  A set of arrivals is a function A from ids to  *)
(* records with at least the fields phase, created and finalizedAt.        *)
(* Timestamps are naturals; Unset stands for the empty finalizedAt string. *)
(***************************************************************************)
EXTENDS Naturals

Unset == 0

Terminal == {"Passed", "Skipped", "Failed", "Timeout"}

\* Every other phase, the empty one included, counts as in flight; one value
\* stands for Pending, Testing and "".
Phases == Terminal \cup {"Testing"}

InFlight(phase) == phase \notin Terminal

Blocking(phase) == phase \in {"Failed", "Timeout"}

Finalized(A, L) == {a \in L : A[a].finalizedAt # Unset}

\* Mutant: the arrival created last, finalized or not.
PickNewest(A, L) == {a \in L : \A b \in L : A[b].created <= A[a].created}

\* Mutant: the comparison of finalizedAt turned round.
PickEarliest(A, L) ==
  LET F == Finalized(A, L)
  IN  IF F # {}
      THEN {a \in F : \A b \in F : A[b].finalizedAt >= A[a].finalizedAt}
      ELSE {a \in L : \A b \in L : A[b].created <= A[a].created}

\* The arrivals of the list L that pickLatestArrival may return.  The order of
\* an API list is not specified, so that a tie may go to any of its members.
PickLatest(A, L) ==
  LET F == Finalized(A, L)
  IN  IF F # {}
      THEN {a \in F : \A b \in F : A[b].finalizedAt <= A[a].finalizedAt}
      ELSE {a \in L : \A b \in L : A[b].created <= A[a].created}
=============================================================================
