---------------------------- MODULE BlockingIssue ---------------------------
(***************************************************************************)
(* What the issue lifecycle promises to the owners of a service: per       *)
(* cluster one flag, which a report raises with the headline of its news   *)
(* or takes down, at its end; a report that claims success has left the    *)
(* flag as its verdict wants it.  A report first looks whether a flag is   *)
(* up, and may overlook it: the cluster is then in doubt, other flags may  *)
(* stay up beside the one that is wanted, and the doubt ends with a look   *)
(* when none is up.                                                        *)
(***************************************************************************)
EXTENDS Naturals

CONSTANTS Clusters, News, Headline, Pass, Nothing

VARIABLES
  flags,    \* what each cluster's flags say
  report,   \* the verdict each cluster is reporting, Nothing between reports
  last,     \* the verdict each cluster reported last
  told,     \* whether that report claimed success
  doubt     \* the clusters with a flag that was overlooked

vars == <<flags, report, last, told, doubt>>

\* What is up after the verdict v is reported.
Wanted(v) == IF v = Pass THEN {} ELSE {Headline[v]}

Init ==
  /\ flags \in [Clusters -> {{}} \cup {{Headline[n]} : n \in News}]
  /\ report = [c \in Clusters |-> Nothing]
  /\ last = [c \in Clusters |-> Pass]
  /\ told = [c \in Clusters |-> FALSE]
  /\ doubt = {}

Report(c, v) ==
  /\ report[c] = Nothing
  /\ report' = [report EXCEPT ![c] = v]
  /\ last' = [last EXCEPT ![c] = v]
  /\ told' = [told EXCEPT ![c] = FALSE]
  /\ UNCHANGED <<flags, doubt>>

\* A look shows what is up, or overlooks it.
Looked(c) ==
  \/ UNCHANGED doubt
  \/ flags[c] = {} /\ doubt' = doubt \ {c}
  \/ flags[c] # {} /\ doubt' = doubt \cup {c}

Look(c) ==
  /\ report[c] # Nothing
  /\ Looked(c)
  /\ UNCHANGED <<flags, report, last, told>>

\* Without a doubt the wanted flag is the only one.
Raised(c) ==
  \E up \in SUBSET (flags[c] \cup Wanted(report[c])) :
    /\ Wanted(report[c]) \subseteq up
    /\ c \notin doubt' => up = Wanted(report[c])
    /\ flags' = [flags EXCEPT ![c] = up]

Succeed(c) ==
  /\ report[c] # Nothing
  /\ Looked(c) /\ Raised(c)
  /\ report' = [report EXCEPT ![c] = Nothing]
  /\ told' = [told EXCEPT ![c] = TRUE]
  /\ UNCHANGED last

\* Best effort: the flag may have been raised or taken down all the same.
GiveUp(c) ==
  /\ report[c] # Nothing
  /\ UNCHANGED doubt
  /\ UNCHANGED flags \/ Raised(c)
  /\ report' = [report EXCEPT ![c] = Nothing]
  /\ UNCHANGED <<last, told>>

Next ==
  \E c \in Clusters :
    \/ \E v \in News \cup {Pass} : Report(c, v)
    \/ Look(c) \/ Succeed(c) \/ GiveUp(c)

Spec == Init /\ [][Next]_vars
=============================================================================
