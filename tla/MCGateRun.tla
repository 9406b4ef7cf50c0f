----------------------------- MODULE MCGateRun ------------------------------
(* Small instances of GateRun for TLC. *)
EXTENDS GateRun, TLC

CONSTANTS a1, a2, p1

Rel(n, v) == [name |-> n, version |-> v]

\* The layouts parseHelmfile accepts: a single document, and an environments document
\* before the list; nothing is read behind the list.
TwoServices == << <<Rel("api", "1"), Rel("web", "1")>> >>
TwoVersions == << <<Rel("api", "1"), Rel("web", "1"), Rel("api", "2")>> >>
BehindEnvironments == << <<>>, <<Rel("", "1"), Rel("api", "1")>>, Garbled >>

PostDeployOnly == {{"postDeploy"}}
IssuesOn == {{"postDeploy", "issues"}}
AnyFlags == SUBSET {"postDeploy", "duration", "dryRun", "issues"}

NoneBlocked == {{}}
ApiBlocked == {{"api"}}

Symmetry == Permutations({a1, a2})
=============================================================================
