--------------------------- MODULE MCIssueLifecycle -------------------------
(* Small instances of IssueLifecycle for TLC. *)
EXTENDS IssueLifecycle, TLC

CONSTANTS gcp, az, legacy, g1, g2, m1, m2, m3, h1, h2

OnePerCluster == (g1 :> gcp) @@ (g2 :> az)
OnlyGcp == (g1 :> gcp)
BothOnGcp == (g1 :> gcp) @@ (g2 :> gcp)

\* The same reason twice, with other failed tests, and another reason.
TwoHeadlines == (m1 :> h1) @@ (m2 :> h1) @@ (m3 :> h2)
=============================================================================
