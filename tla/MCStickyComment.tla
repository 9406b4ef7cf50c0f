--------------------------- MODULE MCStickyComment --------------------------
(* Small instances of StickyComment for TLC. *)
EXTENDS StickyComment, TLC

CONSTANTS gcp, az, g1, g2

OnePerCluster == (g1 :> gcp) @@ (g2 :> az)
OnlyGcp == (g1 :> gcp)
=============================================================================
