------------------------- MODULE MCAnomalyDetector -------------------------
(***************************************************************************)
(* Instances of the detector: two services of one site, or of two.         *)
(***************************************************************************)
EXTENDS AnomalyDetectorInvariant, TLC

CONSTANTS catalogue, carts, shop, stream

OneSite == [s \in Services |-> shop]
TwoSites == (catalogue :> shop) @@ (carts :> stream)
=============================================================================
