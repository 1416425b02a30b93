-------------------------- MODULE MCDriftDetector --------------------------
(***************************************************************************)
(* An instance of the drift detector with two deploys, the second of which *)
(* is recorded before, after or instead of the first.                      *)
(***************************************************************************)
EXTENDS DriftDetector, TLC

CONSTANTS dep1, dep2

TwoDeploys == (dep1 :> 2) @@ (dep2 :> 5)
=============================================================================
