--------------------------- MODULE MCOrchestrator ---------------------------
(* Constants for TLC: small instances of the orchestrator.                 *)
EXTENDS OrchestratorInvariant, TLC

CONSTANTS rollback, restart, noAction

H(r, a) == [rank |-> r, action |-> a]

\* Two analyses that rank different actions first, one of them shorter.
MCActions == {rollback, restart, noAction}
MCAnswers == {<<H(1, rollback), H(2, restart)>>, <<H(1, noAction)>>}
MCOneAnswer == {<<H(1, rollback)>>}

NoFaults == [k \in FaultKinds |-> 0]
OneDatabaseFailure == [NoFaults EXCEPT !.db = 1]
OneEscape == [NoFaults EXCEPT !.escape = 1]
EveryFault == [k \in FaultKinds |-> 1]

RequestSymmetry == Permutations(Requests)
=============================================================================
