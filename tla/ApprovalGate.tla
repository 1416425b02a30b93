---------------------------- MODULE ApprovalGate ----------------------------
(***************************************************************************)
(* What the orchestrator promises its operators, without threads, queues   *)
(* or transactions: an incident passes a human gate at most once, and the  *)
(* executor is handed exactly the action a human granted, at most once.    *)
(* (docs/phase-m4-orchestration.md, "The incident lifecycle".)             *)
(***************************************************************************)
EXTENDS Naturals, Sequences

CONSTANTS Incidents, Menus, Actions, None

VARIABLES
  stage,    \* where each incident is in its lifecycle
  menu,     \* the ranked hypotheses offered to the human
  granted,  \* the action the human approved, None before that
  handed    \* the action the executor was handed, None before that

gate == <<stage, menu, granted, handed>>

Init ==
  /\ stage = [i \in Incidents |-> "ABSENT"]
  /\ menu = [i \in Incidents |-> <<>>]
  /\ granted = [i \in Incidents |-> None]
  /\ handed = [i \in Incidents |-> None]

Move(i, from, to) == stage[i] \in from /\ stage' = [stage EXCEPT ![i] = to]

Detect(i) == Move(i, {"ABSENT"}, "DETECTED") /\ UNCHANGED <<menu, granted, handed>>

Analyze(i) ==
  /\ Move(i, {"DETECTED", "ANALYSIS_FAILED"}, "ANALYZING")
  /\ UNCHANGED <<menu, granted, handed>>

GiveUp(i) ==
  /\ Move(i, {"ANALYZING"}, "ANALYSIS_FAILED")
  /\ UNCHANGED <<menu, granted, handed>>

Offer(i) ==
  /\ Move(i, {"ANALYZING"}, "AWAITING_APPROVAL")
  /\ \E m \in Menus : menu' = [menu EXCEPT ![i] = m]
  /\ UNCHANGED <<granted, handed>>

\* The human picks from the menu as it is at this moment.
Grant(i) ==
  /\ Move(i, {"AWAITING_APPROVAL"}, "APPROVED")
  /\ \E k \in DOMAIN menu[i] : granted' = [granted EXCEPT ![i] = menu[i][k].action]
  /\ UNCHANGED <<menu, handed>>

Refuse(i) ==
  /\ Move(i, {"AWAITING_APPROVAL"}, "REJECTED")
  /\ UNCHANGED <<menu, granted, handed>>

\* The deadlines of several incidents may be found past together.
Expire(S) ==
  /\ \A i \in S : stage[i] = "AWAITING_APPROVAL"
  /\ stage' = [i \in Incidents |-> IF i \in S THEN "EXPIRED" ELSE stage[i]]
  /\ UNCHANGED <<menu, granted, handed>>

HandOver(i) ==
  /\ stage[i] = "APPROVED"
  /\ handed[i] = None
  /\ handed' = [handed EXCEPT ![i] = granted[i]]
  /\ UNCHANGED <<stage, menu, granted>>

Next ==
  \/ \E i \in Incidents :
       \/ Detect(i) \/ Analyze(i) \/ GiveUp(i) \/ Offer(i)
       \/ Grant(i) \/ Refuse(i) \/ HandOver(i)
  \/ \E S \in SUBSET Incidents : Expire(S)

Spec == Init /\ [][Next]_gate
=============================================================================
