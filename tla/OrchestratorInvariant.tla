------------------------ MODULE OrchestratorInvariant ------------------------
(***************************************************************************)
(* The inductive invariant of the orchestrator: the safety properties, and *)
(* what each handler may rely on between two of its transactions.          *)
(***************************************************************************)
EXTENDS OrchestratorProperties

\* The audit trail of i announces that i reached state s.
Reached(i, s) == \E k \in DOMAIN trail[i] : StateAnnounced[trail[i][k].event] = s

Analysing == {"publish_detected", "start", "read_analyzing", "publish_analyzing",
              "diagnose", "complete", "fail"}
Approving == {"decide_approved", "log_intent", "mark_executed"}
Rejecting == {"decide_rejected", "save_feedback"}
Emitting == {"read_final", "publish_final"}
Snapshot == {"publish_detected", "publish_analyzing", "save_feedback", "publish_final"}

HasIncident(t) ==
  pc[t] \in Analysing \cup Approving \cup Rejecting \cup Emitting =>
    job[t].inc \in Incidents /\ state[job[t].inc] # "ABSENT"

SnapshotIsHistory(t) ==
  pc[t] \in Snapshot => Reached(job[t].inc, job[t].seen)

ChoiceStillOffered(t) ==
  pc[t] \in Approving =>
    /\ state[job[t].inc] \in {"AWAITING_APPROVAL"} \cup Terminal
    /\ job[t].rank \in RanksOf(hyps[job[t].inc])
    /\ job[t].action = Chosen(hyps[job[t].inc], job[t].rank)

VerdictIsMine(t) ==
  /\ pc[t] = "log_intent" =>
       /\ Last(trail[job[t].inc]).event = "APPROVED"
       /\ decision[job[t].inc] = [rank |-> job[t].rank, by |-> t]
  /\ pc[t] = "mark_executed" => Logged(job[t].inc, "EXECUTION_INTENT_LOGGED")
  /\ pc[t] = "save_feedback" =>
       /\ state[job[t].inc] = "REJECTED"
       /\ feedback[job[t].inc] = <<>>
       /\ decision[job[t].inc] = [rank |-> job[t].rank, by |-> t]

JobIsSound(t) ==
  /\ HasIncident(t)
  /\ SnapshotIsHistory(t)
  /\ ChoiceStillOffered(t)
  /\ VerdictIsMine(t)

StillUnopened ==
  pc[Consumer] = "create" => \A i \in Incidents : anomaly[i] # job[Consumer].anomaly

(***************************************************************************)
(* What a handler read in one transaction and keeps in local variables is  *)
(* still true when a later transaction of the same handler uses it: the    *)
(* hypothesis it is about to approve is on offer under the same rank, the  *)
(* verdict it is about to carry out is its own and not carried out yet,    *)
(* the anomaly it is about to open has no incident, the snapshot it is     *)
(* about to publish is history.                                            *)
(***************************************************************************)
StaleReadsStayValid ==
  /\ \A t \in Threads : JobIsSound(t)
  /\ \A i \in todo : state[i] = "EXPIRED"
  /\ StillUnopened

IInv ==
  /\ TypeOK
  /\ TrailIsLifecyclePath
  /\ StaleReadsStayValid
  /\ IntentIsTheApprovedAction
  /\ OneIncidentPerAnomaly
  /\ FeedbackAgreesWithDecision
  /\ ConsoleShowsOnlyHistory
=============================================================================
