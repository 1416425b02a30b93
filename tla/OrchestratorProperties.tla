----------------------- MODULE OrchestratorProperties -----------------------
(***************************************************************************)
(* What the orchestrator promises, whatever its threads interleave.        *)
(***************************************************************************)
EXTENDS Orchestrator

\* The lifecycle state an audit entry announces.
StateAnnounced ==
  [INCIDENT_DETECTED |-> "DETECTED", ANALYSIS_STARTED |-> "ANALYZING",
   ANALYSIS_COMPLETE |-> "AWAITING_APPROVAL", ANALYSIS_FAILED |-> "ANALYSIS_FAILED",
   MORE_INFO_REQUESTED |-> "AWAITING_APPROVAL", APPROVED |-> "APPROVED",
   REJECTED |-> "REJECTED", EXPIRED |-> "EXPIRED",
   EXECUTION_INTENT_LOGGED |-> "APPROVED"]

\* Which entry may follow which in one incident's audit trail.
Successors ==
  [INCIDENT_DETECTED |-> {"ANALYSIS_STARTED"},
   ANALYSIS_STARTED |-> {"ANALYSIS_COMPLETE", "ANALYSIS_FAILED"},
   ANALYSIS_FAILED |-> {"ANALYSIS_STARTED"},
   ANALYSIS_COMPLETE |-> {"MORE_INFO_REQUESTED", "APPROVED", "REJECTED", "EXPIRED"},
   MORE_INFO_REQUESTED |-> {"MORE_INFO_REQUESTED", "APPROVED", "REJECTED", "EXPIRED"},
   APPROVED |-> {"EXECUTION_INTENT_LOGGED"},
   REJECTED |-> {}, EXPIRED |-> {}, EXECUTION_INTENT_LOGGED |-> {}]

Last(s) == s[Len(s)]
Logged(i, e) == \E k \in DOMAIN trail[i] : trail[i][k].event = e

-----------------------------------------------------------------------------
(***************************************************************************)
(* The audit trail tells the story of the incidents table: every trail is  *)
(* a path of the lifecycle from detection on, and the row is in the state  *)
(* its last entry announces.  (db.py: "the audit trail can never show a    *)
(* decision the incidents table does not also have, or vice versa".)  At   *)
(* stake: racing analyses, approvals, rejections and sweeps, of which all  *)
(* but one must leave neither a row change nor an entry.                   *)
(***************************************************************************)
TrailIsLifecyclePath ==
  \A i \in Incidents :
    /\ trail[i] = <<>> <=> state[i] = "ABSENT"
    /\ trail[i] # <<>> =>
         /\ trail[i][1].event = "INCIDENT_DETECTED"
         /\ state[i] = StateAnnounced[Last(trail[i]).event]
    /\ \A k \in 1..(Len(trail[i]) - 1) :
         trail[i][k + 1].event \in Successors[trail[i][k].event]

(***************************************************************************)
(* An execution intent names the hypothesis the human approved: the rank   *)
(* of the recorded decision, and the action the row's stored hypotheses    *)
(* give that rank - although the handler read the hypotheses before the    *)
(* decision and logs the intent in a transaction after it.  The row says   *)
(* execution_logged only once such an intent is in the audit log.          *)
(***************************************************************************)
IntentIsTheApprovedAction ==
  \A i \in Incidents :
    /\ \A k \in DOMAIN trail[i] :
         trail[i][k].event = "EXECUTION_INTENT_LOGGED" =>
           /\ decision[i] # None
           /\ trail[i][k].rank = decision[i].rank
           /\ decision[i].rank \in RanksOf(hyps[i])
           /\ trail[i][k].action = Chosen(hyps[i], decision[i].rank)
    /\ executed[i] => Logged(i, "EXECUTION_INTENT_LOGGED")

(***************************************************************************)
(* A redelivered anomaly - a producer retry, or an offset not committed    *)
(* before a crash or a reconnect - never opens a second incident           *)
(* (handle_anomaly: "Idempotent").  The table has no unique constraint on  *)
(* anomaly_id: this rests on the lookup and on there being one consumer.   *)
(***************************************************************************)
OneIncidentPerAnomaly ==
  \A i, j \in Incidents : anomaly[i] # None /\ anomaly[i] = anomaly[j] => i = j

(***************************************************************************)
(* rejection_feedback holds at most one row per incident, only for a       *)
(* rejected one, and it agrees with the decision in the incidents table -  *)
(* although it is written in a later transaction than the decision.        *)
(***************************************************************************)
FeedbackAgreesWithDecision ==
  \A i \in Incidents :
    /\ Len(feedback[i]) <= 1
    /\ feedback[i] # <<>> =>
         /\ state[i] = "REJECTED"
         /\ feedback[i][1] = decision[i]

(***************************************************************************)
(* The live feed never runs ahead of the database: what the console shows  *)
(* for an incident is a state the audit trail says it has reached.  (It    *)
(* may lag, and for good: see the README.)                                 *)
(***************************************************************************)
ConsoleShowsOnlyHistory ==
  \A i \in Incidents :
    console[i] # "ABSENT" =>
      \E k \in DOMAIN trail[i] : StateAnnounced[trail[i][k].event] = console[i]

-----------------------------------------------------------------------------
(***************************************************************************)
(* A decided or expired incident is settled: no later step of any thread   *)
(* changes its state, its decision or the hypotheses it was taken on.      *)
(***************************************************************************)
VerdictIsFinal ==
  [][\A i \in Incidents : state[i] \in Terminal =>
       /\ state'[i] = state[i]
       /\ decision'[i] = decision[i]
       /\ hyps'[i] = hyps[i]]_vars

(***************************************************************************)
(* While an incident waits for its human, the hypotheses on the approval   *)
(* screen are not replaced under the approver's eyes, and it leaves that   *)
(* state only for a verdict: no late or repeated analysis takes it back.   *)
(***************************************************************************)
HypothesesHoldStill ==
  [][\A i \in Incidents : state[i] = "AWAITING_APPROVAL" =>
       /\ hyps'[i] = hyps[i]
       /\ state'[i] \in {"AWAITING_APPROVAL"} \cup Terminal]_vars

(***************************************************************************)
(* The process implements the approval gate: what is granted is read off   *)
(* the decision columns, what is handed over off the audit log.  A crash,  *)
(* a lost race or a second approver may leave a step out but never does    *)
(* one twice or out of order.                                              *)
(***************************************************************************)
Granted(i) ==
  IF state[i] = "APPROVED" THEN Chosen(hyps[i], decision[i].rank) ELSE None
Handed(i) ==
  IF Logged(i, "EXECUTION_INTENT_LOGGED") THEN Last(trail[i]).action ELSE None

Gate == INSTANCE ApprovalGate WITH
  Menus <- Answers,
  stage <- state,
  menu <- hyps,
  granted <- [i \in Incidents |-> Granted(i)],
  handed <- [i \in Incidents |-> Handed(i)]

ImplementsApprovalGate == Gate!Spec

-----------------------------------------------------------------------------
(***************************************************************************)
(* Every incident put before a human comes to a verdict, if only EXPIRED   *)
(* (sweeper.py: without the sweeper it "would sit AWAITING_APPROVAL        *)
(* forever"): although requests for more information move its deadline,    *)
(* the process dies, and a sweep is refused by the database or is not      *)
(* acknowledged.  The requests end (MaxInfo): a human who keeps asking     *)
(* keeps the window open for as long.                                      *)
(***************************************************************************)
ApprovalWindowCloses ==
  \A i \in Incidents : state[i] = "AWAITING_APPROVAL" ~> state[i] \in Terminal

(***************************************************************************)
(* At-least-once intake: an anomaly published beyond the committed offset  *)
(* gets an incident in the end, however often the process dies or the      *)
(* broker is lost first - unless the database fails: the handler then      *)
(* gives the record up, and its offset is committed all the same.          *)
(***************************************************************************)
Unhandled(a) ==
  /\ committed # None
  /\ \E k \in DOMAIN topic : topic[k] = a /\ k > committed

PublishedAnomalyIsOpened ==
  \A a \in Anomalies :
    Unhandled(a) ~> \/ \E i \in Incidents : anomaly[i] = a
                    \/ faults["db"] < MaxFaults["db"]

(***************************************************************************)
(* Without crashes, database failures or escaping exceptions an analysis   *)
(* ends: no incident stays in DETECTED or ANALYZING, whichever of several  *)
(* racing analyses gets to write.                                          *)
(***************************************************************************)
AnalysisSettles ==
  \A i \in Incidents :
    state[i] \in {"DETECTED", "ANALYZING"} ~>
      state[i] \notin {"DETECTED", "ANALYZING"}

(***************************************************************************)
(* Under the same assumption an approval is carried through to the         *)
(* executor's flag, and a rejection to its feedback row.                   *)
(***************************************************************************)
VerdictIsCarriedOut ==
  \A i \in Incidents :
    /\ state[i] = "APPROVED" ~> executed[i]
    /\ state[i] = "REJECTED" ~> feedback[i] # <<>>

(***************************************************************************)
(* docs/phase-m4-orchestration.md:31-33: "A failed incident is never       *)
(* stuck: POST /incidents/{id}/reanalyze retries on demand, and the UI     *)
(* surfaces the failure with a retry button instead of leaving the         *)
(* incident silently in ANALYZING."                                        *)
(***************************************************************************)
NeverStuckAnalyzing ==
  \A i \in Incidents : state[i] = "ANALYZING" ~> state[i] # "ANALYZING"
=============================================================================
