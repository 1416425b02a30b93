---------------------------- MODULE Orchestrator ----------------------------
(***************************************************************************)
(* services/orchestrator: the incident lifecycle run by the threads of one *)
(* orchestrator process.                                                   *)
(*                                                                         *)
(* Threads.  The Kafka consumer thread opens and analyses incidents, the   *)
(* sweeper thread expires the ones nobody decides, and every REST request  *)
(* runs in a thread of its own.  They share nothing but the database.      *)
(*                                                                         *)
(* Grain.  Each call on the store is one transaction (db.py _tx), and one  *)
(* action here; between two calls of a handler any other thread may run.   *)
(* What a handler read stays in job[t] and may be stale when it is used.   *)
(* That a transaction is atomic although its audit append takes a second   *)
(* lock is the subject of module AuditLog.                                 *)
(***************************************************************************)
EXTENDS Naturals, Sequences, FiniteSets

CONSTANTS
  Anomalies,     \* anomaly_ids the detector publishes
  Malformed,     \* a record that fails AnomalyEvent validation
  Incidents,     \* the pool uuid4 draws fresh incident_ids from
  Requests,      \* the server threads REST requests run in
  Consumer,      \* the kafka-consumer thread
  Sweeper,       \* the expiry-sweeper thread
  Ranks,         \* hypothesis ranks a request may name
  Actions,       \* proposed_action values
  Answers,       \* hypothesis lists the diagnosis service may return
  None,          \* SQL NULL, Python None
  MaxPublished,  \* bound: records on anomalies.detected
  MaxAttempts,   \* bound: analyses a request may still restart
  MaxInfo,       \* bound: request-info calls per incident
  MaxFaults      \* bound: how often each kind of fault strikes

Threads == {Consumer, Sweeper} \cup Requests
FaultKinds == {"crash", "db", "broker", "escape"}
Hypothesis == [rank : Ranks, action : Actions]
Decision == [rank : Ranks \cup {None}, by : Requests]

ASSUME ThreadsAssumption ==
  /\ Consumer # Sweeper
  /\ Consumer \notin Requests
  /\ Sweeper \notin Requests
ASSUME DataAssumption ==
  /\ Answers \subseteq Seq(Hypothesis)
  /\ None \notin Incidents \cup Anomalies \cup Actions \cup Ranks \cup Nat \cup Decision
  /\ Malformed \notin Anomalies
ASSUME BoundsAssumption ==
  /\ MaxPublished \in Nat
  /\ MaxAttempts \in Nat
  /\ MaxInfo \in Nat
  /\ MaxFaults \in [FaultKinds -> Nat]

VARIABLES
  topic,      \* anomalies.detected, oldest record first
  committed,  \* the consumer group's committed offset, None before the first
  position,   \* the consumer's own read position
  state,      \* orchestrator_incidents.state
  anomaly,    \* orchestrator_incidents.anomaly_id
  attempts,   \* orchestrator_incidents.analysis_attempts
  hyps,       \* orchestrator_incidents.hypotheses
  deadline,   \* orchestrator_incidents.expires_at, against now()
  decision,   \* decided_hypothesis_rank and decided_by
  executed,   \* orchestrator_incidents.execution_logged
  trail,      \* audit_log, one sequence per incident
  feedback,   \* rejection_feedback, one sequence per incident
  pc,         \* where each thread is in its handler
  job,        \* what each thread's handler holds in local variables
  todo,       \* expired incidents the sweeper has still to announce
  console,    \* the state an open approval console shows for an incident
  faults      \* faults still to come

kafka == <<topic, committed, position>>
db == <<state, anomaly, attempts, hyps, deadline, decision, executed, trail,
        feedback>>
threads == <<pc, job, todo>>
vars == <<kafka, db, threads, console, faults>>

States == {"ABSENT", "DETECTED", "ANALYZING", "AWAITING_APPROVAL", "APPROVED",
           "REJECTED", "EXPIRED", "ANALYSIS_FAILED"}
Terminal == {"APPROVED", "REJECTED", "EXPIRED"}
Events == {"INCIDENT_DETECTED", "ANALYSIS_STARTED", "ANALYSIS_COMPLETE",
           "ANALYSIS_FAILED", "MORE_INFO_REQUESTED", "APPROVED", "REJECTED",
           "EXPIRED", "EXECUTION_INTENT_LOGGED"}
PCs == {"idle", "disconnected", "lookup", "create", "publish_detected",
        "start", "read_analyzing", "publish_analyzing", "diagnose",
        "complete", "fail", "decide_approved", "log_intent", "mark_executed",
        "decide_rejected", "save_feedback", "announce", "read_final",
        "publish_final"}

Entry == [event : Events, rank : Ranks \cup {None}, action : Actions \cup {None}]
Job == [inc : Incidents \cup {None}, anomaly : Anomalies \cup {None},
        rank : Ranks \cup {None}, action : Actions \cup {None},
        answer : Answers \cup {<<>>}, seen : States]
NoJob == [inc |-> None, anomaly |-> None, rank |-> None, action |-> None,
          answer |-> <<>>, seen |-> "ABSENT"]

KafkaTypeOK ==
  /\ topic \in Seq(Anomalies \cup {Malformed})
  /\ committed \in Nat \cup {None}
  /\ position \in Nat

DbTypeOK ==
  /\ state \in [Incidents -> States]
  /\ anomaly \in [Incidents -> Anomalies \cup {None}]
  /\ attempts \in [Incidents -> Nat]
  /\ hyps \in [Incidents -> Answers \cup {<<>>}]
  /\ deadline \in [Incidents -> {"none", "open", "past"}]
  /\ decision \in [Incidents -> Decision \cup {None}]
  /\ executed \in [Incidents -> BOOLEAN]
  /\ trail \in [Incidents -> Seq(Entry)]
  /\ feedback \in [Incidents -> Seq(Decision)]

ThreadTypeOK ==
  /\ pc \in [Threads -> PCs]
  /\ job \in [Threads -> Job]
  /\ todo \subseteq Incidents

TypeOK ==
  /\ KafkaTypeOK
  /\ DbTypeOK
  /\ ThreadTypeOK
  /\ console \in [Incidents -> States]
  /\ faults \in [FaultKinds -> Nat]

Init ==
  /\ topic = <<>> /\ committed = None /\ position = 0
  /\ state = [i \in Incidents |-> "ABSENT"]
  /\ anomaly = [i \in Incidents |-> None]
  /\ attempts = [i \in Incidents |-> 0]
  /\ hyps = [i \in Incidents |-> <<>>]
  /\ deadline = [i \in Incidents |-> "none"]
  /\ decision = [i \in Incidents |-> None]
  /\ executed = [i \in Incidents |-> FALSE]
  /\ trail = [i \in Incidents |-> <<>>]
  /\ feedback = [i \in Incidents |-> <<>>]
  /\ pc = [t \in Threads |-> IF t = Consumer THEN "disconnected" ELSE "idle"]
  /\ job = [t \in Threads |-> NoJob]
  /\ todo = {}
  /\ console = [i \in Incidents |-> "ABSENT"]
  /\ faults = MaxFaults

-----------------------------------------------------------------------------
(***************************************************************************)
(* The transactions of db.py.  A guarded UPDATE that matches no row writes *)
(* no audit entry either, and the transaction changes nothing.             *)
(***************************************************************************)
Note(e) == [event |-> e, rank |-> None, action |-> None]
AppendAudit(i, entry) == trail' = [trail EXCEPT ![i] = Append(@, entry)]

CreateDetected(i, a) ==
  /\ state[i] = "ABSENT"
  /\ state' = [state EXCEPT ![i] = "DETECTED"]
  /\ anomaly' = [anomaly EXCEPT ![i] = a]
  /\ AppendAudit(i, Note("INCIDENT_DETECTED"))
  /\ UNCHANGED <<attempts, hyps, deadline, decision, executed, feedback>>

\* Slip: the audit entry does not depend on rowcount.
MarkAnalyzingAlwaysAudited(i) ==
  /\ AppendAudit(i, Note("ANALYSIS_STARTED"))
  /\ IF state[i] \in {"DETECTED", "ANALYSIS_FAILED"}
     THEN /\ state' = [state EXCEPT ![i] = "ANALYZING"]
          /\ attempts' = [attempts EXCEPT ![i] = @ + 1]
     ELSE UNCHANGED <<state, attempts>>
  /\ UNCHANGED <<anomaly, hyps, deadline, decision, executed, feedback>>

\* Slip: AWAITING_APPROVAL in the UPDATE's list of states.
MarkAnalyzingWhileAwaiting(i) ==
  \/ /\ state[i] \in {"DETECTED", "ANALYSIS_FAILED", "AWAITING_APPROVAL"}
     /\ state' = [state EXCEPT ![i] = "ANALYZING"]
     /\ attempts' = [attempts EXCEPT ![i] = @ + 1]
     /\ AppendAudit(i, Note("ANALYSIS_STARTED"))
     /\ UNCHANGED <<anomaly, hyps, deadline, decision, executed, feedback>>
  \/ /\ state[i] \in Terminal \cup {"ANALYZING"}
     /\ UNCHANGED db

MarkAnalyzing(i) ==
  \/ /\ state[i] \in {"DETECTED", "ANALYSIS_FAILED"}
     /\ state' = [state EXCEPT ![i] = "ANALYZING"]
     /\ attempts' = [attempts EXCEPT ![i] = @ + 1]
     /\ AppendAudit(i, Note("ANALYSIS_STARTED"))
     /\ UNCHANGED <<anomaly, hyps, deadline, decision, executed, feedback>>
  \/ /\ state[i] \notin {"DETECTED", "ANALYSIS_FAILED"}
     /\ UNCHANGED db

\* Slip: the UPDATE does not ask for ANALYZING.
SaveAnalysisResultUnguarded(i, answer) ==
  /\ state' = [state EXCEPT ![i] = "AWAITING_APPROVAL"]
  /\ hyps' = [hyps EXCEPT ![i] = answer]
  /\ deadline' = [deadline EXCEPT ![i] = "open"]
  /\ AppendAudit(i, Note("ANALYSIS_COMPLETE"))
  /\ UNCHANGED <<anomaly, attempts, decision, executed, feedback>>

SaveAnalysisResult(i, answer) ==
  \/ /\ state[i] = "ANALYZING"
     /\ state' = [state EXCEPT ![i] = "AWAITING_APPROVAL"]
     /\ hyps' = [hyps EXCEPT ![i] = answer]
     /\ deadline' = [deadline EXCEPT ![i] = "open"]
     /\ AppendAudit(i, Note("ANALYSIS_COMPLETE"))
     /\ UNCHANGED <<anomaly, attempts, decision, executed, feedback>>
  \/ /\ state[i] # "ANALYZING"
     /\ UNCHANGED db

\* Slip: the UPDATE asks for DETECTED.
MarkAnalysisFailedFromDetected(i) ==
  \/ /\ state[i] = "DETECTED"
     /\ state' = [state EXCEPT ![i] = "ANALYSIS_FAILED"]
     /\ AppendAudit(i, Note("ANALYSIS_FAILED"))
     /\ UNCHANGED <<anomaly, attempts, hyps, deadline, decision, executed,
                    feedback>>
  \/ /\ state[i] # "DETECTED"
     /\ UNCHANGED db

MarkAnalysisFailed(i) ==
  \/ /\ state[i] = "ANALYZING"
     /\ state' = [state EXCEPT ![i] = "ANALYSIS_FAILED"]
     /\ AppendAudit(i, Note("ANALYSIS_FAILED"))
     /\ UNCHANGED <<anomaly, attempts, hyps, deadline, decision, executed,
                    feedback>>
  \/ /\ state[i] # "ANALYZING"
     /\ UNCHANGED db

\* Slip: the UPDATE trusts the state the handler read before.
DecideUnguarded(i, verdict, r, by) ==
  /\ state' = [state EXCEPT ![i] = verdict]
  /\ decision' = [decision EXCEPT ![i] = [rank |-> r, by |-> by]]
  /\ AppendAudit(i, [event |-> verdict, rank |-> r, action |-> None])
  /\ UNCHANGED <<anomaly, attempts, hyps, deadline, executed, feedback>>

\* Enabled only when the guarded UPDATE matches a row; verdict is the new state.
Decide(i, verdict, r, by) ==
  /\ state[i] = "AWAITING_APPROVAL"
  /\ state' = [state EXCEPT ![i] = verdict]
  /\ decision' = [decision EXCEPT ![i] = [rank |-> r, by |-> by]]
  /\ AppendAudit(i, [event |-> verdict, rank |-> r, action |-> None])
  /\ UNCHANGED <<anomaly, attempts, hyps, deadline, executed, feedback>>

\* Slip: expires_at is cleared where it should be extended.
LogRequestInfoNoDeadline(i) ==
  /\ state[i] = "AWAITING_APPROVAL"
  /\ deadline' = [deadline EXCEPT ![i] = "none"]
  /\ AppendAudit(i, Note("MORE_INFO_REQUESTED"))
  /\ UNCHANGED <<state, anomaly, attempts, hyps, decision, executed, feedback>>

LogRequestInfo(i) ==
  /\ state[i] = "AWAITING_APPROVAL"
  /\ deadline' = [deadline EXCEPT ![i] = "open"]
  /\ AppendAudit(i, Note("MORE_INFO_REQUESTED"))
  /\ UNCHANGED <<state, anomaly, attempts, hyps, decision, executed, feedback>>

Stale == {i \in Incidents : state[i] = "AWAITING_APPROVAL" /\ deadline[i] = "past"}

ExpireStale(expired) ==
  /\ state' = [i \in Incidents |-> IF i \in expired THEN "EXPIRED" ELSE state[i]]
  /\ trail' = [i \in Incidents |-> IF i \in expired
                                   THEN Append(trail[i], Note("EXPIRED"))
                                   ELSE trail[i]]
  /\ UNCHANGED <<anomaly, attempts, hyps, deadline, decision, executed, feedback>>

RecordIntent(i, r, act) ==
  /\ AppendAudit(i, [event |-> "EXECUTION_INTENT_LOGGED", rank |-> r, action |-> act])
  /\ UNCHANGED <<state, anomaly, attempts, hyps, deadline, decision, executed,
                 feedback>>

MarkExecutionLogged(i) ==
  /\ executed' = [executed EXCEPT ![i] = TRUE]
  /\ UNCHANGED <<state, anomaly, attempts, hyps, deadline, decision, trail,
                 feedback>>

SaveRejectionFeedback(i, r, by) ==
  /\ feedback' = [feedback EXCEPT ![i] = Append(@, [rank |-> r, by |-> by])]
  /\ UNCHANGED <<state, anomaly, attempts, hyps, deadline, decision, executed,
                 trail>>

-----------------------------------------------------------------------------
(***************************************************************************)
(* Control: where a thread goes next, and what it keeps.                   *)
(***************************************************************************)
Goto(t, label) == pc' = [pc EXCEPT ![t] = label]
Finish(t) ==
  /\ pc' = [pc EXCEPT ![t] = "idle"]
  /\ job' = [job EXCEPT ![t] = NoJob]

(***************************************************************************)
(* The Kafka consumer (kafka_consumer.py).                                 *)
(***************************************************************************)
\* The detector publishes; a producer retry may repeat an anomaly.
PublishAnomaly(m) ==
  /\ Len(topic) < MaxPublished
  /\ topic' = Append(topic, m)
  /\ UNCHANGED <<committed, position, db, threads, console, faults>>

\* auto_offset_reset="latest": a group with no committed offset starts at the end.
Connect ==
  /\ pc[Consumer] = "disconnected"
  /\ Goto(Consumer, "idle")
  /\ position' = IF committed = None THEN Len(topic) ELSE committed
  /\ UNCHANGED <<topic, committed, db, job, todo, console, faults>>

\* Slip: enable_auto_commit, the offset is committed as the record is read.
FetchAutoCommit ==
  /\ pc[Consumer] = "idle"
  /\ position < Len(topic)
  /\ position' = position + 1
  /\ committed' = position + 1
  /\ \/ /\ topic[position + 1] = Malformed
        /\ UNCHANGED <<pc, job>>
     \/ /\ topic[position + 1] # Malformed
        /\ Goto(Consumer, "lookup")
        /\ job' = [job EXCEPT ![Consumer].anomaly = topic[position + 1]]
  /\ UNCHANGED <<topic, db, todo, console, faults>>

\* The iterator moves its position past a record before the handler sees it.
Fetch ==
  /\ pc[Consumer] = "idle"
  /\ position < Len(topic)
  /\ position' = position + 1
  /\ \/ /\ topic[position + 1] = Malformed
        /\ UNCHANGED <<pc, job>>
     \/ /\ topic[position + 1] # Malformed
        /\ Goto(Consumer, "lookup")
        /\ job' = [job EXCEPT ![Consumer].anomaly = topic[position + 1]]
  /\ UNCHANGED <<topic, committed, db, todo, console, faults>>

\* consumer.commit(), reached when the iterator has been idle for a second.
Commit ==
  /\ pc[Consumer] = "idle"
  /\ committed # position
  /\ committed' = position
  /\ UNCHANGED <<topic, position, db, threads, console, faults>>

\* A KafkaError from a poll or a commit: close, and connect again.
LoseBroker ==
  /\ faults["broker"] > 0
  /\ pc[Consumer] = "idle"
  /\ Goto(Consumer, "disconnected")
  /\ faults' = [faults EXCEPT !["broker"] = @ - 1]
  /\ UNCHANGED <<kafka, db, job, todo, console>>

(***************************************************************************)
(* handle_anomaly, then analyze (state_machine.py).                        *)
(***************************************************************************)
\* Slip: no lookup by anomaly_id.
LookupAnomalySkipped ==
  /\ pc[Consumer] = "lookup"
  /\ Goto(Consumer, "create")
  /\ UNCHANGED <<kafka, db, job, todo, console, faults>>

LookupAnomaly ==
  /\ pc[Consumer] = "lookup"
  /\ \/ /\ \E i \in Incidents : anomaly[i] = job[Consumer].anomaly
        /\ Finish(Consumer)
     \/ /\ ~ \E i \in Incidents : anomaly[i] = job[Consumer].anomaly
        /\ Goto(Consumer, "create")
        /\ UNCHANGED job
  /\ UNCHANGED <<kafka, db, todo, console, faults>>

OpenIncident ==
  /\ pc[Consumer] = "create"
  /\ \E i \in Incidents :
       /\ CreateDetected(i, job[Consumer].anomaly)
       /\ job' = [job EXCEPT ![Consumer].inc = i, ![Consumer].seen = "DETECTED"]
  /\ Goto(Consumer, "publish_detected")
  /\ UNCHANGED <<kafka, todo, console, faults>>

StartAnalysis(t) ==
  /\ pc[t] = "start"
  /\ MarkAnalyzing(job[t].inc)
  /\ Goto(t, "read_analyzing")
  /\ UNCHANGED <<kafka, job, todo, console, faults>>

\* The diagnosis client's retries end in an answer or in DiagnosisFailed.
Diagnose(t) ==
  /\ pc[t] = "diagnose"
  /\ \/ \E answer \in Answers :
          /\ job' = [job EXCEPT ![t].answer = answer]
          /\ Goto(t, "complete")
     \/ /\ Goto(t, "fail")
        /\ UNCHANGED job
  /\ UNCHANGED <<kafka, db, todo, console, faults>>

\* The answer came, but looking its model_version up got an error status:
\* raise_for_status() raises what _model_version_for does not catch.
VersionLookupRaises(t) ==
  /\ faults["escape"] > 0
  /\ pc[t] = "diagnose"
  /\ Finish(t)
  /\ faults' = [faults EXCEPT !["escape"] = @ - 1]
  /\ UNCHANGED <<kafka, db, todo, console>>

CompleteAnalysis(t) ==
  /\ pc[t] = "complete"
  /\ SaveAnalysisResult(job[t].inc, job[t].answer)
  /\ Goto(t, "read_final")
  /\ UNCHANGED <<kafka, job, todo, console, faults>>

FailAnalysis(t) ==
  /\ pc[t] = "fail"
  /\ MarkAnalysisFailed(job[t].inc)
  /\ Goto(t, "read_final")
  /\ UNCHANGED <<kafka, job, todo, console, faults>>

(***************************************************************************)
(* _emit: read the row back, then hand the snapshot to the feed.  The      *)
(* queue of a connection is FIFO, so the console shows the snapshot that   *)
(* was published last, which need not be the one that was read last.       *)
(***************************************************************************)
ReadBack(t) ==
  /\ \/ pc[t] = "read_analyzing" /\ Goto(t, "publish_analyzing")
     \/ pc[t] = "read_final" /\ Goto(t, "publish_final")
  /\ job' = [job EXCEPT ![t].seen = state[job[t].inc]]
  /\ UNCHANGED <<kafka, db, todo, console, faults>>

Publish(t) ==
  /\ \/ pc[t] = "publish_detected" /\ Goto(t, "start") /\ UNCHANGED job
     \/ pc[t] = "publish_analyzing" /\ Goto(t, "diagnose") /\ UNCHANGED job
     \/ pc[t] = "publish_final" /\ t = Sweeper /\ todo # {}
        /\ Goto(t, "announce") /\ UNCHANGED job
     \/ pc[t] = "publish_final" /\ ~(t = Sweeper /\ todo # {}) /\ Finish(t)
  /\ console' = [console EXCEPT ![job[t].inc] = job[t].seen]
  /\ UNCHANGED <<kafka, db, todo, faults>>

-----------------------------------------------------------------------------
(***************************************************************************)
(* The REST handlers (main.py, state_machine.py).  A read that finds the   *)
(* incident in another state answers 404, 409 or 422 and changes nothing.  *)
(***************************************************************************)
RanksOf(answer) == {answer[k].rank : k \in DOMAIN answer}
Chosen(answer, r) ==
  answer[CHOOSE k \in DOMAIN answer :
           /\ answer[k].rank = r
           /\ \A j \in 1..(k - 1) : answer[j].rank # r].action

ApproveRead(t, i, r) ==
  /\ pc[t] = "idle"
  /\ state[i] = "AWAITING_APPROVAL"
  /\ r \in RanksOf(hyps[i])
  /\ job' = [job EXCEPT ![t] = [NoJob EXCEPT !.inc = i, !.rank = r,
                                             !.action = Chosen(hyps[i], r)]]
  /\ Goto(t, "decide_approved")
  /\ UNCHANGED <<kafka, db, todo, console, faults>>

\* Slip: the approval returns before the executor is handed the action.
ApproveWithoutExecutor(t) ==
  /\ pc[t] = "decide_approved"
  /\ \/ /\ Decide(job[t].inc, "APPROVED", job[t].rank, t)
        /\ Goto(t, "read_final")
        /\ UNCHANGED job
     \/ /\ state[job[t].inc] # "AWAITING_APPROVAL"
        /\ Finish(t)
        /\ UNCHANGED db
  /\ UNCHANGED <<kafka, todo, console, faults>>

Approve(t) ==
  /\ pc[t] = "decide_approved"
  /\ \/ /\ Decide(job[t].inc, "APPROVED", job[t].rank, t)
        /\ Goto(t, "log_intent")
        /\ UNCHANGED job
     \/ /\ state[job[t].inc] # "AWAITING_APPROVAL"
        /\ Finish(t)
        /\ UNCHANGED db
  /\ UNCHANGED <<kafka, todo, console, faults>>

\* Slip: the intent is built from the hypothesis listed first.
LogIntentOfFirstHypothesis(t) ==
  /\ pc[t] = "log_intent"
  /\ RecordIntent(job[t].inc, job[t].rank, hyps[job[t].inc][1].action)
  /\ Goto(t, "mark_executed")
  /\ UNCHANGED <<kafka, job, todo, console, faults>>

LogIntent(t) ==
  /\ pc[t] = "log_intent"
  /\ RecordIntent(job[t].inc, job[t].rank, job[t].action)
  /\ Goto(t, "mark_executed")
  /\ UNCHANGED <<kafka, job, todo, console, faults>>

MarkExecuted(t) ==
  /\ pc[t] = "mark_executed"
  /\ MarkExecutionLogged(job[t].inc)
  /\ Goto(t, "read_final")
  /\ UNCHANGED <<kafka, job, todo, console, faults>>

\* A rejection may name any rank or none; the rank is not checked.
RejectRead(t, i, r) ==
  /\ pc[t] = "idle"
  /\ state[i] = "AWAITING_APPROVAL"
  /\ job' = [job EXCEPT ![t] = [NoJob EXCEPT !.inc = i, !.rank = r]]
  /\ Goto(t, "decide_rejected")
  /\ UNCHANGED <<kafka, db, todo, console, faults>>

\* Slip: no "if decided is None: return None".
RejectIgnoringLostRace(t) ==
  /\ pc[t] = "decide_rejected"
  /\ \/ Decide(job[t].inc, "REJECTED", job[t].rank, t)
     \/ state[job[t].inc] # "AWAITING_APPROVAL" /\ UNCHANGED db
  /\ job' = [job EXCEPT ![t].seen = "REJECTED"]
  /\ Goto(t, "save_feedback")
  /\ UNCHANGED <<kafka, todo, console, faults>>

\* The snapshot to publish is the row the deciding transaction returned.
Reject(t) ==
  /\ pc[t] = "decide_rejected"
  /\ \/ /\ Decide(job[t].inc, "REJECTED", job[t].rank, t)
        /\ job' = [job EXCEPT ![t].seen = "REJECTED"]
        /\ Goto(t, "save_feedback")
     \/ /\ state[job[t].inc] # "AWAITING_APPROVAL"
        /\ Finish(t)
        /\ UNCHANGED db
  /\ UNCHANGED <<kafka, todo, console, faults>>

SaveFeedback(t) ==
  /\ pc[t] = "save_feedback"
  /\ SaveRejectionFeedback(job[t].inc, job[t].rank, t)
  /\ Goto(t, "publish_final")
  /\ UNCHANGED <<kafka, job, todo, console, faults>>

InfoRequests(i) ==
  Cardinality({k \in DOMAIN trail[i] : trail[i][k].event = "MORE_INFO_REQUESTED"})

RequestInfo(t, i) ==
  /\ pc[t] = "idle"
  /\ InfoRequests(i) < MaxInfo
  /\ LogRequestInfo(i)
  /\ job' = [job EXCEPT ![t] = [NoJob EXCEPT !.inc = i,
                                             !.seen = "AWAITING_APPROVAL"]]
  /\ Goto(t, "publish_final")
  /\ UNCHANGED <<kafka, todo, console, faults>>

ReanalyzeRead(t, i) ==
  /\ pc[t] = "idle"
  /\ state[i] = "ANALYSIS_FAILED"
  /\ attempts[i] < MaxAttempts
  /\ job' = [job EXCEPT ![t] = [NoJob EXCEPT !.inc = i]]
  /\ Goto(t, "start")
  /\ UNCHANGED <<kafka, db, todo, console, faults>>

-----------------------------------------------------------------------------
(***************************************************************************)
(* The expiry sweeper (sweeper.py) and the clock it compares with.         *)
(***************************************************************************)
DeadlinePasses(i) ==
  /\ state[i] = "AWAITING_APPROVAL"
  /\ deadline[i] = "open"
  /\ deadline' = [deadline EXCEPT ![i] = "past"]
  /\ UNCHANGED <<kafka, state, anomaly, attempts, hyps, decision, executed,
                 trail, feedback, threads, console, faults>>

SweepExpired ==
  /\ pc[Sweeper] = "idle"
  /\ Stale # {}
  /\ ExpireStale(Stale)
  /\ todo' = Stale
  /\ Goto(Sweeper, "announce")
  /\ UNCHANGED <<kafka, job, console, faults>>

Announce ==
  /\ pc[Sweeper] = "announce"
  /\ \E i \in todo :
       /\ todo' = todo \ {i}
       /\ job' = [job EXCEPT ![Sweeper] = [NoJob EXCEPT !.inc = i, !.seen = state[i]]]
  /\ Goto(Sweeper, "publish_final")
  /\ UNCHANGED <<kafka, db, console, faults>>

-----------------------------------------------------------------------------
(***************************************************************************)
(* Faults.  DatabaseUnavailable leaves the handler: the consumer logs it   *)
(* and moves on, a request answers 503, the sweeper waits for its next     *)
(* interval.  The call that raised may be the one about to be made, or the *)
(* one just made, whose commit was never acknowledged.                     *)
(***************************************************************************)
DatabaseFails(t) ==
  /\ faults["db"] > 0
  /\ \/ pc[t] \notin {"idle", "disconnected", "diagnose"}
     \/ t = Sweeper /\ Stale # {}
  /\ Finish(t)
  /\ todo' = IF t = Sweeper THEN {} ELSE todo
  /\ faults' = [faults EXCEPT !["db"] = @ - 1]
  /\ UNCHANGED <<kafka, db, console>>

\* The process dies and is started again; the database and Kafka survive.
Crash ==
  /\ faults["crash"] > 0
  /\ pc' = [t \in Threads |-> IF t = Consumer THEN "disconnected" ELSE "idle"]
  /\ job' = [t \in Threads |-> NoJob]
  /\ todo' = {}
  /\ faults' = [faults EXCEPT !["crash"] = @ - 1]
  /\ UNCHANGED <<kafka, db, console>>

-----------------------------------------------------------------------------
\* The next step of a handler that has been entered.
Proceed(t) ==
  \/ StartAnalysis(t)
  \/ Diagnose(t)
  \/ CompleteAnalysis(t)
  \/ FailAnalysis(t)
  \/ ReadBack(t)
  \/ Publish(t)

ProceedRequest(t) ==
  \/ Approve(t)
  \/ LogIntent(t)
  \/ MarkExecuted(t)
  \/ Reject(t)
  \/ SaveFeedback(t)

ConsumerStep == Connect \/ Fetch \/ Commit \/ LookupAnomaly \/ OpenIncident

SweeperStep == SweepExpired \/ Announce

NewRequest(t) ==
  \E i \in Incidents :
    \/ \E r \in Ranks : ApproveRead(t, i, r)
    \/ \E r \in Ranks \cup {None} : RejectRead(t, i, r)
    \/ RequestInfo(t, i)
    \/ ReanalyzeRead(t, i)

Fault ==
  \/ LoseBroker
  \/ Crash
  \/ \E t \in Threads : DatabaseFails(t) \/ VersionLookupRaises(t)

Next ==
  \/ \E m \in Anomalies \cup {Malformed} : PublishAnomaly(m)
  \/ ConsumerStep
  \/ SweeperStep
  \/ \E t \in Threads : Proceed(t)
  \/ \E t \in Requests : ProceedRequest(t) \/ NewRequest(t)
  \/ \E i \in Incidents : DeadlinePasses(i)
  \/ Fault

Spec == Init /\ [][Next]_vars

(***************************************************************************)
(* Fairness: a running thread takes its next step, the clock advances, the *)
(* sweeper wakes up.  Nobody is obliged to publish, to send a request or   *)
(* to fail.                                                                *)
(***************************************************************************)
Fairness ==
  /\ WF_vars(Connect)
  /\ WF_vars(Fetch)
  /\ WF_vars(Commit)
  /\ WF_vars(LookupAnomaly \/ OpenIncident)
  /\ WF_vars(SweepExpired)
  /\ WF_vars(Announce)
  /\ \A t \in Threads : WF_vars(Proceed(t))
  /\ \A t \in Requests : WF_vars(ProceedRequest(t))
  /\ \A i \in Incidents : WF_vars(DeadlinePasses(i))

FairSpec == Spec /\ Fairness
=============================================================================
