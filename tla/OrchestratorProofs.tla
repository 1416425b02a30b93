------------------------- MODULE OrchestratorProofs -------------------------
(***************************************************************************)
(* The orchestrator's safety properties, for any number of incidents,      *)
(* requests, hypotheses, anomalies and faults.                             *)
(***************************************************************************)
EXTENDS OrchestratorInvariant, WellFoundedInduction, TLAPS

(***************************************************************************)
(* The hypothesis of an offered rank exists: Chosen(answer, r) is the      *)
(* action of an element of answer (state_machine.py approve, next(...)).   *)
(***************************************************************************)
LEMMA ChosenIsOffered ==
  ASSUME NEW answer \in Seq(Hypothesis), NEW r \in RanksOf(answer)
  PROVE  \E k \in DOMAIN answer :
           answer[k].rank = r /\ Chosen(answer, r) = answer[k].action
<1> DEFINE ks == {k \in Nat : k \in DOMAIN answer /\ answer[k].rank = r}
<1>1. ks \subseteq Nat /\ ks # {}
  <2>1. PICK k \in DOMAIN answer : answer[k].rank = r
    BY DEF RanksOf
  <2>2. k \in Nat
    OBVIOUS
  <2> QED
    BY <2>1, <2>2
<1>2. OpToRel(<, Nat) = {ss \in Nat \X Nat : ss[1] < ss[2]}
  BY DEF OpToRel
<1>3. PICK n \in ks : \A m \in ks : <<m, n>> \notin {ss \in Nat \X Nat : ss[1] < ss[2]}
  <2> HIDE DEF ks
  <2> DEFINE R == OpToRel(<, Nat)
  <2>1. IsWellFoundedOn(R, Nat)
    BY NatLessThanWellFounded
  <2> HIDE DEF R
  <2>2. \E n \in ks : \A m \in ks : ~ (<<m, n>> \in R)
    BY <1>1, <2>1, WFMin
  <2> USE DEF R
  <2> QED
    BY <1>2, <2>2
<1>4. n \in DOMAIN answer /\ answer[n].rank = r
  OBVIOUS
<1>5. \A j \in 1..(n - 1) : answer[j].rank # r
  <2> SUFFICES ASSUME NEW j \in 1..(n - 1), answer[j].rank = r PROVE FALSE
    OBVIOUS
  <2>1. j \in DOMAIN answer /\ j < n
    BY <1>4
  <2>2. j \in ks /\ <<j, n>> \in {ss \in Nat \X Nat : ss[1] < ss[2]}
    BY <1>1, <2>1
  <2> QED
    BY <1>3, <2>2
<1> QED
  BY <1>4, <1>5 DEF Chosen

(* The action chosen for an offered rank is one of Actions.                *)
LEMMA ChosenIsAction ==
  ASSUME NEW answer \in Answers \cup {<<>>}, NEW r \in RanksOf(answer)
  PROVE  Chosen(answer, r) \in Actions
<1>1. <<>> \in Seq(Hypothesis)
  OBVIOUS
<1>2. answer \in Seq(Hypothesis)
  BY <1>1, DataAssumption
<1>3. PICK k \in DOMAIN answer : Chosen(answer, r) = answer[k].action
  BY <1>2, ChosenIsOffered
<1>4. answer[k] \in Hypothesis
  BY <1>2
<1> QED
  BY <1>3, <1>4 DEF Hypothesis

-----------------------------------------------------------------------------
(* An idle thread's job has the type of jobs.                              *)
LEMMA NoJobType == NoJob \in Job
  BY DEF NoJob, Job, States

(* The initial state is type correct.                                      *)
LEMMA TypeCorrectInit == Init => TypeOK
<1> SUFFICES ASSUME Init PROVE TypeOK
  OBVIOUS
<1>1. KafkaTypeOK
  BY DEF Init, KafkaTypeOK
<1>2. DbTypeOK
  BY DEF Init, DbTypeOK, States
<1>3. ThreadTypeOK
  BY NoJobType DEF Init, ThreadTypeOK, PCs
<1> QED
  BY <1>1, <1>2, <1>3, BoundsAssumption DEF Init, TypeOK, States

(***************************************************************************)
(* Every transaction of db.py keeps the types of the columns.              *)
(***************************************************************************)
LEMMA DbUnchangedType ==
  ASSUME DbTypeOK, UNCHANGED db
  PROVE  DbTypeOK'
BY DEF DbTypeOK, db

(* An appended entry keeps the audit log a sequence of entries.            *)
LEMMA AppendAuditType ==
  ASSUME DbTypeOK, NEW i \in Incidents, NEW e \in Entry, AppendAudit(i, e)
  PROVE  trail' \in [Incidents -> Seq(Entry)]
BY DEF DbTypeOK, AppendAudit

(* A note is an audit entry.                                               *)
LEMMA NoteType == \A e \in Events : Note(e) \in Entry
BY DEF Note, Entry

(* create_detected writes values of the columns' types.                    *)
LEMMA CreateDetectedType ==
  ASSUME DbTypeOK, NEW i \in Incidents, NEW a \in Anomalies \cup {None}, CreateDetected(i, a)
  PROVE  DbTypeOK'
BY AppendAuditType, NoteType DEF DbTypeOK, CreateDetected, Events, States

(* mark_analyzing writes values of the columns' types.                     *)
LEMMA MarkAnalyzingType ==
  ASSUME DbTypeOK, NEW i \in Incidents, MarkAnalyzing(i)
  PROVE  DbTypeOK'
<1>1. CASE state[i] \in {"DETECTED", "ANALYSIS_FAILED"}
  <2>1. Note("ANALYSIS_STARTED") \in Entry /\ AppendAudit(i, Note("ANALYSIS_STARTED"))
    BY <1>1, NoteType DEF MarkAnalyzing, Events
  <2>2. trail' \in [Incidents -> Seq(Entry)]
    BY <2>1, AppendAuditType
  <2>3. state' \in [Incidents -> States]
    BY <1>1 DEF DbTypeOK, MarkAnalyzing, States
  <2>4. attempts' \in [Incidents -> Nat]
    <3>1. attempts \in [Incidents -> Nat] /\ attempts[i] + 1 \in Nat
      BY DEF DbTypeOK
    <3>2. attempts' = [attempts EXCEPT ![i] = attempts[i] + 1]
      BY <1>1 DEF MarkAnalyzing
    <3> QED
      BY <3>1, <3>2
  <2> QED
    BY <1>1, <2>2, <2>3, <2>4 DEF DbTypeOK, MarkAnalyzing
<1>2. CASE ~(state[i] \in {"DETECTED", "ANALYSIS_FAILED"})
  BY <1>2, DbUnchangedType DEF MarkAnalyzing
<1> QED
  BY <1>1, <1>2

(* save_analysis_result does, for an answer the service may return.        *)
LEMMA SaveAnalysisResultType ==
  ASSUME DbTypeOK, NEW i \in Incidents, NEW answer \in Answers \cup {<<>>},
         SaveAnalysisResult(i, answer)
  PROVE  DbTypeOK'
<1>1. CASE state[i] = "ANALYZING"
  <2>1. Note("ANALYSIS_COMPLETE") \in Entry /\ AppendAudit(i, Note("ANALYSIS_COMPLETE"))
    BY <1>1, NoteType DEF SaveAnalysisResult, Events
  <2>2. trail' \in [Incidents -> Seq(Entry)]
    BY <2>1, AppendAuditType
  <2>3. /\ state' = [state EXCEPT ![i] = "AWAITING_APPROVAL"]
        /\ hyps' = [hyps EXCEPT ![i] = answer]
        /\ deadline' = [deadline EXCEPT ![i] = "open"]
        /\ UNCHANGED <<anomaly, attempts, decision, executed, feedback>>
    BY <1>1 DEF SaveAnalysisResult
  <2>4. /\ state \in [Incidents -> States]
        /\ hyps \in [Incidents -> Answers \cup {<<>>}]
        /\ deadline \in [Incidents -> {"none", "open", "past"}]
    BY DEF DbTypeOK
  <2>5. state' \in [Incidents -> States]
    BY <2>3, <2>4 DEF States
  <2>6. hyps' \in [Incidents -> Answers \cup {<<>>}]
    BY <2>3, <2>4
  <2>7. deadline' \in [Incidents -> {"none", "open", "past"}]
    BY <2>3, <2>4
  <2> QED
    BY <2>2, <2>3, <2>5, <2>6, <2>7 DEF DbTypeOK
<1>2. CASE ~(state[i] = "ANALYZING")
  BY <1>2, DbUnchangedType DEF SaveAnalysisResult
<1> QED
  BY <1>1, <1>2

(* mark_analysis_failed writes values of the columns' types.               *)
LEMMA MarkAnalysisFailedType ==
  ASSUME DbTypeOK, NEW i \in Incidents, MarkAnalysisFailed(i)
  PROVE  DbTypeOK'
<1>1. CASE state[i] = "ANALYZING"
  <2>1. Note("ANALYSIS_FAILED") \in Entry /\ AppendAudit(i, Note("ANALYSIS_FAILED"))
    BY <1>1, NoteType DEF MarkAnalysisFailed, Events
  <2>2. trail' \in [Incidents -> Seq(Entry)]
    BY <2>1, AppendAuditType
  <2> QED
    BY <1>1, <2>2 DEF DbTypeOK, MarkAnalysisFailed, States
<1>2. CASE ~(state[i] = "ANALYZING")
  BY <1>2, DbUnchangedType DEF MarkAnalysisFailed
<1> QED
  BY <1>1, <1>2

(* decide does, for both verdicts and for any rank a request may name.     *)
LEMMA DecideType ==
  ASSUME DbTypeOK, NEW i \in Incidents, NEW verdict \in {"APPROVED", "REJECTED"},
         NEW r \in Ranks \cup {None}, NEW t \in Requests, Decide(i, verdict, r, t)
  PROVE  DbTypeOK'
<1>1. [event |-> verdict, rank |-> r, action |-> None] \in Entry
  BY DEF Entry, Events
<1>2. [rank |-> r, by |-> t] \in Decision
  BY DEF Decision
<1> QED
  BY <1>1, <1>2, AppendAuditType DEF DbTypeOK, Decide, States

(* log_request_info writes values of the columns' types.                   *)
LEMMA LogRequestInfoType ==
  ASSUME DbTypeOK, NEW i \in Incidents, LogRequestInfo(i)
  PROVE  DbTypeOK'
BY AppendAuditType, NoteType DEF DbTypeOK, LogRequestInfo, Events

(* expire_stale writes values of the columns' types in every row.          *)
LEMMA ExpireStaleType ==
  ASSUME DbTypeOK, ExpireStale(Stale)
  PROVE  DbTypeOK'
<1>1. Note("EXPIRED") \in Entry
  BY NoteType DEF Events
<1> QED
  BY <1>1 DEF DbTypeOK, ExpireStale, States

(* record_event does, for the executor's intent.                           *)
LEMMA RecordIntentType ==
  ASSUME DbTypeOK, NEW i \in Incidents, NEW r \in Ranks \cup {None},
         NEW act \in Actions \cup {None}, RecordIntent(i, r, act)
  PROVE  DbTypeOK'
<1>1. [event |-> "EXECUTION_INTENT_LOGGED", rank |-> r, action |-> act] \in Entry
  BY DEF Entry, Events
<1> QED
  BY <1>1, AppendAuditType DEF DbTypeOK, RecordIntent

(* mark_execution_logged writes values of the columns' types.              *)
LEMMA MarkExecutionLoggedType ==
  ASSUME DbTypeOK, NEW i \in Incidents, MarkExecutionLogged(i)
  PROVE  DbTypeOK'
BY DEF DbTypeOK, MarkExecutionLogged

(* save_rejection_feedback writes values of the columns' types.            *)
LEMMA SaveRejectionFeedbackType ==
  ASSUME DbTypeOK, NEW i \in Incidents, NEW r \in Ranks \cup {None}, NEW t \in Requests,
         SaveRejectionFeedback(i, r, t)
  PROVE  DbTypeOK'
<1>1. [rank |-> r, by |-> t] \in Decision
  BY DEF Decision
<1> QED
  BY <1>1 DEF DbTypeOK, SaveRejectionFeedback

(***************************************************************************)
(* Control: labels, and the fields of a job.                               *)
(***************************************************************************)
LEMMA GotoType ==
  ASSUME ThreadTypeOK, NEW t \in Threads, NEW label \in PCs, Goto(t, label)
  PROVE  pc' \in [Threads -> PCs]
BY DEF ThreadTypeOK, Goto

(* Finish leaves an idle thread with an empty job.                         *)
LEMMA FinishType ==
  ASSUME ThreadTypeOK, NEW t \in Threads, Finish(t)
  PROVE  pc' \in [Threads -> PCs] /\ job' \in [Threads -> Job]
BY NoJobType DEF ThreadTypeOK, Finish, PCs

(* The updates the handlers make to a job keep its type.                   *)
LEMMA JobType ==
  ASSUME NEW j \in Job
  PROVE  /\ \A i \in Incidents \cup {None} : [j EXCEPT !.inc = i] \in Job
         /\ \A a \in Anomalies \cup {None} : [j EXCEPT !.anomaly = a] \in Job
         /\ \A r \in Ranks \cup {None} : [j EXCEPT !.rank = r] \in Job
         /\ \A act \in Actions \cup {None} : [j EXCEPT !.action = act] \in Job
         /\ \A answer \in Answers \cup {<<>>} : [j EXCEPT !.answer = answer] \in Job
         /\ \A s \in States : [j EXCEPT !.seen = s] \in Job
BY DEF Job

(* The consumer, the sweeper and every request are threads.                *)
LEMMA ThreadsType ==
  /\ Consumer \in Threads
  /\ Sweeper \in Threads
  /\ Requests \subseteq Threads
BY DEF Threads

(***************************************************************************)
(* One step per action of Next.                                            *)
(***************************************************************************)
LEMMA TypeCorrectStep ==
  ASSUME TypeOK, \A t \in Threads : HasIncident(t), [Next]_vars
  PROVE  TypeOK'
<1> USE ThreadsType
<1>a. KafkaTypeOK /\ DbTypeOK /\ ThreadTypeOK /\ console \in [Incidents -> States]
      /\ faults \in [FaultKinds -> Nat]
  BY DEF TypeOK
<1>b. \A t \in Threads : job[t] \in Job /\ pc[t] \in PCs
  BY <1>a DEF ThreadTypeOK
<1>1. ASSUME NEW m \in Anomalies \cup {Malformed}, PublishAnomaly(m) PROVE TypeOK'
  <2>1. KafkaTypeOK'
    BY <1>1, <1>a DEF PublishAnomaly, KafkaTypeOK
  <2> QED
    BY <1>1, <1>a, <2>1, DbUnchangedType DEF PublishAnomaly, TypeOK, ThreadTypeOK, threads
<1>2. CASE Connect
  <2>1. KafkaTypeOK'
    BY <1>2, <1>a DEF Connect, KafkaTypeOK
  <2>2. ThreadTypeOK'
    BY <1>2, <1>a, GotoType DEF Connect, ThreadTypeOK, PCs
  <2> QED
    BY <1>2, <1>a, <2>1, <2>2, DbUnchangedType DEF Connect, TypeOK
<1>3. CASE Fetch
  <2>1. KafkaTypeOK' /\ (topic[position + 1] # Malformed => topic[position + 1] \in Anomalies)
    BY <1>3, <1>a DEF Fetch, KafkaTypeOK
  <2>2. CASE UNCHANGED <<pc, job>>
    BY <2>2, <1>3, <1>a, <2>1, DbUnchangedType DEF Fetch, TypeOK, ThreadTypeOK
  <2>3. CASE /\ topic[position + 1] # Malformed
             /\ Goto(Consumer, "lookup")
             /\ job' = [job EXCEPT ![Consumer].anomaly = topic[position + 1]]
    <3>1. job' = [job EXCEPT ![Consumer] = [job[Consumer] EXCEPT !.anomaly = topic[position + 1]]]
      BY <2>3, <1>a DEF ThreadTypeOK
    <3>2. [job[Consumer] EXCEPT !.anomaly = topic[position + 1]] \in Job
      BY <1>b, <2>1, <2>3, JobType
    <3>3. job' \in [Threads -> Job]
      BY <3>1, <3>2, <1>a DEF ThreadTypeOK
    <3>4. pc' \in [Threads -> PCs]
      BY <2>3, <1>a, GotoType DEF PCs
    <3> QED
      BY <1>3, <1>a, <2>1, <3>3, <3>4, DbUnchangedType DEF Fetch, TypeOK, ThreadTypeOK
  <2> QED
    BY <1>3, <2>2, <2>3 DEF Fetch
<1>4. CASE Commit
  <2>1. KafkaTypeOK'
    BY <1>4, <1>a DEF Commit, KafkaTypeOK
  <2> QED
    BY <1>4, <1>a, <2>1, DbUnchangedType DEF Commit, TypeOK, ThreadTypeOK, threads
<1>5. CASE LookupAnomaly
  <2>1. pc' \in [Threads -> PCs] /\ job' \in [Threads -> Job]
    <3>1. CASE Finish(Consumer)
      BY <3>1, <1>a, FinishType
    <3>2. CASE Goto(Consumer, "create") /\ UNCHANGED job
      BY <3>2, <1>a, GotoType DEF PCs, ThreadTypeOK
    <3> QED
      BY <1>5, <3>1, <3>2 DEF LookupAnomaly
  <2> QED
    BY <1>5, <1>a, <2>1, DbUnchangedType DEF LookupAnomaly, TypeOK, ThreadTypeOK, KafkaTypeOK, kafka
<1>6. CASE OpenIncident
  <2>1. PICK i \in Incidents :
          /\ CreateDetected(i, job[Consumer].anomaly)
          /\ job' = [job EXCEPT ![Consumer].inc = i, ![Consumer].seen = "DETECTED"]
    BY <1>6 DEF OpenIncident
  <2>2. DbTypeOK'
    BY <2>1, <1>a, <1>b, CreateDetectedType DEF Job
  <2>3. job' = [job EXCEPT ![Consumer] = [[job[Consumer] EXCEPT !.inc = i] EXCEPT !.seen = "DETECTED"]]
    BY <2>1, <1>a, <1>b DEF ThreadTypeOK, Job
  <2>4. [[job[Consumer] EXCEPT !.inc = i] EXCEPT !.seen = "DETECTED"] \in Job
    BY <1>b, JobType DEF States
  <2>5. job' \in [Threads -> Job]
    BY <2>3, <2>4, <1>a DEF ThreadTypeOK
  <2>6. pc' \in [Threads -> PCs]
    BY <1>6, <1>a, GotoType DEF OpenIncident, PCs
  <2> QED
    BY <1>6, <1>a, <2>2, <2>5, <2>6 DEF OpenIncident, TypeOK, ThreadTypeOK, KafkaTypeOK, kafka
<1>7. CASE SweepExpired
  <2>1. DbTypeOK'
    BY <1>7, <1>a, ExpireStaleType DEF SweepExpired
  <2>2. ThreadTypeOK'
    BY <1>7, <1>a, GotoType DEF SweepExpired, ThreadTypeOK, PCs, Stale
  <2> QED
    BY <1>7, <1>a, <2>1, <2>2 DEF SweepExpired, TypeOK, KafkaTypeOK, kafka
<1>8. CASE Announce
  <2>1. PICK i \in todo :
          /\ todo' = todo \ {i}
          /\ job' = [job EXCEPT ![Sweeper] = [NoJob EXCEPT !.inc = i, !.seen = state[i]]]
    BY <1>8 DEF Announce
  <2>2. [NoJob EXCEPT !.inc = i, !.seen = state[i]] \in Job
    BY <1>a, NoJobType DEF ThreadTypeOK, DbTypeOK, Job
  <2>3. job' \in [Threads -> Job]
    BY <2>1, <2>2, <1>a DEF ThreadTypeOK
  <2>4. pc' \in [Threads -> PCs]
    BY <1>8, <1>a, GotoType DEF Announce, PCs
  <2> QED
    BY <1>8, <1>a, <2>1, <2>3, <2>4, DbUnchangedType
       DEF Announce, TypeOK, ThreadTypeOK, KafkaTypeOK, kafka
<1>9. ASSUME NEW t \in Threads, StartAnalysis(t) PROVE TypeOK'
  <2>1. DbTypeOK'
    BY <1>9, <1>a, MarkAnalyzingType DEF StartAnalysis, HasIncident, Analysing
  <2>2. ThreadTypeOK'
    BY <1>9, <1>a, GotoType DEF StartAnalysis, ThreadTypeOK, PCs
  <2> QED
    BY <1>9, <1>a, <2>1, <2>2 DEF StartAnalysis, TypeOK, KafkaTypeOK, kafka
<1>10. ASSUME NEW t \in Threads, Diagnose(t) PROVE TypeOK'
  <2>1. ThreadTypeOK'
    <3>1. ASSUME NEW answer \in Answers, job' = [job EXCEPT ![t].answer = answer],
                 Goto(t, "complete")
          PROVE  ThreadTypeOK'
      <4>1. [job[t] EXCEPT !.answer = answer] \in Job
        BY <1>b, JobType
      <4>2. job' \in [Threads -> Job]
        BY <3>1, <4>1, <1>a DEF ThreadTypeOK
      <4> QED
        BY <1>10, <3>1, <4>2, <1>a, GotoType DEF Diagnose, ThreadTypeOK, PCs
    <3>2. CASE Goto(t, "fail") /\ UNCHANGED job
      BY <1>10, <3>2, <1>a, GotoType DEF Diagnose, ThreadTypeOK, PCs
    <3> QED
      BY <1>10, <3>1, <3>2 DEF Diagnose
  <2> QED
    BY <1>10, <1>a, <2>1, DbUnchangedType DEF Diagnose, TypeOK, KafkaTypeOK, kafka
<1>11. ASSUME NEW t \in Threads, CompleteAnalysis(t) PROVE TypeOK'
  <2>1. job[t].answer \in Answers \cup {<<>>}
    BY <1>b DEF Job
  <2>2. DbTypeOK'
    BY <1>11, <1>a, <2>1, SaveAnalysisResultType DEF CompleteAnalysis, HasIncident, Analysing
  <2>3. ThreadTypeOK'
    BY <1>11, <1>a, GotoType DEF CompleteAnalysis, ThreadTypeOK, PCs
  <2> QED
    BY <1>11, <1>a, <2>2, <2>3 DEF CompleteAnalysis, TypeOK, KafkaTypeOK, kafka
<1>12. ASSUME NEW t \in Threads, FailAnalysis(t) PROVE TypeOK'
  <2>1. DbTypeOK'
    BY <1>12, <1>a, MarkAnalysisFailedType DEF FailAnalysis, HasIncident, Analysing
  <2>2. ThreadTypeOK'
    BY <1>12, <1>a, GotoType DEF FailAnalysis, ThreadTypeOK, PCs
  <2> QED
    BY <1>12, <1>a, <2>1, <2>2 DEF FailAnalysis, TypeOK, KafkaTypeOK, kafka
<1>13. ASSUME NEW t \in Threads, ReadBack(t) PROVE TypeOK'
  <2>1. pc' \in [Threads -> PCs]
    BY <1>13, <1>a, GotoType DEF ReadBack, PCs
  <2>2. state[job[t].inc] \in States
    BY <1>13, <1>a DEF ReadBack, HasIncident, Analysing, Emitting, DbTypeOK
  <2>3. [job[t] EXCEPT !.seen = state[job[t].inc]] \in Job
    BY <1>b, <2>2, JobType
  <2>4. job' = [job EXCEPT ![t] = [job[t] EXCEPT !.seen = state[job[t].inc]]]
    BY <1>13, <1>a DEF ReadBack, ThreadTypeOK
  <2>5. job' \in [Threads -> Job]
    BY <2>3, <2>4, <1>a DEF ThreadTypeOK
  <2> QED
    BY <1>13, <1>a, <2>1, <2>5, DbUnchangedType
       DEF ReadBack, TypeOK, ThreadTypeOK, KafkaTypeOK, kafka
<1>14. ASSUME NEW t \in Threads, Publish(t) PROVE TypeOK'
  <2>1. pc' \in [Threads -> PCs] /\ job' \in [Threads -> Job]
    <3>1. CASE Finish(t)
      BY <3>1, <1>a, FinishType
    <3>2. ASSUME NEW label \in PCs, Goto(t, label), UNCHANGED job
          PROVE  pc' \in [Threads -> PCs] /\ job' \in [Threads -> Job]
      BY <3>2, <1>a, GotoType DEF ThreadTypeOK
    <3> QED
      BY <1>14, <3>1, <3>2 DEF Publish, PCs
  <2>2. job[t].seen \in States
    BY <1>b DEF Job
  <2>3. console' \in [Incidents -> States]
    BY <1>14, <1>a, <2>2 DEF Publish
  <2> QED
    BY <1>14, <1>a, <2>1, <2>3, DbUnchangedType
       DEF Publish, TypeOK, ThreadTypeOK, KafkaTypeOK, kafka
<1>15. ASSUME NEW t \in Requests, Approve(t) PROVE TypeOK'
  <2>1. job[t].inc \in Incidents /\ job[t].rank \in Ranks \cup {None}
    BY <1>15, <1>b DEF Approve, HasIncident, Approving, Job
  <2>2. DbTypeOK'
    BY <1>15, <1>a, <2>1, DecideType, DbUnchangedType DEF Approve
  <2>3. pc' \in [Threads -> PCs] /\ job' \in [Threads -> Job]
    <3>1. CASE Finish(t)
      BY <3>1, <1>a, FinishType
    <3>2. CASE Goto(t, "log_intent") /\ UNCHANGED job
      BY <3>2, <1>a, GotoType DEF ThreadTypeOK, PCs
    <3> QED
      BY <1>15, <3>1, <3>2 DEF Approve
  <2> QED
    BY <1>15, <1>a, <2>2, <2>3 DEF Approve, TypeOK, ThreadTypeOK, KafkaTypeOK, kafka
<1>16. ASSUME NEW t \in Requests, LogIntent(t) PROVE TypeOK'
  <2>1. /\ job[t].inc \in Incidents
        /\ job[t].rank \in Ranks \cup {None}
        /\ job[t].action \in Actions \cup {None}
    BY <1>16, <1>b DEF LogIntent, HasIncident, Approving, Job
  <2>2. DbTypeOK'
    BY <1>16, <1>a, <2>1, RecordIntentType DEF LogIntent
  <2>3. ThreadTypeOK'
    BY <1>16, <1>a, GotoType DEF LogIntent, ThreadTypeOK, PCs
  <2> QED
    BY <1>16, <1>a, <2>2, <2>3 DEF LogIntent, TypeOK, KafkaTypeOK, kafka
<1>17. ASSUME NEW t \in Requests, MarkExecuted(t) PROVE TypeOK'
  <2>1. DbTypeOK'
    BY <1>17, <1>a, MarkExecutionLoggedType DEF MarkExecuted, HasIncident, Approving
  <2>2. ThreadTypeOK'
    BY <1>17, <1>a, GotoType DEF MarkExecuted, ThreadTypeOK, PCs
  <2> QED
    BY <1>17, <1>a, <2>1, <2>2 DEF MarkExecuted, TypeOK, KafkaTypeOK, kafka
<1>18. ASSUME NEW t \in Requests, Reject(t) PROVE TypeOK'
  <2>1. job[t].inc \in Incidents /\ job[t].rank \in Ranks \cup {None}
    BY <1>18, <1>b DEF Reject, HasIncident, Rejecting, Job
  <2>2. DbTypeOK'
    BY <1>18, <1>a, <2>1, DecideType, DbUnchangedType DEF Reject
  <2>3. pc' \in [Threads -> PCs] /\ job' \in [Threads -> Job]
    <3>1. CASE Finish(t)
      BY <3>1, <1>a, FinishType
    <3>2. CASE job' = [job EXCEPT ![t].seen = "REJECTED"] /\ Goto(t, "save_feedback")
      <4>1. [job[t] EXCEPT !.seen = "REJECTED"] \in Job
        BY <1>b, JobType DEF States
      <4>2. job' = [job EXCEPT ![t] = [job[t] EXCEPT !.seen = "REJECTED"]]
        BY <3>2, <1>a DEF ThreadTypeOK
      <4> QED
        BY <3>2, <4>1, <4>2, <1>a, GotoType DEF ThreadTypeOK, PCs
    <3> QED
      BY <1>18, <3>1, <3>2 DEF Reject
  <2> QED
    BY <1>18, <1>a, <2>2, <2>3 DEF Reject, TypeOK, ThreadTypeOK, KafkaTypeOK, kafka
<1>19. ASSUME NEW t \in Requests, SaveFeedback(t) PROVE TypeOK'
  <2>1. job[t].inc \in Incidents /\ job[t].rank \in Ranks \cup {None}
    BY <1>19, <1>b DEF SaveFeedback, HasIncident, Rejecting, Job
  <2>2. DbTypeOK'
    BY <1>19, <1>a, <2>1, SaveRejectionFeedbackType DEF SaveFeedback
  <2>3. ThreadTypeOK'
    BY <1>19, <1>a, GotoType DEF SaveFeedback, ThreadTypeOK, PCs
  <2> QED
    BY <1>19, <1>a, <2>2, <2>3 DEF SaveFeedback, TypeOK, KafkaTypeOK, kafka
<1>20. ASSUME NEW t \in Requests, NEW i \in Incidents, NEW r \in Ranks, ApproveRead(t, i, r)
       PROVE  TypeOK'
  <2>1. Chosen(hyps[i], r) \in Actions
    BY <1>20, <1>a, ChosenIsAction DEF ApproveRead, DbTypeOK
  <2>2. [NoJob EXCEPT !.inc = i, !.rank = r, !.action = Chosen(hyps[i], r)] \in Job
    BY <2>1, NoJobType DEF Job
  <2>3. ThreadTypeOK'
    BY <1>20, <2>2, <1>a, GotoType DEF ApproveRead, ThreadTypeOK, PCs
  <2> QED
    BY <1>20, <1>a, <2>3, DbUnchangedType DEF ApproveRead, TypeOK, KafkaTypeOK, kafka
<1>21. ASSUME NEW t \in Requests, NEW i \in Incidents, NEW r \in Ranks \cup {None},
              RejectRead(t, i, r)
       PROVE  TypeOK'
  <2>1. [NoJob EXCEPT !.inc = i, !.rank = r] \in Job
    BY NoJobType DEF Job
  <2>2. ThreadTypeOK'
    BY <1>21, <2>1, <1>a, GotoType DEF RejectRead, ThreadTypeOK, PCs
  <2> QED
    BY <1>21, <1>a, <2>2, DbUnchangedType DEF RejectRead, TypeOK, KafkaTypeOK, kafka
<1>22. ASSUME NEW t \in Requests, NEW i \in Incidents, RequestInfo(t, i) PROVE TypeOK'
  <2>1. [NoJob EXCEPT !.inc = i, !.seen = "AWAITING_APPROVAL"] \in Job
    BY NoJobType DEF Job, States
  <2>2. ThreadTypeOK'
    BY <1>22, <2>1, <1>a, GotoType DEF RequestInfo, ThreadTypeOK, PCs
  <2>3. DbTypeOK'
    BY <1>22, <1>a, LogRequestInfoType DEF RequestInfo
  <2> QED
    BY <1>22, <1>a, <2>2, <2>3 DEF RequestInfo, TypeOK, KafkaTypeOK, kafka
<1>23. ASSUME NEW t \in Requests, NEW i \in Incidents, ReanalyzeRead(t, i) PROVE TypeOK'
  <2>1. [NoJob EXCEPT !.inc = i] \in Job
    BY NoJobType DEF Job
  <2>2. ThreadTypeOK'
    BY <1>23, <2>1, <1>a, GotoType DEF ReanalyzeRead, ThreadTypeOK, PCs
  <2> QED
    BY <1>23, <1>a, <2>2, DbUnchangedType DEF ReanalyzeRead, TypeOK, KafkaTypeOK, kafka
<1>24. ASSUME NEW i \in Incidents, DeadlinePasses(i) PROVE TypeOK'
  <2>1. DbTypeOK'
    BY <1>24, <1>a DEF DeadlinePasses, DbTypeOK
  <2> QED
    BY <1>24, <1>a, <2>1 DEF DeadlinePasses, TypeOK, ThreadTypeOK, KafkaTypeOK, kafka, threads
<1>25. CASE LoseBroker
  <2>1. faults' \in [FaultKinds -> Nat]
    BY <1>25, <1>a DEF LoseBroker, FaultKinds
  <2>2. ThreadTypeOK'
    BY <1>25, <1>a, GotoType DEF LoseBroker, ThreadTypeOK, PCs
  <2> QED
    BY <1>25, <1>a, <2>1, <2>2, DbUnchangedType DEF LoseBroker, TypeOK, KafkaTypeOK, kafka
<1>26. CASE Crash
  <2>1. faults' \in [FaultKinds -> Nat]
    BY <1>26, <1>a DEF Crash, FaultKinds
  <2>2. ThreadTypeOK'
    BY <1>26, NoJobType DEF Crash, ThreadTypeOK, PCs
  <2> QED
    BY <1>26, <1>a, <2>1, <2>2, DbUnchangedType DEF Crash, TypeOK, KafkaTypeOK, kafka
<1>27. ASSUME NEW t \in Threads, DatabaseFails(t) PROVE TypeOK'
  <2>1. faults' \in [FaultKinds -> Nat]
    BY <1>27, <1>a DEF DatabaseFails, FaultKinds
  <2>2. ThreadTypeOK'
    BY <1>27, <1>a, FinishType DEF DatabaseFails, ThreadTypeOK
  <2> QED
    BY <1>27, <1>a, <2>1, <2>2, DbUnchangedType DEF DatabaseFails, TypeOK, KafkaTypeOK, kafka
<1>28. ASSUME NEW t \in Threads, VersionLookupRaises(t) PROVE TypeOK'
  <2>1. faults' \in [FaultKinds -> Nat]
    BY <1>28, <1>a DEF VersionLookupRaises, FaultKinds
  <2>2. ThreadTypeOK'
    BY <1>28, <1>a, FinishType DEF VersionLookupRaises, ThreadTypeOK
  <2> QED
    BY <1>28, <1>a, <2>1, <2>2, DbUnchangedType
       DEF VersionLookupRaises, TypeOK, KafkaTypeOK, kafka
<1>29. CASE UNCHANGED vars
  BY <1>29, <1>a, DbUnchangedType DEF vars, TypeOK, KafkaTypeOK, kafka, ThreadTypeOK, threads
<1> QED
  BY <1>1, <1>2, <1>3, <1>4, <1>5, <1>6, <1>7, <1>8, <1>9, <1>10, <1>11, <1>12, <1>13,
     <1>14, <1>15, <1>16, <1>17, <1>18, <1>19, <1>20, <1>21, <1>22, <1>23, <1>24, <1>25,
     <1>26, <1>27, <1>28, <1>29
     DEF Next, ConsumerStep, SweeperStep, Proceed, ProceedRequest, NewRequest, Fault

-----------------------------------------------------------------------------
(***************************************************************************)
(* What one step of the process does to one incident: nothing, or one      *)
(* lifecycle transition with its audit entry, or the executor's flag, or   *)
(* the feedback row.                                                       *)
(***************************************************************************)
RowKept(i) ==
  /\ state'[i] = state[i] /\ anomaly'[i] = anomaly[i] /\ hyps'[i] = hyps[i]
  /\ decision'[i] = decision[i] /\ executed'[i] = executed[i]
  /\ trail'[i] = trail[i] /\ feedback'[i] = feedback[i]

Transition(i, e) ==
  /\ trail'[i] = Append(trail[i], e)
  /\ state'[i] = StateAnnounced[e.event]
  /\ trail[i] = <<>> => e.event = "INCIDENT_DETECTED"
  /\ trail[i] # <<>> => e.event \in Successors[Last(trail[i]).event]
  /\ e.event # "INCIDENT_DETECTED" => anomaly'[i] = anomaly[i]
  /\ e.event # "ANALYSIS_COMPLETE" => hyps'[i] = hyps[i]
  /\ e.event \notin {"APPROVED", "REJECTED"} => decision'[i] = decision[i]
  /\ e.event = "EXECUTION_INTENT_LOGGED" =>
       /\ decision[i] # None
       /\ e.rank = decision[i].rank
       /\ e.rank \in RanksOf(hyps[i])
       /\ e.action = Chosen(hyps[i], e.rank)
  /\ executed'[i] = executed[i]
  /\ feedback'[i] = feedback[i]

FlagSet(i) ==
  /\ Logged(i, "EXECUTION_INTENT_LOGGED")
  /\ state'[i] = state[i] /\ anomaly'[i] = anomaly[i] /\ hyps'[i] = hyps[i]
  /\ decision'[i] = decision[i] /\ trail'[i] = trail[i] /\ feedback'[i] = feedback[i]

FeedbackSaved(i) ==
  /\ state[i] = "REJECTED" /\ feedback[i] = <<>>
  /\ feedback'[i] = <<decision[i]>>
  /\ state'[i] = state[i] /\ anomaly'[i] = anomaly[i] /\ hyps'[i] = hyps[i]
  /\ decision'[i] = decision[i] /\ executed'[i] = executed[i] /\ trail'[i] = trail[i]

QuietStep(i) ==
  \/ RowKept(i)
  \/ \E e \in Entry : e.event # "EXECUTION_INTENT_LOGGED" /\ Transition(i, e)

RowStep(i) ==
  \/ QuietStep(i)
  \/ \E e \in Entry : Transition(i, e)
  \/ FlagSet(i)
  \/ FeedbackSaved(i)

(* What the two tables of events say, event by event.                      *)
LEMMA EventTables ==
  /\ \A e \in Events : StateAnnounced[e] \in States \ {"ABSENT"}
  /\ \A e \in Events : Successors[e] \subseteq Events
  /\ \A e \in Events : StateAnnounced[e] = "DETECTED" => e = "INCIDENT_DETECTED"
  /\ \A e \in Events : StateAnnounced[e] = "ANALYZING" => e = "ANALYSIS_STARTED"
  /\ \A e \in Events : StateAnnounced[e] = "ANALYSIS_FAILED" => e = "ANALYSIS_FAILED"
  /\ \A e \in Events : StateAnnounced[e] = "AWAITING_APPROVAL" =>
                         e \in {"ANALYSIS_COMPLETE", "MORE_INFO_REQUESTED"}
  /\ \A e \in Events : StateAnnounced[e] = "APPROVED" =>
                         e \in {"APPROVED", "EXECUTION_INTENT_LOGGED"}
  /\ \A e \in Events : StateAnnounced[e] = "REJECTED" => e = "REJECTED"
  /\ \A e \in Events : StateAnnounced[e] = "EXPIRED" => e = "EXPIRED"
BY DEF Events, StateAnnounced, States, Successors

(* The last entry of a trail that is not empty is an entry.                *)
LEMMA LastEntry ==
  ASSUME NEW s \in Seq(Entry), s # <<>>
  PROVE  Last(s) \in Entry /\ Last(s).event \in Events
<1>1. Last(s) \in Entry
  BY DEF Last
<1> QED
  BY <1>1 DEF Entry

(* Append adds one entry at the end and keeps the others.                  *)
LEMMA AppendEntry ==
  ASSUME NEW s \in Seq(Entry), NEW e \in Entry
  PROVE  /\ Append(s, e) # <<>>
         /\ Append(s, e) \in Seq(Entry)
         /\ Last(Append(s, e)) = e
         /\ Len(Append(s, e)) = Len(s) + 1
         /\ \A k \in 1..Len(s) : Append(s, e)[k] = s[k]
BY DEF Last

(* The row and the end of its trail, as TrailIsLifecyclePath relates them. *)
LEMMA StateIsLast ==
  ASSUME DbTypeOK, TrailIsLifecyclePath, NEW i \in Incidents
  PROVE  /\ state[i] = "ABSENT" <=> trail[i] = <<>>
         /\ trail[i] \in Seq(Entry)
         /\ trail[i] # <<>> => /\ Last(trail[i]).event \in Events
                               /\ state[i] = StateAnnounced[Last(trail[i]).event]
BY LastEntry DEF DbTypeOK, TrailIsLifecyclePath

(* A transaction that changes no column keeps every row.                   *)
LEMMA RowsKept ==
  ASSUME UNCHANGED db
  PROVE  \A i \in Incidents : RowKept(i)
BY DEF db, RowKept

(* create_detected starts one trail and keeps the other rows.              *)
LEMMA CreateDetectedRows ==
  ASSUME DbTypeOK, TrailIsLifecyclePath, NEW i \in Incidents, NEW a, CreateDetected(i, a)
  PROVE  \A j \in Incidents : QuietStep(j)
<1>1. ASSUME NEW j \in Incidents, j # i PROVE RowKept(j)
  BY <1>1 DEF CreateDetected, AppendAudit, RowKept, DbTypeOK
<1>2. Note("INCIDENT_DETECTED") \in Entry /\ Note("INCIDENT_DETECTED").event = "INCIDENT_DETECTED"
  BY NoteType DEF Note, Events
<1>3. Transition(i, Note("INCIDENT_DETECTED"))
  BY <1>2, StateIsLast DEF CreateDetected, AppendAudit, Transition, DbTypeOK, StateAnnounced
<1> QED
  BY <1>1, <1>2, <1>3 DEF QuietStep

(* mark_analyzing is a lifecycle transition of one row, or nothing.        *)
LEMMA MarkAnalyzingRows ==
  ASSUME DbTypeOK, TrailIsLifecyclePath, NEW i \in Incidents, state[i] # "ABSENT",
         MarkAnalyzing(i)
  PROVE  \A j \in Incidents : QuietStep(j)
<1>1. CASE state[i] \in {"DETECTED", "ANALYSIS_FAILED"}
  <2>1. ASSUME NEW j \in Incidents, j # i PROVE RowKept(j)
    BY <1>1, <2>1 DEF MarkAnalyzing, AppendAudit, RowKept, DbTypeOK
  <2>2. Note("ANALYSIS_STARTED") \in Entry /\ Note("ANALYSIS_STARTED").event = "ANALYSIS_STARTED"
    BY NoteType DEF Note, Events
  <2>3. trail[i] # <<>> /\ Last(trail[i]).event \in {"INCIDENT_DETECTED", "ANALYSIS_FAILED"}
    BY <1>1, StateIsLast, EventTables
  <2>4. "ANALYSIS_STARTED" \in Successors[Last(trail[i]).event]
    BY <2>3 DEF Successors
  <2>5. Transition(i, Note("ANALYSIS_STARTED"))
    BY <1>1, <2>2, <2>3, <2>4
       DEF MarkAnalyzing, AppendAudit, Transition, DbTypeOK, StateAnnounced
  <2> QED
    BY <2>1, <2>2, <2>5 DEF QuietStep
<1>2. CASE ~(state[i] \in {"DETECTED", "ANALYSIS_FAILED"})
  BY <1>2, RowsKept DEF MarkAnalyzing, QuietStep
<1> QED
  BY <1>1, <1>2

(* save_analysis_result is a transition of one row, or nothing.            *)
LEMMA SaveAnalysisResultRows ==
  ASSUME DbTypeOK, TrailIsLifecyclePath, NEW i \in Incidents, NEW answer, SaveAnalysisResult(i, answer)
  PROVE  \A j \in Incidents : QuietStep(j)
<1>1. CASE state[i] = "ANALYZING"
  <2>1. ASSUME NEW j \in Incidents, j # i PROVE RowKept(j)
    BY <1>1, <2>1 DEF SaveAnalysisResult, AppendAudit, RowKept, DbTypeOK
  <2>2. Note("ANALYSIS_COMPLETE") \in Entry /\ Note("ANALYSIS_COMPLETE").event = "ANALYSIS_COMPLETE"
    BY NoteType DEF Note, Events
  <2>3. trail[i] # <<>> /\ Last(trail[i]).event \in {"ANALYSIS_STARTED"}
    BY <1>1, StateIsLast, EventTables
  <2>4. "ANALYSIS_COMPLETE" \in Successors[Last(trail[i]).event]
    BY <2>3 DEF Successors
  <2>5. Transition(i, Note("ANALYSIS_COMPLETE"))
    BY <1>1, <2>2, <2>3, <2>4
       DEF SaveAnalysisResult, AppendAudit, Transition, DbTypeOK, StateAnnounced
  <2> QED
    BY <2>1, <2>2, <2>5 DEF QuietStep
<1>2. CASE ~(state[i] = "ANALYZING")
  BY <1>2, RowsKept DEF SaveAnalysisResult, QuietStep
<1> QED
  BY <1>1, <1>2

(* mark_analysis_failed is a transition of one row, or nothing.            *)
LEMMA MarkAnalysisFailedRows ==
  ASSUME DbTypeOK, TrailIsLifecyclePath, NEW i \in Incidents, MarkAnalysisFailed(i)
  PROVE  \A j \in Incidents : QuietStep(j)
<1>1. CASE state[i] = "ANALYZING"
  <2>1. ASSUME NEW j \in Incidents, j # i PROVE RowKept(j)
    BY <1>1, <2>1 DEF MarkAnalysisFailed, AppendAudit, RowKept, DbTypeOK
  <2>2. Note("ANALYSIS_FAILED") \in Entry /\ Note("ANALYSIS_FAILED").event = "ANALYSIS_FAILED"
    BY NoteType DEF Note, Events
  <2>3. trail[i] # <<>> /\ Last(trail[i]).event \in {"ANALYSIS_STARTED"}
    BY <1>1, StateIsLast, EventTables
  <2>4. "ANALYSIS_FAILED" \in Successors[Last(trail[i]).event]
    BY <2>3 DEF Successors
  <2>5. Transition(i, Note("ANALYSIS_FAILED"))
    BY <1>1, <2>2, <2>3, <2>4
       DEF MarkAnalysisFailed, AppendAudit, Transition, DbTypeOK, StateAnnounced
  <2> QED
    BY <2>1, <2>2, <2>5 DEF QuietStep
<1>2. CASE ~(state[i] = "ANALYZING")
  BY <1>2, RowsKept DEF MarkAnalysisFailed, QuietStep
<1> QED
  BY <1>1, <1>2

(* decide is a transition of one row, to the verdict.                      *)
LEMMA DecideRows ==
  ASSUME DbTypeOK, TrailIsLifecyclePath, NEW i \in Incidents,
         NEW verdict \in {"APPROVED", "REJECTED"}, NEW r \in Ranks \cup {None}, NEW t \in Requests,
         Decide(i, verdict, r, t)
  PROVE  \A j \in Incidents : QuietStep(j)
<1> DEFINE e == [event |-> verdict, rank |-> r, action |-> None]
<1>1. ASSUME NEW j \in Incidents, j # i PROVE RowKept(j)
  BY <1>1 DEF Decide, AppendAudit, RowKept, DbTypeOK
<1>2. e \in Entry
  BY DEF Entry, Events
<1>3. trail[i] # <<>> /\ Last(trail[i]).event \in {"ANALYSIS_COMPLETE", "MORE_INFO_REQUESTED"}
  BY StateIsLast, EventTables DEF Decide
<1>4. verdict \in Successors[Last(trail[i]).event]
  BY <1>3 DEF Successors
<1>5. state'[i] = StateAnnounced[verdict]
  BY DEF Decide, DbTypeOK, StateAnnounced
<1>6. Transition(i, e)
  BY <1>2, <1>3, <1>4, <1>5 DEF Decide, AppendAudit, Transition, DbTypeOK
<1> QED
  BY <1>1, <1>2, <1>6 DEF QuietStep

(* log_request_info extends the trail of a row that keeps its state.       *)
LEMMA LogRequestInfoRows ==
  ASSUME DbTypeOK, TrailIsLifecyclePath, NEW i \in Incidents, LogRequestInfo(i)
  PROVE  \A j \in Incidents : QuietStep(j)
<1>1. ASSUME NEW j \in Incidents, j # i PROVE RowKept(j)
  BY <1>1 DEF LogRequestInfo, AppendAudit, RowKept, DbTypeOK
<1>2. /\ Note("MORE_INFO_REQUESTED") \in Entry
      /\ Note("MORE_INFO_REQUESTED").event = "MORE_INFO_REQUESTED"
  BY NoteType DEF Note, Events
<1>3. trail[i] # <<>> /\ Last(trail[i]).event \in {"ANALYSIS_COMPLETE", "MORE_INFO_REQUESTED"}
  BY StateIsLast, EventTables DEF LogRequestInfo
<1>4. "MORE_INFO_REQUESTED" \in Successors[Last(trail[i]).event]
  BY <1>3 DEF Successors
<1>5. Transition(i, Note("MORE_INFO_REQUESTED"))
  BY <1>2, <1>3, <1>4
     DEF LogRequestInfo, AppendAudit, Transition, DbTypeOK, StateAnnounced
<1> QED
  BY <1>1, <1>2, <1>5 DEF QuietStep

(* expire_stale is a transition of every row it finds stale.               *)
LEMMA ExpireStaleRows ==
  ASSUME DbTypeOK, TrailIsLifecyclePath, ExpireStale(Stale)
  PROVE  \A j \in Incidents : QuietStep(j)
<1>1. ASSUME NEW j \in Incidents, j \notin Stale PROVE RowKept(j)
  BY <1>1 DEF ExpireStale, RowKept, DbTypeOK
<1>2. Note("EXPIRED") \in Entry /\ Note("EXPIRED").event = "EXPIRED"
  BY NoteType DEF Note, Events
<1>3. ASSUME NEW j \in Stale PROVE Transition(j, Note("EXPIRED"))
  <2>1. j \in Incidents /\ state[j] = "AWAITING_APPROVAL"
    BY DEF Stale
  <2>2. trail[j] # <<>> /\ Last(trail[j]).event \in {"ANALYSIS_COMPLETE", "MORE_INFO_REQUESTED"}
    BY <2>1, StateIsLast, EventTables
  <2>3. "EXPIRED" \in Successors[Last(trail[j]).event]
    BY <2>2 DEF Successors
  <2>4. trail'[j] = Append(trail[j], Note("EXPIRED")) /\ state'[j] = "EXPIRED"
    BY <2>1 DEF ExpireStale
  <2> QED
    BY <1>2, <2>1, <2>2, <2>3, <2>4 DEF ExpireStale, Transition, StateAnnounced
<1> QED
  BY <1>1, <1>2, <1>3 DEF QuietStep

(* The intent is a transition when it names what was approved.             *)
LEMMA RecordIntentRows ==
  ASSUME DbTypeOK, TrailIsLifecyclePath, NEW i \in Incidents, NEW r \in Ranks \cup {None},
         NEW act \in Actions \cup {None}, RecordIntent(i, r, act),
         state[i] # "ABSENT", Last(trail[i]).event = "APPROVED",
         decision[i] # None, decision[i].rank = r, r \in RanksOf(hyps[i]),
         act = Chosen(hyps[i], r)
  PROVE  \A j \in Incidents : RowStep(j)
<1> DEFINE e == [event |-> "EXECUTION_INTENT_LOGGED", rank |-> r, action |-> act]
<1>1. ASSUME NEW j \in Incidents, j # i PROVE RowKept(j)
  BY <1>1 DEF RecordIntent, AppendAudit, RowKept, DbTypeOK
<1>2. e \in Entry
  BY DEF Entry, Events
<1>3. "EXECUTION_INTENT_LOGGED" \in Successors[Last(trail[i]).event]
  BY DEF Successors
<1>4. trail[i] # <<>> /\ state[i] = "APPROVED"
  BY StateIsLast DEF StateAnnounced
<1>5. state'[i] = StateAnnounced["EXECUTION_INTENT_LOGGED"]
  BY <1>4 DEF RecordIntent, StateAnnounced
<1>6. Transition(i, e)
  BY <1>2, <1>3, <1>4, <1>5 DEF RecordIntent, AppendAudit, Transition, DbTypeOK
<1> QED
  BY <1>1, <1>2, <1>6 DEF RowStep, QuietStep

(* The executor's flag is set on a row whose intent is logged.             *)
LEMMA MarkExecutionLoggedRows ==
  ASSUME DbTypeOK, NEW i \in Incidents, MarkExecutionLogged(i),
         Logged(i, "EXECUTION_INTENT_LOGGED")
  PROVE  \A j \in Incidents : RowStep(j)
<1>1. ASSUME NEW j \in Incidents, j # i PROVE RowKept(j)
  BY <1>1 DEF MarkExecutionLogged, RowKept, DbTypeOK
<1>2. FlagSet(i)
  BY DEF MarkExecutionLogged, FlagSet
<1> QED
  BY <1>1, <1>2 DEF RowStep, QuietStep

(* The feedback row repeats the decision of a rejected row.                *)
LEMMA SaveRejectionFeedbackRows ==
  ASSUME DbTypeOK, NEW i \in Incidents, NEW r, NEW t, SaveRejectionFeedback(i, r, t),
         state[i] = "REJECTED", feedback[i] = <<>>, decision[i] = [rank |-> r, by |-> t]
  PROVE  \A j \in Incidents : RowStep(j)
<1>1. ASSUME NEW j \in Incidents, j # i PROVE RowKept(j)
  BY <1>1 DEF SaveRejectionFeedback, RowKept, DbTypeOK
<1>2. FeedbackSaved(i)
  BY DEF SaveRejectionFeedback, FeedbackSaved, DbTypeOK
<1> QED
  BY <1>1, <1>2 DEF RowStep, QuietStep

(* Consequences of a row's step that several invariants use. *)
LEMMA StepIsTransition ==
  ASSUME NEW i \in Incidents, RowStep(i)
  PROVE  \/ /\ trail'[i] = trail[i] /\ state'[i] = state[i] /\ hyps'[i] = hyps[i]
            /\ decision'[i] = decision[i] /\ anomaly'[i] = anomaly[i]
         \/ \E e \in Entry : Transition(i, e)
BY DEF RowStep, QuietStep, RowKept, FlagSet, FeedbackSaved

(* What a trail has announced or logged, it has for good.                  *)
LEMMA TrailsGrow ==
  ASSUME DbTypeOK, NEW i \in Incidents, RowStep(i)
  PROVE  /\ \A s : Reached(i, s) => Reached(i, s)'
         /\ \A e : Logged(i, e) => Logged(i, e)'
<1>1. trail[i] \in Seq(Entry)
  BY DEF DbTypeOK
<1>2. CASE trail'[i] = trail[i]
  BY <1>2 DEF Reached, Logged
<1>3. ASSUME NEW e \in Entry, Transition(i, e)
      PROVE  \A k \in DOMAIN trail[i] : k \in DOMAIN trail'[i] /\ trail'[i][k] = trail[i][k]
  BY <1>1, <1>3 DEF Transition
<1> QED
  BY <1>2, <1>3, StepIsTransition DEF Reached, Logged

(* A row never goes back to ABSENT, leaves AWAITING_APPROVAL only for a    *)
(* verdict, and keeps a verdict.                                           *)
LEMMA VerdictsStay ==
  ASSUME DbTypeOK, TrailIsLifecyclePath, NEW i \in Incidents, RowStep(i)
  PROVE  /\ state[i] # "ABSENT" => state'[i] # "ABSENT"
         /\ state[i] = "AWAITING_APPROVAL" =>
              /\ state'[i] \in {"AWAITING_APPROVAL"} \cup Terminal
              /\ hyps'[i] = hyps[i]
         /\ state[i] \in Terminal =>
              /\ state'[i] = state[i]
              /\ hyps'[i] = hyps[i]
              /\ decision'[i] = decision[i]
<1>1. CASE /\ state'[i] = state[i] /\ hyps'[i] = hyps[i] /\ decision'[i] = decision[i]
  BY <1>1
<1>2. ASSUME NEW e \in Entry, Transition(i, e)
      PROVE  /\ state'[i] # "ABSENT"
             /\ state[i] = "AWAITING_APPROVAL" =>
                  /\ state'[i] \in {"AWAITING_APPROVAL"} \cup Terminal
                  /\ hyps'[i] = hyps[i]
             /\ state[i] \in Terminal =>
                  /\ state'[i] = state[i]
                  /\ hyps'[i] = hyps[i]
                  /\ decision'[i] = decision[i]
  <2>1. e.event \in Events
    BY DEF Entry
  <2>2. state'[i] # "ABSENT"
    BY <1>2, <2>1, EventTables DEF Transition
  <2>3. ASSUME state[i] = "AWAITING_APPROVAL"
        PROVE  e.event \in {"MORE_INFO_REQUESTED", "APPROVED", "REJECTED", "EXPIRED"}
    BY <1>2, <2>3, StateIsLast, EventTables DEF Transition, Successors
  <2>4. ASSUME state[i] \in Terminal
        PROVE  e.event = "EXECUTION_INTENT_LOGGED" /\ state[i] = "APPROVED"
    <3>1. trail[i] # <<>> /\ Last(trail[i]).event \in
                               {"APPROVED", "EXECUTION_INTENT_LOGGED", "REJECTED", "EXPIRED"}
      BY <2>4, StateIsLast, EventTables DEF Terminal
    <3>2. Last(trail[i]).event = "APPROVED" /\ e.event = "EXECUTION_INTENT_LOGGED"
      BY <1>2, <3>1 DEF Transition, Successors
    <3> QED
      BY <3>1, <3>2, StateIsLast DEF StateAnnounced
  <2> QED
    BY <1>2, <2>2, <2>3, <2>4 DEF Transition, StateAnnounced, Terminal
<1> QED
  BY <1>1, <1>2, StepIsTransition

(***************************************************************************)
(* Which steps touch the rows, and how.  Only the three transactions that  *)
(* follow a verdict are not quiet, and the handler's local variables make  *)
(* each of them the step its row allows.                                   *)
(***************************************************************************)
LEMMA StepsAreRowSteps ==
  ASSUME TypeOK, TrailIsLifecyclePath, \A t \in Threads : JobIsSound(t), [Next]_vars
  PROVE  /\ \A i \in Incidents : RowStep(i)
         /\ \/ \A i \in Incidents : QuietStep(i)
            \/ \E t \in Requests : LogIntent(t) \/ MarkExecuted(t) \/ SaveFeedback(t)
<1> USE ThreadsType
<1>a. DbTypeOK /\ \A t \in Threads : job[t] \in Job
  BY DEF TypeOK, ThreadTypeOK
<1>b. ASSUME \A i \in Incidents : QuietStep(i)
      PROVE  \A i \in Incidents : RowStep(i)
  BY <1>b DEF RowStep
<1>c. ASSUME UNCHANGED db PROVE \A i \in Incidents : QuietStep(i)
  BY <1>c, RowsKept DEF QuietStep
<1>1. CASE /\ Next
           /\ ~ OpenIncident /\ ~ SweepExpired
           /\ \A t \in Threads : ~ StartAnalysis(t) /\ ~ CompleteAnalysis(t) /\ ~ FailAnalysis(t)
           /\ \A t \in Requests : ~ ProceedRequest(t)
           /\ \A t \in Requests, i \in Incidents : ~ RequestInfo(t, i)
           /\ \A i \in Incidents : ~ DeadlinePasses(i)
  <2>1. UNCHANGED db
    BY <1>1 DEF Next, ConsumerStep, SweeperStep, Proceed, NewRequest, Fault, PublishAnomaly,
       Connect, Fetch, Commit, LookupAnomaly, Announce, Diagnose, ReadBack, Publish,
       ApproveRead, RejectRead, ReanalyzeRead, LoseBroker, Crash, DatabaseFails,
       VersionLookupRaises
  <2> QED
    BY <2>1, <1>b, <1>c
<1>2. CASE OpenIncident
  BY <1>2, <1>a, <1>b, CreateDetectedRows DEF OpenIncident
<1>3. CASE SweepExpired
  BY <1>3, <1>a, <1>b, ExpireStaleRows DEF SweepExpired
<1>4. ASSUME NEW t \in Threads, StartAnalysis(t) PROVE \A i \in Incidents : QuietStep(i)
  BY <1>4, <1>a, MarkAnalyzingRows DEF StartAnalysis, JobIsSound, HasIncident, Analysing
<1>5. ASSUME NEW t \in Threads, CompleteAnalysis(t) PROVE \A i \in Incidents : QuietStep(i)
  BY <1>5, <1>a, SaveAnalysisResultRows
     DEF CompleteAnalysis, JobIsSound, HasIncident, Analysing
<1>6. ASSUME NEW t \in Threads, FailAnalysis(t) PROVE \A i \in Incidents : QuietStep(i)
  BY <1>6, <1>a, MarkAnalysisFailedRows DEF FailAnalysis, JobIsSound, HasIncident, Analysing
<1>7. ASSUME NEW t \in Requests, Approve(t) PROVE \A i \in Incidents : QuietStep(i)
  <2>1. job[t].inc \in Incidents /\ job[t].rank \in Ranks \cup {None}
    BY <1>7, <1>a DEF Approve, JobIsSound, HasIncident, Approving, Job
  <2> QED
    BY <1>7, <2>1, <1>a, <1>c, DecideRows DEF Approve
<1>8. ASSUME NEW t \in Requests, Reject(t) PROVE \A i \in Incidents : QuietStep(i)
  <2>1. job[t].inc \in Incidents /\ job[t].rank \in Ranks \cup {None}
    BY <1>8, <1>a DEF Reject, JobIsSound, HasIncident, Rejecting, Job
  <2> QED
    BY <1>8, <2>1, <1>a, <1>c, DecideRows DEF Reject
<1>9. ASSUME NEW t \in Requests, LogIntent(t) PROVE \A i \in Incidents : RowStep(i)
  <2> DEFINE i == job[t].inc
  <2>1. /\ i \in Incidents /\ state[i] # "ABSENT"
        /\ job[t].rank \in Ranks \cup {None} /\ job[t].action \in Actions \cup {None}
    BY <1>9, <1>a DEF LogIntent, JobIsSound, HasIncident, Approving, Job
  <2>2. /\ job[t].rank \in RanksOf(hyps[i]) /\ job[t].action = Chosen(hyps[i], job[t].rank)
    BY <1>9 DEF LogIntent, JobIsSound, ChoiceStillOffered, Approving
  <2>3. /\ Last(trail[i]).event = "APPROVED" /\ decision[i] = [rank |-> job[t].rank, by |-> t]
    BY <1>9 DEF LogIntent, JobIsSound, VerdictIsMine
  <2>4. decision[i] # None
    <3>1. decision[i] \in Decision
      BY <2>1, <2>3 DEF Decision
    <3> QED
      BY <3>1, DataAssumption
  <2>5. RecordIntent(i, job[t].rank, job[t].action)
    BY <1>9 DEF LogIntent
  <2> QED
    BY <2>1, <2>2, <2>3, <2>4, <2>5, <1>a, RecordIntentRows
<1>10. ASSUME NEW t \in Requests, MarkExecuted(t) PROVE \A i \in Incidents : RowStep(i)
  BY <1>10, <1>a, MarkExecutionLoggedRows
     DEF MarkExecuted, JobIsSound, HasIncident, VerdictIsMine, Approving
<1>11. ASSUME NEW t \in Requests, SaveFeedback(t) PROVE \A i \in Incidents : RowStep(i)
  <2>1. /\ job[t].inc \in Incidents
        /\ state[job[t].inc] = "REJECTED" /\ feedback[job[t].inc] = <<>>
        /\ decision[job[t].inc] = [rank |-> job[t].rank, by |-> t]
    BY <1>11 DEF SaveFeedback, JobIsSound, HasIncident, VerdictIsMine, Rejecting
  <2>2. SaveRejectionFeedback(job[t].inc, job[t].rank, t)
    BY <1>11 DEF SaveFeedback
  <2> QED
    BY <2>1, <2>2, <1>a, SaveRejectionFeedbackRows
<1>12. ASSUME NEW t \in Requests, NEW i \in Incidents, RequestInfo(t, i)
       PROVE  \A j \in Incidents : QuietStep(j)
  BY <1>12, <1>a, LogRequestInfoRows DEF RequestInfo
<1>13. ASSUME NEW i \in Incidents, DeadlinePasses(i) PROVE \A j \in Incidents : QuietStep(j)
  BY <1>13 DEF DeadlinePasses, QuietStep, RowKept
<1>14. CASE UNCHANGED vars
  BY <1>14, <1>b, <1>c DEF vars
<1> QED
  BY <1>1, <1>2, <1>3, <1>4, <1>5, <1>6, <1>7, <1>8, <1>9, <1>10, <1>11, <1>12, <1>13, <1>14,
     <1>b DEF ProceedRequest

-----------------------------------------------------------------------------
(***************************************************************************)
(* The properties of the rows, from what a step does to a row.             *)
(***************************************************************************)
LEMMA TrailStep ==
  ASSUME DbTypeOK, TrailIsLifecyclePath, \A i \in Incidents : RowStep(i)
  PROVE  TrailIsLifecyclePath'
<1> SUFFICES ASSUME NEW i \in Incidents
             PROVE  /\ trail'[i] = <<>> <=> state'[i] = "ABSENT"
                    /\ trail'[i] # <<>> =>
                         /\ trail'[i][1].event = "INCIDENT_DETECTED"
                         /\ state'[i] = StateAnnounced[Last(trail'[i]).event]
                    /\ \A k \in 1..(Len(trail'[i]) - 1) :
                         trail'[i][k + 1].event \in Successors[trail'[i][k].event]
  BY DEF TrailIsLifecyclePath, Last
<1>1. CASE trail'[i] = trail[i] /\ state'[i] = state[i]
  BY <1>1 DEF TrailIsLifecyclePath
<1>2. ASSUME NEW e \in Entry, Transition(i, e)
      PROVE  /\ trail'[i] = <<>> <=> state'[i] = "ABSENT"
             /\ trail'[i] # <<>> =>
                  /\ trail'[i][1].event = "INCIDENT_DETECTED"
                  /\ state'[i] = StateAnnounced[Last(trail'[i]).event]
             /\ \A k \in 1..(Len(trail'[i]) - 1) :
                  trail'[i][k + 1].event \in Successors[trail'[i][k].event]
  <2>1. trail[i] \in Seq(Entry) /\ trail'[i] = Append(trail[i], e) /\ e.event \in Events
    BY <1>2 DEF Transition, DbTypeOK, Entry
  <2>2. Last(trail'[i]) = e /\ trail'[i] # <<>> /\ Len(trail'[i]) = Len(trail[i]) + 1
    BY <2>1, AppendEntry
  <2>3. state'[i] = StateAnnounced[e.event] /\ state'[i] # "ABSENT"
    BY <1>2, <2>1, EventTables DEF Transition
  <2>4. trail'[i][1].event = "INCIDENT_DETECTED"
    <3>1. CASE trail[i] = <<>>
      BY <1>2, <2>1, <3>1 DEF Transition
    <3>2. CASE trail[i] # <<>>
      BY <2>1, <3>2, AppendEntry DEF TrailIsLifecyclePath
    <3> QED
      BY <3>1, <3>2
  <2>5. ASSUME NEW k \in 1..(Len(trail'[i]) - 1)
        PROVE  trail'[i][k + 1].event \in Successors[trail'[i][k].event]
    <3>1. CASE k = Len(trail[i])
      BY <1>2, <2>1, <3>1 DEF Transition, Last
    <3>2. CASE k \in 1..(Len(trail[i]) - 1)
      BY <2>1, <3>2 DEF TrailIsLifecyclePath
    <3> QED
      BY <2>1, <2>2, <3>1, <3>2
  <2> QED
    BY <2>2, <2>3, <2>4, <2>5
<1> QED
  BY <1>1, <1>2, StepIsTransition

(* An intent ends its trail, and its incident is APPROVED. *)
LEMMA IntentIsLast ==
  ASSUME DbTypeOK, TrailIsLifecyclePath, NEW i \in Incidents, NEW k \in DOMAIN trail[i],
         trail[i][k].event = "EXECUTION_INTENT_LOGGED"
  PROVE  k = Len(trail[i]) /\ state[i] = "APPROVED"
<1>1. trail[i] \in Seq(Entry)
  BY DEF DbTypeOK
<1>2. k = Len(trail[i])
  BY <1>1 DEF TrailIsLifecyclePath, Successors
<1>3. trail[i] # <<>> /\ Last(trail[i]).event = "EXECUTION_INTENT_LOGGED"
  BY <1>1, <1>2 DEF Last
<1> QED
  BY <1>2, <1>3, StateIsLast DEF StateAnnounced

(* A step keeps IntentIsTheApprovedAction.                                 *)
LEMMA IntentStep ==
  ASSUME DbTypeOK, DbTypeOK', TrailIsLifecyclePath, TrailIsLifecyclePath',
         IntentIsTheApprovedAction, \A i \in Incidents : RowStep(i)
  PROVE  IntentIsTheApprovedAction'
<1>1. ASSUME NEW i \in Incidents, NEW k \in DOMAIN trail'[i],
             trail'[i][k].event = "EXECUTION_INTENT_LOGGED"
      PROVE  /\ decision'[i] # None
             /\ trail'[i][k].rank = decision'[i].rank
             /\ decision'[i].rank \in RanksOf(hyps'[i])
             /\ trail'[i][k].action = Chosen(hyps'[i], decision'[i].rank)
  <2>1. CASE trail'[i] = trail[i] /\ hyps'[i] = hyps[i] /\ decision'[i] = decision[i]
    BY <1>1, <2>1 DEF IntentIsTheApprovedAction
  <2>2. ASSUME NEW e \in Entry, Transition(i, e)
        PROVE  /\ e = trail'[i][k]
               /\ e.event = "EXECUTION_INTENT_LOGGED"
    <3>1. k = Len(trail'[i])
      <4>1. trail'[i] \in Seq(Entry)
        BY DEF DbTypeOK
      <4>2. k \in 1..(Len(trail'[i]) - 1) =>
              trail'[i][k + 1].event \in Successors["EXECUTION_INTENT_LOGGED"]
        BY <1>1 DEF TrailIsLifecyclePath
      <4> QED
        BY <1>1, <4>1, <4>2 DEF Successors
    <3> QED
      BY <1>1, <2>2, <3>1, AppendEntry DEF Transition, DbTypeOK, Last
  <2>3. ASSUME NEW e \in Entry, Transition(i, e)
        PROVE  /\ decision'[i] # None
               /\ trail'[i][k].rank = decision'[i].rank
               /\ decision'[i].rank \in RanksOf(hyps'[i])
               /\ trail'[i][k].action = Chosen(hyps'[i], decision'[i].rank)
    BY <2>2, <2>3 DEF Transition
  <2> QED
    BY <2>1, <2>3, StepIsTransition
<1>2. ASSUME NEW i \in Incidents, executed'[i]
      PROVE  Logged(i, "EXECUTION_INTENT_LOGGED")'
  <2>1. Logged(i, "EXECUTION_INTENT_LOGGED")
    BY <1>2 DEF RowStep, QuietStep, RowKept, Transition, FlagSet, FeedbackSaved,
       IntentIsTheApprovedAction
  <2> QED
    BY <2>1, TrailsGrow
<1> QED
  BY <1>1, <1>2 DEF IntentIsTheApprovedAction

(* A step keeps FeedbackAgreesWithDecision.                                *)
LEMMA FeedbackStep ==
  ASSUME DbTypeOK, TrailIsLifecyclePath, FeedbackAgreesWithDecision,
         \A i \in Incidents : RowStep(i)
  PROVE  FeedbackAgreesWithDecision'
<1> SUFFICES ASSUME NEW i \in Incidents
             PROVE  /\ Len(feedback'[i]) <= 1
                    /\ feedback'[i] # <<>> =>
                         state'[i] = "REJECTED" /\ feedback'[i][1] = decision'[i]
  BY DEF FeedbackAgreesWithDecision
<1>1. CASE feedback'[i] = feedback[i]
  BY <1>1, VerdictsStay DEF FeedbackAgreesWithDecision, Terminal
<1>2. CASE FeedbackSaved(i)
  BY <1>2 DEF FeedbackSaved
<1> QED
  BY <1>1, <1>2 DEF RowStep, QuietStep, RowKept, Transition, FlagSet

-----------------------------------------------------------------------------
(***************************************************************************)
(* What the handlers hold in their local variables.                        *)
(***************************************************************************)
Free == {"idle", "disconnected", "lookup", "create", "announce"}

(* A thread outside every handler has nothing to rely on.                  *)
LEMMA FreeThreadIsSound ==
  ASSUME NEW t, pc'[t] \in Free
  PROVE  JobIsSound(t)'
BY DEF Free, JobIsSound, HasIncident, SnapshotIsHistory, ChoiceStillOffered, VerdictIsMine,
   Analysing, Approving, Rejecting, Emitting, Snapshot

(* A quiet step of another thread: no intent, no feedback row. *)
LEMMA QuietStepsKeep ==
  ASSUME NEW i \in Incidents, QuietStep(i)
  PROVE  /\ feedback'[i] = feedback[i]
         /\ trail[i] # <<>> /\ Last(trail[i]).event = "APPROVED" => trail'[i] = trail[i]
BY DEF QuietStep, RowKept, Transition, Successors

(* A thread that does not move keeps what it knows, whatever the others do. *)
LEMMA KeptThreadIsSound ==
  ASSUME DbTypeOK, TrailIsLifecyclePath, \A i \in Incidents : RowStep(i),
         NEW t \in Threads, JobIsSound(t), pc'[t] = pc[t], job'[t] = job[t],
         pc[t] = "log_intent" => trail'[job[t].inc] = trail[job[t].inc],
         pc[t] = "save_feedback" => feedback'[job[t].inc] = feedback[job[t].inc]
  PROVE  JobIsSound(t)'
<1> DEFINE i == job[t].inc
<1>1. CASE pc[t] \in Free
  BY <1>1, FreeThreadIsSound
<1>2. CASE pc[t] \in Analysing \cup Approving \cup Rejecting \cup Emitting
  <2>1. i \in Incidents /\ state[i] # "ABSENT"
    BY <1>2 DEF JobIsSound, HasIncident
  <2>2. HasIncident(t)'
    BY <2>1, VerdictsStay DEF HasIncident
  <2>3. SnapshotIsHistory(t)'
    <3>1. ASSUME pc[t] \in Snapshot PROVE Reached(i, job[t].seen)'
      BY <3>1, <2>1, TrailsGrow DEF JobIsSound, SnapshotIsHistory
    <3> QED
      BY <3>1 DEF SnapshotIsHistory, Reached
  <2>4. ChoiceStillOffered(t)'
    BY <2>1, VerdictsStay DEF JobIsSound, ChoiceStillOffered, Terminal
  <2>5. VerdictIsMine(t)'
    <3>1. ASSUME pc[t] = "log_intent"
          PROVE  /\ Last(trail'[i]).event = "APPROVED"
                 /\ decision'[i] = [rank |-> job[t].rank, by |-> t]
      <4>1. Last(trail[i]).event = "APPROVED" /\ decision[i] = [rank |-> job[t].rank, by |-> t]
        BY <3>1 DEF JobIsSound, VerdictIsMine
      <4>2. state[i] = "APPROVED"
        BY <2>1, <4>1, StateIsLast DEF StateAnnounced
      <4> QED
        BY <2>1, <3>1, <4>1, <4>2, VerdictsStay DEF Terminal
    <3>2. ASSUME pc[t] = "mark_executed" PROVE Logged(i, "EXECUTION_INTENT_LOGGED")'
      BY <3>2, <2>1, TrailsGrow DEF JobIsSound, VerdictIsMine
    <3>3. ASSUME pc[t] = "save_feedback"
          PROVE  /\ state'[i] = "REJECTED" /\ feedback'[i] = <<>>
                 /\ decision'[i] = [rank |-> job[t].rank, by |-> t]
      BY <2>1, <3>3, VerdictsStay DEF JobIsSound, VerdictIsMine, Terminal
    <3> QED
      BY <3>1, <3>2, <3>3 DEF VerdictIsMine, Last, Logged
  <2> QED
    BY <2>2, <2>3, <2>4, <2>5 DEF JobIsSound
<1>3. CASE pc[t] \notin Free \cup Analysing \cup Approving \cup Rejecting \cup Emitting
  BY <1>3 DEF JobIsSound, HasIncident, SnapshotIsHistory, ChoiceStillOffered, VerdictIsMine,
     Analysing, Approving, Rejecting, Emitting, Snapshot
<1> QED
  BY <1>1, <1>2, <1>3

(* Of two threads about to carry a verdict out, each has an incident of its own. *)
LEMMA VerdictsAreOwn ==
  ASSUME NEW t \in Threads, NEW u \in Threads, u # t, JobIsSound(t), JobIsSound(u),
         job[t].inc = job[u].inc,
         pc[t] \in {"log_intent", "save_feedback"}, pc[u] = pc[t]
  PROVE  FALSE
<1>1. decision[job[t].inc].by = t /\ decision[job[u].inc].by = u
  BY DEF JobIsSound, VerdictIsMine
<1> QED
  BY <1>1

(* The state of a row is one its trail has announced.                      *)
LEMMA StateIsReached ==
  ASSUME DbTypeOK, TrailIsLifecyclePath, NEW i \in Incidents, state[i] # "ABSENT"
  PROVE  Reached(i, state[i])
<1>1. trail[i] \in Seq(Entry) /\ trail[i] # <<>>
  BY StateIsLast
<1>2. Len(trail[i]) \in DOMAIN trail[i]
  BY <1>1
<1> QED
  BY <1>1, <1>2, StateIsLast DEF Reached, Last

(* A trail announces the state of the entry just appended.                 *)
LEMMA AppendedIsReached ==
  ASSUME DbTypeOK, NEW i \in Incidents, NEW e \in Entry, AppendAudit(i, e)
  PROVE  Reached(i, StateAnnounced[e.event])' /\ Logged(i, e.event)' /\ Last(trail'[i]) = e
<1>1. trail[i] \in Seq(Entry) /\ trail'[i] = Append(trail[i], e)
  BY DEF DbTypeOK, AppendAudit
<1>2. Len(trail'[i]) \in DOMAIN trail'[i] /\ trail'[i][Len(trail'[i])] = e
  BY <1>1
<1> QED
  BY <1>2 DEF Reached, Logged, Last

(***************************************************************************)
(* One step per action; what the other threads know is kept by the lemmas  *)
(* above, so each step is about the thread that moves.                     *)
(***************************************************************************)
LEMMA JobsStep ==
  ASSUME TypeOK, TrailIsLifecyclePath, StaleReadsStayValid, FeedbackAgreesWithDecision,
         [Next]_vars
  PROVE  \A t \in Threads : JobIsSound(t)'
<1> USE ThreadsType
<1>a. /\ KafkaTypeOK /\ DbTypeOK /\ ThreadTypeOK
      /\ pc \in [Threads -> PCs] /\ job \in [Threads -> Job]
      /\ \A t \in Threads : JobIsSound(t)
      /\ \A i \in Incidents : RowStep(i)
  BY StepsAreRowSteps DEF TypeOK, ThreadTypeOK, StaleReadsStayValid
<1>b. ASSUME NEW t \in Threads, \A u \in Threads : u # t => pc'[u] = pc[u] /\ job'[u] = job[u],
             JobIsSound(t)', \A i \in Incidents : QuietStep(i)
      PROVE  \A u \in Threads : JobIsSound(u)'
  <2> SUFFICES ASSUME NEW u \in Threads, u # t PROVE JobIsSound(u)'
    BY <1>b
  <2>1. pc[u] = "log_intent" => trail'[job[u].inc] = trail[job[u].inc]
    <3> SUFFICES ASSUME pc[u] = "log_intent" PROVE trail'[job[u].inc] = trail[job[u].inc]
      OBVIOUS
    <3>1. /\ job[u].inc \in Incidents /\ state[job[u].inc] # "ABSENT"
          /\ Last(trail[job[u].inc]).event = "APPROVED"
      BY <1>a DEF JobIsSound, HasIncident, VerdictIsMine, Approving
    <3> QED
      BY <1>a, <1>b, <3>1, StateIsLast, QuietStepsKeep
  <2>2. pc[u] = "save_feedback" => feedback'[job[u].inc] = feedback[job[u].inc]
    BY <1>a, <1>b, QuietStepsKeep DEF JobIsSound, HasIncident, Rejecting
  <2> QED
    BY <1>a, <1>b, <2>1, <2>2, KeptThreadIsSound
<1>c. ASSUME UNCHANGED db PROVE \A i \in Incidents : QuietStep(i)
  BY <1>c, RowsKept DEF QuietStep
<1>1. ASSUME UNCHANGED <<pc, job>>, \A i \in Incidents : QuietStep(i)
      PROVE  \A t \in Threads : JobIsSound(t)'
  <2>1. ASSUME NEW t \in Threads PROVE JobIsSound(t)'
    <3>1. pc[t] = "log_intent" => trail'[job[t].inc] = trail[job[t].inc]
      BY <1>1, <1>a, StateIsLast, QuietStepsKeep DEF JobIsSound, HasIncident, VerdictIsMine, Approving
    <3>2. pc[t] = "save_feedback" => feedback'[job[t].inc] = feedback[job[t].inc]
      BY <1>1, <1>a, QuietStepsKeep DEF JobIsSound, HasIncident, Rejecting
    <3> QED
      BY <1>1, <1>a, <3>1, <3>2, KeptThreadIsSound
  <2> QED
    BY <2>1
<1>2. ASSUME NEW t \in Threads, UNCHANGED db, pc'[t] \in Free,
             \A u \in Threads : u # t => pc'[u] = pc[u] /\ job'[u] = job[u]
      PROVE  \A u \in Threads : JobIsSound(u)'
  BY <1>2, <1>b, <1>c, FreeThreadIsSound
<1>3. ASSUME NEW m \in Anomalies \cup {Malformed}, PublishAnomaly(m)
      PROVE  \A t \in Threads : JobIsSound(t)'
  BY <1>3, <1>1, <1>c DEF PublishAnomaly, threads
<1>4. CASE Connect
  BY <1>4, <1>2, <1>a DEF Connect, Goto, Free
<1>5. CASE Fetch
  <2>1. CASE UNCHANGED <<pc, job>>
    BY <2>1, <1>5, <1>1, <1>c DEF Fetch
  <2>2. CASE Goto(Consumer, "lookup") /\ job' = [job EXCEPT ![Consumer].anomaly = topic[position + 1]]
    BY <2>2, <1>5, <1>2, <1>a DEF Fetch, Goto, Free
  <2> QED
    BY <1>5, <2>1, <2>2 DEF Fetch
<1>6. CASE Commit
  BY <1>6, <1>1, <1>c DEF Commit, threads
<1>7. CASE LookupAnomaly
  BY <1>7, <1>2, <1>a DEF LookupAnomaly, Goto, Finish, Free
<1>8. CASE OpenIncident
  <2>1. PICK i \in Incidents :
          /\ CreateDetected(i, job[Consumer].anomaly)
          /\ job' = [job EXCEPT ![Consumer].inc = i, ![Consumer].seen = "DETECTED"]
    BY <1>8 DEF OpenIncident
  <2>2. /\ pc'[Consumer] = "publish_detected"
        /\ job'[Consumer].inc = i /\ job'[Consumer].seen = "DETECTED"
        /\ \A u \in Threads : u # Consumer => pc'[u] = pc[u] /\ job'[u] = job[u]
    BY <1>8, <1>a, <2>1 DEF OpenIncident, Goto, Job
  <2>3. state'[i] # "ABSENT"
    BY <2>1, <1>a DEF CreateDetected, DbTypeOK
  <2>4. Reached(i, "DETECTED")'
    BY <2>1, <1>a, NoteType, AppendedIsReached DEF CreateDetected, Note, Events, StateAnnounced
  <2>5. JobIsSound(Consumer)'
    BY <2>2, <2>3, <2>4
       DEF JobIsSound, HasIncident, SnapshotIsHistory, ChoiceStillOffered, VerdictIsMine,
           Reached, Approving
  <2>6. \A j \in Incidents : QuietStep(j)
    BY <2>1, <1>a, CreateDetectedRows
  <2> QED
    BY <1>b, <2>2, <2>5, <2>6
<1>9. CASE SweepExpired
  <2>1. /\ pc'[Sweeper] \in Free
        /\ \A u \in Threads : u # Sweeper => pc'[u] = pc[u] /\ job'[u] = job[u]
    BY <1>9, <1>a DEF SweepExpired, Goto, Free
  <2>2. \A i \in Incidents : QuietStep(i)
    BY <1>9, <1>a, ExpireStaleRows DEF SweepExpired
  <2> QED
    BY <1>b, <2>1, <2>2, FreeThreadIsSound
<1>10. CASE Announce
  <2>1. PICK i \in todo : job' = [job EXCEPT ![Sweeper] = [NoJob EXCEPT !.inc = i, !.seen = state[i]]]
    BY <1>10 DEF Announce
  <2>2. i \in Incidents /\ state[i] = "EXPIRED" /\ Reached(i, state[i])
    BY <1>a, StateIsReached DEF ThreadTypeOK, StaleReadsStayValid
  <2>3. /\ pc'[Sweeper] = "publish_final"
        /\ job'[Sweeper].inc = i /\ job'[Sweeper].seen = state[i]
        /\ \A u \in Threads : u # Sweeper => pc'[u] = pc[u] /\ job'[u] = job[u]
    BY <1>10, <1>a, <2>1 DEF Announce, Goto, NoJob
  <2>4. JobIsSound(Sweeper)'
    BY <1>10, <2>2, <2>3
       DEF Announce, db, JobIsSound, HasIncident, SnapshotIsHistory, ChoiceStillOffered,
           VerdictIsMine, Reached, Approving
  <2> QED
    BY <1>10, <1>b, <1>c, <2>3, <2>4 DEF Announce
<1>11. ASSUME NEW t \in Threads, StartAnalysis(t) \/ CompleteAnalysis(t) \/ FailAnalysis(t)
       PROVE  \A u \in Threads : JobIsSound(u)'
  <2>1. job[t].inc \in Incidents /\ state[job[t].inc] # "ABSENT"
    BY <1>11, <1>a
       DEF StartAnalysis, CompleteAnalysis, FailAnalysis, JobIsSound, HasIncident, Analysing
  <2>2. \A i \in Incidents : QuietStep(i)
    BY <1>11, <2>1, <1>a, MarkAnalyzingRows, SaveAnalysisResultRows, MarkAnalysisFailedRows
       DEF StartAnalysis, CompleteAnalysis, FailAnalysis
  <2>3. /\ pc'[t] \in {"read_analyzing", "read_final"} /\ job'[t] = job[t]
        /\ \A u \in Threads : u # t => pc'[u] = pc[u] /\ job'[u] = job[u]
    BY <1>11, <1>a DEF StartAnalysis, CompleteAnalysis, FailAnalysis, Goto
  <2>4. JobIsSound(t)'
    BY <2>1, <2>3, <1>a, VerdictsStay
       DEF JobIsSound, HasIncident, SnapshotIsHistory, ChoiceStillOffered, VerdictIsMine,
           Snapshot, Approving
  <2> QED
    BY <1>b, <2>2, <2>3, <2>4
<1>12. ASSUME NEW t \in Threads, Diagnose(t)
       PROVE  \A u \in Threads : JobIsSound(u)'
  <2>1. job[t].inc \in Incidents /\ state[job[t].inc] # "ABSENT"
    BY <1>12, <1>a DEF Diagnose, JobIsSound, HasIncident, Analysing
  <2>2. /\ pc'[t] \in {"complete", "fail"} /\ job'[t].inc = job[t].inc
        /\ \A u \in Threads : u # t => pc'[u] = pc[u] /\ job'[u] = job[u]
    BY <1>12, <1>a DEF Diagnose, Goto, Job
  <2>3. JobIsSound(t)'
    BY <1>12, <2>1, <2>2
       DEF Diagnose, db, JobIsSound, HasIncident, SnapshotIsHistory, ChoiceStillOffered,
           VerdictIsMine, Snapshot, Approving
  <2> QED
    BY <1>12, <1>b, <1>c, <2>2, <2>3 DEF Diagnose
<1>13. ASSUME NEW t \in Threads, ReadBack(t)
       PROVE  \A u \in Threads : JobIsSound(u)'
  <2>1. job[t].inc \in Incidents /\ state[job[t].inc] # "ABSENT"
    BY <1>13, <1>a DEF ReadBack, JobIsSound, HasIncident, Analysing, Emitting
  <2>2. /\ pc'[t] \in {"publish_analyzing", "publish_final"}
        /\ job'[t].inc = job[t].inc /\ job'[t].seen = state[job[t].inc]
        /\ \A u \in Threads : u # t => pc'[u] = pc[u] /\ job'[u] = job[u]
    BY <1>13, <1>a DEF ReadBack, Goto, Job
  <2>3. Reached(job[t].inc, state[job[t].inc])
    BY <2>1, <1>a, StateIsReached
  <2>4. JobIsSound(t)'
    BY <1>13, <2>1, <2>2, <2>3
       DEF ReadBack, db, JobIsSound, HasIncident, SnapshotIsHistory, ChoiceStillOffered,
           VerdictIsMine, Reached, Approving
  <2> QED
    BY <1>13, <1>b, <1>c, <2>2, <2>4 DEF ReadBack
<1>14. ASSUME NEW t \in Threads, Publish(t)
       PROVE  \A u \in Threads : JobIsSound(u)'
  <2>1. \A u \in Threads : u # t => pc'[u] = pc[u] /\ job'[u] = job[u]
    BY <1>14, <1>a DEF Publish, Goto, Finish
  <2>2. CASE pc'[t] \in Free
    BY <1>14, <1>2, <2>1, <2>2 DEF Publish
  <2>3. CASE pc'[t] \in {"start", "diagnose"} /\ job'[t] = job[t]
    <3>1. job[t].inc \in Incidents /\ state[job[t].inc] # "ABSENT"
      BY <1>14, <1>a DEF Publish, JobIsSound, HasIncident, Analysing, Emitting
    <3>2. JobIsSound(t)'
      BY <1>14, <2>3, <3>1
         DEF Publish, db, JobIsSound, HasIncident, SnapshotIsHistory, ChoiceStillOffered,
             VerdictIsMine, Snapshot, Approving
    <3> QED
      BY <1>14, <1>b, <1>c, <2>1, <3>2 DEF Publish
  <2> QED
    BY <1>14, <2>2, <2>3, <1>a DEF Publish, Goto, Finish, Free
<1>15. ASSUME NEW t \in Requests, Approve(t)
       PROVE  \A u \in Threads : JobIsSound(u)'
  <2>1. CASE Finish(t) /\ UNCHANGED db
    BY <2>1, <1>2, <1>a DEF Finish, Free
  <2>2. CASE Decide(job[t].inc, "APPROVED", job[t].rank, t) /\ Goto(t, "log_intent") /\ UNCHANGED job
    <3> DEFINE i == job[t].inc
               e == [event |-> "APPROVED", rank |-> job[t].rank, action |-> None]
    <3>1. i \in Incidents /\ job[t].rank \in Ranks \cup {None} /\ state[i] = "AWAITING_APPROVAL"
      BY <1>15, <2>2, <1>a DEF Approve, JobIsSound, HasIncident, Approving, Job, Decide
    <3>2. /\ pc'[t] = "log_intent" /\ job'[t] = job[t]
          /\ \A u \in Threads : u # t => pc'[u] = pc[u] /\ job'[u] = job[u]
      BY <2>2, <1>a DEF Goto
    <3>3. /\ state'[i] = "APPROVED" /\ hyps'[i] = hyps[i]
          /\ decision'[i] = [rank |-> job[t].rank, by |-> t]
      BY <2>2, <3>1, <1>a DEF Decide, DbTypeOK
    <3>4. Last(trail'[i]).event = "APPROVED"
      <4>1. e \in Entry /\ AppendAudit(i, e)
        BY <2>2, <3>1 DEF Entry, Events, Decide
      <4> QED
        BY <4>1, <3>1, <1>a, AppendedIsReached
    <3>5. job[t].rank \in RanksOf(hyps[i]) /\ job[t].action = Chosen(hyps[i], job[t].rank)
      BY <1>15, <1>a DEF Approve, JobIsSound, ChoiceStillOffered, Approving
    <3>6. JobIsSound(t)'
      BY <3>1, <3>2, <3>3, <3>4, <3>5
         DEF JobIsSound, HasIncident, SnapshotIsHistory, ChoiceStillOffered, VerdictIsMine,
             Snapshot, Last, Terminal
    <3> QED
      BY <2>2, <1>a, <1>b, <3>1, <3>2, <3>6, DecideRows
  <2> QED
    BY <1>15, <2>1, <2>2 DEF Approve
<1>16. ASSUME NEW t \in Requests, Reject(t)
       PROVE  \A u \in Threads : JobIsSound(u)'
  <2>1. CASE Finish(t) /\ UNCHANGED db
    BY <2>1, <1>2, <1>a DEF Finish, Free
  <2>2. CASE /\ Decide(job[t].inc, "REJECTED", job[t].rank, t)
             /\ job' = [job EXCEPT ![t].seen = "REJECTED"]
             /\ Goto(t, "save_feedback")
    <3>0. PICK i \in Incidents, r \in Ranks \cup {None} : job[t].inc = i /\ job[t].rank = r
      BY <1>16, <1>a DEF Reject, JobIsSound, HasIncident, Rejecting, Job
    <3> DEFINE e == [event |-> "REJECTED", rank |-> r, action |-> None]
    <3>1. state[i] = "AWAITING_APPROVAL" /\ Decide(i, "REJECTED", r, t)
      BY <2>2, <3>0 DEF Decide
    <3>2. /\ pc'[t] = "save_feedback" /\ job'[t].inc = i /\ job'[t].rank = r
          /\ job'[t].seen = "REJECTED"
          /\ \A u \in Threads : u # t => pc'[u] = pc[u] /\ job'[u] = job[u]
      BY <2>2, <3>0, <1>a DEF Goto, Job
    <3>3. /\ state'[i] = "REJECTED" /\ feedback'[i] = feedback[i]
          /\ decision'[i] = [rank |-> r, by |-> t]
      BY <3>1, <1>a DEF Decide, DbTypeOK
    <3>4. Reached(i, "REJECTED")'
      <4>1. e \in Entry /\ AppendAudit(i, e)
        BY <3>1 DEF Entry, Events, Decide
      <4>2. StateAnnounced[e.event] = "REJECTED"
        BY DEF StateAnnounced
      <4>3. Reached(i, StateAnnounced[e.event])'
        BY <4>1, <1>a, AppendedIsReached
      <4> QED
        BY <4>2, <4>3
    <3>5. feedback[i] = <<>>
      BY <3>1 DEF FeedbackAgreesWithDecision
    <3>6. JobIsSound(t)'
      BY <3>1, <3>2, <3>3, <3>4, <3>5
         DEF JobIsSound, HasIncident, SnapshotIsHistory, ChoiceStillOffered, VerdictIsMine,
             Approving, Reached
    <3> QED
      BY <2>2, <1>a, <1>b, <3>1, <3>2, <3>6, DecideRows
  <2> QED
    BY <1>16, <2>1, <2>2 DEF Reject
<1>17. ASSUME NEW t \in Requests, LogIntent(t)
       PROVE  \A u \in Threads : JobIsSound(u)'
  <2>0. PICK i \in Incidents, r \in Ranks \cup {None}, act \in Actions \cup {None} :
          job[t].inc = i /\ job[t].rank = r /\ job[t].action = act
    BY <1>17, <1>a DEF LogIntent, JobIsSound, HasIncident, Approving, Job
  <2> DEFINE e == [event |-> "EXECUTION_INTENT_LOGGED", rank |-> r, action |-> act]
  <2>1. RecordIntent(i, r, act)
    BY <1>17, <2>0 DEF LogIntent
  <2>2. /\ pc[t] = "log_intent" /\ pc'[t] = "mark_executed" /\ job'[t] = job[t]
        /\ \A u \in Threads : u # t => pc'[u] = pc[u] /\ job'[u] = job[u]
    BY <1>17, <1>a DEF LogIntent, Goto
  <2>3. Logged(i, "EXECUTION_INTENT_LOGGED")'
    <3>1. e \in Entry /\ e.event = "EXECUTION_INTENT_LOGGED" /\ AppendAudit(i, e)
      BY <2>1 DEF Entry, Events, RecordIntent
    <3>2. Logged(i, e.event)'
      BY <3>1, <1>a, AppendedIsReached
    <3> QED
      BY <3>1, <3>2
  <2>4. JobIsSound(t)'
    <3>1. /\ state[i] # "ABSENT" /\ state[i] \in {"AWAITING_APPROVAL"} \cup Terminal
          /\ r \in RanksOf(hyps[i]) /\ act = Chosen(hyps[i], r)
      BY <2>0, <2>2, <1>a DEF JobIsSound, HasIncident, ChoiceStillOffered, Approving
    <3> QED
      BY <2>0, <2>1, <2>2, <2>3, <3>1
         DEF RecordIntent, JobIsSound, HasIncident, SnapshotIsHistory, ChoiceStillOffered,
             VerdictIsMine, Snapshot, Logged
  <2>5. ASSUME NEW u \in Threads, u # t PROVE JobIsSound(u)'
    <3>1. pc[u] = "log_intent" => trail'[job[u].inc] = trail[job[u].inc]
      <4> SUFFICES ASSUME pc[u] = "log_intent" PROVE trail'[job[u].inc] = trail[job[u].inc]
        OBVIOUS
      <4>1. job[u].inc # i
        BY <2>0, <2>2, <2>5, <1>a, VerdictsAreOwn
      <4>2. job[u].inc \in Incidents
        BY <1>a DEF JobIsSound, HasIncident, Approving
      <4> QED
        BY <2>1, <4>1, <4>2, <1>a DEF RecordIntent, AppendAudit, DbTypeOK
    <3>2. feedback' = feedback
      BY <2>1 DEF RecordIntent
    <3> QED
      BY <2>2, <2>5, <3>1, <3>2, <1>a, KeptThreadIsSound
  <2> QED
    BY <2>4, <2>5
<1>18. ASSUME NEW t \in Requests, MarkExecuted(t)
       PROVE  \A u \in Threads : JobIsSound(u)'
  <2>1. /\ pc'[t] = "read_final" /\ job'[t] = job[t]
        /\ \A u \in Threads : u # t => pc'[u] = pc[u] /\ job'[u] = job[u]
        /\ trail' = trail /\ feedback' = feedback /\ state' = state
    BY <1>18, <1>a DEF MarkExecuted, MarkExecutionLogged, Goto
  <2>2. job[t].inc \in Incidents /\ state[job[t].inc] # "ABSENT"
    BY <1>18, <1>a DEF MarkExecuted, JobIsSound, HasIncident, Approving
  <2>3. JobIsSound(t)'
    BY <2>1, <2>2
       DEF JobIsSound, HasIncident, SnapshotIsHistory, ChoiceStillOffered, VerdictIsMine,
           Snapshot, Approving
  <2> QED
    BY <2>1, <2>3, <1>a, KeptThreadIsSound
<1>19. ASSUME NEW t \in Requests, SaveFeedback(t)
       PROVE  \A u \in Threads : JobIsSound(u)'
  <2>0. PICK i \in Incidents, r \in Ranks \cup {None} : job[t].inc = i /\ job[t].rank = r
    BY <1>19, <1>a DEF SaveFeedback, JobIsSound, HasIncident, Rejecting, Job
  <2>1. SaveRejectionFeedback(i, r, t)
    BY <1>19, <2>0 DEF SaveFeedback
  <2>2. /\ pc[t] = "save_feedback" /\ pc'[t] = "publish_final" /\ job'[t] = job[t]
        /\ \A u \in Threads : u # t => pc'[u] = pc[u] /\ job'[u] = job[u]
    BY <1>19, <1>a DEF SaveFeedback, Goto
  <2>3. JobIsSound(t)'
    <3>1. state[i] # "ABSENT" /\ Reached(i, job[t].seen)
      BY <2>0, <2>2, <1>a DEF JobIsSound, HasIncident, SnapshotIsHistory, Rejecting, Snapshot
    <3> QED
      BY <2>0, <2>1, <2>2, <3>1
         DEF SaveRejectionFeedback, JobIsSound, HasIncident, SnapshotIsHistory,
             ChoiceStillOffered, VerdictIsMine, Approving, Reached
  <2>4. ASSUME NEW u \in Threads, u # t PROVE JobIsSound(u)'
    <3>1. pc[u] = "save_feedback" => feedback'[job[u].inc] = feedback[job[u].inc]
      <4> SUFFICES ASSUME pc[u] = "save_feedback"
                   PROVE  feedback'[job[u].inc] = feedback[job[u].inc]
        OBVIOUS
      <4>1. job[u].inc # i
        BY <2>0, <2>2, <2>4, <1>a, VerdictsAreOwn
      <4>2. job[u].inc \in Incidents
        BY <1>a DEF JobIsSound, HasIncident, Rejecting
      <4> QED
        BY <2>1, <4>1, <4>2, <1>a DEF SaveRejectionFeedback, DbTypeOK
    <3>2. trail' = trail
      BY <2>1 DEF SaveRejectionFeedback
    <3> QED
      BY <2>2, <2>4, <3>1, <3>2, <1>a, KeptThreadIsSound
  <2> QED
    BY <2>3, <2>4
<1>20. ASSUME NEW t \in Requests, NEW i \in Incidents, NEW r \in Ranks, ApproveRead(t, i, r)
       PROVE  \A u \in Threads : JobIsSound(u)'
  <2>1. /\ pc'[t] = "decide_approved" /\ job'[t].inc = i /\ job'[t].rank = r
        /\ job'[t].action = Chosen(hyps[i], r)
        /\ \A u \in Threads : u # t => pc'[u] = pc[u] /\ job'[u] = job[u]
    BY <1>20, <1>a DEF ApproveRead, Goto, NoJob
  <2>2. JobIsSound(t)'
    BY <1>20, <2>1
       DEF ApproveRead, db, JobIsSound, HasIncident, SnapshotIsHistory, ChoiceStillOffered,
           VerdictIsMine, Snapshot
  <2> QED
    BY <1>20, <1>b, <1>c, <2>1, <2>2 DEF ApproveRead
<1>21. ASSUME NEW t \in Requests, NEW i \in Incidents, NEW r \in Ranks \cup {None},
              RejectRead(t, i, r)
       PROVE  \A u \in Threads : JobIsSound(u)'
  <2>1. /\ pc'[t] = "decide_rejected" /\ job'[t].inc = i
        /\ \A u \in Threads : u # t => pc'[u] = pc[u] /\ job'[u] = job[u]
    BY <1>21, <1>a DEF RejectRead, Goto, NoJob
  <2>2. JobIsSound(t)'
    BY <1>21, <2>1
       DEF RejectRead, db, JobIsSound, HasIncident, SnapshotIsHistory, ChoiceStillOffered,
           VerdictIsMine, Snapshot, Approving
  <2> QED
    BY <1>21, <1>b, <1>c, <2>1, <2>2 DEF RejectRead
<1>22. ASSUME NEW t \in Requests, NEW i \in Incidents, RequestInfo(t, i)
       PROVE  \A u \in Threads : JobIsSound(u)'
  <2>1. /\ pc'[t] = "publish_final" /\ job'[t].inc = i /\ job'[t].seen = "AWAITING_APPROVAL"
        /\ \A u \in Threads : u # t => pc'[u] = pc[u] /\ job'[u] = job[u]
    BY <1>22, <1>a DEF RequestInfo, Goto, NoJob
  <2>2. /\ state[i] = "AWAITING_APPROVAL" /\ state' = state
        /\ \A j \in Incidents : QuietStep(j)
    BY <1>22, <1>a, LogRequestInfoRows DEF RequestInfo, LogRequestInfo
  <2>3. Reached(i, "AWAITING_APPROVAL")'
    BY <1>a, <2>2, StateIsReached, TrailsGrow
  <2>4. JobIsSound(t)'
    BY <2>1, <2>2, <2>3
       DEF JobIsSound, HasIncident, SnapshotIsHistory, ChoiceStillOffered, VerdictIsMine,
           Approving, Reached
  <2> QED
    BY <1>b, <2>1, <2>2, <2>4
<1>23. ASSUME NEW t \in Requests, NEW i \in Incidents, ReanalyzeRead(t, i)
       PROVE  \A u \in Threads : JobIsSound(u)'
  <2>1. /\ pc'[t] = "start" /\ job'[t].inc = i
        /\ \A u \in Threads : u # t => pc'[u] = pc[u] /\ job'[u] = job[u]
    BY <1>23, <1>a DEF ReanalyzeRead, Goto, NoJob
  <2>2. JobIsSound(t)'
    BY <1>23, <2>1
       DEF ReanalyzeRead, db, JobIsSound, HasIncident, SnapshotIsHistory, ChoiceStillOffered,
           VerdictIsMine, Snapshot, Approving
  <2> QED
    BY <1>23, <1>b, <1>c, <2>1, <2>2 DEF ReanalyzeRead
<1>24. ASSUME NEW i \in Incidents, DeadlinePasses(i)
       PROVE  \A t \in Threads : JobIsSound(t)'
  <2>1. \A j \in Incidents : QuietStep(j)
    BY <1>24 DEF DeadlinePasses, QuietStep, RowKept
  <2> QED
    BY <1>24, <1>1, <2>1 DEF DeadlinePasses, threads
<1>25. CASE LoseBroker
  BY <1>25, <1>2, <1>a DEF LoseBroker, Goto, Free
<1>26. CASE Crash
  BY <1>26, FreeThreadIsSound DEF Crash, Free
<1>27. ASSUME NEW t \in Threads, DatabaseFails(t) \/ VersionLookupRaises(t)
       PROVE  \A u \in Threads : JobIsSound(u)'
  BY <1>27, <1>2, <1>a DEF DatabaseFails, VersionLookupRaises, Finish, Free
<1>28. CASE UNCHANGED vars
  BY <1>28, <1>1, <1>c DEF vars, threads
<1> QED
  BY <1>3, <1>4, <1>5, <1>6, <1>7, <1>8, <1>9, <1>10, <1>11, <1>12, <1>13, <1>14, <1>15,
     <1>16, <1>17, <1>18, <1>19, <1>20, <1>21, <1>22, <1>23, <1>24, <1>25, <1>26, <1>27, <1>28
     DEF Next, ConsumerStep, SweeperStep, Proceed, ProceedRequest, NewRequest, Fault

-----------------------------------------------------------------------------
(* Only opening an incident writes anomaly_id. *)
LEMMA AnomalyColumn ==
  ASSUME [Next]_vars, ~ OpenIncident
  PROVE  anomaly' = anomaly
<1>1. ASSUME NEW t \in Threads, Proceed(t) PROVE anomaly' = anomaly
  BY <1>1 DEF Proceed, db, StartAnalysis, MarkAnalyzing, Diagnose, CompleteAnalysis,
              SaveAnalysisResult, FailAnalysis, MarkAnalysisFailed, ReadBack, Publish
<1>2. ASSUME NEW t \in Requests, ProceedRequest(t) PROVE anomaly' = anomaly
  BY <1>2 DEF ProceedRequest, db, Approve, Decide, LogIntent, RecordIntent, MarkExecuted,
              MarkExecutionLogged, Reject, SaveFeedback, SaveRejectionFeedback
<1>3. ASSUME NEW t \in Requests, NewRequest(t) PROVE anomaly' = anomaly
  BY <1>3 DEF NewRequest, db, ApproveRead, RejectRead, RequestInfo, LogRequestInfo,
              ReanalyzeRead
<1>4. CASE ConsumerStep
  BY <1>4 DEF ConsumerStep, db, Connect, Fetch, Commit, LookupAnomaly
<1>5. CASE SweeperStep
  BY <1>5 DEF SweeperStep, db, SweepExpired, ExpireStale, Announce
<1>6. CASE Fault
  BY <1>6 DEF Fault, db, LoseBroker, Crash, DatabaseFails, VersionLookupRaises
<1>7. ASSUME NEW m, PublishAnomaly(m) PROVE anomaly' = anomaly
  BY <1>7 DEF PublishAnomaly, db
<1>8. ASSUME NEW i \in Incidents, DeadlinePasses(i) PROVE anomaly' = anomaly
  BY <1>8 DEF DeadlinePasses
<1>9. CASE UNCHANGED vars
  BY <1>9 DEF vars, db
<1> QED
  BY <1>1, <1>2, <1>3, <1>4, <1>5, <1>6, <1>7, <1>8, <1>9 DEF Next

(* A step keeps OneIncidentPerAnomaly.                                     *)
LEMMA OneIncidentStep ==
  ASSUME TypeOK, StillUnopened, OneIncidentPerAnomaly, [Next]_vars
  PROVE  OneIncidentPerAnomaly'
<1>1. CASE ~ OpenIncident
  BY <1>1, AnomalyColumn DEF OneIncidentPerAnomaly
<1>2. CASE OpenIncident
  <2>1. PICK i \in Incidents : anomaly' = [anomaly EXCEPT ![i] = job[Consumer].anomaly]
    BY <1>2 DEF OpenIncident, CreateDetected
  <2>2. \A j \in Incidents : anomaly[j] # job[Consumer].anomaly
    BY <1>2 DEF OpenIncident, StillUnopened
  <2>3. anomaly \in [Incidents -> Anomalies \cup {None}]
    BY DEF TypeOK, DbTypeOK
  <2> QED
    BY <2>1, <2>2, <2>3 DEF OneIncidentPerAnomaly
<1> QED
  BY <1>1, <1>2

(* The consumer alone reads for a redelivered anomaly and then inserts. *)
LEMMA UnopenedStep ==
  ASSUME TypeOK, StillUnopened, [Next]_vars
  PROVE  StillUnopened'
<1> USE ThreadsType
<1>a. pc \in [Threads -> PCs] /\ job \in [Threads -> Job]
  BY DEF TypeOK, ThreadTypeOK
<1> SUFFICES ASSUME pc'[Consumer] = "create"
             PROVE  \A i \in Incidents : anomaly'[i] # job'[Consumer].anomaly
  BY DEF StillUnopened
<1>1. CASE LookupAnomaly
  BY <1>1, <1>a DEF LookupAnomaly, Finish, Goto, db
<1>2. CASE ~ LookupAnomaly
  <2>1. ~ OpenIncident /\ ~ Connect /\ ~ LoseBroker /\ ~ Crash
    BY <1>a DEF OpenIncident, Connect, LoseBroker, Crash, Goto
  <2>2. pc'[Consumer] = pc[Consumer] /\ job'[Consumer] = job[Consumer]
    <3>1. CASE ConsumerStep
      BY <3>1, <1>2, <2>1, <1>a DEF ConsumerStep, Fetch, Commit, Goto, threads
    <3>2. CASE SweeperStep
      BY <3>2, <1>a, ThreadsAssumption DEF SweeperStep, SweepExpired, Announce, Goto
    <3>3. ASSUME NEW t \in Threads, Proceed(t) PROVE pc'[Consumer] = pc[Consumer] /\ job'[Consumer] = job[Consumer]
      BY <3>3, <1>a DEF Proceed, StartAnalysis, Diagnose, CompleteAnalysis, FailAnalysis, ReadBack, Publish, Goto, Finish
    <3>4. ASSUME NEW t \in Requests, ProceedRequest(t) \/ NewRequest(t) PROVE pc'[Consumer] = pc[Consumer] /\ job'[Consumer] = job[Consumer]
      <4>1. t # Consumer
        BY ThreadsAssumption
      <4> QED
        BY <3>4, <4>1, <1>a
           DEF ProceedRequest, NewRequest, Approve, LogIntent, MarkExecuted, Reject, SaveFeedback,
               ApproveRead, RejectRead, RequestInfo, ReanalyzeRead, Goto, Finish
    <3>5. ASSUME NEW t \in Threads, DatabaseFails(t) \/ VersionLookupRaises(t)
          PROVE  pc'[Consumer] = pc[Consumer] /\ job'[Consumer] = job[Consumer]
      BY <3>5, <1>a DEF DatabaseFails, VersionLookupRaises, Finish
    <3>6. ASSUME \/ \E m \in Anomalies \cup {Malformed} : PublishAnomaly(m)
                 \/ \E i \in Incidents : DeadlinePasses(i)
                 \/ UNCHANGED vars
          PROVE  pc'[Consumer] = pc[Consumer] /\ job'[Consumer] = job[Consumer]
      BY <3>6 DEF PublishAnomaly, DeadlinePasses, vars, threads
    <3> QED
      BY <2>1, <3>1, <3>2, <3>3, <3>4, <3>5, <3>6 DEF Next, Fault
  <2>3. anomaly' = anomaly
    BY <2>1, AnomalyColumn
  <2> QED
    BY <2>2, <2>3 DEF StillUnopened
<1> QED
  BY <1>1, <1>2

(* Only the sweep gives the sweeper more to announce.                      *)
LEMMA TodoShrinks ==
  ASSUME [Next]_vars, ~ SweepExpired
  PROVE  todo' \subseteq todo
<1>1. ASSUME NEW t \in Threads, Proceed(t) PROVE todo' = todo
  BY <1>1 DEF Proceed, threads, StartAnalysis, Diagnose, CompleteAnalysis, FailAnalysis,
              ReadBack, Publish
<1>2. ASSUME NEW t \in Requests, ProceedRequest(t) PROVE todo' = todo
  BY <1>2 DEF ProceedRequest, threads, Approve, LogIntent, MarkExecuted, Reject, SaveFeedback
<1>3. ASSUME NEW t \in Requests, NewRequest(t) PROVE todo' = todo
  BY <1>3 DEF NewRequest, threads, ApproveRead, RejectRead, RequestInfo, ReanalyzeRead
<1>4. CASE ConsumerStep
  BY <1>4 DEF ConsumerStep, threads, Connect, Fetch, Commit, LookupAnomaly, OpenIncident
<1>5. CASE Announce
  BY <1>5 DEF Announce
<1>6. CASE Fault
  BY <1>6 DEF Fault, threads, LoseBroker, Crash, DatabaseFails, VersionLookupRaises
<1>7. ASSUME NEW m, PublishAnomaly(m) PROVE todo' = todo
  BY <1>7 DEF PublishAnomaly, threads
<1>8. ASSUME NEW i \in Incidents, DeadlinePasses(i) PROVE todo' = todo
  BY <1>8 DEF DeadlinePasses, threads
<1>9. CASE UNCHANGED vars
  BY <1>9 DEF vars, threads
<1> QED
  BY <1>1, <1>2, <1>3, <1>4, <1>5, <1>6, <1>7, <1>8, <1>9 DEF Next, SweeperStep

(* What the sweeper has still to announce stays EXPIRED.                   *)
LEMMA TodoStep ==
  ASSUME TypeOK, TrailIsLifecyclePath, \A t \in Threads : JobIsSound(t),
         \A i \in todo : state[i] = "EXPIRED", [Next]_vars
  PROVE  \A i \in todo' : state'[i] = "EXPIRED"
<1>a. todo \subseteq Incidents /\ DbTypeOK /\ \A i \in Incidents : RowStep(i)
  BY StepsAreRowSteps DEF TypeOK, ThreadTypeOK
<1>1. CASE SweepExpired
  BY <1>1 DEF SweepExpired, ExpireStale, Stale
<1>2. CASE todo' \subseteq todo
  BY <1>2, <1>a, VerdictsStay DEF Terminal
<1> QED
  BY <1>1, <1>2, TodoShrinks

(* A step keeps ConsoleShowsOnlyHistory.                                   *)
LEMMA ConsoleStep ==
  ASSUME TypeOK, TrailIsLifecyclePath, \A t \in Threads : JobIsSound(t),
         ConsoleShowsOnlyHistory, [Next]_vars
  PROVE  ConsoleShowsOnlyHistory'
<1>a. DbTypeOK /\ console \in [Incidents -> States] /\ \A i \in Incidents : RowStep(i)
  BY StepsAreRowSteps DEF TypeOK
<1> SUFFICES ASSUME NEW i \in Incidents, console'[i] # "ABSENT"
             PROVE  Reached(i, console[i])'
  BY DEF ConsoleShowsOnlyHistory, Reached
<1>1. CASE console'[i] = console[i]
  <2>1. Reached(i, console[i])
    BY <1>1 DEF ConsoleShowsOnlyHistory, Reached
  <2> QED
    BY <1>1, <1>a, <2>1, TrailsGrow DEF Reached
<1>2. ASSUME NEW t \in Threads, Publish(t), console'[i] # console[i]
      PROVE  Reached(i, console[i])'
  <2>1. job[t].inc = i /\ console'[i] = job[t].seen
    BY <1>2, <1>a DEF Publish
  <2>2. Reached(i, job[t].seen)
    BY <1>2, <2>1 DEF Publish, JobIsSound, SnapshotIsHistory, Snapshot
  <2> QED
    BY <1>a, <2>1, <2>2, TrailsGrow DEF Reached
<1> QED
  BY <1>1, <1>2
     DEF Next, ConsumerStep, SweeperStep, Proceed, ProceedRequest, NewRequest, Fault, vars,
         PublishAnomaly, Connect, Fetch, Commit, LookupAnomaly, OpenIncident, SweepExpired,
         Announce, StartAnalysis, Diagnose, CompleteAnalysis, FailAnalysis, ReadBack, Approve,
         LogIntent, MarkExecuted, Reject, SaveFeedback, ApproveRead, RejectRead, RequestInfo,
         ReanalyzeRead, DeadlinePasses, LoseBroker, Crash, DatabaseFails, VersionLookupRaises

-----------------------------------------------------------------------------
(* The initial state satisfies the inductive invariant.                    *)
LEMMA InvInit == Init => IInv
<1> SUFFICES ASSUME Init PROVE IInv
  OBVIOUS
<1>1. \A t \in Threads : pc[t] \in {"idle", "disconnected"}
  BY DEF Init
<1>2. \A t \in Threads : JobIsSound(t)
  BY <1>1 DEF JobIsSound, HasIncident, SnapshotIsHistory, ChoiceStillOffered, VerdictIsMine,
     Analysing, Approving, Rejecting, Emitting, Snapshot
<1>3. StaleReadsStayValid
  BY <1>1, <1>2, ThreadsType DEF StaleReadsStayValid, StillUnopened, Init
<1>4. TrailIsLifecyclePath
  BY DEF Init, TrailIsLifecyclePath
<1>5. IntentIsTheApprovedAction
  BY DEF Init, IntentIsTheApprovedAction
<1>6. FeedbackAgreesWithDecision
  BY DEF Init, FeedbackAgreesWithDecision
<1>7. OneIncidentPerAnomaly /\ ConsoleShowsOnlyHistory
  BY DEF Init, OneIncidentPerAnomaly, ConsoleShowsOnlyHistory
<1> QED
  BY <1>3, <1>4, <1>5, <1>6, <1>7, TypeCorrectInit DEF IInv

(* Every step keeps the inductive invariant, conjunct by conjunct.         *)
LEMMA InvStep == IInv /\ [Next]_vars => IInv'
<1> SUFFICES ASSUME IInv, [Next]_vars PROVE IInv'
  OBVIOUS
<1>1. TypeOK' /\ \A i \in Incidents : RowStep(i)
  BY TypeCorrectStep, StepsAreRowSteps DEF IInv, StaleReadsStayValid, JobIsSound
<1>2. TrailIsLifecyclePath'
  BY <1>1, TrailStep DEF IInv, TypeOK
<1>3. StaleReadsStayValid'
  BY JobsStep, TodoStep, UnopenedStep DEF IInv, StaleReadsStayValid
<1>4. IntentIsTheApprovedAction'
  BY <1>1, <1>2, IntentStep DEF IInv, TypeOK
<1>5. OneIncidentPerAnomaly'
  BY OneIncidentStep DEF IInv, StaleReadsStayValid
<1>6. FeedbackAgreesWithDecision'
  BY <1>1, FeedbackStep DEF IInv, TypeOK
<1>7. ConsoleShowsOnlyHistory'
  BY ConsoleStep DEF IInv, StaleReadsStayValid
<1> QED
  BY <1>1, <1>2, <1>3, <1>4, <1>5, <1>6, <1>7 DEF IInv

(***************************************************************************)
(* The inductive invariant holds of every execution of the orchestrator.   *)
(***************************************************************************)
THEOREM Invariance == Spec => []IInv
BY InvInit, InvStep, PTL DEF Spec

(* Every variable keeps its type: no handler ever writes to a row, or     *)
(* publishes a snapshot of one, that it does not know.                    *)
THEOREM TypeCorrect == Spec => []TypeOK
<1>1. IInv => TypeOK
  BY DEF IInv
<1> QED
  BY <1>1, Invariance, PTL

(* The audit log tells the story of the incidents table. *)
THEOREM AuditTrailMatchesRow == Spec => []TrailIsLifecyclePath
<1>1. IInv => TrailIsLifecyclePath
  BY DEF IInv
<1> QED
  BY <1>1, Invariance, PTL

(* What a handler keeps across its transactions does not go stale.        *)
THEOREM HandlersNotFooled == Spec => []StaleReadsStayValid
<1>1. IInv => StaleReadsStayValid
  BY DEF IInv
<1> QED
  BY <1>1, Invariance, PTL

(* Only the hypothesis the human approved is ever handed to the executor. *)
THEOREM OnlyApprovedActions == Spec => []IntentIsTheApprovedAction
<1>1. IInv => IntentIsTheApprovedAction
  BY DEF IInv
<1> QED
  BY <1>1, Invariance, PTL

(* Redelivery never opens a second incident for an anomaly.               *)
THEOREM IdempotentIntake == Spec => []OneIncidentPerAnomaly
<1>1. IInv => OneIncidentPerAnomaly
  BY DEF IInv
<1> QED
  BY <1>1, Invariance, PTL

(* Rejection feedback is unique and agrees with the decision.             *)
THEOREM FeedbackIsTheDecision == Spec => []FeedbackAgreesWithDecision
<1>1. IInv => FeedbackAgreesWithDecision
  BY DEF IInv
<1> QED
  BY <1>1, Invariance, PTL

(* The console never shows what has not happened.                         *)
THEOREM ConsoleNeverAhead == Spec => []ConsoleShowsOnlyHistory
<1>1. IInv => ConsoleShowsOnlyHistory
  BY DEF IInv
<1> QED
  BY <1>1, Invariance, PTL

(* No step of any thread touches the verdict of a decided incident.       *)
THEOREM FinalVerdicts == Spec => VerdictIsFinal
<1>1. IInv /\ [Next]_vars =>
        [\A i \in Incidents : state[i] \in Terminal =>
           /\ state'[i] = state[i]
           /\ decision'[i] = decision[i]
           /\ hyps'[i] = hyps[i]]_vars
  BY StepsAreRowSteps, VerdictsStay DEF IInv, StaleReadsStayValid, TypeOK
<1> QED
  BY <1>1, Invariance, PTL DEF Spec, VerdictIsFinal

(* The hypotheses before a human are not replaced while he decides.       *)
THEOREM HypothesesStable == Spec => HypothesesHoldStill
<1>1. IInv /\ [Next]_vars =>
        [\A i \in Incidents : state[i] = "AWAITING_APPROVAL" =>
           /\ hyps'[i] = hyps[i]
           /\ state'[i] \in {"AWAITING_APPROVAL"} \cup Terminal]_vars
  BY StepsAreRowSteps, VerdictsStay DEF IInv, StaleReadsStayValid, TypeOK
<1> QED
  BY <1>1, Invariance, PTL DEF Spec, HypothesesHoldStill
=============================================================================
