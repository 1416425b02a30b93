----------------------- MODULE OrchestratorRefinement -----------------------
(***************************************************************************)
(* The orchestrator implements the approval gate, for any number of        *)
(* incidents, requests and faults: every transaction is a step of the gate *)
(* or leaves it where it is.                                               *)
(***************************************************************************)
EXTENDS OrchestratorProofs

GrantedMap == [i \in Incidents |-> Granted(i)]
HandedMap == [i \in Incidents |-> Handed(i)]

\* A list of hypotheses about to be stored came from the diagnosis service.
AnswersReceived == \A t \in Threads : pc[t] = "complete" => job[t].answer \in Answers

(* Only Diagnose leads to "complete", and no other thread writes job[t].   *)
LEMMA AnswersReceivedStep ==
  ASSUME TypeOK, AnswersReceived, [Next]_vars
  PROVE  AnswersReceived'
<1> USE ThreadsType
<1>a. ThreadTypeOK /\ \A t \in Threads : job[t] \in Job
  BY DEF TypeOK, ThreadTypeOK
<1> SUFFICES ASSUME NEW t \in Threads, pc'[t] = "complete"
             PROVE  job'[t].answer \in Answers
  BY DEF AnswersReceived
<1>1. CASE pc'[t] = pc[t] /\ job'[t] = job[t]
  BY <1>1 DEF AnswersReceived
<1>2. ASSUME NEW u \in Threads, Diagnose(u)
      PROVE  job'[t].answer \in Answers
  BY <1>2, <1>1, <1>a DEF Diagnose, Goto, ThreadTypeOK, Job
<1>3. ASSUME NEW u \in Threads,
             \/ StartAnalysis(u) \/ CompleteAnalysis(u) \/ FailAnalysis(u)
             \/ ReadBack(u) \/ Publish(u)
             \/ DatabaseFails(u) \/ VersionLookupRaises(u)
      PROVE  pc'[t] = pc[t] /\ job'[t] = job[t]
  BY <1>3, <1>a
     DEF StartAnalysis, CompleteAnalysis, FailAnalysis, ReadBack, Publish, DatabaseFails,
         VersionLookupRaises, Goto, Finish, ThreadTypeOK
<1>4. ASSUME NEW u \in Requests, ProceedRequest(u) \/ NewRequest(u)
      PROVE  pc'[t] = pc[t] /\ job'[t] = job[t]
  BY <1>4, <1>a
     DEF ProceedRequest, NewRequest, Approve, LogIntent, MarkExecuted, Reject, SaveFeedback,
         ApproveRead, RejectRead, RequestInfo, ReanalyzeRead, Goto, Finish, ThreadTypeOK
<1>5. ASSUME ConsumerStep \/ SweeperStep \/ LoseBroker \/ Crash
      PROVE  pc'[t] = pc[t] /\ job'[t] = job[t]
  <2>1. CASE Connect \/ LoseBroker \/ Commit
    BY <2>1, <1>a DEF Connect, LoseBroker, Commit, threads, Goto, ThreadTypeOK
  <2>2. CASE Fetch
    BY <2>2, <1>a DEF Fetch, Goto, ThreadTypeOK
  <2>3. CASE LookupAnomaly
    BY <2>3, <1>a DEF LookupAnomaly, Goto, Finish, ThreadTypeOK
  <2>4. CASE OpenIncident
    BY <2>4, <1>a DEF OpenIncident, Goto, ThreadTypeOK
  <2>5. CASE SweepExpired
    BY <2>5, <1>a DEF SweepExpired, Goto, ThreadTypeOK
  <2>6. CASE Announce
    BY <2>6, <1>a DEF Announce, Goto, ThreadTypeOK
  <2>7. CASE Crash
    BY <2>7, <1>a DEF Crash, ThreadTypeOK
  <2> QED
    BY <1>5, <2>1, <2>2, <2>3, <2>4, <2>5, <2>6, <2>7 DEF ConsumerStep, SweeperStep
<1>6. ASSUME \/ \E m \in Anomalies \cup {Malformed} : PublishAnomaly(m)
             \/ \E i \in Incidents : DeadlinePasses(i)
             \/ UNCHANGED vars
      PROVE  pc'[t] = pc[t] /\ job'[t] = job[t]
  BY <1>6 DEF PublishAnomaly, DeadlinePasses, vars, threads
<1> QED
  BY <1>1, <1>2, <1>3, <1>4, <1>5, <1>6 DEF Next, Proceed, Fault

-----------------------------------------------------------------------------
(***************************************************************************)
(* What a step does to the abstract variables of one incident.             *)
(***************************************************************************)
(* An approved incident stays approved and keeps its choice; no other      *)
(* transition but a decision makes one.                                    *)
LEMMA GrantedKept ==
  ASSUME DbTypeOK, TrailIsLifecyclePath, NEW i \in Incidents, RowStep(i),
         ~ (state[i] = "AWAITING_APPROVAL" /\ state'[i] = "APPROVED")
  PROVE  Granted(i)' = Granted(i)
<1>1. CASE state[i] = "APPROVED"
  BY <1>1, VerdictsStay DEF Granted, Terminal
<1>2. CASE state[i] # "APPROVED"
  <2>1. CASE state'[i] = state[i]
    BY <1>2, <2>1 DEF Granted
  <2>2. ASSUME NEW e \in Entry, Transition(i, e)
        PROVE  state'[i] # "APPROVED"
    <3>1. e.event \in Events
      BY DEF Entry
    <3>2. SUFFICES ASSUME state'[i] = "APPROVED" PROVE FALSE
      OBVIOUS
    <3>3. e.event \in {"APPROVED", "EXECUTION_INTENT_LOGGED"}
      BY <2>2, <3>1, <3>2, EventTables DEF Transition
    <3>4. trail[i] # <<>> /\ e.event \in Successors[Last(trail[i]).event]
      BY <2>2, <3>3 DEF Transition
    <3>5. Last(trail[i]).event \in Events /\ state[i] = StateAnnounced[Last(trail[i]).event]
      BY <3>4, LastEntry DEF DbTypeOK, TrailIsLifecyclePath
    <3>6. Last(trail[i]).event \in {"ANALYSIS_COMPLETE", "MORE_INFO_REQUESTED", "APPROVED"}
      BY <3>3, <3>4, <3>5 DEF Events, Successors
    <3> QED
      BY <1>2, <3>2, <3>5, <3>6 DEF StateAnnounced
  <2> QED
    BY <1>2, <2>1, <2>2, StepIsTransition DEF Granted
<1> QED
  BY <1>1, <1>2

(* An intent that is logged stays the last entry of its trail, and a step  *)
(* that logs none leaves nothing handed over.                              *)
LEMMA HandedKept ==
  ASSUME DbTypeOK, TrailIsLifecyclePath, NEW i \in Incidents, QuietStep(i)
  PROVE  Handed(i)' = Handed(i)
<1>0. trail[i] \in Seq(Entry)
  BY DEF DbTypeOK
<1>1. CASE trail'[i] = trail[i]
  BY <1>1 DEF Handed, Logged
<1>2. ASSUME NEW e \in Entry, e.event # "EXECUTION_INTENT_LOGGED", Transition(i, e)
      PROVE  Handed(i)' = Handed(i)
  <2>1. ~ Logged(i, "EXECUTION_INTENT_LOGGED")
    <3>1. SUFFICES ASSUME NEW k \in DOMAIN trail[i],
                          trail[i][k].event = "EXECUTION_INTENT_LOGGED"
                   PROVE  FALSE
      BY DEF Logged
    <3>2. k = Len(trail[i])
      BY <3>1, IntentIsLast
    <3>3. e.event \in Successors["EXECUTION_INTENT_LOGGED"]
      BY <1>0, <1>2, <3>1, <3>2 DEF Transition, Last
    <3> QED
      BY <3>3 DEF Successors
  <2>2. ~ \E k \in DOMAIN trail'[i] : trail'[i][k].event = "EXECUTION_INTENT_LOGGED"
    <3>1. trail'[i] = Append(trail[i], e)
      BY <1>2 DEF Transition
    <3> QED
      BY <1>0, <1>2, <2>1, <3>1, AppendEntry DEF Logged
  <2> QED
    BY <2>1, <2>2 DEF Handed, Logged
<1> QED
  BY <1>1, <1>2 DEF QuietStep, RowKept

(* A step that decides nothing in favour and logs no intent.               *)
LEMMA GateKept ==
  ASSUME DbTypeOK, TrailIsLifecyclePath, \A i \in Incidents : QuietStep(i),
         \A i \in Incidents : ~ (state[i] = "AWAITING_APPROVAL" /\ state'[i] = "APPROVED")
  PROVE  GrantedMap' = GrantedMap /\ HandedMap' = HandedMap
<1>1. \A i \in Incidents : Granted(i)' = Granted(i)
  BY GrantedKept DEF RowStep
<1>2. \A i \in Incidents : Handed(i)' = Handed(i)
  BY HandedKept
<1> QED
  BY <1>1, <1>2 DEF GrantedMap, HandedMap

-----------------------------------------------------------------------------
(***************************************************************************)
(* Each transaction, seen through the gate.                                *)
(***************************************************************************)
(* The gate's variables, as the definitions of this module name them.      *)
LEMMA GateVariables ==
  /\ Gate!gate = <<state, hyps, GrantedMap, HandedMap>>
  /\ (Gate!gate)' = <<state', hyps', GrantedMap', HandedMap'>>
BY DEF Gate!gate, GrantedMap, HandedMap

(* A step that keeps all four of them is a stutter of the gate.            *)
LEMMA GateStutter ==
  ASSUME state' = state, hyps' = hyps, GrantedMap' = GrantedMap, HandedMap' = HandedMap
  PROVE  UNCHANGED Gate!gate
BY GateVariables

(* A database that does not change does not move the gate.                 *)
LEMMA UnchangedStutters == UNCHANGED db => UNCHANGED Gate!gate
<1> SUFFICES ASSUME UNCHANGED db PROVE UNCHANGED Gate!gate
  OBVIOUS
<1>1. state' = state /\ hyps' = hyps /\ decision' = decision /\ trail' = trail
  BY DEF db
<1>2. GrantedMap' = GrantedMap /\ HandedMap' = HandedMap
  BY <1>1 DEF GrantedMap, HandedMap, Granted, Handed, Logged
<1> QED
  BY <1>1, <1>2, GateStutter

(* create_detected is the gate's Detect.                                   *)
LEMMA DetectStep ==
  ASSUME TypeOK, TrailIsLifecyclePath, NEW i \in Incidents, NEW a,
         CreateDetected(i, a)
  PROVE  Gate!Next
<1>a. DbTypeOK
  BY DEF TypeOK
<1>1. \A j \in Incidents : QuietStep(j)
  BY <1>a, CreateDetectedRows
<1>2. state[i] = "ABSENT" /\ state' = [state EXCEPT ![i] = "DETECTED"] /\ hyps' = hyps
  BY DEF CreateDetected
<1>3. GrantedMap' = GrantedMap /\ HandedMap' = HandedMap
  BY <1>a, <1>1, <1>2, GateKept DEF DbTypeOK
<1>4. Gate!Detect(i)
  BY <1>2, <1>3 DEF Gate!Detect, Gate!Move, GrantedMap, HandedMap
<1> QED
  BY <1>4 DEF Gate!Next

(* mark_analyzing is Analyze, or finds no row and changes nothing.         *)
LEMMA AnalyzeStep ==
  ASSUME TypeOK, TrailIsLifecyclePath, NEW i \in Incidents, state[i] # "ABSENT",
         MarkAnalyzing(i)
  PROVE  Gate!Next \/ UNCHANGED Gate!gate
<1>a. DbTypeOK
  BY DEF TypeOK
<1>1. CASE UNCHANGED db
  BY <1>1, UnchangedStutters
<1>2. CASE ~ UNCHANGED db
  <2>1. /\ state[i] \in {"DETECTED", "ANALYSIS_FAILED"}
        /\ state' = [state EXCEPT ![i] = "ANALYZING"] /\ hyps' = hyps
    BY <1>2 DEF MarkAnalyzing
  <2>2. GrantedMap' = GrantedMap /\ HandedMap' = HandedMap
    BY <1>a, <2>1, MarkAnalyzingRows, GateKept DEF DbTypeOK
  <2>3. Gate!Analyze(i)
    BY <2>1, <2>2 DEF Gate!Analyze, Gate!Move, GrantedMap, HandedMap
  <2> QED
    BY <2>3 DEF Gate!Next
<1> QED
  BY <1>1, <1>2

(* save_analysis_result is Offer, or comes too late.                       *)
LEMMA OfferStep ==
  ASSUME TypeOK, TrailIsLifecyclePath, NEW i \in Incidents, NEW answer \in Answers,
         SaveAnalysisResult(i, answer)
  PROVE  Gate!Next \/ UNCHANGED Gate!gate
<1>a. DbTypeOK
  BY DEF TypeOK
<1>1. CASE UNCHANGED db
  BY <1>1, UnchangedStutters
<1>2. CASE ~ UNCHANGED db
  <2>1. /\ state[i] = "ANALYZING"
        /\ state' = [state EXCEPT ![i] = "AWAITING_APPROVAL"]
        /\ hyps' = [hyps EXCEPT ![i] = answer]
    BY <1>2 DEF SaveAnalysisResult
  <2>2. GrantedMap' = GrantedMap /\ HandedMap' = HandedMap
    BY <1>a, <2>1, SaveAnalysisResultRows, GateKept DEF DbTypeOK
  <2>3. Gate!Offer(i)
    BY <2>1, <2>2 DEF Gate!Offer, Gate!Move, GrantedMap, HandedMap
  <2> QED
    BY <2>3 DEF Gate!Next
<1> QED
  BY <1>1, <1>2

(* mark_analysis_failed is GiveUp, or comes too late.                      *)
LEMMA GiveUpStep ==
  ASSUME TypeOK, TrailIsLifecyclePath, NEW i \in Incidents, MarkAnalysisFailed(i)
  PROVE  Gate!Next \/ UNCHANGED Gate!gate
<1>a. DbTypeOK
  BY DEF TypeOK
<1>1. CASE UNCHANGED db
  BY <1>1, UnchangedStutters
<1>2. CASE ~ UNCHANGED db
  <2>1. /\ state[i] = "ANALYZING"
        /\ state' = [state EXCEPT ![i] = "ANALYSIS_FAILED"] /\ hyps' = hyps
    BY <1>2 DEF MarkAnalysisFailed
  <2>2. GrantedMap' = GrantedMap /\ HandedMap' = HandedMap
    BY <1>a, <2>1, MarkAnalysisFailedRows, GateKept DEF DbTypeOK
  <2>3. Gate!GiveUp(i)
    BY <2>1, <2>2 DEF Gate!GiveUp, Gate!Move, GrantedMap, HandedMap
  <2> QED
    BY <2>3 DEF Gate!Next
<1> QED
  BY <1>1, <1>2

(* A decision in favour is Grant: the rank it names is on the menu.        *)
LEMMA GrantStep ==
  ASSUME TypeOK, TrailIsLifecyclePath, NEW i \in Incidents, NEW t \in Requests,
         NEW r \in Ranks \cup {None}, r \in RanksOf(hyps[i]), Decide(i, "APPROVED", r, t)
  PROVE  Gate!Next
<1>a. DbTypeOK
  BY DEF TypeOK
<1>1. /\ state[i] = "AWAITING_APPROVAL"
      /\ state' = [state EXCEPT ![i] = "APPROVED"] /\ hyps' = hyps
      /\ decision' = [decision EXCEPT ![i] = [rank |-> r, by |-> t]]
  BY DEF Decide
<1>2. \A j \in Incidents : QuietStep(j)
  BY <1>a, DecideRows
<1>3. HandedMap' = HandedMap
  BY <1>2, <1>a, HandedKept DEF HandedMap
<1>4. \A j \in Incidents \ {i} : Granted(j)' = Granted(j)
  BY <1>1, <1>2, <1>a, GrantedKept DEF RowStep, DbTypeOK
<1>5. Granted(i)' = Chosen(hyps[i], r)
  BY <1>1, <1>a DEF Granted, DbTypeOK
<1>6. hyps[i] \in Seq(Hypothesis)
  <2>1. <<>> \in Seq(Hypothesis)
    OBVIOUS
  <2> QED
    BY <2>1, <1>a, DataAssumption DEF DbTypeOK
<1>7. PICK k \in DOMAIN hyps[i] : Chosen(hyps[i], r) = hyps[i][k].action
  BY <1>6, ChosenIsOffered
<1>8. GrantedMap' = [GrantedMap EXCEPT ![i] = hyps[i][k].action]
  BY <1>4, <1>5, <1>7 DEF GrantedMap
<1>9. Gate!Grant(i)
  BY <1>1, <1>3, <1>8 DEF Gate!Grant, Gate!Move, GrantedMap, HandedMap
<1> QED
  BY <1>9 DEF Gate!Next

(* A decision against is Refuse.                                           *)
LEMMA RefuseStep ==
  ASSUME TypeOK, TrailIsLifecyclePath, NEW i \in Incidents, NEW t \in Requests,
         NEW r \in Ranks \cup {None}, Decide(i, "REJECTED", r, t)
  PROVE  Gate!Next
<1>a. DbTypeOK
  BY DEF TypeOK
<1>1. /\ state[i] = "AWAITING_APPROVAL"
      /\ state' = [state EXCEPT ![i] = "REJECTED"] /\ hyps' = hyps
  BY DEF Decide
<1>2. GrantedMap' = GrantedMap /\ HandedMap' = HandedMap
  BY <1>a, <1>1, DecideRows, GateKept DEF DbTypeOK
<1>3. Gate!Refuse(i)
  BY <1>1, <1>2 DEF Gate!Refuse, Gate!Move, GrantedMap, HandedMap
<1> QED
  BY <1>3 DEF Gate!Next

(* An extension changes the deadline and the trail, neither of which the   *)
(* gate knows.                                                             *)
LEMMA RequestInfoStutters ==
  ASSUME TypeOK, TrailIsLifecyclePath, NEW i \in Incidents, LogRequestInfo(i)
  PROVE  UNCHANGED Gate!gate
<1>a. DbTypeOK
  BY DEF TypeOK
<1>1. state' = state /\ hyps' = hyps
  BY DEF LogRequestInfo
<1> QED
  BY <1>a, <1>1, LogRequestInfoRows, GateKept, GateStutter

(* The sweep is Expire of everything it found stale.                       *)
LEMMA ExpireStep ==
  ASSUME TypeOK, TrailIsLifecyclePath, ExpireStale(Stale)
  PROVE  Gate!Next
<1>a. DbTypeOK
  BY DEF TypeOK
<1>1. /\ Stale \in SUBSET Incidents /\ \A i \in Stale : state[i] = "AWAITING_APPROVAL"
      /\ state' = [i \in Incidents |-> IF i \in Stale THEN "EXPIRED" ELSE state[i]]
      /\ hyps' = hyps
  BY DEF ExpireStale, Stale
<1>2. GrantedMap' = GrantedMap /\ HandedMap' = HandedMap
  BY <1>a, <1>1, ExpireStaleRows, GateKept DEF DbTypeOK
<1>3. PICK S \in SUBSET Incidents : S = Stale
  BY <1>1
<1>4. Gate!Expire(S)
  BY <1>1, <1>2, <1>3 DEF Gate!Expire, GrantedMap, HandedMap
<1> QED
  BY <1>4 DEF Gate!Next

(* An intent is HandOver: it is the first one, and names what was granted. *)
LEMMA HandOverStep ==
  ASSUME TypeOK, TrailIsLifecyclePath, NEW i \in Incidents, NEW r \in Ranks \cup {None},
         state[i] # "ABSENT", Last(trail[i]).event = "APPROVED", decision[i].rank = r,
         NEW act \in Actions \cup {None}, act = Chosen(hyps[i], r), RecordIntent(i, r, act)
  PROVE  Gate!Next
<1> DEFINE e == [event |-> "EXECUTION_INTENT_LOGGED", rank |-> r, action |-> act]
<1>a. DbTypeOK /\ trail[i] \in Seq(Entry) /\ e \in Entry
  BY DEF TypeOK, DbTypeOK, Entry, Events
<1>1. /\ state' = state /\ hyps' = hyps /\ decision' = decision
      /\ trail' = [trail EXCEPT ![i] = Append(@, e)]
  BY DEF RecordIntent, AppendAudit
<1>2. state[i] = "APPROVED"
  BY <1>a, StateIsLast DEF StateAnnounced
<1>3. GrantedMap' = GrantedMap
  BY <1>1 DEF GrantedMap, Granted
<1>4. Granted(i) = act
  BY <1>2 DEF Granted
<1>5. Handed(i) = None
  <2>1. ~ Logged(i, "EXECUTION_INTENT_LOGGED")
    <3>1. SUFFICES ASSUME NEW k \in DOMAIN trail[i],
                          trail[i][k].event = "EXECUTION_INTENT_LOGGED"
                   PROVE  FALSE
      BY DEF Logged
    <3>2. k = Len(trail[i])
      BY <1>a, <3>1, IntentIsLast
    <3> QED
      BY <3>1, <3>2 DEF Last
  <2> QED
    BY <2>1 DEF Handed
<1>6. Handed(i)' = act
  <2>1. trail'[i] = Append(trail[i], e)
    BY <1>1, <1>a DEF DbTypeOK
  <2>2. Last(trail'[i]) = e /\ Len(trail'[i]) \in DOMAIN trail'[i]
    BY <2>1, <1>a, AppendEntry DEF Last
  <2>3. Logged(i, "EXECUTION_INTENT_LOGGED")'
    BY <2>2 DEF Logged, Last
  <2> QED
    BY <2>2, <2>3 DEF Handed
<1>7. \A j \in Incidents \ {i} : Handed(j)' = Handed(j)
  BY <1>1, <1>a DEF Handed, Logged, DbTypeOK
<1>8. HandedMap' = [HandedMap EXCEPT ![i] = GrantedMap[i]]
  BY <1>4, <1>6, <1>7 DEF HandedMap, GrantedMap
<1>9. HandedMap[i] = None
  BY <1>5 DEF HandedMap
<1>10. Gate!HandOver(i)
  BY <1>1, <1>2, <1>3, <1>8, <1>9 DEF Gate!HandOver, GrantedMap, HandedMap
<1> QED
  BY <1>10 DEF Gate!Next

(* The executor's flag and the feedback row are not the gate's business.   *)
LEMMA FlagStutters ==
  ASSUME NEW i \in Incidents, MarkExecutionLogged(i)
  PROVE  UNCHANGED Gate!gate
<1>1. state' = state /\ hyps' = hyps /\ decision' = decision /\ trail' = trail
  BY DEF MarkExecutionLogged
<1>2. GrantedMap' = GrantedMap /\ HandedMap' = HandedMap
  BY <1>1 DEF GrantedMap, HandedMap, Granted, Handed, Logged
<1> QED
  BY <1>1, <1>2, GateStutter

(* The row a rejection leaves for the retraining data.                     *)
LEMMA FeedbackStutters ==
  ASSUME NEW i, NEW r, NEW t, SaveRejectionFeedback(i, r, t)
  PROVE  UNCHANGED Gate!gate
<1>1. state' = state /\ hyps' = hyps /\ decision' = decision /\ trail' = trail
  BY DEF SaveRejectionFeedback
<1>2. GrantedMap' = GrantedMap /\ HandedMap' = HandedMap
  BY <1>1 DEF GrantedMap, HandedMap, Granted, Handed, Logged
<1> QED
  BY <1>1, <1>2, GateStutter

-----------------------------------------------------------------------------
(* A fresh process has opened, granted and handed over nothing.            *)
LEMMA GateInit == Init => Gate!Init
<1> SUFFICES ASSUME Init PROVE Gate!Init
  OBVIOUS
<1>1. \A i \in Incidents : Granted(i) = None /\ Handed(i) = None
  BY DEF Init, Granted, Handed, Logged
<1> QED
  BY <1>1 DEF Init, Gate!Init

(* Every step of every thread is a step of the gate or a stutter.          *)
LEMMA GateStep ==
  ASSUME IInv, AnswersReceived, [Next]_vars
  PROVE  Gate!Next \/ UNCHANGED Gate!gate
<1> USE ThreadsType
<1>a. /\ TypeOK /\ TrailIsLifecyclePath
      /\ \A t \in Threads : HasIncident(t) /\ ChoiceStillOffered(t) /\ VerdictIsMine(t)
      /\ \A t \in Threads : job[t] \in Job
  BY DEF IInv, StaleReadsStayValid, JobIsSound, TypeOK, ThreadTypeOK
<1>1. CASE UNCHANGED db
  BY <1>1, UnchangedStutters
<1>2. CASE OpenIncident
  <2>1. PICK i \in Incidents : CreateDetected(i, job[Consumer].anomaly)
    BY <1>2 DEF OpenIncident
  <2>2. PICK a : a = job[Consumer].anomaly
    OBVIOUS
  <2> QED
    BY <2>1, <2>2, <1>a, DetectStep
<1>3. CASE SweepExpired
  BY <1>3, <1>a, ExpireStep DEF SweepExpired
<1>4. ASSUME NEW t \in Threads, StartAnalysis(t)
      PROVE  Gate!Next \/ UNCHANGED Gate!gate
  <2>1. PICK i \in Incidents : i = job[t].inc /\ state[i] # "ABSENT"
    BY <1>4, <1>a DEF StartAnalysis, HasIncident, Analysing
  <2> QED
    BY <1>4, <2>1, <1>a, AnalyzeStep DEF StartAnalysis
<1>5. ASSUME NEW t \in Threads, CompleteAnalysis(t)
      PROVE  Gate!Next \/ UNCHANGED Gate!gate
  <2>1. PICK i \in Incidents : i = job[t].inc
    BY <1>5, <1>a DEF CompleteAnalysis, HasIncident, Analysing
  <2>2. PICK answer \in Answers : answer = job[t].answer
    BY <1>5 DEF CompleteAnalysis, AnswersReceived
  <2> QED
    BY <1>5, <2>1, <2>2, <1>a, OfferStep DEF CompleteAnalysis
<1>6. ASSUME NEW t \in Threads, FailAnalysis(t)
      PROVE  Gate!Next \/ UNCHANGED Gate!gate
  <2>1. PICK i \in Incidents : i = job[t].inc
    BY <1>6, <1>a DEF FailAnalysis, HasIncident, Analysing
  <2> QED
    BY <1>6, <2>1, <1>a, GiveUpStep DEF FailAnalysis
<1>7. ASSUME NEW t \in Requests, Approve(t)
      PROVE  Gate!Next \/ UNCHANGED Gate!gate
  <2>1. PICK i \in Incidents : i = job[t].inc
    BY <1>7, <1>a DEF Approve, HasIncident, Approving
  <2>2. job[t].rank \in RanksOf(hyps[i]) /\ job[t].rank \in Ranks \cup {None}
    BY <1>7, <2>1, <1>a DEF Approve, ChoiceStillOffered, Approving, Job
  <2>3. PICK r \in Ranks \cup {None} : r = job[t].rank /\ r \in RanksOf(hyps[i])
    BY <2>2
  <2>4. CASE Decide(i, "APPROVED", r, t)
    BY <2>3, <2>4, <1>a, GrantStep
  <2> QED
    BY <1>7, <1>1, <2>1, <2>3, <2>4 DEF Approve
<1>8. ASSUME NEW t \in Requests, Reject(t)
      PROVE  Gate!Next \/ UNCHANGED Gate!gate
  <2>1. PICK i \in Incidents : i = job[t].inc
    BY <1>8, <1>a DEF Reject, HasIncident, Rejecting
  <2>2. PICK r \in Ranks \cup {None} : r = job[t].rank
    BY <1>8, <1>a DEF Reject, Job
  <2>3. CASE Decide(i, "REJECTED", r, t)
    BY <2>3, <1>a, RefuseStep
  <2> QED
    BY <1>8, <1>1, <2>1, <2>2, <2>3 DEF Reject
<1>9. ASSUME NEW t \in Requests, LogIntent(t)
      PROVE  Gate!Next
  <2>1. PICK i \in Incidents : i = job[t].inc /\ state[i] # "ABSENT"
    BY <1>9, <1>a DEF LogIntent, HasIncident, Approving
  <2>2. PICK r \in Ranks \cup {None} : r = job[t].rank
    BY <1>9, <1>a DEF LogIntent, Job
  <2>3. PICK act \in Actions \cup {None} : act = job[t].action
    BY <1>9, <1>a DEF LogIntent, Job
  <2>4. act = Chosen(hyps[i], r)
    BY <1>9, <2>1, <2>2, <2>3, <1>a DEF LogIntent, ChoiceStillOffered, Approving
  <2>5. Last(trail[i]).event = "APPROVED" /\ decision[i].rank = r
    <3>1. /\ Last(trail[job[t].inc]).event = "APPROVED"
          /\ decision[job[t].inc] = [rank |-> job[t].rank, by |-> t]
      BY <1>9, <1>a DEF LogIntent, VerdictIsMine
    <3> QED
      BY <2>1, <2>2, <3>1
  <2> QED
    BY <1>9, <2>1, <2>2, <2>3, <2>4, <2>5, <1>a, HandOverStep DEF LogIntent
<1>10. ASSUME NEW t \in Requests, MarkExecuted(t)
       PROVE  UNCHANGED Gate!gate
  <2>1. PICK i \in Incidents : i = job[t].inc
    BY <1>10, <1>a DEF MarkExecuted, HasIncident, Approving
  <2> QED
    BY <1>10, <2>1, FlagStutters DEF MarkExecuted
<1>11. ASSUME NEW t \in Requests, SaveFeedback(t)
       PROVE  UNCHANGED Gate!gate
  <2>1. PICK i \in Incidents : i = job[t].inc
    BY <1>11, <1>a DEF SaveFeedback, HasIncident, Rejecting
  <2>2. PICK r \in Ranks \cup {None} : r = job[t].rank
    BY <1>11, <1>a DEF SaveFeedback, Job
  <2> QED
    BY <1>11, <2>1, <2>2, FeedbackStutters DEF SaveFeedback
<1>12. ASSUME NEW t \in Requests, NEW i \in Incidents, RequestInfo(t, i)
       PROVE  UNCHANGED Gate!gate
  BY <1>12, <1>a, RequestInfoStutters DEF RequestInfo
<1>13. ASSUME NEW i \in Incidents, DeadlinePasses(i)
       PROVE  UNCHANGED Gate!gate
  <2>1. state' = state /\ hyps' = hyps /\ decision' = decision /\ trail' = trail
    BY <1>13 DEF DeadlinePasses
  <2>2. GrantedMap' = GrantedMap /\ HandedMap' = HandedMap
    BY <2>1 DEF GrantedMap, HandedMap, Granted, Handed, Logged
  <2> QED
    BY <2>1, <2>2, GateStutter
<1>14. CASE /\ Next
            /\ ~ OpenIncident /\ ~ SweepExpired
            /\ \A t \in Threads : ~ StartAnalysis(t) /\ ~ CompleteAnalysis(t) /\ ~ FailAnalysis(t)
            /\ \A t \in Requests : ~ ProceedRequest(t)
            /\ \A t \in Requests, i \in Incidents : ~ RequestInfo(t, i)
            /\ \A i \in Incidents : ~ DeadlinePasses(i)
  <2>1. UNCHANGED db
    BY <1>14 DEF Next, ConsumerStep, SweeperStep, Proceed, NewRequest, Fault, PublishAnomaly,
       Connect, Fetch, Commit, LookupAnomaly, Announce, Diagnose, ReadBack, Publish,
       ApproveRead, RejectRead, ReanalyzeRead, LoseBroker, Crash, DatabaseFails,
       VersionLookupRaises
  <2> QED
    BY <2>1, <1>1
<1>15. CASE UNCHANGED vars
  BY <1>15, <1>1 DEF vars
<1> QED
  BY <1>2, <1>3, <1>4, <1>5, <1>6, <1>7, <1>8, <1>9, <1>10, <1>11, <1>12, <1>13, <1>14, <1>15
     DEF ProceedRequest

(***************************************************************************)
(* The orchestrator implements the approval gate: whatever its threads     *)
(* interleave and whichever of them fail, an incident passes the gate at   *)
(* most once and the executor is handed what was granted, at most once.    *)
(***************************************************************************)
THEOREM GateImplemented == Spec => ImplementsApprovalGate
<1>1. Init => AnswersReceived
  BY DEF Init, AnswersReceived
<1>2. IInv /\ AnswersReceived /\ [Next]_vars => AnswersReceived'
  BY AnswersReceivedStep DEF IInv
<1>3. IInv /\ AnswersReceived /\ [Next]_vars => [Gate!Next]_(Gate!gate)
  BY GateStep
<1> QED
  BY <1>1, <1>2, <1>3, GateInit, Invariance, PTL
     DEF Spec, ImplementsApprovalGate, Gate!Spec
=============================================================================
