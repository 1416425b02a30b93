------------------------ MODULE AnomalyDetectorProofs ------------------------
(***************************************************************************)
(* Mutes and escalations, for any services, sites, scores, delays, lags    *)
(* and limits, and any number of samples and runs of the process.          *)
(***************************************************************************)
EXTENDS AnomalyDetectorInvariant, SequenceTheorems, WellFoundedInduction, TLAPS

LEMMA Numbers ==
  /\ Delay \in Nat /\ Cooldown \in Nat /\ Escalation \in Nat /\ MaxMembers \in Nat
  /\ StaleAfter \in Nat /\ MinSeen \in Nat /\ Lag \in Nat /\ MaxTime \in Nat
  /\ MaxSamples \in Nat /\ MaxRuns \in Nat /\ LastSample \in Nat
  /\ MaxMembers > 0 /\ Cooldown > 0 /\ StaleAfter > 0 /\ MinSeen > 0
  /\ MaxTime > 0 /\ MaxRuns > 0
  /\ \A score \in Scores : score \in Nat
BY NumbersAssumption

-----------------------------------------------------------------------------
(***************************************************************************)
(* Greatest elements: of a bounded set of numbers, of two numbers, of the  *)
(* scores in a sequence of signals.                                        *)
(***************************************************************************)
(* A set of natural numbers that is not empty has a least element.         *)
LEMMA LeastNatural ==
  ASSUME NEW S \in SUBSET Nat, S # {}
  PROVE  \E m \in S : \A n \in S : m <= n
<1>1. PICK m \in S : \A n \in S : <<n, m>> \notin OpToRel(<, Nat)
  BY WFMin, NatLessThanWellFounded, Zenon
<1>2. \A n \in S : <<n, m>> \in Nat \X Nat => ~ (n < m)
  BY <1>1, Zenon DEF OpToRel
<1>3. \A n \in S : <<n, m>> \in Nat \X Nat
  OBVIOUS
<1>4. \A n \in S : ~ (n < m)
  BY <1>2, <1>3, Zenon
<1>5. \A n \in S : n \in Nat /\ m \in Nat
  OBVIOUS
<1>6. \A n \in S : m <= n
  BY <1>4, <1>5, SMT
<1> QED
  BY <1>6

(* One that is bounded has a greatest, which is what Max says.             *)
LEMMA GreatestNatural ==
  ASSUME NEW S \in SUBSET Nat, S # {}, NEW b \in Nat, \A n \in S : n <= b
  PROVE  Max(S) \in S /\ Max(S) \in Nat /\ \A n \in S : n <= Max(S)
<1> DEFINE D == {b - n : n \in S}
<1>1. PICK d \in D : \A e \in D : d <= e
  <2>1. D \in SUBSET Nat
    <3>1. \A n \in S : n \in Nat /\ n <= b
      OBVIOUS
    <3> QED
      BY <3>1
  <2>2. D # {}
    OBVIOUS
  <2> HIDE DEF D
  <2> QED
    BY <2>1, <2>2, LeastNatural
<1>2. PICK m \in S : d = b - m
  BY <1>1
<1>3. \A n \in S : n \in Nat /\ m >= n
  <2> TAKE n \in S
  <2>1. d <= b - n
    BY <1>1
  <2>2. n \in Nat /\ m \in Nat
    OBVIOUS
  <2> QED
    BY <2>1, <2>2, <1>2
<1>4. Max(S) \in S /\ \A n \in S : Max(S) >= n
  BY <1>3 DEF Max
<1> QED
  BY <1>3, <1>4

LEMMA MaxOfTwo ==
  ASSUME NEW a \in Nat, NEW b \in Nat
  PROVE  Max({a, b}) \in {a, b} /\ a <= Max({a, b}) /\ b <= Max({a, b})
<1>1. {a, b} \in SUBSET Nat /\ {a, b} # {} /\ a + b \in Nat /\ \A n \in {a, b} : n <= a + b
  OBVIOUS
<1> QED
  BY <1>1, GreatestNatural

(* What a sequence of signals holds.                                       *)
LEMMA SignalTyped ==
  ASSUME NEW q \in Seq(Signal), NEW k \in DOMAIN q
  PROVE  /\ q[k] \in Signal /\ q[k].svc \in Services /\ q[k].at \in Times
         /\ q[k].at \in Nat /\ q[k].score \in Nat
<1>1. q[k] \in Signal
  OBVIOUS
<1> QED
  BY <1>1, Numbers DEF Signal, Times

(* The scores of a sequence of signals are bounded, however long it is.    *)
LEMMA ScoresAreBounded ==
  ASSUME NEW q \in Seq(Signal)
  PROVE  \E b \in Nat : \A k \in DOMAIN q : q[k].score <= b
<1> DEFINE Bounded(n) == \E b \in Nat : \A k \in 1..n : q[k].score <= b
           C == {n \in 0..Len(q) : ~ Bounded(n)}
<1>0. Len(q) \in Nat /\ DOMAIN q = 1..Len(q) /\ \A k \in 1..Len(q) : q[k].score \in Nat
  BY SignalTyped
<1>1. ASSUME C # {} PROVE FALSE
  <2>1. PICK m \in C : \A n \in C : m <= n
    <3>1. C \in SUBSET Nat
      BY <1>0
    <3> HIDE DEF C
    <3> QED
      BY <1>1, <3>1, LeastNatural
  <2>2. m \in 0..Len(q) /\ ~ Bounded(m) /\ \A n \in 0..Len(q) : n < m => Bounded(n)
    BY <1>0, <2>1
  <2> HIDE DEF C
  <2>3. m # 0
    <3>1. Bounded(0)
      <4>1. \A k \in 1..0 : q[k].score <= 0
        OBVIOUS
      <4> QED
        BY <4>1
    <3> QED
      BY <2>2, <3>1
  <2>4. Bounded(m - 1)
    <3> HIDE DEF Bounded
    <3> QED
      BY <1>0, <2>2, <2>3
  <2>5. PICK b \in Nat : \A k \in 1..(m - 1) : q[k].score <= b
    BY <2>4
  <2>6. m \in 1..Len(q) /\ q[m].score \in Nat
    <3> HIDE DEF Bounded
    <3> QED
      BY <1>0, <2>2, <2>3
  <2>7. ASSUME NEW k \in 1..m PROVE q[k].score <= b + q[m].score
    <3>1. k \in 1..(m - 1) \/ k = m
      BY <2>6
    <3>2. q[k].score \in Nat
      BY <1>0, <2>6
    <3> QED
      BY <2>5, <2>6, <3>1, <3>2
  <2>8. Bounded(m)
    <3>1. b + q[m].score \in Nat
      BY <2>6
    <3> QED
      BY <2>7, <3>1
  <2> QED
    BY <2>2, <2>8
<1>2. Bounded(Len(q))
  <2>1. Len(q) \in 0..Len(q)
    BY <1>0
  <2>2. C = {}
    <3> HIDE DEF C
    <3> QED
      BY <1>1
  <2>3. Len(q) \notin C
    <3> HIDE DEF C
    <3> QED
      BY <2>2
  <2> HIDE DEF Bounded
  <2> QED
    BY <2>1, <2>3
<1> QED
  BY <1>0, <1>2

(* The peak of a service in an alert that names it is a number.            *)
LEMMA PeakIsNatural ==
  ASSUME NEW q \in Seq(Signal), NEW s \in ServicesOf(q)
  PROVE  PeakOf(q, s) \in Nat
<1> DEFINE S == {q[k].score : k \in {j \in DOMAIN q : q[j].svc = s}}
<1>1. PICK b \in Nat : \A k \in DOMAIN q : q[k].score <= b
  BY ScoresAreBounded
<1>2. S \in SUBSET Nat /\ S # {} /\ \A n \in S : n <= b
  <2>1. \A k \in DOMAIN q : q[k].score \in Nat
    BY SignalTyped
  <2> QED
    BY <1>1, <2>1 DEF ServicesOf
<1> HIDE DEF S
<1>3. Max(S) \in Nat
  BY <1>2, GreatestNatural
<1> QED
  BY <1>3 DEF PeakOf, S

(* The last signal of a group was stamped no later than the clock.         *)
LEMMA LastIsNatural ==
  ASSUME NEW q \in Seq(Signal), q # <<>>, NEW b \in Nat, \A k \in DOMAIN q : q[k].at <= b
  PROVE  LastOf(q) \in Nat /\ LastOf(q) <= b
<1> DEFINE S == {q[k].at : k \in DOMAIN q}
<1>1. S \in SUBSET Nat /\ S # {} /\ \A n \in S : n <= b
  <2>1. \A k \in DOMAIN q : q[k].at \in Nat
    BY SignalTyped
  <2>2. 1 \in DOMAIN q
    OBVIOUS
  <2> QED
    BY <2>1, <2>2
<1> HIDE DEF S
<1>2. Max(S) \in S /\ Max(S) \in Nat
  BY <1>1, GreatestNatural
<1> QED
  BY <1>1, <1>2 DEF LastOf, S

-----------------------------------------------------------------------------
(***************************************************************************)
(* The alerts of a run, published or about to be.                          *)
(***************************************************************************)
LEMMA EmittedTyped ==
  ASSUME TypeOK
  PROVE  /\ Emitted \in Seq(Alert)
         /\ Len(Emitted) \in Nat /\ DOMAIN Emitted = 1..Len(Emitted)
         /\ \A k \in 1..Len(Emitted) : Emitted[k] \in Alert
<1>1. Emitted \in Seq(Alert)
  <2>1. alerts \in Seq(Alert) /\ outbox \in Seq(Alert)
    BY DEF TypeOK
  <2> QED
    BY <2>1 DEF Emitted
<1> QED
  BY <1>1

LEMMA AlertTyped ==
  ASSUME NEW a \in Alert
  PROVE  a.signals \in Seq(Signal) /\ a.flushed \in Nat /\ a.flushed \in Times /\ a.run \in Nat
BY Numbers DEF Alert, Times

(* The latest alert that names a service is one of those that do.          *)
LEMMA LatestIsAbout ==
  ASSUME TypeOK, NEW s \in Services, About(s) # {}
  PROVE  /\ Max(About(s)) \in About(s) /\ Max(About(s)) \in 1..Len(Emitted)
         /\ \A k \in About(s) : k <= Max(About(s))
         /\ Latest(s) \in Alert /\ s \in ServicesOf(Latest(s).signals)
         /\ Latest(s).flushed \in Nat
         /\ PeakOf(Latest(s).signals, s) \in Nat
<1>1. About(s) \in SUBSET Nat /\ \A k \in About(s) : k <= Len(Emitted)
  BY EmittedTyped DEF About
<1>2. Max(About(s)) \in About(s) /\ \A k \in About(s) : k <= Max(About(s))
  BY <1>1, EmittedTyped, GreatestNatural
<1>3. Max(About(s)) \in 1..Len(Emitted) /\ s \in ServicesOf(Emitted[Max(About(s))].signals)
  BY <1>2, EmittedTyped DEF About
<1>4. Latest(s) \in Alert /\ s \in ServicesOf(Latest(s).signals)
  BY <1>3, EmittedTyped DEF Latest
<1>5. Latest(s).signals \in Seq(Signal) /\ Latest(s).flushed \in Nat
  BY <1>4, AlertTyped
<1> QED
  BY <1>2, <1>3, <1>4, <1>5, PeakIsNatural

(* Publishing moves an alert; flushing adds one.                           *)
LEMMA EmittedOnPublish ==
  ASSUME TypeOK, outbox # <<>>,
         alerts' = Append(alerts, Head(outbox)), outbox' = Tail(outbox)
  PROVE  Emitted' = Emitted
<1>1. alerts \in Seq(Alert) /\ outbox \in Seq(Alert)
  BY DEF TypeOK
<1>2. Append(alerts, Head(outbox)) \o Tail(outbox) = alerts \o outbox
  <2> HIDE DEF Alert
  <2> QED
    BY <1>1
<1> QED
  BY <1>2 DEF Emitted

LEMMA EmittedOnFlush ==
  ASSUME TypeOK, NEW a \in Alert, outbox' = Append(outbox, a), alerts' = alerts
  PROVE  /\ Len(Emitted') = Len(Emitted) + 1
         /\ Emitted'[Len(Emitted) + 1] = a
         /\ \A k \in 1..Len(Emitted) : Emitted'[k] = Emitted[k]
         /\ DOMAIN Emitted' = 1..(Len(Emitted) + 1)
<1>1. alerts \in Seq(Alert) /\ outbox \in Seq(Alert)
  BY DEF TypeOK
<1>2. alerts \o Append(outbox, a) = Append(alerts \o outbox, a)
  BY <1>1
<1>3. Emitted' = Append(Emitted, a)
  BY <1>2 DEF Emitted
<1> QED
  BY <1>3, EmittedTyped

(* While there is no new alert and no new run, nothing about them changes. *)
LEMMA SameAlerts ==
  ASSUME Emitted' = Emitted, run' = run
  PROVE  /\ \A s : About(s)' = About(s)
         /\ \A s : Latest(s)' = Latest(s)
         /\ AlertsOfRuns => AlertsOfRuns'
         /\ ReAlertSpacing => ReAlertSpacing'
<1>1. \A s : About(s)' = About(s)
  BY DEF About
<1>2. \A s : Latest(s)' = Latest(s)
  BY <1>1 DEF Latest
<1>3. AlertsOfRuns => AlertsOfRuns'
  BY DEF AlertsOfRuns
<1>4. ReAlertSpacing => ReAlertSpacing'
  BY <1>1 DEF ReAlertSpacing
<1> QED
  BY <1>1, <1>2, <1>3, <1>4

(* A new alert is the latest about the services it names, and changes      *)
(* nothing for the others.                                                 *)
LEMMA NextAlert ==
  ASSUME TypeOK, NEW a \in Alert, a.run = run, run' = run,
         outbox' = Append(outbox, a), alerts' = alerts, NEW s \in Services
  PROVE  /\ s \in ServicesOf(a.signals) =>
              About(s)' = About(s) \cup {Len(Emitted) + 1} /\ Latest(s)' = a
         /\ s \notin ServicesOf(a.signals) =>
              About(s)' = About(s) /\ (About(s) # {} => Latest(s)' = Latest(s))
<1> DEFINE n == Len(Emitted)
<1>1. n \in Nat /\ DOMAIN Emitted = 1..n /\ DOMAIN Emitted' = 1..(n + 1)
  BY EmittedTyped, EmittedOnFlush
<1>2. \A k \in 1..n : Emitted'[k] = Emitted[k]
  BY EmittedOnFlush
<1>3. Emitted'[n + 1] = a
  BY EmittedOnFlush
<1>4. About(s)' = {k \in 1..(n + 1) : Emitted'[k].run = run /\ s \in ServicesOf(Emitted'[k].signals)}
  BY <1>1 DEF About
<1>5. About(s) = {k \in 1..n : Emitted[k].run = run /\ s \in ServicesOf(Emitted[k].signals)}
  BY <1>1 DEF About
<1> HIDE DEF n
<1>6. 1..(n + 1) = 1..n \cup {n + 1} /\ n + 1 \notin 1..n
  BY <1>1
<1>7. CASE s \in ServicesOf(a.signals)
  <2>1. About(s)' = About(s) \cup {n + 1}
    BY <1>2, <1>3, <1>4, <1>5, <1>6, <1>7
  <2>2. About(s)' \in SUBSET Nat /\ About(s)' # {} /\ (\A k \in About(s)' : k <= n + 1) /\ n + 1 \in About(s)'
    BY <1>1, <1>5, <2>1
  <2>3. Max(About(s)') = n + 1
    <3>1. n + 1 \in Nat
      BY <1>1
    <3>2. Max(About(s)') \in Nat /\ Max(About(s)') <= n + 1 /\ n + 1 <= Max(About(s)')
      BY <2>2, <3>1, GreatestNatural
    <3> QED
      BY <3>1, <3>2
  <2>4. Latest(s)' = Emitted'[Max(About(s)')]
    BY DEF Latest
  <2> QED
    BY <1>3, <1>7, <2>1, <2>3, <2>4 DEF n
<1>8. CASE s \notin ServicesOf(a.signals)
  <2>1. About(s)' = About(s)
    BY <1>2, <1>3, <1>4, <1>5, <1>6, <1>8
  <2>2. Latest(s)' = Emitted'[Max(About(s))]
    BY <2>1 DEF Latest
  <2>3. ASSUME About(s) # {} PROVE Latest(s)' = Latest(s)
    <3>1. Max(About(s)) \in 1..n
      BY <2>3, LatestIsAbout DEF n
    <3> QED
      BY <1>2, <2>2, <3>1 DEF Latest
  <2> QED
    BY <1>8, <2>1, <2>3
<1> QED
  BY <1>7, <1>8

-----------------------------------------------------------------------------
(***************************************************************************)
(* The samples and the clock.                                              *)
(***************************************************************************)
LEMMA SampleTyped ==
  ASSUME TypeOK
  PROVE  /\ Len(raw) \in Nat /\ read \in Nat /\ read <= Len(raw)
         /\ DOMAIN raw = 1..Len(raw) /\ Unread \subseteq 1..Len(raw)
         /\ \A k \in 1..Len(raw) : raw[k].svc \in Services /\ raw[k].at \in Nat /\ raw[k].at \in Times
         /\ clock \in Nat /\ clock <= MaxTime /\ tick \in Nat /\ tick <= MaxTime
<1>1. raw \in Seq([svc : Services, at : Times]) /\ read \in 0..Len(raw) /\ clock \in 0..MaxTime /\ tick \in 0..MaxTime
  BY DEF TypeOK
<1>2. \A k \in 1..Len(raw) : raw[k] \in [svc : Services, at : Times]
  <2> DEFINE S == [svc : Services, at : Times]
  <2>1. raw \in Seq(S)
    BY <1>1
  <2> HIDE DEF S
  <2>2. \A k \in 1..Len(raw) : raw[k] \in S
    BY <2>1
  <2> QED
    BY <2>2 DEF S
<1>3. \A k \in 1..Len(raw) : raw[k].svc \in Services /\ raw[k].at \in Times
  BY <1>2
<1> QED
  BY <1>1, <1>3, Numbers DEF Times, Unread

(* What committing leaves of the topic.                                    *)
LEMMA RawAfterCommit ==
  ASSUME TypeOK, raw' = SubSeq(raw, read + 1, Len(raw))
  PROVE  /\ Len(raw') = Len(raw) - read
         /\ raw' \in Seq([svc : Services, at : Times])
         /\ \A k \in 1..Len(raw') : read + k \in Unread /\ raw'[k] = raw[read + k]
<1> DEFINE S == [svc : Services, at : Times]
<1>1. raw \in Seq(S) /\ read \in Nat /\ read <= Len(raw) /\ Len(raw) \in Nat
  BY SampleTyped DEF TypeOK
<1> HIDE DEF S
<1>2. Len(raw') = Len(raw) - read /\ \A k \in 1..(Len(raw) - read) : raw'[k] = raw[read + k]
  BY <1>1
<1>3. raw' \in Seq(S)
  BY <1>1, SubSeqProperties
<1> QED
  BY <1>1, <1>2, <1>3 DEF Unread, S

(* A later sample was stamped at most Lag before an earlier one.           *)
LEMMA SamplesInOrderStep ==
  ASSUME TypeOK, SamplesInOrder, [Next]_vars
  PROVE  SamplesInOrder'
<1>0. ASSUME raw' = raw, clock' = clock PROVE SamplesInOrder'
  BY <1>0 DEF SamplesInOrder
<1> USE SampleTyped, Numbers
<1>1. CASE Tick
  BY <1>1 DEF Tick, topics, SamplesInOrder
<1>2. ASSUME NEW s \in Services, Produce(s) PROVE SamplesInOrder'
  <2>1. PICK at \in {t \in 1..clock : clock <= t + Lag} : raw' = Append(raw, [svc |-> s, at |-> at])
    BY <1>2 DEF Produce
  <2>2. raw \in Seq([svc : Services, at : Times]) /\ clock' = clock
    BY <1>2 DEF Produce, TypeOK
  <2>3. Len(raw') = Len(raw) + 1 /\ DOMAIN raw' = 1..(Len(raw) + 1)
    BY <2>1, <2>2
  <2>4. \A k \in 1..Len(raw) : raw'[k] = raw[k]
    BY <2>1, <2>2
  <2>5. raw'[Len(raw) + 1].at = at
    BY <2>1, <2>2
  <2>6. \A k \in 1..(Len(raw) + 1) : k \in 1..Len(raw) \/ k = Len(raw) + 1
    OBVIOUS
  <2>7. \A j \in 1..Len(raw) : raw[j].at <= clock /\ \A k \in 1..Len(raw) : j <= k => raw[j].at <= raw[k].at + Lag
    BY DEF SamplesInOrder
  <2>8. \A j \in 1..(Len(raw) + 1) : raw'[j].at <= clock
    BY <2>1, <2>4, <2>5, <2>6, <2>7
  <2>9. ASSUME NEW j \in 1..(Len(raw) + 1), NEW k \in 1..(Len(raw) + 1), j <= k
        PROVE  raw'[j].at <= raw'[k].at + Lag
    <3>1. CASE k \in 1..Len(raw)
      <4>1. j \in 1..Len(raw)
        BY <2>9, <3>1
      <4> QED
        BY <2>4, <2>7, <2>9, <3>1, <4>1
    <3>2. CASE k = Len(raw) + 1
      <4>1. raw'[j].at <= clock /\ raw'[j].at \in Nat
        BY <2>1, <2>4, <2>5, <2>6, <2>8
      <4> QED
        BY <2>1, <2>5, <3>2, <4>1
    <3> QED
      BY <2>6, <3>1, <3>2
  <2> QED
    BY <2>2, <2>3, <2>8, <2>9 DEF SamplesInOrder
<1>3. CASE Loop
  <2>2. CASE Commit
    <3>1. raw' = SubSeq(raw, read + 1, Len(raw)) /\ clock' = clock
      BY <2>2 DEF Commit
    <3>2. \A k \in 1..Len(raw') : read + k \in DOMAIN raw /\ raw'[k] = raw[read + k]
      BY <3>1, RawAfterCommit
    <3>3. DOMAIN raw' = 1..Len(raw')
      BY <3>1, RawAfterCommit
    <3>4. ASSUME NEW j \in 1..Len(raw'), NEW k \in 1..Len(raw'), j <= k
          PROVE  raw'[j].at <= clock' /\ raw'[j].at <= raw'[k].at + Lag
      <4>1. read + j <= read + k
        BY <3>4
      <4>2. raw[read + j].at <= clock /\ raw[read + j].at <= raw[read + k].at + Lag
        BY <3>2, <4>1 DEF SamplesInOrder
      <4> QED
        BY <3>1, <3>2, <4>2
    <3>5. \A j \in 1..Len(raw') : raw'[j].at <= clock'
      BY <3>4
    <3> QED
      BY <3>3, <3>4, <3>5 DEF SamplesInOrder
  <2>3. CASE ~ Commit
    <3>1. raw' = raw /\ clock' = clock
      BY <1>3, <2>3 DEF Loop, ReadSample, EndBatch, ReportSilence, EndSilence, Flush, Publish, topics
    <3> QED
      BY <1>0, <3>1
  <2> QED
    BY <2>2, <2>3
<1>4. CASE Restart
  <2>1. clock' = clock /\ (raw' = raw \/ raw' = <<>>)
    BY <1>4 DEF Restart
  <2>2. ASSUME raw' = <<>> PROVE SamplesInOrder'
    BY <2>2 DEF SamplesInOrder
  <2> QED
    BY <1>0, <2>1, <2>2
<1>5. CASE UNCHANGED vars
  BY <1>0, <1>5 DEF vars, topics
<1> QED
  BY <1>1, <1>2, <1>3, <1>4, <1>5 DEF Next

LEMMA RunGoesOn ==
  ASSUME TypeOK, run' = run
  PROVE  ~ Restart
<1>1. run \in Nat
  BY Numbers DEF TypeOK
<1> QED
  BY <1>1 DEF Restart

(* What lies behind the loop once stays behind it until the next run.      *)
LEMMA NotAheadStays ==
  ASSUME TypeOK, TickIsPast, [Next]_vars, run' = run, NEW t \in Nat, NEW x \in Nat, NotAhead(t, x)
  PROVE  NotAhead(t, x)'
<1> USE SampleTyped, Numbers
<1>0. t <= clock + x /\ (\A k \in Unread : t <= raw[k].at + Lag + x) /\ (pc = "silence" => t <= tick + x)
  BY DEF NotAhead
<1>a. SUFFICES /\ t <= clock' + x
               /\ \A k \in Unread' : t <= raw'[k].at + Lag + x
               /\ pc' = "silence" => t <= tick' + x
  BY DEF NotAhead
<1>1. CASE Tick
  BY <1>0, <1>1 DEF Tick, topics, Unread
<1>2. ASSUME NEW s \in Services, Produce(s)
      PROVE  t <= clock' + x /\ (\A k \in Unread' : t <= raw'[k].at + Lag + x) /\ (pc' = "silence" => t <= tick' + x)
  <2>1. PICK at \in {t0 \in 1..clock : clock <= t0 + Lag} : raw' = Append(raw, [svc |-> s, at |-> at])
    BY <1>2 DEF Produce
  <2>2. raw \in Seq([svc : Services, at : Times]) /\ UNCHANGED <<clock, pc, tick, read>>
    BY <1>2 DEF Produce, TypeOK
  <2>3. Len(raw') = Len(raw) + 1 /\ raw'[Len(raw) + 1].at = at /\ \A k \in 1..Len(raw) : raw'[k] = raw[k]
    BY <2>1, <2>2
  <2>4. ASSUME NEW k \in Unread' PROVE t <= raw'[k].at + Lag + x
    <3>1. k \in Unread \/ k = Len(raw) + 1
      BY <2>2, <2>3 DEF Unread
    <3>2. CASE k \in Unread
      BY <1>0, <2>3, <3>2
    <3>3. CASE k = Len(raw) + 1
      BY <1>0, <2>1, <2>3, <3>3
    <3> QED
      BY <3>1, <3>2, <3>3
  <2> QED
    BY <1>0, <2>2, <2>4
<1>3. CASE ReadSample
  BY <1>0, <1>3 DEF ReadSample, Unread
<1>4. CASE EndBatch
  BY <1>0, <1>4 DEF EndBatch, topics, Unread
<1>5. CASE ReportSilence
  BY <1>0, <1>5 DEF ReportSilence, topics, Unread
<1>6. CASE EndSilence
  BY <1>0, <1>6 DEF EndSilence, topics, Unread
<1>7. CASE Flush
  BY <1>0, <1>7 DEF Flush, topics, Unread
<1>8. CASE Publish
  BY <1>0, <1>8 DEF Publish, topics, Unread
<1>9. CASE Commit
  <2>1. raw' = SubSeq(raw, read + 1, Len(raw)) /\ read' = 0 /\ clock' = clock /\ pc' = "poll"
    BY <1>9 DEF Commit
  <2>2. \A k \in 1..Len(raw') : read + k \in Unread /\ raw'[k] = raw[read + k]
    BY <2>1, RawAfterCommit
  <2>3. Unread' = 1..Len(raw')
    BY <2>1 DEF Unread
  <2> QED
    BY <1>0, <2>1, <2>2, <2>3
<1>10. CASE UNCHANGED vars
  BY <1>0, <1>10 DEF vars, topics, Unread
<1> QED
  <2>1. ~ Restart
    BY RunGoesOn
  <2> QED
    BY <1>1, <1>2, <1>3, <1>4, <1>5, <1>6, <1>7, <1>8, <1>9, <1>10, <2>1 DEF Next, Loop

(* The end of the batch stays behind the loop.                             *)
LEMMA TickIsPastStep ==
  ASSUME TypeOK, TypeOK', TickIsPast, [Next]_vars
  PROVE  TickIsPast'
<1> USE SampleTyped, Numbers
<1>0. clock \in Nat /\ clock' \in Nat /\ tick' \in Nat
  BY DEF TypeOK
<1>1. ASSUME tick' = tick, run' = run, pc # "poll" PROVE tick' <= clock' /\ NotAhead(tick, 0)'
  <2>1. PICK t \in Nat : t = tick
    OBVIOUS
  <2>2. NotAhead(t, 0)
    BY <1>1, <2>1 DEF TickIsPast, NotAhead
  <2>3. NotAhead(t, 0)'
    BY <1>1, <2>2, NotAheadStays
  <2>4. t <= clock' + 0 /\ (\A k \in Unread' : t <= raw'[k].at + Lag + 0) /\ (pc' = "silence" => t <= tick' + 0)
    BY <2>3 DEF NotAhead
  <2>5. tick' = t
    BY <1>1, <2>1
  <2>6. NotAhead(tick, 0)'
    BY <2>4, <2>5, Zenon DEF NotAhead
  <2>7. tick' <= clock'
    <3>1. PICK c \in Nat : c = clock'
      BY <1>0
    <3>2. t <= c + 0
      BY <2>4, <3>1, Zenon
    <3>3. t <= c
      BY <3>2
    <3> QED
      BY <2>5, <3>1, <3>3, Zenon
  <2> QED
    BY <2>6, <2>7
<1>2. ASSUME tick' = tick, signal' = signal, run' = run, pc # "poll", pc' = pc \/ (pc' = "publish" /\ pc = "flush")
      PROVE  TickIsPast'
  BY <1>1, <1>2 DEF TickIsPast
<1>3. ASSUME tick' = tick, clock' \in {clock, clock + 1}, pc' = "poll" PROVE TickIsPast'
  BY <1>3 DEF TickIsPast
<1>4. CASE Tick
  <2>1. tick' = tick /\ signal' = signal /\ run' = run /\ pc' = pc /\ clock' \in {clock, clock + 1}
    BY <1>4 DEF Tick, grouper
  <2> QED
    BY <1>0, <1>2, <1>3, <2>1
<1>5. ASSUME NEW s \in Services, Produce(s) PROVE TickIsPast'
  <2>1. tick' = tick /\ signal' = signal /\ run' = run /\ pc' = pc /\ clock' \in {clock, clock + 1}
    BY <1>5 DEF Produce, grouper
  <2> QED
    BY <1>0, <1>2, <1>3, <2>1
<1>6. CASE ReadSample
  BY <1>0, <1>3, <1>6 DEF ReadSample
<1>7. CASE EndBatch
  <2>1. tick' = clock /\ clock' = clock /\ Unread' = {} /\ pc' = "silence"
    BY <1>7 DEF EndBatch, topics, Unread
  <2> QED
    BY <2>1 DEF TickIsPast, NotAhead
<1>8. CASE ReportSilence
  BY <1>1, <1>8 DEF ReportSilence, TickIsPast
<1>9. CASE EndSilence
  BY <1>1, <1>9 DEF EndSilence, TickIsPast
<1>10. CASE Flush
  BY <1>2, <1>10 DEF Flush, grouper
<1>11. CASE Publish
  <2>1. tick' = tick /\ signal' = signal /\ run' = run /\ pc' = pc
    BY <1>11 DEF Publish, grouper
  <2>2. pc # "poll"
    BY <1>11 DEF Publish
  <2> QED
    BY <1>2, <2>1, <2>2
<1>12. CASE Commit
  BY <1>0, <1>3, <1>12 DEF Commit
<1>13. CASE Restart
  <2>1. tick' = 0 /\ pc' = "poll" /\ clock' = clock
    BY <1>13 DEF Restart
  <2> QED
    BY <2>1 DEF TickIsPast
<1>14. CASE UNCHANGED vars
  <2>1. tick' = tick /\ signal' = signal /\ run' = run /\ pc' = pc /\ clock' \in {clock, clock + 1}
    BY <1>14 DEF vars, grouper
  <2> QED
    BY <1>0, <1>2, <1>3, <2>1
<1> QED
  BY <1>4, <1>5, <1>6, <1>7, <1>8, <1>9, <1>10, <1>11, <1>12, <1>13, <1>14 DEF Next, Loop

-----------------------------------------------------------------------------
(***************************************************************************)
(* A signal is added.                                                      *)
(***************************************************************************)
LEMMA GroupTyped ==
  ASSUME TypeOK, NEW site \in Sites, group[site] # None
  PROVE  /\ group[site] \in Group /\ group[site].emit \in Times
         /\ group[site].signals \in Seq(Signal) /\ Len(group[site].signals) \in Nat
         /\ DOMAIN group[site].signals = 1..Len(group[site].signals)
<1>1. group[site] \in Group
  BY DEF TypeOK
<1>2. group[site].emit \in Times /\ group[site].signals \in Seq(Signal)
  BY <1>1 DEF Group
<1> QED
  BY <1>1, <1>2

LEMMA MuteTyped ==
  ASSUME TypeOK, NEW s \in Services
  PROVE  cooling[s] \in Nat /\ cooling[s] \in Times /\ peak[s] \in Nat /\ SiteOf[s] \in Sites
BY SitesAssumption, Numbers DEF TypeOK, Times

LEMMA OneSignal ==
  ASSUME NEW sig \in Signal
  PROVE  /\ sig.svc \in Services /\ sig.at \in Times /\ sig.at \in Nat /\ sig.score \in Nat
         /\ sig # None /\ SiteOf[sig.svc] \in Sites
<1>1. sig.svc \in Services /\ sig.at \in Times /\ sig.score \in Nat
  BY DEF Signal
<1> QED
  BY <1>1, NoneAssumption, SitesAssumption, Numbers DEF Times

(* What each of the three ways of adding a signal does.                    *)
LEMMA JoinEffect ==
  ASSUME TypeOK, NEW sig \in Signal, Join(sig)
  PROVE  LET site == SiteOf[sig.svc]
             old == group[site].signals
         IN /\ group[site] # None /\ group'[site] # None
            /\ group'[site].signals = IF Len(old) < MaxMembers THEN Append(old, sig) ELSE old
            /\ group'[site].emit = group[site].emit
            /\ \A other \in Sites : other # site => group'[other] = group[other]
            /\ group' \in [Sites -> Group \cup {None}]
            /\ cooling' = StillCooling(sig.at)
<1> DEFINE site == SiteOf[sig.svc]
           old == group[site].signals
           new == [group[site] EXCEPT !.signals = Append(old, sig)]
<1>0. site \in Sites
  BY OneSignal
<1>1. group[site] # None /\ cooling' = StillCooling(sig.at)
  BY DEF Join
<1>2. group[site] \in Group /\ old \in Seq(Signal)
  BY <1>0, <1>1, GroupTyped
<1>3. Append(old, sig) \in Seq(Signal)
  BY <1>2
<1>4. new \in Group /\ new.signals = Append(old, sig) /\ new.emit = group[site].emit
  BY <1>2, <1>3 DEF Group
<1>5. new # None
  BY <1>4, NoneAssumption
<1>6. group' = IF Len(old) < MaxMembers THEN [group EXCEPT ![site] = new] ELSE group
  BY DEF Join
<1>7. group \in [Sites -> Group \cup {None}]
  BY DEF TypeOK
<1> HIDE DEF new, old, site
<1>8. CASE Len(old) < MaxMembers
  <2>1. group' = [group EXCEPT ![site] = new]
    BY <1>6, <1>8
  <2>2. group' \in [Sites -> Group \cup {None}] /\ group'[site] = new
        /\ \A other \in Sites : other # site => group'[other] = group[other]
    BY <1>0, <1>4, <1>7, <2>1
  <2> QED
    BY <1>1, <1>4, <1>5, <1>8, <2>2 DEF site, old
<1>9. CASE ~ (Len(old) < MaxMembers)
  BY <1>1, <1>6, <1>7, <1>9 DEF site, old
<1> QED
  BY <1>8, <1>9

LEMMA OpenEffect ==
  ASSUME TypeOK, NEW sig \in Signal, sig.at <= MaxTime, OpenGroup(sig)
  PROVE  LET site == SiteOf[sig.svc] IN
            /\ group[site] = None /\ ~ Muted(sig)
            /\ group'[site] # None /\ group'[site].signals = <<sig>>
            /\ \A other \in Sites : other # site => group'[other] = group[other]
            /\ group' \in [Sites -> Group \cup {None}]
            /\ cooling' = StillCooling(sig.at)
<1> DEFINE site == SiteOf[sig.svc]
           new == [emit |-> sig.at + Delay, signals |-> <<sig>>]
<1>1. site \in Sites /\ sig.at + Delay \in Times /\ <<sig>> \in Seq(Signal)
  BY OneSignal, Numbers DEF Times
<1>2. new \in Group /\ new.signals = <<sig>>
  BY <1>1 DEF Group
<1>3. new # None
  BY <1>2, NoneAssumption
<1>4. group[site] = None /\ ~ Muted(sig) /\ group' = [group EXCEPT ![site] = new] /\ cooling' = StillCooling(sig.at)
  BY DEF OpenGroup
<1>5. group \in [Sites -> Group \cup {None}]
  BY DEF TypeOK
<1> HIDE DEF new, site
<1>6. group' \in [Sites -> Group \cup {None}] /\ group'[site] = new
      /\ \A other \in Sites : other # site => group'[other] = group[other]
  BY <1>1, <1>2, <1>4, <1>5
<1> QED
  BY <1>2, <1>3, <1>4, <1>6 DEF site

LEMMA StayMutedEffect ==
  ASSUME TypeOK, NEW sig \in Signal, sig.at <= MaxTime, StayMuted(sig)
  PROVE  /\ group[SiteOf[sig.svc]] = None /\ Muted(sig) /\ group' = group
         /\ cooling'[sig.svc] = sig.at + Cooldown
         /\ \A s \in Services : s # sig.svc => cooling'[s] = StillCooling(sig.at)[s]
         /\ cooling' \in [Services -> Times]
<1>1. sig.svc \in Services /\ sig.at + Cooldown \in Times /\ 0 \in Times
  BY OneSignal, Numbers DEF Times
<1>2. StillCooling(sig.at) \in [Services -> Times]
  BY <1>1, MuteTyped DEF StillCooling
<1>3. cooling' = [StillCooling(sig.at) EXCEPT ![sig.svc] = sig.at + Cooldown]
  BY DEF StayMuted
<1>4. group[SiteOf[sig.svc]] = None /\ Muted(sig) /\ group' = group
  BY DEF StayMuted
<1> QED
  BY <1>1, <1>2, <1>3, <1>4

LEMMA AddSignalTyped ==
  ASSUME TypeOK, NEW sig \in Signal, sig.at <= MaxTime, AddSignal(sig)
  PROVE  /\ group' \in [Sites -> Group \cup {None}]
         /\ cooling' \in [Services -> Times]
         /\ peak' \in [Services -> Nat]
         /\ signal' \in Signal \cup {None}
<1>1. 0 \in Times
  BY Numbers DEF Times
<1>2. StillCooling(sig.at) \in [Services -> Times] /\ PeaksAt(sig.at) \in [Services -> Nat]
  BY <1>1, MuteTyped DEF StillCooling, PeaksAt
<1>3. peak' \in [Services -> Nat] /\ signal' \in Signal \cup {None}
  BY <1>2 DEF AddSignal
<1>4. group \in [Sites -> Group \cup {None}]
  BY DEF TypeOK
<1>5. CASE Join(sig)
  BY <1>2, <1>3, <1>5, JoinEffect
<1>6. CASE StayMuted(sig)
  BY <1>3, <1>4, <1>6, StayMutedEffect
<1>7. CASE OpenGroup(sig)
  BY <1>2, <1>3, <1>7, OpenEffect
<1> QED
  BY <1>5, <1>6, <1>7 DEF AddSignal

(* A signal whose mute has run out may open a group; one that is muted was *)
(* muted by the latest alert about its service.                            *)
LEMMA MuteIsKnown ==
  ASSUME TypeOK, NEW sig \in Signal, MuteIsOwed(sig.svc),
         \A t, x \in Nat : NotAhead(t, x) => t <= sig.at + Lag + x
  PROVE  /\ ~ Muted(sig) => MayAlert(sig)
         /\ Muted(sig) => /\ About(sig.svc) # {}
                          /\ sig.score < Escalation * PeakOf(Latest(sig.svc).signals, sig.svc)
                          /\ Latest(sig.svc).flushed <= sig.at + Lag
<1> DEFINE s == sig.svc
           bar == Escalation * peak[s]
<1>0. s \in Services /\ sig.at \in Nat /\ sig.score \in Nat
  BY OneSignal
<1>1. cooling[s] \in Nat /\ peak[s] \in Nat
  BY <1>0, MuteTyped
<1>2. bar \in Nat
  BY <1>1, Numbers
<1>3. Muted(sig) <=> cooling[s] > sig.at /\ sig.score < bar
  BY DEF Muted
<1>4. cooling[s] # 0 => About(s) # {} /\ bar = Escalation * PeakOf(Latest(s).signals, s)
  BY DEF MuteIsOwed
<1>5. About(s) # {} => Latest(s).flushed \in Nat /\ Latest(s).flushed <= sig.at + Lag
  <2> SUFFICES ASSUME About(s) # {} PROVE Latest(s).flushed \in Nat /\ Latest(s).flushed <= sig.at + Lag
    OBVIOUS
  <2>1. PICK t \in Nat : t = Latest(s).flushed
    BY <1>0, LatestIsAbout
  <2>2. NotAhead(t, 0)
    BY <2>1 DEF MuteIsOwed
  <2>3. t <= sig.at + Lag + 0
    BY <2>2
  <2> QED
    BY <1>0, <2>1, <2>3, Numbers
<1>6. About(s) # {} /\ cooling[s] <= sig.at => sig.at + 2 * Lag >= Latest(s).flushed + Cooldown
  <2> SUFFICES ASSUME About(s) # {}, cooling[s] <= sig.at
               PROVE sig.at + 2 * Lag >= Latest(s).flushed + Cooldown
    OBVIOUS
  <2>1. Latest(s).flushed \in Nat
    BY <1>5
  <2>2. CASE cooling[s] = 0
    <3>1. PICK t \in Nat : t = Latest(s).flushed + Cooldown
      BY <2>1, Numbers
    <3>2. NotAhead(t, Lag)
      BY <2>2, <3>1 DEF MuteIsOwed
    <3>3. t <= sig.at + Lag + Lag
      BY <3>2, Numbers
    <3> QED
      BY <1>0, <3>1, <3>3, Numbers
  <2>3. CASE cooling[s] # 0
    <3>1. Latest(s).flushed + Cooldown <= cooling[s] + Lag
      BY <2>3 DEF MuteIsOwed
    <3> QED
      BY <1>0, <1>1, <2>1, <3>1, Numbers
  <2> QED
    BY <2>2, <2>3
<1> HIDE DEF bar
<1>7. ASSUME ~ Muted(sig), About(s) # {}
      PROVE  \/ sig.at + 2 * Lag >= Latest(s).flushed + Cooldown
             \/ sig.score >= Escalation * PeakOf(Latest(s).signals, s)
  <2>1. CASE cooling[s] <= sig.at
    BY <1>6, <1>7, <2>1
  <2>2. CASE cooling[s] > sig.at
    <3>1. sig.score >= bar /\ cooling[s] # 0
      BY <1>0, <1>1, <1>2, <1>3, <1>7, <2>2
    <3> QED
      BY <1>4, <3>1
  <2> QED
    BY <1>0, <1>1, <2>1, <2>2
<1>8. ~ Muted(sig) => MayAlert(sig)
  BY <1>7 DEF MayAlert
<1>9. ASSUME Muted(sig)
      PROVE  /\ About(s) # {} /\ Latest(s).flushed <= sig.at + Lag
             /\ sig.score < Escalation * PeakOf(Latest(s).signals, s)
  <2>1. cooling[s] # 0 /\ sig.score < bar
    BY <1>0, <1>1, <1>3, <1>9
  <2> QED
    BY <1>4, <1>5, <2>1
<1> QED
  BY <1>8, <1>9

LEMMA AppendFacts ==
  ASSUME NEW S, NEW q \in Seq(S), NEW e \in S, Len(q) >= 1
  PROVE  /\ Len(Append(q, e)) = Len(q) + 1 /\ DOMAIN Append(q, e) = 1..(Len(q) + 1)
         /\ Append(q, e)[Len(q) + 1] = e /\ Append(q, e)[1] = q[1]
         /\ \A k \in 1..Len(q) : Append(q, e)[k] = q[k]
OBVIOUS

(* Where alerts and groups stay, what was said of them stays.              *)
LEMMA MayAlertStays ==
  ASSUME Emitted' = Emitted, run' = run, NEW sig, MayAlert(sig)
  PROVE  MayAlert(sig)'
<1>1. About(sig.svc)' = About(sig.svc) /\ Latest(sig.svc)' = Latest(sig.svc)
  BY SameAlerts
<1> QED
  BY <1>1 DEF MayAlert

LEMMA GroupOfSiteStays ==
  ASSUME TypeOK, Emitted' = Emitted, run' = run, clock \in Nat, clock' \in Nat, clock <= clock',
         NEW site \in Sites, group[site] # None, GroupOfSite(site),
         group'[site].signals = group[site].signals
  PROVE  GroupOfSite(site)'
<1> DEFINE signals == group[site].signals
<1>1. Len(signals) \in 1..MaxMembers /\ MayAlert(signals[1])
      /\ \A k \in DOMAIN signals : SiteOf[signals[k].svc] = site /\ signals[k].at <= clock
  BY DEF GroupOfSite
<1>2. \A k \in DOMAIN signals : signals[k].at \in Nat
  BY GroupTyped, SignalTyped
<1>3. \A k \in DOMAIN signals : SiteOf[signals[k].svc] = site /\ signals[k].at <= clock'
  BY <1>1, <1>2
<1>4. PICK first : first = signals[1]
  OBVIOUS
<1>5. MayAlert(first)'
  BY <1>1, <1>4, MayAlertStays
<1>6. PICK new : new = signals
  OBVIOUS
<1>7. group'[site].signals = new /\ new[1] = first
  BY <1>4, <1>6
<1>8. MayAlert(group[site].signals[1])'
  BY <1>5, <1>7 DEF MayAlert
<1> HIDE DEF signals
<1> QED
  BY <1>1, <1>3, <1>6, <1>7, <1>8 DEF GroupOfSite

LEMMA AddSignalGroups ==
  ASSUME TypeOK, NEW sig \in Signal, sig.at <= clock, AddSignal(sig),
         Emitted' = Emitted, run' = run, clock' = clock,
         \A t, x \in Nat : NotAhead(t, x) => t <= sig.at + Lag + x,
         \A site \in Sites : group[site] # None => GroupOfSite(site),
         \A s \in Services : MuteIsOwed(s),
         NEW here \in Sites, group'[here] # None
  PROVE  GroupOfSite(here)'
<1> DEFINE site == SiteOf[sig.svc]
           old == group[site].signals
<1>0. site \in Sites /\ sig.svc \in Services /\ clock \in Nat /\ clock' \in Nat /\ clock <= clock' /\ sig.at <= MaxTime
      /\ sig.at \in Nat
  BY OneSignal, SampleTyped, Numbers
<1>1. ASSUME group'[here] = group[here] PROVE GroupOfSite(here)'
  BY <1>0, <1>1, GroupOfSiteStays
<1>2. CASE Join(sig)
  <2>1. /\ group[site] # None /\ group'[site].signals = IF Len(old) < MaxMembers THEN Append(old, sig) ELSE old
        /\ \A other \in Sites : other # site => group'[other] = group[other]
    BY <1>2, JoinEffect
  <2>2. CASE here # site
    BY <1>1, <2>1, <2>2
  <2>3. CASE here = site /\ ~ (Len(old) < MaxMembers)
    BY <1>0, <2>1, <2>3, GroupOfSiteStays
  <2>4. CASE here = site /\ Len(old) < MaxMembers
    <3>1. GroupOfSite(site) /\ old \in Seq(Signal)
      BY <1>0, <2>1, GroupTyped
    <3>2. Len(old) \in 1..MaxMembers /\ MayAlert(old[1])
          /\ \A k \in 1..Len(old) : SiteOf[old[k].svc] = site /\ old[k].at <= clock
      BY <3>1 DEF GroupOfSite
    <3>3. PICK new : new = Append(old, sig)
      OBVIOUS
    <3>4. Len(new) = Len(old) + 1 /\ DOMAIN new = 1..(Len(old) + 1) /\ new[Len(old) + 1] = sig
          /\ (\A k \in 1..Len(old) : new[k] = old[k]) /\ new[1] = old[1]
      <4>1. Len(old) >= 1
        BY <3>2, Numbers
      <4> HIDE DEF old
      <4> QED
        BY <3>1, <3>3, <4>1, AppendFacts
    <3>5. \A k \in DOMAIN new : SiteOf[new[k].svc] = site /\ new[k].at <= clock'
      <4> TAKE k \in DOMAIN new
      <4> HIDE DEF old
      <4>1. k \in 1..Len(old) \/ k = Len(old) + 1
        BY <3>2, <3>4
      <4> QED
        BY <3>2, <3>4, <4>1
    <3>6. PICK first : first = old[1]
      OBVIOUS
    <3>7. MayAlert(first)'
      BY <3>2, <3>6, MayAlertStays
    <3>8. group'[here].signals = new /\ new[1] = first
      BY <2>1, <2>4, <3>3, <3>4, <3>6
    <3>9. MayAlert(group[here].signals[1])'
      BY <3>7, <3>8 DEF MayAlert
    <3> HIDE DEF site, old
    <3>10. Len(new) \in 1..MaxMembers
      BY <2>4, <3>2, <3>4, Numbers
    <3> QED
      BY <2>4, <3>5, <3>8, <3>9, <3>10 DEF GroupOfSite
  <2> QED
    BY <2>2, <2>3, <2>4
<1>3. CASE StayMuted(sig)
  BY <1>0, <1>1, <1>3, StayMutedEffect
<1>4. CASE OpenGroup(sig)
  <2>1. /\ ~ Muted(sig) /\ group'[site].signals = <<sig>>
        /\ \A other \in Sites : other # site => group'[other] = group[other]
    BY <1>0, <1>4, OpenEffect
  <2>2. CASE here # site
    BY <1>1, <2>1, <2>2
  <2>3. CASE here = site
    <3>1. MayAlert(sig)
      BY <1>0, <2>1, MuteIsKnown
    <3>2. MayAlert(sig)'
      BY <3>1, MayAlertStays
    <3>3. PICK new : new = <<sig>>
      OBVIOUS
    <3>4. Len(new) \in 1..MaxMembers /\ new[1] = sig /\ \A k \in DOMAIN new : new[k] = sig
      BY <3>3, Numbers
    <3>5. group'[here].signals = new
      BY <2>1, <2>3, <3>3
    <3>6. MayAlert(group[here].signals[1])'
      BY <3>2, <3>4, <3>5 DEF MayAlert
    <3>7. \A k \in DOMAIN new : SiteOf[new[k].svc] = here /\ new[k].at <= clock'
      BY <1>0, <2>3, <3>4
    <3> HIDE DEF site, old
    <3> QED
      BY <3>4, <3>5, <3>6, <3>7 DEF GroupOfSite
  <2> QED
    BY <2>2, <2>3
<1> QED
  BY <1>2, <1>3, <1>4 DEF AddSignal

(* Mutes that end with a signal were owed no longer; one that is extended  *)
(* ends later than it did.                                                 *)
LEMMA AddSignalMutes ==
  ASSUME TypeOK, NEW sig \in Signal, sig.at <= clock, AddSignal(sig),
         Emitted' = Emitted, run' = run,
         \A t, x \in Nat : NotAhead(t, x) => t <= sig.at + Lag + x,
         \A t, x \in Nat : NotAhead(t, x) => NotAhead(t, x)',
         \A t \in Nat : t <= sig.at + Lag => NotAhead(t, Lag)',
         NEW s \in Services, MuteIsOwed(s)
  PROVE  MuteIsOwed(s)'
<1>0. sig.svc \in Services /\ sig.at \in Nat /\ cooling[s] \in Nat /\ peak[s] \in Nat /\ sig.at <= MaxTime
  BY OneSignal, MuteTyped, SampleTyped, Numbers
<1>1. About(s)' = About(s) /\ Latest(s)' = Latest(s)
  BY SameAlerts
<1>2. /\ cooling[s] # 0 => About(s) # {} /\ peak[s] = PeakOf(Latest(s).signals, s)
      /\ About(s) # {} =>
           /\ NotAhead(Latest(s).flushed, 0)
           /\ cooling[s] = 0 => NotAhead(Latest(s).flushed + Cooldown, Lag)
           /\ cooling[s] # 0 => Latest(s).flushed + Cooldown <= cooling[s] + Lag
  BY DEF MuteIsOwed
<1>3. peak'[s] = IF cooling[s] > sig.at THEN peak[s] ELSE 0
  BY DEF AddSignal, PeaksAt
<1>4. \/ cooling'[s] = IF cooling[s] > sig.at THEN cooling[s] ELSE 0
      \/ s = sig.svc /\ cooling'[s] = sig.at + Cooldown /\ Muted(sig)
  <2>1. CASE Join(sig)
    BY <2>1, JoinEffect DEF StillCooling
  <2>2. CASE OpenGroup(sig)
    BY <1>0, <2>2, OpenEffect DEF StillCooling
  <2>3. CASE StayMuted(sig)
    BY <1>0, <2>3, StayMutedEffect DEF StillCooling
  <2> QED
    BY <2>1, <2>2, <2>3 DEF AddSignal
<1>5. ASSUME About(s) # {} PROVE Latest(s).flushed \in Nat
  BY <1>5, LatestIsAbout
<1>6. cooling'[s] # 0 => About(s) # {} /\ peak'[s] = PeakOf(Latest(s).signals, s)
  <2>1. Muted(sig) => cooling[sig.svc] > sig.at
    BY DEF Muted
  <2>2. cooling'[s] # 0 => cooling[s] > sig.at
    BY <1>0, <1>4, <2>1
  <2>3. cooling[s] > sig.at => cooling[s] # 0
    BY <1>0
  <2> QED
    BY <1>2, <1>3, <2>2, <2>3
<1>7. ASSUME About(s) # {}
      PROVE  /\ NotAhead(Latest(s).flushed, 0)'
             /\ cooling'[s] = 0 => NotAhead(Latest(s).flushed + Cooldown, Lag)'
             /\ cooling'[s] # 0 => Latest(s).flushed + Cooldown <= cooling'[s] + Lag
  <2>1. PICK t \in Nat : t = Latest(s).flushed
    BY <1>5, <1>7
  <2>2. PICK u \in Nat : u = t + Cooldown
    BY Numbers
  <2>3. t = Latest(s)'.flushed /\ u = Latest(s)'.flushed + Cooldown
    BY <1>1, <2>1, <2>2
  <2>4. NotAhead(t, 0)'
    <3>1. NotAhead(t, 0) /\ 0 \in Nat
      BY <1>2, <1>7, <2>1
    <3> QED
      BY <3>1
  <2>5. NotAhead(Latest(s).flushed, 0)'
    BY <2>3, <2>4 DEF NotAhead
  <2>6. ASSUME cooling'[s] = 0 PROVE NotAhead(u, Lag)'
    <3>1. CASE cooling[s] = 0
      <4>1. NotAhead(u, Lag)
        BY <1>2, <1>7, <2>1, <2>2, <3>1
      <4> QED
        BY <4>1, Numbers
    <3>2. CASE cooling[s] # 0
      <4>1. cooling[s] <= sig.at
        BY <1>0, <1>4, <2>6, <3>2, Numbers
      <4>2. u <= cooling[s] + Lag
        BY <1>2, <1>7, <2>1, <2>2, <3>2
      <4>3. u <= sig.at + Lag
        BY <1>0, <4>1, <4>2, Numbers
      <4> QED
        BY <4>3
    <3> QED
      BY <3>1, <3>2
  <2>7. cooling'[s] = 0 => NotAhead(Latest(s).flushed + Cooldown, Lag)'
    BY <2>3, <2>6 DEF NotAhead
  <2>8. ASSUME cooling'[s] # 0 PROVE u <= cooling'[s] + Lag
    <3>1. CASE cooling'[s] = cooling[s]
      BY <1>2, <1>7, <2>1, <2>2, <2>8, <3>1
    <3>2. CASE cooling'[s] = sig.at + Cooldown
      <4>1. NotAhead(t, 0) /\ 0 \in Nat
        BY <1>2, <1>7, <2>1
      <4>2. t <= sig.at + Lag + 0
        BY <4>1
      <4> QED
        BY <1>0, <2>2, <3>2, <4>2, Numbers
    <3> QED
      BY <1>4, <2>8, <3>1, <3>2
  <2> QED
    BY <2>1, <2>2, <2>5, <2>7, <2>8
<1> QED
  BY <1>1, <1>6, <1>7 DEF MuteIsOwed

LEMMA AddSignalHeard ==
  ASSUME TypeOK, NEW sig \in Signal, sig.at <= clock, AddSignal(sig),
         Emitted' = Emitted, run' = run,
         \A t, x \in Nat : NotAhead(t, x) => t <= sig.at + Lag + x,
         \A site \in Sites : group[site] # None => GroupOfSite(site),
         \A s \in Services : MuteIsOwed(s)
  PROVE  EscalationIsHeard'
<1> DEFINE site == SiteOf[sig.svc]
           old == group[site].signals
<1>0. site \in Sites /\ sig.svc \in Services /\ sig.at <= MaxTime
  BY OneSignal, SampleTyped, Numbers
<1>1. signal' = sig
  BY DEF AddSignal
<1>2. CASE Join(sig)
  <2>1. group[site] # None /\ group'[site] # None
        /\ group'[site].signals = IF Len(old) < MaxMembers THEN Append(old, sig) ELSE old
    BY <1>2, JoinEffect
  <2>2. old \in Seq(Signal) /\ Len(old) \in 1..MaxMembers
    BY <1>0, <2>1, GroupTyped DEF GroupOfSite
  <2>3. PICK new : new = group'[site].signals
    OBVIOUS
  <2>4. Len(new) = MaxMembers \/ \E k \in DOMAIN new : new[k] = sig
    <3>1. CASE Len(old) < MaxMembers
      <4>1. new = Append(old, sig)
        BY <2>1, <2>3, <3>1
      <4>2. Len(old) + 1 \in DOMAIN new /\ new[Len(old) + 1] = sig
        BY <2>2, <4>1
      <4> QED
        BY <4>2
    <3>2. CASE ~ (Len(old) < MaxMembers)
      <4>1. Len(old) = MaxMembers
        BY <2>2, <3>2, Numbers
      <4> QED
        BY <2>1, <2>3, <3>2, <4>1
    <3> QED
      BY <3>1, <3>2
  <2> HIDE DEF old
  <2> QED
    BY <1>1, <2>1, <2>3, <2>4 DEF EscalationIsHeard
<1>3. CASE StayMuted(sig)
  <2>1. Muted(sig)
    BY <1>0, <1>3, StayMutedEffect
  <2>2. About(sig.svc) # {} /\ sig.score < Escalation * PeakOf(Latest(sig.svc).signals, sig.svc)
    BY <1>0, <2>1, MuteIsKnown
  <2>3. About(sig.svc)' = About(sig.svc)
    BY SameAlerts
  <2>4. PICK svc : svc = sig.svc
    OBVIOUS
  <2>5. About(svc)' = About(svc)
    BY <2>3, <2>4
  <2>6. Emitted'[Max(About(svc)')] = Latest(svc)
    BY <2>5 DEF Latest
  <2>7. signal'.svc = svc /\ signal'.score = sig.score
    BY <1>1, <2>4
  <2>8. About(svc)' # {} /\ sig.score < Escalation * PeakOf(Emitted'[Max(About(svc)')].signals, svc)
    BY <2>2, <2>4, <2>5, <2>6
  <2>9. About(signal.svc)' = About(svc)'
    BY <2>7 DEF About
  <2> QED
    BY <2>7, <2>8, <2>9 DEF EscalationIsHeard
<1>4. CASE OpenGroup(sig)
  <2>1. group'[site] # None /\ group'[site].signals = <<sig>>
    BY <1>0, <1>4, OpenEffect
  <2>2. PICK new : new = group'[site].signals
    OBVIOUS
  <2>3. 1 \in DOMAIN new /\ new[1] = sig
    BY <2>1, <2>2
  <2>4. \E k \in DOMAIN new : new[k] = sig
    BY <2>3
  <2> QED
    BY <1>1, <2>1, <2>2, <2>4 DEF EscalationIsHeard
<1> QED
  BY <1>2, <1>3, <1>4 DEF AddSignal

-----------------------------------------------------------------------------
(***************************************************************************)
(* A group is flushed: its alert, and the mutes it sets.                   *)
(***************************************************************************)
LEMMA FlushEffect ==
  ASSUME LoopInv, Flush, Due # {}
  PROVE  \E site \in Sites, a \in Alert :
           /\ group[site] # None
           /\ a.signals = group[site].signals /\ a.flushed = tick /\ a.run = run
           /\ outbox' = Append(outbox, a)
           /\ group'[site] = None
           /\ \A other \in Sites : other # site => group'[other] = group[other]
           /\ group' \in [Sites -> Group \cup {None}]
           /\ \A s \in ServicesOf(a.signals) :
                /\ SiteOf[s] = site
                /\ cooling'[s] \in Times /\ cooling'[s] >= tick + Cooldown
                /\ peak'[s] = PeakOf(a.signals, s) /\ peak'[s] \in Nat
           /\ \A s \in Services \ ServicesOf(a.signals) :
                cooling'[s] = cooling[s] /\ peak'[s] = peak[s]
           /\ cooling' \in [Services -> Times] /\ peak' \in [Services -> Nat]
           /\ UNCHANGED <<clock, topics, tick, silence, alerts, run, signal, pc>>
<1> USE DEF LoopInv
<1>1. PICK site \in Due :
        /\ outbox' = Append(outbox, [signals |-> group[site].signals, flushed |-> tick, run |-> run])
        /\ group' = [group EXCEPT ![site] = None]
        /\ cooling' = [s \in Services |->
                         IF s \in MutedBy(group[site].signals)
                         THEN Max({LastOf(group[site].signals), tick}) + Cooldown ELSE cooling[s]]
        /\ peak' = [s \in Services |->
                      IF s \in ServicesOf(group[site].signals) THEN PeakOf(group[site].signals, s) ELSE peak[s]]
        /\ UNCHANGED <<signal, pc, clock, topics, tick, silence, alerts, run>>
  BY DEF Flush
<1> DEFINE q == group[site].signals
           a == [signals |-> q, flushed |-> tick, run |-> run]
<1>2. site \in Sites /\ group[site] # None
  BY DEF Due
<1>3. q \in Seq(Signal) /\ Len(q) \in 1..MaxMembers /\ \A k \in DOMAIN q : SiteOf[q[k].svc] = site /\ q[k].at <= clock
  BY <1>2, GroupTyped DEF GroupOfSite
<1>4. q # <<>> /\ clock \in Nat /\ tick \in Nat /\ clock <= MaxTime /\ tick <= MaxTime
  BY <1>3, SampleTyped
<1>5. a \in Alert
  <2>1. tick \in Times /\ run \in Nat
    BY Numbers DEF TypeOK, Times
  <2> QED
    BY <1>3, <2>1 DEF Alert
<1> DEFINE m == Max({LastOf(q), tick})
<1> HIDE DEF q
<1>6. m \in Nat /\ tick <= m /\ m <= MaxTime
  <2>1. LastOf(q) \in Nat /\ LastOf(q) <= clock
    <3>1. \A k \in DOMAIN q : q[k].at <= clock
      BY <1>3
    <3> QED
      BY <1>3, <1>4, <3>1, LastIsNatural
  <2>2. m \in {LastOf(q), tick} /\ tick <= m
    BY <1>4, <2>1, MaxOfTwo
  <2> HIDE DEF m
  <2> QED
    BY <1>4, <2>1, <2>2, Numbers
<1>7. \A s \in ServicesOf(q) : s \in Services /\ SiteOf[s] = site /\ PeakOf(q, s) \in Nat
  BY <1>3, SignalTyped, PeakIsNatural DEF ServicesOf
<1> HIDE DEF m
<1>8. m + Cooldown \in Times /\ m + Cooldown >= tick + Cooldown
  BY <1>4, <1>6, Numbers DEF Times
<1>9. /\ \A s \in ServicesOf(q) : cooling'[s] = m + Cooldown /\ peak'[s] = PeakOf(q, s)
      /\ \A s \in Services \ ServicesOf(q) : cooling'[s] = cooling[s] /\ peak'[s] = peak[s]
  BY <1>1, <1>7 DEF MutedBy, m, q
<1>10. cooling' \in [Services -> Times] /\ peak' \in [Services -> Nat]
  <2>1. DOMAIN cooling' = Services /\ DOMAIN peak' = Services
    BY <1>1
  <2>2. \A s \in Services : cooling'[s] \in Times /\ peak'[s] \in Nat
    BY <1>7, <1>8, <1>9, MuteTyped
  <2>3. /\ cooling' = [s \in Services |-> cooling'[s]]
        /\ peak' = [s \in Services |-> peak'[s]]
    BY <1>1
  <2> QED
    BY <2>2, <2>3
<1>11. group' \in [Sites -> Group \cup {None}] /\ group'[site] = None
       /\ \A other \in Sites : other # site => group'[other] = group[other]
  <2>1. group \in [Sites -> Group \cup {None}]
    BY DEF TypeOK
  <2> QED
    BY <1>1, <1>2, <2>1
<1>12. outbox' = Append(outbox, a)
  BY <1>1 DEF q
<1>13. a.signals = q /\ a.flushed = tick /\ a.run = run
  OBVIOUS
<1>14. q = group[site].signals
  BY DEF q
<1>15. UNCHANGED <<clock, topics, tick, silence, alerts, run, signal, pc>>
  BY <1>1
<1> HIDE DEF a
<1> USE <1>2, <1>5
<1> WITNESS site \in Sites, a \in Alert
<1> QED
  BY <1>2, <1>7, <1>8, <1>9, <1>10, <1>11, <1>12, <1>13, <1>14, <1>15

(* With a new alert come the mutes it asks for; other mutes stay.          *)
LEMMA FlushMutes ==
  ASSUME LoopInv, Flush, Due # {},
         \A t, x \in Nat : NotAhead(t, x) => NotAhead(t, x)',
         TickIsPast',
         NEW s \in Services
  PROVE  MuteIsOwed(s)'
<1> USE DEF LoopInv
<1>1. PICK site \in Sites, a \in Alert :
           /\ a.signals = group[site].signals /\ a.flushed = tick /\ a.run = run
           /\ outbox' = Append(outbox, a)
           /\ \A s1 \in ServicesOf(a.signals) :
                /\ cooling'[s1] \in Times /\ cooling'[s1] >= tick + Cooldown
                /\ peak'[s1] = PeakOf(a.signals, s1)
           /\ \A s1 \in Services \ ServicesOf(a.signals) :
                cooling'[s1] = cooling[s1] /\ peak'[s1] = peak[s1]
           /\ UNCHANGED <<tick, alerts, run, pc>>
  BY FlushEffect
<1>2. tick \in Nat /\ cooling[s] \in Nat
  BY SampleTyped, MuteTyped
<1>3. CASE s \in ServicesOf(a.signals)
  <2>1. About(s)' # {} /\ Latest(s)' = a
    BY <1>1, <1>3, NextAlert
  <2>2. cooling'[s] >= tick + Cooldown /\ cooling'[s] \in Nat /\ peak'[s] = PeakOf(Latest(s)'.signals, s)
    BY <1>1, <1>3, <2>1, Numbers DEF Times
  <2>3. cooling'[s] # 0 /\ Latest(s)'.flushed + Cooldown <= cooling'[s] + Lag
    BY <1>1, <1>2, <2>1, <2>2, Numbers
  <2>4. NotAhead(tick, 0)'
    BY <1>1 DEF Flush, TickIsPast
  <2>5. NotAhead(Latest(s).flushed, 0)'
    <3>1. Latest(s)'.flushed = tick'
      BY <1>1, <2>1
    <3> QED
      BY <2>4, <3>1 DEF NotAhead
  <2> QED
    BY <2>1, <2>2, <2>3, <2>5 DEF MuteIsOwed
<1>4. CASE s \notin ServicesOf(a.signals)
  <2>1. About(s)' = About(s) /\ (About(s) # {} => Latest(s)' = Latest(s))
    BY <1>1, <1>4, NextAlert
  <2>2. cooling'[s] = cooling[s] /\ peak'[s] = peak[s]
    BY <1>1, <1>4
  <2>3. cooling'[s] # 0 => About(s)' # {} /\ peak'[s] = PeakOf(Latest(s)'.signals, s)
    BY <2>1, <2>2 DEF MuteIsOwed
  <2>4. ASSUME About(s) # {}
        PROVE  /\ NotAhead(Latest(s).flushed, 0)'
               /\ cooling'[s] = 0 => NotAhead(Latest(s).flushed + Cooldown, Lag)'
               /\ cooling'[s] # 0 => Latest(s)'.flushed + Cooldown <= cooling'[s] + Lag
    <3>1. PICK t \in Nat : t = Latest(s).flushed
      BY <2>4, LatestIsAbout
    <3>2. PICK u \in Nat : u = t + Cooldown
      BY Numbers
    <3>3. t = Latest(s)'.flushed /\ u = Latest(s)'.flushed + Cooldown
      BY <2>1, <2>4, <3>1, <3>2
    <3>4. NotAhead(t, 0)'
      <4>1. NotAhead(t, 0) /\ 0 \in Nat
        BY <2>4, <3>1 DEF MuteIsOwed
      <4> QED
        BY <4>1
    <3>5. NotAhead(Latest(s).flushed, 0)'
      BY <3>3, <3>4 DEF NotAhead
    <3>6. cooling[s] = 0 => NotAhead(u, Lag)'
      <4>1. cooling[s] = 0 => NotAhead(u, Lag)
        BY <2>4, <3>1, <3>2 DEF MuteIsOwed
      <4> QED
        BY <4>1, Numbers
    <3>7. cooling'[s] = 0 => NotAhead(Latest(s).flushed + Cooldown, Lag)'
      BY <2>2, <3>3, <3>6 DEF NotAhead
    <3>8. cooling'[s] # 0 => u <= cooling'[s] + Lag
      BY <2>2, <2>4, <3>1, <3>2 DEF MuteIsOwed
    <3> QED
      BY <3>3, <3>5, <3>7, <3>8
  <2> QED
    BY <2>1, <2>3, <2>4 DEF MuteIsOwed
<1> QED
  BY <1>3, <1>4

(* The signals of other sites' groups are about other services.            *)
LEMMA FlushGroups ==
  ASSUME LoopInv, Flush, Due # {}, NEW here \in Sites, group'[here] # None
  PROVE  GroupOfSite(here)'
<1> USE DEF LoopInv
<1>1. PICK site \in Sites, a \in Alert :
           /\ a.signals = group[site].signals /\ a.flushed = tick /\ a.run = run
           /\ outbox' = Append(outbox, a)
           /\ group'[site] = None
           /\ \A other \in Sites : other # site => group'[other] = group[other]
           /\ \A s \in ServicesOf(a.signals) : SiteOf[s] = site
           /\ UNCHANGED <<clock, alerts, run>>
  BY FlushEffect
<1>2. here # site /\ group'[here] = group[here] /\ group[here] # None
  BY <1>1
<1> DEFINE q == group[here].signals
<1>3. q \in Seq(Signal) /\ Len(q) \in 1..MaxMembers /\ MayAlert(q[1])
      /\ \A k \in DOMAIN q : SiteOf[q[k].svc] = here /\ q[k].at <= clock
  BY <1>2, GroupTyped DEF GroupOfSite
<1>4. PICK new : new = q
  OBVIOUS
<1>5. PICK first : first = new[1]
  OBVIOUS
<1> HIDE DEF q
<1>6. 1 \in DOMAIN new /\ first.svc \in Services /\ SiteOf[first.svc] = here
  <2>1. 1 \in DOMAIN new
    BY <1>3, <1>4
  <2> QED
    BY <1>3, <1>4, <1>5, <2>1, SignalTyped
<1>7. first.svc \notin ServicesOf(a.signals)
  BY <1>1, <1>2, <1>6
<1>8. About(first.svc)' = About(first.svc) /\ (About(first.svc) # {} => Latest(first.svc)' = Latest(first.svc))
  BY <1>1, <1>6, <1>7, NextAlert
<1>9. MayAlert(first)'
  BY <1>3, <1>4, <1>5, <1>8 DEF MayAlert
<1>10. group'[here].signals = new
  BY <1>2, <1>4 DEF q
<1>11. MayAlert(group[here].signals[1])'
  BY <1>5, <1>9, <1>10 DEF MayAlert
<1> QED
  BY <1>1, <1>3, <1>4, <1>10, <1>11 DEF GroupOfSite

(* The alert comes a cooldown after the one before, or is an escalation.   *)
LEMMA FlushSpacing ==
  ASSUME LoopInv, Flush, Due # {}
  PROVE  ReAlertSpacing'
<1> USE DEF LoopInv
<1>1. PICK site \in Sites, a \in Alert :
           /\ group[site] # None
           /\ a.signals = group[site].signals /\ a.flushed = tick /\ a.run = run
           /\ outbox' = Append(outbox, a)
           /\ UNCHANGED <<alerts, run>>
  BY FlushEffect
<1> DEFINE n == Len(Emitted)
<1>2. n \in Nat /\ DOMAIN Emitted = 1..n /\ DOMAIN Emitted' = 1..(n + 1) /\ Emitted'[n + 1] = a
      /\ \A k \in 1..n : Emitted'[k] = Emitted[k] /\ Emitted[k] \in Alert
  BY <1>1, EmittedTyped, EmittedOnFlush
<1> HIDE DEF n
<1> DEFINE before(s, k) == {j \in About(s) : j < k}
<1>3. ASSUME NEW s, NEW k \in 1..(n + 1) PROVE {j \in About(s)' : j < k} = before(s, k)
  <2>1. About(s)' = {j \in 1..(n + 1) : Emitted'[j].run = run /\ s \in ServicesOf(Emitted'[j].signals)}
    BY <1>1, <1>2 DEF About
  <2>2. About(s) = {j \in 1..n : Emitted[j].run = run /\ s \in ServicesOf(Emitted[j].signals)}
    BY <1>2 DEF About
  <2>3. \A j \in 1..(n + 1) : j < k => j \in 1..n
    BY <1>2
  <2>4. \A j \in 1..n : j \in 1..(n + 1)
    BY <1>2
  <2> QED
    BY <1>2, <2>1, <2>2, <2>3, <2>4
<1>4. ASSUME NEW s, NEW k \in 1..(n + 1), before(s, k) # {}
      PROVE  Max(before(s, k)) \in 1..n /\ Emitted'[Max(before(s, k))] = Emitted[Max(before(s, k))]
  <2>1. before(s, k) \in SUBSET (1..n)
    BY <1>2 DEF About
  <2>2. before(s, k) \in SUBSET Nat /\ \A j \in before(s, k) : j <= n
    BY <1>2, <2>1
  <2> HIDE DEF before
  <2>3. Max(before(s, k)) \in before(s, k)
    BY <1>2, <1>4, <2>2, GreatestNatural
  <2> QED
    BY <1>2, <2>1, <2>3
<1>5. ASSUME NEW k \in 1..(n + 1), NEW o, o = Emitted'[k].signals[1],
             Emitted'[k].run = run, before(o.svc, k) # {}
      PROVE  LET last == Emitted[Max(before(o.svc, k))] IN
                \/ o.at + 2 * Lag >= last.flushed + Cooldown
                \/ o.score >= Escalation * PeakOf(last.signals, o.svc)
  <2>1. CASE k \in 1..n
    <3>1. o = Emitted[k].signals[1] /\ Emitted[k].run = run /\ k \in DOMAIN Emitted
      BY <1>2, <1>5, <2>1
    <3> QED
      BY <1>5, <3>1 DEF ReAlertSpacing
  <2>2. CASE k = n + 1
    <3>1. o = group[site].signals[1]
      BY <1>1, <1>2, <1>5, <2>2
    <3>2. MayAlert(o)
      BY <1>1, <3>1 DEF GroupOfSite
    <3>3. before(o.svc, k) = About(o.svc)
      BY <1>2, <2>2 DEF About
    <3> QED
      BY <1>5, <3>2, <3>3 DEF MayAlert, Latest
  <2> QED
    BY <1>2, <2>1, <2>2
<1>6. ASSUME NEW k \in 1..(n + 1), NEW o, o = Emitted'[k].signals[1],
             Emitted'[k].run = run, {j \in About(o.svc)' : j < k} # {}
      PROVE  LET last == Emitted'[Max({j \in About(o.svc)' : j < k})] IN
                \/ o.at + 2 * Lag >= last.flushed + Cooldown
                \/ o.score >= Escalation * PeakOf(last.signals, o.svc)
  <2>1. {j \in About(o.svc)' : j < k} = before(o.svc, k)
    BY <1>3
  <2>2. before(o.svc, k) # {}
    BY <1>6, <2>1
  <2>3. Emitted'[Max(before(o.svc, k))] = Emitted[Max(before(o.svc, k))]
    BY <1>4, <2>2
  <2> QED
    BY <1>5, <1>6, <2>1, <2>2, <2>3
<1>7. run' = run
  BY <1>1
<1> QED
  BY <1>2, <1>6, <1>7 DEF ReAlertSpacing

-----------------------------------------------------------------------------
(***************************************************************************)
(* The steps of the loop.                                                  *)
(***************************************************************************)
(* The sample that is read, and the silence that is reported, are signals  *)
(* of the present.                                                         *)
LEMMA ReadSignal ==
  ASSUME LoopInv, ReadSample, NEW score \in Scores
  PROVE  LET sample == raw[read + 1]
             sig == [svc |-> sample.svc, at |-> sample.at, score |-> score, liveness |-> FALSE]
         IN /\ sig \in Signal /\ sig.at <= clock
            /\ \A t, x \in Nat : NotAhead(t, x) => t <= sig.at + Lag + x
            /\ \A t \in Nat : t <= sig.at + Lag => NotAhead(t, Lag)'
<1> USE DEF LoopInv
<1> DEFINE sample == raw[read + 1]
           sig == [svc |-> sample.svc, at |-> sample.at, score |-> score, liveness |-> FALSE]
<1>1. read + 1 \in Unread /\ read + 1 \in DOMAIN raw /\ read' = read + 1 /\ pc = "poll" /\ UNCHANGED <<raw, clock, pc>>
  BY SampleTyped DEF ReadSample, Unread
<1>2. sample.svc \in Services /\ sample.at \in Times /\ sample.at \in Nat /\ sample.at <= clock
  BY <1>1, SampleTyped DEF SamplesInOrder
<1>3. sig \in Signal /\ sig.at = sample.at
  BY <1>2, Numbers DEF Signal
<1>4. \A t, x \in Nat : NotAhead(t, x) => t <= sample.at + Lag + x
  BY <1>1 DEF NotAhead
<1>5. \A k \in Unread' : k \in DOMAIN raw /\ read + 1 <= k /\ raw'[k] = raw[k]
  BY <1>1, SampleTyped DEF Unread
<1>6. \A k \in Unread' : sample.at <= raw'[k].at + Lag /\ raw'[k].at \in Nat
  BY <1>1, <1>5, SampleTyped DEF SamplesInOrder
<1>7. ASSUME NEW t \in Nat, t <= sample.at + Lag PROVE NotAhead(t, Lag)'
  <2>1. t <= clock' + Lag
    BY <1>1, <1>2, <1>7, SampleTyped, Numbers
  <2>2. \A k \in Unread' : t <= raw'[k].at + Lag + Lag
    BY <1>2, <1>6, <1>7, Numbers
  <2> QED
    BY <1>1, <2>1, <2>2 DEF NotAhead
<1> HIDE DEF sample
<1> QED
  BY <1>2, <1>3, <1>4, <1>7 DEF sample

LEMMA SilenceSignal ==
  ASSUME LoopInv, ReportSilence, NEW s \in Silent, TickIsPast'
  PROVE  LET sig == [svc |-> s, at |-> tick, score |-> tick - lastSeen[s], liveness |-> TRUE]
         IN /\ sig \in Signal /\ sig.at <= clock
            /\ \A t, x \in Nat : NotAhead(t, x) => t <= sig.at + Lag + x
            /\ \A t \in Nat : t <= sig.at + Lag => NotAhead(t, Lag)'
<1> USE DEF LoopInv
<1> DEFINE sig == [svc |-> s, at |-> tick, score |-> tick - lastSeen[s], liveness |-> TRUE]
<1>1. pc = "silence" /\ UNCHANGED <<pc, tick, clock>>
  BY DEF ReportSilence
<1>2. s \in Services /\ lastSeen[s] \in Nat /\ lastSeen[s] + StaleAfter <= tick /\ tick \in Nat /\ tick <= clock
      /\ tick \in Times
  BY SampleTyped, Numbers DEF Silent, TypeOK, Times, TickIsPast
<1>3. tick - lastSeen[s] \in Nat
  BY <1>2, Numbers
<1>4. sig \in Signal /\ sig.at = tick
  BY <1>2, <1>3 DEF Signal
<1>5. \A t, x \in Nat : NotAhead(t, x) => t <= tick + Lag + x
  BY <1>1, <1>2, Numbers DEF NotAhead
<1>6. ASSUME NEW t \in Nat, t <= tick + Lag PROVE NotAhead(t, Lag)'
  <2>1. tick' <= clock' + 0 /\ (\A k \in Unread' : tick' <= raw'[k].at + Lag + 0)
    BY <1>1 DEF TickIsPast, NotAhead
  <2>2. Unread' = Unread /\ raw' = raw
    BY DEF ReportSilence, topics, Unread
  <2>3. \A k \in Unread' : raw'[k].at \in Nat
    BY <2>2, SampleTyped
  <2>4. t <= clock' + Lag
    BY <1>1, <1>2, <1>6, SampleTyped, Numbers
  <2>5. \A k \in Unread' : t <= raw'[k].at + Lag + Lag
    BY <1>1, <1>2, <1>6, <2>1, <2>3, Numbers
  <2>6. t <= tick' + Lag
    BY <1>1, <1>6
  <2> QED
    BY <2>4, <2>5, <2>6 DEF NotAhead
<1> QED
  BY <1>2, <1>4, <1>5, <1>6

(* What a step that adds no signal and flushes no group leaves alone.      *)
LEMMA QuietStep ==
  ASSUME LoopInv, TypeOK', Emitted' = Emitted, run' = run, clock <= clock',
         UNCHANGED <<group, cooling, peak>>, signal' \in {signal, None},
         \A t, x \in Nat : NotAhead(t, x) => NotAhead(t, x)'
  PROVE  /\ \A site \in Sites : group'[site] # None => GroupOfSite(site)'
         /\ \A s \in Services : MuteIsOwed(s)'
         /\ EscalationIsHeard'
<1> USE DEF LoopInv
<1>1. ASSUME NEW site \in Sites, group'[site] # None PROVE GroupOfSite(site)'
  <2>1. clock \in Nat /\ clock' \in Nat
    BY DEF TypeOK
  <2> QED
    BY <1>1, <2>1, GroupOfSiteStays
<1>2. ASSUME NEW s \in Services PROVE MuteIsOwed(s)'
  <2>1. About(s)' = About(s) /\ Latest(s)' = Latest(s)
    BY SameAlerts
  <2>2. /\ cooling[s] # 0 => About(s) # {} /\ peak[s] = PeakOf(Latest(s).signals, s)
        /\ About(s) # {} =>
             /\ NotAhead(Latest(s).flushed, 0)
             /\ cooling[s] = 0 => NotAhead(Latest(s).flushed + Cooldown, Lag)
             /\ cooling[s] # 0 => Latest(s).flushed + Cooldown <= cooling[s] + Lag
    BY DEF MuteIsOwed
  <2>3. ASSUME About(s) # {}
        PROVE  /\ NotAhead(Latest(s).flushed, 0)'
               /\ cooling[s] = 0 => NotAhead(Latest(s).flushed + Cooldown, Lag)'
    <3>1. PICK t \in Nat : t = Latest(s).flushed
      BY <2>3, LatestIsAbout
    <3>2. PICK u \in Nat : u = t + Cooldown
      BY Numbers
    <3>3. t = Latest(s)'.flushed /\ u = Latest(s)'.flushed + Cooldown
      BY <2>1, <3>1, <3>2
    <3>4. NotAhead(t, 0)'
      <4>1. NotAhead(t, 0) /\ 0 \in Nat
        BY <2>2, <2>3, <3>1
      <4> QED
        BY <4>1
    <3>5. cooling[s] = 0 => NotAhead(u, Lag)'
      <4>1. cooling[s] = 0 => NotAhead(u, Lag)
        BY <2>2, <2>3, <3>1, <3>2
      <4> QED
        BY <4>1, Numbers
    <3>6. NotAhead(Latest(s).flushed, 0)'
      BY <3>3, <3>4 DEF NotAhead
    <3>7. cooling[s] = 0 => NotAhead(Latest(s).flushed + Cooldown, Lag)'
      BY <3>3, <3>5 DEF NotAhead
    <3> QED
      BY <3>6, <3>7
  <2> QED
    BY <2>1, <2>2, <2>3 DEF MuteIsOwed
<1>3. EscalationIsHeard'
  <2>1. CASE signal' = None
    BY <2>1 DEF EscalationIsHeard
  <2>2. CASE signal' = signal
    <3>1. About(signal.svc)' = About(signal.svc)
      BY <2>2 DEF About
    <3> QED
      BY <2>2, <3>1 DEF EscalationIsHeard
  <2> QED
    BY <2>1, <2>2
<1> QED
  BY <1>1, <1>2, <1>3

(* Types.                                                                  *)
LEMMA ObserveTyped ==
  ASSUME TypeOK, NEW s \in Services, NEW at \in Times, Observe(s, at)
  PROVE  lastSeen' \in [Services -> Times] /\ seen' \in [Services -> 0..MinSeen] /\ reported' \subseteq Services
<1>1. lastSeen \in [Services -> Times] /\ seen \in [Services -> 0..MinSeen] /\ reported \subseteq Services
  BY DEF TypeOK
<1>2. (IF seen[s] < MinSeen THEN seen[s] + 1 ELSE seen[s]) \in 0..MinSeen
  <2>1. seen[s] \in 0..MinSeen
    BY <1>1
  <2> QED
    BY <2>1, Numbers
<1> QED
  BY <1>1, <1>2 DEF Observe

LEMMA TypeStep ==
  ASSUME LoopInv, [Next]_vars
  PROVE  TypeOK'
<1> USE DEF LoopInv
<1>0. /\ clock \in 0..MaxTime /\ raw \in Seq([svc : Services, at : Times]) /\ read \in 0..Len(raw) /\ offset \in BOOLEAN
      /\ sent \in 0..MaxSamples /\ pc \in PCs /\ tick \in 0..MaxTime
      /\ outbox \in Seq(Alert) /\ alerts \in Seq(Alert) /\ run \in 1..MaxRuns
  BY DEF TypeOK
<1>1. /\ group \in [Sites -> Group \cup {None}] /\ cooling \in [Services -> Times] /\ peak \in [Services -> Nat]
      /\ signal \in Signal \cup {None} /\ lastSeen \in [Services -> Times] /\ seen \in [Services -> 0..MinSeen]
      /\ reported \subseteq Services
  BY DEF TypeOK
<1>2. CASE Tick
  <2>1. clock' \in 0..MaxTime
    BY <1>0, <1>2, Numbers DEF Tick
  <2>2. UNCHANGED <<topics, pc, tick, grouper, silence, output, run>>
    BY <1>2 DEF Tick
  <2> QED
    BY <1>0, <1>1, <2>1, <2>2 DEF TypeOK, topics, grouper, silence, output
<1>3. ASSUME NEW s \in Services, Produce(s) PROVE TypeOK'
  <2>1. PICK at \in {t \in 1..clock : clock <= t + Lag} : raw' = Append(raw, [svc |-> s, at |-> at])
    BY <1>3 DEF Produce
  <2>2. sent' = sent + 1 /\ sent < MaxSamples /\ UNCHANGED <<clock, read, offset, pc, tick, grouper, silence, output, run>>
    BY <1>3 DEF Produce
  <2>3. [svc |-> s, at |-> at] \in [svc : Services, at : Times]
    BY <1>0, <2>1, Numbers DEF Times
  <2>4. raw' \in Seq([svc : Services, at : Times]) /\ Len(raw') = Len(raw) + 1
    <3> DEFINE S == [svc : Services, at : Times]
               e == [svc |-> s, at |-> at]
    <3>1. raw \in Seq(S) /\ e \in S /\ raw' = Append(raw, e)
      BY <1>0, <2>1, <2>3
    <3> HIDE DEF S, e
    <3>2. raw' \in Seq(S) /\ Len(raw') = Len(raw) + 1
      BY <3>1
    <3> QED
      BY <3>2 DEF S
  <2>5. read \in 0..Len(raw') /\ sent' \in 0..MaxSamples
    BY <1>0, <2>2, <2>4, SampleTyped, Numbers
  <2> QED
    BY <1>0, <1>1, <2>2, <2>4, <2>5 DEF TypeOK, grouper, silence, output
<1>4. CASE ReadSample
  <2> DEFINE sample == raw[read + 1]
  <2>1. sample.svc \in Services /\ sample.at \in Times /\ sample.at <= MaxTime /\ read' \in 0..Len(raw)
    <3>1. read + 1 \in DOMAIN raw /\ read + 1 <= Len(raw) /\ read' = read + 1
      BY <1>4, SampleTyped DEF ReadSample
    <3>2. sample.at <= clock
      BY <3>1 DEF SamplesInOrder
    <3> QED
      BY <3>1, <3>2, SampleTyped, Numbers
  <2>2. Observe(sample.svc, sample.at)
    BY <1>4 DEF ReadSample
  <2>3. lastSeen' \in [Services -> Times] /\ seen' \in [Services -> 0..MinSeen] /\ reported' \subseteq Services
    BY <2>1, <2>2, ObserveTyped
  <2>4. /\ group' \in [Sites -> Group \cup {None}] /\ cooling' \in [Services -> Times]
        /\ peak' \in [Services -> Nat] /\ signal' \in Signal \cup {None}
    <3>1. CASE UNCHANGED grouper
      BY <1>1, <3>1 DEF grouper
    <3>2. ASSUME NEW score \in Scores,
                 AddSignal([svc |-> sample.svc, at |-> sample.at, score |-> score, liveness |-> FALSE])
          PROVE  /\ group' \in [Sites -> Group \cup {None}] /\ cooling' \in [Services -> Times]
                 /\ peak' \in [Services -> Nat] /\ signal' \in Signal \cup {None}
      <4> DEFINE sig == [svc |-> sample.svc, at |-> sample.at, score |-> score, liveness |-> FALSE]
      <4>1. sig \in Signal /\ sig.at <= MaxTime /\ AddSignal(sig)
        BY <2>1, <3>2, Numbers DEF Signal
      <4> HIDE DEF sig
      <4> QED
        BY <4>1, AddSignalTyped
    <3> QED
      BY <1>4, <3>1, <3>2 DEF ReadSample
  <2>5. UNCHANGED <<clock, raw, offset, sent, pc, tick, output, run>>
    BY <1>4 DEF ReadSample
  <2> QED
    BY <1>0, <2>1, <2>3, <2>4, <2>5 DEF TypeOK, output
<1>5. CASE EndBatch
  BY <1>0, <1>1, <1>5 DEF EndBatch, TypeOK, topics, grouper, silence, output, PCs
<1>6. CASE ReportSilence
  <2>1. PICK s \in Silent : /\ reported' = reported \cup {s}
                            /\ AddSignal([svc |-> s, at |-> tick, score |-> tick - lastSeen[s], liveness |-> TRUE])
    BY <1>6 DEF ReportSilence
  <2> DEFINE sig == [svc |-> s, at |-> tick, score |-> tick - lastSeen[s], liveness |-> TRUE]
  <2>2. s \in Services /\ tick \in Times /\ tick - lastSeen[s] \in Nat
    <3>1. s \in Services /\ lastSeen[s] + StaleAfter <= tick
      BY <2>1 DEF Silent
    <3>2. lastSeen[s] \in Nat /\ tick \in Nat /\ tick \in Times
      BY <1>0, <1>1, <3>1, Numbers DEF Times
    <3> QED
      BY <3>1, <3>2, Numbers
  <2>3. sig \in Signal /\ sig.at <= MaxTime /\ AddSignal(sig)
    BY <1>0, <2>1, <2>2 DEF Signal
  <2> HIDE DEF sig
  <2>4. /\ group' \in [Sites -> Group \cup {None}] /\ cooling' \in [Services -> Times]
        /\ peak' \in [Services -> Nat] /\ signal' \in Signal \cup {None}
    BY <2>3, AddSignalTyped
  <2>5. UNCHANGED <<clock, topics, pc, tick, lastSeen, seen, output, run>>
    BY <1>6 DEF ReportSilence
  <2>6. reported' \subseteq Services
    BY <1>1, <2>1, <2>2
  <2> QED
    BY <1>0, <1>1, <2>4, <2>5, <2>6 DEF TypeOK, output, topics
<1>7. CASE EndSilence
  BY <1>0, <1>1, <1>7 DEF EndSilence, TypeOK, topics, silence, output, PCs
<1>8. CASE Flush /\ Due = {}
  BY <1>0, <1>1, <1>8 DEF Flush, TypeOK, topics, grouper, silence, PCs
<1>9. CASE Flush /\ Due # {}
  <2>1. PICK site \in Sites, a \in Alert :
           /\ outbox' = Append(outbox, a)
           /\ group' \in [Sites -> Group \cup {None}]
           /\ cooling' \in [Services -> Times] /\ peak' \in [Services -> Nat]
           /\ UNCHANGED <<clock, topics, tick, silence, alerts, run, signal, pc>>
    BY <1>9, FlushEffect
  <2>2. outbox' \in Seq(Alert)
    <3> HIDE DEF Alert
    <3> QED
      BY <1>0, <2>1
  <2> QED
    BY <1>0, <1>1, <2>1, <2>2 DEF TypeOK, topics, silence
<1>10. CASE Publish
  <2>1. /\ outbox # <<>> /\ alerts' = Append(alerts, Head(outbox)) /\ outbox' = Tail(outbox)
        /\ UNCHANGED <<clock, topics, pc, tick, grouper, silence, run>>
    BY <1>10 DEF Publish
  <2>2. alerts' \in Seq(Alert) /\ outbox' \in Seq(Alert)
    <3> HIDE DEF Alert
    <3>1. Head(outbox) \in Alert /\ Tail(outbox) \in Seq(Alert)
      BY <1>0, <2>1
    <3> QED
      BY <1>0, <2>1, <3>1
  <2> QED
    BY <1>0, <1>1, <2>1, <2>2 DEF TypeOK, topics, grouper, silence
<1>11. CASE Commit
  <2>1. /\ raw' = SubSeq(raw, read + 1, Len(raw)) /\ read' = 0 /\ offset' = TRUE /\ pc' = "poll"
        /\ UNCHANGED <<clock, sent, tick, grouper, silence, output, run>>
    BY <1>11 DEF Commit
  <2>2. raw' \in Seq([svc : Services, at : Times]) /\ read' \in 0..Len(raw')
    BY <2>1, RawAfterCommit, SampleTyped
  <2> QED
    BY <1>0, <1>1, <2>1, <2>2 DEF TypeOK, grouper, silence, output, PCs
<1>12. CASE Restart
  <2>1. raw' \in Seq([svc : Services, at : Times]) /\ read' \in 0..Len(raw')
    <3>1. (raw' = raw \/ raw' = <<>>) /\ read' = 0
      BY <1>12 DEF Restart
    <3>2. <<>> \in Seq([svc : Services, at : Times]) /\ Len(<<>>) = 0
      OBVIOUS
    <3>3. 0 \in 0..Len(raw) /\ 0 \in 0..0
      BY SampleTyped
    <3> QED
      BY <1>0, <3>1, <3>2, <3>3
  <2>2. run' \in 1..MaxRuns
    BY <1>0, <1>12, Numbers DEF Restart
  <2>3. 0 \in Times /\ 0 \in 0..MaxTime /\ 0 \in 0..MinSeen /\ <<>> \in Seq(Alert)
    BY Numbers DEF Times
  <2> QED
    BY <1>0, <1>12, <2>1, <2>2, <2>3 DEF Restart, TypeOK, PCs, NoGroup, Nothing
<1>13. CASE UNCHANGED vars
  BY <1>0, <1>1, <1>13 DEF TypeOK, vars, topics, grouper, silence, output
<1> QED
  BY <1>2, <1>3, <1>4, <1>5, <1>6, <1>7, <1>8, <1>9, <1>10, <1>11, <1>12, <1>13 DEF Next, Loop

-----------------------------------------------------------------------------
(***************************************************************************)
(* The invariant.                                                          *)
(***************************************************************************)
LEMMA LoopInvInit == Init => LoopInv
<1> SUFFICES ASSUME Init PROVE LoopInv
  OBVIOUS
<1> USE DEF Init
<1>1. Emitted = <<>>
  BY DEF Emitted
<1>2. \A s : About(s) = {}
  BY <1>1 DEF About
<1>3. TypeOK
  <2>1. 0 \in Times /\ 0 \in 0..MinSeen /\ 0 \in 0..MaxTime /\ 0 \in 0..MaxSamples
    BY Numbers DEF Times
  <2>2. <<>> \in Seq(Alert) /\ <<>> \in Seq([svc : Services, at : Times]) /\ 0 \in 0..Len(<<>>)
    OBVIOUS
  <2>3. NoGroup \in [Sites -> Group \cup {None}] /\ Nothing \in [Services -> Times] /\ Nothing \in [Services -> Nat]
        /\ Nothing \in [Services -> 0..MinSeen]
    BY <2>1 DEF NoGroup, Nothing
  <2>4. 1 \in 0..MaxTime /\ 1 \in 1..MaxRuns
    BY Numbers
  <2> QED
    BY <2>1, <2>2, <2>3, <2>4 DEF TypeOK, PCs
<1>4. SamplesInOrder /\ AlertsOfRuns /\ ReAlertSpacing /\ EscalationIsHeard
  BY <1>1 DEF SamplesInOrder, AlertsOfRuns, ReAlertSpacing, EscalationIsHeard
<1>5. TickIsPast
  BY DEF TickIsPast
<1>6. \A site \in Sites : group[site] = None
  BY DEF NoGroup
<1>7. \A s \in Services : MuteIsOwed(s)
  BY <1>2 DEF MuteIsOwed, Nothing
<1> QED
  BY <1>3, <1>4, <1>5, <1>6, <1>7 DEF LoopInv

LEMMA LoopInvStep == LoopInv /\ [Next]_vars => LoopInv'
<1> SUFFICES ASSUME LoopInv, [Next]_vars PROVE LoopInv'
  OBVIOUS
<1>0. TypeOK /\ SamplesInOrder /\ TickIsPast /\ AlertsOfRuns /\ ReAlertSpacing
      /\ (\A site \in Sites : group[site] # None => GroupOfSite(site))
      /\ (\A s \in Services : MuteIsOwed(s))
  BY DEF LoopInv
<1>1. TypeOK'
  BY TypeStep
<1>2. SamplesInOrder'
  BY <1>0, SamplesInOrderStep
<1>3. TickIsPast'
  BY <1>0, <1>1, TickIsPastStep
<1>4. run' = run => \A t, x \in Nat : NotAhead(t, x) => NotAhead(t, x)'
  BY <1>0, NotAheadStays
<1>5. ASSUME Emitted' = Emitted, run' = run,
             \A site \in Sites : group'[site] # None => GroupOfSite(site)',
             \A s \in Services : MuteIsOwed(s)', EscalationIsHeard'
      PROVE  LoopInv'
  <2>1. AlertsOfRuns' /\ ReAlertSpacing'
    BY <1>0, <1>5, SameAlerts
  <2> QED
    BY <1>1, <1>2, <1>3, <1>5, <2>1 DEF LoopInv
<1>6. ASSUME Emitted' = Emitted, run' = run, clock' \in {clock, clock + 1},
             UNCHANGED <<group, cooling, peak>>, signal' \in {signal, None}
      PROVE  LoopInv'
  <2>1. clock <= clock'
    BY <1>0, <1>6, SampleTyped
  <2>2. /\ \A site \in Sites : group'[site] # None => GroupOfSite(site)'
        /\ \A s \in Services : MuteIsOwed(s)'
        /\ EscalationIsHeard'
    BY <1>1, <1>4, <1>6, <2>1, QuietStep
  <2> QED
    BY <1>5, <1>6, <2>2
<1>7. ASSUME UNCHANGED <<outbox, alerts>> PROVE Emitted' = Emitted
  BY <1>7 DEF Emitted
<1>8. ASSUME UNCHANGED <<outbox, alerts, run, group, cooling, peak>>, clock' \in {clock, clock + 1}, signal' \in {signal, None}
      PROVE  LoopInv'
  <2>1. Emitted' = Emitted
    BY <1>7, <1>8
  <2> QED
    BY <1>6, <1>8, <2>1
<1>9. CASE Tick
  BY <1>8, <1>9 DEF Tick, grouper, output
<1>10. ASSUME NEW s \in Services, Produce(s) PROVE LoopInv'
  BY <1>8, <1>10 DEF Produce, grouper, output
<1>11. ASSUME NEW sig \in Signal, sig.at <= clock, AddSignal(sig),
              UNCHANGED <<outbox, alerts, run, clock>>,
              \A t, x \in Nat : NotAhead(t, x) => t <= sig.at + Lag + x,
              \A t \in Nat : t <= sig.at + Lag => NotAhead(t, Lag)'
       PROVE  LoopInv'
  <2>1. Emitted' = Emitted /\ run' = run /\ clock' = clock
    BY <1>7, <1>11
  <2>2. \A site \in Sites : group'[site] # None => GroupOfSite(site)'
    BY <1>0, <1>11, <2>1, AddSignalGroups
  <2>3. \A s \in Services : MuteIsOwed(s)'
    BY <1>0, <1>4, <1>11, <2>1, AddSignalMutes
  <2>4. EscalationIsHeard'
    BY <1>0, <1>11, <2>1, AddSignalHeard
  <2> QED
    BY <1>5, <2>1, <2>2, <2>3, <2>4
<1>12. CASE ReadSample
  <2>1. CASE UNCHANGED grouper
    BY <1>8, <1>12, <2>1 DEF ReadSample, grouper, output
  <2>2. ASSUME NEW score \in Scores,
               AddSignal([svc |-> raw[read + 1].svc, at |-> raw[read + 1].at, score |-> score, liveness |-> FALSE])
        PROVE  LoopInv'
    <3> DEFINE sig == [svc |-> raw[read + 1].svc, at |-> raw[read + 1].at, score |-> score, liveness |-> FALSE]
    <3>1. AddSignal(sig) /\ UNCHANGED <<outbox, alerts, run, clock>>
      BY <1>12, <2>2 DEF ReadSample, output
    <3>2. sig \in Signal /\ sig.at <= clock
          /\ (\A t, x \in Nat : NotAhead(t, x) => t <= sig.at + Lag + x)
          /\ (\A t \in Nat : t <= sig.at + Lag => NotAhead(t, Lag)')
      BY <1>12, ReadSignal
    <3>3. PICK it : it = sig
      OBVIOUS
    <3> HIDE DEF sig
    <3> QED
      BY <1>11, <3>1, <3>2, <3>3
  <2> QED
    BY <1>12, <2>1, <2>2 DEF ReadSample
<1>13. CASE EndBatch
  BY <1>8, <1>13 DEF EndBatch, grouper, output
<1>14. CASE ReportSilence
  <2>1. PICK s \in Silent : AddSignal([svc |-> s, at |-> tick, score |-> tick - lastSeen[s], liveness |-> TRUE])
    BY <1>14 DEF ReportSilence
  <2> DEFINE sig == [svc |-> s, at |-> tick, score |-> tick - lastSeen[s], liveness |-> TRUE]
  <2>2. AddSignal(sig) /\ UNCHANGED <<outbox, alerts, run, clock>>
    BY <1>14, <2>1 DEF ReportSilence, output
  <2>3. sig \in Signal /\ sig.at <= clock
        /\ (\A t, x \in Nat : NotAhead(t, x) => t <= sig.at + Lag + x)
        /\ (\A t \in Nat : t <= sig.at + Lag => NotAhead(t, Lag)')
    BY <1>3, <1>14, SilenceSignal
  <2> HIDE DEF sig
  <2> QED
    BY <1>11, <2>2, <2>3
<1>15. CASE EndSilence
  BY <1>8, <1>15 DEF EndSilence, output
<1>16. CASE Flush /\ Due = {}
  BY <1>8, <1>16 DEF Flush, grouper
<1>17. CASE Flush /\ Due # {}
  <2>1. PICK site \in Sites, a \in Alert :
           a.run = run /\ outbox' = Append(outbox, a) /\ UNCHANGED <<alerts, run, signal, pc>>
    BY <1>17, FlushEffect
  <2>2. AlertsOfRuns'
    <3>1. /\ DOMAIN Emitted' = 1..(Len(Emitted) + 1) /\ Emitted'[Len(Emitted) + 1] = a
          /\ \A k \in 1..Len(Emitted) : Emitted'[k] = Emitted[k]
          /\ Len(Emitted) \in Nat /\ DOMAIN Emitted = 1..Len(Emitted)
      BY <1>0, <2>1, EmittedOnFlush, EmittedTyped
    <3>2. ASSUME NEW k \in DOMAIN Emitted' PROVE Emitted'[k].run <= run'
      <4>1. k \in 1..Len(Emitted) \/ k = Len(Emitted) + 1
        BY <3>1
      <4>2. run \in Nat
        BY <1>0 DEF TypeOK
      <4> QED
        BY <1>0, <2>1, <3>1, <4>1, <4>2 DEF AlertsOfRuns
    <3> QED
      BY <3>2 DEF AlertsOfRuns
  <2>3. EscalationIsHeard'
    <3>1. signal = None
      BY <1>0, <1>17 DEF TickIsPast, Flush
    <3> QED
      BY <2>1, <3>1 DEF EscalationIsHeard
  <2>4. \A s \in Services : MuteIsOwed(s)'
    BY <1>3, <1>4, <1>17, <2>1, FlushMutes
  <2>5. \A site1 \in Sites : group'[site1] # None => GroupOfSite(site1)'
    BY <1>17, FlushGroups
  <2>6. ReAlertSpacing'
    BY <1>17, FlushSpacing
  <2> QED
    BY <1>1, <1>2, <1>3, <2>2, <2>3, <2>4, <2>5, <2>6 DEF LoopInv
<1>18. CASE Publish
  <2>1. Emitted' = Emitted
    BY <1>0, <1>18, EmittedOnPublish DEF Publish
  <2> QED
    BY <1>6, <1>18, <2>1 DEF Publish, grouper
<1>19. CASE Commit
  BY <1>8, <1>19 DEF Commit, grouper, output
<1>20. CASE Restart
  <2>1. /\ run' = run + 1 /\ alerts' = alerts /\ outbox' = <<>> /\ signal' = None
        /\ group' = NoGroup /\ cooling' = Nothing
    BY <1>20 DEF Restart
  <2>2. alerts \in Seq(Alert) /\ outbox \in Seq(Alert) /\ run \in Nat
    BY <1>0 DEF TypeOK
  <2>3. Emitted' = alerts
    BY <2>1, <2>2 DEF Emitted
  <2>4. ASSUME NEW k \in DOMAIN Emitted' PROVE Emitted'[k].run <= run /\ Emitted'[k].run \in Nat
    <3>1. k \in DOMAIN alerts
      BY <2>3, <2>4
    <3>2. k \in DOMAIN Emitted /\ Emitted[k] = alerts[k]
      <4> HIDE DEF Alert
      <4>1. k \in 1..Len(alerts)
        BY <2>2, <3>1
      <4> QED
        BY <2>2, <4>1 DEF Emitted
    <3>3. Emitted[k] \in Alert /\ Emitted[k].run <= run
      BY <1>0, <3>2, EmittedTyped DEF AlertsOfRuns
    <3> QED
      BY <2>3, <3>2, <3>3, AlertTyped
  <2>5. \A k \in DOMAIN Emitted' : Emitted'[k].run <= run' /\ Emitted'[k].run # run'
    BY <2>1, <2>2, <2>4
  <2>6. \A s : About(s)' = {}
    BY <2>5 DEF About
  <2>7. AlertsOfRuns' /\ ReAlertSpacing'
    BY <2>5 DEF AlertsOfRuns, ReAlertSpacing
  <2>8. EscalationIsHeard' /\ \A site \in Sites : group'[site] = None
    BY <2>1 DEF EscalationIsHeard, NoGroup
  <2>9. \A s \in Services : MuteIsOwed(s)'
    BY <2>1, <2>6 DEF MuteIsOwed, Nothing
  <2> QED
    BY <1>1, <1>2, <1>3, <2>7, <2>8, <2>9 DEF LoopInv
<1>21. CASE UNCHANGED vars
  BY <1>8, <1>21 DEF vars, grouper, output
<1> QED
  BY <1>9, <1>10, <1>12, <1>13, <1>14, <1>15, <1>16, <1>17, <1>18, <1>19, <1>20, <1>21 DEF Next, Loop

(* The invariant of the loop holds in every state.                         *)
THEOREM LoopInvariant == Spec => []LoopInv
<1>1. Init => LoopInv
  BY LoopInvInit
<1>2. LoopInv /\ [Next]_vars => LoopInv'
  BY LoopInvStep
<1> QED
  BY <1>1, <1>2, PTL DEF Spec

(* Types.                                                                  *)
THEOREM DetectorTypes == Spec => []TypeOK
<1>1. LoopInv => TypeOK
  BY DEF LoopInv
<1> QED
  BY <1>1, LoopInvariant, PTL

(* An ongoing fault does not alert again and again: a service opens an     *)
(* alert only when nothing named it before, when a cooldown has passed     *)
(* since the last alert that did was flushed (but for two lags), or when   *)
(* it got Escalation times worse.                                          *)
THEOREM AlertsKeepTheirDistance == Spec => []ReAlertSpacing
<1>1. LoopInv => ReAlertSpacing
  BY DEF LoopInv
<1> QED
  BY <1>1, LoopInvariant, PTL

(* A signal that is not in an open group was muted by the latest alert     *)
(* about its service and is no escalation over it, unless the open group   *)
(* of its site is full.                                                    *)
THEOREM EscalationsAreHeard == Spec => []EscalationIsHeard
<1>1. LoopInv => EscalationIsHeard
  BY DEF LoopInv
<1> QED
  BY <1>1, LoopInvariant, PTL
=============================================================================
