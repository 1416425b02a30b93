---------------------------- MODULE TestbedProofs ----------------------------
(***************************************************************************)
(* What the services of the testbed promise, each on its own: the sink,    *)
(* the load generator, the deploy emitter, the dummy site and a live run   *)
(* of the evaluation.                                                      *)
(***************************************************************************)
EXTENDS MetricsPipeline, LoadPacing, OrderHistory, Deploys, DummySite, EvaluationRun,
        FiniteSetTheorems, SequenceTheorems, WellFoundedInduction, TLAPS

-----------------------------------------------------------------------------
(* Numbers: a set of them has a least one, and if bounded a greatest.      *)

LEMMA LeastNatural ==
  ASSUME NEW S \in SUBSET Nat, S # {}
  PROVE  \E m \in S : \A n \in S : m <= n
<1>1. PICK m \in S : \A n \in S : <<n, m>> \notin OpToRel(<, Nat)
  BY WFMin, NatLessThanWellFounded, Zenon
<1>2. \A n \in S : <<n, m>> \in Nat \X Nat => ~ (n < m)
  BY <1>1, Zenon DEF OpToRel
<1>3. \A n \in S : <<n, m>> \in Nat \X Nat
  OBVIOUS
<1>4. \A n \in S : ~ (n < m)
  BY <1>2, <1>3, Zenon
<1>5. \A n \in S : n \in Nat /\ m \in Nat
  OBVIOUS
<1>6. \A n \in S : m <= n
  BY <1>4, <1>5, SMT
<1> QED
  BY <1>6

LEMMA GreatestNatural ==
  ASSUME NEW S \in SUBSET Nat, S # {}, NEW b \in Nat, \A n \in S : n <= b
  PROVE  Max(S) \in S /\ Max(S) \in Nat /\ \A n \in S : n <= Max(S)
<1> DEFINE D == {b - n : n \in S}
<1>1. PICK d \in D : \A e \in D : d <= e
  <2>1. D \in SUBSET Nat
    <3>1. \A n \in S : n \in Nat /\ n <= b
      OBVIOUS
    <3> QED
      BY <3>1
  <2>2. D # {}
    OBVIOUS
  <2> HIDE DEF D
  <2> QED
    BY <2>1, <2>2, LeastNatural
<1>2. PICK m \in S : d = b - m
  BY <1>1
<1>3. \A n \in S : n \in Nat /\ m >= n
  <2> TAKE n \in S
  <2>1. d <= b - n
    BY <1>1
  <2>2. n \in Nat /\ m \in Nat
    OBVIOUS
  <2> QED
    BY <2>1, <2>2, <1>2
<1>4. Max(S) \in S /\ \A n \in S : Max(S) >= n
  BY <1>3 DEF Max
<1> QED
  BY <1>3, <1>4

-----------------------------------------------------------------------------
(* The metrics sink loses nothing and repeats nothing but what a crash     *)
(* makes it read again, for any number of targets, any batch size, any     *)
(* records of other producers and any number of crashes on both sides.     *)

\* What this run of the sink has read and not committed.
Fresh == (offset + 1)..position

\* The rows in `batch'.
Held == {batch[i] : i \in DOMAIN batch}

\* Below the committed offset, or in the transaction before the commit of it.
Written(o) == o <= offset \/ (sinkAt = "stored" /\ o <= position)

PipelineTypes ==
  /\ cycle \in 0..MaxCycles
  /\ bridge \in {"asleep", "polling"}
  /\ bridge = "polling" => cycle > 0
  /\ raw \in Seq(SampleRecord \cup Foreign)
  /\ offset \in Nat /\ position \in Nat
  /\ offset <= position /\ position <= Len(raw)
  /\ batch \in Seq(Nat)
  /\ sinkAt \in {"reading", "stored"}
  /\ metrics \in Seq(Nat) /\ Len(metrics) = Len(raw)
  /\ sinkCrashes \in Nat

\* How often the table has the sample of o, by how far the sink is with it: one
\* copy of this run at most, and of every crash one.
CopiesOf(o) ==
  /\ raw[o] \notin SampleRecord => metrics[o] = 0
  /\ raw[o] \in SampleRecord /\ Written(o) => metrics[o] \in 1..(sinkCrashes + 1)
  /\ ~Written(o) => metrics[o] <= sinkCrashes

PipelineInv ==
  /\ PipelineTypes
  /\ Held = {o \in Fresh : raw[o] \in SampleRecord}
  /\ \A o \in 1..Len(raw) : CopiesOf(o)

-----------------------------------------------------------------------------
LEMMA HeldOfAppend ==
  ASSUME NEW s \in Seq(Nat), NEW n \in Nat
  PROVE  /\ Append(s, n) \in Seq(Nat)
         /\ {Append(s, n)[i] : i \in DOMAIN Append(s, n)} = {s[i] : i \in DOMAIN s} \cup {n}
<1>1. /\ Append(s, n) \in Seq(Nat) /\ Len(Append(s, n)) = Len(s) + 1 /\ Len(s) \in Nat
      /\ \A i \in 1..Len(s) : Append(s, n)[i] = s[i]
      /\ Append(s, n)[Len(s) + 1] = n
  BY AppendProperties
<1>2. DOMAIN Append(s, n) = 1..(Len(s) + 1) /\ DOMAIN s = 1..Len(s)
  BY <1>1
<1>3. 1..(Len(s) + 1) = 1..Len(s) \cup {Len(s) + 1}
  BY <1>1
<1> QED BY <1>1, <1>2, <1>3

LEMMA PipelineStart ==
  ASSUME PipelineAssumption, PipelineInit PROVE PipelineInv
<1>1. Held = {} /\ Fresh = {}
  BY DEF PipelineInit, Held, Fresh
<1> QED BY <1>1 DEF PipelineAssumption, PipelineInit, PipelineInv, PipelineTypes

\* A step of the bridge that sends nothing, or a stutter.
LEMMA SilentStep ==
  ASSUME PipelineInv, PipelineTypes', UNCHANGED <<raw, sinkVars>> PROVE PipelineInv'
BY DEF PipelineInv, sinkVars, Held, Fresh, CopiesOf, Written

\* One more record on the topic is beyond everything the sink has read.
LEMMA ProduceStep ==
  ASSUME PipelineInv, NEW r \in SampleRecord \cup Foreign, Produce(r),
         cycle' \in 0..MaxCycles, bridge' \in {"asleep", "polling"},
         bridge' = "polling" => cycle' > 0,
         UNCHANGED <<position, offset, batch, sinkAt, sinkCrashes>>
  PROVE  PipelineInv'
<1>1. raw \in Seq(SampleRecord \cup Foreign) /\ metrics \in Seq(Nat)
      /\ Len(metrics) = Len(raw) /\ Len(raw) \in Nat
      /\ offset \in Nat /\ position \in Nat /\ offset <= position /\ position <= Len(raw)
      /\ sinkCrashes \in Nat
  BY DEF PipelineInv, PipelineTypes
<1>2. /\ raw' \in Seq(SampleRecord \cup Foreign) /\ Len(raw') = Len(raw) + 1
      /\ \A o \in 1..Len(raw) : raw'[o] = raw[o]
  BY <1>1, AppendProperties DEF Produce
<1>3. /\ metrics' \in Seq(Nat) /\ Len(metrics') = Len(raw) + 1
      /\ \A o \in 1..Len(raw) : metrics'[o] = metrics[o]
      /\ metrics'[Len(raw) + 1] = 0
  BY <1>1, AppendProperties DEF Produce
<1>4. PipelineTypes'
  BY <1>1, <1>2, <1>3 DEF PipelineInv, PipelineTypes
<1>5. Fresh' = Fresh /\ Held' = Held /\ Fresh \subseteq 1..Len(raw)
  BY <1>1 DEF Fresh, Held
<1>6. Held' = {o \in Fresh' : raw'[o] \in SampleRecord'}
  BY <1>2, <1>5 DEF PipelineInv, SampleRecord
<1>7. ASSUME NEW o \in 1..Len(raw') PROVE CopiesOf(o)'
  <2>1. CASE o \in 1..Len(raw)
    BY <1>2, <1>3, <2>1 DEF PipelineInv, CopiesOf, Written, SampleRecord
  <2>2. CASE o = Len(raw) + 1
    <3>1. ~Written(o)' /\ metrics'[o] = 0
      BY <1>1, <1>3, <2>2 DEF Written
    <3> QED BY <1>1, <3>1 DEF CopiesOf
  <2> QED BY <1>1, <1>2, <2>1, <2>2
<1> QED BY <1>4, <1>6, <1>7 DEF PipelineInv

LEMMA ReadStep ==
  ASSUME PipelineAssumption, PipelineInv, Read PROVE PipelineInv'
<1> DEFINE o == position + 1
<1>1. raw \in Seq(SampleRecord \cup Foreign) /\ Len(raw) \in Nat /\ batch \in Seq(Nat)
      /\ offset \in Nat /\ position \in Nat /\ offset <= position /\ o <= Len(raw)
  BY DEF PipelineInv, PipelineTypes, Read
<1>2. raw[o] \in SampleRecord \cup Foreign
  BY <1>1, ElementOfSeq
<1>3. raw[o] = Malformed \/ raw[o] \in SampleRecord
  BY <1>2 DEF PipelineAssumption, Read
<1>4. Malformed \notin SampleRecord
  BY ForeignAssumption
<1>5. Fresh' = Fresh \cup {o} /\ o \notin Fresh
  BY <1>1 DEF Fresh, Read
<1>6. Held' = {p \in Fresh' : raw[p] \in SampleRecord}
  <2>1. CASE raw[o] = Malformed
    BY <1>4, <1>5, <2>1 DEF Read, Held, PipelineInv
  <2>2. CASE raw[o] # Malformed
    <3> DEFINE longer == Append(batch, o)
    <3>1. Held' = Held \cup {o}
      <4>1. batch' = longer /\ o \in Nat
        BY <1>1, <2>2 DEF Read
      <4>2. {longer[i] : i \in DOMAIN longer} = {batch[i] : i \in DOMAIN batch} \cup {o}
        BY <1>1, <4>1, HeldOfAppend
      <4> HIDE DEF longer, o
      <4> QED BY <4>1, <4>2 DEF Held
    <3> QED BY <1>3, <1>5, <2>2, <3>1 DEF PipelineInv
  <2> QED BY <2>1, <2>2
<1>7. PipelineTypes'
  BY <1>1, HeldOfAppend DEF Read, PipelineInv, PipelineTypes, bridgeVars
<1>8. \A p \in 1..Len(raw') : CopiesOf(p)'
  <2>1. UNCHANGED <<raw, offset, metrics, sinkCrashes>> /\ sinkAt = "reading" /\ sinkAt' = "reading"
    BY DEF Read
  <2> QED BY <2>1 DEF PipelineInv, CopiesOf, Written, SampleRecord
<1>9. UNCHANGED raw
  BY DEF Read
<1> QED BY <1>6, <1>7, <1>8, <1>9 DEF PipelineInv, SampleRecord

LEMMA StoreStep ==
  ASSUME PipelineInv, StoreBatch PROVE PipelineInv'
<1>1. metrics \in Seq(Nat) /\ Len(metrics) = Len(raw) /\ Len(raw) \in Nat /\ sinkCrashes \in Nat
      /\ offset \in Nat /\ position \in Nat /\ offset <= position /\ position <= Len(raw)
      /\ sinkAt = "reading" /\ sinkAt' = "stored"
      /\ UNCHANGED <<raw, position, offset, batch, sinkCrashes, cycle, bridge>>
  BY DEF PipelineInv, PipelineTypes, StoreBatch, bridgeVars
<1>2. DOMAIN metrics = 1..Len(raw) /\ \A o \in 1..Len(raw) : metrics[o] \in Nat
  BY <1>1, ElementOfSeq
<1>3. metrics' = [o \in 1..Len(raw) |-> IF o \in Held THEN metrics[o] + 1 ELSE metrics[o]]
  BY <1>2 DEF StoreBatch, Held
<1>4. metrics' \in Seq(Nat) /\ Len(metrics') = Len(raw)
  <2>1. metrics' \in [1..Len(raw) -> Nat]
    BY <1>2, <1>3
  <2>2. metrics' \in Seq(Nat)
    BY <1>1, <2>1, SeqDef
  <2> QED BY <1>1, <2>1, <2>2
<1>5. PipelineTypes'
  BY <1>1, <1>4 DEF PipelineInv, PipelineTypes
<1>6. Held' = Held /\ Fresh' = Fresh
  BY <1>1 DEF Held, Fresh
<1>7. ASSUME NEW o \in 1..Len(raw) PROVE CopiesOf(o)'
  <2>1. metrics[o] \in Nat /\ metrics'[o] = IF o \in Held THEN metrics[o] + 1 ELSE metrics[o]
    BY <1>2, <1>3
  <2>2. CopiesOf(o) /\ (Written(o) <=> o <= offset)
    BY <1>1 DEF PipelineInv, Written
  <2>3. Written(o)' <=> o <= position
    BY <1>1 DEF Written
  <2>4. o \in Held <=> o > offset /\ o <= position /\ raw[o] \in SampleRecord
    BY <1>1 DEF PipelineInv, Fresh
  <2>5. CASE o \in Held
    <3>1. metrics[o] <= sinkCrashes
      BY <1>1, <2>2, <2>4, <2>5 DEF CopiesOf
    <3> QED BY <1>1, <2>1, <2>3, <2>4, <2>5, <3>1 DEF CopiesOf, SampleRecord
  <2>6. CASE o \notin Held
    BY <1>1, <2>1, <2>2, <2>3, <2>4, <2>6 DEF CopiesOf, SampleRecord
  <2> QED BY <2>5, <2>6
<1> QED BY <1>1, <1>5, <1>6, <1>7 DEF PipelineInv, SampleRecord

LEMMA CommitStep ==
  ASSUME PipelineInv, CommitOffset PROVE PipelineInv'
<1>1. /\ offset \in Nat /\ position \in Nat /\ offset <= position /\ Len(raw) \in Nat
      /\ sinkAt = "stored" /\ sinkAt' = "reading" /\ offset' = position /\ batch' = <<>>
      /\ UNCHANGED <<raw, position, metrics, sinkCrashes, cycle, bridge>>
  BY DEF PipelineInv, PipelineTypes, CommitOffset, bridgeVars
<1>2. Held' = {} /\ Fresh' = {}
  BY <1>1 DEF Held, Fresh
<1>3. ASSUME NEW o \in 1..Len(raw) PROVE Written(o)' <=> Written(o)
  BY <1>1 DEF Written
<1>4. PipelineTypes'
  BY <1>1 DEF PipelineInv, PipelineTypes
<1> QED BY <1>1, <1>2, <1>3, <1>4 DEF PipelineInv, CopiesOf, SampleRecord

\* The process starts over: what it had read is unread, what it had written
\* and not committed will be written again.
LEMMA RestartStep ==
  ASSUME PipelineInv, RestartSink, sinkCrashes' \in Nat, UNCHANGED <<raw, offset, metrics, cycle, bridge>>,
         sinkCrashes' = sinkCrashes + 1 \/ (sinkCrashes' = sinkCrashes /\ sinkAt = "reading")
  PROVE  PipelineInv'
<1>1. /\ offset \in Nat /\ position \in Nat /\ offset <= position /\ Len(raw) \in Nat /\ sinkCrashes \in Nat
      /\ metrics \in Seq(Nat) /\ Len(metrics) = Len(raw)
      /\ position' = offset /\ batch' = <<>> /\ sinkAt' = "reading"
  BY DEF PipelineInv, PipelineTypes, RestartSink
<1>2. Held' = {} /\ Fresh' = {}
  BY <1>1 DEF Held, Fresh
<1>3. PipelineTypes'
  BY <1>1 DEF PipelineInv, PipelineTypes
<1>4. ASSUME NEW o \in 1..Len(raw) PROVE CopiesOf(o)'
  <2>1. metrics[o] \in Nat
    BY <1>1, ElementOfSeq
  <2>2. CopiesOf(o) /\ (Written(o)' <=> o <= offset)
    BY <1>1 DEF PipelineInv, Written
  <2>3. CASE o <= offset
    BY <1>1, <2>1, <2>2, <2>3 DEF CopiesOf, Written, SampleRecord
  <2>4. CASE ~(o <= offset)
    BY <1>1, <2>1, <2>2, <2>4 DEF CopiesOf, Written, SampleRecord
  <2> QED BY <2>3, <2>4
<1> QED BY <1>1, <1>2, <1>3, <1>4 DEF PipelineInv, SampleRecord

LEMMA PipelineStep ==
  ASSUME PipelineInv, [PipelineNext]_pipelineVars PROVE PipelineInv'
<1> USE PipelineAssumption
<1>1. CASE BeginCycle
  <2>1. PipelineTypes'
    BY <1>1 DEF BeginCycle, PipelineInv, PipelineTypes, sinkVars, PipelineAssumption
  <2> QED BY <1>1, <2>1, SilentStep DEF BeginCycle
<1>2. CASE EndCycle \/ BridgeCrash
  <2>1. PipelineTypes'
    BY <1>2 DEF EndCycle, BridgeCrash, PipelineInv, PipelineTypes, sinkVars
  <2> QED BY <1>2, <2>1, SilentStep DEF EndCycle, BridgeCrash
<1>3. ASSUME NEW i \in Instances \cup {TestbedTarget}, Poll(i) PROVE PipelineInv'
  <2>1. cycle \in 1..MaxCycles /\ bridge = "polling"
    BY <1>3 DEF Poll, PipelineInv, PipelineTypes, PipelineAssumption
  <2>2. CASE Produce([cycle |-> cycle, target |-> i])
    <3>1. [cycle |-> cycle, target |-> i] \in SampleRecord
      BY <2>1 DEF SampleRecord
    <3> QED BY <1>3, <2>1, <2>2, <3>1, ProduceStep DEF Poll, PipelineAssumption
  <2>3. CASE UNCHANGED <<raw, metrics>>
    <3>1. PipelineTypes'
      BY <1>3, <2>3 DEF Poll, PipelineInv, PipelineTypes
    <3> QED BY <1>3, <2>3, <3>1, SilentStep DEF Poll, sinkVars
  <2> QED BY <1>3, <2>2, <2>3 DEF Poll
<1>4. ASSUME NEW f \in Foreign, ForeignRecord(f) PROVE PipelineInv'
  BY <1>4, ProduceStep DEF ForeignRecord, bridgeVars, PipelineInv, PipelineTypes
<1>5. CASE SinkStep
  BY <1>5, ReadStep, StoreStep, CommitStep DEF SinkStep
<1>6. CASE ReadUndecodable
  BY <1>6, RestartStep DEF ReadUndecodable, bridgeVars, PipelineInv, PipelineTypes
<1>7. CASE SinkCrash
  BY <1>7, RestartStep DEF SinkCrash, bridgeVars, PipelineInv, PipelineTypes
<1>8. CASE UNCHANGED pipelineVars
  <2>1. PipelineTypes'
    BY <1>8 DEF pipelineVars, PipelineInv, PipelineTypes
  <2> QED BY <1>8, <2>1, SilentStep DEF pipelineVars, sinkVars
<1> QED BY <1>1, <1>2, <1>3, <1>4, <1>5, <1>6, <1>7, <1>8 DEF PipelineNext

\* Below the committed offset no sample is missing from the table, and none is
\* there more often than the sink was started.  (flush.)
THEOREM NothingIsLost == PipelineSpec => []WrittenBelowOffset
<1>1. PipelineInit => PipelineInv
  BY PipelineStart, PipelineAssumption
<1>2. PipelineInv /\ [PipelineNext]_pipelineVars => PipelineInv'
  BY PipelineStep
<1>3. PipelineInv => WrittenBelowOffset
  <2> SUFFICES ASSUME PipelineInv, NEW o \in DOMAIN raw
               PROVE  /\ raw[o] \in SampleRecord /\ o <= offset => metrics[o] > 0
                      /\ metrics[o] <= sinkCrashes + 1
                      /\ raw[o] \notin SampleRecord => metrics[o] = 0
    BY DEF WrittenBelowOffset
  <2>1. o \in 1..Len(raw) /\ sinkCrashes \in Nat /\ metrics[o] \in Nat
    BY ElementOfSeq DEF PipelineInv, PipelineTypes
  <2>2. CopiesOf(o)
    BY <2>1 DEF PipelineInv
  <2> QED BY <2>1, <2>2 DEF CopiesOf, Written
<1> QED BY <1>1, <1>2, <1>3, PTL DEF PipelineSpec

-----------------------------------------------------------------------------
(* The pace.                                                               *)

\* The next slot lies an interval behind every slot handed out, and the time
\* of the last attempt is the last of the attempts: what the two locks keep.
PacingInv ==
  /\ PacingTypeOK
  /\ \A i \in DOMAIN grants : grants[i].slot + Interval <= nextSlot
  /\ attempts # <<>> /\ attempted = attempts[Len(attempts)].at
  /\ OfferedLoadIsFlat

\* Workers are inside their types whatever a step makes of one of them.
LEMMA WorkerTyped ==
  ASSUME PacingTypeOK, NEW w \in Workers,
         NEW p \in {"browse", "send", "catalogue", "fetch", "buy"}, NEW t \in Nat
  PROVE  [worker EXCEPT ![w] = [at |-> p, until |-> t]]
           \in [Workers -> [at : {"browse", "send", "catalogue", "fetch", "buy"}, until : Nat]]
BY DEF PacingTypeOK

LEMMA PacingStart ==
  ASSUME PacingAssumption, PacingInit PROVE PacingInv
BY DEF PacingAssumption, PacingInit, PacingInv, PacingTypeOK, OfferedLoadIsFlat,
       SlotsAreSpaced, FetchesAreSpaced, Idle

LEMMA AcquireKeepsPace ==
  ASSUME PacingAssumption, PacingInv, NEW w \in Workers, Acquire(w) PROVE PacingInv'
<1> DEFINE slot == IF nextSlot < clock THEN clock ELSE nextSlot
<1> USE DEF PacingAssumption
<1>1. slot \in Nat /\ slot >= clock /\ slot >= nextSlot /\ clock \in Nat /\ nextSlot \in Nat /\ Interval \in Nat
  BY DEF PacingInv, PacingTypeOK
<1>2. CASE Interval = 0
  <2>1. PacingTypeOK'
    BY <1>1, <1>2, WorkerTyped DEF Acquire, PacingInv, PacingTypeOK
  <2> QED BY <2>1, <1>2 DEF Acquire, PacingInv, OfferedLoadIsFlat, SlotsAreSpaced, FetchesAreSpaced
<1>3. CASE Interval # 0
  <2>1. /\ grants' = Append(grants, [asked |-> clock, slot |-> slot])
        /\ nextSlot' = slot + Interval
        /\ worker' = [worker EXCEPT ![w] = [at |-> "send", until |-> slot]]
        /\ UNCHANGED <<clock, stocked, attempted, attempts>>
    BY <1>3 DEF Acquire
  <2> HIDE DEF slot
  <2>2. grants \in Seq([asked : Nat, slot : Nat])
    BY DEF PacingInv, PacingTypeOK
  <2>3. worker' \in [Workers -> [at : {"browse", "send", "catalogue", "fetch", "buy"}, until : Nat]]
    BY <2>1, <1>1, WorkerTyped DEF PacingInv
  <2>4. PacingTypeOK'
    BY <2>1, <2>2, <2>3, <1>1 DEF PacingInv, PacingTypeOK
  <2>5. /\ Len(grants') = Len(grants) + 1 /\ DOMAIN grants = 1..Len(grants) /\ DOMAIN grants' = 1..Len(grants')
        /\ \A i \in 1..Len(grants) : grants'[i] = grants[i] /\ grants[i].slot \in Nat
        /\ grants'[Len(grants) + 1] = [asked |-> clock, slot |-> slot]
        /\ Len(grants) \in Nat
    <3>1. [asked |-> clock, slot |-> slot] \in [asked : Nat, slot : Nat]
      BY <1>1
    <3>2. \A i \in 1..Len(grants) : grants[i] \in [asked : Nat, slot : Nat]
      BY <2>2, ElementOfSeq
    <3>3. \A i \in 1..Len(grants) : grants[i].slot \in Nat
      BY <3>2
    <3> QED BY <2>1, <2>2, <3>1, <3>3, AppendProperties
  <2>6. \A i \in 1..Len(grants) : grants[i].slot + Interval <= nextSlot
    BY <2>5 DEF PacingInv
  <2>7. \A i \in DOMAIN grants' : grants'[i].slot + Interval <= nextSlot'
    BY <2>1, <2>5, <2>6, <1>1
  <2>8. SlotsAreSpaced'
    <3> SUFFICES ASSUME NEW j \in DOMAIN grants'
                 PROVE  /\ grants'[j].slot >= grants'[j].asked
                        /\ \A i \in 1..(j - 1) : grants'[j].slot >= grants'[i].slot + Interval
      BY DEF SlotsAreSpaced
    <3>1. CASE j \in 1..Len(grants)
      BY <3>1, <2>5 DEF PacingInv, OfferedLoadIsFlat, SlotsAreSpaced
    <3>2. CASE j = Len(grants) + 1
      BY <3>2, <2>5, <2>6, <1>1
    <3> QED BY <3>1, <3>2, <2>5
  <2> QED BY <2>1, <2>4, <2>7, <2>8 DEF PacingInv, OfferedLoadIsFlat, FetchesAreSpaced
<1> QED BY <1>2, <1>3

LEMMA RefreshKeepsPace ==
  ASSUME PacingAssumption, PacingInv, NEW w \in Workers, TryRefresh(w) PROVE PacingInv'
<1> DEFINE wait == IF stocked THEN Refresh ELSE EmptyRetry
           record == [at |-> worker[w].until, stocked |-> stocked]
<1>1. worker[w].until \in Nat /\ wait \in Nat /\ attempted \in Int
  BY DEF PacingAssumption, PacingInv, PacingTypeOK
<1>2. worker' \in [Workers -> [at : {"browse", "send", "catalogue", "fetch", "buy"}, until : Nat]]
  <2>1. \E p \in {"browse", "buy", "fetch"} : worker' = [worker EXCEPT ![w] = [at |-> p, until |-> 0]]
    BY DEF TryRefresh, Journey, At
  <2> QED BY <2>1, WorkerTyped DEF PacingInv
<1>3. CASE worker[w].until - attempted < wait
  <2>1. UNCHANGED <<clock, nextSlot, grants, stocked, attempted, attempts>>
    BY <1>3 DEF TryRefresh
  <2> QED BY <2>1, <1>2 DEF PacingInv, PacingTypeOK, OfferedLoadIsFlat, SlotsAreSpaced, FetchesAreSpaced
<1>4. CASE ~(worker[w].until - attempted < wait)
  <2>1. /\ attempted' = worker[w].until
        /\ attempts' = Append(attempts, record)
        /\ UNCHANGED <<clock, nextSlot, grants, stocked>>
    BY <1>4 DEF TryRefresh
  <2>2. attempts \in Seq([at : Int, stocked : BOOLEAN]) /\ record \in [at : Int, stocked : BOOLEAN]
    BY <1>1 DEF PacingInv, PacingTypeOK
  <2>3. /\ Len(attempts') = Len(attempts) + 1 /\ Len(attempts) \in Nat
        /\ \A i \in 1..Len(attempts) : attempts'[i] = attempts[i]
        /\ attempts'[Len(attempts) + 1] = record
        /\ attempts' # <<>>
        /\ attempts' \in Seq([at : Int, stocked : BOOLEAN])
    BY <2>1, <2>2
  <2>4. PacingTypeOK'
    BY <2>1, <2>3, <1>1, <1>2 DEF PacingInv, PacingTypeOK
  <2>5. FetchesAreSpaced'
    <3> SUFFICES ASSUME NEW i \in 2..Len(attempts')
                 PROVE  attempts'[i].at - attempts'[i - 1].at
                          >= IF attempts'[i].stocked THEN Refresh ELSE EmptyRetry
      BY DEF FetchesAreSpaced
    <3>1. CASE i \in 2..Len(attempts)
      <4>1. i \in 1..Len(attempts) /\ i - 1 \in 1..Len(attempts)
        BY <3>1, <2>3
      <4>2. attempts'[i] = attempts[i] /\ attempts'[i - 1] = attempts[i - 1]
        BY <4>1, <2>3
      <4> QED BY <4>2, <3>1 DEF PacingInv, OfferedLoadIsFlat, FetchesAreSpaced
    <3>2. CASE i = Len(attempts) + 1
      <4>1. attempts'[i] = record /\ attempts'[i - 1] = attempts[Len(attempts)]
        BY <3>2, <2>3
      <4>2. attempts'[i - 1].at = attempted
        BY <4>1 DEF PacingInv
      <4>3. worker[w].until - attempted >= wait
        BY <1>1, <1>4
      <4> QED BY <4>1, <4>2, <4>3
    <3> QED BY <3>1, <3>2, <2>3
  <2>6. attempted' = attempts'[Len(attempts')].at
    BY <2>1, <2>3
  <2> QED BY <2>1, <2>3, <2>4, <2>5, <2>6 DEF PacingInv, OfferedLoadIsFlat, SlotsAreSpaced
<1> QED BY <1>3, <1>4

\* Every other step leaves the slots and the attempts alone.
LEMMA OthersKeepPace ==
  ASSUME PacingAssumption, PacingInv, PacingTypeOK',
         UNCHANGED <<nextSlot, grants, attempted, attempts>>
  PROVE  PacingInv'
BY DEF PacingInv, OfferedLoadIsFlat, SlotsAreSpaced, FetchesAreSpaced

\* Slots and fetches stay spaced for any number of workers and any limits: the
\* load offered never makes up for a stall.  (acquire, refresh_catalogue.)
THEOREM LoadStaysFlat == PacingSpec => []OfferedLoadIsFlat
<1>1. ASSUME PacingInv, [PacingNext]_pacingVars PROVE PacingInv'
  <2> USE PacingAssumption
  <2>1. ASSUME NEW w \in Workers, Acquire(w) PROVE PacingInv'
    BY <1>1, <2>1, AcquireKeepsPace
  <2>2. ASSUME NEW w \in Workers, TryRefresh(w) PROVE PacingInv'
    BY <1>1, <2>2, RefreshKeepsPace
  <2>3. ASSUME NEW w \in Workers, Answer(w) PROVE PacingInv'
    <3>1. PICK next \in {"browse", "catalogue"} :
            worker' = [worker EXCEPT ![w] = [at |-> next, until |-> clock]]
      BY <2>3 DEF Answer
    <3>2. PacingTypeOK'
      BY <1>1, <2>3, <3>1, WorkerTyped DEF Answer, PacingInv, PacingTypeOK, PacingAssumption
    <3> QED BY <1>1, <2>3, <3>2, OthersKeepPace DEF Answer
  <2>4. ASSUME NEW w \in Workers, Fetched(w) PROVE PacingInv'
    <3>1. worker' \in [Workers -> [at : {"browse", "send", "catalogue", "fetch", "buy"}, until : Nat]]
      BY <1>1, <2>4, WorkerTyped DEF Fetched, Journey, At, PacingInv
    <3>2. PacingTypeOK'
      BY <1>1, <2>4, <3>1 DEF Fetched, PacingInv, PacingTypeOK
    <3> QED BY <1>1, <2>4, <3>2, OthersKeepPace DEF Fetched
  <2>5. CASE PacingTick
    <3>1. PacingTypeOK'
      BY <1>1, <2>5 DEF PacingTick, PacingInv, PacingTypeOK, PacingAssumption
    <3> QED BY <1>1, <2>5, <3>1, OthersKeepPace DEF PacingTick
  <2>6. CASE UNCHANGED pacingVars
    BY <1>1, <2>6 DEF pacingVars, PacingInv, PacingTypeOK, OfferedLoadIsFlat, SlotsAreSpaced, FetchesAreSpaced
  <2> QED BY <1>1, <2>1, <2>2, <2>3, <2>4, <2>5, <2>6 DEF PacingNext
<1>2. PacingInit => PacingInv
  BY PacingStart, PacingAssumption
<1>3. PacingInv => OfferedLoadIsFlat
  BY DEF PacingInv
<1> QED BY <1>1, <1>2, <1>3, PTL DEF PacingSpec

-----------------------------------------------------------------------------
(* The counters.                                                           *)

\* Between two of the five calls: an order that is answered and not yet
\* counted has its place in what the counter may reach, the set of such orders
\* is finite, and the pruner's number is one.
CountersInv ==
  /\ IsFiniteSet(buying)
  /\ IsFiniteSet(documents)
  /\ pruner = [at |-> pruner.at, excess |-> pruner.excess,
               oldest |-> pruner.oldest, crossed |-> pruner.crossed]
  /\ pruner.excess \in Nat
  /\ counted \in [orders : Nat, pruned : Nat]
  /\ run \in [orders : Nat, pruned : Nat, lost : Nat]
  /\ counted.orders + Cardinality(buying) <= run.orders
  /\ counted.pruned + Uncounted + run.lost = run.pruned

LEMMA CountersStart ==
  ASSUME OrdersInit PROVE CountersInv
BY FS_EmptySet DEF OrdersInit, CountersInv, NoPrune, Uncounted

LEMMA PlaceOrderCounts ==
  ASSUME CountersInv, NEW b \in Buyers, PlaceOrder(b) PROVE CountersInv'
<1>1. IsFiniteSet(documents')
  BY FS_AddElement DEF CountersInv, PlaceOrder
<1>2. /\ run' = [orders |-> run.orders + 1, pruned |-> run.pruned, lost |-> run.lost]
      /\ UNCHANGED <<pruner, counted>>
  BY DEF PlaceOrder, CountersInv
<1>3. /\ IsFiniteSet(buying') /\ Cardinality(buying') \in Nat
      /\ Cardinality(buying') <= Cardinality(buying) + 1
  <2>1. Cardinality(buying) \in Nat
    BY FS_CardinalityType DEF CountersInv
  <2>2. CASE buying' = buying
    BY <2>1, <2>2 DEF CountersInv
  <2>3. CASE buying' = buying \cup {b}
    <3>1. IsFiniteSet(buying) /\ b \notin buying
      BY DEF CountersInv, PlaceOrder
    <3>2. IsFiniteSet(buying \cup {b}) /\ Cardinality(buying \cup {b}) = Cardinality(buying) + 1
      BY <3>1, FS_AddElement
    <3> QED BY <2>1, <2>3, <3>2
  <2> QED BY <2>2, <2>3 DEF PlaceOrder
<1>4. Cardinality(buying) \in Nat
  BY FS_CardinalityType DEF CountersInv
<1> QED BY <1>1, <1>2, <1>3, <1>4 DEF CountersInv, Uncounted

LEMMA CountOrderCounts ==
  ASSUME CountersInv, NEW b \in Buyers, CountOrder(b) PROVE CountersInv'
<1>1. /\ IsFiniteSet(buying') /\ Cardinality(buying') = Cardinality(buying) - 1
  BY FS_RemoveElement DEF CountersInv, CountOrder
<1>2. Cardinality(buying) \in Nat /\ Cardinality(buying') \in Nat
  BY <1>1, FS_CardinalityType DEF CountersInv
<1>3. /\ counted' = [orders |-> counted.orders + 1, pruned |-> counted.pruned]
      /\ UNCHANGED <<documents, pruner, run>>
  BY DEF CountOrder, CountersInv
<1> QED BY <1>1, <1>2, <1>3 DEF CountersInv, Uncounted

\* The steps of the pruner, each with what it leaves to be counted.
LEMMA PruneCounts ==
  ASSUME OrdersAssumption, CountersInv,
         PruneCount \/ PruneFind \/ PruneDelete \/ CountPruned \/ PruneFails
  PROVE  CountersInv'
<1>1. /\ NoPrune.at = "rest" /\ NoPrune.excess = 0
      /\ NoPrune = [at |-> NoPrune.at, excess |-> NoPrune.excess,
                    oldest |-> NoPrune.oldest, crossed |-> NoPrune.crossed]
  BY DEF NoPrune
<1>2. Cardinality(documents) \in Nat
  BY FS_CardinalityType DEF CountersInv
<1>3. CASE PruneCount
  <2>1. Cardinality(documents) - MaxDocuments \in Nat
    BY <1>2, <1>3 DEF PruneCount, OrdersAssumption
  <2>2. pruner' = [at |-> "find", excess |-> Cardinality(documents) - MaxDocuments,
                   oldest |-> {}, crossed |-> FALSE]
    BY <1>3 DEF PruneCount, NoPrune
  <2>3. Uncounted = 0 /\ Uncounted' = 0
    BY <1>3, <2>2 DEF PruneCount, Uncounted
  <2> QED BY <1>3, <2>1, <2>2, <2>3 DEF PruneCount, CountersInv
<1>4. CASE PruneFind
  <2>1. Uncounted = 0
    BY <1>4 DEF PruneFind, Uncounted
  <2>2. CASE documents = {}
    <3>1. pruner' = NoPrune
      BY <1>4, <2>2 DEF PruneFind
    <3>2. Uncounted' = 0
      BY <1>1, <3>1 DEF Uncounted
    <3>3. UNCHANGED <<documents, buying, counted, run>>
      BY <1>4 DEF PruneFind
    <3> QED BY <1>1, <2>1, <3>1, <3>2, <3>3 DEF CountersInv
  <2>3. CASE documents # {}
    <3>1. pruner' = [at |-> "delete", excess |-> pruner.excess,
                     oldest |-> Oldest(pruner.excess), crossed |-> pruner.crossed]
      BY <1>4, <2>3 DEF PruneFind, CountersInv
    <3>2. Uncounted' = 0
      BY <3>1 DEF Uncounted
    <3> QED BY <1>4, <2>1, <3>1, <3>2 DEF PruneFind, CountersInv
  <2> QED BY <2>2, <2>3
<1>5. CASE PruneDelete
  <2> DEFINE gone == Cardinality(documents \cap pruner.oldest)
  <2>1. IsFiniteSet(documents \cap pruner.oldest) /\ IsFiniteSet(documents \ pruner.oldest)
    BY FS_Subset DEF CountersInv
  <2>2. gone \in Nat
    BY <2>1, FS_CardinalityType
  <2>3. /\ pruner' = [at |-> "count", excess |-> gone, oldest |-> {}, crossed |-> FALSE]
        /\ run' = [orders |-> run.orders, pruned |-> run.pruned + gone, lost |-> run.lost]
        /\ UNCHANGED <<buying, counted>>
        /\ documents' = documents \ pruner.oldest
    BY <1>5 DEF PruneDelete, NoPrune, CountersInv
  <2>4. Uncounted = 0
    BY <1>5 DEF PruneDelete, Uncounted
  <2> HIDE DEF gone
  <2>5. Uncounted' = gone
    BY <2>3 DEF Uncounted
  <2>6. /\ run' \in [orders : Nat, pruned : Nat, lost : Nat]
        /\ counted'.pruned + Uncounted' + run'.lost = run'.pruned
        /\ run'.orders = run.orders
    BY <2>2, <2>3, <2>4, <2>5 DEF CountersInv
  <2> QED BY <2>1, <2>2, <2>3, <2>6 DEF CountersInv
<1>6. CASE CountPruned
  <2>1. /\ counted' = [orders |-> counted.orders, pruned |-> counted.pruned + pruner.excess]
        /\ pruner' = NoPrune
        /\ UNCHANGED <<documents, buying, run>>
    BY <1>6 DEF CountPruned, CountersInv
  <2>2. Uncounted = pruner.excess /\ Uncounted' = 0
    BY <1>1, <1>6, <2>1 DEF CountPruned, Uncounted
  <2> QED BY <1>1, <2>1, <2>2 DEF CountersInv
<1>7. CASE PruneFails
  <2>1. PICK gone \in SUBSET (documents \cap pruner.oldest) :
          /\ documents' = documents \ gone
          /\ run' = [run EXCEPT !.pruned = @ + Cardinality(gone), !.lost = @ + Cardinality(gone)]
    BY <1>7 DEF PruneFails
  <2>2. Cardinality(gone) \in Nat /\ IsFiniteSet(documents')
    BY <2>1, FS_Subset, FS_CardinalityType DEF CountersInv
  <2>3. PICK n \in Nat : n = Cardinality(gone)
    BY <2>2
  <2>4. run' = [orders |-> run.orders, pruned |-> run.pruned + n, lost |-> run.lost + n]
    BY <2>1, <2>3 DEF CountersInv
  <2>5. pruner' = NoPrune /\ Uncounted = 0 /\ Uncounted' = 0 /\ UNCHANGED <<buying, counted>>
    BY <1>1, <1>7 DEF PruneFails, Uncounted
  <2>6. /\ run' \in [orders : Nat, pruned : Nat, lost : Nat] /\ run'.orders = run.orders
        /\ counted.pruned + 0 + run'.lost = run'.pruned
    BY <2>4, <2>5 DEF CountersInv
  <2> QED BY <1>1, <2>2, <2>5, <2>6 DEF CountersInv
<1> QED BY <1>3, <1>4, <1>5, <1>6, <1>7

LEMMA ResetCounts ==
  ASSUME CountersInv, ClearHistory \/ ResetFails \/ ZeroCounters PROVE CountersInv'
<1>1. CASE ClearHistory \/ ResetFails
  <2>1. /\ pruner' = [at |-> pruner.at, excess |-> pruner.excess, oldest |-> pruner.oldest,
                      crossed |-> pruner.at \in {"find", "delete"}]
        /\ documents' \in SUBSET documents /\ UNCHANGED <<buying, counted, run>>
    BY <1>1 DEF ClearHistory, ResetFails, CountersInv
  <2>2. Uncounted' = Uncounted
    BY <2>1 DEF Uncounted
  <2> QED BY <2>1, <2>2, FS_Subset DEF CountersInv
<1>2. CASE ZeroCounters
  <2>1. Cardinality(buying) \in Nat /\ Uncounted \in Nat
    BY FS_CardinalityType DEF CountersInv, Uncounted
  <2>2. /\ counted' = [orders |-> 0, pruned |-> 0]
        /\ run' = [orders |-> Cardinality(buying), pruned |-> Uncounted, lost |-> 0]
        /\ UNCHANGED <<documents, buying, pruner>>
    BY <1>2 DEF ZeroCounters
  <2>3. Uncounted' = Uncounted
    BY <2>2 DEF Uncounted
  <2> QED BY <2>1, <2>2, <2>3 DEF CountersInv
<1> QED BY <1>1, <1>2

LEMMA CountersStep ==
  ASSUME CountersInv, [OrdersNext]_ordersVars PROVE CountersInv'
<1>1. CASE UNCHANGED ordersVars
  BY <1>1 DEF ordersVars, CountersInv, Uncounted
<1>2. CASE OrdersNext
  BY <1>2, OrdersAssumption, PlaceOrderCounts, CountOrderCounts, PruneCounts, ResetCounts
  DEF OrdersNext
<1> QED BY <1>1, <1>2

\* After a reset /stats describes the run, for any number of workers, orders,
\* resets and failures of orders-db: no order is counted that the run did not
\* see, and of the orders the pruner deletes those are counted, once, whose
\* delete was answered.  (post_reset.)
THEOREM CountersStayTrue == OrdersSpec => []CountersDescribeTheRun
<1>1. CountersInv /\ [OrdersNext]_ordersVars => CountersInv'
  BY CountersStep
<1>2. CountersInv => CountersDescribeTheRun
  <2> SUFFICES ASSUME CountersInv PROVE CountersDescribeTheRun
    OBVIOUS
  <2>1. Cardinality(buying) \in Nat
    BY FS_CardinalityType DEF CountersInv
  <2> QED BY <2>1 DEF CountersInv, CountersDescribeTheRun
<1>3. OrdersInit => CountersInv
  BY CountersStart
<1> QED BY <1>1, <1>2, <1>3, PTL DEF OrdersSpec

\* The first n of a finite set of numbers, by counting up to the least n there
\* might be none for.
LEMMA OldestExist ==
  ASSUME NEW D \in SUBSET Nat, IsFiniteSet(D), NEW n \in Nat, n <= Cardinality(D)
  PROVE  \E S \in SUBSET D : Cardinality(S) = n /\ \A d \in S, e \in D \ S : d < e
<1> DEFINE First(k, S) == Cardinality(S) = k /\ \A d \in S, e \in D \ S : d < e
           Bad == {k \in Nat : k <= Cardinality(D) /\ ~\E S \in SUBSET D : First(k, S)}
<1>0. Cardinality(D) \in Nat
  BY FS_CardinalityType
<1>1. SUFFICES ASSUME n \in Bad PROVE FALSE
  BY Zenon
<1>2. PICK m \in Bad : \A k \in Bad : m <= k
  <2>1. Bad \in SUBSET Nat /\ Bad # {}
    BY <1>1, Zenon
  <2> HIDE DEF Bad
  <2> QED
    BY <2>1, LeastNatural
<1>3. m \in Nat /\ m <= Cardinality(D) /\ ~\E S \in SUBSET D : First(m, S)
  BY <1>2, Zenon
<1>4. m # 0
  <2>1. {} \in SUBSET D /\ First(0, {})
    BY FS_EmptySet
  <2> QED
    BY <1>3, <2>1, Zenon
<1>5. m - 1 \in Nat /\ m - 1 <= Cardinality(D) /\ ~ (m <= m - 1)
  BY <1>0, <1>3, <1>4
<1>6. m - 1 \notin Bad
  BY <1>2, <1>5, Zenon
<1>7. PICK S \in SUBSET D : First(m - 1, S)
  <2>1. \E S \in SUBSET D : First(m - 1, S)
    BY <1>5, <1>6, Zenon
  <2> QED
    BY <2>1, Zenon
<1>8. IsFiniteSet(S) /\ Cardinality(S) = m - 1 /\ \A d \in S, e \in D \ S : d < e
  BY <1>7, FS_Subset
<1> HIDE DEF Bad
<1>9. D \ S # {}
  <2>1. S # D
    BY <1>0, <1>3, <1>8
  <2> QED
    BY <2>1
<1>10. PICK x \in D \ S : \A e \in D \ S : x <= e
  <2>1. D \ S \in SUBSET Nat
    OBVIOUS
  <2> QED
    BY <1>9, <2>1, LeastNatural
<1>11. Cardinality(S \cup {x}) = m
  <2>1. x \notin S /\ Cardinality(S \cup {x}) = Cardinality(S) + 1
    BY <1>8, FS_AddElement
  <2> QED
    BY <1>3, <1>8, <2>1
<1>12. \A d \in S \cup {x}, e \in D \ (S \cup {x}) : d < e
  <2> TAKE d \in S \cup {x}, e \in D \ (S \cup {x})
  <2>1. e \in D \ S /\ e # x /\ e \in Nat /\ x \in Nat
    OBVIOUS
  <2> QED
    BY <1>8, <1>10, <2>1
<1>13. S \cup {x} \in SUBSET D /\ First(m, S \cup {x})
  BY <1>11, <1>12, Zenon
<1> QED
  BY <1>3, <1>13, Zenon

\* The orders the pruner is about to delete are the oldest, and without them
\* the ceiling is reached still, whatever was placed since it counted them.
NewestInv ==
  /\ CountersInv
  /\ placed \in Nat /\ documents \subseteq 1..placed
  /\ pruner.at = "find" => pruner.oldest = {}
  /\ pruner.at = "find" /\ ~pruner.crossed => pruner.excess + MaxDocuments <= Cardinality(documents)
  /\ pruner.at = "delete" /\ ~pruner.crossed =>
       /\ pruner.oldest \subseteq documents
       /\ Cardinality(pruner.oldest) + MaxDocuments <= Cardinality(documents)
       /\ \A old \in pruner.oldest, left \in documents \ pruner.oldest : old < left

LEMMA OldestAre ==
  ASSUME documents \in SUBSET Nat, IsFiniteSet(documents), NEW n \in Nat, n <= Cardinality(documents)
  PROVE  /\ Oldest(n) \subseteq documents /\ Cardinality(Oldest(n)) = n
         /\ \A old \in Oldest(n), left \in documents \ Oldest(n) : old < left
<1> DEFINE size == IF n < Cardinality(documents) THEN n ELSE Cardinality(documents)
<1>1. size = n
  BY FS_CardinalityType
<1> HIDE DEF size
<1>2. \E S \in SUBSET documents : Cardinality(S) = size /\ \A d \in S, e \in documents \ S : d < e
  BY <1>1, OldestExist
<1>3. Oldest(n) = CHOOSE S \in SUBSET documents : Cardinality(S) = size /\ \A d \in S, e \in documents \ S : d < e
  BY Zenon DEF Oldest, size
<1>4. /\ Oldest(n) \in SUBSET documents
      /\ Cardinality(Oldest(n)) = size /\ \A d \in Oldest(n), e \in documents \ Oldest(n) : d < e
  BY <1>2, <1>3, Zenon
<1> QED
  BY <1>1, <1>4

LEMMA PrunerResting ==
  ASSUME CountersInv', placed' \in Nat, documents' \subseteq 1..placed', pruner'.at \notin {"find", "delete"}
  PROVE  NewestInv'
BY DEF NewestInv

LEMMA NewestStep ==
  ASSUME OrdersAssumption, NewestInv, CountersInv', [OrdersNext]_ordersVars PROVE NewestInv'
<1>0. /\ CountersInv /\ placed \in Nat /\ documents \subseteq 1..placed /\ Cardinality(documents) \in Nat
      /\ MaxDocuments \in Nat /\ IsFiniteSet(documents)
  BY FS_CardinalityType DEF NewestInv, CountersInv, OrdersAssumption
<1>1. ASSUME NEW b \in Buyers, PlaceOrder(b) PROVE NewestInv'
  <2>1. documents' = documents \cup {placed + 1} /\ placed' = placed + 1 /\ pruner' = pruner
    BY <1>1 DEF PlaceOrder
  <2>2. placed + 1 \notin documents /\ \A d \in documents : d \in Nat /\ d < placed + 1
    BY <1>0
  <2>3. Cardinality(documents') = Cardinality(documents) + 1
    BY <1>0, <2>1, <2>2, FS_AddElement
  <2>4. placed' \in Nat /\ documents' \subseteq 1..placed'
    BY <1>0, <2>1
  <2>5. (pruner.at = "find" /\ ~pruner.crossed => pruner.excess + MaxDocuments <= Cardinality(documents))'
    <3>1. pruner.excess \in Nat
      BY <1>0 DEF CountersInv
    <3> QED
      BY <1>0, <2>1, <2>3, <3>1 DEF NewestInv
  <2>6. ASSUME pruner'.at = "delete", ~pruner'.crossed
        PROVE  /\ pruner'.oldest \subseteq documents'
               /\ Cardinality(pruner'.oldest) + MaxDocuments <= Cardinality(documents')
               /\ \A old \in pruner'.oldest, left \in documents' \ pruner'.oldest : old < left
    <3>1. /\ pruner.oldest \subseteq documents
          /\ Cardinality(pruner.oldest) + MaxDocuments <= Cardinality(documents)
          /\ \A old \in pruner.oldest, left \in documents \ pruner.oldest : old < left
      BY <2>1, <2>6 DEF NewestInv
    <3>2. Cardinality(pruner.oldest) \in Nat
      BY <1>0, <3>1, FS_Subset, FS_CardinalityType
    <3>3. Cardinality(pruner.oldest) + MaxDocuments <= Cardinality(documents')
      BY <1>0, <2>3, <3>1, <3>2
    <3>4. ASSUME NEW old \in pruner.oldest, NEW left \in documents' \ pruner.oldest PROVE old < left
      <4>1. left \in documents \ pruner.oldest \/ left = placed + 1
        BY <2>1
      <4> QED
        BY <2>2, <3>1, <4>1
    <3> QED
      BY <2>1, <3>1, <3>3, <3>4
  <2> QED
    BY <2>1, <2>4, <2>5, <2>6 DEF NewestInv
<1>2. ASSUME NEW b \in Buyers, CountOrder(b) PROVE NewestInv'
  BY <1>2 DEF CountOrder, NewestInv
<1>3. CASE PruneCount
  <2>1. pruner' = [at |-> "find", excess |-> Cardinality(documents) - MaxDocuments,
                   oldest |-> {}, crossed |-> FALSE]
    BY <1>3 DEF PruneCount, NoPrune
  <2>2. UNCHANGED <<documents, placed>>
    BY <1>3 DEF PruneCount
  <2>3. /\ pruner'.at = "find" /\ pruner'.oldest = {}
        /\ pruner'.excess + MaxDocuments <= Cardinality(documents')
    BY <1>0, <2>1, <2>2
  <2> QED
    BY <2>2, <2>3 DEF NewestInv
<1>4. CASE PruneFind
  <2>1. UNCHANGED <<documents, placed>>
    BY <1>4 DEF PruneFind
  <2>2. CASE documents = {}
    <3>1. pruner'.at = "rest"
      BY <1>4, <2>2 DEF PruneFind, NoPrune
    <3> QED
      BY <1>0, <2>1, <3>1, PrunerResting
  <2>3. CASE documents # {}
    <3>1. pruner' = [at |-> "delete", excess |-> pruner.excess,
                     oldest |-> Oldest(pruner.excess), crossed |-> pruner.crossed]
      BY <1>0, <1>4, <2>3 DEF PruneFind, CountersInv
    <3>2. pruner'.at = "delete" /\ pruner'.oldest = Oldest(pruner.excess) /\ pruner'.crossed = pruner.crossed
      BY <3>1, Zenon
    <3>3. ASSUME ~pruner.crossed
          PROVE  /\ Oldest(pruner.excess) \subseteq documents
                 /\ Cardinality(Oldest(pruner.excess)) + MaxDocuments <= Cardinality(documents)
                 /\ \A old \in Oldest(pruner.excess), left \in documents \ Oldest(pruner.excess) : old < left
      <4>1. PICK n \in Nat : n = pruner.excess
        BY <1>0 DEF CountersInv
      <4>2. n + MaxDocuments <= Cardinality(documents)
        BY <1>4, <3>3, <4>1 DEF PruneFind, NewestInv
      <4>3. n <= Cardinality(documents) /\ documents \in SUBSET Nat
        BY <1>0, <4>2
      <4>4. /\ Oldest(n) \subseteq documents /\ Cardinality(Oldest(n)) = n
            /\ \A old \in Oldest(n), left \in documents \ Oldest(n) : old < left
        BY <1>0, <4>3, OldestAre
      <4> QED
        BY <4>1, <4>2, <4>4
    <3>4. documents' = documents /\ placed' = placed
      BY <2>1
    <3> QED
      BY <1>0, <3>2, <3>3, <3>4 DEF NewestInv
  <2> QED
    BY <2>2, <2>3
<1>5. CASE PruneDelete
  <2>1. pruner'.at = "count" /\ documents' \subseteq documents /\ placed' = placed
    BY <1>5 DEF PruneDelete, NoPrune
  <2> QED
    BY <1>0, <2>1, PrunerResting
<1>6. CASE CountPruned \/ PruneFails
  <2>1. pruner' = NoPrune /\ documents' \subseteq documents /\ placed' = placed
    BY <1>6 DEF CountPruned, PruneFails
  <2>2. pruner'.at = "rest"
    BY <2>1 DEF NoPrune
  <2>3. placed' \in Nat /\ documents' \subseteq 1..placed'
    BY <1>0, <2>1
  <2>4. pruner'.at \notin {"find", "delete"}
    BY <2>2
  <2> QED
    BY <2>3, <2>4, PrunerResting
<1>7. CASE ClearHistory \/ ResetFails
  <2>1. pruner' = [at |-> pruner.at, excess |-> pruner.excess, oldest |-> pruner.oldest,
                   crossed |-> pruner.at \in {"find", "delete"}]
    BY <1>0, <1>7 DEF ClearHistory, ResetFails, CountersInv
  <2>2. pruner'.at \in {"find", "delete"} => pruner'.crossed
    BY <2>1
  <2>3. documents' \subseteq documents /\ placed' = placed
    BY <1>7 DEF ClearHistory, ResetFails
  <2>4. pruner'.at = "find" => pruner'.oldest = {}
    BY <2>1 DEF NewestInv
  <2> QED
    BY <1>0, <2>2, <2>3, <2>4 DEF NewestInv
<1>8. CASE ZeroCounters
  BY <1>8 DEF ZeroCounters, NewestInv
<1>9. CASE UNCHANGED ordersVars
  BY <1>9 DEF ordersVars, NewestInv
<1> QED
  BY <1>1, <1>2, <1>3, <1>4, <1>5, <1>6, <1>7, <1>8, <1>9 DEF OrdersNext

\* What a delete leaves, or a part of one: all that are not among the oldest,
\* which are as many as the ceiling and newer than any of these.
LEMMA DeletionLeavesNewest ==
  ASSUME OrdersAssumption, NewestInv, PruneDelete \/ PruneFails, ~pruner.crossed
  PROVE  NewestAreLeft
<1> SUFFICES ASSUME NEW gone \in documents \ documents'
             PROVE  Cardinality({left \in documents' : gone < left}) >= MaxDocuments
  BY DEF NewestAreLeft
<1>1. /\ IsFiniteSet(documents) /\ Cardinality(documents) \in Nat /\ MaxDocuments \in Nat
      /\ documents' \subseteq documents /\ documents \ documents' \subseteq pruner.oldest
  BY FS_CardinalityType DEF NewestInv, CountersInv, PruneDelete, PruneFails, OrdersAssumption
<1>2. pruner.at = "delete"
  BY <1>1 DEF NewestInv, PruneDelete, PruneFails
<1>3. /\ pruner.oldest \subseteq documents
      /\ Cardinality(pruner.oldest) + MaxDocuments <= Cardinality(documents)
      /\ \A old \in pruner.oldest, left \in documents \ pruner.oldest : old < left
  BY <1>2 DEF NewestInv
<1>4. Cardinality(pruner.oldest) \in Nat
  BY <1>1, <1>3, FS_Subset, FS_CardinalityType
<1>5. Cardinality(documents \ pruner.oldest) = Cardinality(documents) - Cardinality(pruner.oldest)
  <2>1. documents \cap pruner.oldest = pruner.oldest
    BY <1>3
  <2> QED
    BY <1>1, <2>1, FS_Difference
<1> DEFINE Newer == {left \in documents' : gone < left}
<1>6. documents \ pruner.oldest \in SUBSET Newer /\ Newer \in SUBSET documents
  BY <1>1, <1>3
<1> HIDE DEF Newer
<1>7. Cardinality(documents \ pruner.oldest) <= Cardinality(Newer) /\ Cardinality(Newer) \in Nat
  BY <1>1, <1>6, FS_Subset, FS_CardinalityType
<1>8. Cardinality(Newer) >= MaxDocuments
  BY <1>1, <1>3, <1>4, <1>5, <1>7
<1> QED
  BY <1>8 DEF Newer

\* A round of the pruner that no reset crosses leaves the newest orders, as many
\* as the ceiling allows, for any number placed between its three calls and
\* wherever its delete fails.
THEOREM PrunerKeepsNewest == OrdersSpec => PruneKeepsNewest
<1> DEFINE Keeps == (PruneDelete \/ PruneFails) /\ ~pruner.crossed => NewestAreLeft
<1>1. OrdersInit => NewestInv
  <2> SUFFICES ASSUME OrdersInit PROVE NewestInv
    OBVIOUS
  <2>1. pruner.at = "rest" /\ placed = 0 /\ documents = {}
    BY DEF OrdersInit, NoPrune
  <2> QED
    BY <2>1, CountersStart DEF NewestInv
<1>2. NewestInv /\ CountersInv' /\ [OrdersNext]_ordersVars => NewestInv'
  BY NewestStep, OrdersAssumption
<1>3. OrdersInit => CountersInv
  BY CountersStart
<1>4. CountersInv /\ [OrdersNext]_ordersVars => CountersInv'
  BY CountersStep
<1>5. NewestInv /\ [OrdersNext]_ordersVars => [Keeps]_ordersVars
  BY DeletionLeavesNewest, OrdersAssumption
<1> HIDE DEF Keeps
<1>6. OrdersSpec => [][Keeps]_ordersVars
  BY <1>1, <1>2, <1>3, <1>4, <1>5, PTL DEF OrdersSpec
<1> QED
  BY <1>6 DEF PruneKeepsNewest, Keeps

-----------------------------------------------------------------------------
(* The deploy emitter.                                                     *)

\* A thread that has to publish holds a row of the table that no event is about
\* yet; rows are numbered by a sequence, so no two are one.
Pending(d) == deployer[d].at = "publish"

RowsAreNumbered ==
  /\ \A i \in DOMAIN deploys : deploys[i].id <= sequence
  /\ \A i, j \in DOMAIN deploys : deploys[i].id = deploys[j].id => i = j
  /\ \A d \in Deployers : Pending(d) => \E k \in DOMAIN deploys : deploys[k] = deployer[d].row
  /\ \A d, e \in Deployers : Pending(d) /\ Pending(e) /\ deployer[d].row.id = deployer[e].row.id => d = e
  /\ \A d \in Deployers, i \in DOMAIN events : Pending(d) => events[i].id # deployer[d].row.id

\* A version that was computed follows from the rows there were.
Follows(r) == r.computed => r.version = NextVersion(r.service, r.seen)

VersionsFollow ==
  /\ \A i \in DOMAIN deploys : deploys[i].seen < i /\ Follows(deploys[i])
  /\ \A d \in Deployers : deployer[d].at = "insert" =>
       deployer[d].seen <= Len(deploys) /\ Follows(deployer[d])

DeployInv == DeployTypeOK /\ RowsAreNumbered /\ VersionsFollow /\ EventsAreRows /\ VersionsAdvance

-----------------------------------------------------------------------------
LEMMA RowsTyped ==
  ASSUME DeployTypeOK
  PROVE  /\ Len(deploys) \in Nat /\ DOMAIN deploys = 1..Len(deploys)
         /\ \A i \in 1..Len(deploys) :
              /\ deploys[i] \in Deploy /\ deploys[i].id \in Nat /\ deploys[i].service \in Deployed
              /\ deploys[i].version \in Versions /\ deploys[i].seen \in Nat
         /\ Len(events) \in Nat /\ DOMAIN events = 1..Len(events) /\ sequence \in Nat
<1>1. deploys \in Seq(Deploy) /\ events \in Seq(Deploy) /\ sequence \in Nat
  BY DEF DeployTypeOK
<1>2. \A i \in 1..Len(deploys) : deploys[i] \in Deploy
  <2> HIDE DEF Deploy
  <2> QED BY <1>1
<1> QED
  BY <1>1, <1>2 DEF Deploy

LEMMA LatestRow ==
  ASSUME DeployTypeOK, NEW s, NEW n \in 0..Len(deploys), RowsOf(s, n) # {}
  PROVE  /\ Max(RowsOf(s, n)) \in 1..n /\ deploys[Max(RowsOf(s, n))].service = s
         /\ \A i \in RowsOf(s, n) : i <= Max(RowsOf(s, n))
         /\ Max(RowsOf(s, n)) \in Nat /\ Max(RowsOf(s, n)) \in 1..Len(deploys)
<1>1. RowsOf(s, n) \in SUBSET Nat /\ n \in Nat /\ n <= Len(deploys) /\ \A i \in RowsOf(s, n) : i <= n
  BY RowsTyped DEF RowsOf
<1>2. Max(RowsOf(s, n)) \in RowsOf(s, n) /\ Max(RowsOf(s, n)) \in Nat /\ \A i \in RowsOf(s, n) : i <= Max(RowsOf(s, n))
  BY <1>1, GreatestNatural
<1>3. Max(RowsOf(s, n)) \in 1..n /\ deploys[Max(RowsOf(s, n))].service = s
  BY <1>2 DEF RowsOf
<1> QED
  BY <1>1, <1>2, <1>3, RowsTyped

\* The version that follows only depends on the rows it is computed from.
LEMMA VersionStays ==
  ASSUME DeployTypeOK, NEW row, deploys' = Append(deploys, row), NEW s, NEW n \in 0..Len(deploys)
  PROVE  NextVersion(s, n)' = NextVersion(s, n)
<1>1. \A i \in 1..n : deploys'[i] = deploys[i]
  BY RowsTyped DEF DeployTypeOK
<1>2. RowsOf(s, n)' = RowsOf(s, n)
  BY <1>1 DEF RowsOf
<1>3. CASE RowsOf(s, n) = {}
  BY <1>2, <1>3 DEF NextVersion
<1>4. CASE RowsOf(s, n) # {}
  <2>1. deploys'[Max(RowsOf(s, n))] = deploys[Max(RowsOf(s, n))]
    BY <1>1, <1>4, LatestRow
  <2> QED
    BY <1>2, <1>4, <2>1 DEF NextVersion
<1> QED
  BY <1>3, <1>4

LEMMA FollowsStays ==
  ASSUME DeployTypeOK, NEW row, deploys' = Append(deploys, row) \/ deploys' = deploys,
         NEW r, r.seen \in 0..Len(deploys), Follows(r)
  PROVE  Follows(r)'
<1>1. CASE deploys' = Append(deploys, row)
  BY <1>1, VersionStays DEF Follows
<1>2. CASE deploys' = deploys
  BY <1>2 DEF Follows, NextVersion, RowsOf
<1> QED
  BY <1>1, <1>2

\* What one says of a value holds of the expression that has it.
LEMMA FollowsOfRow ==
  ASSUME NEW i, NEW r, r = deploys'[i], Follows(r)' PROVE Follows(deploys[i])'
BY DEF Follows, NextVersion, RowsOf

LEMMA FollowsOfDeployer ==
  ASSUME NEW d, NEW r, r = deployer'[d], Follows(r)' PROVE Follows(deployer[d])'
BY DEF Follows, NextVersion, RowsOf

LEMMA VersionTyped ==
  ASSUME DeployAssumption, DeployTypeOK, NEW s, NEW n \in 0..Len(deploys)
  PROVE  NextVersion(s, n) \in Nat
<1>1. CASE RowsOf(s, n) = {}
  BY <1>1 DEF NextVersion
<1>2. CASE RowsOf(s, n) # {}
  <2>1. deploys[Max(RowsOf(s, n))].version \in Versions
    BY <1>2, LatestRow, RowsTyped
  <2>2. Following(deploys[Max(RowsOf(s, n))].version) \in Nat
    BY <2>1 DEF Following, Versions
  <2> QED
    BY <1>2, <2>2 DEF NextVersion
<1> QED
  BY <1>1, <1>2

LEMMA DeployerTyped ==
  ASSUME DeployAssumption, DeployTypeOK, NEW d \in Deployers
  PROVE  /\ deployer[d].at = "version" =>
              /\ deployer[d] \in [at : {"version"}, service : Deployed, version : {Computed},
                                  computed : BOOLEAN, seen : Nat]
         /\ deployer[d].at = "insert" =>
              /\ deployer[d].service \in Deployed /\ deployer[d].version \in Versions
              /\ deployer[d].computed \in BOOLEAN /\ deployer[d].seen \in Nat
         /\ Pending(d) => deployer[d].row \in Deploy /\ deployer[d].row.id \in Nat
         /\ deployer[d].at \in {"rest", "version", "insert", "publish"}
<1>1. deployer[d] \in {AtRest} \cup Asked \cup [at : {"publish"}, row : Deploy]
  BY DEF DeployTypeOK
<1>2. \A row \in Deploy : row.id \in Nat
  BY DEF Deploy
<1> QED
  BY <1>1, <1>2 DEF AtRest, Asked, Pending

LEMMA DeployStart ==
  ASSUME DeployAssumption, DeployInit PROVE DeployInv
<1> USE DEF DeployInit
<1>1. DeployTypeOK
  BY DEF DeployTypeOK
<1>2. \A d \in Deployers : deployer[d].at = "rest"
  BY DEF AtRest
<1>3. RowsAreNumbered /\ VersionsFollow
  BY <1>2 DEF RowsAreNumbered, VersionsFollow, Pending
<1>4. EventsAreRows /\ VersionsAdvance
  BY DEF EventsAreRows, VersionsAdvance
<1> QED
  BY <1>1, <1>3, <1>4 DEF DeployInv

\* A step that leaves the table and the events alone, and takes at most one
\* thread to another place than a publication.
LEMMA TableStays ==
  ASSUME DeployAssumption, DeployInv, DeployTypeOK', UNCHANGED <<deploys, events>>,
         answers' = answers, sequence' \in {sequence, sequence + 1},
         \A d \in Deployers :
            \/ deployer'[d] = deployer[d]
            \/ deployer'[d].at \in {"rest", "version"}
            \/ /\ deployer'[d].at = "insert"
               /\ deployer'[d].seen \in 0..Len(deploys)
               /\ Follows(deployer'[d])
  PROVE  DeployInv'
<1> USE DEF DeployInv
<1>1. EventsAreRows'
  BY DEF EventsAreRows
<1>2. VersionsAdvance'
  BY DEF VersionsAdvance
<1>3. \A d \in Deployers : Pending(d)' => Pending(d) /\ deployer'[d] = deployer[d]
  BY DEF Pending
<1>4. RowsAreNumbered'
  <2>1. \A i \in DOMAIN deploys : deploys[i].id <= sequence'
    BY RowsTyped DEF RowsAreNumbered
  <2> QED
    BY <1>3, <2>1 DEF RowsAreNumbered
<1>5. ASSUME NEW i \in DOMAIN deploys' PROVE deploys'[i].seen < i /\ Follows(deploys[i])'
  <2>1. PICK r : r = deploys[i]
    OBVIOUS
  <2>2. r.seen \in 0..Len(deploys) /\ r.seen < i /\ Follows(r)
    BY <2>1, RowsTyped DEF VersionsFollow
  <2>3. Follows(r)'
    BY <2>2, FollowsStays
  <2> QED
    BY <2>1, <2>2, <2>3, FollowsOfRow
<1>6. ASSUME NEW d \in Deployers, deployer'[d].at = "insert"
      PROVE  deployer'[d].seen <= Len(deploys') /\ Follows(deployer[d])'
  <2>1. PICK r : r = deployer'[d]
    OBVIOUS
  <2>2. r.seen \in 0..Len(deploys) /\ Follows(r)
    <3>1. CASE deployer'[d] = deployer[d]
      BY <1>6, <2>1, <3>1, DeployerTyped, RowsTyped DEF VersionsFollow
    <3>2. CASE deployer'[d] # deployer[d]
      BY <1>6, <2>1, <3>2
    <3> QED
      BY <3>1, <3>2
  <2>3. Follows(r)'
    BY <2>2, FollowsStays
  <2>4. Follows(deployer[d])'
    BY <2>1, <2>3, FollowsOfDeployer
  <2> QED
    BY <2>1, <2>2, <2>4, RowsTyped
<1>7. VersionsFollow'
  BY <1>5, <1>6 DEF VersionsFollow
<1> QED
  BY <1>1, <1>2, <1>4, <1>7

LEMMA InsertedRow ==
  ASSUME DeployAssumption, DeployInv, NEW d \in Deployers, InsertDeploy(d)
  PROVE  \E row \in Deploy :
           /\ row.id = sequence + 1 /\ row.service = deployer[d].service
           /\ row.version = deployer[d].version /\ row.computed = deployer[d].computed
           /\ row.seen = deployer[d].seen /\ row.seen \in 0..Len(deploys)
           /\ Follows(row)
           /\ deploys' = Append(deploys, row) /\ sequence' = sequence + 1
           /\ deployer' = [deployer EXCEPT ![d] = [at |-> "publish", row |-> row]]
           /\ deployer[d].at = "insert"
           /\ UNCHANGED <<events, connected, answers, deployFaults>>
<1> DEFINE row == [id |-> sequence + 1, service |-> deployer[d].service, version |-> deployer[d].version,
                   computed |-> deployer[d].computed, seen |-> deployer[d].seen]
<1>1. deployer[d].at = "insert" /\ deploys' = Append(deploys, row) /\ sequence' = sequence + 1
      /\ deployer' = [deployer EXCEPT ![d] = [at |-> "publish", row |-> row]]
      /\ UNCHANGED <<events, connected, answers, deployFaults>>
  BY DEF InsertDeploy
<1>2. /\ deployer[d].service \in Deployed /\ deployer[d].version \in Versions
      /\ deployer[d].computed \in BOOLEAN /\ deployer[d].seen \in Nat
  BY <1>1, DeployerTyped DEF DeployInv
<1>3. sequence + 1 \in Nat
  BY RowsTyped DEF DeployInv
<1>4. row \in Deploy
  BY <1>2, <1>3 DEF Deploy
<1>5. deployer[d].seen \in 0..Len(deploys)
      /\ Follows(deployer[d])
  BY <1>1, <1>2, RowsTyped DEF DeployInv, VersionsFollow
<1>6. /\ row.id = sequence + 1 /\ row.service = deployer[d].service /\ row.version = deployer[d].version
      /\ row.computed = deployer[d].computed /\ row.seen = deployer[d].seen
  OBVIOUS
<1>7. Follows(row)
  BY <1>5 DEF Follows
<1> HIDE DEF row
<1> QED
  BY <1>1, <1>4, <1>5, <1>6, <1>7

\* The row that is inserted after those of its service that it was computed
\* from counts one more than they do.
LEMMA InsertAdvances ==
  ASSUME DeployAssumption, DeployInv, NEW row \in Deploy, deploys' = Append(deploys, row),
         row.seen \in 0..Len(deploys),
         Follows(row)
  PROVE  VersionsAdvance'
<1> USE DEF DeployInv
<1> DEFINE n == Len(deploys)
           s == row.service
           Serial(j) == \A i \in {i \in 1..j : deploys[i].service = deploys[j].service} :
                          deploys[i].computed
                          /\ \A k \in {k \in 1..j : deploys[k].service = deploys[j].service} :
                               k < i => k <= deploys[i].seen
<1>1. n \in Nat /\ DOMAIN deploys = 1..n /\ DOMAIN deploys' = 1..(n + 1) /\ deploys'[n + 1] = row
      /\ \A i \in 1..n : deploys'[i] = deploys[i]
  BY RowsTyped DEF DeployTypeOK
<1> HIDE DEF n
<1>2. ASSUME NEW j \in 1..n PROVE \A i \in 1..j : deploys'[i] = deploys[i]
  BY <1>1, <1>2
<1>3. ASSUME NEW j \in 1..n, Serial(j)
      PROVE  deploys[j].version + 1 = Cardinality({i \in 1..j : deploys[i].service = deploys[j].service})
  BY <1>1, <1>3 DEF VersionsAdvance
<1>4. ASSUME NEW j \in 1..n, Serial(j)'
      PROVE  deploys'[j].version + 1 = Cardinality({i \in 1..j : deploys'[i].service = deploys'[j].service})
  <2>1. {i \in 1..j : deploys'[i].service = deploys'[j].service} = {i \in 1..j : deploys[i].service = deploys[j].service}
    BY <1>1, <1>2
  <2>2. Serial(j)
    <3>1. \A i \in 1..j : i \in 1..n
      BY <1>1
    <3> QED
      BY <1>1, <1>4, <2>1, <3>1
  <2> HIDE DEF Serial
  <2> QED
    BY <1>1, <1>3, <2>1, <2>2
<1> DEFINE mine == {i \in 1..(n + 1) : deploys'[i].service = s}
           before == RowsOf(s, n)
<1>5. mine = before \cup {n + 1} /\ n + 1 \notin before /\ IsFiniteSet(before)
  <2>1. 1..(n + 1) = 1..n \cup {n + 1} /\ n + 1 \notin 1..n
    BY <1>1
  <2>2. IsFiniteSet(1..n)
    BY <1>1, FS_Interval
  <2>3. before \subseteq 1..n
    BY DEF RowsOf
  <2>4. IsFiniteSet(before)
    BY <2>2, <2>3, FS_Subset
  <2> QED
    BY <1>1, <2>1, <2>3, <2>4 DEF RowsOf
<1>6. Cardinality(mine) = Cardinality(before) + 1 /\ Cardinality(before) \in Nat
  <2> HIDE DEF mine, before
  <2> QED
    BY <1>5, FS_AddElement, FS_CardinalityType
<1>7. ASSUME \A i \in mine : deploys'[i].computed /\ \A k \in mine : k < i => k <= deploys'[i].seen
      PROVE  row.version + 1 = Cardinality(mine)
  <2>1. row.computed /\ \A k \in before : k <= row.seen
    <3>1. n + 1 \in mine /\ \A k \in before : k \in mine /\ k < n + 1
      BY <1>1, <1>5 DEF RowsOf
    <3> QED
      BY <1>1, <1>7, <3>1
  <2>2. RowsOf(s, row.seen) = before
    <3>1. row.seen \in Nat /\ row.seen <= n
      BY <1>1 DEF n
    <3>2. \A k \in before : k \in 1..row.seen
      BY <1>1, <2>1, <3>1 DEF RowsOf
    <3>3. \A k \in 1..row.seen : k \in 1..n
      BY <1>1, <3>1
    <3> QED
      BY <3>2, <3>3 DEF RowsOf
  <2>3. row.version = NextVersion(s, n)
    BY <2>1, <2>2 DEF NextVersion, Follows
  <2>4. CASE before = {}
    <3>1. Cardinality(before) = 0 /\ row.version = 0
      BY <2>3, <2>4, FS_EmptySet DEF NextVersion
    <3> QED
      BY <1>6, <3>1
  <2>5. CASE before # {}
    <3> DEFINE m == Max(before)
    <3>1. m \in 1..n /\ m \in Nat /\ deploys[m].service = s /\ \A i \in before : i <= m
      <4>1. n \in 0..Len(deploys)
        BY <1>1 DEF n
      <4> QED
        BY <2>5, <4>1, LatestRow
    <3> HIDE DEF m
    <3>2. {i \in 1..m : deploys[i].service = deploys[m].service} = before
      BY <1>1, <3>1 DEF RowsOf
    <3>3. Serial(m)
      <4>1. \A i \in before : i \in mine /\ i \in 1..n
        BY <1>5 DEF RowsOf
      <4> QED
        BY <1>1, <1>7, <3>2, <4>1
    <3>4. deploys[m].version + 1 = Cardinality(before)
      <4> HIDE DEF Serial, before
      <4> QED
        BY <1>3, <3>1, <3>2, <3>3
    <3>5. deploys[m].version \in Nat
      <4>1. deploys[m].computed
        BY <3>1, <3>2, <3>3
      <4>2. deploys[m].version = NextVersion(deploys[m].service, deploys[m].seen) /\ deploys[m].seen < m
        BY <1>1, <3>1, <4>1 DEF VersionsFollow, Follows
      <4>3. deploys[m].seen \in 0..Len(deploys)
        BY <1>1, <3>1, <4>2, RowsTyped DEF n
      <4> QED
        BY <4>2, <4>3, VersionTyped
    <3>6. row.version = deploys[m].version + 1
      <4>1. deploys[m].version # Odd
        BY <3>5 DEF DeployAssumption
      <4> QED
        BY <2>3, <2>5, <4>1 DEF NextVersion, Following, m
    <3> QED
      BY <1>6, <3>4, <3>5, <3>6
  <2> QED
    BY <2>4, <2>5
<1>8. ASSUME NEW j \in 1..(n + 1), Serial(j)'
      PROVE  deploys'[j].version + 1 = Cardinality({i \in 1..j : deploys'[i].service = deploys'[j].service})
  <2>1. CASE j \in 1..n
    <3> HIDE DEF Serial
    <3> QED
      BY <1>4, <1>8, <2>1
  <2>2. CASE j = n + 1
    <3>1. mine = {i \in 1..j : deploys'[i].service = deploys'[j].service}
      BY <1>1, <2>2
    <3>2. \A i \in mine : deploys'[i].computed /\ \A k \in mine : k < i => k <= deploys'[i].seen
      BY <1>8, <3>1
    <3> HIDE DEF mine
    <3> QED
      BY <1>1, <1>7, <2>2, <3>1, <3>2
  <2>3. j \in 1..n \/ j = n + 1
    BY <1>1
  <2> HIDE DEF Serial, mine, before
  <2> QED
    BY <2>1, <2>2, <2>3
<1> QED
  BY <1>1, <1>8 DEF VersionsAdvance

LEMMA InsertStep ==
  ASSUME DeployAssumption, DeployInv, NEW d \in Deployers, InsertDeploy(d) PROVE DeployInv'
<1> USE DEF DeployInv
<1>1. PICK row \in Deploy :
           /\ row.id = sequence + 1
           /\ row.seen = deployer[d].seen /\ row.seen \in 0..Len(deploys)
           /\ Follows(row)
           /\ deploys' = Append(deploys, row) /\ sequence' = sequence + 1
           /\ deployer' = [deployer EXCEPT ![d] = [at |-> "publish", row |-> row]]
           /\ deployer[d].at = "insert"
           /\ UNCHANGED <<events, connected, answers, deployFaults>>
  BY InsertedRow
<1> DEFINE n == Len(deploys)
<1>2. n \in Nat /\ DOMAIN deploys = 1..n /\ DOMAIN deploys' = 1..(n + 1) /\ deploys'[n + 1] = row
      /\ (\A i \in 1..n : deploys'[i] = deploys[i] /\ deploys[i].id \in Nat) /\ deploys' \in Seq(Deploy)
      /\ sequence \in Nat /\ Len(deploys') = n + 1
  <2>1. deploys \in Seq(Deploy)
    BY DEF DeployTypeOK
  <2> HIDE DEF Deploy
  <2> QED
    BY <1>1, <2>1, RowsTyped
<1> HIDE DEF n
<1>3. \A i \in 1..(n + 1) : i \in 1..n \/ i = n + 1
  BY <1>2
<1>4. deployer'[d] = [at |-> "publish", row |-> row] /\ \A e \in Deployers : e # d => deployer'[e] = deployer[e]
  BY <1>1 DEF DeployTypeOK
<1>5. DeployTypeOK'
  <2>1. [at |-> "publish", row |-> row] \in [at : {"publish"}, row : Deploy]
    OBVIOUS
  <2>2. deployer' \in [Deployers -> {AtRest} \cup Asked \cup [at : {"publish"}, row : Deploy]]
    BY <1>1, <2>1 DEF DeployTypeOK
  <2> QED
    BY <1>1, <1>2, <2>2 DEF DeployTypeOK
<1>6. \A i \in 1..n : deploys[i].id <= sequence
  BY <1>2 DEF RowsAreNumbered
<1>7. RowsAreNumbered'
  <2>1. \A i \in 1..(n + 1) : deploys'[i].id <= sequence'
    BY <1>1, <1>2, <1>3, <1>6
  <2>2. ASSUME NEW i \in 1..(n + 1), NEW j \in 1..(n + 1), deploys'[i].id = deploys'[j].id PROVE i = j
    <3>1. CASE i \in 1..n /\ j \in 1..n
      BY <1>2, <2>2, <3>1 DEF RowsAreNumbered
    <3>2. CASE i = n + 1 /\ j = n + 1
      BY <3>2
    <3>3. CASE i \in 1..n /\ j = n + 1
      BY <1>1, <1>2, <1>6, <2>2, <3>3
    <3>4. CASE i = n + 1 /\ j \in 1..n
      BY <1>1, <1>2, <1>6, <2>2, <3>4
    <3> QED
      BY <1>3, <3>1, <3>2, <3>3, <3>4
  <2>3. ASSUME NEW e \in Deployers, Pending(e)' PROVE \E k \in 1..(n + 1) : deploys'[k] = deployer'[e].row
    <3>1. CASE e = d
      BY <1>2, <1>4, <3>1
    <3>2. CASE e # d
      <4>1. PICK k \in 1..n : deploys[k] = deployer[e].row
        BY <1>2, <1>4, <2>3, <3>2 DEF RowsAreNumbered, Pending
      <4> QED
        BY <1>2, <1>4, <3>2, <4>1
    <3> QED
      BY <3>1, <3>2
  <2>4. \A e \in Deployers : e # d /\ Pending(e)' => deployer'[e].row.id \in Nat /\ deployer'[e].row.id <= sequence
    <3> TAKE e \in Deployers
    <3> HAVE e # d /\ Pending(e)'
    <3>1. PICK k \in 1..n : deploys[k] = deployer[e].row
      BY <1>2, <1>4 DEF RowsAreNumbered, Pending
    <3> QED
      BY <1>2, <1>4, <1>6, <3>1
  <2>5. ASSUME NEW e \in Deployers, NEW f \in Deployers, Pending(e)', Pending(f)',
               deployer'[e].row.id = deployer'[f].row.id
        PROVE  e = f
    <3>1. deployer'[d].row.id = sequence + 1
      BY <1>1, <1>4
    <3>2. CASE e = d \/ f = d
      BY <1>2, <2>4, <2>5, <3>1, <3>2
    <3>3. CASE e # d /\ f # d
      BY <1>4, <2>5, <3>3 DEF RowsAreNumbered, Pending
    <3> QED
      BY <3>2, <3>3
  <2>6. ASSUME NEW e \in Deployers, NEW i \in DOMAIN events', Pending(e)'
        PROVE  events'[i].id # deployer'[e].row.id
    <3>1. CASE e = d
      <4>1. PICK k \in 1..n : deploys[k] = events[i]
        BY <1>1, <1>2 DEF EventsAreRows
      <4> QED
        BY <1>1, <1>2, <1>4, <1>6, <3>1, <4>1
    <3>2. CASE e # d
      BY <1>1, <1>4, <2>6, <3>2 DEF RowsAreNumbered, Pending
    <3> QED
      BY <3>1, <3>2
  <2> QED
    BY <1>2, <2>1, <2>2, <2>3, <2>5, <2>6 DEF RowsAreNumbered
<1>8. EventsAreRows'
  <2>1. \A k \in 1..n : k \in 1..(n + 1)
    BY <1>2
  <2> QED
    BY <1>1, <1>2, <2>1 DEF EventsAreRows
<1>9. ASSUME NEW i \in DOMAIN deploys' PROVE deploys'[i].seen < i /\ Follows(deploys[i])'
  <2>1. PICK r : r = deploys'[i]
    OBVIOUS
  <2>2. r.seen \in 0..n /\ r.seen < i /\ Follows(r)
    <3>1. CASE i \in 1..n
      <4>1. r = deploys[i] /\ deploys[i].seen \in Nat
        BY <1>2, <2>1, <3>1, RowsTyped DEF n
      <4> QED
        BY <1>2, <3>1, <4>1 DEF VersionsFollow
    <3>2. CASE i = n + 1
      BY <1>1, <1>2, <2>1, <3>2 DEF n
    <3> QED
      BY <1>2, <1>3, <3>1, <3>2
  <2>3. Follows(r)'
    BY <1>1, <2>2, FollowsStays DEF n
  <2> QED
    BY <2>1, <2>2, <2>3, FollowsOfRow
<1>10. ASSUME NEW e \in Deployers, deployer'[e].at = "insert"
       PROVE  deployer'[e].seen <= Len(deploys') /\ Follows(deployer[e])'
  <2>1. PICK r : r = deployer'[e]
    OBVIOUS
  <2>2. e # d /\ r = deployer[e]
    BY <1>4, <1>10, <2>1
  <2>3. r.seen \in 0..n /\ Follows(r)
    BY <1>10, <2>1, <2>2, DeployerTyped DEF VersionsFollow, n
  <2>4. Follows(r)'
    BY <1>1, <2>3, FollowsStays DEF n
  <2>5. Follows(deployer[e])'
    BY <2>1, <2>4, FollowsOfDeployer
  <2> QED
    BY <1>2, <2>1, <2>3, <2>5
<1>11. VersionsFollow'
  BY <1>9, <1>10 DEF VersionsFollow
<1>12. VersionsAdvance'
  BY <1>1, InsertAdvances
<1> QED
  BY <1>5, <1>7, <1>8, <1>11, <1>12

LEMMA PublishStep ==
  ASSUME DeployAssumption, DeployInv, NEW d \in Deployers, PublishDeploy(d) \/ PublishFails(d) PROVE DeployInv'
<1> USE DEF DeployInv
<1>1. /\ Pending(d) /\ deployer' = [deployer EXCEPT ![d] = AtRest]
      /\ UNCHANGED <<deploys, sequence, connected>>
      /\ events' = Append(events, deployer[d].row) \/ events' = events
      /\ answers' \in {answers, answers \cup {deployer[d].row.id}}
      /\ deployFaults' \in Nat
  BY DEF PublishDeploy, PublishFails, Rest, Pending, DeployTypeOK
<1>2. deployer'[d].at = "rest" /\ \A e \in Deployers : e # d => deployer'[e] = deployer[e]
  BY <1>1 DEF DeployTypeOK, AtRest
<1>3. deployer[d].row \in Deploy /\ deployer[d].row.id \in Nat
  BY <1>1, DeployerTyped
<1>4. PICK k \in DOMAIN deploys : deploys[k] = deployer[d].row
  BY <1>1 DEF RowsAreNumbered
<1>5. DeployTypeOK'
  <2>1. events' \in Seq(Deploy)
    <3>1. events \in Seq(Deploy)
      BY DEF DeployTypeOK
    <3> HIDE DEF Deploy
    <3> QED
      BY <1>1, <1>3, <3>1
  <2>2. deployer' \in [Deployers -> {AtRest} \cup Asked \cup [at : {"publish"}, row : Deploy]]
    BY <1>1 DEF DeployTypeOK
  <2> QED
    BY <1>1, <1>3, <2>1, <2>2 DEF DeployTypeOK
<1>6. \A e \in Deployers : Pending(e)' => e # d /\ Pending(e) /\ deployer'[e] = deployer[e]
  BY <1>2 DEF Pending
<1> DEFINE n == Len(events)
<1>7. /\ n \in Nat /\ DOMAIN events = 1..n /\ DOMAIN events' \subseteq 1..(n + 1)
      /\ \A i \in DOMAIN events' : \/ i \in 1..n /\ events'[i] = events[i]
                                   \/ i = n + 1 /\ events'[i] = deployer[d].row
  <2>1. events \in Seq(Deploy)
    BY DEF DeployTypeOK
  <2> HIDE DEF Deploy
  <2>2. n \in Nat /\ DOMAIN events = 1..n
    BY <2>1
  <2>3. CASE events' = events
    BY <2>2, <2>3
  <2>4. CASE events' = Append(events, deployer[d].row)
    <3>1. DOMAIN events' = 1..(n + 1) /\ events'[n + 1] = deployer[d].row /\ \A i \in 1..n : events'[i] = events[i]
      BY <1>3, <2>1, <2>4
    <3> HIDE DEF n
    <3> QED
      BY <2>2, <3>1
  <2> QED
    BY <1>1, <2>3, <2>4
<1> HIDE DEF n
<1>8. RowsAreNumbered'
  <2>1. ASSUME NEW e \in Deployers, NEW i \in DOMAIN events', Pending(e)'
        PROVE  events'[i].id # deployer'[e].row.id
    <3>1. e # d /\ Pending(e) /\ deployer'[e] = deployer[e]
      BY <1>6, <2>1
    <3>2. CASE i \in 1..n /\ events'[i] = events[i]
      BY <1>7, <3>1, <3>2 DEF RowsAreNumbered
    <3>3. CASE i = n + 1 /\ events'[i] = deployer[d].row
      BY <1>1, <3>1, <3>3 DEF RowsAreNumbered
    <3> QED
      BY <1>7, <3>2, <3>3
  <2> QED
    BY <1>1, <1>6, <2>1 DEF RowsAreNumbered
<1>9. EventsAreRows'
  <2>1. \A i \in DOMAIN events' : \E r \in DOMAIN deploys : deploys[r] = events'[i]
    BY <1>4, <1>7 DEF EventsAreRows
  <2>2. ASSUME NEW i \in DOMAIN events', NEW j \in DOMAIN events', events'[i].id = events'[j].id PROVE i = j
    <3>1. \A l \in 1..n : events[l].id # deployer[d].row.id
      BY <1>1, <1>7 DEF RowsAreNumbered
    <3>2. CASE i \in 1..n /\ j \in 1..n /\ events'[i] = events[i] /\ events'[j] = events[j]
      BY <1>7, <2>2, <3>2 DEF EventsAreRows
    <3> QED
      BY <1>7, <2>2, <3>1, <3>2
  <2>3. \A a \in answers' : \E r \in DOMAIN deploys : deploys[r].id = a
    BY <1>1, <1>4 DEF EventsAreRows
  <2> QED
    BY <1>1, <2>1, <2>2, <2>3 DEF EventsAreRows
<1>10. VersionsFollow'
  <2>1. \A r : Follows(r)' <=> Follows(r)
    BY <1>1 DEF Follows, NextVersion, RowsOf
  <2>2. \A e \in Deployers : deployer'[e].at = "insert" => deployer'[e] = deployer[e]
    BY <1>2
  <2>3. ASSUME NEW i \in DOMAIN deploys' PROVE deploys'[i].seen < i /\ Follows(deploys[i])'
    <3>1. PICK r : r = deploys'[i]
      OBVIOUS
    <3>2. r.seen < i /\ Follows(r)
      BY <1>1, <3>1 DEF VersionsFollow
    <3> QED
      BY <2>1, <3>1, <3>2, FollowsOfRow
  <2>4. ASSUME NEW e \in Deployers, deployer'[e].at = "insert"
        PROVE  deployer'[e].seen <= Len(deploys') /\ Follows(deployer[e])'
    <3>1. PICK r : r = deployer'[e]
      OBVIOUS
    <3>2. r.seen <= Len(deploys) /\ Follows(r)
      BY <2>2, <2>4, <3>1 DEF VersionsFollow
    <3>3. Follows(deployer[e])'
      BY <2>1, <3>1, <3>2, FollowsOfDeployer
    <3> QED
      BY <1>1, <3>1, <3>2, <3>3
  <2> QED
    BY <2>3, <2>4 DEF VersionsFollow
<1>11. VersionsAdvance'
  BY <1>1 DEF VersionsAdvance
<1> QED
  BY <1>5, <1>8, <1>9, <1>10, <1>11

LEMMA DeployStepKeeps ==
  ASSUME DeployAssumption, DeployInv, [DeployNext]_deployVars PROVE DeployInv'
<1> USE DEF DeployInv
<1>0. /\ deploys \in Seq(Deploy) /\ sequence \in Nat /\ events \in Seq(Deploy)
      /\ deployer \in [Deployers -> {AtRest} \cup Asked \cup [at : {"publish"}, row : Deploy]]
      /\ connected \in BOOLEAN /\ answers \subseteq Nat /\ deployFaults \in Nat
  BY DEF DeployTypeOK
<1>1. ASSUME NEW d \in Deployers, NEW s \in Deployed \cup {Unknown}, NEW v \in {Computed, Odd, 0}, AskDeploy(d, s, v)
      PROVE  DeployInv'
  <2> DEFINE new == [at |-> IF v = Computed THEN "version" ELSE "insert", service |-> s,
                     version |-> v, computed |-> v = Computed, seen |-> 0]
  <2>1. s \in Deployed /\ deployer' = [deployer EXCEPT ![d] = new]
        /\ UNCHANGED <<deploys, sequence, events, connected, answers, deployFaults>>
    BY <1>1 DEF AskDeploy
  <2>2. new \in Asked
    <3>1. CASE v = Computed
      BY <2>1, <3>1 DEF Asked
    <3>2. CASE v # Computed
      BY <2>1, <3>2 DEF Asked, Versions
    <3> QED
      BY <3>1, <3>2
  <2>3. new.at = "version" \/ (new.at = "insert" /\ new.seen \in 0..Len(deploys) /\ Follows(new))
    <3>1. CASE v = Computed
      <4>1. new.at = "version"
        BY <3>1
      <4> QED
        BY <4>1
    <3>2. CASE v # Computed
      <4>1. new.at = "insert" /\ new.seen = 0 /\ new.computed = FALSE
        BY <3>2
      <4>2. 0 \in 0..Len(deploys)
        BY RowsTyped
      <4>3. Follows(new)
        BY <4>1, Zenon DEF Follows
      <4> QED
        BY <4>1, <4>2, <4>3, Zenon
    <3> QED
      BY <3>1, <3>2
  <2> HIDE DEF new
  <2>4. deployer'[d] = new /\ \A e \in Deployers : e # d => deployer'[e] = deployer[e]
    BY <1>0, <2>1
  <2>5. DeployTypeOK'
    BY <1>0, <2>1, <2>2 DEF DeployTypeOK
  <2> QED
    BY <2>1, <2>3, <2>4, <2>5, TableStays
<1>2. ASSUME NEW d \in Deployers, ReadVersion(d) PROVE DeployInv'
  <2> DEFINE n == Len(deploys)
             s == deployer[d].service
             new == [at |-> "insert", service |-> s, version |-> NextVersion(s, n), computed |-> TRUE, seen |-> n]
  <2>1. s \in Deployed
    BY <1>2, DeployerTyped DEF ReadVersion
  <2>2. n \in Nat /\ n \in 0..Len(deploys) /\ NextVersion(s, n) \in Nat
    <3>1. n \in Nat /\ n \in 0..Len(deploys)
      BY RowsTyped
    <3> QED
      BY <3>1, VersionTyped
  <2>3. deployer' = [deployer EXCEPT ![d] = new]
        /\ UNCHANGED <<deploys, sequence, events, connected, answers, deployFaults>>
    BY <1>2 DEF ReadVersion
  <2>4. new \in Asked
    BY <2>1, <2>2 DEF Asked, Versions
  <2>5. new.at = "insert" /\ new.seen \in 0..Len(deploys) /\ Follows(new)
    BY <2>2 DEF Follows
  <2> HIDE DEF new
  <2>6. deployer'[d] = new /\ \A e \in Deployers : e # d => deployer'[e] = deployer[e]
    BY <1>0, <2>3
  <2>7. DeployTypeOK'
    BY <1>0, <2>3, <2>4 DEF DeployTypeOK
  <2> QED
    BY <2>3, <2>5, <2>6, <2>7, TableStays
<1>3. ASSUME NEW d \in Deployers, StatementFails(d) PROVE DeployInv'
  <2>1. deployer' = [deployer EXCEPT ![d] = AtRest] /\ UNCHANGED <<deploys, events, connected, answers>>
        /\ sequence' \in {sequence, sequence + 1} /\ deployFaults' \in {deployFaults, deployFaults + 1}
    BY <1>3 DEF StatementFails, Rest
  <2>2. deployer'[d].at = "rest" /\ \A e \in Deployers : e # d => deployer'[e] = deployer[e]
    BY <1>0, <2>1 DEF AtRest
  <2>3. DeployTypeOK'
    BY <1>0, <2>1 DEF DeployTypeOK
  <2> QED
    BY <2>1, <2>2, <2>3, TableStays
<1>4. CASE LoseDatabase
  <2>1. DeployTypeOK'
    <3>1. UNCHANGED <<deploys, sequence, events, deployer, answers>>
      BY <1>4 DEF LoseDatabase
    <3>2. connected' \in BOOLEAN
      BY <1>4, Zenon DEF LoseDatabase
    <3>3. deployFaults' \in Nat
      BY <1>0, <1>4 DEF LoseDatabase
    <3> QED
      BY <1>0, <3>1, <3>2, <3>3 DEF DeployTypeOK
  <2> QED
    BY <1>4, <2>1, TableStays DEF LoseDatabase
<1>5. CASE RestartEmitter
  <2>1. DeployTypeOK'
    BY <1>0, <1>5 DEF DeployTypeOK, RestartEmitter
  <2>2. \A e \in Deployers : deployer'[e].at = "rest"
    BY <1>5 DEF RestartEmitter, AtRest
  <2> QED
    BY <1>5, <2>1, <2>2, TableStays DEF RestartEmitter
<1>6. CASE UNCHANGED deployVars
  <2>1. DeployTypeOK'
    BY <1>0, <1>6 DEF DeployTypeOK, deployVars
  <2> QED
    BY <1>6, <2>1, TableStays DEF deployVars
<1> QED
  BY <1>1, <1>2, <1>3, <1>4, <1>5, <1>6, InsertStep, PublishStep DEF DeployNext, DeployStep

\* What a consumer of deploys.events is told is what a reader of the table
\* finds, once for each deploy, and what was answered with 201 is there.
THEOREM EventsStayRows == DeploySpec => []EventsAreRows
<1>1. DeployInit => DeployInv
  BY DeployStart, DeployAssumption
<1>2. DeployInv /\ [DeployNext]_deployVars => DeployInv'
  BY DeployStepKeeps, DeployAssumption
<1>3. DeployInv => EventsAreRows
  BY DEF DeployInv
<1> QED
  BY <1>1, <1>2, <1>3, PTL DEF DeploySpec

\* Requests that do not overlap count a service's versions up one by one,
\* however many threads ask and whatever fails between them.
THEOREM VersionsKeepAdvancing == DeploySpec => []VersionsAdvance
<1>1. DeployInit => DeployInv
  BY DeployStart, DeployAssumption
<1>2. DeployInv /\ [DeployNext]_deployVars => DeployInv'
  BY DeployStepKeeps, DeployAssumption
<1>3. DeployInv => VersionsAdvance
  BY DEF DeployInv
<1> QED
  BY <1>1, <1>2, <1>3, PTL DEF DeploySpec

-----------------------------------------------------------------------------
(* The dummy site.                                                         *)

\* A call that was answered and did not fail.
Fine(k) == calls[k].at = "answered" /\ ~Failed(calls[k].status)

\* How far a request is says which calls it has made and how they ended: all
\* went well, but for the one it waits for, the latest.
CallsAsFarAs(c) ==
  /\ calls[c].at = "arrived" => CallsOf(c) = {}
  /\ calls[c].at = "working" =>
       /\ calls[c].next <= Len(Downstream[calls[c].service]) + 1
       /\ Cardinality(CallsOf(c)) + 1 = calls[c].next
       /\ \A k \in CallsOf(c) : Fine(k)
  /\ calls[c].at = "waiting" =>
       /\ calls[c].next <= Len(Downstream[calls[c].service])
       /\ Cardinality(CallsOf(c)) = calls[c].next
       /\ \E k \in CallsOf(c) : \A j \in CallsOf(c) : j <= k /\ (j # k => Fine(j))
  /\ calls[c].at # "answered" => calls[c].status = 0
  /\ calls[c].status = 200 =>
       /\ Cardinality(CallsOf(c)) = Len(Downstream[calls[c].service])
       /\ \A k \in CallsOf(c) : Fine(k)

SiteInv ==
  /\ SiteTypeOK
  /\ \A c \in Calls : calls[c].caller < c
  /\ \A c \in Calls : CallsAsFarAs(c)

LEMMA CallsTyped ==
  ASSUME SiteTypeOK
  PROVE  /\ Len(calls) \in Nat /\ Calls = 1..Len(calls)
         /\ \A c \in Calls : /\ c \in Nat /\ c > 0 /\ c <= Len(calls)
                             /\ calls[c] \in Call
                             /\ calls[c].service \in SiteServices
                             /\ calls[c].caller \in Nat
                             /\ calls[c].next \in Nat /\ calls[c].next > 0
                             /\ calls[c].status \in Nat
                             /\ calls[c].at \in {"arrived", "working", "waiting", "answered"}
<1>1. calls \in Seq(Call)
  BY DEF SiteTypeOK
<1>2. Len(calls) \in Nat /\ DOMAIN calls = 1..Len(calls) /\ \A c \in 1..Len(calls) : calls[c] \in Call
  BY <1>1
<1>3. \A r \in Call : /\ r.service \in SiteServices /\ r.caller \in Nat
                      /\ r.next \in Nat /\ r.next > 0 /\ r.status \in Nat
                      /\ r.at \in {"arrived", "working", "waiting", "answered"}
  BY DEF Call
<1> QED
  BY <1>2, <1>3 DEF Calls

\* r is the call c, gone on to another point of it.
MovedTo(r, c, a, n, status) ==
  /\ r.service = calls[c].service /\ r.caller = calls[c].caller
  /\ r.next = n /\ r.status = status /\ r.at = a

\* One call of a list changes, and nothing but where it is.
LEMMA MovedCall ==
  ASSUME SiteTypeOK, NEW c \in Calls, NEW status \in Nat,
         NEW a \in {"arrived", "working", "waiting", "answered"}, NEW n \in Nat \ {0},
         NEW list, list = Move(c, a, n, status)
  PROVE  /\ list \in Seq(Call) /\ Len(list) = Len(calls)
         /\ \A k \in Calls : k # c => list[k] = calls[k]
         /\ MovedTo(list[c], c, a, n, status)
<1>1. calls[c] \in Call /\ calls \in Seq(Call) /\ c \in 1..Len(calls)
  BY CallsTyped DEF SiteTypeOK
<1>2. Moved(c, a, n, status) \in Call
  BY <1>1 DEF Call, Moved
<1>3. list \in Seq(Call) /\ Len(list) = Len(calls)
  BY <1>1, <1>2, ExceptSeq DEF Move
<1>4. list[c] = Moved(c, a, n, status) /\ \A k \in Calls : k # c => list[k] = calls[k]
  BY <1>1 DEF Calls, Move
<1>5. MovedTo(list[c], c, a, n, status)
  BY <1>4 DEF Moved, MovedTo
<1> QED
  BY <1>3, <1>4, <1>5

LEMMA CallsAreFinite ==
  ASSUME SiteTypeOK, NEW c
  PROVE  IsFiniteSet(CallsOf(c)) /\ Cardinality(CallsOf(c)) \in Nat
<1>1. IsFiniteSet(1..Len(calls)) /\ CallsOf(c) \subseteq 1..Len(calls)
  BY CallsTyped, FS_Interval DEF CallsOf
<1> QED
  BY <1>1, FS_Subset, FS_CardinalityType

\* No call that was there goes away or changes whose it is, one that was answered
\* stays as it is, and none that is new is for c.
Kept(c) ==
  /\ Calls \subseteq Calls' /\ CallsOf(c)' = CallsOf(c)
  /\ \A k \in Calls : calls[k].at = "answered" => calls'[k] = calls[k]

\* A call that does not move is as far as it was.
LEMMA StillAsFar ==
  ASSUME SiteInv, NEW c \in Calls, Kept(c), calls'[c] = calls[c]
  PROVE  CallsAsFarAs(c)'
<1>1. \A k \in CallsOf(c) : k \in Calls
  BY DEF CallsOf
<1>2. \A k \in CallsOf(c) : Fine(k) => Fine(k)'
  BY <1>1 DEF Kept, Fine
<1>3. CallsAsFarAs(c)
  BY DEF SiteInv
<1>4. (calls[c].at = "arrived" => CallsOf(c) = {})'
  BY <1>3 DEF CallsAsFarAs, Kept
<1>5. calls'[c].at = "working" =>
         /\ calls'[c].next <= Len(Downstream[calls'[c].service]) + 1
         /\ Cardinality(CallsOf(c)') + 1 = calls'[c].next
         /\ \A k \in CallsOf(c)' : Fine(k)'
  BY <1>2, <1>3 DEF CallsAsFarAs, Kept
<1>6. calls'[c].at = "waiting" =>
         /\ calls'[c].next <= Len(Downstream[calls'[c].service])
         /\ Cardinality(CallsOf(c)') = calls'[c].next
         /\ \E k \in CallsOf(c)' : \A j \in CallsOf(c)' : j <= k /\ (j # k => Fine(j)')
  BY <1>2, <1>3 DEF CallsAsFarAs, Kept
<1>7. (calls[c].at # "answered" => calls[c].status = 0)'
  BY <1>3 DEF CallsAsFarAs
<1>8. calls'[c].status = 200 =>
         /\ Cardinality(CallsOf(c)') = Len(Downstream[calls'[c].service])
         /\ \A k \in CallsOf(c)' : Fine(k)'
  BY <1>2, <1>3 DEF CallsAsFarAs, Kept
<1> QED
  BY <1>4, <1>5, <1>6, <1>7, <1>8 DEF CallsAsFarAs

\* An answer with any status but 200 says nothing of the calls that were made.
LEMMA RefusedIsAsFar ==
  ASSUME NEW c, calls'[c].at = "answered", calls'[c].status # 200
  PROVE  CallsAsFarAs(c)'
BY DEF CallsAsFarAs

\* One call moves, without a new call: what the list keeps.
LEMMA OneMoves ==
  ASSUME SiteInv, NEW c \in Calls, calls[c].at # "answered", NEW status \in Nat,
         NEW a \in {"arrived", "working", "waiting", "answered"}, NEW n \in Nat \ {0},
         calls' = Move(c, a, n, status)
  PROVE  /\ calls' \in Seq(Call) /\ Calls' = Calls
         /\ MovedTo(calls'[c], c, a, n, status)
         /\ \A k \in Calls : calls'[k].caller < k
         /\ \A k \in Calls : Kept(k)
         /\ \A k \in Calls : k # c => CallsAsFarAs(k)'
<1>0. SiteTypeOK
  BY DEF SiteInv
<1>1. /\ calls' \in Seq(Call) /\ Len(calls') = Len(calls)
      /\ \A k \in Calls : k # c => calls'[k] = calls[k]
      /\ MovedTo(calls'[c], c, a, n, status)
  <2>1. PICK list : list = Move(c, a, n, status)
    OBVIOUS
  <2>2. /\ list \in Seq(Call) /\ Len(list) = Len(calls)
        /\ \A k \in Calls : k # c => list[k] = calls[k]
        /\ MovedTo(list[c], c, a, n, status)
    BY <1>0, <2>1, MovedCall
  <2> QED
    BY <2>1, <2>2
<1>2. Calls' = Calls
  BY <1>1, CallsTyped, <1>0 DEF Calls
<1>3. \A k \in Calls : calls'[k].caller = calls[k].caller
  BY <1>1 DEF MovedTo
<1>4. \A k \in Calls : calls'[k].caller < k
  BY <1>3 DEF SiteInv
<1>5. \A k : CallsOf(k)' = CallsOf(k)
  BY <1>2, <1>3 DEF CallsOf
<1>6. \A k \in Calls : calls[k].at = "answered" => calls'[k] = calls[k]
  BY <1>1
<1>7. \A k \in Calls : Kept(k)
  BY <1>2, <1>5, <1>6 DEF Kept
<1>8. \A k \in Calls : k # c => CallsAsFarAs(k)'
  BY <1>1, <1>7, StillAsFar
<1> QED
  BY <1>1, <1>2, <1>4, <1>7, <1>8

\* n is a new call of s by caller, which comes to the list; the calls of the
\* others are as before.
Joins(n, list, s, caller) ==
  /\ calls' \in Seq(Call) /\ Calls' = Calls \cup {n} /\ n \notin Calls
  /\ \A k \in Calls : k <= n /\ calls'[k] = list[k]
  /\ calls'[n] = Arrival(s, caller)
  /\ \A k \in Calls' : calls'[k].caller < k
  /\ \A k \in Calls : k # caller => CallsOf(k)' = CallsOf(k)
  /\ CallsOf(caller)' = CallsOf(caller) \cup {n}
  /\ CallsOf(n)' = {}

\* Of one that is there or of dummy-traffic.
LEMMA NewCall ==
  ASSUME SiteTypeOK, \A c \in Calls : calls[c].caller < c,
         NEW s \in SiteServices, NEW caller \in {Client} \cup Calls, NEW list \in Seq(Call),
         Len(list) = Len(calls), \A k \in Calls : list[k].caller = calls[k].caller,
         calls' = Append(list, Arrival(s, caller))
  PROVE  \E n \in Nat : Joins(n, list, s, caller)
<1> PICK n \in Nat : n = Len(calls) + 1
  BY CallsTyped
<1> DEFINE new == Arrival(s, caller)
<1>1. Len(calls) \in Nat /\ Calls = 1..Len(calls) /\ caller \in Nat
  BY CallsTyped DEF Client
<1>2. new \in Call
  BY <1>1 DEF Arrival, Call
<1>3. new.caller = caller
  BY DEF Arrival
<1> HIDE DEF new
<1>4. /\ calls' \in Seq(Call) /\ Len(calls') = n
      /\ \A k \in 1..Len(list) : calls'[k] = list[k]
      /\ calls'[n] = new
  BY <1>2, AppendProperties DEF new
<1>5. Calls' = 1..n
  BY <1>4 DEF Calls
<1>6. Calls' = Calls \cup {n} /\ n \notin Calls
  BY <1>1, <1>5
<1>7. \A k \in Calls : k <= n /\ calls'[k] = list[k]
  BY <1>1, <1>4
<1>8. caller < n
  BY <1>1 DEF Client
<1>9. \A k \in Calls' : calls'[k].caller < k
  BY <1>3, <1>4, <1>6, <1>7, <1>8
<1>10. (\A x : x # caller => CallsOf(x)' = CallsOf(x)) /\ CallsOf(caller)' = CallsOf(caller) \cup {n}
  <2>1. \A k \in Calls' : k # n => k \in Calls /\ calls'[k].caller = calls[k].caller
    BY <1>6, <1>7
  <2>2. \A k \in Calls : k \in Calls' /\ k # n
    BY <1>6
  <2>3. n \in Calls' /\ calls'[n].caller = caller
    BY <1>3, <1>4, <1>6
  <2> QED
    BY <2>1, <2>2, <2>3 DEF CallsOf
<1>11. CallsOf(n) = {} /\ caller # n
  <2>1. \A k \in Calls : calls[k].caller < k /\ k <= Len(calls) /\ calls[k].caller \in Nat /\ k \in Nat
    BY CallsTyped
  <2>2. \A k \in Calls : calls[k].caller # n
    BY <1>1, <2>1
  <2> QED
    BY <1>1, <1>8, <2>2 DEF CallsOf
<1>12. /\ \A k \in Calls : k # caller => CallsOf(k)' = CallsOf(k)
       /\ CallsOf(caller)' = CallsOf(caller) \cup {n}
       /\ CallsOf(n)' = {}
  BY <1>10, <1>11
<1> QED
  BY <1>4, <1>6, <1>7, <1>9, <1>12 DEF new, Joins

\* A call that arrives has made none.
LEMMA ArrivesAsFar ==
  ASSUME NEW n, NEW s, NEW caller, calls'[n] = Arrival(s, caller), CallsOf(n)' = {}
  PROVE  CallsAsFarAs(n)'
BY DEF CallsAsFarAs, Arrival

LEMMA SiteStart ==
  ASSUME SiteInit PROVE SiteInv
<1>1. calls = <<>> /\ Calls = {}
  BY DEF SiteInit, Calls
<1>2. SiteTypeOK
  BY <1>1 DEF SiteInit, SiteTypeOK
<1> QED
  BY <1>1, <1>2 DEF SiteInv

\* A step that answers c with anything but 200.
LEMMA AnswerKeeps ==
  ASSUME SiteInv, NEW c \in Calls, calls[c].at # "answered", NEW status \in Nat, status # 200,
         AnswerCall(c, status), health' = health, looped' = looped, siteFaults' = siteFaults
  PROVE  SiteInv'
<1>1. calls[c].next \in Nat \ {0}
  BY CallsTyped DEF SiteInv
<1>2. calls' = Move(c, "answered", calls[c].next, status) /\ held' \subseteq held
  BY DEF AnswerCall
<1>3. /\ calls' \in Seq(Call) /\ Calls' = Calls
      /\ MovedTo(calls'[c], c, "answered", calls[c].next, status)
      /\ \A k \in Calls : calls'[k].caller < k
      /\ \A k \in Calls : k # c => CallsAsFarAs(k)'
  BY <1>1, <1>2, OneMoves
<1>4. CallsAsFarAs(c)'
  BY <1>3, RefusedIsAsFar DEF MovedTo
<1>5. SiteTypeOK'
  BY <1>2, <1>3 DEF SiteInv, SiteTypeOK
<1> QED
  BY <1>3, <1>4, <1>5 DEF SiteInv

LEMMA SameCallsKeep ==
  ASSUME SiteInv, calls' = calls, SiteTypeOK'
  PROVE  SiteInv'
<1>0. SiteTypeOK /\ (\A k \in Calls : calls[k].caller < k) /\ (\A k \in Calls : CallsAsFarAs(k))
  BY DEF SiteInv
<1>1. \A c \in Calls : Kept(c)
  BY DEF Kept, Calls, CallsOf
<1>2. Calls' = Calls
  BY DEF Calls
<1>3. \A c \in Calls : CallsAsFarAs(c)'
  BY <1>1, StillAsFar
<1> QED
  BY <1>0, <1>2, <1>3 DEF SiteInv

LEMMA SendKeeps ==
  ASSUME SiteAssumption, SiteInv, SendRequest
  PROVE  SiteInv'
<1>0. SiteTypeOK /\ (\A k \in Calls : calls[k].caller < k) /\ (\A k \in Calls : CallsAsFarAs(k))
  BY DEF SiteInv
<1>1. /\ calls' = Append(calls, Arrival(Entry, Client)) /\ UNCHANGED <<held, health, looped, siteFaults>>
  BY DEF SendRequest
<1>2. Entry \in SiteServices /\ calls \in Seq(Call)
  BY <1>0 DEF SiteAssumption, SiteTypeOK
<1>n. PICK n \in Nat : Joins(n, calls, Entry, Client)
  BY <1>0, <1>1, <1>2, NewCall
<1>3. /\ calls' \in Seq(Call) /\ Calls' = Calls \cup {n}
      /\ \A k \in Calls : calls'[k] = calls[k]
      /\ calls'[n] = Arrival(Entry, Client)
      /\ \A k \in Calls' : calls'[k].caller < k
      /\ \A k \in Calls : k # Client => CallsOf(k)' = CallsOf(k)
      /\ CallsOf(n)' = {}
  BY <1>n DEF Joins
<1>4. \A k \in Calls : k # Client
  BY <1>0, CallsTyped DEF Client
<1>5. \A k \in Calls : CallsAsFarAs(k)'
  BY <1>3, <1>4, StillAsFar DEF Kept
<1>6. CallsAsFarAs(n)'
  BY <1>3, ArrivesAsFar
<1>7. SiteTypeOK'
  BY <1>0, <1>1, <1>3 DEF SiteTypeOK
<1> QED
  BY <1>3, <1>5, <1>6, <1>7 DEF SiteInv

LEMMA BeginKeeps ==
  ASSUME SiteAssumption, SiteInv, NEW c \in Calls, Begin(c)
  PROVE  SiteInv'
<1>0. SiteTypeOK /\ (\A k \in Calls : calls[k].caller < k) /\ (\A k \in Calls : CallsAsFarAs(k))
  BY DEF SiteInv
<1>1. calls[c].at = "arrived" /\ UNCHANGED <<health, looped, siteFaults>>
  BY DEF Begin
<1>2. CASE CalledItself(c)
  <2>1. /\ AnswerCall(c, 503) /\ calls[c].at # "answered"
        /\ health' = health /\ looped' = looped /\ siteFaults' = siteFaults
    BY <1>1, <1>2 DEF Begin
  <2> QED
    BY <2>1, AnswerKeeps
<1>3. CASE ~CalledItself(c)
  <2>1. calls' = Move(c, "working", 1, calls[c].status) /\ held' \subseteq held \cup {c}
    BY <1>3 DEF Begin, Step
  <2>2. calls[c].status = 0 /\ CallsOf(c) = {}
    BY <1>0, <1>1 DEF CallsAsFarAs
  <2>3. /\ calls' \in Seq(Call) /\ Calls' = Calls
        /\ MovedTo(calls'[c], c, "working", 1, 0)
        /\ \A k \in Calls : calls'[k].caller < k
        /\ \A k \in Calls : Kept(k)
        /\ \A k \in Calls : k # c => CallsAsFarAs(k)'
    BY <1>1, <2>1, <2>2, OneMoves
  <2>4. CallsOf(c)' = {} /\ Cardinality(CallsOf(c)') = 0
    BY <2>2, <2>3, FS_EmptySet DEF Kept
  <2>5. Len(Downstream[calls[c].service]) \in Nat
    BY <1>0, CallsTyped DEF SiteAssumption
  <2>6. CallsAsFarAs(c)'
    BY <2>3, <2>4, <2>5 DEF CallsAsFarAs, MovedTo
  <2>7. SiteTypeOK'
    BY <1>0, <1>1, <2>1, <2>3 DEF SiteTypeOK
  <2> QED
    BY <2>3, <2>6, <2>7 DEF SiteInv
<1> QED
  BY <1>2, <1>3

LEMMA NoSlotKeeps ==
  ASSUME SiteAssumption, SiteInv, NEW c \in Calls, NoFreeSlot(c)
  PROVE  SiteInv'
<1>1. /\ AnswerCall(c, 503) /\ calls[c].at # "answered"
      /\ health' = health /\ looped' = looped /\ siteFaults' = siteFaults
  BY DEF NoFreeSlot
<1>2. PICK status \in Nat : status = 503 /\ status # 200
  OBVIOUS
<1> QED
  BY <1>1, <1>2, AnswerKeeps

LEMMA GiveUpKeeps ==
  ASSUME SiteAssumption, SiteInv, NEW c \in Calls, GiveUp(c)
  PROVE  SiteInv'
<1>1. /\ AnswerCall(c, 504) /\ calls[c].at # "answered"
      /\ health' = health /\ looped' = looped /\ siteFaults' = siteFaults
  BY DEF GiveUp
<1>2. PICK status \in Nat : status = 504 /\ status # 200
  OBVIOUS
<1> QED
  BY <1>1, <1>2, AnswerKeeps

LEMMA SucceedKeeps ==
  ASSUME SiteAssumption, SiteInv, NEW c \in Calls, Succeed(c)
  PROVE  SiteInv'
<1>0. SiteTypeOK /\ (\A k \in Calls : calls[k].caller < k) /\ (\A k \in Calls : CallsAsFarAs(k))
  BY DEF SiteInv
<1> DEFINE D == Downstream[calls[c].service]
<1>1. /\ calls[c].at = "working" /\ calls[c].next > Len(D) /\ UNCHANGED <<health, looped, siteFaults>>
      /\ \E status \in {200, 500} : AnswerCall(c, status)
  BY DEF Succeed
<1>2. CASE AnswerCall(c, 500)
  <2>1. calls[c].at # "answered" /\ health' = health /\ looped' = looped /\ siteFaults' = siteFaults
    BY <1>1
  <2> QED
    BY <1>2, <2>1, AnswerKeeps
<1>3. CASE AnswerCall(c, 200)
  <2>1. calls' = Move(c, "answered", calls[c].next, 200) /\ held' \subseteq held
    BY <1>3 DEF AnswerCall
  <2>2. calls[c].next \in Nat \ {0} /\ Len(D) \in Nat /\ Cardinality(CallsOf(c)) \in Nat
    BY <1>0, CallsTyped, CallsAreFinite DEF SiteAssumption
  <2>3. /\ calls' \in Seq(Call) /\ Calls' = Calls
        /\ MovedTo(calls'[c], c, "answered", calls[c].next, 200)
        /\ \A k \in Calls : calls'[k].caller < k
        /\ \A k \in Calls : Kept(k)
        /\ \A k \in Calls : k # c => CallsAsFarAs(k)'
    <3>1. PICK m \in Nat \ {0} : m = calls[c].next
      BY <2>2
    <3>2. calls' = Move(c, "answered", m, 200) /\ calls[c].at # "answered"
      BY <1>1, <2>1, <3>1
    <3>3. /\ calls' \in Seq(Call) /\ Calls' = Calls
          /\ MovedTo(calls'[c], c, "answered", m, 200)
          /\ \A k \in Calls : calls'[k].caller < k
          /\ \A k \in Calls : Kept(k)
          /\ \A k \in Calls : k # c => CallsAsFarAs(k)'
      BY <3>2, OneMoves
    <3> QED
      BY <3>1, <3>3
  <2>4. calls[c].next <= Len(D) + 1 /\ Cardinality(CallsOf(c)) + 1 = calls[c].next /\ \A k \in CallsOf(c) : Fine(k)
    BY <1>0, <1>1 DEF CallsAsFarAs
  <2>5. Cardinality(CallsOf(c)) = Len(D)
    BY <1>1, <2>2, <2>4
  <2>6. CallsOf(c)' = CallsOf(c) /\ \A k \in CallsOf(c) : k \in Calls /\ Fine(k)'
    BY <2>3, <2>4 DEF Kept, Fine, CallsOf
  <2>7. CallsAsFarAs(c)'
    BY <2>3, <2>5, <2>6 DEF CallsAsFarAs, MovedTo
  <2>8. SiteTypeOK'
    BY <1>0, <1>1, <2>1, <2>3 DEF SiteTypeOK
  <2> QED
    BY <2>3, <2>7, <2>8 DEF SiteInv
<1> QED
  BY <1>1, <1>2, <1>3

LEMMA CallKeeps ==
  ASSUME SiteAssumption, SiteInv, NEW c \in Calls, CallNext(c)
  PROVE  SiteInv'
<1>0. SiteTypeOK /\ (\A k \in Calls : calls[k].caller < k) /\ (\A k \in Calls : CallsAsFarAs(k))
  BY DEF SiteInv
<1> DEFINE s == calls[c].service
           target == IF s \in looped THEN s ELSE Downstream[s][calls[c].next]
<1>1. calls[c].at = "working" /\ calls[c].next <= Len(Downstream[s]) /\ UNCHANGED <<health, looped, siteFaults>>
  BY DEF CallNext
<1>2. CASE health[target] = "down"
  <2>1. /\ AnswerCall(c, 502) /\ calls[c].at # "answered"
        /\ health' = health /\ looped' = looped /\ siteFaults' = siteFaults
    BY <1>2 DEF CallNext
  <2> QED
    BY <2>1, AnswerKeeps
<1>3. CASE health[target] # "down"
  <2>1. PICK list : list = Move(c, "waiting", calls[c].next, calls[c].status)
    OBVIOUS
  <2>2. calls' = Append(list, Arrival(target, c)) /\ held' = held
    BY <1>3, <2>1 DEF CallNext, Step
  <2>3. s \in SiteServices /\ calls[c].next \in 1..Len(Downstream[s]) /\ calls[c].next \in Nat \ {0}
        /\ Downstream[s] \in Seq(SiteServices) /\ Len(Downstream[s]) \in Nat
    BY <1>0, <1>1, CallsTyped DEF SiteAssumption
  <2>4. target \in SiteServices
    <3> HIDE DEF s
    <3> QED
      BY <2>3
  <2> HIDE DEF target
  <2>5. calls[c].status = 0 /\ Cardinality(CallsOf(c)) + 1 = calls[c].next /\ \A k \in CallsOf(c) : Fine(k)
    BY <1>0, <1>1 DEF CallsAsFarAs
  <2>6. /\ list \in Seq(Call) /\ Len(list) = Len(calls)
        /\ \A k \in Calls : k # c => list[k] = calls[k]
        /\ MovedTo(list[c], c, "waiting", calls[c].next, 0)
    <3>1. PICK m \in Nat \ {0} : m = calls[c].next
      BY <2>3
    <3>2. list = Move(c, "waiting", m, 0)
      BY <2>1, <2>5, <3>1
    <3>3. /\ list \in Seq(Call) /\ Len(list) = Len(calls)
          /\ \A k \in Calls : k # c => list[k] = calls[k]
          /\ MovedTo(list[c], c, "waiting", m, 0)
      BY <1>0, <3>2, MovedCall
    <3> QED
      BY <3>1, <3>3
  <2>7. \A k \in Calls : list[k].caller = calls[k].caller
    BY <2>6 DEF MovedTo
  <2>n. PICK n \in Nat : Joins(n, list, target, c)
    BY <1>0, <2>2, <2>4, <2>6, <2>7, NewCall
  <2>8. /\ calls' \in Seq(Call) /\ Calls' = Calls \cup {n} /\ n \notin Calls
        /\ \A k \in Calls : k <= n /\ calls'[k] = list[k]
        /\ calls'[n] = Arrival(target, c)
        /\ \A k \in Calls' : calls'[k].caller < k
        /\ \A k \in Calls : k # c => CallsOf(k)' = CallsOf(k)
        /\ CallsOf(c)' = CallsOf(c) \cup {n}
        /\ CallsOf(n)' = {}
    BY <2>n DEF Joins
  <2>9. \A k \in Calls : calls[k].at = "answered" => calls'[k] = calls[k]
    BY <1>1, <2>6, <2>8
  <2>10. ASSUME NEW k \in Calls, k # c PROVE CallsAsFarAs(k)'
    BY <2>6, <2>8, <2>9, <2>10, StillAsFar DEF Kept
  <2>11. CallsAsFarAs(n)'
    BY <2>8, ArrivesAsFar
  <2>12. CallsAsFarAs(c)'
    <3>1. CallsOf(c)' = CallsOf(c) \cup {n} /\ n \notin CallsOf(c)
      BY <2>8 DEF CallsOf
    <3>2. Cardinality(CallsOf(c)') = calls[c].next
      <4>1. IsFiniteSet(CallsOf(c)) /\ Cardinality(CallsOf(c)) \in Nat
        BY <1>0, CallsAreFinite
      <4>2. Cardinality(CallsOf(c) \cup {n}) = Cardinality(CallsOf(c)) + 1
        BY <3>1, <4>1, FS_AddElement
      <4> QED
        BY <2>5, <3>1, <4>2
    <3>3. \A j \in CallsOf(c) : j \in Calls /\ j <= n /\ Fine(j)'
      BY <2>5, <2>8, <2>9 DEF Fine, CallsOf
    <3>4. n <= n
      OBVIOUS
    <3> HIDE DEF s
    <3>5. \E k \in CallsOf(c)' : \A j \in CallsOf(c)' : j <= k /\ (j # k => Fine(j)')
      <4>1. n \in CallsOf(c)' /\ \A j \in CallsOf(c)' : j = n \/ j \in CallsOf(c)
        BY <3>1
      <4>2. \A j \in CallsOf(c)' : j <= n /\ (j # n => Fine(j)')
        BY <3>3, <3>4, <4>1
      <4> QED
        BY <4>1, <4>2
    <3>6. MovedTo(calls'[c], c, "waiting", calls[c].next, 0)
      BY <2>6, <2>8
    <3>7. calls'[c].at = "waiting" /\ calls'[c].status = 0 /\ calls'[c].next = calls[c].next
          /\ calls'[c].next <= Len(Downstream[calls'[c].service])
      BY <1>1, <3>6 DEF MovedTo, s
    <3> QED
      BY <3>2, <3>5, <3>7 DEF CallsAsFarAs
  <2>13. SiteTypeOK'
    BY <1>0, <1>1, <2>2, <2>8 DEF SiteTypeOK
  <2> QED
    BY <2>8, <2>10, <2>11, <2>12, <2>13 DEF SiteInv
<1> QED
  BY <1>2, <1>3

LEMMA DownstreamKeeps ==
  ASSUME SiteAssumption, SiteInv, NEW c \in Calls, DownstreamAnswered(c)
  PROVE  SiteInv'
<1>0. SiteTypeOK /\ (\A k \in Calls : calls[k].caller < k) /\ (\A k \in Calls : CallsAsFarAs(k))
  BY DEF SiteInv
<1> DEFINE D == Downstream[calls[c].service]
<1>1. calls[c].at = "waiting" /\ calls[Awaited(c)].at = "answered" /\ UNCHANGED <<health, looped, siteFaults>>
  BY DEF DownstreamAnswered
<1>2. CASE Failed(calls[Awaited(c)].status)
  <2>1. /\ AnswerCall(c, 502) /\ calls[c].at # "answered"
        /\ health' = health /\ looped' = looped /\ siteFaults' = siteFaults
    BY <1>2 DEF DownstreamAnswered
  <2> QED
    BY <2>1, AnswerKeeps
<1>3. CASE ~Failed(calls[Awaited(c)].status)
  <2>1. calls' = Move(c, "working", calls[c].next + 1, calls[c].status) /\ held' = held
    BY <1>3 DEF DownstreamAnswered, Step
  <2>2. calls[c].next \in Nat /\ calls[c].next + 1 \in Nat \ {0} /\ Len(D) \in Nat
    BY <1>0, CallsTyped DEF SiteAssumption
  <2>3. /\ calls[c].status = 0 /\ calls[c].next <= Len(D) /\ Cardinality(CallsOf(c)) = calls[c].next
        /\ \E k \in CallsOf(c) : \A j \in CallsOf(c) : j <= k /\ (j # k => Fine(j))
    BY <1>0, <1>1 DEF CallsAsFarAs
  <2>4. PICK k \in CallsOf(c) : \A j \in CallsOf(c) : j <= k /\ (j # k => Fine(j))
    BY <2>3
  <2>5. Awaited(c) = k
    <3>1. \A j \in CallsOf(c) : j \in Nat
      BY <1>0, CallsTyped DEF CallsOf
    <3>2. \A m \in CallsOf(c) : (\A j \in CallsOf(c) : j <= m) => m = k
      BY <2>4, <3>1
    <3> QED
      BY <2>4, <3>2 DEF Awaited
  <2>6. \A j \in CallsOf(c) : j \in Calls /\ Fine(j)
    BY <1>1, <1>3, <2>4, <2>5 DEF Fine, CallsOf
  <2>7. /\ calls' \in Seq(Call) /\ Calls' = Calls
        /\ MovedTo(calls'[c], c, "working", calls[c].next + 1, 0)
        /\ \A x \in Calls : calls'[x].caller < x
        /\ \A x \in Calls : Kept(x)
        /\ \A x \in Calls : x # c => CallsAsFarAs(x)'
    BY <1>1, <2>1, <2>2, <2>3, OneMoves
  <2>8. CallsOf(c)' = CallsOf(c) /\ \A j \in CallsOf(c) : Fine(j)'
    BY <2>6, <2>7 DEF Kept, Fine
  <2>9. calls[c].next + 1 <= Len(D) + 1 /\ Cardinality(CallsOf(c)') + 1 = calls[c].next + 1
    BY <2>2, <2>3, <2>8
  <2>10. CallsAsFarAs(c)'
    BY <2>7, <2>8, <2>9 DEF CallsAsFarAs, MovedTo
  <2>11. SiteTypeOK'
    BY <1>0, <1>1, <2>1, <2>7 DEF SiteTypeOK
  <2> QED
    BY <2>7, <2>10, <2>11 DEF SiteInv
<1> QED
  BY <1>2, <1>3

LEMMA StrikeKeeps ==
  ASSUME SiteAssumption, SiteInv, NEW s \in SiteServices, FaultStrikes(s)
  PROVE  SiteInv'
<1>0. SiteTypeOK /\ (\A k \in Calls : calls[k].caller < k) /\ (\A k \in Calls : CallsAsFarAs(k))
  BY DEF SiteInv
<1>1. siteFaults' \in Nat
  BY <1>0 DEF FaultStrikes, SiteTypeOK
<1>2. CASE UNCHANGED <<calls, held>>
  <2>1. health' \in [SiteServices -> {"up", "down", "paused"}] /\ looped' \subseteq SiteServices
    BY <1>0, <1>2 DEF FaultStrikes, SiteTypeOK
  <2>2. SiteTypeOK'
    BY <1>0, <1>1, <1>2, <2>1 DEF SiteTypeOK, Calls
  <2> QED
    BY SameCallsKeep, <1>2, <2>2
<1>3. CASE ~UNCHANGED <<calls, held>>
  <2>1. /\ health' = [health EXCEPT ![s] = "down"] /\ UNCHANGED looped
        /\ calls' = [c \in Calls |-> IF calls[c].service = s /\ calls[c].at # "answered"
                                       THEN Moved(c, "answered", calls[c].next, 502) ELSE calls[c]]
        /\ held' = {c \in held : calls[c].service # s}
    BY <1>3 DEF FaultStrikes
  <2>2. \A c \in Calls : calls'[c] = IF calls[c].service = s /\ calls[c].at # "answered"
                                       THEN Moved(c, "answered", calls[c].next, 502) ELSE calls[c]
    BY <2>1
  <2>3. \A c \in Calls : LET m == Moved(c, "answered", calls[c].next, 502)
                         IN m \in Call /\ MovedTo(m, c, "answered", calls[c].next, 502)
    BY <1>0, CallsTyped DEF Moved, MovedTo, Call
  <2>4. \A c \in Calls : calls'[c] \in Call
    BY <1>0, <2>2, <2>3, CallsTyped
  <2>5. calls' \in [1..Len(calls) -> Call] /\ Len(calls) \in Nat
    BY <1>0, <2>1, <2>4, CallsTyped
  <2>6. calls' \in Seq(Call) /\ Calls' = Calls
    <3>1. DOMAIN calls' = 1..Len(calls)
      BY <2>5
    <3>2. Calls' = Calls
      BY <1>0, <3>1, CallsTyped DEF Calls
    <3> QED
      BY <2>5, <3>2, SeqDef
  <2>7. \A c \in Calls : calls'[c].caller = calls[c].caller
    <3>1. \A c \in Calls : Moved(c, "answered", calls[c].next, 502).caller = calls[c].caller
      BY <2>3 DEF MovedTo
    <3> QED
      BY <2>2, <3>1
  <2>8. \A c \in Calls : Kept(c)
    BY <2>2, <2>6, <2>7 DEF Kept, CallsOf
  <2>9. ASSUME NEW c \in Calls PROVE CallsAsFarAs(c)'
    <3>1. CASE calls'[c] = calls[c]
      BY <2>8, <3>1, StillAsFar
    <3>2. CASE calls'[c] # calls[c]
      <4>1. calls'[c].at = "answered" /\ calls'[c].status = 502
        BY <2>2, <2>3, <3>2 DEF MovedTo
      <4> QED
        BY <4>1, RefusedIsAsFar
    <3> QED
      BY <3>1, <3>2
  <2>10. SiteTypeOK'
    BY <1>0, <1>1, <2>1, <2>6 DEF SiteTypeOK
  <2> QED
    BY <1>0, <2>6, <2>7, <2>9, <2>10 DEF SiteInv
<1> QED
  BY <1>2, <1>3

LEMMA EndKeeps ==
  ASSUME SiteAssumption, SiteInv, NEW s \in SiteServices, FaultEnds(s)
  PROVE  SiteInv'
<1>0. SiteTypeOK /\ (\A k \in Calls : calls[k].caller < k) /\ (\A k \in Calls : CallsAsFarAs(k))
  BY DEF SiteInv
<1>1. SiteTypeOK'
  BY <1>0 DEF FaultEnds, SiteTypeOK, Calls
<1> QED
  BY SameCallsKeep, <1>1 DEF FaultEnds

LEMMA StutterKeeps ==
  ASSUME SiteAssumption, SiteInv, UNCHANGED siteVars
  PROVE  SiteInv'
<1>0. SiteTypeOK /\ (\A k \in Calls : calls[k].caller < k) /\ (\A k \in Calls : CallsAsFarAs(k))
  BY DEF SiteInv
<1>1. SiteTypeOK'
  BY <1>0 DEF siteVars, SiteTypeOK, Calls
<1> QED
  BY SameCallsKeep, <1>1 DEF siteVars

LEMMA SiteStepKeeps ==
  ASSUME SiteAssumption, SiteInv, [SiteNext]_siteVars PROVE SiteInv'
<1>1. ASSUME NEW c \in Calls, SiteStep(c) PROVE SiteInv'
  BY <1>1, BeginKeeps, NoSlotKeeps, CallKeeps, DownstreamKeeps, GiveUpKeeps, SucceedKeeps DEF SiteStep
<1> QED
  BY <1>1, SendKeeps, StrikeKeeps, EndKeeps, StutterKeeps DEF SiteNext

\* A request that was answered 200 made all its downstream calls, and none
\* failed: for any services and calls among them, cycles included, any number
\* of requests, and faults that strike and end at any time.
THEOREM FailuresReachTheEntry == SiteSpec => []FailureReachesTheEntry
<1>1. SiteInit => SiteInv
  BY SiteStart
<1>2. SiteInv /\ [SiteNext]_siteVars => SiteInv'
  BY SiteStepKeeps, SiteAssumption
<1>3. SiteInv => FailureReachesTheEntry
  BY DEF SiteInv, CallsAsFarAs, FailureReachesTheEntry, Fine
<1> QED
  BY <1>1, <1>2, <1>3, PTL DEF SiteSpec

-----------------------------------------------------------------------------
(* EvaluationRun: the quiet time.  Merging and totalling are functions on   *)
(* the number of spans done; each exists, as a least number of spans for    *)
(* which it did not would be one more than one for which it does.           *)

\* Spans that hold an instant, that lie apart, that come in the order of their
\* beginning; the instants of one, and of the first k.
Span == [from : Int, to : Int]
NonEmpty(spans) == \A i \in 1..Len(spans) : spans[i].from < spans[i].to
Apart(spans) == \A i, j \in 1..Len(spans) : i < j => spans[i].to < spans[j].from
InTurn(spans) == \A i, j \in 1..Len(spans) : i <= j => spans[i].from <= spans[j].from
Instants(span) == {t \in Int : span.from <= t /\ t < span.to}
Covered(spans, k) == {t \in Int : \E i \in 1..k : spans[i].from <= t /\ t < spans[i].to}

\* What merging the first k spans comes to.
IsMerging(spans, n, merged) ==
  merged = [k \in 0..n |-> IF k = 0 THEN <<>>
                           ELSE IF spans[k].to <= spans[k].from THEN merged[k - 1]
                           ELSE Merge(merged[k - 1], spans[k])]

\* The list merged in quiet_seconds, after each span.
LEMMA MergingExists ==
  ASSUME NEW spans, NEW n \in Nat
  PROVE  \E merged : IsMerging(spans, n, merged)
<1> DEFINE Lacking == {m \in Nat : ~ \E merged : IsMerging(spans, m, merged)}
<1>1. SUFFICES ASSUME Lacking # {} PROVE FALSE
  BY <1>1
<1>2. PICK m \in Lacking : \A k \in Lacking : m <= k
  <2> HIDE DEF Lacking
  <2>1. Lacking \in SUBSET Nat
    BY DEF Lacking
  <2> QED BY <1>1, <2>1, LeastNatural
<1>3. CASE m = 0
  <2>1. IsMerging(spans, 0, [k \in 0..0 |-> <<>>])
    BY DEF IsMerging
  <2> QED BY <1>3, <2>1
<1>4. CASE m # 0
  <2>1. m - 1 \in Nat /\ m - 1 \notin Lacking
    <3> HIDE DEF Lacking
    <3>1. m \in Nat
      BY DEF Lacking
    <3> QED BY <1>2, <1>4, <3>1
  <2>2. PICK before : IsMerging(spans, m - 1, before)
    BY <2>1
  <2>3. PICK merged : merged = [k \in 0..m |->
           IF k < m THEN before[k]
           ELSE IF spans[m].to <= spans[m].from THEN before[m - 1]
           ELSE Merge(before[m - 1], spans[m])]
    OBVIOUS
  <2>4. m \in Nat
    OBVIOUS
  <2>5. DOMAIN merged = 0..m
    BY <2>3
  <2>6. \A k \in 0..m : k < m => merged[k] = before[k]
    BY <2>3
  <2>7. merged[m] = IF spans[m].to <= spans[m].from THEN before[m - 1]
                    ELSE Merge(before[m - 1], spans[m])
    BY <2>3, <2>4
  <2>8. ASSUME NEW k \in 0..m
        PROVE  merged[k] = IF k = 0 THEN <<>>
                           ELSE IF spans[k].to <= spans[k].from THEN merged[k - 1]
                           ELSE Merge(merged[k - 1], spans[k])
    <3>1. CASE k = m
      <4>1. merged[m - 1] = before[m - 1]
        BY <2>4, <2>6, <1>4
      <4> QED BY <4>1, <2>7, <3>1, <1>4
    <3>2. CASE k # m
      <4>1. k \in 0..(m - 1) /\ k < m /\ k \in Nat
        BY <3>2, <2>4
      <4>2. merged[k] = before[k]
        BY <4>1, <2>6
      <4>3. k # 0 => merged[k - 1] = before[k - 1]
        BY <4>1, <2>6, <2>4
      <4>4. before[k] = IF k = 0 THEN <<>>
                        ELSE IF spans[k].to <= spans[k].from THEN before[k - 1]
                        ELSE Merge(before[k - 1], spans[k])
        BY <2>2, <4>1 DEF IsMerging
      <4> QED BY <4>2, <4>3, <4>4
    <3> QED BY <3>1, <3>2
  <2>9. IsMerging(spans, m, merged)
    <3>1. merged = [k \in 0..m |-> merged[k]]
      BY <2>3
    <3> QED BY <3>1, <2>8 DEF IsMerging
  <2> QED BY <2>9
<1> QED BY <1>3, <1>4

\* What MergedSpans is the last of.
LEMMA MergedSpansAre ==
  ASSUME NEW spans, Len(spans) \in Nat
  PROVE  \E merged : IsMerging(spans, Len(spans), merged)
                     /\ MergedSpans(spans) = merged[Len(spans)]
<1> DEFINE n == Len(spans)
           Body(f) == [k \in 0..n |-> IF k = 0 THEN <<>>
                        ELSE IF spans[k].to <= spans[k].from THEN f[k - 1]
                        ELSE Merge(f[k - 1], spans[k])]
           merged == CHOOSE f : f = Body(f)
<1>1. PICK g : IsMerging(spans, n, g)
  BY MergingExists
<1>2. g = Body(g)
  BY <1>1 DEF IsMerging
<1>3. merged = Body(merged)
  BY <1>2
<1>4. MergedSpans(spans) = merged[n]
  BY DEF MergedSpans
<1>5. IsMerging(spans, n, merged)
  <2> HIDE DEF merged
  <2> QED BY <1>3 DEF IsMerging
<1> QED BY <1>4, <1>5

\* The sum of the lengths of the first k spans.
IsTotalling(spans, n, total) ==
  total = [k \in 0..n |-> IF k = 0 THEN 0
                          ELSE total[k - 1] + (spans[k].to - spans[k].from)]

\* Like MergingExists, for the sum.
LEMMA TotallingExists ==
  ASSUME NEW spans, NEW n \in Nat
  PROVE  \E total : IsTotalling(spans, n, total)
<1> DEFINE Lacking == {m \in Nat : ~ \E total : IsTotalling(spans, m, total)}
<1>1. SUFFICES ASSUME Lacking # {} PROVE FALSE
  BY <1>1
<1>2. PICK m \in Lacking : \A k \in Lacking : m <= k
  <2> HIDE DEF Lacking
  <2>1. Lacking \in SUBSET Nat
    BY DEF Lacking
  <2> QED BY <1>1, <2>1, LeastNatural
<1>3. CASE m = 0
  <2>1. IsTotalling(spans, 0, [k \in 0..0 |-> 0])
    BY DEF IsTotalling
  <2> QED BY <1>3, <2>1
<1>4. CASE m # 0
  <2>1. m - 1 \in Nat /\ m - 1 \notin Lacking
    <3> HIDE DEF Lacking
    <3>1. m \in Nat
      BY DEF Lacking
    <3> QED BY <1>2, <1>4, <3>1
  <2>2. PICK before : IsTotalling(spans, m - 1, before)
    BY <2>1
  <2>3. PICK total : total = [k \in 0..m |->
           IF k < m THEN before[k] ELSE before[m - 1] + (spans[m].to - spans[m].from)]
    OBVIOUS
  <2>4. m \in Nat
    OBVIOUS
  <2>6. \A k \in 0..m : k < m => total[k] = before[k]
    BY <2>3
  <2>7. total[m] = before[m - 1] + (spans[m].to - spans[m].from)
    BY <2>3, <2>4
  <2>8. ASSUME NEW k \in 0..m
        PROVE  total[k] = IF k = 0 THEN 0 ELSE total[k - 1] + (spans[k].to - spans[k].from)
    <3>1. CASE k = m
      <4>1. total[m - 1] = before[m - 1]
        BY <2>4, <2>6, <1>4
      <4> QED BY <4>1, <2>7, <3>1, <1>4
    <3>2. CASE k # m
      <4>1. k \in 0..(m - 1) /\ k < m /\ k \in Nat
        BY <3>2, <2>4
      <4>2. total[k] = before[k]
        BY <4>1, <2>6
      <4>3. k # 0 => total[k - 1] = before[k - 1]
        BY <4>1, <2>6, <2>4
      <4>4. before[k] = IF k = 0 THEN 0 ELSE before[k - 1] + (spans[k].to - spans[k].from)
        BY <2>2, <4>1 DEF IsTotalling
      <4> QED BY <4>2, <4>3, <4>4
    <3> QED BY <3>1, <3>2
  <2>9. IsTotalling(spans, m, total)
    <3>1. total = [k \in 0..m |-> total[k]]
      BY <2>3
    <3> QED BY <3>1, <2>8 DEF IsTotalling
  <2> QED BY <2>9
<1> QED BY <1>3, <1>4

\* What TotalTime is the last of.
LEMMA TotalTimeIs ==
  ASSUME NEW spans, Len(spans) \in Nat
  PROVE  \E total : IsTotalling(spans, Len(spans), total)
                    /\ TotalTime(spans) = total[Len(spans)]
<1> DEFINE n == Len(spans)
           Body(f) == [k \in 0..n |-> IF k = 0 THEN 0
                        ELSE f[k - 1] + (spans[k].to - spans[k].from)]
           total == CHOOSE f : f = Body(f)
<1>1. PICK g : IsTotalling(spans, n, g)
  BY TotallingExists
<1>2. g = Body(g)
  BY <1>1 DEF IsTotalling
<1>3. total = Body(total)
  BY <1>2
<1>4. TotalTime(spans) = total[n]
  BY DEF TotalTime
<1>5. IsTotalling(spans, n, total)
  <2> HIDE DEF total
  <2> QED BY <1>3 DEF IsTotalling
<1> QED BY <1>4, <1>5

-----------------------------------------------------------------------------
\* The ends of a span are instants.
LEMMA SpansTyped ==
  ASSUME NEW spans \in Seq(Span)
  PROVE  /\ Len(spans) \in Nat /\ DOMAIN spans = 1..Len(spans)
         /\ \A i \in 1..Len(spans) : /\ spans[i] \in Span
                                     /\ spans[i].from \in Int /\ spans[i].to \in Int
<1>1. Len(spans) \in Nat /\ DOMAIN spans = 1..Len(spans)
  OBVIOUS
<1>2. \A i \in 1..Len(spans) : spans[i] \in Span
  OBVIOUS
<1> QED BY <1>1, <1>2 DEF Span

\* The later of two instants.
LEMMA MaxOfTwo ==
  ASSUME NEW a \in Int, NEW b \in Int
  PROVE  Max({a, b}) = IF a >= b THEN a ELSE b
<1> DEFINE c == IF a >= b THEN a ELSE b
<1>1. c \in {a, b} /\ \A y \in {a, b} : c >= y
  OBVIOUS
<1>2. \A x \in {a, b} : (\A y \in {a, b} : x >= y) => x = c
  OBVIOUS
<1> QED BY <1>1, <1>2 DEF Max

\* The earlier of two instants.
LEMMA MinOfTwo ==
  ASSUME NEW a \in Int, NEW b \in Int
  PROVE  Min({a, b}) = IF a <= b THEN a ELSE b
<1> DEFINE c == IF a <= b THEN a ELSE b
<1>1. c \in {a, b} /\ \A y \in {a, b} : c <= y
  OBVIOUS
<1>2. \A x \in {a, b} : (\A y \in {a, b} : x <= y) => x = c
  OBVIOUS
<1> QED BY <1>1, <1>2 DEF Min

\* merged covers what the first k spans cover, in spans apart from each other,
\* none of which begins after a span that is yet to come.
IsMerged(spans, k, merged) ==
  /\ merged \in Seq(Span) /\ NonEmpty(merged) /\ Apart(merged)
  /\ Covered(merged, Len(merged)) = Covered(spans, k)
  /\ \A i \in 1..Len(merged), j \in (k + 1)..Len(spans) : merged[i].from <= spans[j].from

\* A window that lies outside the observed time covers nothing of it.
LEMMA MergeSkips ==
  ASSUME NEW spans \in Seq(Span), NEW k \in 1..Len(spans), NEW merged,
         IsMerged(spans, k - 1, merged), spans[k].to <= spans[k].from
  PROVE  IsMerged(spans, k, merged)
<1>1. spans[k] \in Span /\ k \in Nat /\ Len(spans) \in Nat
  OBVIOUS
<1>2. Covered(spans, k) = Covered(spans, k - 1)
  <2>1. \A t \in Int : ~ (spans[k].from <= t /\ t < spans[k].to)
    BY <1>1 DEF Span
  <2>2. \A i \in 1..k : i # k => i \in 1..(k - 1)
    BY <1>1
  <2>3. \A i \in 1..(k - 1) : i \in 1..k
    BY <1>1
  <2> QED BY <2>1, <2>2, <2>3 DEF Covered
<1>3. \A j \in (k + 1)..Len(spans) : j \in (k - 1 + 1)..Len(spans)
  BY <1>1
<1> QED BY <1>2, <1>3 DEF IsMerged

\* A span that begins within the last one prolongs it, if it ends later; any
\* other begins after all that is merged.
LEMMA MergeJoins ==
  ASSUME NEW spans \in Seq(Span), InTurn(spans), NEW k \in 1..Len(spans), NEW merged,
         IsMerged(spans, k - 1, merged), spans[k].from < spans[k].to
  PROVE  IsMerged(spans, k, Merge(merged, spans[k]))
<1> DEFINE s == spans[k]
           n == Len(merged)
           result == Merge(merged, s)
<1>1. s \in Span /\ s.from \in Int /\ s.to \in Int /\ k \in Nat /\ Len(spans) \in Nat
  BY SpansTyped
<1>2. /\ merged \in Seq(Span) /\ n \in Nat
      /\ \A i \in 1..n : merged[i] \in Span /\ merged[i].from \in Int /\ merged[i].to \in Int
      /\ \A i \in 1..n : merged[i].from < merged[i].to /\ merged[i].from <= s.from
      /\ \A i, j \in 1..n : i < j => merged[i].to < merged[j].from
      /\ Covered(merged, n) = Covered(spans, k - 1)
  <2>1. k \in (k - 1 + 1)..Len(spans)
    BY <1>1
  <2>2. merged \in Seq(Span)
    BY DEF IsMerged
  <2>3. /\ NonEmpty(merged) /\ Apart(merged) /\ Covered(merged, n) = Covered(spans, k - 1)
        /\ \A i \in 1..n : merged[i].from <= s.from
    BY <2>1 DEF IsMerged
  <2> QED BY <2>2, <2>3, SpansTyped DEF NonEmpty, Apart
<1>3. Covered(spans, k) = Covered(merged, n) \cup Instants(s)
  <2>1. \A i \in 1..k : i = k \/ i \in 1..(k - 1)
    BY <1>1
  <2>2. \A i \in 1..(k - 1) : i \in 1..k
    BY <1>1
  <2>3. Covered(spans, k) = Covered(spans, k - 1) \cup Instants(s)
    BY <2>1, <2>2, <1>1 DEF Covered, Instants
  <2> QED BY <2>3, <1>2
<1>4. \A j \in (k + 1)..Len(spans) : spans[j].from \in Int /\ s.from <= spans[j].from
  BY <1>1, SpansTyped DEF InTurn
<1>5. CASE merged # <<>> /\ s.from <= Last(merged).to
  <2>1. n \in 1..n /\ Last(merged) = merged[n]
    BY <1>2, <1>5 DEF Last
  <2>2. PICK top \in Int : top = IF merged[n].to >= s.to THEN merged[n].to ELSE s.to
    BY <1>1, <1>2, <2>1
  <2>3. Max({merged[n].to, s.to}) = top
    BY <2>2, <1>1, <1>2, <2>1, MaxOfTwo
  <2>4. result = [merged EXCEPT ![n] = [merged[n] EXCEPT !.to = top]]
    <3>1. result = [merged EXCEPT ![n].to = Max({@, s.to})]
      BY <1>5 DEF Merge
    <3> QED BY <3>1, <2>3, <2>1, <1>2, Zenon
  <2>5. [merged[n] EXCEPT !.to = top] = [from |-> merged[n].from, to |-> top]
    <3>1. PICK m : m = merged[n]
      OBVIOUS
    <3>2. m \in [from : Int, to : Int]
      BY <3>1, <1>2, <2>1 DEF Span
    <3>3. [m EXCEPT !.to = top] = [from |-> m.from, to |-> top]
      BY <3>2
    <3> QED BY <3>1, <3>3, Zenon
  <2>6. /\ result \in Seq(Span) /\ Len(result) = n
        /\ \A i \in 1..n : i # n => result[i] = merged[i]
        /\ result[n] = [from |-> merged[n].from, to |-> top]
    BY <2>4, <2>5, <1>2, <2>1 DEF Span
  <2> HIDE DEF result
  <2>7. /\ \A i \in 1..n : result[i].from = merged[i].from
        /\ \A i \in 1..n : i # n => result[i].to = merged[i].to
        /\ result[n].to = top /\ top >= merged[n].to /\ top >= s.to
        /\ top = merged[n].to \/ top = s.to
    BY <2>6, <2>2, <1>1, <1>2, <2>1
  <2>8. NonEmpty(result)
    BY <2>6, <2>7, <1>2, <2>1 DEF NonEmpty
  <2>9. Apart(result)
    BY <2>6, <2>7, <1>2, <2>1 DEF Apart
  <2>10. Covered(result, n) = Covered(merged, n) \cup Instants(s)
    <3>1. ASSUME NEW t \in Int, t \in Covered(result, n)
          PROVE  t \in Covered(merged, n) \cup Instants(s)
      <4>1. PICK i \in 1..n : result[i].from <= t /\ t < result[i].to
        BY <3>1 DEF Covered
      <4>2. CASE i # n
        BY <4>1, <4>2, <2>7 DEF Covered
      <4>3. CASE i = n /\ t < merged[n].to
        BY <4>1, <4>3, <2>7 DEF Covered
      <4>4. CASE i = n /\ ~ t < merged[n].to
        <5>1. s.from <= t /\ t < s.to
          BY <4>1, <4>4, <2>1, <2>7, <1>1, <1>2, <1>5
        <5> QED BY <5>1 DEF Instants
      <4> QED BY <4>2, <4>3, <4>4
    <3>2. ASSUME NEW t \in Int, t \in Covered(merged, n)
          PROVE  t \in Covered(result, n)
      <4>1. PICK i \in 1..n : merged[i].from <= t /\ t < merged[i].to
        BY <3>2 DEF Covered
      <4>2. result[i].from <= t /\ t < result[i].to
        BY <4>1, <2>7, <1>2, <2>1
      <4> QED BY <4>2 DEF Covered
    <3>3. ASSUME NEW t \in Int, t \in Instants(s)
          PROVE  t \in Covered(result, n)
      <4>1. result[n].from <= t /\ t < result[n].to
        BY <3>3, <2>7, <1>1, <1>2, <2>1 DEF Instants
      <4> QED BY <4>1, <2>1 DEF Covered
    <3>4. \A t \in Covered(result, n) \cup Covered(merged, n) \cup Instants(s) : t \in Int
      BY DEF Covered, Instants
    <3> QED BY <3>1, <3>2, <3>3, <3>4
  <2>11. \A i \in 1..n : \A j \in (k + 1)..Len(spans) : result[i].from <= spans[j].from
    <3> SUFFICES ASSUME NEW i \in 1..n, NEW j \in (k + 1)..Len(spans)
                 PROVE  result[i].from <= spans[j].from
      OBVIOUS
    <3>1. result[i].from <= s.from /\ result[i].from \in Int
      BY <2>7, <1>2
    <3>2. spans[j].from \in Int /\ s.from <= spans[j].from
      BY <1>4
    <3>3. s.from \in Int
      BY <1>1
    <3> HIDE DEF s
    <3> QED BY <3>1, <3>2, <3>3
  <2>12. IsMerged(spans, k, result)
    BY <2>6, <2>8, <2>9, <2>10, <2>11, <1>3 DEF IsMerged
  <2> QED BY <2>12 DEF result
<1>6. CASE ~ (merged # <<>> /\ s.from <= Last(merged).to)
  <2>1. result = Append(merged, s)
    BY <1>6 DEF Merge
  <2>2. /\ result \in Seq(Span) /\ Len(result) = n + 1
        /\ \A i \in 1..n : result[i] = merged[i]
        /\ result[n + 1] = s
    BY <2>1, <1>1, <1>2
  <2> HIDE DEF result
  <2>3. \A i \in 1..n : merged[i].to < s.from
    <3> SUFFICES ASSUME NEW i \in 1..n PROVE merged[i].to < s.from
      OBVIOUS
    <3>1. merged # <<>> /\ n \in 1..n /\ Last(merged) = merged[n]
      BY <1>2 DEF Last
    <3>2. merged[n].to < s.from
      BY <3>1, <1>6, <1>1, <1>2
    <3>3. i # n => merged[i].to < merged[n].from /\ merged[n].from < merged[n].to
      BY <3>1, <1>2
    <3> QED BY <3>1, <3>2, <3>3, <1>1, <1>2
  <2>4. \A i \in 1..(n + 1) : i \in 1..n \/ i = n + 1
    BY <1>2
  <2>5. NonEmpty(result)
    BY <2>2, <2>4, <1>2 DEF NonEmpty
  <2>6. Apart(result)
    <3> SUFFICES ASSUME NEW i \in 1..(n + 1), NEW j \in 1..(n + 1), i < j
                 PROVE  result[i].to < result[j].from
      BY <2>2 DEF Apart
    <3>1. i \in 1..n
      BY <1>2
    <3>2. CASE j = n + 1
      BY <3>1, <3>2, <2>2, <2>3
    <3>3. CASE j \in 1..n
      BY <3>1, <3>3, <2>2, <1>2
    <3> QED BY <3>2, <3>3, <2>4
  <2>7. Covered(result, n + 1) = Covered(merged, n) \cup Instants(s)
    <3>1. \A i \in 1..n : i \in 1..(n + 1)
      BY <1>2
    <3>2. n + 1 \in 1..(n + 1)
      BY <1>2
    <3> QED BY <2>2, <2>4, <3>1, <3>2 DEF Covered, Instants
  <2>8. \A i \in 1..(n + 1) : \A j \in (k + 1)..Len(spans) : result[i].from <= spans[j].from
    <3> SUFFICES ASSUME NEW i \in 1..(n + 1), NEW j \in (k + 1)..Len(spans)
                 PROVE  result[i].from <= spans[j].from
      OBVIOUS
    <3>1. result[i].from <= s.from /\ result[i].from \in Int
      <4>1. CASE i \in 1..n
        <5>1. result[i] = merged[i]
          BY <4>1, <2>2
        <5>2. merged[i].from <= s.from /\ merged[i].from \in Int
          BY <4>1, <1>2
        <5> QED BY <5>1, <5>2
      <4>2. CASE i = n + 1
        <5>1. result[i] = s
          BY <4>2, <2>2
        <5> QED BY <5>1, <1>1
      <4> QED BY <4>1, <4>2, <2>4
    <3>2. spans[j].from \in Int /\ s.from <= spans[j].from
      BY <1>4
    <3>3. s.from \in Int
      BY <1>1
    <3> HIDE DEF s
    <3> QED BY <3>1, <3>2, <3>3
  <2>9. IsMerged(spans, k, result)
    BY <2>2, <2>5, <2>6, <2>7, <2>8, <1>3 DEF IsMerged
  <2> QED BY <2>9 DEF result
<1> QED BY <1>5, <1>6

\* Merging loses no instant and leaves no overlap.
LEMMA MergedCover ==
  ASSUME NEW spans \in Seq(Span), InTurn(spans)
  PROVE  IsMerged(spans, Len(spans), MergedSpans(spans))
<1> DEFINE n == Len(spans)
<1>1. n \in Nat
  OBVIOUS
<1>2. PICK merged : IsMerging(spans, n, merged) /\ MergedSpans(spans) = merged[n]
  BY <1>1, MergedSpansAre
<1> DEFINE Wrong == {m \in 0..n : ~ IsMerged(spans, m, merged[m])}
<1>3. ASSUME Wrong # {} PROVE FALSE
  <2>1. Wrong \in SUBSET Nat
    BY <1>1
  <2>2. PICK m \in Wrong : \A k \in Wrong : m <= k
    <3> HIDE DEF Wrong
    <3> QED BY <1>3, <2>1, LeastNatural
  <2>3. m \in 0..n /\ m \in Nat /\ ~ IsMerged(spans, m, merged[m])
    BY <1>1
  <2>4. CASE m = 0
    <3>1. merged[m] = <<>>
      BY <1>2, <2>3, <2>4 DEF IsMerging
    <3>2. Covered(<<>>, 0) = Covered(spans, 0)
      BY DEF Covered
    <3>3. IsMerged(spans, 0, <<>>)
      BY <3>2 DEF IsMerged, NonEmpty, Apart
    <3> QED BY <3>1, <3>3, <2>3, <2>4
  <2>5. CASE m # 0
    <3>1. m - 1 \in 0..n /\ m \in 1..n
      BY <2>3, <2>5, <1>1
    <3>2. IsMerged(spans, m - 1, merged[m - 1])
      <4>1. m - 1 \notin Wrong
        <5> HIDE DEF Wrong
        <5> QED BY <2>2, <2>3
      <4> QED BY <4>1, <3>1
    <3>3. merged[m] = IF spans[m].to <= spans[m].from THEN merged[m - 1]
                      ELSE Merge(merged[m - 1], spans[m])
      BY <1>2, <2>3, <2>5 DEF IsMerging
    <3>4. spans[m].to \in Int /\ spans[m].from \in Int
      BY <3>1, SpansTyped
    <3>5. CASE spans[m].to <= spans[m].from
      BY <3>1, <3>2, <3>3, <3>5, <2>3, MergeSkips
    <3>6. CASE ~ spans[m].to <= spans[m].from
      BY <3>1, <3>2, <3>3, <3>4, <3>6, <2>3, MergeJoins
    <3> QED BY <3>5, <3>6
  <2> QED BY <2>4, <2>5
<1>4. n \in 0..n /\ n \notin Wrong
  <2> HIDE DEF Wrong
  <2> QED BY <1>1, <1>3
<1> QED BY <1>2, <1>4

\* A span is as long as it has instants.
LEMMA SpanLasts ==
  ASSUME NEW a \in Int, NEW b \in Int, a < b
  PROVE  /\ IsFiniteSet({t \in Int : a <= t /\ t < b})
         /\ Cardinality({t \in Int : a <= t /\ t < b}) = b - a
<1>1. PICK c \in Int : c = b - 1
  OBVIOUS
<1>2. {t \in Int : a <= t /\ t < b} = a..c
  BY <1>1
<1>3. /\ IsFiniteSet(a..c)
      /\ Cardinality(a..c) = IF a > c THEN 0 ELSE c - a + 1
  BY FS_Interval
<1>4. Cardinality(a..c) = b - a
  BY <1>1, <1>3
<1> QED BY <1>2, <1>3, <1>4

\* The sum counts every instant of spans that lie apart once.
LEMMA TotalIsCovered ==
  ASSUME NEW spans \in Seq(Span), NonEmpty(spans), Apart(spans)
  PROVE  /\ IsFiniteSet(Covered(spans, Len(spans)))
         /\ TotalTime(spans) = Cardinality(Covered(spans, Len(spans)))
<1> DEFINE n == Len(spans)
           Right(m, x) == IsFiniteSet(Covered(spans, m)) /\ x = Cardinality(Covered(spans, m))
<1>1. /\ n \in Nat
      /\ \A i \in 1..n : spans[i].from \in Int /\ spans[i].to \in Int
  BY SpansTyped
<1>2. PICK total : IsTotalling(spans, n, total) /\ TotalTime(spans) = total[n]
  BY <1>1, TotalTimeIs
<1> DEFINE Wrong == {m \in 0..n : ~ Right(m, total[m])}
<1>3. ASSUME Wrong # {} PROVE FALSE
  <2>1. Wrong \in SUBSET Nat
    BY <1>1
  <2>2. PICK m \in Wrong : \A k \in Wrong : m <= k
    <3> HIDE DEF Wrong
    <3> QED BY <1>3, <2>1, LeastNatural
  <2>3. m \in 0..n /\ m \in Nat /\ ~ Right(m, total[m])
    BY <1>1
  <2>4. CASE m = 0
    <3>1. total[m] = 0
      BY <1>2, <2>3, <2>4 DEF IsTotalling
    <3>2. Covered(spans, 0) = {}
      BY DEF Covered
    <3> QED BY <3>1, <3>2, <2>3, <2>4, FS_EmptySet
  <2>5. CASE m # 0
    <3>1. m - 1 \in 0..n /\ m \in 1..n
      BY <2>3, <2>5, <1>1
    <3>2. Right(m - 1, total[m - 1])
      <4>1. m - 1 \notin Wrong
        <5> HIDE DEF Wrong
        <5> QED BY <2>2, <2>3
      <4> QED BY <4>1, <3>1
    <3>3. total[m] = total[m - 1] + (spans[m].to - spans[m].from)
      BY <1>2, <2>3, <2>5 DEF IsTotalling
    <3>4. PICK a \in Int, b \in Int : a = spans[m].from /\ b = spans[m].to /\ a < b
      BY <3>1, <1>1 DEF NonEmpty
    <3> DEFINE last == {t \in Int : a <= t /\ t < b}
               rest == Covered(spans, m - 1)
    <3>5. IsFiniteSet(last) /\ Cardinality(last) = b - a
      BY <3>4, SpanLasts
    <3>6. Covered(spans, m) = rest \cup last
      <4>1. \A i \in 1..m : i = m \/ i \in 1..(m - 1)
        BY <2>3
      <4>2. \A i \in 1..(m - 1) : i \in 1..m
        BY <2>3
      <4> QED BY <4>1, <4>2, <3>1, <3>4 DEF Covered
    <3>7. rest \cap last = {}
      <4>1. SUFFICES ASSUME NEW t \in Int, t \in rest, a <= t PROVE FALSE
        OBVIOUS
      <4>2. PICK i \in 1..(m - 1) : spans[i].from <= t /\ t < spans[i].to
        BY <4>1 DEF Covered
      <4>3. i \in 1..n /\ i < m
        BY <3>1, <1>1
      <4>4. spans[i].to < a /\ spans[i].to \in Int
        BY <4>3, <3>1, <3>4, <1>1 DEF Apart
      <4> QED BY <4>1, <4>2, <4>4
    <3>8. IsFiniteSet(rest) /\ Cardinality(rest) \in Nat /\ total[m - 1] = Cardinality(rest)
      BY <3>2, FS_CardinalityType
    <3> HIDE DEF rest, last
    <3>9. /\ IsFiniteSet(rest \cup last)
          /\ Cardinality(rest \cup last)
               = Cardinality(rest) + Cardinality(last) - Cardinality({})
      BY <3>5, <3>7, <3>8, FS_Union
    <3>10. Cardinality(rest \cup last) = total[m]
      BY <3>3, <3>4, <3>5, <3>8, <3>9, FS_EmptySet
    <3> QED BY <3>6, <3>9, <3>10, <2>3
  <2> QED BY <2>4, <2>5
<1>4. n \in 0..n /\ n \notin Wrong
  <2> HIDE DEF Wrong
  <2> QED BY <1>1, <1>3
<1> QED BY <1>2, <1>4

-----------------------------------------------------------------------------
\* A row of fault_scenarios; recovered holds t_recovered, if there is one.
IsFault(f) ==
  /\ f = [service |-> f.service, lasts |-> f.lasts, inject |-> f.inject, recovered |-> f.recovered]
  /\ f.inject \in Nat
  /\ f.recovered = {} \/ \E t \in Nat : f.recovered = {t}

FaultRows(faults) ==
  /\ faults \in Seq(Range(faults))
  /\ \A k \in 1..Len(faults) : IsFault(faults[k])
  /\ \A i, j \in 1..Len(faults) : i <= j => faults[i].inject <= faults[j].inject

\* A fault's window begins with it and ends some time.
LEMMA WindowIs ==
  ASSUME NEW f, IsFault(f)
  PROVE  FaultWindow(f).from = f.inject /\ FaultWindow(f).to \in Int
<1>1. PICK a \in Nat : a = f.inject
  BY DEF IsFault
<1>2. \E b \in Int : Max({a} \cup f.recovered) = b
  <2>1. CASE f.recovered = {}
    <3>1. {a} \cup f.recovered = {a, a}
      BY <2>1
    <3> QED BY <3>1, MaxOfTwo
  <2>2. CASE f.recovered # {}
    <3>1. PICK t \in Nat : f.recovered = {t}
      BY <2>2 DEF IsFault
    <3>2. {a} \cup f.recovered = {a, t}
      BY <3>1
    <3> QED BY <3>2, MaxOfTwo
  <2> QED BY <2>1, <2>2
<1>3. GraceAfter \in Nat
  BY EvaluationAssumption
<1>4. FaultWindow(f) = [from |-> a, to |-> Max({a} \cup f.recovered) + GraceAfter]
  BY <1>1 DEF FaultWindow
<1> HIDE DEF FaultWindow
<1> QED BY <1>1, <1>2, <1>3, <1>4

\* scoring.py's quiet_seconds, for any rows of fault_scenarios in the order of
\* their injection.
LEMMA QuietSecondsAre ==
  ASSUME NEW faults, FaultRows(faults), NEW from \in Int, NEW until \in Int, from <= until
  PROVE  QuietSeconds(from, until, faults)
           = until - from - Cardinality({t \in from..(until - 1) :
                 \E k \in DOMAIN faults : /\ FaultWindow(faults[k]).from <= t
                                          /\ t < FaultWindow(faults[k]).to})
<1> DEFINE n == Len(faults)
           W(k) == FaultWindow(faults[k])
           spans == [k \in DOMAIN faults |-> ClippedWindow(faults[k], from, until)]
           merged == MergedSpans(spans)
           observable == {t \in from..(until - 1) : \E k \in DOMAIN faults :
                            W(k).from <= t /\ t < W(k).to}
<1>1. n \in Nat /\ DOMAIN faults = 1..n
  BY DEF FaultRows
<1>2. \A k \in 1..n : W(k).from = faults[k].inject /\ W(k).from \in Int /\ W(k).to \in Int
  <2> SUFFICES ASSUME NEW k \in 1..n
               PROVE  W(k).from = faults[k].inject /\ W(k).from \in Int /\ W(k).to \in Int
    OBVIOUS
  <2>1. IsFault(faults[k]) /\ faults[k].inject \in Int
    BY DEF FaultRows, IsFault
  <2> HIDE DEF W
  <2>2. W(k).from = faults[k].inject /\ W(k).to \in Int
    BY <2>1, WindowIs DEF W
  <2> QED BY <2>1, <2>2
<1>3. \A k \in 1..n : /\ spans[k] \in Span
                      /\ spans[k].from = IF W(k).from >= from THEN W(k).from ELSE from
                      /\ spans[k].to = IF W(k).to <= until THEN W(k).to ELSE until
  <2> SUFFICES ASSUME NEW k \in 1..n
               PROVE  /\ spans[k] \in Span
                      /\ spans[k].from = IF W(k).from >= from THEN W(k).from ELSE from
                      /\ spans[k].to = IF W(k).to <= until THEN W(k).to ELSE until
    OBVIOUS
  <2>1. PICK a \in Int, b \in Int : a = W(k).from /\ b = W(k).to
    BY <1>2
  <2>2. spans[k] = [from |-> Max({a, from}), to |-> Min({b, until})]
    BY <1>1, <2>1 DEF ClippedWindow
  <2> HIDE DEF spans, W
  <2>3. spans[k] = [from |-> IF a >= from THEN a ELSE from, to |-> IF b <= until THEN b ELSE until]
    BY <2>2, MaxOfTwo, MinOfTwo
  <2> QED BY <2>1, <2>3 DEF Span
<1>4. DOMAIN spans = 1..n /\ spans = [k \in 1..n |-> spans[k]]
  BY <1>1
<1> HIDE DEF spans
<1>5. spans \in Seq(Span) /\ Len(spans) = n
  <2>1. spans \in [1..n -> Span]
    BY <1>3, <1>4
  <2> QED BY <2>1, <1>1
<1>6. InTurn(spans)
  <2> SUFFICES ASSUME NEW i \in 1..n, NEW j \in 1..n, i <= j
               PROVE  spans[i].from <= spans[j].from
    BY <1>5 DEF InTurn
  <2>1. W(i).from <= W(j).from
    BY <1>1, <1>2 DEF FaultRows
  <2>2. W(i).from \in Int /\ W(j).from \in Int
    BY <1>2
  <2> HIDE DEF W
  <2> QED BY <2>1, <2>2, <1>3
<1>7. /\ merged \in Seq(Span) /\ NonEmpty(merged) /\ Apart(merged)
      /\ Covered(merged, Len(merged)) = Covered(spans, n)
  BY <1>5, <1>6, MergedCover DEF IsMerged
<1>8. Covered(spans, n) = observable
  <2>1. ASSUME NEW t \in Int, NEW k \in 1..n
        PROVE  spans[k].from <= t /\ t < spans[k].to
                 <=> t \in from..(until - 1) /\ W(k).from <= t /\ t < W(k).to
    <3>1. PICK a \in Int, b \in Int : a = W(k).from /\ b = W(k).to
      BY <1>2
    <3>2. /\ spans[k].from = IF a >= from THEN a ELSE from
          /\ spans[k].to = IF b <= until THEN b ELSE until
      BY <1>3, <3>1
    <3> HIDE DEF W
    <3> QED BY <3>1, <3>2
  <2> HIDE DEF W
  <2>2. \A t \in observable : t \in Int
    OBVIOUS
  <2> QED BY <2>1, <2>2, <1>1 DEF Covered
<1>9. /\ IsFiniteSet(observable) /\ TotalTime(merged) = Cardinality(observable)
  BY <1>7, <1>8, TotalIsCovered
<1>10. /\ Cardinality(observable) \in Nat
       /\ Cardinality(observable) <= until - from
  <2>1. PICK c \in Int : c = until - 1
    OBVIOUS
  <2>2. IsFiniteSet(from..c) /\ Cardinality(from..c) = IF from > c THEN 0 ELSE c - from + 1
    BY FS_Interval
  <2>3. observable \subseteq from..c
    BY <2>1
  <2> HIDE DEF observable
  <2>4. Cardinality(observable) <= Cardinality(from..c)
    BY <2>2, <2>3, FS_Subset
  <2>5. Cardinality(observable) \in Nat
    BY <1>9, FS_CardinalityType
  <2> QED BY <2>1, <2>2, <2>4, <2>5
<1>11. QuietSeconds(from, until, faults)
         = IF until <= from THEN 0 ELSE Max({until - from - TotalTime(merged), 0})
  BY DEF QuietSeconds, spans
<1> HIDE DEF observable, merged
<1>12. QuietSeconds(from, until, faults) = until - from - Cardinality(observable)
  <2>1. CASE until <= from
    BY <1>10, <1>11, <2>1
  <2>2. CASE ~ until <= from
    <3>1. PICK x \in Int : x = until - from - Cardinality(observable) /\ x >= 0
      BY <1>10
    <3>2. QuietSeconds(from, until, faults) = Max({x, 0})
      BY <1>9, <1>11, <2>2, <3>1
    <3> QED BY <3>1, <3>2, MaxOfTwo
  <2> QED BY <2>1, <2>2
<1> QED BY <1>12 DEF observable

\* The rows are in the order of their injection, and the observation ends no
\* earlier than it began: what quiet_seconds assumes of what it is given.
EvaluationInv ==
  /\ instant \in Nat
  /\ "at" \in DOMAIN harness
  /\ observed \in [from : 0..instant, until : 0..instant]
  /\ harness.at \in {"stopping", "scored"} => observed.from <= observed.until
  /\ FaultRows(injected)
  /\ \A k \in 1..Len(injected) : injected[k].inject <= instant
  /\ QuietTimeIsCountedOnce

\* A function on the first numbers is a sequence.
LEMMA FunctionIsSeq ==
  ASSUME NEW n \in Nat, NEW s, s = [i \in 1..n |-> s[i]]
  PROVE  s \in Seq(Range(s)) /\ Len(s) = n
<1>1. PICK R : R = Range(s)
  OBVIOUS
<1>2. \A i \in 1..n : s[i] \in R
  BY <1>1 DEF Range
<1>3. s \in [1..n -> R]
  BY <1>2
<1>4. s \in Seq(R) /\ Len(s) = n
  BY <1>3
<1> QED BY <1>1, <1>4

\* The harness injects later and later.
LEMMA RowInjected ==
  ASSUME FaultRows(injected), NEW row, IsFault(row),
         \A k \in 1..Len(injected) : injected[k].inject <= row.inject
  PROVE  /\ FaultRows(Append(injected, row))
         /\ \A k \in 1..Len(Append(injected, row)) : Append(injected, row)[k].inject <= row.inject
<1> DEFINE n == Len(injected)
<1>1. PICK after : after = Append(injected, row)
  OBVIOUS
<1>2. injected \in Seq(Range(injected) \cup {row}) /\ n \in Nat
  <2>1. PICK S : S = Range(injected)
    OBVIOUS
  <2>2. injected \in Seq(S)
    BY <2>1 DEF FaultRows
  <2>3. injected \in Seq(S \cup {row}) /\ n \in Nat
    BY <2>2
  <2> QED BY <2>1, <2>3
<1>3. PICK S : S = Range(injected) \cup {row}
  OBVIOUS
<1>4. /\ after \in Seq(S) /\ Len(after) = n + 1
      /\ \A k \in 1..n : after[k] = injected[k]
      /\ after[n + 1] = row
  BY <1>1, <1>2, <1>3
<1>5. \A k \in 1..(n + 1) : k \in 1..n \/ k = n + 1
  BY <1>2
<1>6. /\ \A k \in 1..n : IsFault(injected[k]) /\ injected[k].inject \in Nat
      /\ \A i, j \in 1..n : i <= j => injected[i].inject <= injected[j].inject
      /\ row.inject \in Nat
  BY DEF FaultRows, IsFault
<1>7. \A k \in 1..(n + 1) : IsFault(after[k]) /\ after[k].inject <= row.inject
  BY <1>4, <1>5, <1>6
<1>8. \A i, j \in 1..(n + 1) : i <= j => after[i].inject <= after[j].inject
  <2> SUFFICES ASSUME NEW i \in 1..(n + 1), NEW j \in 1..(n + 1), i <= j
               PROVE  after[i].inject <= after[j].inject
    OBVIOUS
  <2>1. CASE j = n + 1
    BY <2>1, <1>4, <1>7
  <2>2. CASE j # n + 1
    <3>1. i \in 1..n /\ j \in 1..n
      BY <2>2, <1>2
    <3> QED BY <3>1, <1>4, <1>6
  <2> QED BY <2>1, <2>2
<1>9. after \in Seq(Range(after))
  BY <1>4, SeqOfRange
<1> QED BY <1>1, <1>4, <1>7, <1>8, <1>9 DEF FaultRows

\* A recovery does not move its row.
LEMMA RowWithdrawn ==
  ASSUME FaultRows(injected), NEW i \in DOMAIN injected, NEW t \in Nat,
         NEW after, after = [injected EXCEPT ![i].recovered = {t}]
  PROVE  /\ FaultRows(after) /\ Len(after) = Len(injected)
         /\ \A k \in 1..Len(injected) : after[k].inject = injected[k].inject
<1> DEFINE n == Len(injected)
<1>1. injected \in Seq(Range(injected)) /\ n \in Nat /\ DOMAIN injected = 1..n
  BY DEF FaultRows
<1>2. PICK row : row = [injected[i] EXCEPT !.recovered = {t}]
  OBVIOUS
<1>3. IsFault(injected[i])
  BY <1>1 DEF FaultRows
<1>4. PICK old : old = injected[i]
  OBVIOUS
<1>5. IsFault(row) /\ row.inject = injected[i].inject
  <2>1. old = [service |-> old.service, lasts |-> old.lasts, inject |-> old.inject,
               recovered |-> old.recovered]
    BY <1>3, <1>4 DEF IsFault
  <2>2. row = [service |-> old.service, lasts |-> old.lasts, inject |-> old.inject,
               recovered |-> {t}]
    BY <1>2, <1>4, <2>1
  <2> QED BY <2>2, <1>3, <1>4 DEF IsFault
<1>6. after = [injected EXCEPT ![i] = row]
  BY <1>2, <1>1, Zenon
<1>7. /\ DOMAIN after = 1..n /\ after = [k \in 1..n |-> after[k]]
      /\ \A k \in 1..n : after[k] = IF k = i THEN row ELSE injected[k]
  BY <1>1, <1>6
<1>8. after \in Seq(Range(after)) /\ Len(after) = n
  <2>1. PICK m \in Nat : m = n
    BY <1>1
  <2>2. after = [k \in 1..m |-> after[k]]
    BY <1>7, <2>1
  <2> HIDE DEF n
  <2>3. after \in Seq(Range(after)) /\ Len(after) = m
    BY <2>2, FunctionIsSeq
  <2> QED BY <2>1, <2>3
<1>9. \A k \in 1..n : IsFault(after[k]) /\ after[k].inject = injected[k].inject
  BY <1>5, <1>7 DEF FaultRows
<1>10. \A j, k \in 1..n : j <= k => after[j].inject <= after[k].inject
  BY <1>9 DEF FaultRows
<1> QED BY <1>8, <1>9, <1>10 DEF FaultRows

\* Before anything is injected.
LEMMA EvaluationStart == EvalInit => EvaluationInv
<1> SUFFICES ASSUME EvalInit PROVE EvaluationInv
  OBVIOUS
<1>1. FaultRows(injected) /\ Len(injected) = 0
  BY SeqOfRange DEF EvalInit, FaultRows
<1> QED BY <1>1 DEF EvalInit, EvaluationInv, QuietTimeIsCountedOnce, Scored

\* Once it is given, nothing the report's quiet time was reckoned from moves.
LEMMA ReportStands ==
  ASSUME QuietTimeIsCountedOnce, UNCHANGED <<observed, score>>, Scored' => Scored
  PROVE  QuietTimeIsCountedOnce'
BY DEF QuietTimeIsCountedOnce

\* Before the report there is nothing to show.
LEMMA NotScored ==
  ASSUME ~ Scored'
  PROVE  QuietTimeIsCountedOnce'
BY DEF QuietTimeIsCountedOnce

\* Time passes.
LEMMA PassStep == EvaluationInv /\ Pass => EvaluationInv'
<1> SUFFICES ASSUME EvaluationInv, Pass PROVE EvaluationInv'
  OBVIOUS
<1>1. UNCHANGED <<harness, observed, injected, score>> /\ instant' = instant + 1 /\ instant \in Nat
  BY DEF Pass, EvaluationInv
<1>2. QuietTimeIsCountedOnce'
  BY <1>1, ReportStands DEF EvaluationInv, Scored
<1>3. observed' \in [from : 0..instant', until : 0..instant']
  BY <1>1 DEF EvaluationInv
<1>4. \A k \in 1..Len(injected) : injected[k].inject <= instant + 1
  <2> SUFFICES ASSUME NEW k \in 1..Len(injected) PROVE injected[k].inject <= instant + 1
    OBVIOUS
  <2>1. injected[k].inject \in Nat
    BY DEF EvaluationInv, FaultRows, IsFault
  <2>2. injected[k].inject <= instant
    BY DEF EvaluationInv
  <2> QED BY <1>1, <2>1, <2>2
<1> QED BY <1>1, <1>2, <1>3, <1>4 DEF EvaluationInv, FaultRows

\* Alerts come in and are collected.
LEMMA ListenStep ==
  EvaluationInv /\ (Collect \/ \E noise \in Noise : Raise(noise)) => EvaluationInv'
<1> SUFFICES ASSUME EvaluationInv, Collect \/ \E noise \in Noise : Raise(noise)
             PROVE  EvaluationInv'
  OBVIOUS
<1>1. UNCHANGED <<instant, harness, observed, injected, score>>
  BY DEF Collect, Raise
<1>2. QuietTimeIsCountedOnce'
  BY <1>1, ReportStands DEF EvaluationInv, Scored
<1> QED BY <1>1, <1>2 DEF EvaluationInv, FaultRows

\* A fault is withdrawn, before or after the report.
LEMMA WithdrawStep ==
  ASSUME EvaluationInv, NEW i \in DOMAIN injected, Withdraw(i)
  PROVE  EvaluationInv'
<1>1. /\ UNCHANGED <<instant, harness, observed, score>> /\ instant \in Nat
      /\ injected' = [injected EXCEPT ![i].recovered = {instant}]
  BY DEF Withdraw, EvaluationInv
<1>2. QuietTimeIsCountedOnce'
  BY <1>1, ReportStands DEF EvaluationInv, Scored
<1>3. /\ FaultRows(injected') /\ Len(injected') = Len(injected)
      /\ \A k \in 1..Len(injected) : injected'[k].inject = injected[k].inject
  BY <1>1, RowWithdrawn DEF EvaluationInv
<1>4. FaultRows(injected)'
  BY <1>3 DEF FaultRows
<1> QED BY <1>1, <1>2, <1>3, <1>4 DEF EvaluationInv

\* The steps of run_live that inject nothing and score nothing.
LEMMA RunStep ==
  ASSUME EvaluationInv, \/ \E answer \in Implemented : Plan(answer)
                        \/ BeginObservation \/ InjectionFails \/ WatchQuietTime \/ EndObservation
  PROVE  EvaluationInv'
<1>1. /\ UNCHANGED <<instant, injected, score>> /\ instant \in Nat
      /\ "at" \in DOMAIN harness /\ observed \in [from : 0..instant, until : 0..instant]
  BY DEF Plan, BeginObservation, InjectionFails, WatchQuietTime, EndObservation, EvaluationInv
<1>2. CASE \E answer \in Implemented : Plan(answer)
  <2>1. "at" \in DOMAIN harness' /\ harness'.at \in {"aborted", "warming"} /\ observed' = observed
    BY <1>1, <1>2 DEF Plan
  <2>2. QuietTimeIsCountedOnce'
    BY <2>1, NotScored DEF Scored
  <2> QED BY <1>1, <2>1, <2>2 DEF EvaluationInv, FaultRows
<1>3. CASE BeginObservation \/ InjectionFails \/ WatchQuietTime
  <2>1. /\ "at" \in DOMAIN harness' /\ harness'.at \in {"injecting", "watching"}
        /\ observed' \in [from : 0..instant, until : 0..instant]
    <3>1. BeginObservation => /\ harness' = [harness EXCEPT !.at = "injecting"]
                              /\ observed' = [observed EXCEPT !.from = instant]
      BY DEF BeginObservation
    <3>2. InjectionFails => /\ harness' = [harness EXCEPT !.specs = Tail(@)]
                            /\ harness.at = "injecting" /\ observed' = observed
      BY DEF InjectionFails, Awake
    <3>3. WatchQuietTime =>
             /\ harness' = [harness EXCEPT !.at = "watching", !.until = instant + QuietTail]
             /\ observed' = observed
      BY DEF WatchQuietTime
    <3>4. CASE BeginObservation
      BY <1>1, <3>1, <3>4
    <3>5. CASE InjectionFails
      BY <1>1, <3>2, <3>5
    <3>6. CASE WatchQuietTime
      BY <1>1, <3>3, <3>6
    <3> QED BY <1>3, <3>4, <3>5, <3>6
  <2>2. QuietTimeIsCountedOnce'
    BY <2>1, NotScored DEF Scored
  <2> QED BY <1>1, <2>1, <2>2 DEF EvaluationInv, FaultRows
<1>4. CASE EndObservation
  <2>1. /\ "at" \in DOMAIN harness' /\ harness'.at = "stopping"
        /\ observed' \in [from : 0..instant, until : 0..instant]
        /\ observed'.from <= observed'.until
    BY <1>1, <1>4 DEF EndObservation
  <2>2. QuietTimeIsCountedOnce'
    BY <2>1, NotScored DEF Scored
  <2> QED BY <1>1, <2>1, <2>2 DEF EvaluationInv, FaultRows
<1> QED BY <1>2, <1>3, <1>4

\* A fault is injected: its row is the latest.
LEMMA InjectStep == EvaluationInv /\ InjectNext => EvaluationInv'
<1> SUFFICES ASSUME EvaluationInv, InjectNext PROVE EvaluationInv'
  OBVIOUS
<1> DEFINE spec == Head(harness.specs)
<1>1. PICK row : row = [service |-> spec.service, lasts |-> spec.lasts,
                        inject |-> instant, recovered |-> {}]
  OBVIOUS
<1>2. /\ UNCHANGED <<instant, observed, score>> /\ instant \in Nat
      /\ injected' = Append(injected, row)
      /\ "at" \in DOMAIN harness' /\ harness'.at = "injecting"
  BY <1>1 DEF InjectNext, Awake, EvaluationInv
<1>3. IsFault(row) /\ row.inject = instant
  BY <1>1, <1>2 DEF IsFault
<1>4. /\ FaultRows(injected')
      /\ \A k \in 1..Len(injected') : injected'[k].inject <= instant
  BY <1>2, <1>3, RowInjected DEF EvaluationInv
<1>5. FaultRows(injected)'
  BY <1>4 DEF FaultRows
<1>6. QuietTimeIsCountedOnce'
  BY <1>2, NotScored DEF Scored
<1> QED BY <1>2, <1>4, <1>5, <1>6 DEF EvaluationInv

\* score_run: the report is made of the rows as they are now.
LEMMA ScoreStep ==
  ASSUME EvaluationInv, NEW observable \in SUBSET DOMAIN injected, ScoreRun(observable)
  PROVE  EvaluationInv'
<1>1. /\ UNCHANGED <<instant, observed, injected>> /\ harness.at = "stopping"
      /\ harness' = [harness EXCEPT !.at = IF injected = <<>> THEN "aborted" ELSE "scored"]
      /\ "at" \in DOMAIN harness /\ instant \in Nat
      /\ FaultRows(injected) /\ observed \in [from : 0..instant, until : 0..instant]
      /\ observed.from <= observed.until
  BY DEF ScoreRun, EvaluationInv
<1>2. QuietTimeIsCountedOnce'
  <2>1. CASE injected = <<>>
    BY <1>1, <2>1, NotScored DEF Scored
  <2>2. CASE injected # <<>>
    <3>1. /\ score'.scenarios = injected
          /\ score'.quiet = QuietSeconds(observed.from, observed.until, injected)
      BY <2>2 DEF ScoreRun
    <3>2. observed.from \in Int /\ observed.until \in Int
      BY <1>1
    <3> DEFINE covered == {t \in observed.from..(observed.until - 1) :
                   \E k \in DOMAIN injected : /\ FaultWindow(injected[k]).from <= t
                                              /\ t < FaultWindow(injected[k]).to}
    <3>3. score'.quiet = observed.until - observed.from - Cardinality(covered)
      BY <1>1, <3>1, <3>2, QuietSecondsAre
    <3> QED BY <1>1, <3>1, <3>3 DEF QuietTimeIsCountedOnce, FaultWindow
  <2> QED BY <2>1, <2>2
<1> QED BY <1>1, <1>2 DEF EvaluationInv, FaultRows

\* All of them.
LEMMA EvaluationStep == EvaluationInv /\ [EvalNext]_evalVars => EvaluationInv'
<1> SUFFICES ASSUME EvaluationInv, [EvalNext]_evalVars PROVE EvaluationInv'
  OBVIOUS
<1>1. CASE UNCHANGED evalVars
  <2>1. UNCHANGED <<instant, harness, observed, injected, score>>
    BY <1>1 DEF evalVars
  <2> QED BY <2>1 DEF EvaluationInv, FaultRows, QuietTimeIsCountedOnce, Scored
<1> QED BY <1>1, PassStep, ListenStep, WithdrawStep, RunStep, InjectStep, ScoreStep DEF EvalNext

\* A report divides its false positives by the observed seconds that no fault
\* window covers: quiet_seconds counts each covered second once, for any
\* windows, overlapping, nested or outside what was observed.
THEOREM QuietTimeIsFaultFree == EvalSpec => []QuietTimeIsCountedOnce
<1>1. EvaluationInv => QuietTimeIsCountedOnce
  BY DEF EvaluationInv
<1> QED BY <1>1, EvaluationStart, EvaluationStep, PTL DEF EvalSpec

-----------------------------------------------------------------------------
(* MetricsPipeline, OrderHistory: the types of their variables.            *)

PipelineTypeInv ==
  /\ PipelineTypeOK
  /\ Len(raw) \in Nat /\ position \in Nat /\ offset \in Nat
  /\ bridge = "polling" => cycle > 0

\* A record on the topic, with no row yet.
LEMMA ProduceTypes ==
  ASSUME PipelineTypeInv, NEW r \in SampleRecord \cup Foreign, Produce(r),
         UNCHANGED <<position, offset, batch, sinkAt, sinkCrashes>>
  PROVE  /\ raw' \in Seq(SampleRecord \cup Foreign) /\ Len(raw') \in Nat
         /\ position' \in 0..Len(raw') /\ offset' \in 0..position'
         /\ batch' \in Seq(DOMAIN raw')
         /\ metrics' \in [DOMAIN raw' -> Nat]
<1>1. PICK n \in Nat : n = Len(raw)
  BY DEF PipelineTypeInv
<1>2. /\ raw \in Seq(SampleRecord \cup Foreign) /\ DOMAIN raw = 1..n
      /\ position \in 0..n /\ offset \in 0..position
      /\ batch \in Seq(1..n) /\ metrics \in [1..n -> Nat]
  <2>1. DOMAIN raw = 1..Len(raw)
    BY DEF PipelineTypeInv, PipelineTypeOK
  <2> QED BY <1>1, <2>1 DEF PipelineTypeInv, PipelineTypeOK
<1>3. /\ raw' \in Seq(SampleRecord \cup Foreign) /\ Len(raw') = n + 1 /\ DOMAIN raw' = 1..(n + 1)
  BY <1>1, <1>2 DEF Produce
<1>4. metrics \in Seq(Nat) /\ Len(metrics) = n
  BY <1>2
<1>5. metrics' \in Seq(Nat) /\ Len(metrics') = n + 1
  BY <1>4 DEF Produce
<1>6. metrics' \in [1..(n + 1) -> Nat]
  BY <1>5
<1>7. batch \in Seq(1..(n + 1))
  <2>1. 1..n \subseteq 1..(n + 1)
    OBVIOUS
  <2> QED BY <1>2, <2>1
<1> QED BY <1>1, <1>2, <1>3, <1>6, <1>7

\* The sink reads, writes, commits and starts again.
LEMMA SinkTypes ==
  ASSUME PipelineTypeInv, Read \/ StoreBatch \/ CommitOffset \/ ReadUndecodable \/ SinkCrash
  PROVE  PipelineTypeInv'
<1>1. PICK n \in Nat : n = Len(raw)
  BY DEF PipelineTypeInv
<1>2. /\ DOMAIN raw = 1..n /\ raw \in Seq(SampleRecord \cup Foreign)
      /\ position \in 0..n /\ position \in Nat /\ offset \in 0..position /\ offset \in Nat
      /\ batch \in Seq(1..n) /\ metrics \in [1..n -> Nat] /\ sinkAt \in {"reading", "stored"}
      /\ sinkCrashes \in 0..MaxPipelineCrashes /\ MaxPipelineCrashes \in Nat
  <2>1. DOMAIN raw = 1..Len(raw)
    BY DEF PipelineTypeInv, PipelineTypeOK
  <2> QED BY <1>1, <2>1, PipelineAssumption DEF PipelineTypeInv, PipelineTypeOK
<1>3. UNCHANGED <<raw, cycle, bridge, toPoll, bridgeCrashes>>
  BY DEF Read, StoreBatch, CommitOffset, ReadUndecodable, SinkCrash, bridgeVars
<1>4. /\ position' \in 0..n /\ position' \in Nat /\ offset' \in 0..position' /\ offset' \in Nat
      /\ batch' \in Seq(1..n) /\ metrics' \in [1..n -> Nat] /\ sinkAt' \in {"reading", "stored"}
      /\ sinkCrashes' \in 0..MaxPipelineCrashes
  <2>1. CASE Read
    <3>1. /\ position < n /\ position' = position + 1
          /\ batch' = batch \/ batch' = Append(batch, position + 1)
          /\ UNCHANGED <<offset, sinkAt, metrics, sinkCrashes>>
      BY <1>1, <2>1 DEF Read
    <3>2. position + 1 \in 1..n
      BY <1>2, <3>1
    <3>3. batch' \in Seq(1..n)
      <4>1. Append(batch, position + 1) \in Seq(1..n)
        BY <1>2, <3>2, AppendProperties
      <4> QED BY <1>2, <3>1, <4>1
    <3> QED BY <1>2, <3>1, <3>3
  <2>2. CASE StoreBatch
    <3>1. /\ metrics' = [o \in DOMAIN metrics |->
                IF \E i \in DOMAIN batch : batch[i] = o THEN metrics[o] + 1 ELSE metrics[o]]
          /\ sinkAt' = "stored" /\ UNCHANGED <<position, offset, batch, sinkCrashes>>
      BY <2>2 DEF StoreBatch
    <3>2. metrics' \in [1..n -> Nat]
      BY <1>2, <3>1
    <3> QED BY <1>2, <3>1, <3>2
  <2>3. CASE CommitOffset
    <3>1. /\ offset' = position /\ batch' = <<>> /\ sinkAt' = "reading"
          /\ UNCHANGED <<position, metrics, sinkCrashes>>
      BY <2>3 DEF CommitOffset
    <3> QED BY <1>2, <3>1
  <2>4. CASE ReadUndecodable \/ SinkCrash
    <3>1. /\ position' = offset /\ batch' = <<>> /\ sinkAt' = "reading"
          /\ UNCHANGED <<offset, metrics>>
          /\ \/ sinkCrashes' = sinkCrashes
             \/ sinkCrashes < MaxPipelineCrashes /\ sinkCrashes' = sinkCrashes + 1
      BY <2>4 DEF ReadUndecodable, SinkCrash, RestartSink
    <3> QED BY <1>2, <3>1
  <2> QED BY <2>1, <2>2, <2>3, <2>4
<1> QED BY <1>1, <1>2, <1>3, <1>4 DEF PipelineTypeInv, PipelineTypeOK

\* A cycle of the bridge begins and ends.
LEMMA BridgeTypes ==
  ASSUME PipelineTypeInv, BeginCycle \/ EndCycle \/ BridgeCrash
  PROVE  PipelineTypeInv'
<1>1. UNCHANGED <<raw, position, offset, batch, sinkAt, metrics, sinkCrashes>>
  BY DEF BeginCycle, EndCycle, BridgeCrash, sinkVars
<1>2. /\ cycle' \in 0..MaxCycles /\ bridge' \in {"asleep", "polling"}
      /\ toPoll' \subseteq Instances \cup {TestbedTarget}
      /\ bridgeCrashes' \in 0..MaxPipelineCrashes
      /\ bridge' = "polling" => cycle' > 0
  <2>1. /\ cycle \in 0..MaxCycles /\ bridge \in {"asleep", "polling"} /\ MaxCycles \in Nat
        /\ toPoll \subseteq Instances \cup {TestbedTarget} /\ MaxPipelineCrashes \in Nat
        /\ bridgeCrashes \in 0..MaxPipelineCrashes /\ (bridge = "polling" => cycle > 0)
    BY PipelineAssumption DEF PipelineTypeInv, PipelineTypeOK
  <2>2. CASE BeginCycle
    BY <2>1, <2>2 DEF BeginCycle
  <2>3. CASE EndCycle
    BY <2>1, <2>3 DEF EndCycle
  <2>4. CASE BridgeCrash
    BY <2>1, <2>4 DEF BridgeCrash
  <2> QED BY <2>2, <2>3, <2>4
<1> QED BY <1>1, <1>2 DEF PipelineTypeInv, PipelineTypeOK

\* The bridge's samples and the records of others.
LEMMA RecordTypes ==
  ASSUME PipelineTypeInv, \/ \E i \in Instances \cup {TestbedTarget} : Poll(i)
                          \/ \E f \in Foreign : ForeignRecord(f)
  PROVE  PipelineTypeInv'
<1>1. /\ UNCHANGED <<position, offset, batch, sinkAt, sinkCrashes, cycle, bridge, bridgeCrashes>>
      /\ toPoll' \subseteq toPoll
  BY DEF Poll, ForeignRecord, bridgeVars
<1>2. UNCHANGED <<raw, metrics>> \/ \E r \in SampleRecord \cup Foreign : Produce(r)
  <2>1. CASE \E f \in Foreign : ForeignRecord(f)
    BY <2>1 DEF ForeignRecord
  <2>2. ASSUME NEW i \in Instances \cup {TestbedTarget}, Poll(i)
        PROVE  UNCHANGED <<raw, metrics>> \/ \E r \in SampleRecord : Produce(r)
    <3>1. cycle \in 1..MaxCycles
      BY <2>2, PipelineAssumption DEF Poll, PipelineTypeInv, PipelineTypeOK
    <3>2. [cycle |-> cycle, target |-> i] \in SampleRecord
      BY <3>1 DEF SampleRecord
    <3> QED BY <2>2, <3>2 DEF Poll
  <2> QED BY <2>1, <2>2
<1>3. CASE UNCHANGED <<raw, metrics>>
  BY <1>1, <1>3 DEF PipelineTypeInv, PipelineTypeOK
<1>4. CASE \E r \in SampleRecord \cup Foreign : Produce(r)
  <2>1. /\ raw' \in Seq(SampleRecord \cup Foreign) /\ Len(raw') \in Nat
        /\ position' \in 0..Len(raw') /\ offset' \in 0..position'
        /\ batch' \in Seq(DOMAIN raw')
        /\ metrics' \in [DOMAIN raw' -> Nat]
    BY <1>1, <1>4, ProduceTypes
  <2> QED BY <1>1, <2>1 DEF PipelineTypeInv, PipelineTypeOK
<1> QED BY <1>2, <1>3, <1>4

\* The batch holds offsets of the topic, the committed offset is no further than
\* what was read, and the table has some copies of each record.  (run, flush.)
THEOREM PipelineStaysTyped == PipelineSpec => []PipelineTypeOK
<1>1. PipelineInit => PipelineTypeInv
  BY PipelineAssumption DEF PipelineInit, PipelineTypeInv, PipelineTypeOK
<1>2. PipelineTypeInv /\ [PipelineNext]_pipelineVars => PipelineTypeInv'
  <2>1. PipelineTypeInv /\ UNCHANGED pipelineVars => PipelineTypeInv'
    BY DEF pipelineVars, PipelineTypeInv, PipelineTypeOK
  <2> QED BY <2>1, SinkTypes, BridgeTypes, RecordTypes DEF PipelineNext, SinkStep
<1>3. PipelineTypeInv => PipelineTypeOK
  BY DEF PipelineTypeInv
<1> QED BY <1>1, <1>2, <1>3, PTL DEF PipelineSpec

\* There are finitely many orders, all of them placed.
LEMMA DocumentsFinite ==
  ASSUME OrdersTypeOK
  PROVE  /\ IsFiniteSet(documents) /\ Cardinality(documents) \in Nat
         /\ documents \in SUBSET Nat
         /\ placed \in Nat
<1>1. placed \in Nat /\ documents \subseteq 1..placed
  BY OrdersAssumption DEF OrdersTypeOK
<1>2. IsFiniteSet(1..placed)
  <2>1. PICK a \in Int, b \in Int : a = 1 /\ b = placed
    BY <1>1
  <2>2. IsFiniteSet(a..b)
    BY FS_Interval
  <2> QED BY <2>1, <2>2
<1>3. IsFiniteSet(documents)
  BY <1>1, <1>2, FS_Subset
<1> QED BY <1>1, <1>3, FS_CardinalityType

\* What the pruner finds is in the history.
LEMMA OldestOnFile ==
  ASSUME OrdersTypeOK, NEW n \in Nat
  PROVE  Oldest(n) \subseteq documents
<1> DEFINE size == IF n < Cardinality(documents) THEN n ELSE Cardinality(documents)
<1>1. size \in Nat /\ size <= Cardinality(documents)
  BY DocumentsFinite
<1> HIDE DEF size
<1>2. \E S \in SUBSET documents : Cardinality(S) = size /\ \A d \in S, e \in documents \ S : d < e
  BY <1>1, DocumentsFinite, OldestExist
<1>3. Oldest(n) = CHOOSE S \in SUBSET documents : Cardinality(S) = size /\ \A d \in S, e \in documents \ S : d < e
  BY Zenon DEF Oldest, size
<1>4. Oldest(n) \in SUBSET documents
  BY <1>2, <1>3, Zenon
<1> QED BY <1>4

\* What order_pruner may hold when n orders have been placed.
Rounds(n) == [at : {"rest", "find", "delete", "count"}, excess : Nat,
              oldest : SUBSET (1..n), crossed : BOOLEAN]

\* The updates of its steps.
LEMMA PrunerMoves ==
  ASSUME NEW n, NEW p \in Rounds(n), NEW at \in {"rest", "find", "delete", "count"},
         NEW excess \in Nat, NEW oldest \in SUBSET (1..n), NEW crossed \in BOOLEAN
  PROVE  /\ [p EXCEPT !.at = at, !.excess = excess] \in Rounds(n)
         /\ [p EXCEPT !.at = at, !.oldest = oldest] \in Rounds(n)
         /\ [p EXCEPT !.crossed = crossed] \in Rounds(n)
BY DEF Rounds

\* At rest it holds nothing.
LEMMA NoRoundIsOne ==
  ASSUME NEW n PROVE NoPrune \in Rounds(n)
BY DEF NoPrune, Rounds

\* Orders come in and are counted.
LEMMA BuyerTypes ==
  ASSUME OrdersTypeOK, NEW b \in Buyers, PlaceOrder(b) \/ CountOrder(b)
  PROVE  OrdersTypeOK'
<1>1. CASE PlaceOrder(b)
  <2>1. /\ placed < MaxOrders /\ placed' = placed + 1 /\ documents' = documents \cup {placed + 1}
        /\ run' = [run EXCEPT !.orders = @ + 1] /\ buying' \subseteq buying \cup {b}
        /\ UNCHANGED <<pruner, resetting, resets, counted, ordersFaults>>
    BY <1>1 DEF PlaceOrder
  <2>2. placed \in Nat /\ MaxOrders \in Nat /\ 1..placed \subseteq 1..placed'
    BY <2>1, DocumentsFinite, OrdersAssumption
  <2>3. documents' \subseteq 1..placed' /\ placed' \in 0..MaxOrders
    BY <2>1, <2>2 DEF OrdersTypeOK
  <2>4. PICK after : after = placed'
    OBVIOUS
  <2>5. pruner' \in Rounds(after)
    BY <2>1, <2>2, <2>4 DEF OrdersTypeOK, Rounds
  <2>6. run' \in [orders : Nat, pruned : Nat, lost : Nat]
    BY <2>1 DEF OrdersTypeOK
  <2> QED BY <2>1, <2>3, <2>4, <2>5, <2>6 DEF OrdersTypeOK, Rounds
<1>2. CASE CountOrder(b)
  BY <1>2 DEF CountOrder, OrdersTypeOK
<1> QED BY <1>1, <1>2

\* A round of the pruner.
LEMMA PrunerTypes ==
  ASSUME OrdersTypeOK, PruneCount \/ PruneFind \/ PruneDelete \/ CountPruned \/ PruneFails
  PROVE  OrdersTypeOK'
<1>1. /\ pruner \in Rounds(placed) /\ pruner.excess \in Nat /\ placed \in Nat
      /\ run \in [orders : Nat, pruned : Nat, lost : Nat]
      /\ counted \in [orders : Nat, pruned : Nat] /\ ordersFaults \in Nat
  BY DocumentsFinite DEF OrdersTypeOK, Rounds
<1>2. UNCHANGED <<placed, buying, resetting, resets>> /\ documents' \subseteq documents
  BY DEF PruneCount, PruneFind, PruneDelete, CountPruned, PruneFails
<1>3. /\ pruner' \in Rounds(placed) /\ run' \in [orders : Nat, pruned : Nat, lost : Nat]
      /\ counted' \in [orders : Nat, pruned : Nat] /\ ordersFaults' \in Nat
  <2>0. NoPrune \in Rounds(placed)
    BY NoRoundIsOne
  <2>1. CASE PruneCount
    <3>1. /\ Cardinality(documents) > MaxDocuments /\ UNCHANGED <<counted, run, ordersFaults>>
          /\ pruner' = [NoPrune EXCEPT !.at = "find", !.excess = Cardinality(documents) - MaxDocuments]
      BY <2>1 DEF PruneCount
    <3>2. PICK k \in Nat : k = Cardinality(documents) - MaxDocuments
      BY <3>1, DocumentsFinite, OrdersAssumption
    <3>3. pruner' = [NoPrune EXCEPT !.at = "find", !.excess = k]
      BY <3>1, <3>2
    <3>4. pruner' \in Rounds(placed)
      BY <2>0, <3>3, PrunerMoves
    <3> QED BY <1>1, <3>1, <3>4
  <2>2. CASE PruneFind
    <3>1. /\ pruner' = IF documents = {} THEN NoPrune
                       ELSE [pruner EXCEPT !.at = "delete", !.oldest = Oldest(pruner.excess)]
          /\ UNCHANGED <<counted, run, ordersFaults>>
      BY <2>2 DEF PruneFind
    <3>2. PICK old : old = Oldest(pruner.excess)
      OBVIOUS
    <3>3. old \subseteq 1..placed
      <4>1. old \subseteq documents
        BY <1>1, <3>2, OldestOnFile
      <4> QED BY <4>1 DEF OrdersTypeOK
    <3>4. [pruner EXCEPT !.at = "delete", !.oldest = old] \in Rounds(placed)
      BY <1>1, <3>3, PrunerMoves
    <3> QED BY <1>1, <2>0, <3>1, <3>2, <3>4
  <2>3. CASE PruneDelete
    <3>1. PICK gone : gone = Cardinality(documents \cap pruner.oldest)
      OBVIOUS
    <3>2. /\ pruner' = [NoPrune EXCEPT !.at = "count", !.excess = gone]
          /\ run' = [run EXCEPT !.pruned = @ + gone] /\ UNCHANGED <<counted, ordersFaults>>
      BY <2>3, <3>1 DEF PruneDelete
    <3>3. gone \in Nat
      BY <3>1, DocumentsFinite, FS_Subset, FS_CardinalityType
    <3>4. pruner' \in Rounds(placed)
      BY <2>0, <3>2, <3>3, PrunerMoves
    <3> QED BY <1>1, <3>2, <3>3, <3>4
  <2>4. CASE CountPruned
    <3>1. /\ counted' = [counted EXCEPT !.pruned = @ + pruner.excess] /\ pruner' = NoPrune
          /\ UNCHANGED <<run, ordersFaults>> /\ pruner.excess \in Nat
      BY <2>4, <1>1 DEF CountPruned
    <3> QED BY <1>1, <2>0, <3>1
  <2>5. CASE PruneFails
    <3>1. PICK gone \in SUBSET (documents \cap pruner.oldest) :
            run' = [run EXCEPT !.pruned = @ + Cardinality(gone), !.lost = @ + Cardinality(gone)]
      BY <2>5 DEF PruneFails
    <3>2. PICK n \in Nat : n = Cardinality(gone)
      BY <3>1, DocumentsFinite, FS_Subset, FS_CardinalityType
    <3>3. run' = [orders |-> run.orders, pruned |-> run.pruned + n, lost |-> run.lost + n]
      BY <1>1, <3>1, <3>2
    <3>4. pruner' = NoPrune /\ ordersFaults' = ordersFaults + 1 /\ counted' = counted
      BY <2>5 DEF PruneFails
    <3>5. run' \in [orders : Nat, pruned : Nat, lost : Nat]
      BY <1>1, <3>2, <3>3
    <3>6. ordersFaults' \in Nat
      BY <1>1, <3>4
    <3> QED BY <1>1, <2>0, <3>4, <3>5, <3>6
  <2> QED BY <2>1, <2>2, <2>3, <2>4, <2>5
<1> QED BY <1>2, <1>3 DEF OrdersTypeOK, Rounds

\* The two steps of a reset.
LEMMA ResetTypes ==
  ASSUME OrdersTypeOK, IsFiniteSet(buying), ClearHistory \/ ResetFails \/ ZeroCounters
  PROVE  OrdersTypeOK'
<1>1. CASE ClearHistory \/ ResetFails
  <2>1. /\ resets < MaxResets /\ resets' = resets + 1 /\ documents' \subseteq documents
        /\ pruner' = [pruner EXCEPT !.crossed = pruner.at \in {"find", "delete"}]
        /\ UNCHANGED <<placed, buying, counted, run>>
    <3>1. CASE ClearHistory
      BY <3>1 DEF ClearHistory
    <3>2. CASE ResetFails
      BY <3>2 DEF ResetFails
    <3> QED BY <1>1, <3>1, <3>2
  <2>7. resetting' \in BOOLEAN /\ ordersFaults' \in Nat
    <3>1. resetting \in BOOLEAN /\ ordersFaults \in Nat
      BY DEF OrdersTypeOK
    <3>2. CASE ClearHistory
      BY <3>1, <3>2 DEF ClearHistory
    <3>3. CASE ResetFails
      <4>1. resetting' = resetting /\ ordersFaults' = ordersFaults + 1
        BY <3>3 DEF ResetFails
      <4> QED BY <3>1, <4>1
    <3> QED BY <1>1, <3>2, <3>3
  <2>2. resets' \in 0..MaxResets
    <3>1. resets \in 0..MaxResets /\ MaxResets \in Nat
      BY OrdersAssumption DEF OrdersTypeOK
    <3> QED BY <2>1, <3>1
  <2>3. pruner \in Rounds(placed)
    BY DEF OrdersTypeOK, Rounds
  <2>4. (pruner.at \in {"find", "delete"}) \in BOOLEAN
    OBVIOUS
  <2>5. [pruner EXCEPT !.crossed = pruner.at \in {"find", "delete"}] \in Rounds(placed)
    BY <2>3, <2>4, PrunerMoves
  <2>6. pruner' \in Rounds(placed)
    BY <2>1, <2>5, Zenon
  <2> QED BY <2>1, <2>2, <2>6, <2>7 DEF OrdersTypeOK, Rounds
<1>2. CASE ZeroCounters
  <2>1. Cardinality(buying) \in Nat /\ Uncounted \in Nat
    BY FS_CardinalityType DEF OrdersTypeOK, Uncounted
  <2> QED BY <1>2, <2>1 DEF ZeroCounters, OrdersTypeOK
<1> QED BY <1>1, <1>2

\* The history holds placed orders only, and no counter leaves the natural
\* numbers.  (orders_store.py, _stats in main.py.)
THEOREM OrdersStayTyped == OrdersSpec => []OrdersTypeOK
<1>1. OrdersInit => OrdersTypeOK /\ CountersInv
  <2> SUFFICES ASSUME OrdersInit PROVE OrdersTypeOK /\ CountersInv
    OBVIOUS
  <2>1. placed \in 0..MaxOrders /\ resets \in 0..MaxResets /\ ordersFaults \in Nat
    BY OrdersAssumption DEF OrdersInit
  <2>2. pruner = NoPrune
    BY DEF OrdersInit
  <2>3. pruner \in Rounds(placed)
    BY <2>2, NoRoundIsOne
  <2>4. /\ documents \subseteq 1..placed /\ buying \subseteq Buyers /\ resetting \in BOOLEAN
        /\ counted \in [orders : Nat, pruned : Nat] /\ run \in [orders : Nat, pruned : Nat, lost : Nat]
    BY DEF OrdersInit
  <2>5. OrdersTypeOK
    BY <2>1, <2>3, <2>4 DEF OrdersTypeOK, Rounds
  <2> QED BY <2>5, CountersStart
<1>2. OrdersTypeOK /\ CountersInv /\ [OrdersNext]_ordersVars => (OrdersTypeOK /\ CountersInv)'
  <2> SUFFICES ASSUME OrdersTypeOK, CountersInv, [OrdersNext]_ordersVars
               PROVE  OrdersTypeOK' /\ CountersInv'
    OBVIOUS
  <2>1. IsFiniteSet(buying)
    BY DEF CountersInv
  <2>2. CASE UNCHANGED ordersVars
    <3>1. /\ documents' = documents /\ placed' = placed /\ buying' = buying /\ pruner' = pruner
          /\ resetting' = resetting /\ resets' = resets /\ counted' = counted /\ run' = run
          /\ ordersFaults' = ordersFaults
      BY <2>2 DEF ordersVars
    <3> QED BY <3>1, CountersStep DEF OrdersTypeOK
  <2>3. CASE OrdersNext
    <3>1. CASE \E b \in Buyers : PlaceOrder(b) \/ CountOrder(b)
      BY <3>1, BuyerTypes, CountersStep
    <3>2. CASE PruneCount \/ PruneFind \/ PruneDelete \/ CountPruned \/ PruneFails
      BY <3>2, PrunerTypes, CountersStep
    <3>3. CASE ClearHistory \/ ResetFails \/ ZeroCounters
      BY <2>1, <3>3, ResetTypes, CountersStep
    <3> QED BY <2>3, <3>1, <3>2, <3>3 DEF OrdersNext
  <2> QED BY <2>2, <2>3
<1> QED BY <1>1, <1>2, PTL DEF OrdersSpec
=============================================================================
