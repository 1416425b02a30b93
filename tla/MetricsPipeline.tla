-------------------------- MODULE MetricsPipeline --------------------------
(***************************************************************************)
(* services/metrics-bridge and services/metrics-sink: samples from         *)
(* Prometheus to metrics.raw, from metrics.raw to the table `metrics'.     *)
(*                                                                         *)
(* The bridge polls in cycles: first the services that are up, then the    *)
(* state of the testbed.  The sink collects rows in a batch, writes the    *)
(* batch in one transaction and then commits its offset.  Either process   *)
(* may die anywhere and is started again.                                  *)
(***************************************************************************)
EXTENDS Naturals, Sequences

CONSTANTS
  Instances,     \* targets of the jobs in SERVICE_JOBS
  TestbedTarget, \* the one that reports for orders-db
  Malformed,     \* a record without one of the fields, from another producer
  Undecodable,   \* one that is not JSON
  Foreign,       \* which of the two may appear
  BatchMax,      \* BATCH_MAX_RECORDS
  MaxCycles,     \* bound
  MaxPipelineCrashes

ASSUME PipelineAssumption ==
  /\ TestbedTarget \notin Instances
  /\ Foreign \subseteq {Malformed, Undecodable}
  /\ BatchMax \in Nat \ {0}
  /\ MaxCycles \in Nat /\ MaxPipelineCrashes \in Nat

VARIABLES
  cycle,        \* cycles the bridge has begun
  bridge,       \* asleep, or polling
  toPoll,       \* targets left in this cycle
  raw,          \* metrics.raw
  position,     \* records the sink has read
  offset,       \* its committed offset
  batch,        \* offsets of the rows in `batch'
  sinkAt,       \* reading, or between the two commits of flush
  metrics,      \* how often the table holds the sample of each offset
  sinkCrashes,
  bridgeCrashes

pipelineVars == <<cycle, bridge, toPoll, raw, position, offset, batch, sinkAt,
                  metrics, sinkCrashes, bridgeCrashes>>
bridgeVars == <<cycle, bridge, toPoll, bridgeCrashes>>
sinkVars == <<position, offset, batch, sinkAt, metrics, sinkCrashes>>

\* A sample: the cycle stands for the timestamp, which one target's share.
SampleRecord == [cycle : 1..MaxCycles, target : Instances \cup {TestbedTarget}]

ASSUME ForeignAssumption == {Malformed, Undecodable} \cap SampleRecord = {}

PipelineTypeOK ==
  /\ cycle \in 0..MaxCycles
  /\ bridge \in {"asleep", "polling"}
  /\ toPoll \subseteq Instances \cup {TestbedTarget}
  /\ raw \in Seq(SampleRecord \cup Foreign)
  /\ position \in 0..Len(raw)
  /\ offset \in 0..position
  /\ batch \in Seq(DOMAIN raw)
  /\ sinkAt \in {"reading", "stored"}
  /\ metrics \in [DOMAIN raw -> Nat]
  /\ sinkCrashes \in 0..MaxPipelineCrashes
  /\ bridgeCrashes \in 0..MaxPipelineCrashes

PipelineInit ==
  /\ cycle = 0
  /\ bridge = "asleep"
  /\ toPoll = {}
  /\ raw = <<>>
  /\ position = 0
  /\ offset = 0
  /\ batch = <<>>
  /\ sinkAt = "reading"
  /\ metrics = <<>>
  /\ sinkCrashes = 0
  /\ bridgeCrashes = 0

\* One more record on the topic; the table has no row of it yet.
Produce(r) == raw' = Append(raw, r) /\ metrics' = Append(metrics, 0)

-----------------------------------------------------------------------------
(* The bridge.                                                             *)

\* list_live_instances.  Without an answer the whole cycle is left out, the
\* state of the testbed with it.
BeginCycle ==
  /\ bridge = "asleep"
  /\ cycle < MaxCycles
  /\ cycle' = cycle + 1
  /\ \/ /\ bridge' = "polling"
        /\ \E up \in SUBSET Instances : toPoll' = up \cup {TestbedTarget}
     \/ UNCHANGED <<bridge, toPoll>>
  /\ UNCHANGED <<raw, bridgeCrashes>>
  /\ UNCHANGED sinkVars

\* The queries of one target.  One that fails, finds nothing or finds NaN
\* leaves its sample out.  The testbed comes after every service.
Poll(i) ==
  /\ bridge = "polling"
  /\ i \in toPoll
  /\ i = TestbedTarget => toPoll = {i}
  /\ toPoll' = toPoll \ {i}
  /\ \/ Produce([cycle |-> cycle, target |-> i])
     \/ UNCHANGED <<raw, metrics>>
  /\ UNCHANGED <<cycle, bridge, position, offset, batch, sinkAt, sinkCrashes, bridgeCrashes>>

\* producer.flush, and the rest of the interval.
EndCycle ==
  /\ bridge = "polling"
  /\ toPoll = {}
  /\ bridge' = "asleep"
  /\ UNCHANGED <<cycle, toPoll, raw, bridgeCrashes>>
  /\ UNCHANGED sinkVars

BridgeCrash ==
  /\ bridge = "polling"
  /\ bridgeCrashes < MaxPipelineCrashes
  /\ bridgeCrashes' = bridgeCrashes + 1
  /\ bridge' = "asleep"
  /\ toPoll' = {}
  /\ UNCHANGED <<cycle, raw>>
  /\ UNCHANGED sinkVars

ForeignRecord(f) ==
  /\ f \notin {raw[i] : i \in DOMAIN raw}
  /\ Produce(f)
  /\ UNCHANGED bridgeVars
  /\ UNCHANGED <<position, offset, batch, sinkAt, sinkCrashes>>

-----------------------------------------------------------------------------
(* The sink.                                                               *)

\* One record of the iteration.  A full batch is flushed before the next.
Read ==
  /\ sinkAt = "reading"
  /\ Len(batch) < BatchMax
  /\ position < Len(raw)
  /\ raw[position + 1] # Undecodable
  /\ position' = position + 1
  /\ batch' = IF raw[position + 1] = Malformed THEN batch ELSE Append(batch, position + 1)
  /\ UNCHANGED <<raw, offset, sinkAt, metrics, sinkCrashes>>
  /\ UNCHANGED bridgeVars

\* The iteration has been idle for consumer_timeout_ms, or the batch is full.
MayFlush == Len(batch) = BatchMax \/ position = Len(raw)

\* Mutant: flush on a full batch only.
StoreFullBatch ==
  /\ sinkAt = "reading"
  /\ Len(batch) = BatchMax
  /\ metrics' = [o \in DOMAIN metrics |->
       IF \E i \in DOMAIN batch : batch[i] = o THEN metrics[o] + 1 ELSE metrics[o]]
  /\ sinkAt' = "stored"
  /\ UNCHANGED <<raw, position, offset, batch, sinkCrashes>>
  /\ UNCHANGED bridgeVars

\* flush: execute_values and conn.commit.
StoreBatch ==
  /\ sinkAt = "reading"
  /\ batch # <<>>
  /\ MayFlush
  /\ metrics' = [o \in DOMAIN metrics |->
       IF \E i \in DOMAIN batch : batch[i] = o THEN metrics[o] + 1 ELSE metrics[o]]
  /\ sinkAt' = "stored"
  /\ UNCHANGED <<raw, position, offset, batch, sinkCrashes>>
  /\ UNCHANGED bridgeVars

\* Mutant: what was written stays in the batch.
CommitKeepsBatch ==
  /\ sinkAt = "stored"
  /\ offset' = position
  /\ sinkAt' = "reading"
  /\ UNCHANGED <<raw, position, batch, metrics, sinkCrashes>>
  /\ UNCHANGED bridgeVars

\* flush: consumer.commit of everything read, batch = [].
CommitOffset ==
  /\ sinkAt = "stored"
  /\ offset' = position
  /\ batch' = <<>>
  /\ sinkAt' = "reading"
  /\ UNCHANGED <<raw, position, metrics, sinkCrashes>>
  /\ UNCHANGED bridgeVars

\* The process ends, killed or by an exception of the database or the broker,
\* and begins again at the committed offset.
RestartSink == position' = offset /\ batch' = <<>> /\ sinkAt' = "reading"

SinkCrash ==
  /\ sinkCrashes < MaxPipelineCrashes
  /\ sinkCrashes' = sinkCrashes + 1
  /\ RestartSink
  /\ UNCHANGED <<raw, offset, metrics>>
  /\ UNCHANGED bridgeVars

\* value_deserializer raises and nobody catches it.
ReadUndecodable ==
  /\ sinkAt = "reading"
  /\ Len(batch) < BatchMax
  /\ position < Len(raw)
  /\ raw[position + 1] = Undecodable
  /\ RestartSink
  /\ UNCHANGED <<raw, offset, metrics, sinkCrashes>>
  /\ UNCHANGED bridgeVars

-----------------------------------------------------------------------------
SinkStep == Read \/ StoreBatch \/ CommitOffset

PipelineNext ==
  \/ BeginCycle \/ EndCycle \/ BridgeCrash
  \/ \E i \in Instances \cup {TestbedTarget} : Poll(i)
  \/ \E f \in Foreign : ForeignRecord(f)
  \/ SinkStep \/ ReadUndecodable \/ SinkCrash

PipelineSpec == PipelineInit /\ [][PipelineNext]_pipelineVars

-----------------------------------------------------------------------------
\* Nothing below the committed offset is missing from the table, whatever
\* crashes, and nothing is written more often than the sink was started.
\* (flush: conn.commit before consumer.commit, batch = [].)
WrittenBelowOffset ==
  \A o \in DOMAIN raw :
    /\ raw[o] \in SampleRecord /\ o <= offset => metrics[o] > 0
    /\ metrics[o] <= sinkCrashes + 1
    /\ raw[o] \notin SampleRecord => metrics[o] = 0

\* When the bridge has published its last sample, all of them reach the table,
\* unless a record stops the sink for good: a batch that does not fill up is
\* flushed after a second, and what a crash loses is read again.  (run.)
SamplesReachTable ==
  <>[](\/ \E o \in DOMAIN raw : raw[o] = Undecodable
       \/ \A o \in DOMAIN raw : raw[o] = Malformed \/ metrics[o] > 0)
=============================================================================
