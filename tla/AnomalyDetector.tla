-------------------------- MODULE AnomalyDetector --------------------------
(***************************************************************************)
(* services/anomaly-detector: one loop (main.py run) that reads samples    *)
(* from metrics.raw, collects signals into one group per site              *)
(* (grouping.py), notices services that fell silent (staleness.py),        *)
(* publishes the groups that are due and stores them (store.py).           *)
(*                                                                         *)
(* Groups, cooldowns and what was last seen live in the memory of one      *)
(* process run; only the committed offset survives a restart.  Whether a   *)
(* sample makes a signal, and with what score, is left open here (see      *)
(* module DriftDetector).                                                  *)
(*                                                                         *)
(* Time is counted in ticks of a clock; a sample carries the time its      *)
(* producer stamped it with, up to Lag ticks before it arrives.            *)
(***************************************************************************)
EXTENDS Naturals, Sequences, FiniteSets, FiniteSetsExt

CONSTANTS
  Services,
  Sites,
  SiteOf,      \* the site of each service (site_of)
  None,
  Scores,      \* scores a metric's signal may have; the firing threshold is StaleAfter
  Delay,       \* group_delay
  Cooldown,    \* cooldown
  Escalation,  \* escalation_factor
  MaxMembers,  \* max_members
  StaleAfter,  \* stale_after
  MinSeen,     \* min_observations
  Lag,         \* bound: how long before its arrival a sample is stamped
  MaxTime,     \* bound: the last tick of the clock
  LastSample,  \* bound: the last tick at which samples arrive
  MaxSamples,  \* bound: samples that arrive
  MaxRuns      \* bound: runs of the process

ASSUME SitesAssumption == SiteOf \in [Services -> Sites]
ASSUME NumbersAssumption ==
  /\ Scores \subseteq Nat \ {0}
  /\ {Delay, Cooldown, Escalation, MaxMembers, StaleAfter, MinSeen} \subseteq Nat \ {0}
  /\ {MaxTime, MaxRuns} \subseteq Nat \ {0}
  /\ {Lag, LastSample, MaxSamples} \subseteq Nat

VARIABLES
  clock,
  raw,        \* metrics.raw from the committed offset on
  read,       \* how many of these the consumer has read
  offset,     \* has the consumer group committed an offset
  sent,       \* samples that have arrived
  pc,         \* where the loop is
  tick,       \* now_utc() at the end of the last batch
  group,      \* per site: the signals being collected, and when to emit them
  cooling,    \* per service: when its mute ends, 0 without one
  peak,       \* per service: the peak score of the alert that muted it
  lastSeen,   \* per service: timestamp of its newest sample, 0 before one
  seen,       \* per service: samples, counted up to MinSeen
  reported,   \* services reported silent
  signal,     \* the last signal of this round
  outbox,     \* groups taken out of the grouper, not yet published
  alerts,     \* anomalies.detected
  run         \* runs of the process so far (id_namespace)

topics == <<raw, read, offset, sent>>
grouper == <<group, cooling, peak, signal>>
silence == <<lastSeen, seen, reported>>
output == <<outbox, alerts>>
vars == <<clock, topics, pc, tick, grouper, silence, output, run>>

Times == 0..(MaxTime + Delay + Cooldown)
Signal == [svc : Services, at : Times, score : Nat, liveness : BOOLEAN]
Group == [emit : Times, signals : Seq(Signal)]
Alert == [signals : Seq(Signal), flushed : Times, run : Nat]
PCs == {"poll", "silence", "flush", "publish"}

ASSUME NoneAssumption == None \notin Group \cup Signal

TypeOK ==
  /\ clock \in 0..MaxTime
  /\ raw \in Seq([svc : Services, at : Times])
  /\ read \in 0..Len(raw)
  /\ offset \in BOOLEAN
  /\ sent \in 0..MaxSamples
  /\ pc \in PCs
  /\ tick \in 0..MaxTime
  /\ group \in [Sites -> Group \cup {None}]
  /\ cooling \in [Services -> Times]
  /\ peak \in [Services -> Nat]
  /\ signal \in Signal \cup {None}
  /\ lastSeen \in [Services -> Times]
  /\ seen \in [Services -> 0..MinSeen]
  /\ reported \subseteq Services
  /\ outbox \in Seq(Alert)
  /\ alerts \in Seq(Alert)
  /\ run \in 1..MaxRuns

NoGroup == [site \in Sites |-> None]
Nothing == [s \in Services |-> 0]

Init ==
  /\ clock = 1
  /\ raw = <<>> /\ read = 0 /\ offset = FALSE /\ sent = 0
  /\ pc = "poll" /\ tick = 0
  /\ group = NoGroup /\ cooling = Nothing /\ peak = Nothing /\ signal = None
  /\ lastSeen = Nothing /\ seen = Nothing /\ reported = {}
  /\ outbox = <<>> /\ alerts = <<>>
  /\ run = 1

-----------------------------------------------------------------------------
(***************************************************************************)
(* The grouper (grouping.py).                                              *)
(***************************************************************************)
\* Mutes that have ended by the time a signal carries are forgotten.
StillCooling(now) == [s \in Services |-> IF cooling[s] > now THEN cooling[s] ELSE 0]
PeaksAt(now) == [s \in Services |-> IF cooling[s] > now THEN peak[s] ELSE 0]

Muted(sig) ==
  /\ cooling[sig.svc] > sig.at
  /\ sig.score < Escalation * peak[sig.svc]

\* While a group is open at the site, every signal joins it, up to the limit.
Join(sig) ==
  LET site == SiteOf[sig.svc] IN
    /\ group[site] # None
    /\ group' = IF Len(group[site].signals) < MaxMembers
                THEN [group EXCEPT ![site].signals = Append(@, sig)]
                ELSE group
    /\ cooling' = StillCooling(sig.at)

\* Slip: a mute is a mute, however bad it gets.
StayMutedAlways(sig) ==
  /\ group[SiteOf[sig.svc]] = None
  /\ cooling[sig.svc] > sig.at
  /\ cooling' = [StillCooling(sig.at) EXCEPT ![sig.svc] = sig.at + Cooldown]
  /\ UNCHANGED group

\* "Extend the mute rather than re-alerting": until Cooldown after this signal.
StayMuted(sig) ==
  /\ group[SiteOf[sig.svc]] = None
  /\ Muted(sig)
  /\ cooling' = [StillCooling(sig.at) EXCEPT ![sig.svc] = sig.at + Cooldown]
  /\ UNCHANGED group

OpenGroup(sig) ==
  LET site == SiteOf[sig.svc] IN
    /\ group[site] = None
    /\ ~ Muted(sig)
    /\ group' = [group EXCEPT ![site] = [emit |-> sig.at + Delay, signals |-> <<sig>>]]
    /\ cooling' = StillCooling(sig.at)

AddSignal(sig) ==
  /\ Join(sig) \/ StayMuted(sig) \/ OpenGroup(sig)
  /\ peak' = PeaksAt(sig.at)
  /\ signal' = sig

ServicesOf(signals) == {signals[k].svc : k \in DOMAIN signals}
PeakOf(signals, s) == Max({signals[k].score : k \in {j \in DOMAIN signals : signals[j].svc = s}})
\* Slip: an alert mutes the service that opened it, not those that joined.
OpenerOf(signals) == {signals[1].svc}
MutedBy(signals) == ServicesOf(signals)
LastOf(signals) == Max({signals[k].at : k \in DOMAIN signals})

Due == {site \in Sites : group[site] # None /\ group[site].emit <= tick}

-----------------------------------------------------------------------------
(***************************************************************************)
(* The world: time, samples.                                               *)
(***************************************************************************)
Tick ==
  /\ clock < MaxTime
  /\ clock' = clock + 1
  /\ UNCHANGED <<topics, pc, tick, grouper, silence, output, run>>

\* metrics-bridge stamps a sample, queries Prometheus and then publishes.
Produce(s) ==
  /\ sent < MaxSamples
  /\ clock <= LastSample
  /\ \E at \in {t \in 1..clock : clock <= t + Lag} :
       raw' = Append(raw, [svc |-> s, at |-> at])
  /\ sent' = sent + 1
  /\ UNCHANGED <<clock, read, offset, pc, tick, grouper, silence, output, run>>

-----------------------------------------------------------------------------
(***************************************************************************)
(* The loop (main.py run).                                                 *)
(***************************************************************************)
\* StalenessMonitor.observe
Observe(s, at) ==
  /\ lastSeen' = [lastSeen EXCEPT ![s] = IF at > @ THEN at ELSE @]
  /\ seen' = [seen EXCEPT ![s] = IF @ < MinSeen THEN @ + 1 ELSE @]
  /\ reported' = reported \ {s}

\* One turn of the inner loop: the sample is observed and may make a signal.
ReadSample ==
  /\ pc = "poll"
  /\ read < Len(raw)
  /\ read' = read + 1
  /\ LET sample == raw[read + 1] IN
       /\ Observe(sample.svc, sample.at)
       /\ \/ UNCHANGED grouper
          \/ \E score \in Scores :
               AddSignal([svc |-> sample.svc, at |-> sample.at, score |-> score,
                          liveness |-> FALSE])
  /\ UNCHANGED <<clock, raw, offset, sent, pc, tick, output, run>>

\* Slip: time is what the samples say it is.
EndBatchBySamples ==
  /\ pc = "poll"
  /\ read = Len(raw)
  /\ tick' = Max({lastSeen[s] : s \in Services})
  /\ pc' = "silence"
  /\ UNCHANGED <<clock, topics, grouper, silence, output, run>>

\* The iterator ends once it has been idle for a second; then the clock is read.
EndBatch ==
  /\ pc = "poll"
  /\ read = Len(raw)
  /\ tick' = clock
  /\ pc' = "silence"
  /\ UNCHANGED <<clock, topics, grouper, silence, output, run>>

Silent ==
  {s \in Services \ reported : seen[s] >= MinSeen /\ lastSeen[s] + StaleAfter <= tick}

\* StalenessMonitor.check, one service after the other.
ReportSilence ==
  /\ pc = "silence"
  /\ \E s \in Silent :
       /\ reported' = reported \cup {s}
       /\ AddSignal([svc |-> s, at |-> tick, score |-> tick - lastSeen[s],
                     liveness |-> TRUE])
  /\ UNCHANGED <<clock, topics, pc, tick, lastSeen, seen, output, run>>

EndSilence ==
  /\ pc = "silence"
  /\ Silent = {}
  /\ pc' = "flush"
  /\ signal' = None
  /\ UNCHANGED <<clock, topics, tick, group, cooling, peak, silence, output, run>>

\* AnomalyGrouper.flush: the groups that are due, oldest first, mute their services.
Flush ==
  /\ pc = "flush"
  /\ IF Due = {}
     THEN /\ pc' = "publish"
          /\ UNCHANGED <<grouper, outbox>>
     ELSE \E site \in Due :
       LET signals == group[site].signals IN
         /\ \A other \in Due : group[site].emit <= group[other].emit
         /\ outbox' = Append(outbox, [signals |-> signals, flushed |-> tick, run |-> run])
         /\ group' = [group EXCEPT ![site] = None]
         /\ cooling' = [s \in Services |->
                          IF s \in MutedBy(signals)
                          THEN Max({LastOf(signals), tick}) + Cooldown ELSE cooling[s]]
         /\ peak' = [s \in Services |->
                       IF s \in ServicesOf(signals) THEN PeakOf(signals, s) ELSE peak[s]]
         /\ UNCHANGED <<signal, pc>>
  /\ UNCHANGED <<clock, topics, tick, silence, alerts, run>>

(***************************************************************************)
(* producer.send and producer.flush.  AnomalyStore.save comes after them   *)
(* and lets no failure escape: the table anomalies, which nothing here     *)
(* reads, is left out.  Nobody looks at the future of the send: an event   *)
(* that the producer gives up on after its retries counts as published     *)
(* here as it does for the loop, which commits and mutes all the same.     *)
(***************************************************************************)
Publish ==
  /\ pc = "publish"
  /\ outbox # <<>>
  /\ alerts' = Append(alerts, Head(outbox))
  /\ outbox' = Tail(outbox)
  /\ UNCHANGED <<clock, topics, pc, tick, grouper, silence, run>>

\* consumer.commit(): everything read is behind the group from now on.
Commit ==
  /\ pc = "publish"
  /\ outbox = <<>>
  /\ raw' = SubSeq(raw, read + 1, Len(raw))
  /\ read' = 0
  /\ offset' = TRUE
  /\ pc' = "poll"
  /\ UNCHANGED <<clock, sent, tick, grouper, silence, output, run>>

(***************************************************************************)
(* The process dies (or a Kafka error or a malformed record ends it) and   *)
(* is started again.  The broker delivers again what was not committed; a  *)
(* group that never committed starts at the end of the topic.              *)
(***************************************************************************)
Restart ==
  /\ run < MaxRuns
  /\ run' = run + 1
  /\ pc' = "poll"
  /\ read' = 0
  /\ raw' = IF offset THEN raw ELSE <<>>
  /\ tick' = 0
  /\ group' = NoGroup /\ cooling' = Nothing /\ peak' = Nothing /\ signal' = None
  /\ lastSeen' = Nothing /\ seen' = Nothing /\ reported' = {}
  /\ outbox' = <<>>
  /\ UNCHANGED <<clock, offset, sent, alerts>>

-----------------------------------------------------------------------------
Loop ==
  \/ ReadSample
  \/ EndBatch
  \/ ReportSilence
  \/ EndSilence
  \/ Flush
  \/ Publish
  \/ Commit

Next ==
  \/ Tick
  \/ \E s \in Services : Produce(s)
  \/ Loop
  \/ Restart

Spec == Init /\ [][Next]_vars

(***************************************************************************)
(* Fairness: the clock advances and the loop goes round.  That the batch   *)
(* ends at all - a second without a sample - is an assumption on the       *)
(* traffic: here there is a last sample.                                   *)
(***************************************************************************)
FairSpec == Spec /\ WF_vars(Tick) /\ WF_vars(Loop)
=============================================================================
