--------------------------- MODULE EvaluationRun ---------------------------
(***************************************************************************)
(* services/evaluation-runner, live mode: main.py (run_live, score_run),   *)
(* scoring.py, and sources.py as far as they use it.                       *)
(*                                                                         *)
(* The harness listens to anomalies.detected in a thread of its own, waits *)
(* for the baselines to warm up, has the labelled faults injected one      *)
(* after the other, watches some quiet time, and scores the alerts it      *)
(* collected against fault_scenarios.  The fault injector and the detector *)
(* are the environment: a fault may be withdrawn late or never, and an     *)
(* alert may come at any time.  The clock is shared, whole and coarse.     *)
(***************************************************************************)
EXTENDS Integers, FiniteSets, SequencesExt

CONSTANTS
  Suite,           \* the suite: [kind, service, lasts]
  Implemented,     \* what the injector may say it implements, or Unasked
  Unasked,
  Noise,           \* an alert: the services it may name, or Garbage
  Garbage,         \* a record that is no JSON
  GraceAfter, WarmupTime, Settle, QuietTail,
  LastInstant, MaxAlerts

ASSUME EvaluationAssumption ==
  {GraceAfter, WarmupTime, Settle, QuietTail, LastInstant, MaxAlerts} \subseteq Nat

VARIABLES
  instant,
  harness,     \* where run_live is, the specs it runs and when its sleep ends
  observed,    \* observed_from and observed_until
  injected,    \* fault_scenarios of this run, by t_inject
  alerts,      \* the topic
  collector,   \* offset, events, and whether its thread is alive
  score        \* what the report says

evalVars == <<instant, harness, observed, injected, alerts, collector, score>>

EvalInit ==
  /\ instant = 0
  /\ harness = [at |-> "planning", specs |-> <<>>, until |-> 0]
  /\ observed = [from |-> 0, until |-> 0]
  /\ injected = <<>> /\ alerts = <<>>
  /\ collector = [offset |-> 0, events |-> <<>>, alive |-> TRUE]
  /\ score = [scenarios |-> <<>>, outcomes |-> <<>>, falsePositives |-> {}, quiet |-> 0]

---------------------------------------------------------------------------
(* The environment *)

Pass ==
  /\ instant < LastInstant
  /\ instant' = instant + 1
  /\ UNCHANGED <<harness, observed, injected, alerts, collector, score>>

Raise(noise) ==
  /\ Len(alerts) < MaxAlerts
  /\ alerts' = Append(alerts, [at |-> instant, services |-> noise])
  /\ UNCHANGED <<instant, harness, observed, injected, collector, score>>

\* t_recovered; a fault that is never withdrawn has none.
Withdraw(i) ==
  /\ injected[i].recovered = {}
  /\ instant >= injected[i].inject + injected[i].lasts
  /\ injected' = [injected EXCEPT ![i].recovered = {instant}]
  /\ UNCHANGED <<instant, harness, observed, alerts, collector, score>>

---------------------------------------------------------------------------
(* AnomalyCollector *)

Collect ==
  /\ collector.alive /\ collector.offset < Len(alerts)
  /\ LET record == alerts[collector.offset + 1]
     IN collector' =
          IF record.services = Garbage
          THEN [collector EXCEPT !.alive = FALSE]
          ELSE [collector EXCEPT !.offset = @ + 1, !.events = Append(@, record)]
  /\ UNCHANGED <<instant, harness, observed, injected, alerts, score>>

---------------------------------------------------------------------------
(* run_live *)

\* An injector that cannot be asked is not one that implements nothing.
Runnable(answer) ==
  SelectSeq(Suite, LAMBDA spec : answer = Unasked \/ spec.kind \in answer)

Plan(answer) ==
  /\ harness.at = "planning"
  /\ harness' = IF Runnable(answer) = <<>> THEN [harness EXCEPT !.at = "aborted"]
                ELSE [at |-> "warming", specs |-> Runnable(answer), until |-> instant + WarmupTime]
  /\ UNCHANGED <<instant, observed, injected, alerts, collector, score>>

Awake(place) == harness.at = place /\ instant >= harness.until

BeginObservation ==
  /\ Awake("warming")
  /\ harness' = [harness EXCEPT !.at = "injecting"]
  /\ observed' = [observed EXCEPT !.from = instant]
  /\ UNCHANGED <<instant, injected, alerts, collector, score>>

InjectNext ==
  /\ Awake("injecting") /\ harness.specs # <<>>
  /\ LET spec == Head(harness.specs)
     IN /\ injected' = Append(injected, [service |-> spec.service, lasts |-> spec.lasts,
                                         inject |-> instant, recovered |-> {}])
        /\ harness' = [harness EXCEPT !.specs = Tail(@), !.until = instant + spec.lasts + Settle]
  /\ UNCHANGED <<instant, observed, alerts, collector, score>>

\* The injector refuses, or does not answer: on with the rest, at once.
InjectionFails ==
  /\ Awake("injecting") /\ harness.specs # <<>>
  /\ harness' = [harness EXCEPT !.specs = Tail(@)]
  /\ UNCHANGED <<instant, observed, injected, alerts, collector, score>>

WatchQuietTime ==
  /\ Awake("injecting") /\ harness.specs = <<>>
  /\ harness' = [harness EXCEPT !.at = "watching", !.until = instant + QuietTail]
  /\ UNCHANGED <<instant, observed, injected, alerts, collector, score>>

EndObservation ==
  /\ Awake("watching")
  /\ observed' = [observed EXCEPT !.until = instant]
  /\ harness' = [harness EXCEPT !.at = "stopping"]
  /\ UNCHANGED <<instant, injected, alerts, collector, score>>

---------------------------------------------------------------------------
(* scoring.py *)

FaultWindow(f) == [from |-> f.inject, to |-> Max({f.inject} \cup f.recovered) + GraceAfter]
During(f, events) ==
  {i \in DOMAIN events : events[i].at \in FaultWindow(f).from..FaultWindow(f).to}

ScoreScenario(f, events, observable) ==
  LET near == During(f, events)
      right == {i \in near : f.service \in events[i].services}
  IN IF right # {}
     THEN [outcome |-> "detected", event |-> {Min(right)},
           latency |-> {events[Min(right)].at - f.inject}]
     ELSE [outcome |-> IF ~observable THEN "unobservable"
                       ELSE IF near = {} THEN "missed" ELSE "misattributed",
           event |-> IF near = {} THEN {} ELSE {Min(near)}, latency |-> {}]

FindFalsePositives(events, faults) ==
  DOMAIN events \ UNION {During(faults[k], events) : k \in DOMAIN faults}

\* Mutant: the span that came last ends the merged one.
MergeToTheLast(merged, span) ==
  IF merged # <<>> /\ span.from <= Last(merged).to
  THEN [merged EXCEPT ![Len(merged)].to = span.to]
  ELSE Append(merged, span)
Merge(merged, span) ==
  IF merged # <<>> /\ span.from <= Last(merged).to
  THEN [merged EXCEPT ![Len(merged)].to = Max({@, span.to})]
  ELSE Append(merged, span)

\* What of a fault's window lies in the observed time.
ClippedWindow(f, from, until) ==
  LET w == FaultWindow(f)
  IN [from |-> Max({w.from, from}), to |-> Min({w.to, until})]

MergedSpans(spans) ==
  LET merged[k \in 0..Len(spans)] ==
        IF k = 0 THEN <<>>
        ELSE IF spans[k].to <= spans[k].from THEN merged[k - 1]
        ELSE Merge(merged[k - 1], spans[k])
  IN merged[Len(spans)]

TotalTime(spans) ==
  LET total[k \in 0..Len(spans)] ==
        IF k = 0 THEN 0 ELSE total[k - 1] + (spans[k].to - spans[k].from)
  IN total[Len(spans)]

\* The rows come by t_inject, so the spans need no sorting.
QuietSeconds(from, until, faults) ==
  LET spans == [k \in DOMAIN faults |-> ClippedWindow(faults[k], from, until)]
      busy == TotalTime(MergedSpans(spans))
  IN IF until <= from THEN 0 ELSE Max({until - from - busy, 0})

\* observable: the scenarios in whose window the service sent request metrics.
ScoreRun(observable) ==
  /\ harness.at = "stopping"
  /\ harness' = [harness EXCEPT !.at = IF injected = <<>> THEN "aborted" ELSE "scored"]
  /\ score' = IF injected = <<>> THEN score ELSE
       [scenarios |-> injected,
        outcomes |-> [k \in DOMAIN injected |->
          ScoreScenario(injected[k], collector.events, k \in observable)],
        falsePositives |-> FindFalsePositives(collector.events, injected),
        quiet |-> QuietSeconds(observed.from, observed.until, injected)]
  /\ UNCHANGED <<instant, observed, injected, alerts, collector>>

EvalNext ==
  \/ Pass
  \/ \E noise \in Noise : Raise(noise)
  \/ \E i \in DOMAIN injected : Withdraw(i)
  \/ Collect
  \/ \E answer \in Implemented : Plan(answer)
  \/ BeginObservation
  \/ InjectNext
  \/ InjectionFails
  \/ WatchQuietTime
  \/ EndObservation
  \/ \E observable \in SUBSET DOMAIN injected : ScoreRun(observable)

EvalSpec == EvalInit /\ [][EvalNext]_evalVars

---------------------------------------------------------------------------
(* Properties *)

Scored == harness.at = "scored"

\* scoring.py: "concurrent or back-to-back scenarios cannot discount the same
\* second twice": the quiet time a report divides by is the observed time no
\* fault window covers, whatever windows a late recovery makes overlap or nest
\* and one that never came makes short.
QuietTimeIsCountedOnce ==
  Scored =>
    LET covered == {t \in observed.from..(observed.until - 1) :
          \E k \in DOMAIN score.scenarios :
            LET w == FaultWindow(score.scenarios[k]) IN w.from <= t /\ t < w.to}
    IN score.quiet = observed.until - observed.from - Cardinality(covered)

\* docs/phase9-detection.md: "the startup false alarm fired during the
\* runner's warm-up, before scoring began.  The run reported a clean
\* false-positive rate while a real false alarm had fired".
WarmupIsNotScored ==
  Scored => \A i \in score.falsePositives : collector.events[i].at >= observed.from
=============================================================================
