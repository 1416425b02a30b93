# Verification of the AI-Assisted Incident Diagnosis System

This directory holds TLA+ models of the system in `src/`, the TLC runs that check them on small
instances, and TLAPS proofs of what matters most for every instance. `PROJECT.json` lists the
components, runs, mutants, theorems and hazards, and maps each definition to the lines it models.

## 1. The system

A testbed that can be broken on purpose, a pipeline that notices, explains and proposes, and a
harness that scores how well:

    load-generator --> testbed, dummy-service --> metrics-bridge --> metrics.raw
                         ^ faults   ^ deploys                        |       |
                 fault-injector   deploy-emitter           metrics-sink     anomaly-detector
                         |          | deploys.events             |            |
                         v          v                            v            v
                   fault_scenarios, deploys                   metrics    anomalies.detected
                                                                              |
    operator console <-- orchestrator <------ HTTP ------ diagnosis-service   |
                            ^ |                            ^ past outcomes    |
        anomalies.detected -+ v                            |                  v
              orchestrator_incidents, audit_log      eval-dashboard    evaluation-runner

### Inventory

| part | state it keeps | operations | hard behaviour | what makes it correct |
|---|---|---|---|---|
| orchestrator, lifecycle (`state_machine.py`, `db.py`) | one row per incident, its hypotheses, deadline, decision; audit log; feedback rows | `handle_anomaly`, `analyze`, `approve`, `reject`, `request_info`, `reanalyze`, `sweep_expired`, each a sequence of transactions | handlers of many threads interleave between transactions; a crash or database failure leaves a handler half done; what a handler read is stale when it writes | the audit trail is a path of the lifecycle and agrees with the row; only the approved action reaches the executor, at most once; a verdict is final; every window closes |
| orchestrator, Kafka intake (`kafka_consumer.py`) | position, committed offset | connect, fetch, commit, reconnect | redelivery after a crash; a commit only when the iterator is idle | no anomaly is opened twice; none beyond the committed offset is forgotten |
| orchestrator, sweeper (`sweeper.py`) | rows it has expired and not announced | one transaction over many rows, then one message each | races with decisions and extensions | expiry loses against a decision and leaves a trail for each row |
| orchestrator, audit chain (`db.py`, `audit.py`) | `audit_log`, each entry hashed over the one before | `_append_audit`, `verify_chain` | concurrent appends, row locks and an advisory lock, rollback | one unbroken chain, no deadlock, tampering is found |
| orchestrator, live feed (`ws.py`, `useIncidentFeed.ts`) | what a console shows | `_emit`: read back, publish | snapshots published in another order than read | never shows a state that never was |
| orchestrator, diagnosis client (`diagnosis_client.py`) | none | `analyze` with retries, model version lookup | an exception nobody catches | an analysis ends in a result or in ANALYSIS_FAILED |
| anomaly-detector (`services/anomaly-detector`) | open groups, cooldowns, liveness, deploy windows, detector statistics | group, flush, staleness check, deploy window, publish, save | timers driven by the arrival of messages; groups only in memory while offsets are committed | an open group is published once and in time; a cooldown mutes repeats, not escalations |
| fault-injector (`main.py`, `params.py`) | a thread per scenario, rows of `fault_scenarios`, what is disturbed on which container | `post_fault`, seven `run_*`, `undo_*`, `recover_interrupted` | threads on shared containers; a crash mid-fault; Docker refuses; a broken database connection | whatever is disturbed is on record; the testbed heals; every fault undoes itself |
| deploy-emitter (`main.py`) | `deploys`, its sequence, one shared connection | `create_deploy`: last version, insert, publish; simulation loop | two deploys read the same version; a statement fails, a connection breaks for good | events are rows; versions count up |
| metrics-bridge, metrics-sink | the cycle; position, batch, committed offset, `metrics` | poll and publish; read, write, commit, flush when silent | two commits with a crash between; foreign records | nothing below the offset is lost; what is published arrives |
| load-generator (`main.py`, `orders_store.py`) | next slot, catalogue ids, order history, counters | `acquire`, `refresh_catalogue`, a journey, `prune`, `reset` | workers race for slots and for the catalogue; pruning races with orders and resets | the offered load is flat; pruning keeps the newest; the counters describe the run |
| dummy-service (`main.py`, `traffic.py`) | slots | serve: acquire, work, call downstream, answer | callers give up, services die, are paused or point at themselves | a failure reaches the entry |
| diagnosis-service (`app/`) | `analyses` | `analyze`: read, look up, retrieve, score, prompt, ask a chain of models, validate, guard, fall back, save | models that fail, time out, are routed elsewhere or cite what nobody gave them; stored answers that are stale | an answer stands on what was read; scored modes always answer; a stored answer is what it is taken for |
| eval-dashboard dataset (`recent.py`) and its reader (`history.py`) | a CSV file, its modification time; parsed outcomes | export: query, merge, rename; read when changed | the database goes on, or is recreated, under an export; a rename between look and read | what the file knows it keeps; the reader knows when it is behind |
| evaluation-runner (`main.py`, `scoring.py`, `sources.py`) | plan, observed interval, collected alerts | `run_live`, `score_run` | a fault withdrawn late or never, alerts at any time, a collector thread that dies | quiet time is counted once; what is scored was observed |
| orchestrator-ui, pages of eval-dashboard | views | - | - | - |

### How the parts interact

The parts meet in Docker, Kafka topics, three databases and one file, and share no memory. The
detector and the orchestrator share only a topic, delivered at least once. The orchestrator calls
the diagnosis service synchronously from the thread that handles the anomaly or from the request
thread of a re-analysis. Within the orchestrator, the consumer thread, the sweeper thread and one
thread per REST request share *nothing but the database*: every call of the store is one connection
and one transaction, and between two of them anything may happen. That is where most of the
difficulty lies. The detector is one loop and one thread beside it; its difficulty is time (samples
carry their own clock, mutes and delays run by it) and what a restart forgets. The services of the
testbed are small sets of threads, each with calls that leave the process (Docker, MySQL, MongoDB,
Postgres, Kafka) and a crash possible between any two. `PROJECT.json` lists the hazards, each at
the line where it bites, with the properties that watch it.

## 2. Modules

| module | what it is | code |
|---|---|---|
| `Orchestrator` | the orchestrator process: consumer, sweeper and request threads over the database and the topic, with faults | `state_machine.py`, `db.py`, `kafka_consumer.py`, `sweeper.py`, `diagnosis_client.py`, `main.py`, `ws.py` |
| `OrchestratorProperties` | its safety, action and liveness properties, and the refinement mapping | - |
| `ApprovalGate` | abstract specification: an incident passes a human gate once, and the executor gets what was granted | `docs/phase-m4-orchestration.md`, "The incident lifecycle" |
| `OrchestratorInvariant`, `OrchestratorProofs` | the inductive invariant `IInv`; proofs of the safety and action properties | - |
| `OrchestratorRefinement` | proof that `Orchestrator` implements `ApprovalGate` | - |
| `AuditLog` | the transactions of `db.py` that write the audit log, one statement at a time under READ COMMITTED | `db.py`, `audit.py`, `008_incidents.sql` |
| `AuditLogProperties` | its properties, `verify_chain`, and the refinement mapping | `db.py` |
| `AtomicAudit` | abstract specification: a transaction is one step | `db.py`, module docstring |
| `AuditLogInvariant`, `AuditLogProofs` | the inductive invariant `AInv` and the proofs | - |
| `AnomalyDetector`, `AnomalyDetectorProperties`, `AnomalyDetectorInvariant`, `AnomalyDetectorProofs` | the detector's loop: samples, groups, cooldowns, silence, publication, commit, restart; its invariant `LoopInv` and proofs | `anomaly-detector/main.py`, `grouping.py`, `staleness.py` |
| `DriftDetector`, `DriftDetectorProofs` | one metric's detector and its service's deploy window, with properties and proofs | `detectors.py`, `deploy_window.py` |
| `FaultInjector`, `FaultInjectorProperties`, `FaultInjectorProofs` | faults as threads over shared containers | `fault-injector/main.py`, `params.py` |
| `Deploys` | deploys as rows and events | `deploy-emitter/main.py` |
| `MetricsPipeline` | samples from Prometheus to the table | `metrics-bridge/main.py`, `metrics-sink/main.py` |
| `LoadPacing`, `OrderHistory` | the pace of the journeys; the order history and its counters | `load-generator/main.py`, `orders_store.py` |
| `DummySite` | requests over a call graph | `dummy-service/main.py`, `traffic.py` |
| `Scoring` | the ranking of candidates and retrieval, as functions | `scoring.py`, `graph.py`, `retrieval.py` |
| `Hypotheses` | prompts, replies, the guardrail, the ranking without a model, as functions | `hypotheses.py`, `prompts.py`, `llm.py`, `guardrail.py`, `deterministic.py` |
| `DiagnosisService` | POST /analyze over both, with stored answers | `main.py`, `pipeline.py`, `analyses.py`, `db.py`, `openrouter.py` |
| `AnomalyDataset` | the dataset of outcomes, its export and its reader | `eval-dashboard/recent.py`, `main.py`, `diagnosis-service/app/history.py` |
| `EvaluationRun` | a live evaluation run and its scores | `evaluation-runner/main.py`, `scoring.py`, `sources.py`, `scenarios.py` |
| `TestbedProofs` | proofs about `MetricsPipeline`, `LoadPacing`, `OrderHistory`, `Deploys`, `DummySite` and `EvaluationRun` | - |
| `DiagnosisProofs` | proofs about `Scoring`, `Hypotheses`, `DiagnosisService` and `AnomalyDataset` | - |
| `MCServices` | composes everything around the orchestrator and the detector's loop for one run of TLC | - |
| `MCOrchestrator`, `MCAuditLog`, `MCAnomalyDetector`, `MCDriftDetector`, `MCFaultInjector`, `MCDiagnosis`, `MCEvaluation` | constants for TLC | - |

Two levels meet at `AtomicAudit`. `Orchestrator` treats each store call as one atomic step that
changes a row and appends its entry; `AuditLog` opens that step up and shows that transactions made
of several statements, with their locks and rollbacks, have the effect of single steps.

Operators marked `Mutant` in a comment are not part of the models: each is a plausible bug with
which `PROJECT.json` shows that a property can fail.

### Orchestrator

A thread's control state `pc[t]` names the store call, or the call of the feed or of the diagnosis
service, that its handler makes next; `job[t]` holds the handler's local variables. The database
variables are columns of `orchestrator_incidents` (`state`, `anomaly`, `attempts`, `hyps`,
`deadline`, `decision`, `executed`), the audit trail per incident (`trail`) and the feedback rows.

* Each operator of the section "The transactions of db.py" is one function of `db.py`: a guarded
  UPDATE with its audit entry, or nothing when the UPDATE matches no row.
* `Connect`, `Fetch`, `Commit`, `LoseBroker` are the consumer loop. The iterator moves its position
  past a record before the handler runs; the commit runs when the iterator has been idle, which may
  be any time no handler is running. A handler that raises gives its record up.
* `LookupAnomaly`, `OpenIncident`, then `StartAnalysis` ... `FailAnalysis` are `handle_anomaly` and
  `analyze`; a re-analysis enters at `StartAnalysis`.
* `ReadBack` and `Publish` are `_emit`: the row is read in a transaction of its own and the snapshot
  is published later.
* `ApproveRead`, `Approve`, `LogIntent`, `MarkExecuted` are the four transactions of `approve`;
  `RejectRead`, `Reject`, `SaveFeedback` those of `reject`.
* `DeadlinePasses` is the clock: `deadline[i]` is what `expires_at` is against `now()`.
* `Crash` kills all threads; the database and the topic survive. A clean stop is a `Commit`
  followed by `Crash`. `DatabaseFails(t)` raises `DatabaseUnavailable` before a call or after a
  commit nobody heard of. `VersionLookupRaises(t)` is the `HTTPStatusError` that no handler catches.

### AuditLog

A connection runs one transaction at a time: an UPDATE that finds rows in a snapshot
(`BeginUpdate`), waits for each row's lock and looks at the WHERE clause again (`UpdateRow`),
`rowcount` (`CountRows`), then for each changed row the advisory lock (`TakeLogLock`), the SELECT of
the chain's end (`SelectTip`) and the INSERT (`Insert`), and `Commit` or `Rollback`. `Rollback` may
strike anywhere: a failing statement, a lost connection, a killed process. Only the sweep finds
several rows at once. SHA-256 is idealised: a hash *is* the sequence of the contents hashed so far.

### AnomalyDetector

One round of `main.py run` is `ReadSample`*, `EndBatch`, `ReportSilence`*, `EndSilence`, `Flush`*,
`Publish`*, `Commit`. `raw` is `metrics.raw` beyond the committed offset, `read` how far the
iterator has come in it; `Restart` forgets everything else in memory and goes back to the offset, or
to the end of the topic if there is none. The topic's three partitions are one sequence; that a
sample is stamped up to `Lag` ticks before it arrives gives the disorder between partitions and
between the scrape and its publication. `AddSignal` is `AnomalyGrouper.add` with its three outcomes,
`Join`, `StayMuted` and `OpenGroup`. Scores are in units in which the firing threshold is
`StaleAfter`, so that the score of a silence, gap / stale_after, is the gap. `signal` is the loop's
local variable of that name. Whether a sample makes a signal is open: that is `DriftDetector`.

### DriftDetector

`Ask` is `tracker.required_breaches`, `Update` is `Detector.update`; the deploy thread may run
`RecordDeploy` before, between and after. `samples` keeps what was fed in, so that properties can be
stated about the samples and not about the counters that are meant to summarise them; `folded`
counts the breaching samples `_observe` was given in the current streak.

### FaultInjector

`thread[s]` is where the thread of a scenario is between its calls: `Start` finds the container or
connects to MySQL, `Annotate` records the original memory limit, `Preflight` looks for another
holder of the lock, `Apply` and `LockTable` disturb, `Reapply` is the ramp and the re-asserted hosts
entry, `Wake` ends the hold, `Undo` is the `finally`, `MarkRecovered` and `MarkFailed` close the row.
`disturbed` is the set of (container, setting) pairs that are not what they should be; each of the
seven faults is one of six settings. `CanApply`, `CanUndo`, `AfterApply` and `AfterUndo` say what
Docker makes of a call on a container that is stopped or paused. A refusal may come before or after
the call took effect. `Crash` takes the threads, leaves containers and rows, and may leave a session
on MySQL that nobody has noticed is dead; `SelectInterrupted`, `RecoverUndo`, `RecoverMark` and
`Serve` are `recover_interrupted`, row after row; when the undo of a row raised and its `mark_failed`
meets a broken connection as well, nobody catches it and the process starts over (`RecoverDies`). An
exception inside the ramp's `try` undoes the fault and closes the row as failed (`unwind`). `stale` is the shared Postgres connection that is broken before
psycopg2 knows.

### Deploys, MetricsPipeline, LoadPacing, OrderHistory, DummySite

`Deploys` splits `create_deploy` at its three calls. `deploy_id_seq` advances on a failed INSERT; a
version is its patch number. `MetricsPipeline` has the bridge's cycle (`BeginCycle`, `Poll`,
`EndCycle`) and the sink's two commits (`sinkAt = "stored"` lies between them); `metrics` counts how
often the table holds the sample at an offset, because a row is written again after a crash.
`LoadPacing` splits `acquire` from the answer, and the look at the catalogue's age from the attempt
that records it. `OrderHistory` splits a round of the pruner into its count, find, delete and
counter update, and a reset into clearing the history and zeroing the counters; a delete of either
that raises may have taken effect in part (`PruneFails`, `ResetFails`). `run` is what the counters
may claim. `DummySite` has one record for each request and call; a caller that times out
leaves its callee working.

### Scoring, Hypotheses, DiagnosisService

The first two are functions of what one transaction read: layers of a breadth-first walk, signals and
weights in percent, the options of a candidate, the prompt as the set of options it lists (and how
much of it had to be dropped to fit, chosen by the environment), a reply as a sequence of hypotheses
or garbage, validation, normalisation, guardrail. `DiagnosisService` runs requests as threads through
`ScoringInputs`, the look at the stored answers, `Prepare`, the attempts over a chain of models,
`Save`. Other requests, late anomalies, the end of the window for them and a restart with other
settings, under another fingerprint or the same, fall between any two. A reply may be in the name of another model than the one asked.

### AnomalyDataset, EvaluationRun

An export is `BeginExport` (one query), `WriteDataset` (merge with the file), `Rename`; the database
changes under it and may be recreated (`Wipe`). A diagnosis appears when it does and may be replaced
until the incident is decided (`Diagnose`), so that a row is exported with none, with one and with
another. The reader's `Stat` and `ReadFile` are two steps.
`EvaluationRun` is `run_live` with the collector as a second thread and the injector and detector as
environment; `ScoreScenario`, `FindFalsePositives` and `QuietSeconds` are `scoring.py`.

### MCServices

The services share no state, and interleaving them would multiply the states of ten small models
without a new behaviour. So a behaviour of `ServicesSpec` chooses one part and runs it alone; the
variables of the others stay as they start. Every property is about one part. The dataset is split
in two: exports of every diagnosis and verdict with nobody reading, and a reader beside exports of
anomalies nobody diagnoses, since it goes by the file's time alone.

## 3. Runs

All runs switch deadlock checking off: publishing, requests and faults are bounded, and when the
bounds are used up and every handler has ended the system rightly stands still. That it never stands
still too early is what the liveness properties and `NoDeadlock` say.

| run | bounds | question and answer |
|---|---|---|
| `OrchestratorRaces` | 1 incident, 2 requests, 2 ranks, 2 menus, 3 attempts, 1 extension, 1 database failure anywhere | Approvals, rejections, extensions, re-analyses and the sweep race. Trail and row agree (`TrailIsLifecyclePath`), intents name the approved action, feedback agrees, hypotheses are not replaced under the approver's eyes, the console shows only history, verdicts are final, and the whole implements `ApprovalGate`. |
| `OrchestratorIntake` | 2 records, of 1 anomaly or malformed, 1 request, 1 extension; at most 1 crash, 1 lost broker, 1 database failure anywhere, 1 escaping exception, all in one behaviour | No anomaly is opened twice; every anomaly beyond the committed offset is opened unless the database failed; every window that opens is closed, although a request extends it and a sweep fails or is not heard. |
| `OrchestratorProgress` | 1 incident, 2 requests, no faults | Every analysis ends; every approval is handed over, every rejection leaves its feedback. |
| `OrchestratorStuck` | 1 escaping exception | *Violated*: finding 1. |
| `AuditLog` | 2 requests and the sweep, 2 rows, transactions begin while the log has fewer than 3 entries | One chain, rows and log agree, no deadlock, damage is found, and transactions are atomic. |
| `DetectorMutes` | 2 services of 1 site, 3 samples, 6 ticks, cooldown 4, groups of 2 | Alerts about one service are a cooldown apart, up to the lag of the samples, unless they escalate; no escalation is muted. |
| `DetectorLive` | 2 sites, 2 samples, 5 ticks, 1 restart | After the last sample each group is published and each silence noticed. |
| `DetectorMutedOutage` | 1 service, 3 samples, 9 ticks | *Violated*: finding 2. |
| `FaultsOverlap` | 2 faults on 2 containers, no mishap | *Violated*: finding 3. |
| `DiagnosisStale` | 2 requests, 1 late anomaly, mode `full` | *Violated*: finding 4. |
| `EvaluationWarmup` | 1 alert, a warm-up of 1 | *Violated*: finding 5. |
| `Services` | one part at a time, see below | 19 properties of ten parts. |

`Services` by part:

| part | bounds | properties |
|---|---|---|
| fault injector | all 7 faults, 2 containers, 2 scenarios that do not overlap, 2 seconds, 2 crashes, 1 refusal, 1 lost connection | `DisturbanceOnRecord`, `TestbedHeals` |
| deploy emitter | 2 threads, 1 service, 2 deploys, 1 failing statement or lost database | `EventsAreRows`, `VersionsAdvance` |
| metrics | 1 instance and the testbed, 2 cycles, batches of 2, malformed and undecodable records, 1 crash of each | `WrittenBelowOffset`, `SamplesReachTable` |
| pacing | 2 workers, 4 ticks, 4 slots | `OfferedLoadIsFlat` |
| orders | 2 workers, ceiling 1, 4 orders, 2 resets, 1 failure of a prune or a reset, with any part of its effect | `CountersDescribeTheRun`, `PruneKeepsNewest` |
| site | 3 services in a diamond of calls, one with a single slot, 5 calls, 1 fault | `FailureReachesTheEntry` |
| drift | 7 samples, 2 deploys, bars of 2 and 3, 2 frozen | `RegressionFires`, `OnsetIsHonest`, `FaultIsNotTheNewNormal` |
| diagnosis | 1 request at a time, 4 modes, 2 models, 6 replies, 1 late anomaly, 1 restart with or without another fingerprint | `HypothesesAreSound`, `ScoredModesAnswer`, `CacheHitsAreFaithful` |
| dataset, exports | 1 anomaly and 2 old rows, 2 days, 1 fault, 2 exports, 1 lost database, diagnoses of 2 services that come late or change | `DatasetKeepsWhatItKnows` |
| dataset, reading | the same with a reader and no diagnosis | `ReaderIsUpToDate` |
| evaluation | 2 faults, 1 alert, 6 instants | `QuietTimeIsCountedOnce` |

Why these bounds are enough. Races on a row need two requests against the sweeper and the consumer,
and a third request adds no transaction the first two do not have. Two menus of different length and
order tell the approved hypothesis from the first one. Three attempts let two re-analyses of one
failure overlap and a late one find the incident awaiting approval. Two rows let a sweep hold one
and wait for the other. In `DetectorMutes` one sample opens an alert, the second joins it and the
third tries to alert again; silence gives further signals without samples. A cooldown of four ticks
is longer than twice the lag, so the tolerance of `ReAlertSpacing` does not swallow it. Two crashes
let the recovery of a crash be interrupted by another. Two scenarios are a fault and one after it on
the same container, or one beside it. Two batches of two records and a crash put a commit on either
side of a loss. A diamond of calls makes one service wait for a slot that another call holds. Seven
samples fit a warm-up of two and a streak that outlasts `MaxFrozen`. Six replies are each wrong in a
way of their own. The proofs in section 4 do away with the bounds for most safety properties.

`Overlap = FALSE` in `Services` is what the evaluation suite does, which injects one fault at a time;
the API does not ask for it, and `FaultsOverlap` shows what then happens.

Fairness. In `Orchestrator` (`FairSpec`) a running thread takes its next step, because the handlers
block only on calls with timeouts; the clock advances; the sweeper wakes up every few seconds as
long as the process lives (`sweeper.py` catches everything); the consumer reconnects for ever. All
of it is weak fairness. Nobody is obliged to publish, to send a request, or to fail, and the faults
are finitely many. `Commit` is only weakly fair: it is disabled while a handler runs.

The detector's `FairSpec` lets the clock advance and the loop go round (`main.py` calls nothing
without a timeout except Kafka's own flush). That a batch ends needs a second without a message.
The model has a last sample instead, which is the case the properties are about; metrics-bridge
pauses between scrapes.

`ServicesSpec` has two: *some* thread of the fault injector that can go on does (each hold is a
`sleep` of bounded length, each call on Docker has a timeout; containers restart the process, and
MySQL reaps sessions), and the sink goes on (a poll returns within a second, and the container is
restarted).

Symmetry is used for request threads, in runs without liveness properties only.

### Findings

1. *An incident can be stuck in ANALYZING* (`OrchestratorStuck`). `diagnosis_client.py:110` calls
   `raise_for_status()` under `except (httpx.RequestError, ValueError)`. `httpx.HTTPStatusError` is
   neither, and `state_machine.py:68` catches only `DiagnosisFailed`. The incident stays in
   ANALYZING; redelivery skips it, `reanalyze` answers 409, the sweeper does not look at it.
   `docs/phase-m4-orchestration.md:31-33` says it is never stuck.
2. *An outage can go unreported* (`DetectorMutedOutage`). `staleness.py:59` marks a silent service
   as reported, then `grouping.py:167-170` drops the signal if an alert named the service less than
   a cooldown ago: the score of a silence just noticed is about 1, and it would take
   `escalation_factor` times the earlier peak to get through. Nothing raises it again while the
   service stays dead. A service that degrades, alerts and then dies within two minutes is never
   reported silent, and `README.md:615` makes that report the condition for proposing a restart.
3. *Overlapping faults do not undo themselves* (`FaultsOverlap`). `post_fault` accepts a fault for a
   container that has one. The second memory fault takes the squeezed limit for the original and
   puts that back; an undo that needs a running container fails while the other fault has stopped
   it. `main.py:34-36` says every fault undoes itself. Without overlap it does, and
   `LoneFaultsUndoThemselves` proves it.
4. *A stored answer that missed an anomaly is served again* (`DiagnosisStale`). The test at
   `main.py:216` compares the time the run was *saved* with the end of the window for related
   anomalies; its inputs were read before a model was asked, which may take minutes.
   `main.py:213-214` says such a run is not served again.
5. *Alarms of the warm-up count as false positives* (`EvaluationWarmup`). `run_live` starts the
   collector before the warm-up and scores all it collected, over quiet time that begins after the
   warm-up. `docs/phase9-detection.md:88-91` describes a startup alarm that was *not* scored.

Seen while reading, without a run: the comment at `kafka_consumer.py:77-78` says that a restarted
orchestrator skips what it missed, but `auto_offset_reset="latest"` speaks about groups without a
committed offset, and this one commits (`PublishedAnomalyIsOpened` holds across a crash).
`pipeline.py:140-142` says a rejected reply is "retried against the same model", but each attempt
walks the chain from its primary, so a model that was away the first time may answer the second.
`history.py:97-100` speaks of rows without the column `root_cause_service`; `recent.py:381` writes
every kept row with all columns, so that the next export leaves such a row an empty column and it
confirms no fault any more, while `history.py:100` calls it still usable
(`DatasetKeepsWhatItKnows` is therefore about the other rows). `docs/phase9-detection.md:115` says that the static detector is exempt from the
warm-up, but `main.py:167-171` gives every detector `warmup=WARMUP_SAMPLES`. `analyses.py:3-5` says that a changed model setting never serves an answer produced under the old
one; `config_fingerprint` (lines 42-62) leaves out `llm_reasoning_effort`, `llm_provider`,
`llm_fallback_models` and the timeouts, so that a service restarted with another of these serves its
old answers (`Reconfigure` may leave the fingerprint as it is, and `CacheHitsAreFaithful` promises
the fingerprint only). The models follow the code.

Properties that do *not* hold of this code and are therefore not claimed: that an approval is always
followed by its intent and a rejection by its feedback row (a crash or database failure in between
loses it, and a retry answers 409); that an analysis ends in spite of a crash; that the console
catches up (the last snapshot published need not be the last one read); that an anomaly is opened
although the database failed (`kafka_consumer.py` says so itself); that a group or a silence survives
a restart of the detector; that overlapping deploys of one service get different versions; that a
scenario's row is closed although Postgres went away twice; that an undecodable record leaves the
sink or the evaluation's collector alive; that the pruned counter has every pruned order (a
`delete_many` that took effect and whose reply was lost is counted nowhere, `orders_store.py:49`);
that a hit was made under the settings in force; that the column `diagnosis_correct` of an exported
row stays as it is; that no fault runs unscored (the injector may have acted on a POST whose reply
the evaluation-runner never got).

## 4. Proofs

TLAPS checks every theorem for all values of the constants, under the assumptions in the modules:
the consumer, the sweeper and the requests are different threads, `None`, `Null`, `Malformed` and
`Undecodable` are nothing else (`RowAssumption`, `ForeignAssumption` say it of rows and samples, the
`NoneAssumption` of `AnomalyDetector` of groups and signals), answers are sequences of hypotheses,
the bounds are natural numbers, and in `AuditLog` the sweeper is one of the connections and there
are finitely many rows. In the diagnosis service an event names a service, the names have an order,
the weights are those of `scoring.py` (they sum to one, and the graph's is not all of it), a
similarity is clipped, and a reply that passes `models.py` has its contract's shape.

**Orchestrator.** `TrailIsLifecyclePath` and its companions are not inductive: a handler that is
about to log an intent must hold the hypothesis the row's decision names, and nothing in the
database says so. `IInv` adds what each handler may rely on between two transactions
(`StaleReadsStayValid`): the menu a handler chose from is unchanged if the incident is still
awaiting approval, `log_intent` is reached only by the thread whose verdict is in the row and whose
trail ends with APPROVED, `save_feedback` only by the thread that rejected. The argument for the
step is that a guarded UPDATE lets one thread through, and after it no other transaction touches the
columns that thread still needs. The consumer being a single thread is what makes the lookup before
the insert safe. From `IInv` follow `TypeCorrect`, `AuditTrailMatchesRow`, `HandlersNotFooled`,
`OnlyApprovedActions`, `IdempotentIntake`, `FeedbackIsTheDecision`, `ConsoleNeverAhead` and the
action properties `FinalVerdicts` and `HypothesesStable`.

**OrchestratorRefinement.** `GateImplemented`: every step maps to a step of `ApprovalGate` or to a
stutter. `granted` is read off the decision columns and the hypotheses, `handed` off the trail, so
the proof needs `IInv` for the approving step (the rank is still on the menu) and for the intent
(it is the first and names the granted action).

**AuditLog.** `AInv` says what a transaction owns: who reads the chain's end or has pending entries
holds the advisory lock, and the committed log followed by its pending entries is a chain
(`ChainIsOwned`); row locks are taken before the advisory lock (`LockOrder`); changed rows are
locked by their changer and still open as committed (`RowsAreOwned`); the pending entries are one
for each row done (`RowsAreLogged`). `ChainStaysIntact` and `OneVerdict` follow, and from the chain, as the hash commits to what it covers,
`DamageFound`: only the last entry can be replaced unseen. `DeadlockFreedom`
is `LockOrder` and a short argument: the holder of the advisory lock waits for nothing, and of the
connections that wait for a row only the sweeper holds one, so a circle would have one member.

`TransactionsAreAtomic`: every statement is a stutter of `AtomicAudit` but the commit. A commit that
closes rows is one `Close` of the rows its entries name, in the order of the entries: they are
distinct and still open because the transaction holds their locks, and they are at most as many as
there are incidents. For the other commits the invariant has to say that a connection which is not
the sweep's changes one row and writes one entry at most (`OneEntry`), or one commit would be two
steps of the abstract log.

**AnomalyDetector.** `ReAlertSpacing` compares two alerts, the code remembers only a mute for each
service, dropped as soon as any signal comes in that is later than its end. `LoopInv` ties them: a
mute belongs to the latest alert that names the service and ends a cooldown after its flush or later,
but for the lag, and where there is no mute any more, whatever the loop may yet be told the time is
lies behind that end (`MuteIsOwed`). The latter is about the future, so the invariant has to know
that no unread sample is older than another before it by more than the lag (`SamplesInOrder`) and
that the end of a batch lies behind all that was read in it (`TickIsPast`). The opener of a group
may alert when the group opens (`GroupOfSite`); that it still may when the group is flushed needs
that no alert about its service is published in between, for it would have been due to the same
site's group. `AlertsKeepTheirDistance` and `EscalationsAreHeard` follow, with the allowance of two
lags that the property states and TLC shows to be needed.

**DriftDetector.** The properties speak of the samples, the detector has counters. `DInv` ties them:
`streak` is the length of the longest run of breaches that ends the samples after the warm-up
(`CountersCount`), what is frozen and folded follows from it (`StreakIsKeptOut`), the bar of the
sample in hand is one of the two (`BarIsRaisedOnly`) and the last signal agrees with the streak
(`SignalEndsStreak`). The lemmas `StreakIsLongest` and `StreakIsStreak` translate between the
two, and `RegressionsFire`, `OnsetsAreHonest`, `FaultsStayFaults` and `NewestDeploy` follow for any
bars, windows, deploys and numbers of samples.

**FaultInjector.** `DisturbancesOnRecord` and `LoneFaultsUndoThemselves` assume `~Overlap` and
nothing about how often what goes wrong. That a disturbance has a row says nothing about the step
that closes the row: it needs to know that the undo before it worked. `FaultInv` therefore says, by
where a thread is, that its scenario *answers for nothing* (`Clean`): before it has applied its fault
and after it has undone it, its setting is disturbed only if an earlier scenario, closed as failed
after a refusal, left it so. With one running fault on each container (`OneFaultEach`) nothing else
disturbs the container, so an undo is refused only if Docker has refused something before
(`UndoWorks`). For a memory limit the invariant also says that what was read as the original was
disturbed only by such an earlier one. `OthersStayClean` and `ScenarioStep` do the part common to
all steps of one thread: the other scenarios, their rows and their settings are as before.

**MetricsPipeline.** `NothingIsLost`: the rows below the offset are in the table because the offset
follows the write. The invariant adds what the batch holds, exactly the samples this life of the
sink has read and not yet committed, and how many copies of each the table may have by how far the
sink is with it.

**LoadPacing, OrderHistory.** `LoadStaysFlat`: the next slot is beyond every slot handed out by an
interval, and the recorded attempt is the last one made; `CountersStayTrue`: what is counted, what
is under way and what went without an answer together are what the run did; the last is what a
failed delete took, which the code cannot know and the model keeps in `run.lost`.
`PrunerKeepsNewest`: as long as no reset crosses a round, what it counted is still there, what it
found is the oldest of that, and orders placed meanwhile are younger (`NewestInv`), so that each
order that goes leaves the ceiling's worth of newer ones, whether the delete takes all of what was
found or a part. For any number of workers, orders, failures and resets.

**Deploys.** Every thread between INSERT and publication has its row in the table, and no event
names it yet (`RowsAreNumbered`); rows are numbered by the sequence, which failed statements only
advance: `EventsStayRows`. `VersionsKeepAdvancing` is an induction over the table that the invariant
carries itself: a computed version is the one after the latest row its thread saw
(`VersionsFollow`), and if no request overlapped, that is the last row before its own.

**DummySite.** How far a request is says which calls it has made, in which order, and that all but
the one under way were answered and did not fail (`CallsAsFarAs`). A call belongs to one request and
an answer is final, so the steps of other requests, which may go on working for a caller that has
given up, disturb none of it. `FailuresReachTheEntry` is this at the end of a request.

**DiagnosisService.** `AnswersAreSound` and `ScoringAlwaysAnswers` are facts about functions: each
answer is what `hypotheses.py` makes of what one request read, and the invariant (`DiagnosisInv`)
only says so of answers on their way and of stored ones. `SortSeq` and `SelectSeq` are closed to the
provers, so the models take the elements of a set by their places in an order, and `Sorted` and
`Taken` say once that each element gets one place and the places are in that order. From there:
every candidate's options are backed by the records that were read (`CandidateIsBacked`), a prompt
lists only such options (`PromptIsBacked`), a reply that is accepted cites only what the prompt
lists (`RepliesAnswer`), the guardrail only drops (`GuardrailOnlyDrops`), and what is left names
services in falling order of confidence, with actions the evidence calls for (`OrderedIsSound`).

`ScoringAlwaysAnswers` has a precondition, `Roomy`: a prompt, squeezed as it may be, has room for as
many candidates as an answer has hypotheses. The ranking that stands in for a model cites its own
evidence, and the guardrail would drop what the prompt does not list. The defaults satisfy it
(`PROMPT_MIN_CANDIDATES` and `MAX_HYPOTHESES` are both 3); `settings.py` does not check it, and with
a smaller minimum TLC finds an answer that has lost a hypothesis.

`HitsAreFaithful` needs to know of a stored row that how it came about tells whose it is: what a
model wrote names that model, and only a mode that asks none stores the scorer's own ranking as such
(`Attributed`). A hit compares mode, model and fingerprint with what is asked now, and a request
keeps the row it found, whatever the table becomes meanwhile. The fingerprint is less than the
configuration: of two configurations it may be the same.

**AnomalyDataset.** `ReaderStaysUpToDate` never looks into a row: the time a reader notes is one the
file had before it was opened, so a rename in between leaves the noted time behind the file's.
`DatasetKeepsKnowledge` compares one file with the next. A row of the file that confirmed an
injected fault does so by a fault that began in the anomaly's window, and as long as the database
remembers that fault it is still the one an export would name (`StillTrue`): windows of faults only
close, closed ones stay, an anomaly is detected once, and a fault injected later begins too late. An
export of a database that has lost the anomaly keeps the row of the file instead (`KeptRow`).
Diagnoses are no part of it: one may be stored after the fault was withdrawn and the row exported,
or be replaced by a re-analysis, and then `diagnosed_service` and `diagnosis_correct` of the next
export differ from the last, which is why the property speaks of the fault's service and time only.

**EvaluationRun.** `QuietTimeIsFaultFree` is about a list merged as a loop goes and a sum. Each is a
recursive function of the number of spans done, which the provers know nothing about until it is
shown to exist; a least number of spans for which it did not would be the successor of one for which
it does (`MergingExists`, `TotallingExists`). The same argument shows that the merged spans cover
what the spans so far covered and lie apart (`MergedCover`; a new span begins no earlier than any
merged one, as rows come in the order of their injection) and that the sum of spans that lie apart
is the number of instants they cover (`TotalIsCovered`). The invariant gives what `quiet_seconds`
assumes: rows in that order, and an observation that ends after it began.

**Type invariants** are part of the inductive invariants (`Orchestrator`, `AuditLog`,
`AnomalyDetector`, `DriftDetector`, `FaultInjector`, `LoadPacing`, `Deploys`, `DummySite`,
`DiagnosisService`) or theorems of their own (`PipelineStaysTyped`, `OrdersStayTyped`,
`DatasetStaysTyped`). No run lists them: they hold in every state of the runs, and say nothing of
the code that its properties do not.

**Only model-checked:** the liveness properties (`ApprovalWindowCloses`, `PublishedAnomalyIsOpened`,
`AnalysisSettles`, `VerdictIsCarriedOut`, `GroupIsPublished`, `SilenceIsNoticed`, `TestbedHeals`,
`SamplesReachTable`): fairness is beyond the provers. Every safety and action property that a
passing run checks is a theorem.

## 5. Not modelled, and why

* Read-only operations (lists, the audit view, `resolve_evidence`, `/health`, the pages and plots of
  eval-dashboard, orchestrator-ui) change nothing. That a console that reconnects does not fetch what
  it missed (`useIncidentFeed.ts`) is such a thing: the model's console stays connected.
* Retries and backoff of the diagnosis client and of the models' client: only their outcome reaches
  the state machine or the pipeline.
* A record that is not JSON ends the orchestrator's consumer thread for good
  (`kafka_consumer.py:74`): listed as a hazard without a property, since nothing then goes on. The
  same record on metrics.raw and anomalies.detected is modelled (`ReadUndecodable`, `Collect`).
* Arithmetic over real numbers: the four detectors (means, deviations, CUSUM sums), embeddings and
  similarity, latencies and their percentiles, token counts. What the models keep of each is the
  choice it makes.
* The choice of past outcomes (`select` in `history.py:147-180`) by similarity: any or none of the
  confirmed ones may be shown.
* A publication on anomalies.detected that the producer gives up on after its retries: nobody looks
  at the future of the send, and the model counts as published what the loop does. A `delete_many`
  that goes on in MongoDB after the client has had its error: its effect is complete when it fails.
* The wording of alerts, prompts and causes, and the table `anomalies`: `store.py` comes after the
  publication, lets no failure escape, and the detector never reads it.
* evaluation-runner: `report.py`, `attribution.py`, `audit.py`, `sweep.py` and `replay.py` compute
  on what a run left and keep no state; ranks of diagnoses are counted there. `ingest` of the
  incident corpus, schema migrations and the scripts under `scripts/` run once, by hand.

## 6. Plan

Done: the orchestrator's lifecycle and intake, its audit log, the anomaly detector, the services of
the testbed, the diagnosis service, the dataset, a live evaluation run, and the proofs named above.
What is left, in order of importance:

1. What the scores of a run say besides its quiet time (a detected scenario's event, false
   positives), as properties and theorems.
2. `Pipeline` composing detector, topic and orchestrator: from a breach to an incident.
3. Attribution, sweep and replay of the evaluation-runner against reference definitions.
4. Overlapping faults: the weakest condition on what is posted under which every fault undoes itself.
