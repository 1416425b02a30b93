--------------------------- MODULE AnomalyDataset ---------------------------
(***************************************************************************)
(* services/eval-dashboard: the dataset of every anomaly and how it ended  *)
(* (recent.py, export in main.py), and its reader in the diagnosis-service *)
(* (history.py), which takes confirmed rows for past outcomes.             *)
(*                                                                         *)
(* An export reads the database, merges the rows into the file and renames *)
(* the result into place; the background thread and the download share a   *)
(* lock, so there is one at a time.  The database goes on under it, and is *)
(* lost when its volume is.  The reader looks at the modification time and *)
(* opens the file in two steps of its own.                                 *)
(*                                                                         *)
(* All anomalies are on one service, Symptom; the faults recorded against  *)
(* it break Broken.  Times are whole and coarse.                           *)
(***************************************************************************)
EXTENDS Integers, Sequences, FiniteSets, FiniteSetsExt, Functions

CONSTANTS
  Anomalies, SilentOnes,     \* and those of the staleness detector
  OldRows, OldDependency,    \* rows from before root_cause_service was a column
  Symptom, Broken,
  Rankings,                  \* what a diagnosis may name: services in rank order
  Cap, Grace, Quiet, Retention,
  Absent,                    \* no such column
  MaxDay, MaxFaults, MaxExports, MaxWipes

ASSUME DatasetAssumption ==
  /\ SilentOnes \subseteq Anomalies /\ OldDependency \subseteq OldRows
  /\ Anomalies \cap OldRows = {}
  /\ \A services \in Rankings : services # <<>>
  /\ {Cap, Grace, Quiet, Retention, MaxDay, MaxFaults, MaxExports, MaxWipes} \subseteq Nat

VARIABLES
  today,
  detected,    \* anomalies in the database: when
  faults,      \* fault_scenarios, by t_inject
  diagnoses,   \* of anomalies: the services named, in rank order
  decisions,   \* of the incidents of anomalies
  reports,     \* when the service sent metrics, as far as they are kept
  dataset,     \* the file's rows
  mtime,       \* its modification time; 0, no file
  export,
  reader,
  wipes

Ranks == UNION {DOMAIN services : services \in Rankings}

databaseVars == <<detected, faults, diagnoses, decisions, reports>>
datasetVars == <<today, databaseVars, dataset, mtime, export, reader, wipes>>

Empty == [a \in {} |-> Absent]
NoExport == [at |-> "idle", rows |-> Empty]
OldRow(a) ==
  [detected |-> 0, injected |-> TRUE, truth |-> Symptom, root |-> Absent,
   dependency |-> a \in OldDependency, diagnosed |-> {Broken}, correct |-> {FALSE},
   decision |-> "approved",
   decidedAt |-> {0}, fixed |-> {Symptom}, resolution |-> "resolved", resolvedAt |-> {0}]

DatasetTypeOK ==
  /\ today \in 0..MaxDay
  /\ DOMAIN detected \subseteq Anomalies /\ DOMAIN diagnoses \subseteq DOMAIN detected
  /\ DOMAIN decisions \subseteq DOMAIN diagnoses
  /\ reports \subseteq 0..MaxDay
  /\ DOMAIN dataset \subseteq Anomalies \cup OldRows
  /\ mtime \in Nat
  /\ export.at \in {"idle", "queried", "written"}
  /\ reader.at \in {"idle", "open"}

DatasetInit ==
  /\ today = 0
  /\ detected = Empty /\ faults = <<>> /\ diagnoses = Empty /\ decisions = Empty /\ reports = {}
  /\ dataset = [a \in OldRows |-> OldRow(a)]
  /\ mtime = IF OldRows = {} THEN 0 ELSE 1
  /\ export = NoExport
  /\ reader = [at |-> "idle", seen |-> 0, mtime |-> 0, outcomes |-> {}]
  /\ wipes = 0

Fixed == UNCHANGED <<dataset, mtime, export, reader, wipes>>

---------------------------------------------------------------------------
(* What happens to the service *)

\* The metrics table forgets what is older than Retention.
Dawn ==
  /\ today < MaxDay
  /\ today' = today + 1
  /\ reports' = {t \in reports : t >= today + 1 - Retention}
  /\ UNCHANGED <<detected, faults, diagnoses, decisions>> /\ Fixed

\* Samples from before the first anomaly are of no account.
Report ==
  /\ \E a \in DOMAIN detected : detected[a] < today
  /\ reports' = reports \cup {today}
  /\ UNCHANGED <<today, detected, faults, diagnoses, decisions>> /\ Fixed

Detect(a) ==
  /\ a \notin DOMAIN detected \cup DOMAIN dataset \cup DOMAIN export.rows
  /\ detected' = [b \in DOMAIN detected \cup {a} |-> IF b = a THEN today ELSE detected[b]]
  /\ UNCHANGED <<today, faults, diagnoses, decisions, reports>> /\ Fixed

\* No two instants of the real clock are one: a fault comes after what was seen.
Inject ==
  /\ Len(faults) < MaxFaults
  /\ \A i \in DOMAIN faults : faults[i].status # "running"
  /\ \A a \in DOMAIN detected : detected[a] # today
  /\ faults' = Append(faults, [inject |-> today, recovered |-> {}, status |-> "running"])
  /\ UNCHANGED <<today, detected, diagnoses, decisions, reports>> /\ Fixed

\* The injector withdraws its fault, or fails to.
FaultCloses(status) ==
  /\ faults # <<>> /\ faults[Len(faults)].status = "running"
  /\ faults' = [faults EXCEPT ![Len(faults)].status = status,
                              ![Len(faults)].recovered = IF status = "recovered" THEN {today} ELSE {}]
  /\ UNCHANGED <<today, detected, diagnoses, decisions, reports>> /\ Fixed

\* Of the incident's copy or, until it has one, of the newest analysis stored.
\* Another analysis may replace either, up to the verdict.
Diagnose(a, services) ==
  /\ a \in DOMAIN detected \ DOMAIN decisions
  /\ diagnoses' = [b \in DOMAIN diagnoses \cup {a} |-> IF b = a THEN services ELSE diagnoses[b]]
  /\ UNCHANGED <<today, detected, faults, decisions, reports>> /\ Fixed

DecideIncident(a, verdict, rank) ==
  /\ a \in DOMAIN diagnoses \ DOMAIN decisions
  /\ rank \in DOMAIN diagnoses[a]
  /\ verdict = "rejected" => rank = 1
  /\ decisions' = [b \in DOMAIN decisions \cup {a} |->
       IF b = a THEN [verdict |-> verdict, at |-> today, service |-> diagnoses[a][rank]]
       ELSE decisions[b]]
  /\ UNCHANGED <<today, detected, faults, diagnoses, reports>> /\ Fixed

\* docker compose down -v.
Wipe ==
  /\ wipes < MaxWipes
  /\ wipes' = wipes + 1
  /\ detected' = Empty /\ faults' = <<>> /\ reports' = {}
  /\ diagnoses' = Empty /\ decisions' = Empty
  /\ UNCHANGED <<today, dataset, mtime, export, reader>>

---------------------------------------------------------------------------
(* recent.py: a row *)

WindowEnd(f) == Min(f.recovered \cup {f.inject + Cap}) + Grace

\* The latest fault whose window the anomaly was detected in; none is {}.
CausedBy(a) ==
  LET during == {i \in DOMAIN faults : detected[a] \in faults[i].inject..WindowEnd(faults[i])}
  IN {faults[i] : i \in {j \in during : \A k \in during : k <= j}}

Resolution(a) ==
  LET later == {detected[b] : b \in DOMAIN detected} \ 0..detected[a]
      back == reports \ 0..detected[a]
      Is(status, at) == [status |-> status, at |-> at]
      OfFault(f) == IF f.recovered # {} THEN Is("resolved", f.recovered)
                    ELSE Is(IF f.status = "running" THEN "ongoing" ELSE "unknown", {})
      OfSilence == IF back # {} THEN Is("resolved", {Min(back)})
                   ELSE Is(IF today - detected[a] > Retention THEN "unknown" ELSE "ongoing", {})
      Inferred == IF \E t \in later : t - detected[a] <= Quiet THEN Is("recurred", {})
                  ELSE Is(IF today - detected[a] >= Quiet THEN "resolved" ELSE "ongoing", {})
  IN IF CausedBy(a) # {} THEN OfFault(CHOOSE f \in CausedBy(a) : TRUE)
     ELSE IF a \in SilentOnes THEN OfSilence ELSE Inferred

\* The service a diagnosis should name: the dependency, where one was broken.
RootCauseService == Broken

\* Its first hypothesis, as it is now: none is {}.
Diagnosis(a) == IF a \in DOMAIN diagnoses THEN {diagnoses[a][1]} ELSE {}

Summarise(a) ==
  LET injected == CausedBy(a) # {}
      decided == a \in DOMAIN decisions
      end == Resolution(a)
  IN [detected |-> detected[a], injected |-> injected, truth |-> Symptom,
      root |-> IF injected THEN {RootCauseService} ELSE {}, dependency |-> Broken # Symptom,
      diagnosed |-> Diagnosis(a),
      correct |-> IF injected THEN {s = RootCauseService : s \in Diagnosis(a)} ELSE {},
      decision |-> IF decided THEN decisions[a].verdict ELSE "",
      decidedAt |-> IF decided THEN {decisions[a].at} ELSE {},
      fixed |-> IF decided /\ decisions[a].verdict = "approved" THEN {decisions[a].service} ELSE {},
      resolution |-> end.status, resolvedAt |-> end.at]

---------------------------------------------------------------------------
(* An export: query, merge and write, rename *)

BeginExport ==
  /\ export = NoExport
  /\ mtime < MaxExports
  /\ export' = [at |-> "queried", rows |-> [a \in DOMAIN detected |-> Summarise(a)]]
  /\ UNCHANGED <<today, databaseVars, dataset, mtime, reader, wipes>>

\* Mutant: the rows the database has, and no others.
FreshRows(fresh, kept) == fresh
\* Rows the database no longer has are kept, in the columns of today.
Merged(fresh, kept) ==
  [a \in DOMAIN fresh \cup DOMAIN kept |->
     IF a \in DOMAIN fresh THEN fresh[a]
     ELSE [kept[a] EXCEPT !.root = IF @ = Absent THEN {} ELSE @]]

WriteDataset ==
  /\ export.at = "queried"
  /\ export' = [at |-> "written", rows |-> Merged(export.rows, dataset)]
  /\ UNCHANGED <<today, databaseVars, dataset, mtime, reader, wipes>>

Rename ==
  /\ export.at = "written"
  /\ dataset' = export.rows
  /\ mtime' = mtime + 1
  /\ export' = NoExport
  /\ UNCHANGED <<today, databaseVars, reader, wipes>>

\* The rename is refused, or the dashboard dies: the next export starts over.
ExportFails ==
  /\ export # NoExport
  /\ export' = NoExport
  /\ UNCHANGED <<today, databaseVars, dataset, mtime, reader, wipes>>

---------------------------------------------------------------------------
(* history.py: the rows that confirm a cause *)

InjectedRootCause(row) ==
  IF row.root # Absent THEN row.root ELSE IF row.dependency THEN {} ELSE {row.truth}
StaleVerdict(row) == row.root = Absent /\ row.dependency

\* A set: most rows confirm nothing.
ParseRow(a, row) ==
  LET Outcome(label, known, root) ==
        {[id |-> a, label |-> label, known |-> known, root |-> root, diagnosed |-> row.diagnosed,
          correct |-> IF StaleVerdict(row) THEN {} ELSE row.correct]}
      root == IF row.injected THEN InjectedRootCause(row) ELSE {}
  IN IF root # {} /\ row.resolvedAt # {} THEN Outcome("injected", row.resolvedAt, root)
     ELSE IF row.decision = "approved" /\ row.fixed # {} THEN Outcome("approved", row.decidedAt, row.fixed)
     ELSE IF row.decision = "rejected" /\ row.diagnosed # {} THEN Outcome("rejected", row.decidedAt, {})
     ELSE {}
Outcomes(rows) == UNION {ParseRow(a, rows[a]) : a \in DOMAIN rows}

\* There is none, or the system refuses to say: what was read is dropped.
NoFile ==
  /\ reader.at = "idle"
  /\ reader' = [reader EXCEPT !.mtime = 0, !.outcomes = {}]
  /\ UNCHANGED <<today, databaseVars, dataset, mtime, export, wipes>>

Stat ==
  /\ reader.at = "idle"
  /\ mtime # 0 /\ mtime # reader.mtime
  /\ reader' = [reader EXCEPT !.at = "open", !.seen = mtime]
  /\ UNCHANGED <<today, databaseVars, dataset, mtime, export, wipes>>

\* A file renamed into place since is the one that is opened.
ReadFile ==
  /\ reader.at = "open"
  /\ reader' = [at |-> "idle", seen |-> 0, mtime |-> reader.seen, outcomes |-> Outcomes(dataset)]
  /\ UNCHANGED <<today, databaseVars, dataset, mtime, export, wipes>>

\* Mutant: the time is noted before the file is read.
ReadFailsOnce ==
  /\ reader.at = "open"
  /\ reader' = [reader EXCEPT !.at = "idle", !.seen = 0, !.mtime = reader.seen]
  /\ UNCHANGED <<today, databaseVars, dataset, mtime, export, wipes>>
\* The last good read is kept, and the next request tries again.
ReadFails ==
  /\ reader.at = "open"
  /\ reader' = [reader EXCEPT !.at = "idle", !.seen = 0]
  /\ UNCHANGED <<today, databaseVars, dataset, mtime, export, wipes>>

DatasetNext ==
  \/ Dawn
  \/ Report
  \/ \E a \in Anomalies : Detect(a)
  \/ Inject
  \/ \E status \in {"recovered", "failed_recover"} : FaultCloses(status)
  \/ \E a \in Anomalies, services \in Rankings : Diagnose(a, services)
  \/ \E a \in Anomalies, verdict \in {"approved", "rejected"}, rank \in Ranks :
       DecideIncident(a, verdict, rank)
  \/ Wipe
  \/ BeginExport
  \/ WriteDataset
  \/ Rename
  \/ ExportFails
  \/ NoFile
  \/ Stat
  \/ ReadFile
  \/ ReadFails

DatasetSpec == DatasetInit /\ [][DatasetNext]_datasetVars

---------------------------------------------------------------------------
(* Properties *)

\* Row a confirms an injected fault in the file of then, and still does in that
\* of now: the service that was broken and the time that was known.
StillConfirms(a, now, then) ==
  \A o \in ParseRow(a, then) :
    then.root # Absent /\ o.label = "injected" =>
      \E n \in ParseRow(a, now) : n.label = "injected" /\ n.known = o.known /\ n.root = o.root

\* Whatever the database loses, and wherever an export stops, a row once in the
\* file stays in it, and what it confirmed of an injected fault (the service
\* that was broken, and when that was known) stays as it was, however often the
\* anomaly is diagnosed again: only what was diagnosed, and whether that was
\* right, may come late or change.  But for a row without the column, which
\* confirms no fault after the next export.
DatasetKeepsWhatItKnows ==
  [][\A a \in DOMAIN dataset :
       a \in DOMAIN dataset' /\ StillConfirms(a, dataset'[a], dataset[a])]_dataset

\* A reader that takes the file for unchanged has read it: neither a rename
\* between the look and the read nor a read that failed leaves it behind.
ReaderIsUpToDate ==
  reader.at = "idle" /\ reader.mtime = mtime => reader.outcomes = Outcomes(dataset)
=============================================================================
