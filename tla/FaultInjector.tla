--------------------------- MODULE FaultInjector ---------------------------
(***************************************************************************)
(* services/fault-injector: faults as threads over shared containers.      *)
(*                                                                         *)
(* POST /faults writes a row `running' and starts a daemon thread, which   *)
(* disturbs one setting of one container, sleeps, puts the setting back    *)
(* and closes the row.  Threads, rows and containers outlive one another   *)
(* differently: a crash takes every thread, leaves the containers as they  *)
(* are, and recover_interrupted works from the rows.                       *)
(*                                                                         *)
(* Grain.  One action for each call that leaves the process: on Docker, on *)
(* MySQL, on Postgres.  How strongly a setting is disturbed (a CPU quota,  *)
(* a limit in MB) is left out: it is disturbed or it is not.               *)
(***************************************************************************)
EXTENDS Naturals, FiniteSets

CONSTANTS
  Kinds,         \* the fault types posted
  Containers,    \* DEPENDENCY_TARGETS
  Services,      \* KNOWN_SERVICES
  Catalogue,     \* the one service on MySQL
  Dependency,    \* DEPENDENCIES: the default dependency of a service
  Null,
  Orphan,        \* a session MySQL takes for alive, its client is gone
  Overlap,       \* may a fault be posted at a container that has one?
  MaxTime,       \* bound: seconds on the clock
  MaxScenarios,  \* bound: rows
  MaxMishaps     \* bound: how often each kind of mishap strikes

FaultTypes == {"bad_deploy_latency", "service_crash", "db_pool_saturation",
               "dependency_timeout", "config_error", "memory_exhaustion",
               "resource_exhaustion"}
AspectOf == [k \in FaultTypes |->
  CASE k \in {"bad_deploy_latency", "resource_exhaustion"} -> "cpu"
    [] k = "service_crash" -> "stopped"
    [] k = "db_pool_saturation" -> "lock"
    [] k = "dependency_timeout" -> "paused"
    [] k = "config_error" -> "hosts"
    [] k = "memory_exhaustion" -> "memory"]
Aspects == {"cpu", "stopped", "paused", "hosts", "memory"}
Mishaps == {"crash", "refusal", "loss"}

\* new_scenario_id: the fault type and the second, so an id may be taken.
Ids == Kinds \X (0..MaxTime)

ASSUME FaultAssumption ==
  /\ Kinds \subseteq FaultTypes
  /\ Services \subseteq Containers
  /\ Catalogue \in Services
  /\ Dependency \in [Services -> Containers \cup {Null}]
  /\ {Null, Orphan} \cap (Containers \cup Ids) = {}
  /\ Null # Orphan
  /\ Overlap \in BOOLEAN
  /\ MaxTime \in Nat
  /\ MaxScenarios \in Nat
  /\ MaxMishaps \in [Mishaps -> Nat]

VARIABLES
  now,        \* time.time(), in seconds
  scenario,   \* fault_scenarios: a row, or Null, for each scenario_id
  thread,     \* where the thread of a scenario is
  disturbed,  \* which setting of which container is not what it should be
  lock,       \* the session that holds the write lock on `sock'
  phase,      \* the process: selecting interrupted rows, undoing them, serving
  todo,       \* the rows recover_interrupted has read
  stale,      \* the Postgres connection is broken and nobody has noticed
  mishaps     \* mishaps so far

faultVars == <<now, scenario, thread, disturbed, lock, phase, todo, stale, mishaps>>

Statuses == {"running", "recovered", "failed"}
\* unwind: the finally runs because of an exception; raised: the undo raised.
Positions == {"none", "start", "annotate", "preflight", "lock", "apply",
              "hold", "undo", "unwind", "recovered", "failed", "marking", "raised"}
\* squeezed: what get_container read as the original memory limit;
\* annotated: params hold it as well.
Row == [status : Statuses, target : Containers, annotated : BOOLEAN,
        squeezed : BOOLEAN]

ASSUME RowAssumption == Null \notin Row

FaultTypeOK ==
  /\ now \in 0..MaxTime
  /\ scenario \in [Ids -> Row \cup {Null}]
  /\ thread \in [Ids -> Positions]
  /\ disturbed \subseteq Containers \X Aspects
  /\ lock \in Ids \cup {Null, Orphan}
  /\ phase \in {"select", "recover", "serve"}
  /\ todo \subseteq Ids
  /\ stale \in BOOLEAN
  /\ mishaps \in [Mishaps -> Nat]

FaultInit ==
  /\ now = 0
  /\ scenario = [s \in Ids |-> Null]
  /\ thread = [s \in Ids |-> "none"]
  /\ disturbed = {}
  /\ lock = Null
  /\ phase = "select"
  /\ todo = {}
  /\ stale = FALSE
  /\ mishaps = [m \in Mishaps |-> 0]

Rows == {s \in Ids : scenario[s] # Null}
Running == {s \in Rows : scenario[s].status = "running"}
Target(s) == scenario[s].target
Aspect(s) == AspectOf[s[1]]
Spot(s) == <<Target(s), Aspect(s)>>
Strike(m) == /\ mishaps[m] < MaxMishaps[m]
             /\ mishaps' = [mishaps EXCEPT ![m] = @ + 1]
Go(s, p) == thread' = [thread EXCEPT ![s] = p]

-----------------------------------------------------------------------------
(* The API.                                                                *)

\* build_params: the container a fault lands on, Null for a body it refuses.
AppliedTo(k, c, d) ==
  LET dep == IF d = Null THEN Dependency[c] ELSE d IN
  CASE k = "dependency_timeout" -> IF dep = c THEN Null ELSE dep
    [] k = "config_error" -> IF dep \in {Null, c} THEN Null ELSE c
    [] k = "db_pool_saturation" -> IF c = Catalogue THEN c ELSE Null
    [] OTHER -> c

\* post_fault.  A taken id or a broken connection is answered with 500: no
\* row, no thread.
PostFault(k, c, d) ==
  LET s == <<k, now>>
      on == AppliedTo(k, c, d)
  IN
  /\ phase = "serve"
  /\ Cardinality(Rows) < MaxScenarios
  /\ on # Null
  /\ Overlap \/ \A r \in Running : Target(r) # on
  /\ stale' = FALSE
  /\ IF stale
       THEN UNCHANGED <<scenario, thread>>
       ELSE /\ scenario[s] = Null
            /\ scenario' = [scenario EXCEPT ![s] =
                 [status |-> "running", target |-> on, annotated |-> FALSE,
                  squeezed |-> FALSE]]
            /\ Go(s, "start")
  /\ UNCHANGED <<now, disturbed, lock, phase, todo, mishaps>>

-----------------------------------------------------------------------------
(* The thread of a scenario.                                               *)

\* get_container lists running containers, a paused one among them.
Listed(c) == <<c, "stopped">> \notin disturbed

\* The first call of each run_*: connect to MySQL, or find the container.
\* bad_deploy_latency has told the deploy-emitter, and only logs if it could not.
Start(s) ==
  /\ thread[s] = "start"
  /\ scenario' = [scenario EXCEPT ![s].squeezed = <<Target(s), "memory">> \in disturbed]
  /\ Go(s, IF Aspect(s) = "lock" THEN "preflight"
           ELSE IF ~Listed(Target(s)) THEN "failed"
           ELSE IF Aspect(s) = "memory" THEN "annotate" ELSE "apply")
  /\ UNCHANGED <<now, disturbed, lock, phase, todo, stale, mishaps>>

\* Mutant: the original limit stays in the thread's memory.
AnnotateInMemory(s) ==
  /\ thread[s] = "annotate"
  /\ Go(s, "apply")
  /\ UNCHANGED <<now, scenario, disturbed, lock, phase, todo, stale, mishaps>>

\* annotate_scenario: the original limit is on record before it changes.
Annotate(s) ==
  /\ thread[s] = "annotate"
  /\ stale' = FALSE
  /\ IF stale
       THEN Go(s, "failed") /\ UNCHANGED scenario
       ELSE /\ Go(s, "apply")
            /\ scenario' = [scenario EXCEPT ![s].annotated = TRUE]
  /\ UNCHANGED <<now, disturbed, lock, phase, todo, mishaps>>

\* Sessions of this process on catalogue-db.
Sessions == {s \in Ids : Aspect(s) = "lock" /\ thread[s] \in {"preflight", "lock", "hold", "undo"}}

\* lock_holders: an idle root session, or one that waits for the lock.
Preflight(s) ==
  /\ thread[s] = "preflight"
  /\ Go(s, IF Sessions = {s} /\ lock # Orphan THEN "lock" ELSE "failed")
  /\ UNCHANGED <<now, scenario, disturbed, lock, phase, todo, stale, mishaps>>

\* No other injector is this far, so LOCK TABLES never waits for one.
LockTable(s) ==
  /\ thread[s] = "lock"
  /\ lock = Null
  /\ lock' = s
  /\ Go(s, "hold")
  /\ UNCHANGED <<now, scenario, disturbed, phase, todo, stale, mishaps>>

\* What Docker makes of the call.  A limit can be set and a container stopped
\* in any state; only a running one can be paused or run a command.
CanApply(s) ==
  Aspect(s) \in {"paused", "hosts"} =>
    Listed(Target(s)) /\ <<Target(s), "paused">> \notin disturbed

\* Stopping a paused container ends the pause.
AfterApply(s) ==
  {Spot(s)} \cup IF Aspect(s) = "stopped" THEN disturbed \ {<<Target(s), "paused">>}
                                        ELSE disturbed

Apply(s) ==
  /\ thread[s] = "apply"
  /\ IF CanApply(s)
       THEN disturbed' = AfterApply(s) /\ Go(s, "hold")
       ELSE UNCHANGED disturbed /\ Go(s, "failed")
  /\ UNCHANGED <<now, scenario, lock, phase, todo, stale, mishaps>>

\* The call raises, before it took effect or (a timeout) after.  Only the
\* ramp of resource_exhaustion makes it inside its try, at every step.
ApplyRefused(s) ==
  /\ \/ thread[s] \in {"preflight", "apply"}
     \/ thread[s] = "hold" /\ s[1] = "resource_exhaustion"
  /\ Strike("refusal")
  /\ \/ UNCHANGED disturbed
     \/ thread[s] # "preflight" /\ CanApply(s) /\ disturbed' = AfterApply(s)
  /\ Go(s, IF s[1] = "resource_exhaustion" THEN "unwind" ELSE "failed")
  /\ UNCHANGED <<now, scenario, lock, phase, todo, stale>>

\* During the hold, the next step of the ramp and the re-asserted hosts entry.
Reapply(s) ==
  /\ thread[s] = "hold"
  /\ s[1] \in {"resource_exhaustion", "config_error"}
  /\ CanApply(s)
  /\ disturbed' = AfterApply(s)
  /\ UNCHANGED <<now, scenario, thread, lock, phase, todo, stale, mishaps>>

\* restart: always.  A container that crashed gets a fresh /etc/hosts.
ContainerRestarts(c) ==
  /\ <<c, "hosts">> \in disturbed
  /\ disturbed \cap {<<c, "stopped">>, <<c, "paused">>} = {}
  /\ disturbed' = disturbed \ {<<c, "hosts">>}
  /\ UNCHANGED <<now, scenario, thread, lock, phase, todo, stale, mishaps>>

Wake(s) ==
  /\ thread[s] = "hold"
  /\ Go(s, "undo")
  /\ UNCHANGED <<now, scenario, disturbed, lock, phase, todo, stale, mishaps>>

-----------------------------------------------------------------------------
(* undo_*, called by a thread's finally and by recover_interrupted.        *)

\* A stopped container is found only by those that ask for stopped ones, a
\* paused one can neither run a command nor be started.
CanUndo(s) ==
  /\ Aspect(s) \in {"cpu", "paused", "hosts"} => Listed(Target(s))
  /\ Aspect(s) \in {"hosts", "stopped"} => <<Target(s), "paused">> \notin disturbed

\* A container that is started has a fresh /etc/hosts.
Restarted(c) == disturbed \ {<<c, "stopped">>, <<c, "paused">>, <<c, "hosts">>}

\* A container that does not run is started.  The memory limit goes back to
\* what was read; without a note in params nothing had changed yet.
AfterUndo(s) ==
  LET back == IF Aspect(s) \in {"stopped", "memory"}
                 /\ disturbed \cap {<<Target(s), "stopped">>, <<Target(s), "paused">>} # {}
              THEN Restarted(Target(s)) ELSE disturbed
  IN IF Aspect(s) # "memory" THEN back \ {Spot(s)}
     ELSE IF ~scenario[s].annotated THEN disturbed
     ELSE IF scenario[s].squeezed THEN back \cup {Spot(s)}
     ELSE back \ {Spot(s)}

\* An undo for an exception ends with that exception, however well it went.
Undone(s) == IF thread[s] = "undo" THEN "recovered" ELSE "failed"

\* Mutant: the locking session stays open when the fault is over.
UndoKeepsLock(s) ==
  /\ thread[s] \in {"undo", "unwind"}
  /\ IF CanUndo(s)
       THEN disturbed' = AfterUndo(s) /\ Go(s, Undone(s))
       ELSE UNCHANGED disturbed /\ Go(s, "failed")
  /\ UNCHANGED <<now, scenario, lock, phase, todo, stale, mishaps>>

Undo(s) ==
  /\ thread[s] \in {"undo", "unwind"}
  /\ lock' = IF lock = s THEN Null ELSE lock
  /\ IF CanUndo(s)
       THEN disturbed' = AfterUndo(s) /\ Go(s, Undone(s))
       ELSE UNCHANGED disturbed /\ Go(s, "failed")
  /\ UNCHANGED <<now, scenario, phase, todo, stale, mishaps>>

UndoRefused(s) ==
  /\ thread[s] \in {"undo", "unwind"}
  /\ Aspect(s) # "lock"
  /\ Strike("refusal")
  /\ disturbed' \in {disturbed} \cup (IF CanUndo(s) THEN {AfterUndo(s)} ELSE {})
  /\ Go(s, "failed")
  /\ UNCHANGED <<now, scenario, lock, phase, todo, stale>>

Close(s, status) == scenario' = [scenario EXCEPT ![s].status = status]

\* The statement on a broken connection raises, so that execute goes on to
\* mark_failed, on a new connection.
MarkRecovered(s) ==
  /\ thread[s] = "recovered"
  /\ stale' = FALSE
  /\ IF stale
       THEN Go(s, "failed") /\ UNCHANGED scenario
       ELSE Close(s, "recovered") /\ Go(s, "none")
  /\ UNCHANGED <<now, disturbed, lock, phase, todo, mishaps>>

\* Nobody catches what mark_failed raises: the thread ends, the row stays.
MarkFailed(s) ==
  /\ thread[s] = "failed"
  /\ stale' = FALSE
  /\ Go(s, "none")
  /\ IF stale THEN UNCHANGED scenario ELSE Close(s, "failed")
  /\ UNCHANGED <<now, disturbed, lock, phase, todo, mishaps>>

-----------------------------------------------------------------------------
(* Mishaps and recovery.                                                   *)

\* The server drops the connection between two statements.
LoseConnection ==
  /\ ~stale
  /\ phase # "select"
  /\ Strike("loss")
  /\ stale' = TRUE
  /\ UNCHANGED <<now, scenario, thread, disturbed, lock, phase, todo>>

\* The threads are gone.  MySQL sees the session close, or takes it for alive.
Crash ==
  /\ Strike("crash")
  /\ thread' = [s \in Ids |-> "none"]
  /\ lock' \in IF lock \in Ids THEN {Null, Orphan} ELSE {lock}
  /\ phase' = "select"
  /\ todo' = {}
  /\ stale' = FALSE
  /\ UNCHANGED <<now, scenario, disturbed>>

\* wait_timeout of an abandoned session.
Reap ==
  /\ lock = Orphan
  /\ lock' = Null
  /\ UNCHANGED <<now, scenario, thread, disturbed, phase, todo, stale, mishaps>>

SelectInterrupted ==
  /\ phase = "select"
  /\ todo' = Running
  /\ phase' = "recover"
  /\ UNCHANGED <<now, scenario, thread, disturbed, lock, stale, mishaps>>

\* undo of one row, the rows one after the other.
RecoverUndo(s) ==
  /\ phase = "recover"
  /\ s \in todo
  /\ \A r \in Ids : thread[r] = "none"
  /\ disturbed' = IF CanUndo(s) THEN AfterUndo(s) ELSE disturbed
  /\ Go(s, IF CanUndo(s) THEN "marking" ELSE "raised")
  /\ UNCHANGED <<now, scenario, lock, phase, todo, stale, mishaps>>

RecoverRefused(s) ==
  /\ phase = "recover"
  /\ s \in todo
  /\ \A r \in Ids : thread[r] = "none"
  /\ Aspect(s) # "lock"
  /\ Strike("refusal")
  /\ disturbed' \in {disturbed} \cup (IF CanUndo(s) THEN {AfterUndo(s)} ELSE {})
  /\ Go(s, "raised")
  /\ UNCHANGED <<now, scenario, lock, phase, todo, stale>>

\* Whether the undo raised or not, the row is marked failed.
RecoverMark(s) ==
  /\ phase = "recover"
  /\ thread[s] \in {"marking", "raised"}
  /\ ~stale
  /\ Close(s, "failed")
  /\ todo' = todo \ {s}
  /\ Go(s, "none")
  /\ UNCHANGED <<now, disturbed, lock, phase, stale, mishaps>>

\* The mark_failed inside the try meets a broken connection: the handler has
\* its own, on a new connection.
RecoverMarkRaises(s) ==
  /\ phase = "recover"
  /\ thread[s] = "marking"
  /\ stale
  /\ stale' = FALSE
  /\ Go(s, "raised")
  /\ UNCHANGED <<now, scenario, disturbed, lock, phase, todo, mishaps>>

\* What the handler's mark_failed raises ends the process, which is restarted.
RecoverDies(s) ==
  /\ phase = "recover"
  /\ thread[s] = "raised"
  /\ stale
  /\ stale' = FALSE
  /\ thread' = [r \in Ids |-> "none"]
  /\ phase' = "select"
  /\ todo' = {}
  /\ UNCHANGED <<now, scenario, disturbed, lock, mishaps>>

Serve ==
  /\ phase = "recover"
  /\ todo = {}
  /\ phase' = "serve"
  /\ UNCHANGED <<now, scenario, thread, disturbed, lock, todo, stale, mishaps>>

Second ==
  /\ now < MaxTime
  /\ now' = now + 1
  /\ UNCHANGED <<scenario, thread, disturbed, lock, phase, todo, stale, mishaps>>

-----------------------------------------------------------------------------
Execute(s) ==
  \/ Start(s) \/ Annotate(s) \/ Preflight(s) \/ LockTable(s) \/ Apply(s)
  \/ Wake(s) \/ Undo(s) \/ MarkRecovered(s) \/ MarkFailed(s)

Recover ==
  \/ SelectInterrupted
  \/ \E s \in Ids : \/ RecoverUndo(s) \/ RecoverMark(s)
                  \/ RecoverMarkRaises(s) \/ RecoverDies(s)
  \/ Serve

FaultNext ==
  \/ \E k \in Kinds, c \in Services, d \in Containers \cup {Null} : PostFault(k, c, d)
  \/ \E s \in Ids : Execute(s) \/ Reapply(s)
  \/ \E s \in Ids : ApplyRefused(s) \/ UndoRefused(s) \/ RecoverRefused(s)
  \/ \E c \in Containers : ContainerRestarts(c)
  \/ LoseConnection \/ Crash \/ Reap \/ Recover \/ Second

FaultSpec == FaultInit /\ [][FaultNext]_faultVars

\* Some thread that can go on does, a restarted process recovers, MySQL reaps.
FaultProgress == (\E s \in Ids : Execute(s)) \/ Recover \/ Reap
FaultFairness == WF_faultVars(FaultProgress)
=============================================================================
