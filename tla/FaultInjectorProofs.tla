------------------------ MODULE FaultInjectorProofs ------------------------
(***************************************************************************)
(* What is disturbed is on record, for any set of faults and containers,   *)
(* any number of scenarios, crashes, refusals and lost connections, as     *)
(* long as no fault is posted at a container that has one.                 *)
(***************************************************************************)
EXTENDS FaultInjectorProperties, TLAPS

\* A scenario that Docker kept from undoing what it did.
FailedOwner(p) ==
  /\ mishaps["refusal"] > 0
  /\ \E r \in Rows : Spot(r) = p /\ scenario[r].status = "failed"

\* The scenario answers for nothing: if its setting is disturbed, an earlier
\* one that failed left it so.
Clean(s) == Spot(s) \in disturbed => FailedOwner(Spot(s))

Before == {"start", "annotate", "preflight", "lock", "apply"}

\* What the thread of a scenario knows by where it is: before it applied its
\* fault, and after it undid it, the scenario answers for nothing; a memory
\* limit that is put back disturbed was disturbed when it was read.
ScenarioInv(s) ==
  /\ thread[s] # "none" => s \in Running
  /\ thread[s] = "annotate" => Aspect(s) = "memory"
  /\ thread[s] = "apply" => /\ Aspect(s) # "lock"
                            /\ Aspect(s) = "memory" => scenario[s].annotated
  /\ thread[s] \in Before \cup {"recovered"} => Clean(s)
  /\ thread[s] \in {"failed", "marking", "raised"} => mishaps["refusal"] > 0 \/ Clean(s)
  /\ s \in Running /\ Aspect(s) = "memory" =>
       /\ ~scenario[s].annotated => Clean(s)
       /\ scenario[s].squeezed => FailedOwner(Spot(s))

\* Where a row is while it is being recovered.
AtRecovery == {"none", "marking", "raised"}
USE DEF AtRecovery

\* A process that has not recovered yet has no thread of its own.
PhaseInv ==
  /\ phase # "serve" => \A s \in Ids : thread[s] \in AtRecovery
  /\ todo # {} => phase = "recover"
  /\ todo \subseteq Running
  /\ \A s \in Ids : thread[s] \in {"marking", "raised"} => s \in todo

OneFaultEach == \A r, s \in Running : Target(r) = Target(s) => r = s

FaultInv ==
  /\ FaultTypeOK
  /\ PhaseInv
  /\ OneFaultEach
  /\ DisturbanceOnRecord
  /\ \A s \in Ids : ScenarioInv(s)

-----------------------------------------------------------------------------
(* Facts about rows and settings.                                          *)

LEMMA AspectTyped ==
  ASSUME NEW s \in Ids
  PROVE  /\ Aspect(s) \in Aspects \cup {"lock"}
         /\ s[1] = "resource_exhaustion" => Aspect(s) = "cpu"
         /\ s[1] = "config_error" => Aspect(s) = "hosts"
<1>1. s[1] \in FaultTypes
  BY FaultAssumption DEF FaultAssumption, Ids
<1> QED BY <1>1 DEF Aspect, AspectOf, Aspects, FaultTypes

LEMMA RowOfRunning ==
  ASSUME FaultTypeOK, NEW s \in Ids
  PROVE  /\ s \in Rows => scenario[s] \in Row
         /\ s \in Running <=> scenario[s] # Null /\ scenario[s].status = "running"
BY DEF FaultTypeOK, Running, Rows

\* A failed scenario stays one: only a running row is closed.
LEMMA OwnersStay ==
  ASSUME FaultTypeOK, NEW t \in Running, NEW row \in Row, row # Null,
         row.target = Target(t), scenario' = [scenario EXCEPT ![t] = row],
         mishaps'["refusal"] >= mishaps["refusal"], mishaps'["refusal"] \in Nat,
         NEW p, FailedOwner(p)
  PROVE  FailedOwner(p)'
<1>1. PICK r \in Rows : Spot(r) = p /\ scenario[r].status = "failed"
  BY DEF FailedOwner
<1>2. r # t /\ r \in Ids
  BY <1>1 DEF Running, Rows
<1>3. scenario'[r] = scenario[r]
  BY <1>2 DEF FaultTypeOK
<1>4. r \in Rows' /\ Spot(r)' = p /\ scenario'[r].status = "failed"
  BY <1>1, <1>2, <1>3 DEF Rows, Spot, Target, Aspect
<1>5. mishaps["refusal"] \in Nat
  BY DEF FaultTypeOK, Mishaps
<1> QED BY <1>4, <1>5 DEF FailedOwner

-----------------------------------------------------------------------------
(* A step of one thread, or of the recovery of one row: at most the        *)
(* scenario's own setting is disturbed further, and every other scenario   *)
(* keeps what it knows.                                                    *)

OthersKeep(t) == \A r \in Ids \ {t} : thread'[r] = thread[r]

LEMMA OthersStayClean ==
  ASSUME FaultInv, NEW t \in Running, NEW row \in Row, row # Null,
         row.target = Target(t), scenario' = [scenario EXCEPT ![t] = row],
         mishaps'["refusal"] >= mishaps["refusal"], mishaps'["refusal"] \in Nat,
         disturbed' \subseteq disturbed \cup {Spot(t)},
         OthersKeep(t),
         NEW r \in Ids, r # t
  PROVE  ScenarioInv(r)'
<1>1. scenario'[r] = scenario[r] /\ thread'[r] = thread[r]
  BY DEF FaultInv, FaultTypeOK, OthersKeep
<1>2. Spot(r)' = Spot(r) /\ (r \in Running' <=> r \in Running)
  BY <1>1 DEF Spot, Target, Aspect, Running, Rows
<1>3. r \in Running => Spot(r) # Spot(t)
  BY DEF FaultInv, OneFaultEach, Spot
<1>4. \A p : FailedOwner(p) => FailedOwner(p)'
  BY OwnersStay DEF FaultInv
<1>5. r \in Running /\ Clean(r) => Clean(r)'
  BY <1>2, <1>3, <1>4 DEF Clean
<1>6. ScenarioInv(r) /\ mishaps["refusal"] \in Nat
  BY DEF FaultInv, FaultTypeOK, Mishaps
<1>7. Aspect(r)' = Aspect(r)
  BY DEF Aspect
<1> QED BY <1>1, <1>2, <1>4, <1>5, <1>6, <1>7 DEF ScenarioInv, Before

LEMMA ThreadStep ==
  ASSUME FaultInv, NEW t \in Running, NEW row \in Row, row # Null,
         row.target = Target(t), scenario' = [scenario EXCEPT ![t] = row],
         mishaps'["refusal"] >= mishaps["refusal"],
         disturbed' \subseteq disturbed \cup {Spot(t)},
         OthersKeep(t),
         FaultTypeOK', PhaseInv', ScenarioInv(t)',
         \/ row.status = "running"
         \/ row.status = "failed" /\ mishaps'["refusal"] > 0
         \/ Spot(t) \in disturbed' => FailedOwner(Spot(t))'
  PROVE  FaultInv'
<1>1. mishaps'["refusal"] \in Nat /\ t \in Ids
  BY DEF FaultTypeOK, Mishaps, Running, Rows
<1>2. \A r \in Ids : ScenarioInv(r)'
  BY <1>1, OthersStayClean
<1>3. /\ \A r \in Ids : r # t => scenario'[r] = scenario[r]
      /\ scenario'[t] = row
  BY <1>1 DEF FaultInv, FaultTypeOK
<1>4. /\ \A r \in Ids : Spot(r)' = Spot(r) /\ Target(r)' = Target(r)
      /\ Running' \subseteq Running /\ Rows' = Rows /\ Rows \subseteq Ids
  BY <1>1, <1>3 DEF Spot, Target, Aspect, Running, Rows
<1>5. OneFaultEach'
  BY <1>4 DEF FaultInv, OneFaultEach, Running
<1>6. DisturbanceOnRecord'
  <2> SUFFICES ASSUME NEW p \in disturbed'
               PROVE  \E s \in Rows' : /\ Spot(s)' = p
                                       /\ \/ scenario'[s].status = "running"
                                          \/ scenario'[s].status = "failed" /\ mishaps'["refusal"] > 0
    BY DEF DisturbanceOnRecord
  <2>1. CASE p = Spot(t)
    <3>1. t \in Rows' /\ Spot(t)' = p
      BY <1>1, <1>4, <2>1 DEF Running
    <3>2. CASE FailedOwner(p)'
      BY <3>2 DEF FailedOwner
    <3> QED BY <1>3, <2>1, <3>1, <3>2
  <2>2. CASE p # Spot(t)
    <3>1. PICK s \in Rows : /\ Spot(s) = p
                            /\ \/ scenario[s].status = "running"
                               \/ scenario[s].status = "failed" /\ mishaps["refusal"] > 0
      BY <2>2 DEF FaultInv, DisturbanceOnRecord
    <3>2. s # t /\ s \in Ids
      BY <2>2, <3>1, <1>4
    <3>3. mishaps["refusal"] \in Nat
      BY DEF FaultInv, FaultTypeOK, Mishaps
    <3> QED BY <1>1, <1>3, <1>4, <3>1, <3>2, <3>3
  <2> QED BY <2>1, <2>2
<1> QED BY <1>2, <1>5, <1>6 DEF FaultInv

\* A step of scenario t: its row and its position afterwards, and why it
\* answers for what it does from there on.
StepOf(t, row, p) ==
  /\ row \in Row /\ row.target = Target(t) /\ p \in Positions
  /\ scenario' = [scenario EXCEPT ![t] = row]
  /\ thread' = [thread EXCEPT ![t] = p]
  /\ disturbed' \subseteq disturbed \cup {Spot(t)}
  /\ disturbed' \subseteq Containers \X Aspects
  /\ lock' \in Ids \cup {Null, Orphan} /\ stale' \in BOOLEAN /\ todo' \subseteq Ids
  /\ mishaps' \in [Mishaps -> Nat] /\ mishaps'["refusal"] >= mishaps["refusal"]
  /\ UNCHANGED <<now, phase>>
  /\ p # "none" => row.status = "running"
  /\ p = "annotate" => Aspect(t) = "memory"
  /\ p = "apply" => Aspect(t) # "lock" /\ (Aspect(t) = "memory" => row.annotated)
  /\ p \in Before \cup {"recovered"} /\ Spot(t) \in disturbed' => FailedOwner(Spot(t))
  /\ p \in {"failed", "marking", "raised"} /\ Spot(t) \in disturbed' =>
       mishaps'["refusal"] > 0 \/ FailedOwner(Spot(t))
  /\ Aspect(t) = "memory" /\ row.status = "running" =>
       /\ ~row.annotated /\ Spot(t) \in disturbed' => FailedOwner(Spot(t))
       /\ row.squeezed => FailedOwner(Spot(t))
  /\ Spot(t) \in disturbed' /\ row.status # "running" =>
       (row.status = "failed" /\ mishaps'["refusal"] > 0) \/ FailedOwner(Spot(t))

LEMMA ScenarioStep ==
  ASSUME FaultInv, NEW t \in Running, NEW row, NEW p, StepOf(t, row, p), PhaseInv'
  PROVE  FaultInv'
<1> USE DEF StepOf
<1>1. t \in Ids /\ row # Null
  BY RowAssumption DEF Running, Rows
<1>2. FaultTypeOK'
  BY <1>1 DEF FaultInv, FaultTypeOK
<1>3. mishaps'["refusal"] \in Nat /\ mishaps["refusal"] \in Nat
  BY DEF FaultInv, FaultTypeOK, Mishaps
<1>4. scenario'[t] = row /\ thread'[t] = p /\ OthersKeep(t)
  BY <1>1 DEF FaultInv, FaultTypeOK, OthersKeep
<1>5. /\ Spot(t)' = Spot(t) /\ Aspect(t)' = Aspect(t)
      /\ t \in Running' <=> row.status = "running"
  BY <1>1, <1>4 DEF Spot, Target, Aspect, Running, Rows
<1>6. FailedOwner(Spot(t)) => FailedOwner(Spot(t))'
  <2>1. FailedOwner(Spot(t)) => \E q : q = Spot(t) /\ FailedOwner(q)'
    BY <1>1, <1>3, OwnersStay DEF FaultInv
  <2> QED BY <1>5, <2>1, OwnersStay, <1>1, <1>3 DEF FaultInv, FailedOwner
<1>7. ScenarioInv(t)'
  BY <1>4, <1>5, <1>6 DEF ScenarioInv, Clean, Before
<1>8. \/ row.status = "running"
      \/ row.status = "failed" /\ mishaps'["refusal"] > 0
      \/ Spot(t) \in disturbed' => FailedOwner(Spot(t))'
  BY <1>6
<1> QED BY <1>1, <1>2, <1>4, <1>7, <1>8, ThreadStep

\* A thread that runs its fault runs in a process that serves.
LEMMA ServingPhase ==
  ASSUME FaultInv, NEW t \in Ids, thread[t] \notin AtRecovery,
         NEW p, p \notin {"marking", "raised"}, thread' = [thread EXCEPT ![t] = p],
         UNCHANGED <<phase, todo>>
  PROVE  PhaseInv' /\ t \in Running
<1>1. phase = "serve" /\ todo = {}
  BY DEF FaultInv, PhaseInv
<1>2. \A s \in Ids : thread'[s] \in {"marking", "raised"} => thread[s] \in {"marking", "raised"}
  BY DEF FaultInv, FaultTypeOK
<1> QED BY <1>1, <1>2 DEF FaultInv, PhaseInv, ScenarioInv

\* Unless Docker has refused something, the undo of a running fault works:
\* nothing but itself disturbs its container.
LEMMA UndoWorks ==
  ASSUME FaultInv, NEW s \in Running, mishaps["refusal"] = 0
  PROVE  CanUndo(s)
<1>1. ASSUME NEW a, a # Aspect(s) PROVE <<Target(s), a>> \notin disturbed
  <2> SUFFICES ASSUME <<Target(s), a>> \in disturbed PROVE FALSE
    OBVIOUS
  <2>1. PICK r \in Running : Spot(r) = <<Target(s), a>>
    BY DEF FaultInv, DisturbanceOnRecord, Running
  <2>2. Target(r) = Target(s) /\ Aspect(r) = a
    BY <2>1 DEF Spot
  <2> QED BY <1>1, <2>2 DEF FaultInv, OneFaultEach
<1> QED BY <1>1 DEF CanUndo, Listed

\* What an undo leaves disturbed, an earlier scenario that failed left.
LEMMA UndoLeaves ==
  ASSUME FaultInv, NEW s \in Running
  PROVE  /\ AfterUndo(s) \subseteq disturbed \cup {Spot(s)}
         /\ AfterUndo(s) \subseteq Containers \X Aspects
         /\ Spot(s) \in AfterUndo(s) => FailedOwner(Spot(s))
<1>1. s \in Ids /\ scenario[s] \in Row /\ Target(s) \in Containers
  BY DEF FaultInv, FaultTypeOK, Running, Rows, Row, Target
<1>2. disturbed \subseteq Containers \X Aspects
  BY DEF FaultInv, FaultTypeOK
<1>3. Aspect(s) = "memory" => Spot(s) \in Containers \X Aspects
  BY <1>1 DEF Spot, Aspects
<1>4. CASE Aspect(s) # "memory"
  BY <1>2, <1>4 DEF AfterUndo, Restarted
<1>5. CASE Aspect(s) = "memory"
  <2>1. ScenarioInv(s)
    BY <1>1 DEF FaultInv
  <2> QED BY <1>2, <1>3, <1>5, <2>1 DEF AfterUndo, Restarted, ScenarioInv, Clean
<1> QED BY <1>4, <1>5

LEMMA ApplyReaches ==
  ASSUME FaultInv, NEW s \in Running, Aspect(s) # "lock"
  PROVE  /\ AfterApply(s) \subseteq disturbed \cup {Spot(s)}
         /\ AfterApply(s) \subseteq Containers \X Aspects
<1>1. s \in Ids /\ Target(s) \in Containers /\ disturbed \subseteq Containers \X Aspects
  BY DEF FaultInv, FaultTypeOK, Running, Rows, Row, Target
<1>2. Spot(s) \in Containers \X Aspects
  BY <1>1, AspectTyped DEF Spot
<1> QED BY <1>1, <1>2 DEF AfterApply

LEMMA StrikeCounts ==
  ASSUME FaultTypeOK, NEW m \in Mishaps, Strike(m)
  PROVE  /\ mishaps' \in [Mishaps -> Nat] /\ mishaps'["refusal"] >= mishaps["refusal"]
         /\ m = "refusal" => mishaps'["refusal"] > 0
BY DEF FaultTypeOK, Strike, Mishaps

-----------------------------------------------------------------------------
(* The thread of a scenario.                                               *)

\* What every step of a thread starts from.
LEMMA ThreadFacts ==
  ASSUME FaultInv, NEW s \in Ids, thread[s] \notin AtRecovery
  PROVE  /\ s \in Running /\ scenario[s] \in Row /\ scenario[s].status = "running"
         /\ scenario = [scenario EXCEPT ![s] = scenario[s]]
         /\ ScenarioInv(s)
         /\ disturbed \subseteq Containers \X Aspects /\ todo \subseteq Ids
         /\ lock \in Ids \cup {Null, Orphan} /\ stale \in BOOLEAN
         /\ mishaps \in [Mishaps -> Nat] /\ mishaps["refusal"] \in Nat
         /\ mishaps["refusal"] = 0 => ~FailedOwner(Spot(s))
<1>1. s \in Running
  BY DEF FaultInv, ScenarioInv
<1> QED BY <1>1 DEF FaultInv, FaultTypeOK, Running, Rows, Mishaps, FailedOwner

LEMMA StartStep ==
  ASSUME FaultInv, NEW s \in Ids, Start(s) PROVE FaultInv'
<1> DEFINE tight == <<Target(s), "memory">> \in disturbed
           row == [scenario[s] EXCEPT !.squeezed = tight]
           p == IF Aspect(s) = "lock" THEN "preflight"
                ELSE IF ~Listed(Target(s)) THEN "failed"
                ELSE IF Aspect(s) = "memory" THEN "annotate" ELSE "apply"
<1>1. /\ scenario' = [scenario EXCEPT ![s] = row] /\ thread' = [thread EXCEPT ![s] = p]
      /\ UNCHANGED <<now, disturbed, lock, phase, todo, stale, mishaps>>
      /\ thread[s] = "start"
  BY ThreadFacts DEF Start, Go
<1>2. /\ Clean(s) /\ s \in Running /\ scenario[s] \in Row /\ scenario[s].status = "running"
      /\ disturbed \subseteq Containers \X Aspects /\ todo \subseteq Ids
      /\ lock \in Ids \cup {Null, Orphan} /\ stale \in BOOLEAN
      /\ mishaps \in [Mishaps -> Nat] /\ mishaps["refusal"] \in Nat
  BY <1>1, ThreadFacts DEF ScenarioInv, Before
<1>3. Aspect(s) = "memory" /\ tight => FailedOwner(Spot(s))
  BY <1>2 DEF Clean, Spot
<1>4. tight \in BOOLEAN
  OBVIOUS
<1> HIDE DEF tight
<1>5. row \in Row /\ row.target = Target(s) /\ row.status = "running" /\ row.squeezed = tight
  BY <1>2, <1>4 DEF Row, Target
<1>6. /\ p \in {"preflight", "failed", "annotate", "apply"}
      /\ p = "annotate" => Aspect(s) = "memory"
      /\ p = "apply" => Aspect(s) # "lock" /\ Aspect(s) # "memory"
  OBVIOUS
<1> HIDE DEF row, p
<1>7. PhaseInv'
  BY <1>1, <1>6, ServingPhase
<1>8. StepOf(s, row, p)
  BY <1>1, <1>2, <1>3, <1>5, <1>6 DEF StepOf, Positions, Before, Clean
<1> QED BY <1>2, <1>7, <1>8, ScenarioStep

LEMMA AnnotateStep ==
  ASSUME FaultInv, NEW s \in Ids, Annotate(s) PROVE FaultInv'
<1>1. /\ thread[s] = "annotate" /\ Clean(s) /\ Aspect(s) = "memory"
      /\ s \in Running /\ scenario[s] \in Row /\ scenario[s].status = "running"
      /\ scenario = [scenario EXCEPT ![s] = scenario[s]] /\ ScenarioInv(s)
      /\ disturbed \subseteq Containers \X Aspects /\ todo \subseteq Ids
      /\ lock \in Ids \cup {Null, Orphan}
      /\ mishaps \in [Mishaps -> Nat] /\ mishaps["refusal"] \in Nat
  BY ThreadFacts DEF Annotate, ScenarioInv, Before
<1>2. scenario[s].squeezed => FailedOwner(Spot(s))
  BY <1>1 DEF ScenarioInv
<1>3. CASE stale
  <2>1. thread' = [thread EXCEPT ![s] = "failed"] /\ PhaseInv'
    BY <1>1, <1>3, ServingPhase DEF Annotate, Go
  <2>2. stale' \in BOOLEAN /\ UNCHANGED <<now, scenario, disturbed, lock, phase, todo, mishaps>>
    BY <1>3 DEF Annotate
  <2>3. StepOf(s, scenario[s], "failed")
    BY <1>1, <1>2, <2>1, <2>2 DEF StepOf, Positions, Clean, Target, Before
  <2> QED BY <1>1, <2>1, <2>3, ScenarioStep
<1>4. CASE ~stale
  <2> DEFINE row == [scenario[s] EXCEPT !.annotated = TRUE]
  <2>1. /\ scenario' = [scenario EXCEPT ![s] = row] /\ thread' = [thread EXCEPT ![s] = "apply"]
        /\ PhaseInv'
    BY <1>1, <1>4, ServingPhase DEF Annotate, Go
  <2>2. /\ row \in Row /\ row.target = Target(s) /\ row.status = "running" /\ row.annotated
        /\ row.squeezed = scenario[s].squeezed
    BY <1>1 DEF Row, Target
  <2> HIDE DEF row
  <2>3. stale' \in BOOLEAN /\ UNCHANGED <<now, disturbed, lock, phase, todo, mishaps>>
    BY DEF Annotate
  <2>4. StepOf(s, row, "apply")
    BY <1>1, <1>2, <2>1, <2>2, <2>3 DEF StepOf, Positions, Clean, Before
  <2> QED BY <1>1, <2>1, <2>4, ScenarioStep
<1> QED BY <1>3, <1>4

\* Steps that leave the rows alone and disturb at most their own setting.
MoveOf(s, p) ==
  /\ thread' = [thread EXCEPT ![s] = p]
  /\ disturbed' \subseteq disturbed \cup {Spot(s)}
  /\ disturbed' \subseteq Containers \X Aspects
  /\ lock' \in Ids \cup {Null, Orphan} /\ stale' \in BOOLEAN
  /\ mishaps' \in [Mishaps -> Nat] /\ mishaps'["refusal"] >= mishaps["refusal"]
  /\ UNCHANGED <<now, scenario, phase, todo>>
  /\ p \in {"lock", "recovered"} /\ Spot(s) \in disturbed' => FailedOwner(Spot(s))
  /\ p = "failed" /\ Spot(s) \in disturbed' => mishaps'["refusal"] > 0 \/ FailedOwner(Spot(s))
  /\ Aspect(s) = "memory" /\ ~scenario[s].annotated /\ Spot(s) \in disturbed' => FailedOwner(Spot(s))

LEMMA MoveStep ==
  ASSUME FaultInv, NEW s \in Ids, thread[s] \notin AtRecovery,
         NEW p \in {"lock", "hold", "undo", "unwind", "recovered", "failed"}, MoveOf(s, p)
  PROVE  FaultInv'
<1>1. PhaseInv' /\ s \in Running
  BY ServingPhase DEF MoveOf
<1>2. ScenarioInv(s) /\ scenario[s] \in Row /\ scenario[s].target = Target(s)
      /\ scenario[s].status = "running" /\ todo \subseteq Ids
      /\ scenario' = [scenario EXCEPT ![s] = scenario[s]]
  BY ThreadFacts DEF Target, MoveOf
<1>3. Aspect(s) = "memory" /\ scenario[s].squeezed => FailedOwner(Spot(s))
  BY <1>1, <1>2 DEF ScenarioInv
<1>4. StepOf(s, scenario[s], p)
  BY <1>1, <1>2, <1>3 DEF StepOf, MoveOf, Positions, Before
<1> QED BY <1>1, <1>4, ScenarioStep

LEMMA LockSteps ==
  ASSUME FaultInv, NEW s \in Ids, Preflight(s) \/ LockTable(s) \/ Wake(s) PROVE FaultInv'
<1>1. /\ thread[s] \in {"preflight", "lock", "hold"} /\ ScenarioInv(s)
      /\ disturbed \subseteq Containers \X Aspects
      /\ lock \in Ids \cup {Null, Orphan} /\ stale \in BOOLEAN
      /\ mishaps \in [Mishaps -> Nat] /\ mishaps["refusal"] \in Nat
      /\ s \in Running
  BY ThreadFacts DEF Preflight, LockTable, Wake
<1>2. /\ thread[s] # "hold" => Clean(s)
      /\ Aspect(s) = "memory" /\ ~scenario[s].annotated => Clean(s)
  BY <1>1 DEF ScenarioInv, Before
<1>3. CASE Preflight(s)
  <2>1. PICK p \in {"lock", "failed"} : thread' = [thread EXCEPT ![s] = p]
    BY <1>3 DEF Preflight, Go
  <2>2. MoveOf(s, p)
    BY <1>1, <1>2, <1>3, <2>1 DEF MoveOf, Preflight, Clean
  <2> QED BY <1>1, <2>2, MoveStep
<1>4. CASE LockTable(s)
  <2>1. MoveOf(s, "hold")
    BY <1>1, <1>2, <1>4 DEF MoveOf, LockTable, Go, Clean
  <2> QED BY <1>1, <2>1, MoveStep
<1>5. CASE Wake(s)
  <2>1. MoveOf(s, "undo")
    BY <1>1, <1>2, <1>5 DEF MoveOf, Wake, Go, Clean
  <2> QED BY <1>1, <2>1, MoveStep
<1> QED BY <1>3, <1>4, <1>5

LEMMA ApplySteps ==
  ASSUME FaultInv, NEW s \in Ids, Apply(s) \/ ApplyRefused(s) PROVE FaultInv'
<1>1. /\ thread[s] \in {"preflight", "apply", "hold"} /\ s \in Running /\ ScenarioInv(s)
      /\ thread[s] = "hold" => Aspect(s) = "cpu" /\ ApplyRefused(s)
      /\ disturbed \subseteq Containers \X Aspects
      /\ lock \in Ids \cup {Null, Orphan} /\ stale \in BOOLEAN
      /\ mishaps \in [Mishaps -> Nat] /\ mishaps["refusal"] \in Nat
  BY ThreadFacts, AspectTyped DEF Apply, ApplyRefused
<1>2. /\ thread[s] # "hold" => Clean(s)
      /\ thread[s] # "preflight" => /\ Aspect(s) # "lock"
                                    /\ Aspect(s) = "memory" => scenario[s].annotated
  BY <1>1 DEF ScenarioInv, Before
<1>3. thread[s] # "preflight" => AfterApply(s) \subseteq disturbed \cup {Spot(s)}
                             /\ AfterApply(s) \subseteq Containers \X Aspects
  BY <1>1, <1>2, ApplyReaches
<1>4. CASE Apply(s)
  <2>1. CASE CanApply(s)
    <3>1. MoveOf(s, "hold")
      BY <1>1, <1>2, <1>3, <1>4, <2>1 DEF MoveOf, Apply, Go, Clean
    <3> QED BY <1>1, <3>1, MoveStep
  <2>2. CASE ~CanApply(s)
    <3>1. MoveOf(s, "failed")
      BY <1>1, <1>2, <1>3, <1>4, <2>2 DEF MoveOf, Apply, Go, Clean
    <3> QED BY <1>1, <3>1, MoveStep
  <2> QED BY <2>1, <2>2
<1>5. CASE ApplyRefused(s)
  <2>1. /\ mishaps' \in [Mishaps -> Nat] /\ mishaps'["refusal"] >= mishaps["refusal"]
        /\ mishaps'["refusal"] > 0
    BY <1>5, StrikeCounts DEF ApplyRefused, Mishaps, FaultInv
  <2>2. disturbed' = disturbed \/ (thread[s] # "preflight" /\ disturbed' = AfterApply(s))
    BY <1>5 DEF ApplyRefused
  <2>3. PICK p \in {"unwind", "failed"} : thread' = [thread EXCEPT ![s] = p]
    BY <1>5 DEF ApplyRefused, Go
  <2>4. UNCHANGED <<now, scenario, lock, phase, todo, stale>>
    BY <1>5 DEF ApplyRefused
  <2>5. MoveOf(s, p)
    BY <1>1, <1>2, <1>3, <2>1, <2>2, <2>3, <2>4 DEF MoveOf, Clean
  <2> QED BY <1>1, <2>5, MoveStep
<1> QED BY <1>4, <1>5

LEMMA ReapplyStep ==
  ASSUME FaultInv, NEW s \in Ids, Reapply(s) PROVE FaultInv'
<1>1. /\ Aspect(s) # "lock" /\ Aspect(s) # "memory" /\ s \in Running /\ thread[s] = "hold"
      /\ lock \in Ids \cup {Null, Orphan} /\ stale \in BOOLEAN
      /\ mishaps \in [Mishaps -> Nat] /\ mishaps["refusal"] \in Nat
  BY AspectTyped, ThreadFacts DEF Reapply
<1>2. AfterApply(s) \subseteq disturbed \cup {Spot(s)} /\ AfterApply(s) \subseteq Containers \X Aspects
  BY <1>1, ApplyReaches
<1>3. thread' = [thread EXCEPT ![s] = "hold"]
  BY <1>1 DEF Reapply, FaultInv, FaultTypeOK
<1>4. disturbed' = AfterApply(s) /\ UNCHANGED <<now, scenario, lock, phase, todo, stale, mishaps>>
  BY DEF Reapply
<1>5. MoveOf(s, "hold")
  BY <1>1, <1>2, <1>3, <1>4 DEF MoveOf
<1> QED BY <1>1, <1>5, MoveStep

LEMMA UndoSteps ==
  ASSUME FaultInv, NEW s \in Ids, Undo(s) \/ UndoRefused(s) PROVE FaultInv'
<1>1. /\ thread[s] \in {"undo", "unwind"} /\ s \in Running /\ ScenarioInv(s)
      /\ disturbed \subseteq Containers \X Aspects
      /\ lock \in Ids \cup {Null, Orphan} /\ stale \in BOOLEAN
      /\ mishaps \in [Mishaps -> Nat] /\ mishaps["refusal"] \in Nat
  BY ThreadFacts DEF Undo, UndoRefused
<1>2. /\ AfterUndo(s) \subseteq disturbed \cup {Spot(s)}
      /\ AfterUndo(s) \subseteq Containers \X Aspects
      /\ Spot(s) \in AfterUndo(s) => FailedOwner(Spot(s))
  BY <1>1, UndoLeaves
<1>3. Aspect(s) = "memory" /\ ~scenario[s].annotated /\ Spot(s) \in disturbed => FailedOwner(Spot(s))
  BY <1>1 DEF ScenarioInv, Clean
<1>4. CASE Undo(s)
  <2>1. lock' \in Ids \cup {Null, Orphan} /\ UNCHANGED <<now, scenario, phase, todo, stale, mishaps>>
    BY <1>1, <1>4 DEF Undo
  <2>2. CASE CanUndo(s)
    <3> PICK p \in {"recovered", "failed"} : p = Undone(s)
      BY DEF Undone
    <3>1. MoveOf(s, p)
      BY <1>1, <1>2, <1>4, <2>1, <2>2 DEF MoveOf, Undo, Go
    <3> QED BY <1>1, <3>1, MoveStep
  <2>3. CASE ~CanUndo(s)
    <3>1. mishaps["refusal"] > 0
      BY <1>1, <2>3, UndoWorks
    <3>2. MoveOf(s, "failed")
      BY <1>1, <1>3, <1>4, <2>1, <2>3, <3>1 DEF MoveOf, Undo, Go
    <3> QED BY <1>1, <3>2, MoveStep
  <2> QED BY <2>2, <2>3
<1>5. CASE UndoRefused(s)
  <2>1. /\ mishaps' \in [Mishaps -> Nat] /\ mishaps'["refusal"] >= mishaps["refusal"]
        /\ mishaps'["refusal"] > 0
    BY <1>5, StrikeCounts DEF UndoRefused, Mishaps, FaultInv
  <2>2. disturbed' = disturbed \/ disturbed' = AfterUndo(s)
    BY <1>5 DEF UndoRefused
  <2>3. MoveOf(s, "failed")
    BY <1>1, <1>2, <1>3, <1>5, <2>1, <2>2 DEF MoveOf, UndoRefused, Go
  <2> QED BY <1>1, <2>3, MoveStep
<1> QED BY <1>4, <1>5

LEMMA MarkSteps ==
  ASSUME FaultInv, NEW s \in Ids, MarkRecovered(s) \/ MarkFailed(s) PROVE FaultInv'
<1>1. /\ s \in Running /\ thread[s] \in {"recovered", "failed"} /\ ScenarioInv(s)
      /\ scenario[s] \in Row /\ scenario[s].status = "running"
      /\ scenario = [scenario EXCEPT ![s] = scenario[s]]
      /\ disturbed \subseteq Containers \X Aspects /\ todo \subseteq Ids
      /\ lock \in Ids \cup {Null, Orphan}
      /\ mishaps \in [Mishaps -> Nat] /\ mishaps["refusal"] \in Nat
  BY ThreadFacts DEF MarkRecovered, MarkFailed
<1>2. /\ mishaps["refusal"] > 0 \/ Clean(s)
      /\ thread[s] = "recovered" => Clean(s)
      /\ Aspect(s) = "memory" => /\ ~scenario[s].annotated => Clean(s)
                                 /\ scenario[s].squeezed => FailedOwner(Spot(s))
  BY <1>1 DEF ScenarioInv
<1>3. CASE MarkRecovered(s) /\ stale
  <2>1. /\ stale' \in BOOLEAN /\ UNCHANGED <<now, scenario, disturbed, lock, phase, todo, mishaps>>
        /\ thread' = [thread EXCEPT ![s] = "failed"] /\ Clean(s)
    BY <1>2, <1>3 DEF MarkRecovered, Go
  <2>2. MoveOf(s, "failed")
    BY <1>1, <1>2, <2>1 DEF MoveOf, Clean
  <2> QED BY <1>1, <2>2, MoveStep
<1>4. CASE MarkFailed(s) /\ stale
  <2>1. thread' = [thread EXCEPT ![s] = "none"] /\ PhaseInv'
    BY <1>1, <1>4, ServingPhase DEF MarkFailed, Go
  <2>2. stale' \in BOOLEAN /\ UNCHANGED <<now, scenario, disturbed, lock, phase, todo, mishaps>>
    BY <1>4 DEF MarkFailed
  <2>3. StepOf(s, scenario[s], "none")
    BY <1>1, <1>2, <2>1, <2>2 DEF StepOf, Positions, Clean, Target, Before
  <2> QED BY <1>1, <2>1, <2>3, ScenarioStep
<1>5. ASSUME NEW status \in {"recovered", "failed"}, Close(s, status),
             Go(s, "none"), stale' = FALSE, status = "recovered" => Clean(s),
             UNCHANGED <<now, disturbed, lock, phase, todo, mishaps>>
      PROVE  FaultInv'
  <2> DEFINE row == [scenario[s] EXCEPT !.status = status]
  <2>1. /\ scenario' = [scenario EXCEPT ![s] = row] /\ thread' = [thread EXCEPT ![s] = "none"]
        /\ PhaseInv'
    BY <1>1, <1>5, ServingPhase DEF Close, Go
  <2>2. row \in Row /\ row.target = Target(s) /\ row.status = status
    BY <1>1 DEF Row, Target, Statuses
  <2> HIDE DEF row
  <2>3. /\ stale' \in BOOLEAN /\ row.status # "running"
        /\ Spot(s) \in disturbed =>
             (row.status = "failed" /\ mishaps["refusal"] > 0) \/ FailedOwner(Spot(s))
    BY <1>2, <1>5, <2>2 DEF Clean
  <2>4. UNCHANGED <<now, disturbed, lock, phase, todo, mishaps>>
    BY <1>5
  <2>5. StepOf(s, row, "none")
    BY <1>1, <2>1, <2>2, <2>3, <2>4 DEF StepOf, Positions, Before
  <2> QED BY <1>1, <2>1, <2>5, ScenarioStep
<1>6. CASE MarkRecovered(s) /\ ~stale
  BY <1>1, <1>2, <1>5, <1>6 DEF MarkRecovered
<1>7. CASE MarkFailed(s) /\ ~stale
  BY <1>5, <1>7 DEF MarkFailed
<1> QED BY <1>3, <1>4, <1>6, <1>7 DEF MarkRecovered, MarkFailed, FaultInv, FaultTypeOK

-----------------------------------------------------------------------------
(* The API, the recovery and the mishaps.                                  *)

\* Steps that disturb nothing further and leave the rows alone.
LEMMA QuietStep ==
  ASSUME FaultInv, UNCHANGED scenario, disturbed' \subseteq disturbed,
         FaultTypeOK', PhaseInv', mishaps'["refusal"] >= mishaps["refusal"],
         \A s \in Ids : thread'[s] \in {thread[s], "none"}
  PROVE  FaultInv'
<1>1. mishaps["refusal"] \in Nat /\ mishaps'["refusal"] \in Nat
  BY DEF FaultInv, FaultTypeOK, Mishaps
<1>2. /\ Rows' = Rows /\ Running' = Running
      /\ \A s : Spot(s)' = Spot(s) /\ Target(s)' = Target(s) /\ Aspect(s)' = Aspect(s)
  BY DEF Rows, Running, Spot, Target, Aspect
<1>3. \A p : FailedOwner(p) => FailedOwner(p)'
  BY <1>1, <1>2 DEF FailedOwner
<1>4. \A s : Clean(s) => Clean(s)'
  BY <1>2, <1>3 DEF Clean
<1>5. ASSUME NEW s \in Ids PROVE ScenarioInv(s)'
  <2>1. ScenarioInv(s) /\ thread'[s] \in {thread[s], "none"}
    BY DEF FaultInv
  <2>2. CASE thread'[s] = thread[s]
    BY <1>1, <1>2, <1>3, <1>4, <2>1, <2>2 DEF ScenarioInv
  <2>3. CASE thread'[s] = "none"
    BY <1>1, <1>2, <1>3, <1>4, <2>1, <2>3 DEF ScenarioInv, Before
  <2> QED BY <2>1, <2>2, <2>3
<1>6. OneFaultEach'
  BY <1>2 DEF FaultInv, OneFaultEach
<1>7. DisturbanceOnRecord'
  BY <1>1, <1>2 DEF FaultInv, DisturbanceOnRecord
<1> QED BY <1>5, <1>6, <1>7 DEF FaultInv

LEMMA PostStep ==
  ASSUME FaultInv, ~Overlap,
         NEW k \in Kinds, NEW c \in Services, NEW d \in Containers \cup {Null},
         PostFault(k, c, d)
  PROVE  FaultInv'
<1> DEFINE on == AppliedTo(k, c, d)
           row == [status |-> "running", target |-> on, annotated |-> FALSE, squeezed |-> FALSE]
<1>1. CASE stale
  <2>1. UNCHANGED <<now, scenario, thread, disturbed, lock, phase, todo, mishaps>> /\ stale' = FALSE
    BY <1>1 DEF PostFault
  <2>2. FaultTypeOK /\ PhaseInv /\ mishaps["refusal"] \in Nat /\ Running' = Running
    BY <2>1 DEF FaultInv, FaultTypeOK, Mishaps, Running, Rows
  <2>3. FaultTypeOK' /\ PhaseInv'
    BY <2>1, <2>2 DEF FaultTypeOK, PhaseInv
  <2> QED BY <2>1, <2>2, <2>3, QuietStep
<1>2. CASE ~stale
  <2> PICK s \in Ids : s = <<k, now>>
    BY DEF Ids, FaultInv, FaultTypeOK
  <2>1. /\ phase = "serve" /\ on # Null /\ \A r \in Running : Target(r) # on
        /\ stale' = FALSE /\ scenario[s] = Null
        /\ scenario' = [scenario EXCEPT ![s] = row]
        /\ thread' = [thread EXCEPT ![s] = "start"]
        /\ UNCHANGED <<now, disturbed, lock, phase, todo, mishaps>>
    BY <1>2 DEF PostFault, Go
  <2>2. s \in Ids
    OBVIOUS
  <2>3. on \in Containers
    <3>1. c \in Containers /\ Dependency[c] \in Containers \cup {Null}
      BY FaultAssumption DEF FaultAssumption
    <3> QED BY <2>1, <3>1 DEF AppliedTo
  <2> HIDE DEF on
  <2>4. /\ row \in Row /\ row # Null
        /\ row.target = on /\ row.status = "running" /\ row.squeezed = FALSE
    <3>1. row \in Row
      BY <2>3 DEF Row, Statuses
    <3> QED BY <3>1, RowAssumption
  <2> HIDE DEF row
  <2>5. /\ scenario'[s] = row /\ thread'[s] = "start" /\ todo = {}
        /\ \A r \in Ids : r # s => scenario'[r] = scenario[r] /\ thread'[r] = thread[r]
    BY <2>1, <2>2 DEF FaultInv, FaultTypeOK, PhaseInv
  <2>6. /\ Running' = Running \cup {s} /\ s \notin Rows /\ Rows' = Rows \cup {s}
        /\ \A r \in Ids : r # s => Spot(r)' = Spot(r) /\ Target(r)' = Target(r)
        /\ Target(s)' = on /\ Spot(s)' = <<on, Aspect(s)>>
    <3>1. s \notin Rows /\ Rows' = Rows \cup {s}
      BY <2>1, <2>2, <2>4, <2>5 DEF Rows
    <3>2. Running' = Running \cup {s}
      BY <2>2, <2>4, <2>5, <3>1 DEF Running, Rows
    <3>3. \A r \in Ids : r # s => Spot(r)' = Spot(r) /\ Target(r)' = Target(r)
      BY <2>5 DEF Spot, Target, Aspect
    <3>4. Target(s)' = on
      BY <2>4, <2>5 DEF Target
    <3>5. Spot(s)' = <<on, Aspect(s)>>
      BY <3>4 DEF Spot, Aspect
    <3> QED BY <3>1, <3>2, <3>3, <3>4, <3>5
  <2>7. \A p : FailedOwner(p) => FailedOwner(p)'
    BY <2>1, <2>5, <2>6 DEF FailedOwner, Rows
  <2>8. Clean(s)'
    <3> SUFFICES ASSUME Spot(s)' \in disturbed PROVE FailedOwner(Spot(s))'
      BY <2>1 DEF Clean
    <3>1. PICK r \in Rows : /\ Spot(r) = <<on, Aspect(s)>>
                            /\ \/ scenario[r].status = "running"
                               \/ scenario[r].status = "failed" /\ mishaps["refusal"] > 0
      BY <2>6 DEF FaultInv, DisturbanceOnRecord
    <3>2. Target(r) = on
      BY <3>1 DEF Spot
    <3>3. scenario[r].status = "failed" /\ mishaps["refusal"] > 0
      BY <2>1, <3>1, <3>2 DEF Running
    <3>4. r # s /\ r \in Ids /\ Spot(r) = Spot(s)'
      BY <2>6, <3>1 DEF Rows
    <3>5. r \in Rows' /\ Spot(r)' = Spot(s)' /\ scenario'[r].status = "failed"
      BY <2>5, <2>6, <3>1, <3>3, <3>4
    <3> QED BY <2>1, <3>3, <3>5 DEF FailedOwner
  <2>9. \A r \in Ids : r # s => ScenarioInv(r)'
    <3> SUFFICES ASSUME NEW r \in Ids, r # s PROVE ScenarioInv(r)'
      OBVIOUS
    <3>1. Clean(r) => Clean(r)'
      BY <2>1, <2>6, <2>7 DEF Clean
    <3>2. ScenarioInv(r) /\ Aspect(r)' = Aspect(r) /\ (r \in Running' <=> r \in Running)
      BY <2>6 DEF FaultInv, Aspect
    <3>3. scenario'[r] = scenario[r] /\ thread'[r] = thread[r] /\ Spot(r)' = Spot(r)
      BY <2>5, <2>6
    <3> QED BY <2>1, <2>7, <3>1, <3>2, <3>3 DEF ScenarioInv, Before
  <2>10. ScenarioInv(s)'
    <3>1. s \in Running' /\ scenario'[s].squeezed = FALSE
      BY <2>4, <2>5, <2>6
    <3> QED BY <2>5, <2>8, <3>1 DEF ScenarioInv
  <2>11. FaultTypeOK'
    <3>1. FaultTypeOK /\ "start" \in Positions /\ FALSE \in BOOLEAN
      BY DEF FaultInv, Positions
    <3>2. scenario' \in [Ids -> Row \cup {Null}] /\ thread' \in [Ids -> Positions]
      BY <2>1, <2>2, <2>4, <3>1 DEF FaultTypeOK
    <3> QED BY <2>1, <3>1, <3>2 DEF FaultTypeOK
  <2>12. PhaseInv'
    BY <2>1, <2>5, <2>6 DEF FaultInv, PhaseInv
  <2>13. OneFaultEach'
    BY <2>1, <2>6 DEF FaultInv, OneFaultEach, Running, Rows
  <2>14. DisturbanceOnRecord'
    BY <2>1, <2>5, <2>6 DEF FaultInv, DisturbanceOnRecord, Rows
  <2> QED BY <2>9, <2>10, <2>11, <2>12, <2>13, <2>14 DEF FaultInv
<1> QED BY <1>1, <1>2

LEMMA RecoverSteps ==
  ASSUME FaultInv, NEW s \in Ids,
         \/ RecoverUndo(s) \/ RecoverRefused(s) \/ RecoverMark(s)
         \/ RecoverMarkRaises(s)
  PROVE  FaultInv'
<1>1. /\ phase = "recover" /\ s \in todo /\ s \in Running /\ ScenarioInv(s)
      /\ scenario[s] \in Row /\ scenario[s].status = "running"
      /\ scenario = [scenario EXCEPT ![s] = scenario[s]]
      /\ disturbed \subseteq Containers \X Aspects /\ todo \subseteq Ids
      /\ lock \in Ids \cup {Null, Orphan} /\ stale \in BOOLEAN
      /\ mishaps \in [Mishaps -> Nat] /\ mishaps["refusal"] \in Nat
      /\ \A r \in Ids : thread[r] \in AtRecovery
      /\ \A r \in Ids : thread[r] \in {"marking", "raised"} => r \in todo
  <2>1. phase = "recover" /\ s \in todo /\ s \in Running
    BY DEF RecoverUndo, RecoverRefused, RecoverMark, RecoverMarkRaises, FaultInv, PhaseInv
  <2> QED BY <2>1 DEF FaultInv, FaultTypeOK, PhaseInv, Running, Rows, Mishaps
<1>2. /\ AfterUndo(s) \subseteq disturbed \cup {Spot(s)}
      /\ AfterUndo(s) \subseteq Containers \X Aspects
      /\ Spot(s) \in AfterUndo(s) => FailedOwner(Spot(s))
  BY <1>1, UndoLeaves
<1>3. Aspect(s) = "memory" => /\ ~scenario[s].annotated => Clean(s)
                              /\ scenario[s].squeezed => FailedOwner(Spot(s))
  BY <1>1 DEF ScenarioInv
<1>4. CASE RecoverUndo(s) \/ RecoverRefused(s)
  <2> PICK p \in {"marking", "raised"} : thread' = [thread EXCEPT ![s] = p]
    BY <1>4 DEF RecoverUndo, RecoverRefused, Go
  <2>1. /\ UNCHANGED <<now, scenario, lock, phase, todo, stale>>
        /\ disturbed' = disturbed \/ disturbed' = AfterUndo(s)
    BY <1>4 DEF RecoverUndo, RecoverRefused, Go
  <2>2. /\ mishaps' \in [Mishaps -> Nat] /\ mishaps'["refusal"] >= mishaps["refusal"]
        /\ RecoverRefused(s) => mishaps'["refusal"] > 0
    BY <1>1, <1>4, StrikeCounts DEF RecoverUndo, RecoverRefused, Mishaps, FaultInv
  <2>3. Spot(s) \in disturbed' => mishaps'["refusal"] > 0 \/ FailedOwner(Spot(s))
    <3>1. CASE RecoverRefused(s)
      BY <2>2, <3>1
    <3>2. CASE RecoverUndo(s) /\ CanUndo(s)
      BY <1>2, <3>2 DEF RecoverUndo
    <3>3. CASE RecoverUndo(s) /\ ~CanUndo(s)
      <4>1. mishaps' = mishaps
        BY <3>3 DEF RecoverUndo
      <4> QED BY <1>1, <3>3, <4>1, UndoWorks
    <3> QED BY <1>4, <3>1, <3>2, <3>3
  <2>4. PhaseInv'
    <3>1. \A r \in Ids : thread'[r] \in AtRecovery /\ (thread'[r] \in {"marking", "raised"} => r \in todo)
      BY <1>1, <2>1 DEF FaultInv, FaultTypeOK
    <3>2. Running' = Running
      BY <2>1 DEF Running, Rows
    <3> QED BY <2>1, <3>1, <3>2 DEF PhaseInv, FaultInv
  <2>5. StepOf(s, scenario[s], p)
    BY <1>1, <1>2, <1>3, <2>1, <2>2, <2>3 DEF StepOf, Positions, Before, Target, Clean
  <2> QED BY <1>1, <2>4, <2>5, ScenarioStep
<1>5. CASE RecoverMark(s)
  <2> DEFINE row == [scenario[s] EXCEPT !.status = "failed"]
  <2>1. /\ scenario' = [scenario EXCEPT ![s] = row] /\ thread' = [thread EXCEPT ![s] = "none"]
        /\ stale' = stale /\ todo' = todo \ {s} /\ thread[s] \in {"marking", "raised"}
        /\ UNCHANGED <<now, disturbed, lock, phase, mishaps>>
    BY <1>5 DEF RecoverMark, Close, Go
  <2>2. row \in Row /\ row.target = Target(s) /\ row.status = "failed" /\ row # Null
    BY <1>1, RowAssumption DEF Row, Target, Statuses
  <2> HIDE DEF row
  <2>3. PhaseInv'
    <3>1. \A r \in Ids : thread'[r] \in AtRecovery /\ (thread'[r] \in {"marking", "raised"} => r \in todo /\ r # s)
      BY <1>1, <2>1 DEF FaultInv, FaultTypeOK
    <3>2. Running \ {s} \subseteq Running'
      BY <2>1 DEF Running, Rows, FaultInv, FaultTypeOK
    <3> QED BY <1>1, <2>1, <3>1, <3>2 DEF PhaseInv, FaultInv
  <2>4. mishaps["refusal"] > 0 \/ Clean(s)
    BY <1>1, <2>1 DEF ScenarioInv
  <2>5. stale' \in BOOLEAN
    BY <1>1, <2>1
  <2>6. StepOf(s, row, "none")
    BY <1>1, <2>1, <2>2, <2>4, <2>5 DEF StepOf, Positions, Before, Clean
  <2> QED BY <1>1, <2>3, <2>6, ScenarioStep
<1>6. CASE RecoverMarkRaises(s)
  <2>1. /\ thread' = [thread EXCEPT ![s] = "raised"] /\ thread[s] = "marking"
        /\ stale' = FALSE /\ UNCHANGED <<now, scenario, disturbed, lock, phase, todo, mishaps>>
    BY <1>6 DEF RecoverMarkRaises, Go
  <2>2. PhaseInv'
    <3>1. \A r \in Ids : thread'[r] \in AtRecovery /\ (thread'[r] \in {"marking", "raised"} => r \in todo)
      BY <1>1, <2>1 DEF FaultInv, FaultTypeOK
    <3>2. Running' = Running
      BY <2>1 DEF Running, Rows
    <3> QED BY <2>1, <3>1, <3>2 DEF PhaseInv, FaultInv
  <2>3. mishaps["refusal"] > 0 \/ Clean(s)
    BY <1>1, <2>1 DEF ScenarioInv
  <2>4. /\ scenario' = [scenario EXCEPT ![s] = scenario[s]] /\ disturbed' = disturbed
        /\ mishaps' = mishaps /\ stale' \in BOOLEAN
    BY <1>1, <2>1
  <2>5. StepOf(s, scenario[s], "raised")
    BY <1>1, <1>3, <2>1, <2>3, <2>4 DEF StepOf, Positions, Before, Target, Clean
  <2> QED BY <1>1, <2>2, <2>5, ScenarioStep
<1> QED BY <1>4, <1>5, <1>6

LEMMA EnvironmentSteps ==
  ASSUME FaultInv,
         \/ \E c \in Containers : ContainerRestarts(c)
         \/ \E s \in Ids : RecoverDies(s)
         \/ LoseConnection \/ Crash \/ Reap \/ SelectInterrupted \/ Serve \/ Second
         \/ UNCHANGED faultVars
  PROVE  FaultInv'
<1>1. FaultTypeOK /\ PhaseInv /\ mishaps["refusal"] \in Nat
  BY DEF FaultInv, FaultTypeOK, Mishaps
<1>2. UNCHANGED scenario /\ Running' = Running /\ Running \subseteq Ids
  BY DEF ContainerRestarts, RecoverDies, LoseConnection, Crash, Reap, SelectInterrupted, Serve, Second, faultVars,
         Running, Rows
<1>3. CASE \E c \in Containers : ContainerRestarts(c)
  <2>1. disturbed' \subseteq disturbed /\ UNCHANGED <<now, scenario, thread, lock, phase, todo, stale, mishaps>>
    BY <1>3 DEF ContainerRestarts
  <2>2. FaultTypeOK' /\ PhaseInv'
    BY <1>1, <1>2, <2>1 DEF FaultTypeOK, PhaseInv
  <2> QED BY <1>1, <2>1, <2>2, QuietStep
<1>4. CASE LoseConnection
  <2>1. mishaps' \in [Mishaps -> Nat] /\ mishaps'["refusal"] >= mishaps["refusal"]
    BY <1>1, <1>4, StrikeCounts DEF LoseConnection, Mishaps
  <2>2. stale' = TRUE /\ UNCHANGED <<now, scenario, thread, disturbed, lock, phase, todo>>
    BY <1>4 DEF LoseConnection
  <2>3. FaultTypeOK' /\ PhaseInv'
    BY <1>1, <1>2, <2>1, <2>2 DEF FaultTypeOK, PhaseInv
  <2> QED BY <2>1, <2>2, <2>3, QuietStep
<1>5. CASE Crash
  <2>1. mishaps' \in [Mishaps -> Nat] /\ mishaps'["refusal"] >= mishaps["refusal"]
    BY <1>1, <1>5, StrikeCounts DEF Crash, Mishaps
  <2>2. /\ thread' = [s \in Ids |-> "none"] /\ phase' = "select" /\ todo' = {} /\ stale' = FALSE
        /\ lock' \in Ids \cup {Null, Orphan} /\ UNCHANGED <<now, scenario, disturbed>>
    BY <1>1, <1>5 DEF Crash, FaultTypeOK
  <2>3. FaultTypeOK' /\ PhaseInv'
    BY <1>1, <1>2, <2>1, <2>2 DEF FaultTypeOK, PhaseInv, Positions
  <2> QED BY <2>1, <2>2, <2>3, QuietStep
<1>6. CASE Reap \/ Second \/ UNCHANGED faultVars
  <2>1. /\ lock' \in Ids \cup {Null, Orphan} /\ now' \in 0..MaxTime
        /\ UNCHANGED <<scenario, thread, disturbed, phase, todo, stale, mishaps>>
    BY <1>1, <1>6, FaultAssumption DEF Reap, Second, faultVars, FaultTypeOK, FaultAssumption
  <2>2. FaultTypeOK' /\ PhaseInv'
    BY <1>1, <1>2, <2>1 DEF FaultTypeOK, PhaseInv
  <2> QED BY <1>1, <2>1, <2>2, QuietStep
<1>7. CASE SelectInterrupted
  <2>1. /\ phase = "select" /\ todo' = Running /\ phase' = "recover"
        /\ UNCHANGED <<now, scenario, thread, disturbed, lock, stale, mishaps>>
    BY <1>7 DEF SelectInterrupted
  <2>2. todo = {} /\ \A s \in Ids : thread[s] \in AtRecovery
    BY <1>1, <2>1 DEF PhaseInv
  <2>3. FaultTypeOK' /\ PhaseInv'
    BY <1>1, <1>2, <2>1, <2>2 DEF FaultTypeOK, PhaseInv
  <2> QED BY <1>1, <2>1, <2>3, QuietStep
<1>8. CASE Serve
  <2>1. /\ todo = {} /\ phase' = "serve"
        /\ UNCHANGED <<now, scenario, thread, disturbed, lock, todo, stale, mishaps>>
    BY <1>8 DEF Serve
  <2>2. FaultTypeOK' /\ PhaseInv'
    BY <1>1, <1>2, <2>1 DEF FaultTypeOK, PhaseInv
  <2> QED BY <1>1, <2>1, <2>2, QuietStep
<1>9. CASE \E s \in Ids : RecoverDies(s)
  <2>1. /\ thread' = [s \in Ids |-> "none"] /\ phase' = "select" /\ todo' = {} /\ stale' = FALSE
        /\ UNCHANGED <<now, scenario, disturbed, lock, mishaps>>
    BY <1>9 DEF RecoverDies
  <2>2. FaultTypeOK' /\ PhaseInv'
    BY <1>1, <1>2, <2>1 DEF FaultTypeOK, PhaseInv, Positions
  <2> QED BY <1>1, <2>1, <2>2, QuietStep
<1> QED BY <1>3, <1>4, <1>5, <1>6, <1>7, <1>8, <1>9

-----------------------------------------------------------------------------
LEMMA FaultStart ==
  ASSUME FaultInit PROVE FaultInv
<1>1. Rows = {} /\ Running = {}
  BY DEF FaultInit, Rows, Running
<1>2. 0 \in 0..MaxTime /\ 0 \in Nat
  BY FaultAssumption DEF FaultAssumption
<1>3. FaultTypeOK
  BY <1>2 DEF FaultInit, FaultTypeOK, Positions
<1> QED BY <1>1, <1>3 DEF FaultInit, FaultInv, PhaseInv, OneFaultEach, DisturbanceOnRecord, ScenarioInv, Before

LEMMA FaultStep ==
  ASSUME FaultInv, ~Overlap, [FaultNext]_faultVars PROVE FaultInv'
<1>1. ASSUME NEW s \in Ids, Execute(s) PROVE FaultInv'
  BY <1>1, StartStep, AnnotateStep, LockSteps, ApplySteps, UndoSteps, MarkSteps DEF Execute
<1>2. ASSUME NEW s \in Ids, Reapply(s) \/ ApplyRefused(s) \/ UndoRefused(s) \/ RecoverRefused(s)
      PROVE  FaultInv'
  BY <1>2, ReapplyStep, ApplySteps, UndoSteps, RecoverSteps
<1>3. CASE Recover
  BY <1>3, RecoverSteps, EnvironmentSteps DEF Recover
<1> QED BY <1>1, <1>2, <1>3, PostStep, EnvironmentSteps DEF FaultNext

\* If no fault is posted at a container that has one, every disturbed setting
\* is owned by a row recorded as running, or, once Docker has refused a call,
\* as failed: whatever crashes, is refused or lost, and whatever the faults.
\* (record_scenario, annotate_scenario, the finally blocks, recover_interrupted.)
THEOREM DisturbancesOnRecord ==
  ~Overlap => (FaultSpec => []DisturbanceOnRecord)
<1> SUFFICES ASSUME ~Overlap PROVE FaultSpec => []DisturbanceOnRecord
  OBVIOUS
<1>1. FaultInit => FaultInv
  BY FaultStart
<1>2. FaultInv /\ [FaultNext]_faultVars => FaultInv'
  BY FaultStep
<1>3. FaultInv => DisturbanceOnRecord
  BY DEF FaultInv
<1> QED BY <1>1, <1>2, <1>3, PTL DEF FaultSpec

\* "Every fault undoes itself" is true of faults that do not overlap: when no
\* row is running and Docker has refused nothing, nothing is disturbed.
THEOREM LoneFaultsUndoThemselves ==
  ~Overlap => (FaultSpec => []EveryFaultUndoesItself)
<1> SUFFICES ASSUME ~Overlap PROVE FaultSpec => []EveryFaultUndoesItself
  OBVIOUS
<1>1. FaultInit => FaultInv
  BY FaultStart
<1>2. FaultInv /\ [FaultNext]_faultVars => FaultInv'
  BY FaultStep
<1>3. FaultInv => EveryFaultUndoesItself
  BY DEF FaultInv, DisturbanceOnRecord, EveryFaultUndoesItself, Running
<1> QED BY <1>1, <1>2, <1>3, PTL DEF FaultSpec
=============================================================================
