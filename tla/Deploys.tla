------------------------------ MODULE Deploys ------------------------------
(***************************************************************************)
(* services/deploy-emitter: one row in `deploys', one event on             *)
(* deploys.events, for every deploy.                                       *)
(*                                                                         *)
(* Flask serves each POST in a thread of its own and the simulation loop   *)
(* is one more; they share one autocommit connection.  A deploy is three   *)
(* calls that leave the process: read the last version, insert, publish.   *)
(* Nothing orders the calls of two threads, and nothing replaces a         *)
(* connection that broke.                                                  *)
(***************************************************************************)
EXTENDS Naturals, Sequences, FiniteSets, FiniteSetsExt

CONSTANTS
  Deployed,      \* services it knows
  Unknown,       \* a service it does not
  Deployers,     \* request threads and the simulation loop
  Computed,      \* no version in the request: compute one
  Odd,           \* a version that is not three numbers
  MaxDeploys,    \* bound: values of deploy_id_seq
  MaxDeployFaults

ASSUME DeployAssumption ==
  /\ Unknown \notin Deployed
  /\ {Computed, Odd} \cap Nat = {} /\ Computed # Odd
  /\ MaxDeploys \in Nat /\ MaxDeployFaults \in Nat

VARIABLES
  deploys,     \* the table, by time, which is also by id
  sequence,    \* deploy_id_seq: a failed INSERT takes a value too
  events,      \* deploys.events
  deployer,    \* what each thread is doing
  connected,   \* the connection to TimescaleDB is up
  answers,     \* deploys answered with 201, or logged by the loop
  deployFaults

deployVars == <<deploys, sequence, events, deployer, connected, answers, deployFaults>>

\* A version is its patch number.  seen: rows there were when it was computed.
Versions == Nat \cup {Odd}
Deploy == [id : Nat, service : Deployed, version : Versions, computed : BOOLEAN, seen : Nat]
AtRest == [at |-> "rest"]
Asked == [at : {"version"}, service : Deployed, version : {Computed}, computed : BOOLEAN, seen : Nat]
         \cup [at : {"insert"}, service : Deployed, version : Versions, computed : BOOLEAN, seen : Nat]

DeployTypeOK ==
  /\ deploys \in Seq(Deploy)
  /\ sequence \in Nat
  /\ events \in Seq(Deploy)
  /\ deployer \in [Deployers -> {AtRest} \cup Asked \cup [at : {"publish"}, row : Deploy]]
  /\ connected \in BOOLEAN
  /\ answers \subseteq Nat
  /\ deployFaults \in Nat

DeployInit ==
  /\ deploys = <<>>
  /\ sequence = 0
  /\ events = <<>>
  /\ deployer = [d \in Deployers |-> AtRest]
  /\ connected = TRUE
  /\ answers = {}
  /\ deployFaults = 0

Rest(d) == deployer' = [deployer EXCEPT ![d] = AtRest]

\* post_deploy, or a round of simulate_loop.  An unknown service is refused.
AskDeploy(d, s, v) ==
  /\ deployer[d] = AtRest
  /\ sequence < MaxDeploys
  /\ s \in Deployed
  /\ deployer' = [deployer EXCEPT ![d] =
       [at |-> IF v = Computed THEN "version" ELSE "insert", service |-> s,
        version |-> v, computed |-> v = Computed, seen |-> 0]]
  /\ UNCHANGED <<deploys, sequence, events, connected, answers, deployFaults>>

\* Rows of a service among the first n.
RowsOf(s, n) == {i \in 1..n : deploys[i].service = s}
Following(v) == IF v = Odd THEN 0 ELSE v + 1

\* Mutant: ORDER BY time without DESC.
NextVersionOfFirst(s, n) == IF RowsOf(s, n) = {} THEN 0 ELSE Following(deploys[Min(RowsOf(s, n))].version)

\* The patch after the latest, or 1.0.0 where there is none to count on.
NextVersion(s, n) == IF RowsOf(s, n) = {} THEN 0 ELSE Following(deploys[Max(RowsOf(s, n))].version)

ReadVersion(d) ==
  LET s == deployer[d].service
      n == Len(deploys)
  IN /\ deployer[d].at = "version"
     /\ connected
     /\ deployer' = [deployer EXCEPT ![d] =
          [at |-> "insert", service |-> s, version |-> NextVersion(s, n), computed |-> TRUE, seen |-> n]]
     /\ UNCHANGED <<deploys, sequence, events, connected, answers, deployFaults>>

InsertDeploy(d) ==
  LET j == deployer[d]
      row == [id |-> sequence + 1, service |-> j.service, version |-> j.version,
              computed |-> j.computed, seen |-> j.seen]
  IN /\ j.at = "insert"
     /\ connected
     /\ deploys' = Append(deploys, row)
     /\ sequence' = sequence + 1
     /\ deployer' = [deployer EXCEPT ![d] = [at |-> "publish", row |-> row]]
     /\ UNCHANGED <<events, connected, answers, deployFaults>>

\* Mutant: the event is made from the last row, which may be another thread's.
PublishLastRow(d) ==
  /\ deployer[d].at = "publish"
  /\ events' = Append(events, deploys[Len(deploys)])
  /\ answers' = answers \cup {deployer[d].row.id}
  /\ Rest(d)
  /\ UNCHANGED <<deploys, sequence, connected, deployFaults>>

\* send and flush: the thread answers when the broker has the event.
PublishDeploy(d) ==
  /\ deployer[d].at = "publish"
  /\ events' = Append(events, deployer[d].row)
  /\ answers' = answers \cup {deployer[d].row.id}
  /\ Rest(d)
  /\ UNCHANGED <<deploys, sequence, connected, deployFaults>>

\* send raises, 500; or the delivery fails, which flush does not report, 201.
PublishFails(d) ==
  /\ deployer[d].at = "publish"
  /\ deployFaults < MaxDeployFaults
  /\ deployFaults' = deployFaults + 1
  /\ answers' \in {answers, answers \cup {deployer[d].row.id}}
  /\ Rest(d)
  /\ UNCHANGED <<deploys, sequence, events, connected>>

\* The statement fails, 500.  Not the connection: the sequence has moved on.
StatementFails(d) ==
  /\ deployer[d].at \in {"version", "insert"}
  /\ IF connected
       THEN /\ deployFaults < MaxDeployFaults
            /\ deployFaults' = deployFaults + 1
            /\ sequence' \in 
                 {sequence, IF deployer[d].at = "insert" THEN sequence + 1 ELSE sequence}
       ELSE UNCHANGED <<deployFaults, sequence>>
  /\ Rest(d)
  /\ UNCHANGED <<deploys, events, connected, answers>>

LoseDatabase ==
  /\ connected
  /\ deployFaults < MaxDeployFaults
  /\ deployFaults' = deployFaults + 1
  /\ connected' = FALSE
  /\ UNCHANGED <<deploys, sequence, events, deployer, answers>>

\* The process is started again and connects.
RestartEmitter ==
  /\ deployFaults < MaxDeployFaults
  /\ deployFaults' = deployFaults + 1
  /\ connected' = TRUE
  /\ deployer' = [d \in Deployers |-> AtRest]
  /\ UNCHANGED <<deploys, sequence, events, answers>>

DeployStep(d) == ReadVersion(d) \/ InsertDeploy(d) \/ PublishDeploy(d)

DeployNext ==
  \/ \E d \in Deployers, s \in Deployed \cup {Unknown}, v \in {Computed, Odd, 0} : AskDeploy(d, s, v)
  \/ \E d \in Deployers : DeployStep(d) \/ PublishFails(d) \/ StatementFails(d)
  \/ LoseDatabase \/ RestartEmitter

DeploySpec == DeployInit /\ [][DeployNext]_deployVars

-----------------------------------------------------------------------------
\* What a consumer is told is what a reader of the table finds: every event is
\* the row of its id, no deploy is announced twice, and one answered with 201
\* is in the table even if its event was lost.  (create_deploy.)
EventsAreRows ==
  /\ \A i \in DOMAIN events : \E k \in DOMAIN deploys : deploys[k] = events[i]
  /\ \A i, j \in DOMAIN events : events[i].id = events[j].id => i = j
  /\ \A a \in answers : \E k \in DOMAIN deploys : deploys[k].id = a

\* Requests for a service that do not overlap count its versions up one by one,
\* whatever fails between them.  Two that overlap may get one version, and the
\* slower may set the count back.  (next_version, INSERT_SQL.)
VersionsAdvance ==
  \A j \in DOMAIN deploys :
    LET mine == {i \in 1..j : deploys[i].service = deploys[j].service}
        serial == \A i \in mine : deploys[i].computed
                                  /\ \A k \in mine : k < i => k <= deploys[i].seen
    IN serial => deploys[j].version + 1 = Cardinality(mine)
=============================================================================
