----------------------------- MODULE MCServices -----------------------------
(***************************************************************************)
(* Constants for TLC: small instances of everything around the             *)
(* orchestrator and the detector's loop.                                   *)
(*                                                                         *)
(* The parts share no state: fault injector, deploy emitter, metrics       *)
(* pipeline, load generator (its pace, its order history), dummy site,     *)
(* drift detector, diagnosis service, anomaly dataset and evaluation       *)
(* runner meet in Docker, Kafka and the databases only, and each model has *)
(* of those what it needs.  Interleaving them would multiply the states    *)
(* and show nothing, so a behaviour lets one part run, chosen at the start.*)
(* The dataset is two of them: what an export makes of every diagnosis and *)
(* verdict, with nobody reading, and a reader beside exports of anomalies  *)
(* that nobody diagnoses, for it goes by the time of the file alone.       *)
(***************************************************************************)
EXTENDS MCFaultInjector, Deploys, MetricsPipeline, LoadPacing, OrderHistory,
        DummySite, MCDriftDetector, MCDiagnosis, AnomalyDataset, MCEvaluation

CONSTANTS web, runner, store, n2, o1, o2

VARIABLE part

MCMishaps == [m \in Mishaps |-> IF m = "crash" THEN 2 ELSE 1]
MCDownstream == web :> <<runner, store>> @@ runner :> <<store>> @@ store :> <<>>
MCSlots == web :> 0 @@ runner :> 1 @@ store :> 0
MCRankings == {<<"catalogue">>, <<"catalogue-db">>}

Parts == {"faults", "deploys", "metrics", "pacing", "orders", "site", "drift",
          "diagnosis", "exports", "reading", "evaluation"}
allVars == <<part, faultVars, deployVars, pipelineVars, pacingVars, ordersVars, siteVars,
             vars, diagnosisVars, datasetVars, evalVars>>

ServicesInit ==
  /\ part \in Parts
  /\ FaultInit /\ DeployInit /\ PipelineInit /\ OrdersInit /\ SiteInit
  /\ Init /\ DiagnosisInit /\ DatasetInit /\ EvalInit
  /\ PacingInit
  /\ part # "pacing" => ~stocked

Alone(p) ==
  /\ part = p
  /\ UNCHANGED part
  /\ p # "faults" => UNCHANGED faultVars
  /\ p # "deploys" => UNCHANGED deployVars
  /\ p # "metrics" => UNCHANGED pipelineVars
  /\ p # "pacing" => UNCHANGED pacingVars
  /\ p # "orders" => UNCHANGED ordersVars
  /\ p # "site" => UNCHANGED siteVars
  /\ p # "drift" => UNCHANGED vars
  /\ p # "diagnosis" => UNCHANGED diagnosisVars
  /\ p \notin {"exports", "reading"} => UNCHANGED datasetVars
  /\ p # "evaluation" => UNCHANGED evalVars

ServicesNext ==
  \/ Alone("faults") /\ FaultNext
  \/ Alone("deploys") /\ DeployNext
  \/ Alone("metrics") /\ PipelineNext
  \/ Alone("pacing") /\ PacingNext
  \/ Alone("orders") /\ OrdersNext
  \/ Alone("site") /\ SiteNext
  \/ Alone("drift") /\ Next
  \/ Alone("diagnosis") /\ DiagnosisNext
  \/ Alone("exports") /\ DatasetNext /\ UNCHANGED reader
  \/ Alone("reading") /\ DatasetNext /\ UNCHANGED diagnoses
  \/ Alone("evaluation") /\ EvalNext

\* Threads that can go on do: those of the fault injector, and the sink.
ServicesSpec ==
  /\ ServicesInit /\ [][ServicesNext]_allVars
  /\ WF_allVars(Alone("faults") /\ FaultProgress)
  /\ WF_allVars(Alone("metrics") /\ SinkStep)
=============================================================================
