---------------------- MODULE FaultInjectorProperties ----------------------
(* What the fault injector promises about the testbed it disturbs.         *)
EXTENDS FaultInjector

\* Whatever is disturbed on a container is owned by a scenario recorded as
\* running, so that a restart finds and undoes it; once Docker has refused a
\* call it may be one recorded as failed, but never one called recovered.
\* (record_scenario before execute, annotate before update, the order of undo
\* and mark_recovered, recover_interrupted.)
DisturbanceOnRecord ==
  \A spot \in disturbed : \E s \in Rows :
    /\ Spot(s) = spot
    /\ \/ scenario[s].status = "running"
       \/ scenario[s].status = "failed" /\ mishaps["refusal"] > 0

\* When the last fault has been posted the testbed heals: every setting is put
\* back, by the fault's own thread or after a crash by the next process, as
\* long as Docker obeys; the lock is free, an abandoned one once it is reaped;
\* and every row is closed, unless mark_failed met a broken connection.
TestbedHeals ==
  <>[](/\ disturbed = {} \/ mishaps["refusal"] > 0
       /\ lock = Null
       /\ Running = {} \/ mishaps["loss"] > 0)

\* "Every fault undoes itself in a finally" (main.py): once no scenario is
\* running, nothing of any is left, as long as Docker obeys.
EveryFaultUndoesItself ==
  Running = {} /\ mishaps["refusal"] = 0 => disturbed = {}
=============================================================================
