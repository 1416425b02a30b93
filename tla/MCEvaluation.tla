---------------------------- MODULE MCEvaluation ----------------------------
(* Constants for TLC: two faults, one of a kind an older injector lacks.   *)
EXTENDS EvaluationRun

MCSuite == <<[kind |-> "service_crash", service |-> "user", lasts |-> 1],
             [kind |-> "config_error", service |-> "catalogue", lasts |-> 1]>>
MCImplemented == {Unasked, {}, {"service_crash"}}
MCNoise == {{"user"}, {"user", "catalogue"}, Garbage}
=============================================================================
