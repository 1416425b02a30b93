-------------------------- MODULE MCFaultInjector --------------------------
EXTENDS FaultInjectorProperties, TLC
CONSTANTS catalogue, db
MCDependency == (catalogue :> db)
NoMishap == [m \in Mishaps |-> 0]
=============================================================================
