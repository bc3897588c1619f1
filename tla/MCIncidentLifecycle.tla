-------------------------- MODULE MCIncidentLifecycle --------------------------
(* IncidentLifecycle on small instances.  Requests and investigators are    *)
(* interchangeable: no action or property names one of them.                *)
EXTENDS IncidentLifecycle, TLC

Symmetric == Permutations(Requests) \union Permutations(Investigators)
===============================================================================
