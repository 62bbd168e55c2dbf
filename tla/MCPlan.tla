------------------------------- MODULE MCPlan -------------------------------
(* PlanLifecycle on small instances.  Executors are interchangeable.          *)
EXTENDS PlanLifecycle, TLC

Symmetry == Permutations(Executors)
==============================================================================
