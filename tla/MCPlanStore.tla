---------------------------- MODULE MCPlanStore ----------------------------
(* PlanStore for TLC. *)
EXTENDS PlanStore

=============================================================================
