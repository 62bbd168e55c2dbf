---------------------------- MODULE MCScheduler ----------------------------
(* Instantiation of SubagentScheduler for TLC. *)
EXTENDS SubagentScheduler

============================================================================
