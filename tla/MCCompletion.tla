---------------------------- MODULE MCCompletion ----------------------------
(* SubagentCompletion for TLC. *)
EXTENDS SubagentCompletion

=============================================================================
