--------------------------- MODULE AgentRunState ---------------------------
(***************************************************************************)
(* The state that the parts of one agent run share: the place of the task  *)
(* that holds the active-step permit, its cancellation token, and the last *)
(* model turn of the session with the calls it requested.                  *)
(***************************************************************************)
EXTENDS Naturals, Sequences, FiniteSets

VARIABLES
    pc,         \* where the run, or the manual compaction, is
    cancelled,  \* its cancellation token
    ended,      \* how the last model step ended, then how the run did
    turn,       \* status of the last model turn
    batch,      \* the kinds of the calls it requested, in order
    pending     \* those the session holds as pending

sessionVars == <<turn, batch, pending>>

\* A result is recorded for each call of S.  The session refuses a call that
\* is not pending, and the last result completes the turn.
Record(S) ==
    /\ S # {} /\ S \subseteq pending
    /\ pending' = pending \ S
    /\ turn' = IF pending \ S = {} THEN "Completed" ELSE turn
    /\ batch' = batch

\* abort_model_turn of the fail and cancel paths and of the guard: only an
\* InProgress turn is touched.
Aborted(t) == IF t = "InProgress" THEN "Aborted" ELSE t

\* fail_model_turn: abort the turn, then send_failed_event, which sends
\* nothing once the token is cancelled.
FailStep ==
    /\ turn' = Aborted(turn)
    /\ ended' = IF cancelled THEN "none" ELSE "Failed"
    /\ pc' = "classify"

\* cancel_model_turn: the Cancelled event is sent whatever the token says.
CancelStep ==
    /\ turn' = Aborted(turn)
    /\ ended' = "Cancelled"
    /\ pc' = "classify"
=============================================================================
