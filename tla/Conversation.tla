---------------------------- MODULE Conversation ----------------------------
(***************************************************************************)
(* What a session promises about its model turns, whatever run, tool or    *)
(* host drives it (merry-runtime/src/session/model_turns.rs and            *)
(* session/transcript.rs): a turn begins only when the previous one is     *)
(* closed and none of its calls is open, it ends with an answer, an abort  *)
(* or a batch of calls, and every call of the batch is settled exactly     *)
(* once, the last one completing the turn.  AgentLoop implements this.     *)
(***************************************************************************)
EXTENDS Naturals, FiniteSets

CONSTANT Calls   \* the calls a batch may hold

VARIABLES turn, pending

conversationVars == <<turn, pending>>

Start ==
    /\ turn = "none"
    /\ pending = {}

\* begin_model_turn_at_sequence pushes an InProgress turn.
Begin ==
    /\ turn # "InProgress"
    /\ pending = {}
    /\ turn' = "InProgress"
    /\ UNCHANGED pending

\* A text response closes the turn.
Answer ==
    /\ turn = "InProgress"
    /\ turn' = "Completed"
    /\ UNCHANGED pending

\* abort_model_turn, which leaves a closed turn alone.
Abort ==
    /\ turn = "InProgress"
    /\ turn' = "Aborted"
    /\ UNCHANGED pending

\* A response with tool calls makes all of them pending at once.
Request ==
    /\ turn = "InProgress"
    /\ pending' \in (SUBSET Calls) \ {{}}
    /\ turn' = "AwaitingToolResults"

\* Results are recorded for calls that are pending; the last one completes
\* the turn.
Settle ==
    /\ turn = "AwaitingToolResults"
    /\ pending' \in (SUBSET pending) \ {pending}
    /\ turn' = IF pending' = {} THEN "Completed" ELSE turn

Converse == Begin \/ Answer \/ Abort \/ Request \/ Settle

ConversationSpec == Start /\ [][Converse]_conversationVars
=============================================================================
