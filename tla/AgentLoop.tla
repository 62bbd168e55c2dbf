----------------------------- MODULE AgentLoop -----------------------------
(***************************************************************************)
(* The agent loop (merry-runtime/src/agent_loop): model steps and tool     *)
(* batches in turn, under one active-step permit and one cancellation      *)
(* token, until a step ends the run.  The same loop exists twice:          *)
(* run_agent_loop ("collect") returns at the first bridge call, and        *)
(* run_agent_loop_stream_producer ("stream") hands bridge calls to its     *)
(* host and waits for their results.                                       *)
(*                                                                         *)
(* The module composes the model step (ModelTurn), the context reduction   *)
(* before it (ContextReduction) and the tool batch after it (ToolBatch),   *)
(* and shows that together they implement Conversation.                    *)
(***************************************************************************)
EXTENDS ModelTurn, ToolBatch

CONSTANTS MaxTurns,     \* max_model_turns
          MaxRetries,   \* max_structured_output_retries
          MaxNotices,   \* bound: notifications raised during one run
          MaxBatch,     \* bound: calls of a batch
          Configs       \* the modes of the loop, with or without a contract

ASSUME LoopAssumption ==
    /\ MaxTurns \in Nat \ {0} /\ {MaxRetries, MaxNotices, MaxBatch} \subseteq Nat
    /\ \A calls \in Batches : Len(calls) <= MaxBatch
    /\ Configs \subseteq [mode : {"collect", "stream"}, contract : BOOLEAN]

VARIABLES
    run,      \* the loop's locals
    notice,   \* a subagent notification waits to be taken
    bridge    \* the hand-off of bridge calls to the host

loopVars == <<run, notice, bridge>>
vars == <<pc, cancelled, ended, sessionVars, reductionVars, turnVars, toolVars, loopVars>>

\* "deferrals" counts how often the run put its user's input off, and "raised"
\* bounds the notifications.
NoRun == [mode |-> "none", contract |-> FALSE, input |-> "none",
          deferred |-> FALSE, turns |-> 0, retries |-> 0, deferrals |-> 0,
          raised |-> 0]

Init ==
    /\ pc = "idle" /\ cancelled = FALSE /\ ended = "none"
    /\ turn = "none" /\ batch = <<>> /\ pending = {}
    /\ ReductionInit /\ TurnInit /\ ToolInit
    /\ run = NoRun /\ notice = FALSE /\ bridge = "none"

NotLoop == UNCHANGED <<reductionVars, turnVars>>
NoTools == UNCHANGED <<todo, exec, review, events, bridge>>

\* The loop returns; its locals, the batch and an open review go with it.
Finish(status) ==
    /\ pc' = "idle" /\ ended' = status
    /\ run' = NoRun /\ bridge' = "none"
    /\ todo' = {} /\ exec' = <<>> /\ review' = NoReview

\* Back to the top with the next input.
Continue(input) ==
    /\ run' = [run EXCEPT !.input = input]
    /\ pc' = "top" /\ ended' = "none"

\* Mutant of OutOfTurns: one turn too many.
OutOfTurnsLate == run.turns > MaxTurns

OutOfTurns == run.turns >= MaxTurns

(***************************************************************************)
(* The top of the loop.                                                    *)
(***************************************************************************)

\* run_agent_loop and stream_agent_loop acquire the permit.
StartRun ==
    /\ PermitFree
    /\ \E config \in Configs, input \in {"user", "continue"} :
         run' = [NoRun EXCEPT !.mode = config.mode, !.contract = config.contract,
                              !.input = input, !.raised = IF notice THEN 1 ELSE 0]
    /\ pc' = "top" /\ cancelled' = FALSE /\ ended' = "none"
    /\ UNCHANGED <<sessionVars, notice>> /\ NotLoop /\ NoTools

\* A notification goes first: user input is deferred, other input dropped.
\* Only the streaming loop looks at the token before it starts a step.
Defers == notice /\ run.input = "user"
LoopTop ==
    /\ pc = "top"
    /\ notice' = FALSE
    /\ IF run.mode = "stream" /\ cancelled
         THEN Finish("Cancelled") /\ UNCHANGED events
         ELSE /\ run' = [run EXCEPT
                    !.input = "none", !.turns = run.turns + 1,
                    !.deferred = run.deferred \/ Defers,
                    !.deferrals = IF Defers THEN run.deferrals + 1 ELSE run.deferrals]
              /\ pc' = "step" /\ ended' = "none" /\ NoTools
    /\ UNCHANGED <<cancelled, sessionVars>> /\ NotLoop

(***************************************************************************)
(* What classify_step_events makes of the step, and what the loop does.    *)
(***************************************************************************)
OutcomeOnly == UNCHANGED <<cancelled, sessionVars, events>> /\ NotLoop

\* A failed, a cancelled or a silent step, or an answer where the contract
\* asks for the final-output tool, ends the run.
OnStepEnded ==
    /\ pc = "classify"
    /\ \/ ended \in {"Failed", "Cancelled"} /\ Finish(ended)
       \/ ended = "none" /\ Finish("Blocked")
       \/ ended = "StepCompleted" /\ run.contract /\ Finish("Blocked")
    /\ UNCHANGED notice /\ OutcomeOnly

\* StepOutcome::Completed: a notification or the deferred input goes on.
OnCompleted ==
    /\ pc = "classify" /\ ended = "StepCompleted" /\ ~run.contract
    /\ notice' = FALSE
    /\ IF notice
         THEN IF OutOfTurns THEN Finish("Blocked") ELSE Continue("note") /\ NoTools
         ELSE IF run.deferred
                THEN /\ run' = [run EXCEPT !.input = "user", !.deferred = FALSE]
                     /\ pc' = "top" /\ ended' = "none" /\ NoTools
                ELSE Finish("Completed")
    /\ OutcomeOnly

\* StepOutcome::ToolResultRecorded: every call failed as it was announced.
OnToolResultRecorded ==
    /\ pc = "classify" /\ ended = "calls" /\ pending = {}
    /\ IF OutOfTurns THEN Finish("Blocked") ELSE Continue("continue") /\ NoTools
    /\ UNCHANGED notice /\ OutcomeOnly

IsFinalOutput == run.contract /\ batch = <<"final">>

\* StepOutcome::Pending(FinalOutput): refused because of a notification,
\* refused as invalid with a retry while there are some, or recorded.
OnFinalOutput ==
    /\ pc = "classify" /\ ended = "calls" /\ pending # {} /\ IsFinalOutput
    /\ Record(pending)
    /\ notice' = FALSE
    /\ IF notice
         THEN IF OutOfTurns THEN Finish("Blocked") ELSE Continue("note") /\ NoTools
         ELSE \/ Finish("Completed")
              \/ IF run.retries + 1 <= MaxRetries /\ ~OutOfTurns
                   THEN /\ run' = [run EXCEPT !.input = "continue", !.retries = run.retries + 1]
                        /\ pc' = "top" /\ ended' = "none" /\ NoTools
                   ELSE Finish("Failed")
    /\ UNCHANGED <<cancelled, events>> /\ NotLoop

\* StepOutcome::PendingBatch and Pending(Runtime or Bridge).
OnCalls ==
    /\ pc = "classify" /\ ended = "calls" /\ pending # {} /\ ~IsFinalOutput
    /\ LET bridged == \E i \in pending : IsBridge(i)
       IN  IF OutOfTurns \/ (run.mode = "collect" /\ bridged)
             THEN Finish("Blocked")
             ELSE /\ pc' = "tools"
                  /\ todo' = pending
                  /\ exec' = [i \in pending |-> "wait"]
                  /\ UNCHANGED <<ended, run, review, bridge>>
    /\ UNCHANGED notice /\ OutcomeOnly

(***************************************************************************)
(* The batch.                                                              *)
(***************************************************************************)

BridgeWave == \E i \in Wave : IsBridge(i)

\* The calls of done leave the batch; after the last one the loop goes on.
AfterCalls(done) ==
    /\ todo' = todo \ done
    /\ IF todo \subseteq done
         THEN Continue("continue") /\ exec' = <<>>
         ELSE UNCHANGED <<run, pc, ended, exec>>

\* The first error in call order, of a group whose calls are all done.
FirstError(group) ==
    LET bad == {i \in group : exec[i] # "ok"}
    IN  CHOOSE i \in bad : \A j \in bad : i <= j

\* Mutant of GroupEnds: an error returns without the events of the calls that
\* succeeded.
GroupEndsQuiet ==
    /\ pc = "tools" /\ ~BridgeWave
    /\ \A i \in Group : Done(i)
    /\ IF \A i \in Group : exec[i] = "ok"
         THEN /\ AfterCalls(Group)
              /\ events' = IF Group = Wave THEN {} ELSE events
              /\ UNCHANGED <<review, bridge>>
         ELSE Finish("Error") /\ UNCHANGED events
    /\ UNCHANGED <<cancelled, sessionVars, notice>> /\ NotLoop

\* A group is done.  The results of a batch are published when it is complete
\* and when a call of it failed.
GroupEnds ==
    /\ pc = "tools" /\ ~BridgeWave
    /\ \A i \in Group : Done(i)
    /\ IF \A i \in Group : exec[i] = "ok"
         THEN /\ AfterCalls(Group)
              /\ events' = IF Group = Wave THEN {} ELSE events
              /\ UNCHANGED <<review, bridge>>
         ELSE /\ Finish(IF exec[FirstError(Group)] = "cancelled"
                          THEN "Cancelled" ELSE "Error")
              /\ events' = {}
    /\ UNCHANGED <<cancelled, sessionVars, notice>> /\ NotLoop

\* A wave of bridge calls is handed to the host.
OfferBridge ==
    /\ pc = "tools" /\ BridgeWave /\ bridge = "none"
    /\ bridge' = "offered"
    /\ UNCHANGED <<pc, ended, cancelled, sessionVars, run, notice, toolVars>> /\ NotLoop

\* The host submits outcomes for the wave: the right ones, those of another
\* batch, or ones the session refuses.
HostSubmits ==
    /\ bridge = "offered"
    /\ \E answer \in {"ok", "mismatch", "refused"} : bridge' = answer
    /\ UNCHANGED <<pc, ended, cancelled, sessionVars, run, notice, toolVars>> /\ NotLoop

\* receive_bridge_tool_result has a result.  A mismatch is answered with an
\* error and the loop waits on.
TakeBridgeResult ==
    /\ pc = "tools"
    /\ \/ /\ bridge = "ok"
          /\ Record(Wave)
          /\ AfterCalls(Wave) /\ bridge' = "none"
       \/ /\ bridge = "mismatch" /\ bridge' = "offered"
          /\ UNCHANGED <<sessionVars, run, pc, ended, todo, exec>>
       \/ /\ bridge = "refused" /\ bridge' = "failing"
          /\ UNCHANGED <<sessionVars, run, pc, ended, todo, exec>>
    /\ UNCHANGED <<cancelled, notice, review, events>> /\ NotLoop

\* It has the token's cancellation, also when a result is there.
CancelBridge ==
    /\ pc = "tools" /\ cancelled
    /\ bridge \in {"offered", "ok", "mismatch", "refused"}
    /\ bridge' = "cancelling"
    /\ UNCHANGED <<pc, ended, cancelled, sessionVars, run, notice, toolVars>> /\ NotLoop

\* settle_failed_ and settle_cancelled_bridge_tool_calls, one call at a time.
SettleBridge ==
    /\ pc = "tools" /\ bridge \in {"failing", "cancelling"}
    /\ LET open == Wave \cap pending
       IN  \/ /\ \E i \in open : (\A j \in open : i <= j) /\ Record({i})
              /\ UNCHANGED <<run, pc, ended, todo, exec, review, bridge>>
           \/ /\ open = {} /\ bridge = "failing"
              /\ AfterCalls(Wave) /\ bridge' = "none"
              /\ UNCHANGED <<sessionVars, review>>
           \/ /\ open = {} /\ bridge = "cancelling"
              /\ Finish("Cancelled") /\ UNCHANGED sessionVars
    /\ UNCHANGED <<cancelled, notice, events>> /\ NotLoop

LoopStep ==
    \/ LoopTop \/ OnStepEnded \/ OnCompleted \/ OnToolResultRecorded
    \/ OnFinalOutput \/ OnCalls \/ GroupEnds \/ OfferBridge
    \/ TakeBridgeResult \/ CancelBridge \/ SettleBridge

(***************************************************************************)
(* The host.                                                               *)
(***************************************************************************)

\* request_cancel, or the token of a manual compaction.
Cancel ==
    /\ pc # "idle" /\ ~cancelled
    /\ cancelled' = TRUE
    /\ UNCHANGED <<pc, ended, sessionVars, reductionVars, turnVars, toolVars, loopVars>>

\* The run, or the future of the compaction, is dropped: its task is aborted
\* where it is and the guard aborts an open turn.  Calls stay pending, and a
\* commit task that was spawned runs on.
DropRun ==
    /\ pc # "idle"
    /\ cancelled' \in {cancelled, TRUE}
    /\ turn' = Aborted(turn) /\ CallsKept
    /\ red' = NoReduction
    /\ commit' = IF commit \in {"ok", "failed"} THEN "none" ELSE commit
    /\ StreamClosed
    /\ Finish("Dropped") /\ events' = {}
    /\ UNCHANGED <<storeHolds, notice>>

\* A child agent ends.
RaiseNotice ==
    /\ pc # "idle" /\ run.mode # "none" /\ ~notice /\ run.raised < MaxNotices
    /\ notice' = TRUE
    /\ run' = [run EXCEPT !.raised = run.raised + 1]
    /\ UNCHANGED <<pc, ended, cancelled, sessionVars, reductionVars, turnVars, toolVars, bridge>>

\* submit_tool_result, and abandon_pending_tool_calls, between runs.
SettleCalls ==
    /\ PermitFree
    /\ \/ \E i \in pending : Record({i})
       \/ Record(pending)
    /\ UNCHANGED <<pc, ended, cancelled, reductionVars, turnVars, toolVars, loopVars>>

Host == StartRun \/ Cancel \/ DropRun \/ RaiseNotice \/ SettleCalls \/ HostSubmits

System ==
    \/ LoopStep
    \/ TurnStep /\ UNCHANGED <<toolVars, loopVars>>
    \/ ReductionStep /\ UNCHANGED <<turnVars, toolVars, loopVars>>
    \/ ToolStep /\ UNCHANGED <<reductionVars, turnVars, loopVars>>

Next ==
    \/ System
    \/ Host
    \/ CompactContext /\ UNCHANGED <<turnVars, toolVars, loopVars>>
    \/ HostAnswers /\ pc = "tools" /\ UNCHANGED <<reductionVars, turnVars, loopVars>>

\* The runtime's tasks run on as long as they can.  Between a result and a
\* cancellation that are both ready tokio::select! draws a branch at random,
\* so a host that answers wrongly for ever does not starve the cancellation.
Spec == Init /\ [][Next]_vars /\ WF_vars(System) /\ WF_vars(CancelBridge)

(***************************************************************************)
(* Properties.                                                             *)
(***************************************************************************)

\* Whatever the loop, its tools, a reduction, a cancellation, a drop or the host
\* between two runs do, the session's turns follow the Conversation: no turn
\* begins while a call of the last one is open (run_provider_step's gate), no
\* call is settled twice, and the last result closes its turn.
Conv == INSTANCE Conversation WITH Calls <- 1..MaxBatch
ImplementsConversation == Conv!ConversationSpec

\* The events of one step show the text and the output rate of one attempt of
\* the retrying provider: a retry never follows text (commits_output), and a
\* rate of an attempt that was given up is reset before the next one.
OneAttemptShown ==
    [][/\ screen.text # 0 /\ screen'.text # 0 => screen'.text = screen.text
       /\ screen'.text # 0 /\ screen'.rate # 0 => screen'.rate = screen'.text]_screen

\* A tool's effect starts only while the run is not cancelled, for a call that
\* is pending and whose predecessors are settled, beside nothing but other
\* parallel-safe calls and within the limit, and a process that needs a review
\* only on a grant or an answer that allows this very request.
Active == {"propose", "model", "host", "running", "returned"}
EffectStarts(i) == exec'[i] = "running" /\ exec[i] # "running"
EffectAuthorized ==
    [][\A i \in DOMAIN exec \cap DOMAIN exec' : EffectStarts(i) =>
         /\ ~cancelled /\ i \in pending
         /\ \A j \in pending : j < i => ParallelSafe(j) /\ ParallelSafe(i)
         /\ \A j \in DOMAIN exec \ {i} : exec[j] \in Active => ParallelSafe(i) /\ ParallelSafe(j)
         /\ Cardinality({j \in DOMAIN exec : exec'[j] \in Active}) <= MaxParallel
         /\ batch[i] = "process" =>
              review'.by \in {"trusted", "grant"} \/ review'.answer = "allow"]_exec

\* Every result a batch recorded is among the events of its run, also when a
\* call beside it failed or was cancelled and the batch returns an error.
RecordedIsPublished == pc = "idle" => events = {}

\* The store is ahead of memory only between the two halves of an install,
\* and then nothing changes the session's turns and calls and no run or
\* compaction goes on or starts, even when the one that started the install
\* was cancelled or dropped.
CheckpointAgrees ==
    [][storeHolds = "next" => /\ sessionVars' = sessionVars
                              /\ pc' \in {"install", "idle"}]_vars

\* A run starts no more model turns than max_model_turns, but for one more each
\* time a notification made it put off its user's input: the branch that takes
\* the deferred input up again (StepOutcome::Completed) is the only one that goes
\* on without a look at the budget.
TurnBudget == run.turns <= MaxTurns + run.deferrals

\* What AgentLoopConfig says of max_model_turns: it bounds the model turns that
\* one run of the loop starts.
TurnsWithinLimit == run.turns <= MaxTurns

\* A cancelled run, and a cancelled compaction, ends.
CancelledRunEnds == cancelled ~> pc = "idle"
=============================================================================
