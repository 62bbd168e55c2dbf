----------------------------- MODULE ModelTurn -----------------------------
(***************************************************************************)
(* One model step of a run (merry-runtime/src/runtime/step.rs,             *)
(* provider_step.rs, provider_step/consume.rs): the gate on open calls,    *)
(* the preparation of the request, the turn in the session, the attempts   *)
(* of the retrying provider (merry-llm/src/retry.rs), which run in a task  *)
(* of their own behind a channel, and the consumption of their events.     *)
(*                                                                         *)
(* The texts, the usage figures and the reasons of failures are left out.  *)
(* What the user sees of a turn is the attempt that produced the text, and *)
(* the attempt the displayed output rate belongs to.  Left out are a       *)
(* runtime without a model, whose step completes without a turn, and the   *)
(* overflow of the turn's 64-bit id.                                       *)
(***************************************************************************)
EXTENDS ContextReduction

CONSTANTS MaxAttempts,   \* max_attempts of the retry policy
          ChannelSize,   \* RETRY_STREAM_BUFFER
          Batches        \* the batches of calls a response may request

ASSUME TurnAssumption ==
    /\ {MaxAttempts, ChannelSize} \subseteq Nat \ {0}
    /\ Batches \subseteq
         Seq({"read", "edit", "control", "network", "command", "process",
              "bridge", "final"})
           \ {<<>>}

VARIABLES
    attempt,   \* run_retry_stream: the attempt, and what it has sent
    channel,   \* its channel to the consumer
    screen,    \* what the events of the step show
    streamed,  \* streamed_tool_calls is not empty
    scanned    \* bridge calls of the response announced so far

turnVars == <<attempt, channel, screen, streamed, scanned>>

NoAttempt == [n |-> 0, at |-> "none", committed |-> FALSE, progress |-> FALSE]
Blank == [text |-> 0, rate |-> 0]

TurnInit ==
    /\ attempt = NoAttempt /\ channel = <<>>
    /\ screen = Blank /\ streamed = FALSE /\ scanned = 0

\* The step's task ends: its receiver is dropped, and with it the attempts.
StreamClosed ==
    /\ attempt' = NoAttempt /\ channel' = <<>>
    /\ screen' = Blank /\ streamed' = FALSE /\ scanned' = 0

StepFails == FailStep /\ StreamClosed
StepCancels == CancelStep /\ StreamClosed

\* Nothing but the step's own state changes.
StepOnly == UNCHANGED <<reductionVars, cancelled>>
CallsKept == UNCHANGED <<batch, pending>>

\* Mutant of StartStep: the gate on open calls is dropped.
StartStepUngated ==
    /\ pc = "step" /\ ~cancelled
    /\ pc' = "prepare" /\ batch' = <<>>
    /\ UNCHANGED <<turn, ended, turnVars, pending>> /\ StepOnly

\* run_step and the gate of run_provider_step: no turn while calls are open.
\* Past it the calls of the last turn are of no more interest.
StartStep ==
    /\ pc = "step"
    /\ \/ cancelled /\ StepCancels /\ UNCHANGED batch
       \/ pending # {} /\ StepFails /\ UNCHANGED batch
       \/ /\ pending = {} /\ ~cancelled /\ pc' = "prepare" /\ batch' = <<>>
          /\ UNCHANGED <<turn, ended, turnVars>>
    /\ UNCHANGED pending /\ StepOnly

\* Memory activation, plan control, the request and its budget; a request
\* over the hard watermark is reduced first.
PrepareRequest ==
    /\ pc = "prepare"
    /\ \/ cancelled /\ StepCancels /\ UNCHANGED red
       \/ StepFails /\ UNCHANGED red
       \/ /\ ~cancelled
          /\ \/ pc' = "begin" /\ UNCHANGED red
             \/ \E b \in Hard..MaxBody : ReductionBegins("step", b)
          /\ UNCHANGED <<turn, ended, turnVars>>
    /\ CallsKept /\ UNCHANGED <<commit, storeHolds, cancelled>>

\* begin_model_turn_at_sequence, under the lock and after a look at the token.
BeginTurn ==
    /\ pc = "begin"
    /\ \/ cancelled /\ StepCancels
       \/ ~cancelled /\ turn' = "InProgress" /\ pc' = "record" /\ UNCHANGED <<ended, turnVars>>
    /\ CallsKept /\ StepOnly

\* The user's messages enter the transcript and the attempts start.
RecordInput ==
    /\ pc = "record"
    /\ \/ cancelled /\ StepCancels
       \/ StepFails
       \/ /\ ~cancelled
          /\ attempt' = [NoAttempt EXCEPT !.n = 1, !.at = "streaming"]
          /\ pc' = "stream"
          /\ UNCHANGED <<turn, ended, channel, screen, streamed, scanned>>
    /\ CallsKept /\ StepOnly

(***************************************************************************)
(* The attempts.                                                           *)
(***************************************************************************)
AttemptOnly ==
    /\ UNCHANGED <<screen, streamed, scanned, pc, ended, sessionVars>>
    /\ StepOnly

\* Mutant of CommitsOutput: text is not taken for output.
CommitsOutputNotText(kind) == kind \in {"call", "stop", "calls", "bad", "halt"}

\* commits_output: after one of these an error is final.
CommitsOutput(kind) == kind \in {"text", "call", "stop", "calls", "bad", "halt"}

Send(kind) == channel' = Append(channel, [kind |-> kind, from |-> attempt.n])

\* The provider's next event is passed on.
AttemptEvent ==
    /\ attempt.at = "streaming" /\ ~cancelled
    /\ Len(channel) < ChannelSize
    /\ \E kind \in {"progress", "text", "call", "stop", "calls", "bad", "halt"} :
         /\ Send(kind)
         /\ attempt' = [attempt EXCEPT
                !.committed = attempt.committed \/ CommitsOutput(kind),
                !.progress = attempt.progress \/ kind = "progress",
                !.at = IF kind \in {"stop", "calls", "bad", "halt"} THEN "done" ELSE @]
    /\ AttemptOnly

\* A retry is scheduled only for a retryable error of an attempt that has
\* committed nothing, within the policy's limits (elapsed time is a choice).
MayRetry == ~attempt.committed /\ attempt.n < MaxAttempts

\* The attempt ends with an error or without a completion.  A rate that was
\* shown is reset before the next attempt.
AttemptFails ==
    /\ attempt.at = "streaming" /\ ~cancelled
    /\ Len(channel) < ChannelSize
    /\ \/ /\ Send("error")
          /\ attempt' = [attempt EXCEPT !.at = "done"]
       \/ /\ MayRetry
          /\ IF attempt.progress THEN Send("reset") ELSE UNCHANGED channel
          /\ attempt' = [attempt EXCEPT !.at = "backoff"]
    /\ AttemptOnly

\* The delay is over.
NextAttempt ==
    /\ attempt.at = "backoff" /\ ~cancelled
    /\ attempt' = [NoAttempt EXCEPT !.n = attempt.n + 1, !.at = "streaming"]
    /\ UNCHANGED channel
    /\ AttemptOnly

Attempts == AttemptEvent \/ AttemptFails \/ NextAttempt

(***************************************************************************)
(* consume_model_stream.                                                   *)
(***************************************************************************)

\* The response's calls become pending in one step, under the lock.
RecordCalls(calls) ==
    /\ batch' = calls
    /\ pending' = 1..Len(calls)
    /\ turn' = "AwaitingToolResults"
    /\ ended' = "calls" /\ pc' = "announce"
    /\ attempt' = NoAttempt /\ channel' = <<>>
    /\ screen' = Blank /\ streamed' = FALSE /\ scanned' = 0

\* A text answer closes the turn and the step together.
RecordAnswer ==
    /\ turn' = "Completed"
    /\ ended' = "StepCompleted" /\ pc' = "classify"
    /\ StreamClosed

Shows(text, rate) ==
    /\ screen' = [text |-> text, rate |-> rate]
    /\ UNCHANGED <<attempt, scanned, pc, ended, turn>>

\* The token may be cancelled between a fatal event and the report of it.
ConsumeEvent ==
    /\ pc = "stream" /\ channel # <<>>
    /\ cancelled => Head(channel).kind \in {"bad", "error"}
    /\ LET event == Head(channel)
           rest == channel' = Tail(channel)
       IN  CASE event.kind = "progress" ->
                  /\ rest /\ UNCHANGED streamed /\ CallsKept
                  /\ \/ Shows(screen.text, event.from)
                     \/ Shows(screen.text, screen.rate)
             [] event.kind = "reset" ->
                  rest /\ UNCHANGED streamed /\ CallsKept /\ Shows(screen.text, 0)
             [] event.kind = "text" ->
                  rest /\ UNCHANGED streamed /\ CallsKept /\ Shows(event.from, screen.rate)
             [] event.kind = "call" ->
                  /\ CallsKept
                  /\ \/ rest /\ streamed' = TRUE /\ Shows(screen.text, screen.rate)
                     \/ streamed /\ StepFails   \* conflicts with an earlier one
             [] event.kind = "stop" ->
                  /\ CallsKept
                  /\ IF streamed THEN StepFails ELSE RecordAnswer
             [] event.kind = "calls" -> \E calls \in Batches : RecordCalls(calls)
             [] event.kind = "halt" -> CallsKept /\ StepCancels
             [] event.kind = "error" -> CallsKept /\ (StepFails \/ StepCancels)
             [] OTHER -> CallsKept /\ StepFails
    /\ StepOnly

\* Mutant of ConsumeCancelled: the token is seen only when an event arrives.
ConsumeCancelledLate ==
    /\ pc = "stream" /\ cancelled /\ channel # <<>>
    /\ StepCancels /\ CallsKept /\ StepOnly

\* Every wait for an event looks at the token first.
ConsumeCancelled ==
    /\ pc = "stream" /\ cancelled
    /\ StepCancels /\ CallsKept /\ StepOnly

\* After the response, each bridge call is announced, or failed at once when
\* its input does not validate; cancellation leaves the calls pending.
AnnounceCalls ==
    /\ pc = "announce"
    /\ LET bridges == {i \in 1..Len(batch) : i > scanned /\ batch[i] = "bridge"}
           next == CHOOSE i \in bridges : \A k \in bridges : i <= k
       IN  \/ /\ cancelled /\ (bridges # {} \/ scanned = 0)
              /\ CancelStep /\ CallsKept /\ scanned' = 0
           \/ /\ bridges = {} /\ (cancelled => scanned > 0)
              /\ pc' = "classify" /\ scanned' = 0 /\ UNCHANGED <<ended, sessionVars>>
           \/ /\ bridges # {} /\ ~cancelled
              /\ scanned' = next /\ UNCHANGED <<pc, ended>>
              /\ UNCHANGED sessionVars \/ Record({next})
    /\ UNCHANGED <<attempt, channel, screen, streamed>> /\ StepOnly

TurnStep ==
    \/ StartStep \/ PrepareRequest \/ BeginTurn \/ RecordInput
    \/ Attempts \/ ConsumeEvent \/ ConsumeCancelled \/ AnnounceCalls
=============================================================================
