----------------------------- MODULE ToolBatch -----------------------------
(***************************************************************************)
(* The execution of the runtime's own tool calls                           *)
(* (merry-runtime/src/runtime/tool_batch.rs, tool_execution.rs,            *)
(* process_execution.rs, permission_execution.rs, permission/channel.rs):  *)
(* runs of parallel-safe calls side by side, every other call alone, each  *)
(* call through admission, proposal, review and execution, in a race with  *)
(* the run's cancellation and with the host that answers reviews.          *)
(*                                                                         *)
(* The kind of a call says which path it takes: "read" is parallel-safe    *)
(* and "network" is not, and neither has a proposal; "control" is a        *)
(* RuntimeControl tool; "edit" has a proposal that policy admits,          *)
(* "command" is a process that policy admits and "process" one that has to *)
(* be reviewed.  A request_permissions call is a "process" whose proposal  *)
(* is immediate.                                                           *)
(***************************************************************************)
EXTENDS AgentRunState

CONSTANTS MaxParallel,   \* max_parallel_tool_calls
          ReviewModes    \* the permission review modes

ASSUME ToolAssumption ==
    /\ MaxParallel \in Nat \ {0}
    /\ ReviewModes \subseteq
         {"DefaultForTrust", "ModelThenHostFallback", "Required", "HostDecisionOnly",
          "FullyTrusted", "DenyAll"}

VARIABLES
    todo,     \* the calls of the run's batch that are not done
    exec,     \* where the execution of each call is
    review,   \* the review that is open or was answered last
    events    \* calls resolved by the wave whose events are not yet published

toolVars == <<todo, exec, review, events>>

NoReview == [by |-> "none", answer |-> "none"]

ToolInit ==
    /\ todo = {} /\ exec = <<>> /\ review = NoReview /\ events = {}

ParallelSafe(i) == batch[i] = "read"
IsBridge(i) == batch[i] = "bridge"

\* A wave is a maximal run of calls the runtime executes, or of bridge calls.
Wave == {i \in todo : \A j \in todo : j <= i => (IsBridge(j) <=> IsBridge(i))}

\* The calls of the wave that execute together: the first one, and when it is
\* parallel-safe those that follow and are so too.
Group == {i \in Wave : \A j \in todo : j < i => ParallelSafe(j) /\ ParallelSafe(i)}

Started(i) == exec[i] # "wait"
Done(i) == exec[i] \in {"ok", "error", "cancelled"}

\* buffer_unordered starts the calls in order, at most MaxParallel at a time.
MayStart(i) ==
    /\ exec[i] = "wait" /\ ~IsBridge(i) /\ i \in Group
    /\ \A j \in Group : j < i => Started(j)
    /\ Cardinality({j \in Group : Started(j) /\ ~Done(j)}) < MaxParallel

ToolFrame == UNCHANGED <<pc, cancelled, ended, todo>>
NoResult == UNCHANGED <<sessionVars, events>>

\* The call's future goes on to another stage.
Stage(i, stage) ==
    /\ exec' = [exec EXCEPT ![i] = stage]
    /\ NoResult

\* The call's result is recorded and its future returns the events.
Resolve(i) ==
    /\ exec' = [exec EXCEPT ![i] = "ok"]
    /\ events' = events \cup {i}
    /\ Record({i})

\* execute_tool_call_with_active_permit up to the first await that can last:
\* cancelled, refused (admission, plan tool, unregistered, invalid input,
\* harness, checkpoint reference), failed, or on to its proposal or executor.
StartCall(i) ==
    /\ MayStart(i)
    /\ \/ cancelled /\ Stage(i, "cancelled")
       \/ ~cancelled /\ (Resolve(i) \/ Stage(i, "error"))
       \/ batch[i] \in {"edit", "command", "process"} /\ ~cancelled /\ Stage(i, "propose")
       \/ batch[i] \in {"read", "network", "control"} /\ ~cancelled /\ Stage(i, "running")
    /\ UNCHANGED review /\ ToolFrame

\* A process that must be reviewed goes to the first reviewer of the mode.
ReviewProcess(i) ==
    \E mode \in ReviewModes :
      CASE mode = "FullyTrusted" ->
             Stage(i, "running") /\ review' = [NoReview EXCEPT !.by = "trusted"]
        [] mode = "DenyAll" -> Resolve(i) /\ UNCHANGED review
        [] mode = "HostDecisionOnly" ->
             Stage(i, "host") /\ review' = [NoReview EXCEPT !.by = "host"]
        [] mode \in {"Required", "ModelThenHostFallback"} ->
             Stage(i, "model") /\ review' = [NoReview EXCEPT !.by = mode]
        [] OTHER ->   \* DefaultForTrust: by the runtime's trust level
             \/ Stage(i, "model") /\ review' = [NoReview EXCEPT !.by = mode]
             \/ Stage(i, "host") /\ review' = [NoReview EXCEPT !.by = "host"]

\* The proposal is in: an outcome or a denial is recorded, an infrastructure
\* error or a cancellation leaves the call pending, and an action that needs no
\* review starts.
ProposalReturns(i) ==
    /\ exec[i] = "propose"
    /\ \/ Stage(i, "cancelled") /\ UNCHANGED review
       \/ ~cancelled /\ UNCHANGED review /\ (Resolve(i) \/ Stage(i, "error"))
       \/ /\ ~cancelled /\ batch[i] # "process"
          /\ Stage(i, "running") /\ UNCHANGED review
       \/ ~cancelled /\ batch[i] = "process" /\ ReviewProcess(i)
    /\ ToolFrame

\* An existing grant covers a permission request, except where the mode or the
\* action asks for a review of every request.
ReuseGrant(i) ==
    /\ exec[i] = "propose" /\ batch[i] = "process" /\ ~cancelled
    /\ ReviewModes \cap {"DefaultForTrust", "ModelThenHostFallback"} # {}
    /\ Stage(i, "running") /\ review' = [NoReview EXCEPT !.by = "grant"]
    /\ ToolFrame

\* The reviewing model approves, denies or fails.  Under ModelThenHostFallback
\* a denial or a failure goes to the host, if there is one; otherwise it
\* settles the call.
ModelReviews(i) ==
    /\ exec[i] = "model"
    /\ \/ /\ cancelled
          /\ Stage(i, "cancelled") /\ review' = NoReview
       \/ /\ ~cancelled
          /\ Stage(i, "running") /\ review' = [review EXCEPT !.answer = "allow"]
       \/ /\ ~cancelled
          /\ \/ /\ review.by = "ModelThenHostFallback"
                /\ Stage(i, "host") /\ review' = [NoReview EXCEPT !.by = "host"]
             \/ Resolve(i) /\ review' = NoReview
    /\ ToolFrame

\* The host answers, answers for another request, or drops the request.
HostAnswers ==
    /\ review.by = "host" /\ review.answer = "none"
    /\ \E i \in DOMAIN exec : exec[i] = "host"
    /\ \E answer \in {"allow", "deny", "stale", "closed"} :
         review' = [review EXCEPT !.answer = answer]
    /\ NoResult /\ UNCHANGED exec /\ ToolFrame

\* Mutant of TakeAnswer: the approval id and the fingerprint are not compared.
TakeAnswerUnchecked(i) ==
    /\ exec[i] = "host" /\ ~cancelled
    /\ \/ /\ review.answer \in {"allow", "stale"}
          /\ Stage(i, "running") /\ UNCHANGED review
       \/ /\ review.answer \in {"deny", "closed"}
          /\ Resolve(i) /\ review' = NoReview
    /\ ToolFrame

\* review of the channel source: cancellation first, then the answer, whose
\* approval id and fingerprint must be those of the request.
TakeAnswer(i) ==
    /\ exec[i] = "host"
    /\ \/ /\ cancelled
          /\ Stage(i, "cancelled") /\ review' = NoReview
       \/ /\ ~cancelled /\ review.answer = "allow"
          /\ Stage(i, "running") /\ UNCHANGED review
       \/ /\ ~cancelled /\ review.answer \in {"deny", "stale", "closed"}
          /\ Resolve(i) /\ review' = NoReview
    /\ ToolFrame

\* Only these are raced with the token once they run.
Raced(i) == batch[i] \in {"read", "network", "command", "process"}

\* The executor or the process returns an outcome or an error; its own
\* Cancelled is taken at its word.
EffectReturns(i) ==
    /\ exec[i] = "running"
    /\ \/ (Raced(i) => ~cancelled) /\ Stage(i, "returned")
       \/ ~cancelled /\ Stage(i, "error")
       \/ Stage(i, "cancelled")
    /\ UNCHANGED review /\ ToolFrame

\* The outcome is recorded under the session's lock.  Without a proposal it is
\* discarded when the token is cancelled; evidence that does not match the
\* proposal is an error after the fact.
RecordOutcome(i) ==
    /\ exec[i] = "returned"
    /\ \/ batch[i] \in {"read", "network"} /\ cancelled /\ Stage(i, "cancelled")
       \/ (batch[i] \in {"read", "network"} => ~cancelled) /\ Resolve(i)
       \/ batch[i] \in {"edit", "command", "process"} /\ Stage(i, "error")
    /\ review' = NoReview /\ ToolFrame

ToolStep ==
    /\ pc = "tools"
    /\ \E i \in todo :
         \/ StartCall(i) \/ ProposalReturns(i) \/ ReuseGrant(i)
         \/ ModelReviews(i) \/ TakeAnswer(i) \/ EffectReturns(i) \/ RecordOutcome(i)
=============================================================================
