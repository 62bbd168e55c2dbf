--------------------------- MODULE InteractiveRun ---------------------------
(***************************************************************************)
(* An interactive agent run (merry-runtime/src/interactive): the producer  *)
(* task that owns the input queue and alternates between waiting for the   *)
(* user, model steps and tool waves; the user's input and control handles; *)
(* and the host, which reads the output stream and executes bridge tools.  *)
(*                                                                         *)
(* The producer handles commands only where it selects on them, so a       *)
(* command is one action, taken in the mode the producer is in: "waiting"  *)
(* (CommandHandlingMode::Waiting) or one of Running.  Between two selects  *)
(* the producer runs alone and its step is one action, unless state        *)
(* changes between two sends of it.  Every send awaits room in the output  *)
(* channel: `out` is the channel together with what the producer is still  *)
(* sending, and a producer that waits for room does nothing else.          *)
(*                                                                         *)
(* Abstractions: texts are left out; the calls of one wave (adjacent calls *)
(* of one kind) are one unit, since a wave is resolved or settled as a     *)
(* whole; adjacent events in the output channel are one Event, and as an   *)
(* operation may send any number of them, any operation that sends some    *)
(* may find the channel full; the two epoch counters are reduced to        *)
(* whether they differ.                                                    *)
(***************************************************************************)
EXTENDS Naturals, Sequences

CONSTANTS MaxInputs,    \* inputs the user sends
          MaxCommands,  \* the user's commands, except resume, discard and the
                        \* approval of a plan, and plan and subagent events
          MaxBatches,   \* model steps that request tools
          MaxResults,   \* places of the bridge result channel
          Requests      \* the batches of calls a model step may request

ASSUME BoundsAssumption ==
    /\ {MaxInputs, MaxCommands, MaxBatches, MaxResults} \subseteq Nat
    /\ Requests \subseteq Seq({"runtime", "bridge", "final"}) \ {<<>>}

VARIABLES
    pc,              \* where the producer is
    outcome,         \* the result of the step, or the bridge wave, that is ending
    continuing,      \* continuation_required of the last step
    interrupted, suspended_resume_requested,
    coordinator_continuation_requested, subagent_continuation_requested,
    phaseCancelled,  \* phase_token
    loopCancelled,   \* loop_token
    lanes,           \* next, suspended and backlog of InteractiveInputQueue
    item,            \* its items: state and lane
    pending,         \* the waves of calls the session holds as pending
    batch,           \* bridge_batch_sequence: the last bridge batch handed off
    out,             \* the output channel, and what is being sent to it
    results,         \* the bridge result channel
    moved,           \* bridge_resolution_epoch # observed_bridge_resolution_epoch
    held,            \* pending_tool_invocations of the stream, 0 for None
    unread,          \* unread_message of the stream, 0 for None
    hostOp,          \* the call the host is in
    notices,         \* the manager holds completion notifications
    asked,           \* the user has asked to resume since the last interrupt
    commands, requested

queueVars == <<lanes, item>>
flagVars == <<interrupted, suspended_resume_requested,
              coordinator_continuation_requested,
              subagent_continuation_requested, notices>>
phaseVars == <<pc, outcome, continuing, phaseCancelled, pending, batch>>
hostVars == <<moved, held, unread, hostOp, results>>
boundVars == <<commands, requested>>
vars == <<queueVars, flagVars, phaseVars, hostVars, asked, boundVars,
          loopCancelled, out>>

Inputs == 1 .. MaxInputs
Lanes == {"Next", "Suspended", "Backlog"}
Event == 0  \* in the output channel, beside the numbers of bridge batches
Phases == {"model", "modelEnds", "tool", "bridge"}  \* those with a phase_token
Running == Phases \cup {"boundary"}
Busy == Running \cup {"settling", "settled"}

Init ==
    /\ pc = "waiting" /\ outcome = "none" /\ continuing = FALSE
    /\ interrupted = FALSE /\ suspended_resume_requested = FALSE
    /\ coordinator_continuation_requested = FALSE
    /\ subagent_continuation_requested = FALSE
    /\ phaseCancelled = FALSE /\ loopCancelled = FALSE
    /\ lanes = [l \in Lanes |-> <<>>]
    /\ item = [i \in Inputs |-> [state |-> "New", lane |-> "Next"]]
    /\ pending = <<>> /\ batch = 0
    /\ out = <<Event>> /\ results = <<>>
    /\ moved = FALSE /\ held = 0 /\ unread = 0 /\ hostOp = "idle"
    /\ notices = FALSE
    /\ asked = FALSE
    /\ commands = 0 /\ requested = 0

-----------------------------------------------------------------------------
(* The input queue *)

Members(seq) == {seq[n] : n \in DOMAIN seq}

\* Without the element at its first position.
remove_id(seq, i) ==
    LET index == CHOOSE n \in DOMAIN seq :
                    seq[n] = i /\ \A m \in DOMAIN seq : seq[m] = i => n <= m
    IN  [k \in 1 .. Len(seq) - 1 |-> IF k < index THEN seq[k] ELSE seq[k + 1]]

\* remove: only an item that is still pending and stands in its lane.
RemoveItem(i) ==
    /\ item[i].state = "Pending" /\ i \in Members(lanes[item[i].lane])
    /\ lanes' = [lanes EXCEPT ![item[i].lane] = remove_id(@, i)]
    /\ item' = [item EXCEPT ![i] = [state |-> "Removed", lane |-> "Next"]]

\* replace_pending_order: a permutation of the lane as it is.
ReplaceOrder(lane, order) ==
    /\ Len(order) = Len(lanes[lane])
    /\ Members(order) = Members(lanes[lane])
    /\ lanes' = [lanes EXCEPT ![lane] = order]
    /\ UNCHANGED item

SuspendNextForgets ==
    /\ lanes' = [lanes EXCEPT !.Next = <<>>, !.Suspended = @ \o lanes.Next]
    /\ UNCHANGED item
suspend_next ==
    /\ lanes' = [lanes EXCEPT !.Next = <<>>, !.Suspended = @ \o lanes.Next]
    /\ item' = [i \in Inputs |->
                  IF i \in Members(lanes.Next)
                  THEN [item[i] EXCEPT !.lane = "Suspended"] ELSE item[i]]

discard_suspended ==
    /\ lanes' = [lanes EXCEPT !.Suspended = <<>>]
    /\ item' = [i \in Inputs |->
                  IF i \in Members(lanes.Suspended)
                  THEN [state |-> "Removed", lane |-> "Next"] ELSE item[i]]

\* The lanes and items after `ids` have been taken from `lane`.
Take(ls, its, lane, rest, ids) ==
    /\ lanes' = [ls EXCEPT ![lane] = rest]
    /\ item' = [i \in Inputs |->
                  IF i \in ids THEN [state |-> "Accepted", lane |-> "Next"]
                  ELSE its[i]]

\* accept_next_burst, accept_suspended_burst
AcceptBurst(ls, its, lane) == Take(ls, its, lane, <<>>, Members(ls[lane]))

\* accept_one_backlog
AcceptOne(ls, its) ==
    Take(ls, its, "Backlog", Tail(ls.Backlog), {Head(ls.Backlog)})

-----------------------------------------------------------------------------
(* The producer *)

\* Events are sent.  Those that wait for room are an Event behind an Event.
Emit(o) ==
    LET sent == IF o # <<>> /\ o[Len(o)] = Event THEN o ELSE Append(o, Event)
    IN  {sent, Append(sent, Event)}

\* No send waits for room.
Sent == \A n \in 2 .. Len(out) : out[n] = Event => out[n - 1] # Event

\* `while !loop_token.is_cancelled()`: the producer goes back to its select,
\* or announces its end.
BackToWaiting ==
    /\ pc' = (IF loopCancelled THEN "closed" ELSE "waiting")
    /\ phaseCancelled' = FALSE /\ continuing' = FALSE /\ outcome' = "none"

\* run_model_phase: a phase token that is a child of the loop token.
StartModel ==
    /\ pc' = "model" /\ phaseCancelled' = loopCancelled
    /\ continuing' = FALSE /\ outcome' = "none"
    /\ out' \in Emit(out)
    /\ UNCHANGED <<pending, batch>>

\* run_accepted_steps
RunAccepted == StartModel /\ interrupted' = FALSE

\* A round of run_continuation_steps: it takes the completion notifications.
RunContinuation == StartModel /\ notices' = FALSE /\ UNCHANGED interrupted

\* The step is over and the next boundary decides.
ToBoundary(cont, outs) ==
    /\ pc' = "boundary" /\ continuing' = cont /\ out' \in outs
    /\ phaseCancelled' = FALSE /\ outcome' = "none"
    /\ UNCHANGED batch

\* run_bridge_tool_batch up to its select: the state event, then the handoff.
\* `bumped`: the epoch has been raised since the last select.
HandOff(bumped) ==
    /\ pc' = "bridge" /\ batch' = batch + 1
    /\ out' \in {Append(o, batch + 1) : o \in Emit(out)}
    /\ phaseCancelled' = loopCancelled /\ continuing' = FALSE /\ outcome' = "none"
    /\ moved' = (moved \/ bumped)

\* run_runtime_tool and run_runtime_tool_batch up to their select.
StartRuntimeWave ==
    /\ pc' = "tool" /\ out' \in Emit(out)
    /\ phaseCancelled' = loopCancelled /\ continuing' = FALSE /\ outcome' = "none"
    /\ UNCHANGED batch

\* The loop of run_pending_tool_batch: the next wave, unless the last one
\* said to stop.  The output is then one of `outs`.
NextWave(waves, cont, outs, bumped) ==
    \/ /\ waves = <<>> \/ ~cont
       /\ ToBoundary(cont, outs)
       /\ moved' = (moved \/ bumped)
    \/ /\ cont /\ waves # <<>> /\ Head(waves) # "bridge"
       /\ StartRuntimeWave
       /\ moved' = (moved \/ bumped)
    \/ /\ cont /\ waves # <<>> /\ Head(waves) = "bridge"
       /\ HandOff(bumped)

\* run_provider_step up to its terminal event.  The step is refused while a
\* call is pending, cancelled with its token, and may fail (all "Stopped");
\* otherwise it completes, records failed results for invalid bridge calls, or
\* leaves the calls the model asked for pending.
ModelStep ==
    /\ pc = "model" /\ pc' = "modelEnds"
    /\ \/ outcome' = "Stopped" /\ UNCHANGED <<pending, requested>>
       \/ /\ pending = <<>> /\ ~phaseCancelled
          /\ outcome' = "Completed" /\ UNCHANGED <<pending, requested>>
       \/ /\ pending = <<>> /\ ~phaseCancelled /\ requested < MaxBatches
          /\ requested' = requested + 1
          /\ \/ outcome' = "ToolResultRecorded" /\ UNCHANGED pending
             \/ outcome' = "Pending" /\ pending' \in Requests
    /\ out' \in Emit(out)
    /\ UNCHANGED <<queueVars, flagVars, hostVars, asked, continuing,
                   phaseCancelled, batch, commands, loopCancelled>>

\* run_final_output_tool: the output is recorded, or refused and asked for
\* again while retries are left.  settle_interrupted_tool_call answers the
\* call of an interrupted step.
FinalOutput ==
    /\ pending' = <<>>
    /\ \/ interrupted /\ ToBoundary(FALSE, Emit(out))
       \/ ~interrupted /\ \E retry \in BOOLEAN : ToBoundary(retry, Emit(out))
    /\ UNCHANGED moved

\* The end of the step's stream and handle_step_outcome.  A step whose calls
\* were recorded before its token was cancelled ends as Pending or, when the
\* cancellation came while their events were sent, as cancelled.
StepEnds ==
    /\ pc = "modelEnds"
    /\ \/ /\ outcome = "Pending" /\ pending = <<"final">>
          /\ FinalOutput
       \/ /\ outcome = "Pending" /\ pending # <<"final">> /\ ~interrupted
          /\ NextWave(pending, TRUE, {out}, FALSE) /\ UNCHANGED pending
       \/ /\ outcome = "Pending"
          /\ phaseCancelled \/ (interrupted /\ pending # <<"final">>)
          /\ ToBoundary(FALSE, {out}) /\ UNCHANGED <<pending, moved>>
       \/ /\ outcome # "Pending"
          /\ ToBoundary(outcome = "ToolResultRecorded" /\ ~interrupted, {out})
          /\ UNCHANGED <<pending, moved>>
    /\ subagent_continuation_requested' =
          (IF outcome = "Completed" THEN notices
           ELSE subagent_continuation_requested)
    /\ UNCHANGED <<queueVars, interrupted, suspended_resume_requested,
                   coordinator_continuation_requested, notices, held, unread,
                   hostOp, results, asked, boundVars, loopCancelled>>

\* The end of a runtime wave.  Results are recorded, the calls an error left
\* pending are settled as failed, and runtime_tool_continuation stops when the
\* run is interrupted or the plan waits for the user; a cancelled execution is
\* settled as interrupted.
ToolDone ==
    /\ pc = "tool"
    /\ pending' = Tail(pending)
    /\ \/ \E planWaits \in BOOLEAN :
             /\ NextWave(Tail(pending), ~interrupted /\ ~planWaits, Emit(out), FALSE)
             /\ UNCHANGED interrupted
       \/ /\ interrupted' = TRUE
          /\ ToBoundary(FALSE, Emit(out)) /\ UNCHANGED moved
    /\ UNCHANGED <<queueVars, suspended_resume_requested,
                   coordinator_continuation_requested,
                   subagent_continuation_requested, notices, held, unread,
                   hostOp, results, asked, boundVars, loopCancelled>>

MatchesAny(b) == TRUE
\* resolve_bridge_tool_outcomes: the batch id and the ids of the calls agree.
Matches(b) == b = batch

AnswerReleases(command, releases) ==
    /\ hostOp' = (IF command.live THEN "idle" ELSE hostOp)
    /\ held' = (IF command.live THEN 0 ELSE held)
\* The host's waiting submission is answered: Ok and a rejection release the
\* batch it holds, a retryable error does not.
Answer(command, releases) ==
    /\ hostOp' = (IF command.live THEN "idle" ELSE hostOp)
    /\ held' = (IF command.live /\ releases THEN 0 ELSE held)

\* The wait for the host is over without results.
ToSettle(reason) ==
    /\ pc' = "settling" /\ outcome' = reason /\ phaseCancelled' = FALSE
    /\ UNCHANGED <<continuing, pending, batch, moved, out>>

\* The result branch of run_bridge_tool_batch's select.
BridgeResult ==
    /\ pc = "bridge" /\ Sent /\ results # <<>> /\ results' = Tail(results)
    /\ LET command == Head(results) IN
       \/ /\ Matches(command.batch)
          /\ pending' = Tail(pending)
          /\ Answer(command, TRUE)
          /\ \E planWaits \in BOOLEAN :
                NextWave(Tail(pending), ~interrupted /\ ~planWaits, Emit(out), TRUE)
       \/ \* correctable: another batch's result, or the wrong set of calls
          /\ Answer(command, FALSE)
          /\ UNCHANGED <<phaseVars, moved, out>>
       \/ \* rejected: the host is told before the calls are settled
          /\ Matches(command.batch)
          /\ Answer(command, TRUE)
          /\ ToSettle("Rejected")
    /\ UNCHANGED <<queueVars, flagVars, unread, asked, boundVars, loopCancelled>>

\* The cancellation branch.
BridgeCancelled ==
    /\ pc = "bridge" /\ phaseCancelled
    /\ ToSettle("Cancelled")
    /\ UNCHANGED <<queueVars, flagVars, held, unread, hostOp, results, asked,
                   boundVars, loopCancelled>>

\* settle_bridge_tool_batch records a failure for each call of the wave and
\* sends its events.
Settle ==
    /\ pc = "settling" /\ pc' = "settled"
    /\ pending' = Tail(pending)
    /\ out' \in Emit(out)
    /\ UNCHANGED <<queueVars, flagVars, hostVars, outcome, continuing,
                   phaseCancelled, batch, asked, boundVars, loopCancelled>>

\* Once they are sent it moves the epoch; an interrupted wave ends its step.
SettleEnds ==
    /\ pc = "settled"
    /\ \/ /\ outcome = "Cancelled"
          /\ interrupted' = TRUE /\ moved' = TRUE
          /\ ToBoundary(FALSE, {out})
       \/ /\ outcome = "Rejected"
          /\ \E planWaits \in BOOLEAN :
                NextWave(pending, ~interrupted /\ ~planWaits, {out}, TRUE)
          /\ UNCHANGED interrupted
    /\ UNCHANGED <<queueVars, suspended_resume_requested,
                   coordinator_continuation_requested,
                   subagent_continuation_requested, notices, held, unread,
                   hostOp, results, pending, asked, boundVars, loopCancelled>>

\* boundary_action, after drain_ready_commands and the refresh of the
\* subagent request: what the producer does next, in this order.
Boundary ==
    LET subagent == subagent_continuation_requested \/ notices
        noNext == ~interrupted /\ ~subagent /\ lanes.Next = <<>>
        resumes == suspended_resume_requested /\ lanes.Suspended # <<>>
        noInput == noNext /\ ~resumes /\ lanes.Backlog = <<>>
    IN
    /\ pc = "boundary"
    /\ \/ /\ interrupted
          /\ BackToWaiting /\ out' \in Emit(out)
          /\ subagent_continuation_requested' = subagent
          /\ UNCHANGED <<queueVars, pending, batch, interrupted, notices,
                suspended_resume_requested, coordinator_continuation_requested>>
       \/ /\ ~interrupted /\ subagent
          /\ RunContinuation
          /\ subagent_continuation_requested' = FALSE
          /\ UNCHANGED <<queueVars, suspended_resume_requested,
                         coordinator_continuation_requested>>
       \/ /\ ~interrupted /\ ~subagent /\ lanes.Next # <<>>
          /\ AcceptBurst(lanes, item, "Next") /\ RunAccepted
          /\ UNCHANGED <<suspended_resume_requested, notices,
                coordinator_continuation_requested, subagent_continuation_requested>>
       \/ /\ noNext /\ resumes
          /\ AcceptBurst(lanes, item, "Suspended") /\ RunAccepted
          /\ suspended_resume_requested' = FALSE
          /\ UNCHANGED <<notices, coordinator_continuation_requested,
                         subagent_continuation_requested>>
       \/ /\ noNext /\ ~resumes /\ lanes.Backlog # <<>>
          /\ AcceptOne(lanes, item) /\ RunAccepted
          /\ suspended_resume_requested' = FALSE
          /\ UNCHANGED <<notices, coordinator_continuation_requested,
                         subagent_continuation_requested>>
       \/ /\ noInput /\ (continuing \/ coordinator_continuation_requested)
          /\ RunContinuation
          /\ coordinator_continuation_requested' = FALSE
          /\ suspended_resume_requested' = FALSE
          /\ UNCHANGED <<queueVars, subagent_continuation_requested>>
       \/ /\ noInput /\ ~continuing /\ ~coordinator_continuation_requested
          /\ BackToWaiting /\ out' \in Emit(out)
          /\ suspended_resume_requested' = FALSE
          /\ UNCHANGED <<queueVars, pending, batch, interrupted, notices,
                coordinator_continuation_requested, subagent_continuation_requested>>
    /\ UNCHANGED <<hostVars, asked, boundVars, loopCancelled>>

\* A model step is a task of its own and goes on while its events wait for room.
ProducerStep ==
    \/ ModelStep
    \/ Sent /\ (StepEnds \/ ToolDone \/ BridgeCancelled \/ Settle \/ SettleEnds
                \/ Boundary)

-----------------------------------------------------------------------------
(* handle_command.  In the Waiting mode a command that starts nothing ends   *)
(* the round of the producer's loop; in a Running mode it changes nothing    *)
(* but what it says.  No command is handled while a send waits for room.     *)

Selecting == pc \in Running \cup {"waiting"}
Command == commands < MaxCommands /\ commands' = commands + 1

Handled ==
    /\ \/ pc = "waiting" /\ BackToWaiting
       \/ pc \in Running /\ UNCHANGED <<pc, phaseCancelled, continuing, outcome>>
    /\ UNCHANGED <<pending, batch>>

\* push: the next id goes to the end of its lane.
IsNextId(i) == item[i].state = "New" /\ \A j \in 1 .. i - 1 : item[j].state # "New"
PushedLanes(lane, i) == [lanes EXCEPT ![lane] = Append(@, i)]
PushedItem(lane, i) == [item EXCEPT ![i] = [state |-> "Pending", lane |-> lane]]
Push(lane, i) == lanes' = PushedLanes(lane, i) /\ item' = PushedItem(lane, i)

SubmitNext(i) ==
    /\ IsNextId(i) /\ Command
    /\ \/ /\ pc = "waiting"
          /\ AcceptBurst(PushedLanes("Next", i), PushedItem("Next", i), "Next")
          /\ RunAccepted
       \/ /\ pc \in Running
          /\ Push("Next", i)
          /\ out' \in Emit(out) /\ UNCHANGED <<phaseVars, interrupted>>
    /\ UNCHANGED <<suspended_resume_requested, coordinator_continuation_requested,
                   subagent_continuation_requested, notices, hostVars,
                   asked, requested, loopCancelled>>

EnqueueOnly(i) ==
    /\ IsNextId(i) /\ Selecting /\ Command
    /\ Push("Backlog", i)
    /\ out' \in Emit(out) /\ UNCHANGED <<phaseVars, interrupted>>
    /\ UNCHANGED <<suspended_resume_requested, coordinator_continuation_requested,
                   subagent_continuation_requested, notices, hostVars,
                   asked, requested, loopCancelled>>
Enqueue(i) ==
    /\ IsNextId(i) /\ Command
    /\ \/ /\ pc = "waiting"
          /\ AcceptOne(PushedLanes("Backlog", i), PushedItem("Backlog", i))
          /\ RunAccepted
       \/ /\ pc \in Running
          /\ Push("Backlog", i)
          /\ out' \in Emit(out) /\ UNCHANGED <<phaseVars, interrupted>>
    /\ UNCHANGED <<suspended_resume_requested, coordinator_continuation_requested,
                   subagent_continuation_requested, notices, hostVars,
                   asked, requested, loopCancelled>>

Remove(i) ==
    /\ Selecting /\ RemoveItem(i) /\ Command
    /\ Handled /\ out' \in Emit(out)
    /\ UNCHANGED <<flagVars, hostVars, asked, requested, loopCancelled>>

\* Any permutation is a sequence of these; another order is refused.
ReplacePendingOrder(lane) ==
    /\ Selecting /\ Command
    /\ \E m, n \in DOMAIN lanes[lane] :
          m < n /\ ReplaceOrder(lane, [lanes[lane] EXCEPT ![m] = lanes[lane][n],
                                                          ![n] = lanes[lane][m]])
    /\ Handled /\ out' \in Emit(out)
    /\ UNCHANGED <<flagVars, hostVars, asked, requested, loopCancelled>>

ResumeSuspended ==
    /\ Selecting /\ asked' = (lanes.Suspended # <<>>)
    /\ \/ /\ pc = "waiting" /\ lanes.Suspended # <<>>
          /\ AcceptBurst(lanes, item, "Suspended") /\ RunAccepted
          /\ suspended_resume_requested' = FALSE
       \/ /\ pc = "waiting" /\ lanes.Suspended = <<>>
          /\ Handled /\ out' \in Emit(out)
          /\ suspended_resume_requested' = FALSE
          /\ UNCHANGED <<queueVars, interrupted>>
       \/ /\ pc \in Running /\ Handled
          /\ suspended_resume_requested' = TRUE
          /\ UNCHANGED <<queueVars, interrupted, out>>
    /\ UNCHANGED <<coordinator_continuation_requested,
                   subagent_continuation_requested, notices, hostVars,
                   boundVars, loopCancelled>>

DiscardSuspended ==
    /\ Selecting /\ (lanes.Suspended # <<>> \/ suspended_resume_requested)
    /\ suspended_resume_requested' = FALSE /\ asked' = FALSE
    /\ discard_suspended
    /\ out' \in (IF lanes.Suspended = <<>> THEN {out} ELSE Emit(out))
    /\ Handled
    /\ UNCHANGED <<interrupted, coordinator_continuation_requested,
                   subagent_continuation_requested, notices, hostVars,
                   boundVars, loopCancelled>>

InterruptKeepsResume ==
    /\ pc \in Running /\ Command
    /\ asked' = FALSE
    /\ interrupted' = TRUE
    /\ suspend_next
    /\ moved' = (moved \/ pc = "bridge")
    /\ phaseCancelled' = (pc # "boundary")
    /\ out' \in Emit(out)
    /\ UNCHANGED <<pc, outcome, continuing, pending, batch, held, unread, hostOp,
                   results, coordinator_continuation_requested,
                   subagent_continuation_requested, notices, requested,
                   suspended_resume_requested, loopCancelled>>
InterruptLetsPhaseRun ==
    /\ pc \in Running /\ Command
    /\ asked' = FALSE
    /\ interrupted' = TRUE /\ suspended_resume_requested' = FALSE
    /\ suspend_next
    /\ moved' = (moved \/ pc = "bridge")
    /\ out' \in Emit(out)
    /\ UNCHANGED <<pc, outcome, continuing, pending, batch, held, unread, hostOp,
                   results, coordinator_continuation_requested,
                   subagent_continuation_requested, notices, requested,
                   phaseCancelled, loopCancelled>>
\* Interrupt, and interrupt_running_phase; while the producer waits it is
\* answered and changes nothing.
Interrupt ==
    /\ pc \in Running /\ Command
    /\ asked' = FALSE
    /\ interrupted' = TRUE /\ suspended_resume_requested' = FALSE
    /\ suspend_next
    /\ moved' = (moved \/ pc = "bridge")
    /\ phaseCancelled' = (pc # "boundary")
    /\ out' \in Emit(out)
    /\ UNCHANGED <<pc, outcome, continuing, pending, batch, held, unread, hostOp,
                   results, coordinator_continuation_requested,
                   subagent_continuation_requested, notices, requested,
                   loopCancelled>>

\* Close: while the producer runs both tokens are cancelled, and its loop ends
\* at the next boundary that waits.
Close ==
    /\ pc = "waiting" \/ ~loopCancelled
    /\ Command
    /\ \/ /\ pc = "waiting" /\ pc' = "closed" /\ out' \in Emit(out)
          /\ UNCHANGED <<phaseCancelled, loopCancelled>>
       \/ /\ pc \in Running
          /\ loopCancelled' = TRUE /\ phaseCancelled' = (pc # "boundary")
          /\ UNCHANGED <<pc, out>>
    /\ UNCHANGED <<outcome, continuing, pending, batch, queueVars, flagVars,
                   hostVars, asked, requested>>

\* request_cancel of the stream, or the parent token: nothing but the tokens.
\* A producer that waits in its select does not watch the loop token; one that
\* is about to wait reads it when its state event is sent, and then ends.
RequestCancel ==
    /\ pc # "closed" /\ ~loopCancelled /\ Command
    /\ loopCancelled' = TRUE
    /\ phaseCancelled' = (pc \in Phases)
    /\ \/ (pc # "waiting" \/ Sent) /\ UNCHANGED <<pc, out>>
       \/ pc = "waiting" /\ ~Sent /\ pc' = "closed" /\ out' \in Emit(out)
    /\ UNCHANGED <<outcome, continuing, pending, batch, queueVars, flagVars,
                   hostVars, asked, requested>>

\* ApprovePlan is accepted only in the Waiting mode and starts a continuation
\* (run_coordinator_continuation).  The plan commands that start nothing are
\* left out.
ApprovePlan ==
    /\ pc = "waiting"
    /\ RunContinuation
    /\ coordinator_continuation_requested' = FALSE
    /\ UNCHANGED <<queueVars, suspended_resume_requested, hostVars, asked,
                   subagent_continuation_requested, boundVars, loopCancelled>>

\* forward_plan_event of an event that wakes the coordinator.
PlanEvent ==
    /\ Selecting /\ Command
    /\ \/ /\ pc = "waiting" /\ RunContinuation
          /\ coordinator_continuation_requested' = FALSE
       \/ /\ pc \in Running
          /\ coordinator_continuation_requested' = TRUE
          /\ out' \in Emit(out) /\ UNCHANGED <<phaseVars, interrupted, notices>>
    /\ UNCHANGED <<queueVars, suspended_resume_requested, hostVars, asked,
                   subagent_continuation_requested, requested,
                   loopCancelled>>

\* A child of the run ends: SubagentCompletion models the notifications.
SubagentCompletes ==
    /\ pc # "closed" /\ Command
    /\ ~notices /\ notices' = TRUE
    /\ UNCHANGED <<queueVars, interrupted, suspended_resume_requested, out,
                   coordinator_continuation_requested, phaseVars,
                   subagent_continuation_requested, hostVars, asked,
                   requested, loopCancelled>>

\* The notification branch of the producer's select.
NoticeWakes ==
    /\ pc = "waiting" /\ notices
    /\ RunContinuation
    /\ coordinator_continuation_requested' = FALSE
    /\ UNCHANGED <<queueVars, suspended_resume_requested, hostVars, asked,
                   subagent_continuation_requested, boundVars, loopCancelled>>

UserStep ==
    \/ /\ Sent
       /\ \/ \E i \in Inputs : SubmitNext(i) \/ Enqueue(i) \/ Remove(i)
          \/ \E lane \in Lanes : ReplacePendingOrder(lane)
          \/ ResumeSuspended \/ DiscardSuspended \/ Interrupt
          \/ Close \/ ApprovePlan \/ PlanEvent \/ NoticeWakes
    \/ RequestCancel \/ SubagentCompletes

-----------------------------------------------------------------------------
(* The host: InteractiveRunEventStream *)

\* The rest of receive_message, mark_pending_tool_invocations and the end of
\* next_event: a batch is held, or left unread by next_event.
Received(op, h, u) ==
    /\ out' = Tail(out) /\ hostOp' = "idle"
    /\ held' = (IF op = "message" /\ Head(out) # Event THEN Head(out) ELSE h)
    /\ unread' = (IF op = "event" /\ Head(out) # Event THEN Head(out) ELSE u)

\* next_message ("message") and next_event ("event"): a batch that has been
\* resolved is released, one that is held is an error, and one that next_event
\* left unread is returned, or left again.  A read that finds a message takes
\* it at once: nothing the producer does in between is told apart.
BeginRead(op) ==
    /\ hostOp = "idle" /\ (held = 0 \/ moved)
    /\ moved' = FALSE
    /\ \/ /\ unread = 0 \/ moved
          /\ \/ out # <<>> /\ Received(op, 0, 0)
             \/ out = <<>> /\ hostOp' = op /\ held' = 0 /\ unread' = 0 /\ UNCHANGED out
       \/ /\ unread # 0 /\ ~moved /\ op = "message"
          /\ held' = unread /\ unread' = 0 /\ UNCHANGED <<hostOp, out>>
    /\ UNCHANGED <<queueVars, flagVars, phaseVars, results, asked, boundVars,
                   loopCancelled>>

Receive ==
    /\ hostOp \in {"message", "event"} /\ out # <<>>
    /\ Received(hostOp, held, unread)
    /\ UNCHANGED <<queueVars, flagVars, phaseVars, moved, results, asked,
                   boundVars, loopCancelled>>

\* submit_tool_invocation_outcomes up to the answer.
Submit ==
    /\ hostOp = "idle" /\ held # 0 /\ Len(results) < MaxResults
    /\ results' = Append(results, [batch |-> held, live |-> TRUE])
    /\ hostOp' = "submitting"
    /\ UNCHANGED <<queueVars, flagVars, phaseVars, moved, held, unread, asked,
                   boundVars, loopCancelled, out>>

\* The host drops the future it waits for: a submission stays in the channel.
GiveUp ==
    /\ hostOp # "idle" /\ hostOp' = "idle"
    /\ results' = [n \in DOMAIN results |-> [results[n] EXCEPT !.live = FALSE]]
    /\ UNCHANGED <<queueVars, flagVars, phaseVars, moved, held, unread, asked,
                   boundVars, loopCancelled, out>>

HostStep ==
    /\ pc # "closed"
    /\ \/ \E op \in {"message", "event"} : BeginRead(op)
       \/ Receive \/ Submit \/ GiveUp

Next == ProducerStep \/ BridgeResult \/ UserStep \/ HostStep

\* The producer takes a step it can take: the provider's stream and the
\* executors end, its task is scheduled, and its select polls every branch that
\* is ready.  Nothing is assumed of the host.
Spec == Init /\ [][Next]_vars /\ WF_vars(ProducerStep) /\ WF_vars(BridgeResult)

-----------------------------------------------------------------------------
(* Properties *)

\* Every input that waits stands exactly once in the lane its item names, while
\* one that was accepted or removed stands in none (push, remove_from_lane,
\* suspend_next, mark_accepted).
QueueAgrees ==
    \A lane \in Lanes :
        /\ \A i \in Inputs : i \in Members(lanes[lane])
                             <=> item[i] = [state |-> "Pending", lane |-> lane]
        /\ \A m, n \in DOMAIN lanes[lane] : lanes[lane][m] = lanes[lane][n] => m = n

\* The variables have their types, the queue's lanes and items agree, and no
\* batch is in the output channel or at the host that was not handed off.
TypeOK ==
    /\ pc \in Busy \cup {"waiting", "closed"}
    /\ outcome \in {"none", "Completed", "Stopped", "ToolResultRecorded", "Pending",
                   "Rejected", "Cancelled"}
    /\ {continuing, interrupted, suspended_resume_requested, phaseCancelled,
        coordinator_continuation_requested, subagent_continuation_requested,
        loopCancelled, moved, notices, asked} \subseteq BOOLEAN
    /\ batch \in Nat
    /\ {held, unread} \cup Members(out) \subseteq 0 .. batch
    /\ QueueAgrees

\* An input that an interruption suspended is run only when the user has asked
\* for it since: a request to resume that was still waiting when the run was
\* interrupted does not count (interrupt_running_phase, boundary_action).
SuspendedStays ==
    [][\A i \in Inputs :
          item[i] = [state |-> "Pending", lane |-> "Suspended"]
            /\ item'[i].state = "Accepted" => asked']_vars

\* A run that waits for input without having been interrupted has nothing
\* left to run, whatever was sent while it was busy (boundary_action,
\* handle_command).
WaitingMeansDrained ==
    pc = "waiting" /\ ~interrupted => lanes.Next = <<>> /\ lanes.Backlog = <<>>

\* The batch the producer waits for is on its way to the host, or the host has
\* it and will not drop it at its next read (synchronize_bridge_resolution
\* drops what it holds when the epoch has moved).
HandoffNotLost ==
    pc = "bridge" /\ ~phaseCancelled =>
        \/ batch \in Members(out)
        \/ batch \in {held, unread} /\ ~moved

\* The answer that makes the host let its batch go comes from a producer that
\* waits for this very batch.  Ok means that the results are recorded; after a
\* rejection the calls are still pending, and the producer settles them before
\* it takes a command, runs another wave or hands one off
\* (resolve_bridge_tool_outcomes, submit_tool_invocation_outcomes).
OkMeansRecorded ==
    [][hostOp = "submitting" /\ held # 0 /\ held' = 0 =>
          /\ pc = "bridge" /\ batch = held
          /\ pending' = Tail(pending) \/ (pc' = "settling" /\ pending' = pending)]_vars

\* A busy run that is interrupted comes to wait for input, and one that is
\* closed or cancelled ends, whatever is queued and although the host may never
\* answer (interrupt_running_phase and Close cancel the phase that waits for it;
\* the loop of run ends with its token).  Only a host that makes no room in a
\* full output channel keeps it from that.
ComesToRest ==
    []<>Sent =>
        ((interrupted \/ loopCancelled) /\ pc \in Busy
            ~> pc = "closed" \/ (pc = "waiting" /\ ~loopCancelled))

\* What submit_tool_invocation_outcomes says of a batch whose calls the runtime
\* has already recorded as failed, here because the run was interrupted: the
\* rejection is returned to the host that submits its results, and the batch is
\* released.
LateResultsAnswered ==
    pc = "settled" /\ outcome = "Cancelled" /\ hostOp = "submitting" /\ held = batch
        ~> hostOp # "submitting" \/ pc = "closed" \/ ~Sent

\* What interrupt_settles_pending_interactive_bridge_calls and
\* new_input_after_interrupt_still_executes_runtime_tool_calls assert of a run
\* that waits for input: no call is pending, and the stream holds no batch that
\* would make next_message fail.
SettledWhenWaiting ==
    pc = "waiting" => pending = <<>> /\ (held # 0 => moved)
=============================================================================
