# A TLA+ model of Merry's runtime

Merry (`locez/merry`) is a Rust runtime for LLM agents: a library that drives model
turns and tool calls, delegates work to child agents, keeps a plan and a session on disk,
and is wrapped by a CLI, a TUI, Python bindings and a web page. This directory models the
parts of `crates/merry-runtime` (and the retry of `crates/merry-llm`) in which several
tasks act on shared state, checks them with TLC on small instances and proves
their safety properties with TLAPS for instances of any size. `PROJECT.json` holds the
runs, the map from definitions to source lines, the hazards and the theorems in
machine-readable form.

## The system

| Part | State | Operations | Modelled in |
|---|---|---|---|
| Child-agent scheduler (`subagent/{manager,scheduler,child}.rs`) | children, batches, slots, tokens, two policy atomics | spawn, cancel, policy update, start, end, failure | `SubagentScheduler` |
| Child completion (`subagent/{manager,child,tools}.rs`, `interactive/producer/lifecycle.rs`) | notification queue, two `Notify`s, acknowledgements, Plan links | claim, link update, enqueue, wake, wait, cancel, drain, sleep | `SubagentCompletion` |
| Plan commits and session store (`plan/controller/transactions/persistence.rs`, `session/*persistence.rs`, `session_store.rs`, `runtime/journal_persistence.rs`) | session, `state.json`, `plan-state.json`, event sequence, pending calls | PlanOnly and Tool commits, savepoints, crash, load | `PlanStore` |
| Plan controller and domain (`plan/`) | node tree, links, phase, review, attempts, leases, directives | begin, define, replace, scoped edits, approve, pause, revise, cancel, retry, bind, report, expire, restart | `PlanLifecycle` |
| Interactive session (`interactive/`) | prompt lanes, items, steering, epochs, the batch at the host | submit, edit, interrupt, resume, close, plan wake-ups, steps, waves, hand-off, answers | `InteractiveRun` |
| Agent loop (`agent_loop/`, `bridge.rs`) | the loop's locals, deferred input, turn budget, bridge hand-off | the streaming and the collecting loop, cancel, drop | `AgentLoop` |
| Model step, provider retry (`runtime/step.rs`, `runtime/provider_step*`, `merry-llm/src/retry.rs`) | turn, attempts, channel, what was shown | gate, prepare, begin, stream, retry, announce, fail, cancel | `ModelTurn` |
| Context reduction (`runtime/auto_compaction/`, `compaction/`, `checkpoint/`) | passes, refits, commit task, store and memory | plan, fit, generate, install, manual compaction | `ContextReduction` |
| Tool execution and review (`runtime/tool_{execution,batch}.rs`, `process_execution.rs`, `permission*`) | groups, stages of a call, open review, unpublished events | admit, propose, review by model or host, run, record, cancel | `ToolBatch` |
| Session turns (`session/{model_turns,transcript}.rs`, `session/tool_calls/`) | last turn, pending calls | begin, answer, abort, request, settle | `Conversation` (abstract), `AgentRunState` |
| MCP client, activity feed, event projection, artifacts, providers, process sandbox, workspace tools, CLI/TUI, web, bindings, evaluation | wire formats, command lines, rendering, records | – | not modelled, see below |

How they interact. A run takes the active-step permit and alternates model steps and tool
batches; an interactive session owns a queue of inputs and drives such steps itself. Before
a step the context may be reduced by another model call, whose result is installed in the
store and then in memory by a task that outlives the run. A tool call may be
`spawn_subagents`, which binds a Plan node for every child (a PlanOnly commit by the plan
actor) and hands the children to the scheduler; the end of a child frees its slot, updates
its Plan link (another PlanOnly commit) and queues a notification, which becomes input of
the parent's loop. The driver of the loop meanwhile records events into the same session
the plan actor changes, and saves it.

What is hard in it: the tasks share an async mutex and give it up at every await; the
thread limit is an atomic that is read outside the mutex; `Notify` stores one permit
whatever the number of completions; two files are written by two tasks and reconciled when
they are loaded; any tool call may be cancelled between its effect and its result; the host
may answer late, wrongly or never; a plan is edited, cancelled, reloaded and linked again
while children of its earlier shape are still at work.

## The modules

Every module follows one convention: *an action is what one task does between two
awaits*. Sections under the mutex never await, so they are atomic. In the plan controller
an action is one command of the actor, which works on a clone and installs it as a whole.

**`SubagentScheduler`** has the policy atomics (`enabled`, `maxThreads`), the children's
`status`, `batch` and task position `pc`, the batches' caps, the cancellation tokens and
the parent's call in progress. `SpawnBegin`, `SpawnBind`, `SpawnInsert` and `SpawnReturn` are the sections of
`SubagentManager::spawn`; `Cancel/CancelReturn` those of `cancel`; `PolicyStoreLimit`,
`PolicyStoreEnabled`, `PolicyReserve` the three separate stores of `update_policy`;
`Launch … Settle` the life of a child's task. `ReserveQueuedStarts` is
`reserve_queued_starts_locked`, the one place where slots are given out, and is used by four
callers. `LoopErrs` records the limit that `finish_child_with_status` reads *before* it
waits for the mutex; `ClaimErred` uses it after.
Abstractions: ids are numbers in allocation order, where the code walks a `BTreeMap` of
strings (the two agree up to nine children: `agent-10` comes before `agent-2`);
`SpawnInsert` reads the limit once and the code once per child; the starts one task has
reserved may run in any order, though the code runs them one after the other.

**`SubagentCompletion`** abstracts the slots (a child that was inserted starts at some
time) and keeps what follows: `Claim` (`apply_loop_result`), `UpdatePlanLink`,
`EnqueueCompletionNotification`, `NotifyWaiters`; the parent's `Cancel`, `CancelLink`; the
wait as `WaitBegin`, `WaitCheck`, `WaitSleep`, `WaitWake`, `WaitTimeout`,
`WaitAcknowledge`, `WaitReturn`, `WaitInterrupted`; the producer as `Prompted`,
`CompletionWakes`, `Boundary`, `TakeCompletionNotifications`. `told` and `dropped` are
history variables.

**`PlanStore`** has the session in memory (`mem`, `pending`, `planSeq`), the driver, the
plan actor and the two files. A file is a pair: what processes read and what a crash may
bring back (a rename is durable once the directory is synced; both files are in one
directory, so either task's sync covers both). A plan is its id, its revision, the number
of archived plans and the set of commands it reflects, which is what tells a lost change
from a kept one. `PreparePlanOnly, ReserveEvents, StageOverlay, RenameStaged, SyncStaged,
InstallPlanOnly` are the PlanOnly commit including its rewrite loop; `PrepareTool,
RefuseTool, StageBundle, RenameStaged, SyncStaged, InstallTool` the Tool commit;
`TakeSavepoint, RenameSavepoint, SyncSavepoint` a savepoint; `CrashAndResume` a crash at
any point, `load_from` and `abandon_unresumed_execution`.
Abstractions: a session without a store, artifacts and the validation of documents are
left out; a compaction and `save_session` write the same file as a savepoint and are not
told apart from it; `Builds` is chosen per batch, which covers both builds at once;
archived plans are counted and not named. The `StaleTransaction` answers of a PlanOnly
commit are in the model and never happen: the actor serves one command at a time and is
the only writer of the plan. A Tool commit goes stale when the run that sent it is dropped.

**`PlanLifecycle`** has the tree (`root, status, declared, parent, deps`), the gate
(`phase, sched, pending, envelope, caps, established`), the links with the set of
subagents still `running`, and `attempts, leases, directives`. `CoordinatorEdits` are
`BeginPlan`, `DefineNewPlan`, `DefinePlan`, `ReplaceSubtree`, `UseCurrentPlan`;
`SubagentEdits` the two scoped edits of a linked child; `UserControls` the approval,
authorization, pause, resume, revision, cancellation and retry; `LinkSteps` the binding and
the report of a subagent, and the report that is only logged; `AttemptSteps` the attempt
API; `InterruptExpiredLeases` and `Restart` the recovery. Every action ends, where the code
does, with `RefreshParentStates` (at most two passes change anything in a tree three levels
deep), `RefreshTerminalPhase` and `SettleDraining`.
Abstractions: revisions are not counted (an author with a stale revision is refused),
binding ids are; new nodes of one edit hang below one node, chained by dependencies or not;
of the capabilities only whether the envelope covers them; time is a choice of which leases
have run out. Attempts and links are exclusive in the model as they are in use (`LinkDomain`,
`AttemptDomain`): no production caller starts attempts today, and every node of a plan is
executed one way or the other.

**`InteractiveRun`** is the producer task (`pc`), the queue (`lanes`, `item`), the flags
that decide at a boundary, the model's `pending` waves, the output channel (`out`), the
bridge result channel (`results`), and the host (`hostOp, held, unread, moved`). The
producer handles commands only where it selects on them, so a command is one action, taken
in waiting or in running mode. The output channel is bounded (16 messages in the code). A step
of the producer puts its messages behind those that are there. Adjacent events are one
`Event`, and how many a step sends is not modelled, so any step that sends events may find the
channel full (`Emit`): an `Event` behind an `Event` stands for those that wait for room. Until
the host has read on (`Sent`) the producer is in its `send` and takes no further step, handles
no command and receives no result, while a model step, which is a task of its own, goes on,
and so does whoever cancels the token. A wave that is not answered is settled in three steps as in the code: the
host is told (`BridgeResult`) or the wait is cancelled (`BridgeCancelled`), `Settle` records
the failures and sends their events, `SettleEnds` moves the epoch.
Abstractions: the calls of one wave are one unit, and so are adjacent events in the output
channel; the two epoch counters are reduced to whether they differ.

**`AgentLoop`** composes four modules over the state in `AgentRunState` (place, token, last
turn, its batch, pending calls): `ModelTurn` the step from the gate to the announcement of
calls, with the retry task behind a bounded channel; `ContextReduction` the passes before
it and the install; `ToolBatch` the execution of the runtime's own calls; and the loop
itself in both forms, `run_agent_loop` and `run_agent_loop_stream_producer`. **`Conversation`**
is what the session promises whoever drives it; `ImplementsConversation` states that the
composition implements it, with the session's turn status and pending calls as the mapping.
Abstractions: token counts are small numbers and a reply of the compacting model is a choice;
which tool takes which path is the kind of its call; whether a grant covers a request is a
choice. The channel of run events is taken to have a reader: with sixteen unread events
`settle_cancelled` waits for the host, and `cancel_and_wait` drains for that reason. The
guard that aborts a dropped turn does so at once, where the code spawns a task if the
session is locked.

`MCScheduler`, `MCCompletion`, `MCPlanStore`, `MCPlan`, `MCInteractive` and `MCAgentLoop`
are the modules TLC runs. Operators marked "Mutant of" are faulty variants of the definition
that follows; no specification uses them, they are there to show that each property can fail.

The proofs are in eight modules of their own (`…Proofs`); `PlanLifecycleInvariants` holds
the inductive invariants that the two proof modules of the plan share.

## What the runs check

| Run | Bounds | Result |
|---|---|---|
| `scheduler` | 3 children in 2 batches of up to 2, caps 0 and 1, limits 1 and 2, one policy update, one cancellation | `BatchBounded`, `SlotHasTask`, `SlotsHandedOn`, `StartsWithinLimit`, `TerminalIsFinal`, `QueuedChildStarts` hold |
| `completion` | 2 children, 2 calls of the parent | `LinkMatchesStatus`, `LinkReleased`, `NoticeUnlessAcknowledged`, `CompletionAccountedFor`, `SleepIsWoken`, `WaitReturns`, `NoticeIsTaken` hold |
| `plan_store_safety` | 3 commands, one event or batch of the driver, one failed write or crash, an archive of 1 plan | `EventIdentity`, `DurableBeforeAck`, `RecentSavepointRecovers`, `FrontierAgrees` hold |
| `plan` | 3 nodes, 2 edits (1 with attempts), 2 links, 2 attempts, 1 directive, one plan, two executors that may be exchanged | `NoOrphanedWork`, `LeaseFollowsAttempt`, `NoStaleDirective`, `ReviewBoundary`, `CompletionEarned`, `LastAttemptSettles` hold (249 000 states) |
| `interactive` | 2 inputs, 3 commands, 2 batches, 1 place for results | `WaitingMeansDrained`, `HandoffNotLost`, `OkMeansRecorded`, `SuspendedStays`, `ComesToRest` hold (964 000 states) |
| `agent_loop` | 2 turns, 1 retry of the final output, 1 notification, batches of up to 3 calls, 2 in parallel, 3 attempts over a channel of 2, contexts of up to 3 with 3 passes | `RecordedIsPublished`, `TurnBudget`, `CheckpointAgrees`, `ImplementsConversation`, `OneAttemptShown`, `EffectAuthorized`, `CancelledRunEnds` hold (379 000 states) |
| `plan_store_lost` | 2 commands, no fault | `AcknowledgedSurvives` fails |
| `plan_store_batch` | a release build, 2 commands | `BatchedUpdateAccepted` fails |
| `plan_alias` | two plans, 2 links | `OwnReportOnly` fails |
| `interactive_stranded` | 1 input, 2 commands | `SettledWhenWaiting` fails |
| `interactive_unanswered` | 1 input, 2 commands, 1 batch | `LateResultsAnswered` fails |
| `turn_limit` | 1 turn, 1 notification | `TurnsWithinLimit` fails |

`TypeOK` is checked beside them in the first five. `QueueAgrees`, the part of the
interactive `TypeOK` that says something, relates the queue's lanes to its items.

Why the bounds suffice: three children are one that runs, one that is queued in the same
batch and one in another batch; two calls of the parent let a wait follow or overlap a
cancel; three commands are two that race a savepoint and one that follows. Three nodes are
a root with two children, or a chain, which is as deep as a refresh of the parents in the
model looks; two links or attempts are one that is replaced and the one that replaces it.
Two inputs are one in a lane and one that overtakes it, two batches an answer that is late
for the first. The model asks for a runtime call with a bridge call after it, so that a batch
that is interrupted leaves nothing pending and the next one can be asked for (the run passes
with the other order as well, in 1.8 million states). Neither counterexample of the failing
runs comes from a full channel. In the agent loop the budget of two turns is reached with and without a
notification, a batch of three holds a parallel pair and an exclusive call, and a channel
of two is full. Where a bound limits the data the properties are about, the theorems below
lift it. `MaxTerminals` is 8 in the code and 1 in the runs, so that the archive is full.
Deadlock is checked for the completion protocol and the agent loop; the other systems may
stop, at the end of their ids, commands or edits, or in a run that was closed.

## Observed disagreements

The failing runs state what a comment, a schema or a test of the repository says:

1. **Acknowledged plan changes lost on restart** (`plan_persistence.rs:142`). The overlay names
   the version it was made from; after two commits since the last savepoint that is not
   the version in `state.json`, and the overlay is ignored. No race is needed: the property
   speaks of states in which nothing is being written, and a savepoint followed by two
   answered commits violates it. The tests that load a committed overlay have no `state.json`.
   `RecentSavepointRecovers` states the part that does hold.
2. **A side effect in `debug_assert!`** (`runtime/state.rs:64`). In a release build the batch
   flag is never set, and `update_plan` in a batch with another tool is refused.
   `AssertionsAcceptBatches` proves that in a build with assertions it never is.
3. **A report recorded for another subagent** (`transactions/subagents.rs:210`). Binding ids
   are revisions, which start again with every plan; a subagent of a cancelled plan goes on
   and its end closes the link the next plan made at the same revision. Within one plan
   a report ends only its own link, which `PlanHearsItsOwn` proves.
4. **Calls stranded by an interrupt** (`interactive/producer/model.rs:136`). Calls recorded as
   pending before the step's stream ends are not settled when the interruption comes in
   between, and from then on every step of the session is refused.
5. **Results that nobody takes** (`interactive/producer/tools.rs:526`). An interruption settles
   the batch the host works on. The host, told to submit before it reads on, submits, and
   waits until another batch is handed off or the run ends: results are received only
   where a batch waits for them. The comment of `submit_tool_invocation_outcomes` promises the
   rejection.
6. **More turns than `max_model_turns`** (`agent_loop/driver.rs:136`). The branch that takes up
   the deferred input does not look at the budget. `TurnBudget` and `RunKeepsTurnBudget` say
   how far it goes: one turn for each time the input was put off.

Others were met while modelling and have no run of their own:

- A queued child left behind (`child.rs:550`): the thread limit is an argument evaluated before
  the mutex is awaited; a policy update in between raises it and finds no free slot, and the
  failing child then promotes by the old one, although the tests of
  `manager_tests/{policy,scheduler}.rs` have a queued child promoted in either case. `LoopErrs`
  and `ClaimErred` model it, and `SlotsHandedOn` and `QueuedChildStarts` speak of runs without
  a policy update for that reason.
- An acknowledged completion lost (`manager.rs:349`): a wait acknowledges, is interrupted,
  and the completion is in neither the result nor the queue, although `tools/schema.rs:27`
  promises that it "is delivered to the parent as a runtime update on the next model turn".
  `dropped` in `CompletionAccountedFor` is that case, and the only one.
- `max_concurrency` 0 is documented as "queues all tasks until capacity is available"
  (`subagent/protocol.rs:22`) and never lets a child start (`manager.rs:485`;
  `QueuedChildStarts` excepts it). A spawn call that accepts one task returns an empty list
  of rejections, whatever it refused (`manager.rs:553`).
- A plan: a child that completes while the plan is paused or being revised closes the root,
  and neither resuming nor approving looks at the phase again (`control.rs:128`); a crash
  while a plan drains leaves it executing and draining (`recovery.rs:108`); a plan that was
  begun and cancelled before it was defined is archived without a root, which
  `from_persisted` refuses (`domain.rs:230`); a resume advances the revision in memory only
  (`recovery.rs:103`), so the next overlay is based on a version that no file holds.
- The agent loop: a user's input deferred by a notification is dropped when the run has its
  final output or a contract; a notification is lost when it was taken and the budget is
  spent; a failure that races a cancellation ends as
  `StepEndedWithoutTerminalEvent`.
- The interactive session: a rejection of submitted results is sent to the host before the
  calls are recorded as failed (`tools.rs:552`), where `handles.rs:249` speaks of calls that
  have "already" been recorded, so a host may read the session in between (`OkMeansRecorded`
  states what holds: they are settled next); a host that holds a batch cannot read, so
  once the output channel is full the producer cannot take the results the host waits to see
  taken, nor the user's interrupt, and both wait for ever (`ComesToRest` excepts it: it
  assumes `[]<>Sent`); `request_cancel` is not noticed by a run that waits
  (`lifecycle.rs:25`), though `handles.rs:294` tells callers to wait for the close; inputs
  submitted after an interrupt, while the phase is still ending, stay queued until the next
  boundary; a close while inputs are queued announces them as accepted and cancels each.

## Fairness

Weak fairness is assumed of what has been begun, never of users, hosts, providers, timeouts
or interrupts: `Underway` of the scheduler (calls, policy updates and children's tasks);
`ProducerStep`, `CallStep` and the task of each child that has started (`TaskStep`) of the
completion protocol; `ProducerStep` and `BridgeResult` of the interactive run; `System` of the agent loop, its tasks' own steps. Tokio polls every
task that can make progress, no section holds the mutex across an await, and a child's loop
is bounded by `max_model_turns`. Two assumptions are about `select!`, which draws at random
among the branches that are ready: `CompletionWakes` is strongly fair, so a stored permit
does not lose to the user's input for ever; `CancelBridge` is weakly fair, so a cancelled
run does not take wrong answers of its host for ever. In the interactive run neither a
command nor the cancellation keeps a result from being taken. Nothing is assumed of the *start*
of a child: a queued one may never get a slot, in a batch with `max_concurrency` 0 or behind
children that do not end. `WaitReturns` therefore speaks of waits whose children have begun
(one of them for *any*, all of them for *all*: `WaitServed`; a wait for any of a set of
children the manager does not know never returns), and `NoticeIsTaken` excepts a parent that
stays in a wait that is not served. `PlanStore` has no liveness property, as the rewrite loop of a PlanOnly commit
ends only if the driver stops recording; nor has `PlanLifecycle`, in which every step is
somebody's choice.

## What is proved

For all values of the constants that satisfy the modules' assumptions. Those say that bounds
are natural numbers (that of turns, attempts, places of the channel and parallel calls at
least one), that the sets of caps, kinds, modes and statuses are sets of these, that no batch
is longer than `MaxBatch`, that the hard limit of a context is not above the largest, and
that the mark for a missing file is not a document. Every safety invariant and every action
property of the passing runs is a theorem:

| Module | Theorem | States |
|---|---|---|
| `SubagentSchedulerProofs` | `TypeCorrect`, `BatchCap`, `NoLeakedSlot`, `EverySlotIsHandedOn`, `TerminalForever`, `ThreadLimit` | `TypeOK`, `BatchBounded`, `SlotHasTask`, `SlotsHandedOn`, `TerminalIsFinal`, `StartsWithinLimit` |
| `SubagentCompletionProofs` | `TypeCorrect`, `NoDuplicateNotice`, `NoForgottenCompletion`, `LinkAgreement`, `OneLinkReporter`, `NoLostWakeup` | `TypeOK`, `NoticeUnlessAcknowledged`, `CompletionAccountedFor`, `LinkMatchesStatus`, `LinkReleased`, `SleepIsWoken` |
| `PlanStoreProofs` | `TypeCorrect`, `UniqueEvents`, `Durability`, `RestartRecovers`, `FrontiersAgree` | `TypeOK`, `EventIdentity`, `DurableBeforeAck`, `RecentSavepointRecovers`, `FrontierAgrees` |
| `PlanLifecycleProofs` (with `PlanCompletionProofs`) | `TypeCorrect`, `EveryNodeHasItsWorker`, `LeasesFollow`, `DirectivesEndWithAttempts`, `ReviewGatesExecution`, `RootIsClosedByWork`, `DrainingSettles` | `TypeOK`, `NoOrphanedWork`, `LeaseFollowsAttempt`, `NoStaleDirective`, `ReviewBoundary`, `CompletionEarned`, `LastAttemptSettles` |
| `InteractiveRunProofs` | `TypeCorrect`, `QueueKeepsEveryInput`, `WaitingIsDrained`, `HandoffIsNeverLost`, `OkIsForThisBatch`, `SuspendedRunsOnRequest` | `TypeOK`, `QueueAgrees`, `WaitingMeansDrained`, `HandoffNotLost`, `OkMeansRecorded`, `SuspendedStays` |
| `AgentLoopProofs` | `LoopImplementsConversation`, `StoreNeverOvertaken`, `RunKeepsTurnBudget` | `ImplementsConversation`, `CheckpointAgrees`, `TurnBudget` |
| `TurnAndToolProofs` | `StepShowsOneAttempt`, `ResultsArePublished`, `EffectsAreAuthorized` | `OneAttemptShown`, `RecordedIsPublished`, `EffectAuthorized` |

Three more theorems say how far a failing run reaches; their statements are in the proof
modules. `PlanHearsItsOwn`: a report ends the link of its own subagent or one of a later
plan. `ScopeIsRevoked`: a subagent may edit the plan only while its own link is active and
not replaced. `AssertionsAcceptBatches`: `BatchedUpdateAccepted` holds where `Builds` has no
build without assertions.

Hardly any of the properties is inductive alone. The invariants that are:

- *Scheduler*: ids beyond the last one are unused (`IdInv`); while a spawn call binds, its
  children are in a batch nobody else is in (`BindInv`), so the new cap is compared with no
  running child; a child a task works on runs or was cancelled meanwhile (`TaskInv`). The
  arithmetic of a reservation is in lemmas about `Selects`: it stays within the batch
  (`SelectsBatch`) and within the limit (`SelectsThreads`), and it is maximal
  (`SelectsLeavesNone`). `HandInv` is what `SlotsHandedOn` needs: until the first policy
  update the limit a failed child has read is the one in force.
- *Completion*: where a child is in its task determines what may be in the queue
  (`QueueInv`), an acknowledgement travels with the result that carries it (`AckInv`), and
  the permit outlives every turn (`PermitInv`): it is consumed only on the way to a drain.
- *Store*: while a command is served the plan in memory is its base (`CommandInv`); as
  long as the sequence has not moved, a Tool command's call is pending and its driver is
  waiting or has just been dropped (`ToolInv`), which is why comparing the sequence
  suffices to notice that the call was given up; reserved numbers are below the next one
  and unpublished (`EventInv`); and either every version of `state.json` that is or may
  become current holds what was acknowledged, or every version of the overlay does
  (`DurableInv`), including the snapshot a savepoint is about to write. `BatchFlag` has the
  batch flag set while more than one call is pending and none has failed. For the restart,
  `ChainInv`: until the first crash the plans that were ever installed form a chain, in
  which versions are never repeated, and every document in a file that no failed command
  left there is a member of it or the candidate being written. Whatever a crash leaves of
  the two files, `LoadFrom` then finds a member at least as late as the acknowledged ones if
  the savepoint is recent. `SeqInv` adds how far the sequence of such a document may be
  ahead of the session's, which is what the rewrite loop closes.
- *Plan*: `AttemptInv` ties leases and directives to attempts. `WorkInv` adds that a node in
  progress has its worker or was declared so, over every edit that moves, supersedes or
  rebuilds nodes. `MannedInv` is the converse, with the structure it needs: nodes are below
  the next id and declared, links and attempts are of nodes that exist, whoever is live works
  on a node in progress, one at a time, and attempts and links are not mixed. Two of its steps
  rest on code one would not expect: that an edit does not omit a linked node follows from
  `validate_graph` of the *result*, not from the checks before it, and that a restart
  does not block a completed node follows from the converse itself. `BindingInv` says that
  no two links of one plan have the same binding id, as the revision has moved since the last.
- *Interactive run*: `ChannelInv` follows a batch from the hand-off through the output
  channel to the host, `AnswerInv` an answer back: at most one in the channel is still awaited,
  and it is for the batch the host holds. `QueueInv` has lanes and items agree, and a request to resume
  older than the last interruption cleared.
- *Agent loop*: `SessionInv` says that a turn is open exactly while the step streams and
  that no call is open from the gate to the turn, `CommitInv` when a commit task exists and that the store is ahead only between its
  two halves; every action is then a step of `Conversation` or a stutter. `BudgetInv` counts
  the turn that an input that was put off still owes. `AttemptInv` is
  about the order of the channel: what an attempt sent comes before what a later one sends,
  and the reset of a given-up rate behind it. `CallsInv` says that an execution in progress
  belongs to the first group of what is left of the batch.

## Only model-checked

- The liveness properties `QueuedChildStarts`, `WaitReturns`, `NoticeIsTaken`,
  `ComesToRest` and `CancelledRunEnds`: they rest on fairness, and `ENABLED` is out of the
  prover's reach.
- The properties of the failing runs, which do not hold in general.
- Deadlock freedom of the completion protocol and of the agent loop.

The theorems are about the models: the bounds on counters are constants with any value,
the abstractions listed with the modules remain.

## Not modelled

The MCP client (connection states and a cooldown behind one mutex; from here a tool that
succeeds, fails or is cancelled); the children's activity feed, which may drop; the
projection of the journal; artifacts, ledger and memory, which are written with the state
they belong to; schema validation of the final output; skills, prompts and profiles; the
export of trajectories; shell classification, the process runner and its sandbox, workspace
tools, the providers' wire formats, the CLI and TUI, the web page, the bindings and the
evaluation records. They are I/O, text and rendering, in which nothing runs concurrently on
state that the modelled parts share. Two hazards in modelled code have no property: a
commit that was renamed and then answered with an error stays in its file
(`session_store.rs:163`), and `request_cancel` of a run that waits (above).
