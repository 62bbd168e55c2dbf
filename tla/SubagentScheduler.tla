------------------------- MODULE SubagentScheduler -------------------------
(***************************************************************************)
(* Who may run: the slots of the child agents of merry-runtime             *)
(* (subagent/manager.rs, scheduler.rs and child.rs).  The parent makes one *)
(* tool call at a time (spawn_subagents or cancel_subagents), every child  *)
(* has a task of its own, and the interactive producer may change the      *)
(* policy while both run.  They share the children's states behind one     *)
(* async mutex and two atomics, enabled and max_threads.  An action is     *)
(* what one task does between two awaits; the sections under the mutex are *)
(* atomic because none of them awaits while it holds the mutex.            *)
(*                                                                         *)
(* What a child reports once it has given its slot back, and how the       *)
(* parent learns of it, is the subject of SubagentCompletion.  A status    *)
(* "Ended" stands for Completed, Failed and Blocked alike.                 *)
(***************************************************************************)
EXTENDS Integers, FiniteSets

CONSTANTS
    NumAgents,        \* bound: children that are ever accepted
    NumBatches,       \* bound: spawn calls that reach the id allocation
    MaxTasks,         \* bound: tasks of one spawn call
    Caps,             \* max_concurrency values of spawn calls
    ThreadLimits,     \* max_threads values of the configurations
    MaxPolicyUpdates, \* bound: calls of update_policy
    MaxCancels        \* bound: cancel calls and cancelled runs

ASSUME ConstantsAssumption ==
    /\ NumAgents \in Nat /\ NumBatches \in Nat /\ MaxTasks \in Nat
    /\ MaxPolicyUpdates \in Nat /\ MaxCancels \in Nat
    /\ Caps \subseteq Nat /\ ThreadLimits \subseteq Nat

Agents   == 1..NumAgents
BatchIds == 0..NumBatches   \* 0: no batch yet

VARIABLES
    enabled, maxThreads,  \* the policy atomics
    policy, updates,      \* update_policy in progress, and how many were begun
    nextId, nextBatch,    \* the last ids handed out
    status,               \* agents[a].status; "Absent" before the insertion
    batch, batchMax,      \* agents[a].batch_id and batches[b].max_concurrency
    own, batchToken,      \* is a's own token, its spawn call's token, cancelled?
    cancels,              \* how many cancellations were begun
    pc, want, limit,      \* the task that starts, runs and settles a
    owner,                \* who reserved a's start
    call, sel,            \* the parent's call and the children it deals with
    left                  \* the tasks of a spawn call still to be bound

policyVars == <<enabled, maxThreads, policy, updates>>
idVars     == <<nextId, nextBatch, batch, batchMax>>
tokenVars  == <<own, batchToken, cancels>>
callVars   == <<call, sel, left>>
startVars  == <<status, pc, owner>>
taskVars   == <<startVars, want, limit>>
vars == <<policyVars, idVars, tokenVars, callVars, taskVars>>

----------------------------------------------------------------------------
Terminal == {"Ended", "Cancelled"}

\* owner[a] is the child whose settlement reserved a's start, or a caller.
BySpawn  == 0
ByCancel == -1
ByPolicy == -2

TypeOK ==
    /\ enabled \in BOOLEAN /\ maxThreads \in ThreadLimits
    /\ policy \in {"idle", "enable", "disable", "reserve"}
    /\ updates \in 0..MaxPolicyUpdates
    /\ nextId \in 0..NumAgents /\ nextBatch \in BatchIds
    /\ status \in [Agents -> {"Absent", "Queued", "Running"} \cup Terminal]
    /\ batch \in [Agents -> BatchIds] /\ batchMax \in [BatchIds -> Nat]
    /\ own \in [Agents -> BOOLEAN] /\ batchToken \in [BatchIds -> BOOLEAN]
    /\ cancels \in 0..MaxCancels
    /\ pc \in [Agents -> {"none", "reserved", "refused", "looping", "ended",
                          "erred", "settling", "done"}]
    /\ want \in [Agents -> Terminal] /\ limit \in [Agents -> Nat]
    /\ owner \in [Agents -> Agents \cup {BySpawn, ByCancel, ByPolicy}]
    /\ call \in {"idle", "bind", "launch", "cancel"} /\ sel \in SUBSET Agents
    /\ left \in Nat

Init ==
    /\ enabled \in BOOLEAN /\ maxThreads \in ThreadLimits
    /\ policy = "idle" /\ updates = 0
    /\ nextId = 0 /\ nextBatch = 0
    /\ status = [a \in Agents |-> "Absent"]
    /\ batch = [a \in Agents |-> 0] /\ batchMax = [b \in BatchIds |-> 0]
    /\ own = [a \in Agents |-> FALSE] /\ batchToken = [b \in BatchIds |-> FALSE]
    /\ cancels = 0
    /\ pc = [a \in Agents |-> "none"]
    /\ want = [a \in Agents |-> "Ended"] /\ limit = [a \in Agents |-> 0]
    /\ owner = [a \in Agents |-> BySpawn]
    /\ call = "idle" /\ sel = {} /\ left = 0

----------------------------------------------------------------------------
EffectiveMaxThreads == IF enabled THEN maxThreads ELSE 0

Token(a) == own[a] \/ batchToken[batch[a]]

InStatus(s) == {a \in Agents : status[a] = s}
InBatch(S, b) == {a \in S : batch[a] = b}
Below(S, a) == {r \in S : r < a}

\* Mutants of Selects: a batch may overrun its cap by one, and the children that
\* already run are not deducted from the threads.
SelectsOverCap(R, cands, running, max, caps) ==
    LET available == IF max > Cardinality(running) THEN max - Cardinality(running) ELSE 0
    IN  /\ Cardinality(R) <= available
        /\ \A a \in R : Cardinality(InBatch(running \cup R, batch[a])) <= caps[batch[a]] + 1
SelectsAllThreads(R, cands, running, max, caps) ==
    /\ Cardinality(R) <= max
    /\ \A a \in R : Cardinality(InBatch(running \cup R, batch[a])) <= caps[batch[a]]

(***************************************************************************)
(* R is what a pass over cands in id order selects when running children   *)
(* already hold a slot: it stops when max threads are in use and skips a   *)
(* candidate whose batch is full.                                          *)
(***************************************************************************)
Selects(R, cands, running, max, caps) ==
    LET available == IF max > Cardinality(running) THEN max - Cardinality(running) ELSE 0
        Used(S, b) == Cardinality(InBatch(running, b)) + Cardinality(InBatch(S, b))
    IN  /\ Cardinality(R) <= available
        /\ \A a \in R : Used(R, batch[a]) <= caps[batch[a]]
        /\ \A a \in cands \ R : \/ Cardinality(Below(R, a)) >= available
                                \/ Used(Below(R, a), batch[a]) >= caps[batch[a]]

\* reserve_queued_starts_locked, called by "by" after the children of "gone"
\* became final; "by", when it is a child, goes on at step next.
ReserveQueuedStarts(gone, final, max, by, next) ==
    LET queued == InStatus("Queued") \ gone
    IN  \E R \in SUBSET queued :
          /\ Selects(R, queued, InStatus("Running") \ gone, max, batchMax)
          /\ status' = [a \in Agents |-> IF a \in R THEN "Running"
                                         ELSE IF a \in gone THEN final ELSE status[a]]
          /\ pc' = [a \in Agents |-> IF a \in R THEN "reserved"
                                     ELSE IF a = by THEN next ELSE pc[a]]
          /\ owner' = [a \in Agents |-> IF a \in R THEN by ELSE owner[a]]

----------------------------------------------------------------------------
(* update_policy: two stores, then a reservation under the mutex. *)

PolicyStoreLimit(on, max) ==
    /\ policy = "idle" /\ updates < MaxPolicyUpdates
    /\ maxThreads' = max
    /\ policy' = IF on THEN "enable" ELSE "disable"
    /\ updates' = updates + 1
    /\ UNCHANGED <<enabled, idVars, tokenVars, callVars, taskVars>>

PolicyStoreEnabled ==
    /\ policy \in {"enable", "disable"}
    /\ enabled' = (policy = "enable")
    /\ policy' = IF policy = "enable" THEN "reserve" ELSE "idle"
    /\ UNCHANGED <<maxThreads, updates, idVars, tokenVars, callVars, taskVars>>

PolicyReserve ==
    /\ policy = "reserve"
    /\ ReserveQueuedStarts({}, "Ended", EffectiveMaxThreads, ByPolicy, "none")
    /\ policy' = "idle"
    /\ UNCHANGED <<enabled, maxThreads, updates, idVars, tokenVars, callVars, want, limit>>

----------------------------------------------------------------------------
(* spawn *)

\* A call that the policy check, or a write-scope conflict of two tasks, rejects as
\* a whole changes nothing.  Ids come with the acceptance of each task.
SpawnBegin(n) ==
    /\ call = "idle" /\ enabled
    /\ nextBatch < NumBatches /\ nextId + n <= NumAgents
    /\ call' = "bind" /\ sel' = {} /\ left' = n
    /\ nextBatch' = nextBatch + 1
    /\ UNCHANGED <<policyVars, nextId, batch, batchMax, tokenVars, taskVars>>

\* Mutant of SpawnBind: the batch id is one ahead of the batch.
SpawnBindNextBatch(outcome) ==
    LET a == nextId + 1
    IN  /\ call = "bind" /\ left > 0 /\ outcome = "accepted"
        /\ left' = left - 1 /\ nextId' = a /\ sel' = sel \cup {a}
        /\ batch' = [batch EXCEPT ![a] = nextBatch + 1]
        /\ UNCHANGED <<policyVars, nextBatch, batchMax, tokenVars, call, taskVars>>

\* A task is accepted; or refused for its turn budget or for asking for more than
\* the parent has; or left unbound by bind_subagent, which uses up an id.
SpawnBind(outcome) ==
    LET a == nextId + 1
    IN  /\ call = "bind" /\ left > 0
        /\ left' = left - 1
        /\ nextId' = IF outcome = "refused" THEN nextId ELSE a
        /\ IF outcome = "accepted"
             THEN /\ sel' = sel \cup {a}
                  /\ batch' = [batch EXCEPT ![a] = nextBatch]
             ELSE UNCHANGED <<sel, batch>>
        /\ UNCHANGED <<policyVars, nextBatch, batchMax, tokenVars, call, taskVars>>

\* The accepted children enter the state; the first of them get a slot at once.
SpawnInsert(cap) ==
    /\ call = "bind" /\ left = 0
    /\ call' = "launch"
    /\ IF sel = {}
         THEN UNCHANGED <<startVars, batchMax>>
         ELSE /\ batchMax' = [batchMax EXCEPT ![nextBatch] =
                                IF cap < Cardinality(sel) THEN cap ELSE Cardinality(sel)]
              /\ \E R \in SUBSET sel :
                   /\ Selects(R, sel, InStatus("Running"), EffectiveMaxThreads, batchMax')
                   /\ status' = [a \in Agents |-> IF a \in R THEN "Running"
                                                  ELSE IF a \in sel THEN "Queued" ELSE status[a]]
                   /\ pc' = [a \in Agents |-> IF a \in R THEN "reserved" ELSE pc[a]]
                   /\ owner' = [a \in Agents |-> IF a \in R THEN BySpawn ELSE owner[a]]
    /\ UNCHANGED <<policyVars, nextId, nextBatch, batch, tokenVars, sel, left, want, limit>>

\* The call returns once start_child has dealt with every child it started.
SpawnReturn ==
    /\ call = "launch"
    /\ \A a \in sel : owner[a] = BySpawn => pc[a] \notin {"reserved", "refused"}
    /\ call' = "idle" /\ sel' = {} /\ left' = 0
    /\ UNCHANGED <<policyVars, idVars, tokenVars, taskVars>>

----------------------------------------------------------------------------
(* cancel *)

\* Mutant of Cancel: the freed slots are not handed on.
CancelKeepsSlots(ids) ==
    LET gone == {a \in ids : status[a] \in {"Queued", "Running"}}
    IN  /\ call = "idle" /\ cancels < MaxCancels
        /\ cancels' = cancels + 1
        /\ own' = [a \in Agents |-> own[a] \/ a \in gone]
        /\ status' = [a \in Agents |-> IF a \in gone THEN "Cancelled" ELSE status[a]]
        /\ call' = "cancel"
        /\ UNCHANGED <<policyVars, idVars, batchToken, sel, left, pc, owner, want, limit>>

Cancel(ids) ==
    LET gone == {a \in ids : status[a] \in {"Queued", "Running"}}
    IN  /\ call = "idle" /\ cancels < MaxCancels
        /\ cancels' = cancels + 1
        /\ own' = [a \in Agents |-> own[a] \/ a \in gone]
        /\ ReserveQueuedStarts(gone, "Cancelled", EffectiveMaxThreads, ByCancel, "none")
        /\ call' = "cancel"
        /\ UNCHANGED <<policyVars, idVars, batchToken, sel, left, want, limit>>

\* The links are updated and the waiters notified; the starts follow.
CancelReturn ==
    /\ call = "cancel"
    /\ call' = "idle"
    /\ UNCHANGED <<policyVars, idVars, tokenVars, sel, left, taskVars>>

\* A spawn call's token is cancelled with the run or the phase it belongs to.
CancelRun(b) ==
    /\ b \in 1..nextBatch /\ ~batchToken[b] /\ cancels < MaxCancels
    /\ cancels' = cancels + 1
    /\ batchToken' = [batchToken EXCEPT ![b] = TRUE]
    /\ UNCHANGED <<policyVars, idVars, own, callVars, taskVars>>

----------------------------------------------------------------------------
(* The task of a child *)

\* A start that a settling child or a cancel call reserved follows its own end.
OwnerDone(a) ==
    /\ owner[a] \in Agents => pc[owner[a]] = "done"
    /\ owner[a] = ByCancel => call # "cancel"

\* Mutant of Launch: a start that fails is not settled.
LaunchForgets(a, built) ==
    /\ pc[a] = "reserved" /\ OwnerDone(a)
    /\ pc' = [pc EXCEPT ![a] = IF built /\ ~Token(a) THEN "looping" ELSE "done"]
    /\ UNCHANGED <<policyVars, idVars, tokenVars, callVars, status, owner, want, limit>>

\* start_child and spawn_reserved_child: the scope lookup and the factory.
Launch(a, built) ==
    /\ pc[a] = "reserved" /\ OwnerDone(a)
    /\ IF built /\ ~Token(a)
         THEN pc' = [pc EXCEPT ![a] = "looping"] /\ UNCHANGED want
         ELSE /\ pc' = [pc EXCEPT ![a] = "refused"]
              /\ want' = [want EXCEPT ![a] = IF Token(a) THEN "Cancelled" ELSE "Ended"]
    /\ UNCHANGED <<policyVars, idVars, tokenVars, callVars, status, owner, limit>>

\* Mutant of ClaimRefused: a failed start promotes nobody.
ClaimRefusedKeepsSlot(a) ==
    /\ pc[a] = "refused"
    /\ status' = [status EXCEPT ![a] = IF @ \in Terminal THEN @ ELSE want[a]]
    /\ pc' = [pc EXCEPT ![a] = "settling"]
    /\ want' = [want EXCEPT ![a] = "Ended"]
    /\ UNCHANGED <<policyVars, idVars, tokenVars, callVars, owner, limit>>

\* mark_failed_and_schedule, mark_cancelled_and_schedule (both of start_child)
\* and finish_reserved_child_start; only the first returns without reserving.
ClaimRefused(a) ==
    /\ pc[a] = "refused"
    /\ IF status[a] \notin Terminal
         THEN ReserveQueuedStarts({a}, want[a], EffectiveMaxThreads, a, "settling")
         ELSE IF owner[a] = BySpawn /\ want[a] = "Ended"
                THEN pc' = [pc EXCEPT ![a] = "done"] /\ UNCHANGED <<status, owner>>
                ELSE ReserveQueuedStarts({}, want[a], EffectiveMaxThreads, a, "done")
    /\ want' = [want EXCEPT ![a] = "Ended"]
    /\ UNCHANGED <<policyVars, idVars, tokenVars, callVars, limit>>

\* The child's stream ends; only a cancelled loop reports Cancelled.
LoopEnds(a, result) ==
    /\ pc[a] = "looping" /\ (result = "Cancelled" => Token(a))
    /\ pc' = [pc EXCEPT ![a] = "ended"]
    /\ want' = [want EXCEPT ![a] = result]
    /\ UNCHANGED <<policyVars, idVars, tokenVars, callVars, status, owner, limit>>

\* The end of spawn_child_loop, under the mutex.
ClaimEnded(a) ==
    /\ pc[a] = "ended"
    /\ IF status[a] = "Cancelled"
         THEN ReserveQueuedStarts({}, "Cancelled", EffectiveMaxThreads, a, "done")
         ELSE ReserveQueuedStarts({a}, want[a], EffectiveMaxThreads, a, "settling")
    /\ want' = [want EXCEPT ![a] = "Ended"]
    /\ UNCHANGED <<policyVars, idVars, tokenVars, callVars, limit>>

\* finish_child_with_status reads the limit before it takes the mutex.
LoopErrs(a) ==
    /\ pc[a] = "looping"
    /\ pc' = [pc EXCEPT ![a] = "erred"]
    /\ want' = [want EXCEPT ![a] = IF Token(a) THEN "Cancelled" ELSE "Ended"]
    /\ limit' = [limit EXCEPT ![a] = EffectiveMaxThreads]
    /\ UNCHANGED <<policyVars, idVars, tokenVars, callVars, status, owner>>

\* Mutant of ClaimErred: it does not look at the status it overwrites.
ClaimErredOverwrites(a) ==
    /\ pc[a] = "erred"
    /\ ReserveQueuedStarts({a}, want[a], limit[a], a, "settling")
    /\ want' = [want EXCEPT ![a] = "Ended"] /\ limit' = [limit EXCEPT ![a] = 0]
    /\ UNCHANGED <<policyVars, idVars, tokenVars, callVars>>

\* update_child_after_error.
ClaimErred(a) ==
    /\ pc[a] = "erred"
    /\ IF status[a] \notin Terminal
         THEN ReserveQueuedStarts({a}, want[a], limit[a], a, "settling")
         ELSE ReserveQueuedStarts({}, want[a], limit[a], a, "done")
    /\ want' = [want EXCEPT ![a] = "Ended"] /\ limit' = [limit EXCEPT ![a] = 0]
    /\ UNCHANGED <<policyVars, idVars, tokenVars, callVars>>

\* The link update, the notification and the waiters: see SubagentCompletion.
Settle(a) ==
    /\ pc[a] = "settling"
    /\ pc' = [pc EXCEPT ![a] = "done"]
    /\ UNCHANGED <<policyVars, idVars, tokenVars, callVars, status, owner, want, limit>>

----------------------------------------------------------------------------
PolicyNext ==
    \/ \E on \in BOOLEAN, max \in ThreadLimits : PolicyStoreLimit(on, max)
    \/ PolicyStoreEnabled
    \/ PolicyReserve

SpawnStep ==
    \/ \E outcome \in {"accepted", "refused", "unbound"} : SpawnBind(outcome)
    \/ \E cap \in Caps : SpawnInsert(cap)
    \/ SpawnReturn

SpawnNext ==
    \/ \E n \in 1..MaxTasks : SpawnBegin(n)
    \/ SpawnStep

CancelNext ==
    \/ \E ids \in (SUBSET (1..nextId)) \ {{}} : Cancel(ids)
    \/ CancelReturn
    \/ \E b \in BatchIds : CancelRun(b)

ChildStep(a) ==
    \/ \E built \in BOOLEAN : Launch(a, built)
    \/ ClaimRefused(a)
    \/ \E result \in Terminal : LoopEnds(a, result)
    \/ ClaimEnded(a)
    \/ LoopErrs(a)
    \/ ClaimErred(a)
    \/ Settle(a)

Next == PolicyNext \/ SpawnNext \/ CancelNext \/ \E a \in Agents : ChildStep(a)

Spec == Init /\ [][Next]_vars

\* What is begun is finished: the tokio runtime does not idle while a task can make
\* progress, and the loop of a child is bounded by its max_model_turns.  Nothing is
\* assumed of which ready task it polls.
Underway ==
    \/ SpawnStep \/ CancelReturn \/ PolicyStoreEnabled \/ PolicyReserve
    \/ \E a \in Agents : ChildStep(a)

FairSpec == Spec /\ WF_vars(Underway)

----------------------------------------------------------------------------
(* Properties *)

\* The children of a batch that hold a slot never exceed the max_concurrency of
\* the batch, through spawn, settlement, cancellation and policy changes.
BatchBounded ==
    \A b \in BatchIds : Cardinality(InBatch(InStatus("Running"), b)) <= batchMax[b]

RunningWithin(max) == Cardinality(InStatus("Running")') <= max

StartStep ==
    \/ InStatus("Running")' \subseteq InStatus("Running")
    \/ RunningWithin(EffectiveMaxThreads)
    \/ \E a \in Agents : pc[a] = "erred" /\ pc'[a] # "erred" /\ RunningWithin(limit[a])

\* A step that gives a child a slot leaves at most as many running children as
\* the limit in force, or as the limit finish_child_with_status read earlier.
StartsWithinLimit == [][StartStep]_vars

\* A child that holds a slot is in the hands of a task that will end or fail
\* it: no interleaving of reservations and cancellations leaks a slot.
SlotHasTask ==
    \A a \in Agents : status[a] = "Running" =>
        pc[a] \in {"reserved", "refused", "looping", "ended", "erred"}

TerminalKept == \A a \in Agents : status[a] \in Terminal => status'[a] = status[a]

\* A terminal status is never overwritten: not by the late end of a cancelled
\* loop, nor by a start failure, nor by a reservation made meanwhile.
TerminalIsFinal == [][TerminalKept]_vars

Startable(a) ==
    /\ status[a] = "Queued"
    /\ Cardinality(InStatus("Running")) < EffectiveMaxThreads
    /\ Cardinality(InBatch(InStatus("Running"), batch[a])) < batchMax[batch[a]]

\* No queued child is left behind: whenever no policy update is in progress,
\* the limits forbid starting any of them.
NoStartableLeft == policy = "idle" => \A a \in Agents : ~Startable(a)

\* Before the first policy update no queued child is left behind: whatever gives
\* a slot back, a settlement, a refused start or a cancellation, hands it on.
SlotsHandedOn == updates = 0 => NoStartableLeft

\* Every queued child starts or is cancelled, unless its batch has the cap zero or
\* the policy changes meanwhile.
QueuedChildStarts ==
    \A a \in Agents :
        status[a] = "Queued" /\ batchMax[batch[a]] > 0 ~> status[a] # "Queued" \/ updates > 0

============================================================================
