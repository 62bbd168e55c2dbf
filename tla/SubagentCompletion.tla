------------------------- MODULE SubagentCompletion -------------------------
(***************************************************************************)
(* How the end of a child agent reaches its parent and the Plan            *)
(* (subagent/manager.rs, subagent/child.rs and the interactive producer of *)
(* merry-runtime).  A child that ends claims its status, updates the Plan  *)
(* link, queues a completion notification, wakes the interactive parent    *)
(* through completion_notify and then the waiters through notify.  The     *)
(* parent may meanwhile cancel children, wait for them, be interrupted, or *)
(* go to sleep until the user or a completion wakes it.                    *)
(*                                                                         *)
(* The slots are abstracted: a child that was inserted may start at any    *)
(* time, or never (SubagentScheduler tells when).  Status "Open" is Queued *)
(* or Running.                                                             *)
(***************************************************************************)
EXTENDS Naturals, FiniteSets

CONSTANTS
    Agents,     \* the children
    Results,    \* the statuses with which a child may end by itself
    MaxCalls    \* bound: wait and cancel calls of the parent

Terminal == {"Completed", "Failed", "Blocked", "Cancelled"}

ASSUME ConstantsAssumption == MaxCalls \in Nat /\ Results \subseteq Terminal

VARIABLES
    status,          \* agents[a].status; "Absent" before the insertion
    byParent,        \* the children that a cancel call made Cancelled
    acked,           \* the children with completion_notification_acknowledged
    notifications,   \* completion_notifications, as a bag
    permit,          \* the permit that completion_notify stores
    link, unsaved,   \* the Plan's links, and those whose update was not persisted
    pc,              \* the task of each child
    parent,          \* the interactive producer: in a turn, asleep, or draining
    call, mode, sel, \* the parent's tool call and the children it deals with
    seen,            \* the finished children a wait is about to report
    calls,           \* how many calls were begun
    woken,           \* notify has notified the registered waiter
    told, dropped    \* history: completions the parent got, and lost ones

noticeVars == <<acked, notifications, permit, told, dropped>>
linkVars   == <<link, unsaved>>
childVars  == <<status, byParent, pc>>
callVars   == <<call, mode, sel, seen>>
vars == <<noticeVars, linkVars, childVars, parent, callVars, calls, woken>>

----------------------------------------------------------------------------
Waiting == call \in {"check", "read", "sleep"}

TypeOK ==
    /\ status \in [Agents -> {"Absent", "Open"} \cup Terminal]
    /\ byParent \in SUBSET Agents /\ acked \in SUBSET Agents
    /\ notifications \in [Agents -> Nat] /\ permit \in BOOLEAN
    /\ link \in [Agents -> {"None", "Active"} \cup Terminal]
    /\ unsaved \in SUBSET Agents
    /\ pc \in [Agents -> {"queued", "running", "link", "enqueue", "notify", "done"}]
    /\ parent \in {"turn", "asleep", "drain"}
    /\ call \in {"idle", "cancel", "check", "read", "sleep", "ack", "submit"}
    /\ mode \in {"Any", "All"}
    /\ sel \in SUBSET Agents /\ seen \in SUBSET Agents
    /\ calls \in 0..MaxCalls /\ woken \in BOOLEAN
    /\ told \in SUBSET Agents /\ dropped \in SUBSET Agents

Init ==
    /\ status = [a \in Agents |-> "Absent"]
    /\ byParent = {} /\ acked = {}
    /\ notifications = [a \in Agents |-> 0] /\ permit = FALSE
    /\ link = [a \in Agents |-> "None"] /\ unsaved = {}
    /\ pc = [a \in Agents |-> "queued"]
    /\ parent = "asleep"
    /\ call = "idle" /\ mode = "All" /\ sel = {} /\ seen = {}
    /\ calls = 0 /\ woken = FALSE
    /\ told = {} /\ dropped = {}

----------------------------------------------------------------------------
(* The interactive producer *)

HasNotifications == \E a \in Agents : notifications[a] > 0

\* The user's input, or a Plan event, starts a model turn.
Prompted ==
    /\ parent = "asleep"
    /\ parent' = "turn"
    /\ UNCHANGED <<noticeVars, linkVars, childVars, callVars, calls, woken>>

\* Mutant of CompletionWakes: the permit is consumed and nothing is drained.
CompletionIgnored ==
    /\ parent = "asleep" /\ permit
    /\ permit' = FALSE
    /\ UNCHANGED <<acked, notifications, told, dropped, linkVars, childVars, parent,
                   callVars, calls, woken>>

\* completion_notify's permit is consumed even when a wait has emptied the queue.
CompletionWakes ==
    /\ parent = "asleep" /\ permit
    /\ permit' = FALSE
    /\ parent' = IF HasNotifications THEN "drain" ELSE "asleep"
    /\ UNCHANGED <<acked, notifications, told, dropped, linkVars, childVars, callVars,
                   calls, woken>>

\* The boundary after a model turn: an interrupted producer waits for input
\* whatever is queued; otherwise a queued completion is the next step's input.
Boundary(interrupted) ==
    /\ parent = "turn" /\ call = "idle"
    /\ parent' = IF HasNotifications /\ ~interrupted THEN "drain" ELSE "asleep"
    /\ UNCHANGED <<noticeVars, linkVars, childVars, callVars, calls, woken>>

Without(ids) == [a \in Agents |-> IF a \in ids THEN 0 ELSE notifications[a]]

\* take_completion_notifications: what it returns is the input of a model turn.
TakeCompletionNotifications ==
    LET taken == {a \in Agents : notifications[a] > 0}
    IN  /\ parent = "drain"
        /\ notifications' = Without(taken)
        /\ acked' = acked \cup taken
        /\ told' = told \cup taken
        /\ parent' = "turn"
        /\ UNCHANGED <<permit, dropped, linkVars, childVars, callVars, calls, woken>>

----------------------------------------------------------------------------
(* The parent's tool calls *)

\* spawn inserts a child, bound to a Plan node or not.
Spawn(a, bound) ==
    /\ parent = "turn" /\ call = "idle" /\ status[a] = "Absent"
    /\ status' = [status EXCEPT ![a] = "Open"]
    /\ link' = [link EXCEPT ![a] = IF bound THEN "Active" ELSE "None"]
    /\ UNCHANGED <<noticeVars, unsaved, byParent, pc, parent, callVars, calls, woken>>

Cancel(ids) ==
    LET gone == {a \in ids : status[a] = "Open"}
    IN  /\ parent = "turn" /\ call = "idle" /\ calls < MaxCalls
        /\ calls' = calls + 1
        /\ status' = [a \in Agents |-> IF a \in gone THEN "Cancelled" ELSE status[a]]
        /\ byParent' = byParent \cup gone
        /\ call' = "cancel" /\ sel' = {a \in gone : link[a] # "None"}
        /\ UNCHANGED <<noticeVars, linkVars, pc, parent, mode, seen, woken>>

\* Mutant of UpdateLink: it records the status of a child that still runs.
UpdateLinkEarly(a, to, persisted) ==
    /\ link' = IF persisted THEN [link EXCEPT ![a] = "Open"] ELSE link
    /\ unsaved' = IF persisted THEN unsaved ELSE unsaved \cup {a}

\* update_subagent_link; a failure to persist it is only logged.
UpdateLink(a, to, persisted) ==
    /\ link' = IF persisted THEN [link EXCEPT ![a] = to] ELSE link
    /\ unsaved' = IF persisted THEN unsaved ELSE unsaved \cup {a}

CancelLink(a, persisted) ==
    /\ call = "cancel" /\ a \in sel
    /\ UpdateLink(a, "Cancelled", persisted)
    /\ sel' = sel \ {a}
    /\ UNCHANGED <<noticeVars, childVars, parent, call, mode, seen, calls, woken>>

CancelReturn ==
    /\ call = "cancel" /\ sel = {}
    /\ call' = "idle"
    /\ UNCHANGED <<noticeVars, linkVars, childVars, parent, mode, sel, seen, calls, woken>>

\* The wait registers with notify before it reads the statuses.
WaitBegin(ids, for) ==
    /\ parent = "turn" /\ call = "idle" /\ calls < MaxCalls
    /\ calls' = calls + 1
    /\ call' = "check" /\ mode' = for /\ sel' = ids
    /\ UNCHANGED <<noticeVars, linkVars, childVars, parent, seen, woken>>

Known(ids)    == {a \in ids : status[a] # "Absent"}
Finished(ids) == {a \in ids : status[a] \in Terminal}

WaitModeSatisfied ==
    IF mode = "Any" THEN Finished(sel) # {} ELSE Finished(sel) = Known(sel)

\* A satisfied wait acknowledges, and so does one whose deadline has passed.
WaitCheck(expired) ==
    /\ call = "check"
    /\ IF WaitModeSatisfied \/ expired
         THEN call' = "ack" /\ seen' = Finished(sel) /\ woken' = FALSE
         ELSE call' = "read" /\ UNCHANGED <<seen, woken>>
    /\ UNCHANGED <<noticeVars, linkVars, childVars, parent, mode, sel, calls>>

\* The mutex is released before the wait suspends.
WaitSleep ==
    /\ call = "read"
    /\ call' = "sleep"
    /\ UNCHANGED <<noticeVars, linkVars, childVars, parent, mode, sel, seen, calls, woken>>

WaitWake ==
    /\ call = "sleep" /\ woken
    /\ call' = "check" /\ woken' = FALSE
    /\ UNCHANGED <<noticeVars, linkVars, childVars, parent, mode, sel, seen, calls>>

WaitTimeout ==
    /\ call = "sleep"
    /\ call' = "ack" /\ seen' = Finished(sel) /\ woken' = FALSE
    /\ UNCHANGED <<noticeVars, linkVars, childVars, parent, mode, sel, calls>>

\* Mutant of WaitAcknowledge: the children that still run are acknowledged too.
WaitAcknowledgeAll ==
    /\ call = "ack"
    /\ notifications' = Without(sel)
    /\ acked' = acked \cup sel
    /\ call' = "submit"
    /\ UNCHANGED <<permit, told, dropped, linkVars, childVars, parent, mode, sel, seen,
                   calls, woken>>

\* acknowledge_completion_notifications, under both mutexes.
WaitAcknowledge ==
    /\ call = "ack"
    /\ notifications' = Without(seen)
    /\ acked' = acked \cup seen
    /\ call' = "submit"
    /\ UNCHANGED <<permit, told, dropped, linkVars, childVars, parent, mode, sel, seen,
                   calls, woken>>

WaitReturn ==
    /\ call = "submit"
    /\ told' = told \cup seen
    /\ call' = "idle" /\ mode' = "All" /\ sel' = {} /\ seen' = {}
    /\ UNCHANGED <<acked, notifications, permit, dropped, linkVars, childVars, parent,
                   calls, woken>>

\* An interrupt drops the wait at one of its awaits: while it waits, between
\* the two mutexes of the acknowledgement (the queue is then already filtered),
\* or before its result is submitted to the session.
WaitInterrupted(filtered) ==
    /\ call \in {"check", "read", "sleep", "ack", "submit"}
    /\ filtered => call = "ack"
    /\ notifications' = IF filtered THEN Without(seen) ELSE notifications
    /\ dropped' = IF filtered \/ call = "submit" THEN dropped \cup seen ELSE dropped
    /\ call' = "idle" /\ mode' = "All" /\ sel' = {} /\ seen' = {} /\ woken' = FALSE
    /\ UNCHANGED <<acked, permit, told, linkVars, childVars, parent, calls>>

----------------------------------------------------------------------------
(* The task of a child *)

\* The scheduler starts a child that is not cancelled while it is queued.
Start(a) ==
    /\ pc[a] = "queued" /\ status[a] = "Open"
    /\ pc' = [pc EXCEPT ![a] = "running"]
    /\ UNCHANGED <<noticeVars, linkVars, status, byParent, parent, callVars, calls, woken>>

\* Mutant of Claim: the status is overwritten whatever it is.
ClaimOverwrites(a, result) ==
    /\ pc[a] = "running"
    /\ status' = [status EXCEPT ![a] = result]
    /\ pc' = [pc EXCEPT ![a] = "link"]
    /\ UNCHANGED <<noticeVars, linkVars, byParent, parent, callVars, calls, woken>>

\* The child ends, fails to start or is stopped with its run, and claims its
\* status under the mutex.
Claim(a, result) ==
    /\ pc[a] = "running" /\ status[a] = "Open"
    /\ status' = [status EXCEPT ![a] = result]
    /\ pc' = [pc EXCEPT ![a] = "link"]
    /\ UNCHANGED <<noticeVars, linkVars, byParent, parent, callVars, calls, woken>>

\* Mutant of ClaimTooLate: the late child reports its link as well.
ClaimTooLateReports(a, next) ==
    /\ pc[a] = "running" /\ status[a] \in Terminal
    /\ pc' = [pc EXCEPT ![a] = "link"]
    /\ UNCHANGED <<noticeVars, linkVars, status, byParent, parent, callVars, calls, woken>>

\* A cancel call was first.  Only mark_failed_and_schedule notifies nobody.
ClaimTooLate(a, next) ==
    /\ pc[a] = "running" /\ status[a] \in Terminal
    /\ pc' = [pc EXCEPT ![a] = next]
    /\ UNCHANGED <<noticeVars, linkVars, status, byParent, parent, callVars, calls, woken>>

\* plan_link_status_for_agent keeps the name of a terminal status.
UpdatePlanLink(a, persisted) ==
    /\ pc[a] = "link"
    /\ IF link[a] = "None" THEN UNCHANGED linkVars
                           ELSE UpdateLink(a, status[a], persisted)
    /\ pc' = [pc EXCEPT ![a] = "enqueue"]
    /\ UNCHANGED <<noticeVars, status, byParent, parent, callVars, calls, woken>>

\* Mutants of EnqueueCompletionNotification: the acknowledgement is not looked
\* at, and only a producer that sleeps already is woken.
EnqueueAlways(a) ==
    /\ pc[a] = "enqueue"
    /\ notifications' = [notifications EXCEPT ![a] = @ + 1] /\ permit' = TRUE
    /\ pc' = [pc EXCEPT ![a] = "notify"]
    /\ UNCHANGED <<acked, told, dropped, linkVars, status, byParent, parent, callVars,
                   calls, woken>>
EnqueueStoresNoPermit(a) ==
    /\ pc[a] = "enqueue"
    /\ notifications' = [notifications EXCEPT ![a] = IF a \in acked THEN @ ELSE @ + 1]
    /\ permit' = (permit \/ (a \notin acked /\ parent = "asleep"))
    /\ pc' = [pc EXCEPT ![a] = "notify"]
    /\ UNCHANGED <<acked, told, dropped, linkVars, status, byParent, parent, callVars,
                   calls, woken>>

\* enqueue_completion_notification_if_needed, under both mutexes.
EnqueueCompletionNotification(a) ==
    /\ pc[a] = "enqueue"
    /\ IF a \in acked
         THEN UNCHANGED <<notifications, permit>>
         ELSE notifications' = [notifications EXCEPT ![a] = @ + 1] /\ permit' = TRUE
    /\ pc' = [pc EXCEPT ![a] = "notify"]
    /\ UNCHANGED <<acked, told, dropped, linkVars, status, byParent, parent, callVars,
                   calls, woken>>

\* Mutant of NotifyWaiters: the wait registers after it has read the statuses.
NotifySleepers(a) ==
    /\ pc[a] = "notify"
    /\ woken' = (woken \/ call = "sleep")
    /\ pc' = [pc EXCEPT ![a] = "done"]
    /\ UNCHANGED <<noticeVars, linkVars, status, byParent, parent, callVars, calls>>

NotifyWaiters(a) ==
    /\ pc[a] = "notify"
    /\ woken' = (woken \/ Waiting)
    /\ pc' = [pc EXCEPT ![a] = "done"]
    /\ UNCHANGED <<noticeVars, linkVars, status, byParent, parent, callVars, calls>>

----------------------------------------------------------------------------
ProducerStep ==
    \/ CompletionWakes
    \/ \E interrupted \in BOOLEAN : Boundary(interrupted)
    \/ TakeCompletionNotifications

CallBegin ==
    \/ \E a \in Agents, bound \in BOOLEAN : Spawn(a, bound)
    \/ \E ids \in (SUBSET Agents) \ {{}} : Cancel(ids)
    \/ \E ids \in (SUBSET Agents) \ {{}}, for \in {"Any", "All"} : WaitBegin(ids, for)

CallStep ==
    \/ \E a \in Agents, persisted \in BOOLEAN : CancelLink(a, persisted)
    \/ CancelReturn
    \/ WaitCheck(FALSE)
    \/ WaitSleep
    \/ WaitWake
    \/ WaitAcknowledge
    \/ WaitReturn

WaitStops ==
    \/ WaitCheck(TRUE)
    \/ WaitTimeout
    \/ \E filtered \in BOOLEAN : WaitInterrupted(filtered)

TaskStep(a) ==
    \/ \E result \in Results : Claim(a, result)
    \/ \E next \in {"notify", "done"} : ClaimTooLate(a, next)
    \/ \E persisted \in BOOLEAN : UpdatePlanLink(a, persisted)
    \/ EnqueueCompletionNotification(a)
    \/ NotifyWaiters(a)

ChildStep(a) == Start(a) \/ TaskStep(a)

Next ==
    \/ Prompted
    \/ ProducerStep
    \/ CallBegin
    \/ CallStep
    \/ WaitStops
    \/ \E a \in Agents : ChildStep(a)

Spec == Init /\ [][Next]_vars

\* Tokio polls every task that can make progress, a model turn ends, and a child
\* that runs is bounded by its max_model_turns.  Nothing makes a queued child
\* start (it needs a slot), a wait time out, an interrupt happen or a user speak.  The producer's select! polls its branches
\* in random order, so a stored permit does not lose to the user's input forever.
FairSpec ==
    /\ Spec
    /\ WF_vars(ProducerStep) /\ SF_vars(CompletionWakes)
    /\ WF_vars(CallStep)
    /\ \A a \in Agents : WF_vars(TaskStep(a))

----------------------------------------------------------------------------
(* Properties *)

\* The Plan learns the status the manager holds, whoever reports it: the child
\* and a cancel call never record different ends of the same child.
LinkMatchesStatus ==
    \A a \in Agents : link[a] \in Terminal => link[a] = status[a]

\* A finished child whose link is still Active has exactly one task that is
\* about to report it, its own or a cancel call, unless persisting it failed.
LinkReleased ==
    \A a \in Agents : status[a] \in Terminal /\ link[a] = "Active" /\ a \notin unsaved =>
        (pc[a] = "link") # (call = "cancel" /\ a \in sel)

\* A completion is queued for the parent at most once, and never once a wait
\* or an earlier drain acknowledged it, in whatever order the child's enqueue
\* and the parent's acknowledgement run.
NoticeUnlessAcknowledged ==
    \A a \in Agents : /\ notifications[a] <= 1
                      /\ notifications[a] = 1 => a \notin acked /\ status[a] \in Terminal

\* A child that ended by itself is reported: its completion is queued, the
\* parent got it or is about to, or an interrupt dropped the wait that held it.
CompletionAccountedFor ==
    \A a \in Agents :
        status[a] \in Terminal /\ a \notin byParent /\ pc[a] \in {"notify", "done"} =>
            \/ notifications[a] = 1
            \/ a \in told \cup dropped
            \/ call = "submit" /\ a \in seen

\* The parent never sleeps on a queued completion: the permit that wakes it is
\* stored, though waits, drains and interrupts consume either of the two.
SleepIsWoken == parent = "asleep" /\ HasNotifications => permit

\* The children whose end does not depend on a slot: those with a task, and
\* those that have ended.
Begun(a) == pc[a] # "queued" \/ status[a] \in Terminal

WaitServed ==
    IF mode = "Any" THEN \E a \in Known(sel) : Begun(a)
                    ELSE \A a \in Known(sel) : Begun(a)

\* A wait returns once the children it needs have been started (one of them, or
\* all that the manager knows): no wakeup is lost between the registration with
\* notify, the status check and the sleep.  A wait on children that stay queued
\* lasts as long as they do.
WaitReturns == Waiting /\ WaitServed ~> ~Waiting

\* A queued completion leaves the queue: the parent drains it or waits for it,
\* unless it sits for ever in a wait whose children are not started or that the
\* manager does not know.
NoticeIsTaken ==
    \A a \in Agents :
        notifications[a] > 0 ~> notifications[a] = 0 \/ [](Waiting /\ ~WaitServed)

=============================================================================
