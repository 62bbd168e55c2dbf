---------------------- MODULE SubagentCompletionProofs ----------------------
(***************************************************************************)
(* The safety properties of SubagentCompletion hold for every set of       *)
(* children and every bound on the calls.                                  *)
(***************************************************************************)
EXTENDS SubagentCompletion, TLAPS

\* A child past its claim has a terminal status, and a child that finds one when
\* it comes to claim was cancelled by the parent.
TaskInv ==
    \A a \in Agents :
        /\ pc[a] \in {"link", "enqueue", "notify", "done"} => status[a] \in Terminal
        /\ pc[a] = "running" /\ status[a] \in Terminal => a \in byParent

\* The children whose links a cancel call still has to update are cancelled.
CancelInv == call = "cancel" => \A a \in sel : status[a] = "Cancelled"

\* A completion is acknowledged with the result that carries it.
AckInv == acked \subseteq told \cup dropped \cup (IF call = "submit" THEN seen ELSE {})

\* Only a child that has passed its enqueue is in the queue.
QueueInv == \A a \in Agents : notifications[a] > 0 => pc[a] \in {"notify", "done"}

\* The permit outlives every turn: only the step to a drain consumes it while
\* the queue is not empty.
PermitInv == HasNotifications /\ parent # "drain" => permit

Inv ==
    /\ TypeOK /\ TaskInv /\ CancelInv /\ AckInv /\ QueueInv /\ PermitInv
    /\ LinkMatchesStatus /\ LinkReleased /\ NoticeUnlessAcknowledged /\ CompletionAccountedFor

----------------------------------------------------------------------------
\* The initial states satisfy the invariant.
LEMMA InitInv == Init => Inv
  <1> SUFFICES ASSUME Init PROVE Inv
    OBVIOUS
  <1>1. TypeOK
    <2>1. permit \in BOOLEAN /\ woken \in BOOLEAN
      BY Zenon DEF Init
    <2>. QED BY <2>1, ConstantsAssumption DEF Init, TypeOK
  <1>2. ~HasNotifications
    BY DEF Init, HasNotifications
  <1>3. \A a \in Agents : status[a] \notin Terminal /\ link[a] \notin Terminal
    BY DEF Init, Terminal
  <1>. QED
    BY <1>1, <1>2, <1>3 DEF Init, Inv, TaskInv, CancelInv, AckInv, QueueInv,
      PermitInv, LinkMatchesStatus, LinkReleased, NoticeUnlessAcknowledged,
      CompletionAccountedFor

\* A prompt, a wakeup, a boundary and a drain of the producer preserve it.
LEMMA ProducerInv == Inv /\ (Prompted \/ ProducerStep) => Inv'
  <1> USE DEF Inv, noticeVars, linkVars, childVars, callVars
  <1>1. CASE Prompted
    BY <1>1 DEF Prompted, TypeOK, TaskInv, CancelInv, AckInv, QueueInv, PermitInv,
      HasNotifications, LinkMatchesStatus, LinkReleased, NoticeUnlessAcknowledged,
      CompletionAccountedFor
  <1>2. CASE CompletionWakes
    BY <1>2, Zenon DEF CompletionWakes, TypeOK, TaskInv, CancelInv, AckInv, QueueInv,
      PermitInv, HasNotifications, LinkMatchesStatus, LinkReleased,
      NoticeUnlessAcknowledged, CompletionAccountedFor
  <1>3. ASSUME NEW interrupted \in BOOLEAN, Inv, Boundary(interrupted) PROVE Inv'
    BY <1>3 DEF Boundary, TypeOK, TaskInv, CancelInv, AckInv, QueueInv, PermitInv,
      HasNotifications, LinkMatchesStatus, LinkReleased, NoticeUnlessAcknowledged,
      CompletionAccountedFor
  <1>4. CASE TakeCompletionNotifications
    BY <1>4 DEF TakeCompletionNotifications, Without, TypeOK, TaskInv, CancelInv,
      AckInv, QueueInv, PermitInv, HasNotifications, LinkMatchesStatus,
      LinkReleased, NoticeUnlessAcknowledged, CompletionAccountedFor
  <1>. QED BY <1>1, <1>2, <1>3, <1>4 DEF ProducerStep

\* The beginnings of spawn, cancel and wait calls preserve it.
LEMMA CallBeginInv == Inv /\ CallBegin => Inv'
  <1> USE DEF Inv, noticeVars, linkVars, childVars, callVars
  <1>1. ASSUME NEW a \in Agents, NEW bound \in BOOLEAN, Inv, Spawn(a, bound)
        PROVE  Inv'
    BY <1>1 DEF Spawn, Terminal, TypeOK, TaskInv, CancelInv, AckInv, QueueInv,
      PermitInv, HasNotifications, LinkMatchesStatus, LinkReleased,
      NoticeUnlessAcknowledged, CompletionAccountedFor
  <1>2. ASSUME NEW ids \in SUBSET Agents, Inv, Cancel(ids) PROVE Inv'
    BY <1>2, ConstantsAssumption DEF Cancel, Terminal, TypeOK, TaskInv, CancelInv,
      AckInv, QueueInv, PermitInv, HasNotifications, LinkMatchesStatus,
      LinkReleased, NoticeUnlessAcknowledged, CompletionAccountedFor
  <1>3. ASSUME NEW ids \in SUBSET Agents, NEW for \in {"Any", "All"}, Inv, WaitBegin(ids, for)
        PROVE  Inv'
    BY <1>3, ConstantsAssumption DEF WaitBegin, TypeOK, TaskInv, CancelInv, AckInv,
      QueueInv, PermitInv, HasNotifications, LinkMatchesStatus, LinkReleased,
      NoticeUnlessAcknowledged, CompletionAccountedFor
  <1>. QED BY <1>1, <1>2, <1>3 DEF CallBegin

\* The later steps of cancel and wait calls preserve it.
LEMMA CallStepInv == Inv /\ CallStep => Inv'
  <1> USE DEF Inv, noticeVars, linkVars, childVars, callVars
  <1>1. ASSUME NEW a \in Agents, NEW persisted \in BOOLEAN, Inv, CancelLink(a, persisted)
        PROVE  Inv'
    BY <1>1 DEF CancelLink, UpdateLink, Terminal, TypeOK, TaskInv, CancelInv,
      AckInv, QueueInv, PermitInv, HasNotifications, LinkMatchesStatus,
      LinkReleased, NoticeUnlessAcknowledged, CompletionAccountedFor
  <1>2. CASE CancelReturn
    BY <1>2 DEF CancelReturn, TypeOK, TaskInv, CancelInv, AckInv, QueueInv,
      PermitInv, HasNotifications, LinkMatchesStatus, LinkReleased,
      NoticeUnlessAcknowledged, CompletionAccountedFor
  <1>3. ASSUME NEW expired \in BOOLEAN, Inv, WaitCheck(expired) PROVE Inv'
    BY <1>3, Zenon DEF WaitCheck, Finished, TypeOK, TaskInv, CancelInv, AckInv, QueueInv,
      PermitInv, HasNotifications, LinkMatchesStatus, LinkReleased,
      NoticeUnlessAcknowledged, CompletionAccountedFor
  <1>4. CASE WaitWake
    BY <1>4, Zenon DEF WaitWake, TypeOK, TaskInv, CancelInv, AckInv, QueueInv, PermitInv,
      HasNotifications, LinkMatchesStatus, LinkReleased, NoticeUnlessAcknowledged,
      CompletionAccountedFor
  <1>5. CASE WaitAcknowledge
    BY <1>5 DEF WaitAcknowledge, Without, TypeOK, TaskInv, CancelInv, AckInv,
      QueueInv, PermitInv, HasNotifications, LinkMatchesStatus, LinkReleased,
      NoticeUnlessAcknowledged, CompletionAccountedFor
  <1>6. CASE WaitReturn
    BY <1>6 DEF WaitReturn, TypeOK, TaskInv, CancelInv, AckInv, QueueInv, PermitInv,
      HasNotifications, LinkMatchesStatus, LinkReleased, NoticeUnlessAcknowledged,
      CompletionAccountedFor
  <1>7. CASE WaitSleep
    BY <1>7 DEF WaitSleep, TypeOK, TaskInv, CancelInv, AckInv, QueueInv, PermitInv,
      HasNotifications, LinkMatchesStatus, LinkReleased, NoticeUnlessAcknowledged,
      CompletionAccountedFor
  <1>. QED BY <1>1, <1>2, <1>3, <1>4, <1>5, <1>6, <1>7, Zenon DEF CallStep

\* Timeouts and interrupts of a wait preserve it, at whichever await they hit.
LEMMA WaitStopsInv == Inv /\ WaitStops => Inv'
  <1> USE DEF Inv, noticeVars, linkVars, childVars, callVars
  <1>1. ASSUME NEW expired \in BOOLEAN, Inv, WaitCheck(expired) PROVE Inv'
    BY <1>1, Zenon DEF WaitCheck, Finished, TypeOK, TaskInv, CancelInv, AckInv, QueueInv,
      PermitInv, HasNotifications, LinkMatchesStatus, LinkReleased,
      NoticeUnlessAcknowledged, CompletionAccountedFor
  <1>2. CASE WaitTimeout
    BY <1>2, Zenon DEF WaitTimeout, Finished, TypeOK, TaskInv, CancelInv, AckInv, QueueInv,
      PermitInv, HasNotifications, LinkMatchesStatus, LinkReleased,
      NoticeUnlessAcknowledged, CompletionAccountedFor
  <1>3. ASSUME NEW filtered \in BOOLEAN, Inv, WaitInterrupted(filtered) PROVE Inv'
    <2>1. TypeOK'
      BY <1>3, Zenon DEF WaitInterrupted, Without, TypeOK
    <2>2. TaskInv'
      BY <1>3 DEF WaitInterrupted, Without, TypeOK, TaskInv
    <2>3. CancelInv'
      BY <1>3 DEF WaitInterrupted, Without, TypeOK, CancelInv
    <2>4. AckInv'
      BY <1>3 DEF WaitInterrupted, Without, TypeOK, AckInv
    <2>5. QueueInv'
      BY <1>3 DEF WaitInterrupted, Without, TypeOK, QueueInv
    <2>6. PermitInv'
      BY <1>3 DEF WaitInterrupted, Without, TypeOK, PermitInv, HasNotifications
    <2>7. LinkMatchesStatus'
      BY <1>3 DEF WaitInterrupted, Without, TypeOK, LinkMatchesStatus
    <2>8. LinkReleased'
      BY <1>3 DEF WaitInterrupted, Without, TypeOK, TaskInv, CancelInv, LinkReleased
    <2>9. NoticeUnlessAcknowledged'
      BY <1>3 DEF WaitInterrupted, Without, TypeOK, TaskInv, QueueInv,
        NoticeUnlessAcknowledged
    <2>10. CompletionAccountedFor'
      BY <1>3 DEF WaitInterrupted, Without, TypeOK, TaskInv, AckInv,
        NoticeUnlessAcknowledged, CompletionAccountedFor
    <2>. QED BY <2>1, <2>2, <2>3, <2>4, <2>5, <2>6, <2>7, <2>8, <2>9, <2>10
  <1>. QED BY <1>1, <1>2, <1>3, Zenon DEF WaitStops

\* The start, the claim and the three reports of a child preserve it.
LEMMA ChildInv == Inv /\ (\E a \in Agents : ChildStep(a)) => Inv'
  <1> USE DEF Inv, noticeVars, linkVars, childVars, callVars
  <1>1. ASSUME NEW a \in Agents, Inv, Start(a) PROVE Inv'
    BY <1>1 DEF Start, Terminal, TypeOK, TaskInv, CancelInv, AckInv, QueueInv,
      PermitInv, HasNotifications, LinkMatchesStatus, LinkReleased,
      NoticeUnlessAcknowledged, CompletionAccountedFor
  <1>2. ASSUME NEW a \in Agents, NEW result \in Results, Inv, Claim(a, result)
        PROVE  Inv'
    BY <1>2, ConstantsAssumption DEF Claim, Terminal, TypeOK, TaskInv, CancelInv,
      AckInv, QueueInv, PermitInv, HasNotifications, LinkMatchesStatus,
      LinkReleased, NoticeUnlessAcknowledged, CompletionAccountedFor
  <1>3. ASSUME NEW a \in Agents, NEW next \in {"notify", "done"}, Inv, ClaimTooLate(a, next)
        PROVE  Inv'
    BY <1>3 DEF ClaimTooLate, TypeOK, TaskInv, CancelInv, AckInv, QueueInv,
      PermitInv, HasNotifications, LinkMatchesStatus, LinkReleased,
      NoticeUnlessAcknowledged, CompletionAccountedFor
  <1>4. ASSUME NEW a \in Agents, NEW persisted \in BOOLEAN, Inv, UpdatePlanLink(a, persisted)
        PROVE  Inv'
    BY <1>4 DEF UpdatePlanLink, UpdateLink, Terminal, TypeOK, TaskInv, CancelInv,
      AckInv, QueueInv, PermitInv, HasNotifications, LinkMatchesStatus,
      LinkReleased, NoticeUnlessAcknowledged, CompletionAccountedFor
  <1>5. ASSUME NEW a \in Agents, Inv, EnqueueCompletionNotification(a) PROVE Inv'
    <2>1. TypeOK'
      <3>1. permit' \in BOOLEAN
        BY <1>5, Zenon DEF EnqueueCompletionNotification, TypeOK
      <3>. QED BY <1>5, <3>1 DEF EnqueueCompletionNotification, TypeOK
    <2>2. TaskInv'
      BY <1>5 DEF EnqueueCompletionNotification, TypeOK, TaskInv
    <2>3. CancelInv'
      BY <1>5 DEF EnqueueCompletionNotification, TypeOK, CancelInv
    <2>4. AckInv'
      BY <1>5 DEF EnqueueCompletionNotification, TypeOK, AckInv
    <2>5. QueueInv'
      BY <1>5 DEF EnqueueCompletionNotification, TypeOK, QueueInv
    <2>6. PermitInv'
      BY <1>5 DEF EnqueueCompletionNotification, TypeOK, PermitInv, HasNotifications
    <2>7. LinkMatchesStatus'
      BY <1>5 DEF EnqueueCompletionNotification, TypeOK, LinkMatchesStatus
    <2>8. LinkReleased'
      BY <1>5 DEF EnqueueCompletionNotification, TypeOK, TaskInv, CancelInv,
        LinkReleased
    <2>9. NoticeUnlessAcknowledged'
      BY <1>5 DEF EnqueueCompletionNotification, TypeOK, TaskInv, QueueInv,
        NoticeUnlessAcknowledged
    <2>10. CompletionAccountedFor'
      BY <1>5 DEF EnqueueCompletionNotification, TypeOK, TaskInv, AckInv, QueueInv,
        NoticeUnlessAcknowledged, CompletionAccountedFor
    <2>. QED BY <2>1, <2>2, <2>3, <2>4, <2>5, <2>6, <2>7, <2>8, <2>9, <2>10
  <1>6. ASSUME NEW a \in Agents, Inv, NotifyWaiters(a) PROVE Inv'
    BY <1>6 DEF NotifyWaiters, Waiting, TypeOK, TaskInv, CancelInv, AckInv,
      QueueInv, PermitInv, HasNotifications, LinkMatchesStatus, LinkReleased,
      NoticeUnlessAcknowledged, CompletionAccountedFor
  <1>. QED BY <1>1, <1>2, <1>3, <1>4, <1>5, <1>6 DEF ChildStep, TaskStep

----------------------------------------------------------------------------
\* Every step preserves it.
LEMMA NextInv == Inv /\ [Next]_vars => Inv'
  <1>1. CASE UNCHANGED vars
    BY <1>1 DEF Inv, vars, noticeVars, linkVars, childVars, callVars, TypeOK,
      TaskInv, CancelInv, AckInv, QueueInv, PermitInv, HasNotifications,
      LinkMatchesStatus, LinkReleased, NoticeUnlessAcknowledged,
      CompletionAccountedFor
  <1>. QED
    BY <1>1, ProducerInv, CallBeginInv, CallStepInv, WaitStopsInv, ChildInv DEF Next

\* The invariant holds in every reachable state, whatever the children, the
\* parent, the user and the persistence of the links do.
THEOREM Invariance == Spec => []Inv
  BY InitInv, NextInv, PTL DEF Spec

\* Every variable keeps its type.
THEOREM TypeCorrect == Spec => []TypeOK
  BY Invariance, PTL DEF Inv

\* A completion is queued at most once and never after an acknowledgement,
\* however the child's enqueue, the parent's waits and its drains interleave.
THEOREM NoDuplicateNotice == Spec => []NoticeUnlessAcknowledged
  BY Invariance, PTL DEF Inv

\* The completion of a child that ended by itself is queued, delivered, in the
\* result of a returning wait, or lost with a wait that was interrupted.
THEOREM NoForgottenCompletion == Spec => []CompletionAccountedFor
  BY Invariance, PTL DEF Inv

\* The Plan's link and the manager agree on how a child ended.
THEOREM LinkAgreement == Spec => []LinkMatchesStatus
  BY Invariance, PTL DEF Inv

\* Exactly one task is about to report a finished child to the Plan.
THEOREM OneLinkReporter == Spec => []LinkReleased
  BY Invariance, PTL DEF Inv

\* The permit that wakes a sleeping parent is stored while its queue is not empty.
THEOREM NoLostWakeup == Spec => []SleepIsWoken
  <1>1. Inv => SleepIsWoken
    BY DEF Inv, PermitInv, SleepIsWoken
  <1>. QED BY <1>1, Invariance, PTL

=============================================================================
