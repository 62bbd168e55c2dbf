---------------------- MODULE SubagentSchedulerProofs -----------------------
(***************************************************************************)
(* The slots of SubagentScheduler are bounded, owned, never taken back     *)
(* and, until the policy changes, handed on: for every number of children  *)
(* and batches and every configured limit.                                 *)
(***************************************************************************)
EXTENDS SubagentScheduler, FiniteSetTheorems, TLAPS

\* The ids beyond the last one handed out are unused.
IdInv ==
    /\ \A a \in Agents : a > nextId => status[a] = "Absent"
    /\ \A a \in Agents : batch[a] <= nextBatch

\* While a spawn call binds its tasks, the ids left suffice, the children it has
\* accepted are not inserted yet, and nobody else belongs to its batch.
BindInv ==
    call = "bind" =>
        /\ nextId + left <= NumAgents
        /\ \A a \in sel : a <= nextId /\ status[a] = "Absent" /\ batch[a] = nextBatch
        /\ \A a \in Agents : batch[a] = nextBatch => status[a] = "Absent"

\* A child that a task works on runs, or was cancelled while the task did so.
TaskInv ==
    \A a \in Agents :
        pc[a] \in {"reserved", "refused", "looping", "ended", "erred"} =>
            status[a] \in {"Running", "Cancelled"}

Inv == TypeOK /\ IdInv /\ BindInv /\ TaskInv /\ BatchBounded /\ SlotHasTask

----------------------------------------------------------------------------
\* Sets of children are finite.
LEMMA FiniteAgents ==
    ASSUME NEW S \in SUBSET Agents
    PROVE  IsFiniteSet(S) /\ Cardinality(S) \in Nat
  <1>1. IsFiniteSet(Agents)
    BY ConstantsAssumption, FS_Interval DEF Agents
  <1>. QED BY <1>1, FS_Subset, FS_CardinalityType, Zenon

\* Two sets of children without a common one.
LEMMA DisjointChildren ==
    ASSUME NEW X \in SUBSET Agents, NEW Y \in SUBSET Agents, X \cap Y = {}
    PROVE  Cardinality(X \cup Y) = Cardinality(X) + Cardinality(Y)
  <1>1. /\ IsFiniteSet(X) /\ Cardinality(X) \in Nat
        /\ IsFiniteSet(Y) /\ Cardinality(Y) \in Nat
    BY FiniteAgents, Zenon
  <1>2. Cardinality(X \cup Y) = Cardinality(X) + Cardinality(Y) - Cardinality(X \cap Y)
    BY <1>1, FS_Union, Zenon
  <1>3. Cardinality(X \cap Y) = 0
    BY FS_EmptySet, Zenon
  <1>. QED BY <1>1, <1>2, <1>3

\* A selection keeps every batch that was within its cap within it.
LEMMA SelectsBatch ==
    ASSUME NEW R \in SUBSET Agents, NEW running \in SUBSET Agents, R \cap running = {},
           NEW cands, NEW max, NEW caps \in [BatchIds -> Nat], NEW b \in BatchIds,
           Selects(R, cands, running, max, caps),
           Cardinality(InBatch(running, b)) <= caps[b]
    PROVE  Cardinality(InBatch(running \cup R, b)) <= caps[b]
  <1> DEFINE X == InBatch(running, b)
             Y == InBatch(R, b)
  <1>1. InBatch(running \cup R, b) = X \cup Y /\ X \cap Y = {}
    BY Zenon DEF InBatch
  <1>2. X \in SUBSET Agents /\ Y \in SUBSET Agents
    BY Zenon DEF InBatch
  <1>3. /\ IsFiniteSet(X) /\ Cardinality(X) \in Nat
        /\ IsFiniteSet(Y) /\ Cardinality(Y) \in Nat
    BY <1>2, FiniteAgents, Zenon
  <1>4. Cardinality(X \cup Y) = Cardinality(X) + Cardinality(Y)
    BY <1>1, <1>2, DisjointChildren, Zenon
  <1>5. CASE Y = {}
    BY <1>1, <1>5, Zenon
  <1>6. CASE Y # {}
    <2>1. PICK a \in R : batch[a] = b
      BY <1>6, Zenon DEF InBatch
    <2>2. Cardinality(X) + Cardinality(Y) <= caps[b]
      BY <2>1, Zenon DEF Selects
    <2>. QED BY <1>1, <1>4, <2>2, Zenon
  <1>. QED BY <1>5, <1>6, Zenon

\* A selection that starts a child leaves at most max threads in use.
LEMMA SelectsThreads ==
    ASSUME NEW R \in SUBSET Agents, NEW running \in SUBSET Agents, R \cap running = {},
           NEW cands, NEW max \in Nat, NEW caps,
           Selects(R, cands, running, max, caps)
    PROVE  R = {} \/ Cardinality(running \cup R) <= max
  <1>1. /\ IsFiniteSet(R) /\ Cardinality(R) \in Nat
        /\ IsFiniteSet(running) /\ Cardinality(running) \in Nat
    BY FiniteAgents, Zenon
  <1>2. Cardinality(running \cup R) = Cardinality(running) + Cardinality(R)
    BY DisjointChildren, Zenon
  <1>3. Cardinality(R) <= IF max > Cardinality(running) THEN max - Cardinality(running) ELSE 0
    BY Zenon DEF Selects
  <1>4. CASE max > Cardinality(running)
    BY <1>1, <1>2, <1>3, <1>4
  <1>5. CASE ~(max > Cardinality(running))
    BY <1>1, <1>3, <1>5, FS_EmptySet
  <1>. QED BY <1>4, <1>5, Zenon

----------------------------------------------------------------------------
\* The steps of a child's task.
PcValues == {"none", "reserved", "refused", "looping", "ended", "erred", "settling", "done"}

\* The children of gone held a slot or were queued, and the caller, when it is a
\* child, is past its own slot.
MayReserve(gone, final, by, next) ==
    /\ gone \in SUBSET Agents /\ final \in Terminal
    /\ by \in Agents \cup {BySpawn, ByCancel, ByPolicy}
    /\ next \in {"none", "settling", "done"}
    /\ \A a \in gone : status[a] \in {"Queued", "Running"}
    /\ by \in Agents => by \in gone \/ status[by] \in Terminal
    /\ final = "Cancelled" \/ gone \subseteq {by}
    /\ UNCHANGED idVars
    /\ call' # "bind" \/ UNCHANGED <<call, sel, left>>

\* The state after a reservation that went by max threads.
Reserved(max) ==
    /\ status' \in [Agents -> {"Absent", "Queued", "Running"} \cup Terminal]
    /\ pc' \in [Agents -> PcValues]
    /\ owner' \in [Agents -> Agents \cup {BySpawn, ByCancel, ByPolicy}]
    /\ IdInv' /\ BindInv' /\ TaskInv' /\ BatchBounded' /\ SlotHasTask'
    /\ TerminalKept
    /\ InStatus("Running")' \subseteq InStatus("Running") \/ RunningWithin(max)

\* What a reservation preserves.
LEMMA ReserveInv ==
    ASSUME NEW gone, NEW final, NEW max \in Nat, NEW by, NEW next,
           Inv, MayReserve(gone, final, by, next),
           ReserveQueuedStarts(gone, final, max, by, next)
    PROVE  Reserved(max)
  <1> USE DEF MayReserve
  <1> DEFINE queued  == InStatus("Queued") \ gone
             running == InStatus("Running") \ gone
  <1>1. PICK R \in SUBSET queued :
          /\ Selects(R, queued, running, max, batchMax)
          /\ status' = [a \in Agents |-> IF a \in R THEN "Running"
                                         ELSE IF a \in gone THEN final ELSE status[a]]
          /\ pc' = [a \in Agents |-> IF a \in R THEN "reserved"
                                     ELSE IF a = by THEN next ELSE pc[a]]
          /\ owner' = [a \in Agents |-> IF a \in R THEN by ELSE owner[a]]
    BY Zenon DEF ReserveQueuedStarts
  <1>2. R \in SUBSET Agents /\ running \in SUBSET Agents /\ R \cap running = {}
    BY Zenon DEF InStatus
  <1>3. \A a \in R : status[a] = "Queued" /\ a \notin gone
    BY Zenon DEF InStatus
  <1>4. InStatus("Running")' = running \cup R
    BY <1>1, <1>3, Zenon DEF InStatus, Terminal
  <1>5. /\ status' \in [Agents -> {"Absent", "Queued", "Running"} \cup Terminal]
        /\ pc' \in [Agents -> PcValues]
        /\ owner' \in [Agents -> Agents \cup {BySpawn, ByCancel, ByPolicy}]
    BY <1>1, Zenon DEF Inv, TypeOK, PcValues
  <1>6. \A a \in Agents : status[a] = "Absent" => status'[a] = "Absent"
    BY <1>1, <1>3, Zenon
  <1>7. IdInv' /\ BindInv'
    BY <1>6, Zenon DEF Inv, TypeOK, IdInv, BindInv, idVars
  <1>8. TaskInv'
    BY <1>1, <1>3, Zenon DEF Inv, TypeOK, TaskInv, Terminal
  <1>9. SlotHasTask'
    BY <1>1, <1>3, Zenon DEF Inv, TypeOK, SlotHasTask, Terminal
  <1>10. TerminalKept
    BY <1>1, <1>3, Zenon DEF TerminalKept, Terminal
  <1>11. BatchBounded'
    <2> SUFFICES ASSUME NEW b \in BatchIds
                 PROVE  Cardinality(InBatch(running \cup R, b)) <= batchMax[b]
      BY <1>4, Zenon DEF BatchBounded, InBatch, idVars
    <2>1. Cardinality(InBatch(running, b)) <= batchMax[b]
      <3> DEFINE X == InBatch(running, b)
                 Y == InBatch(InStatus("Running"), b)
      <3>1. X \in SUBSET Y /\ Y \in SUBSET Agents
        BY Zenon DEF InBatch, InStatus
      <3>2. /\ IsFiniteSet(Y) /\ Cardinality(Y) \in Nat
            /\ Cardinality(X) \in Nat /\ Cardinality(X) <= Cardinality(Y)
        BY <3>1, FiniteAgents, FS_Subset, Zenon
      <3>3. Cardinality(Y) <= batchMax[b] /\ batchMax[b] \in Nat
        BY Zenon DEF Inv, TypeOK, BatchBounded
      <3>. QED BY <3>2, <3>3
    <2>. QED BY <1>1, <1>2, <2>1, SelectsBatch, Zenon DEF Inv, TypeOK
  <1>12. InStatus("Running")' \subseteq InStatus("Running") \/ RunningWithin(max)
    BY <1>1, <1>2, <1>4, SelectsThreads, Zenon DEF RunningWithin
  <1>. QED BY <1>5, <1>7, <1>8, <1>9, <1>10, <1>11, <1>12, Zenon DEF Reserved

----------------------------------------------------------------------------
\* What every step does: it keeps the invariant and the two action properties.
Good == Inv' /\ TerminalKept /\ StartStep

\* The policy in force is a number of threads.
LEMMA LimitType == TypeOK => EffectiveMaxThreads \in Nat
  BY ConstantsAssumption, Zenon DEF TypeOK, EffectiveMaxThreads

\* A step that changes no status, batch or id, and no task of a running child in
\* a way that loses it, is good as soon as it keeps the types.
LEMMA QuietStep ==
    ASSUME Inv, TypeOK', UNCHANGED <<status, batch, batchMax, nextId, nextBatch>>,
           call' # "bind" \/ UNCHANGED <<call, sel, left>>,
           \A a \in Agents :
               \/ pc'[a] = pc[a]
               \/ /\ status[a] \in {"Running", "Cancelled"}
                  /\ pc'[a] \in {"refused", "looping", "ended", "erred"}
               \/ status[a] # "Running" /\ pc'[a] = "done"
    PROVE  Good
  <1>1. InStatus("Running")' = InStatus("Running")
    BY Zenon DEF InStatus
  <1>2. BatchBounded'
    BY <1>1, Zenon DEF Inv, BatchBounded, InBatch
  <1>3. IdInv' /\ BindInv'
    BY Zenon DEF Inv, IdInv, BindInv
  <1>4. TaskInv' /\ SlotHasTask'
    BY Zenon DEF Inv, TaskInv, SlotHasTask
  <1>. QED BY <1>1, <1>2, <1>3, <1>4, Zenon DEF Good, Inv, TerminalKept, StartStep

\* The steps of update_policy.
LEMMA PolicyGood == Inv /\ PolicyNext => Good
  <1> USE DEF idVars, tokenVars, callVars, taskVars, startVars
  <1>1. ASSUME Inv, NEW on \in BOOLEAN, NEW max \in ThreadLimits, PolicyStoreLimit(on, max)
        PROVE  Good
    <2>1. TypeOK'
      BY <1>1, ConstantsAssumption DEF PolicyStoreLimit, Inv, TypeOK
    <2>. QED BY <1>1, <2>1, QuietStep, Zenon DEF PolicyStoreLimit
  <1>2. ASSUME Inv, PolicyStoreEnabled PROVE Good
    <2>1. enabled' \in BOOLEAN
      BY <1>2, Zenon DEF PolicyStoreEnabled
    <2>2. TypeOK'
      BY <1>2, <2>1, Zenon DEF PolicyStoreEnabled, Inv, TypeOK
    <2>. QED BY <1>2, <2>2, QuietStep, Zenon DEF PolicyStoreEnabled
  <1>3. ASSUME Inv, PolicyReserve PROVE Good
    <2>1. EffectiveMaxThreads \in Nat
      BY <1>3, LimitType, Zenon DEF Inv
    <2>2. Reserved(EffectiveMaxThreads)
      <3>1. ByPolicy \notin Agents
        BY ConstantsAssumption DEF ByPolicy, Agents
      <3>2. MayReserve({}, "Ended", ByPolicy, "none")
        BY <1>3, <3>1, Zenon DEF PolicyReserve, MayReserve, Terminal
      <3>3. ReserveQueuedStarts({}, "Ended", EffectiveMaxThreads, ByPolicy, "none")
        BY <1>3, Zenon DEF PolicyReserve
      <3>. QED BY <1>3, <2>1, <3>2, <3>3, ReserveInv, Zenon
    <2>3. TypeOK'
      BY <1>3, <2>2, Zenon DEF PolicyReserve, Reserved, Inv, TypeOK, PcValues
    <2>. QED BY <2>2, <2>3, Zenon DEF Good, Reserved, Inv, StartStep
  <1>. QED BY <1>1, <1>2, <1>3, Zenon DEF PolicyNext

\* The insertion of at least one accepted child: nobody of the new batch runs
\* before it, and only its children start.
LEMMA InsertGood ==
    ASSUME Inv, NEW cap \in Caps, SpawnInsert(cap), sel # {}
    PROVE  Good
  <1> USE DEF policyVars, tokenVars
  <1> DEFINE running == InStatus("Running")
             max     == EffectiveMaxThreads
  <1>1. PICK R \in SUBSET sel :
          /\ Selects(R, sel, running, max, batchMax')
          /\ status' = [a \in Agents |-> IF a \in R THEN "Running"
                                         ELSE IF a \in sel THEN "Queued" ELSE status[a]]
          /\ pc' = [a \in Agents |-> IF a \in R THEN "reserved" ELSE pc[a]]
          /\ owner' = [a \in Agents |-> IF a \in R THEN BySpawn ELSE owner[a]]
    BY Zenon DEF SpawnInsert
  <1>2. /\ call = "bind" /\ call' = "launch"
        /\ batchMax' = [batchMax EXCEPT ![nextBatch] =
                           IF cap < Cardinality(sel) THEN cap ELSE Cardinality(sel)]
        /\ UNCHANGED <<enabled, maxThreads, policy, updates, nextId, nextBatch, batch, own,
                       batchToken, cancels, sel, left, want, limit>>
    BY Zenon DEF SpawnInsert
  <1>3. sel \in SUBSET Agents /\ running \in SUBSET Agents /\ nextBatch \in BatchIds
    BY Zenon DEF Inv, TypeOK, InStatus
  <1>4. Cardinality(sel) \in Nat
    BY <1>3, FiniteAgents, Zenon
  <1>5. \A a \in sel : a <= nextId /\ status[a] = "Absent" /\ batch[a] = nextBatch
    BY <1>2, Zenon DEF Inv, BindInv
  <1>6. batchMax' \in [BatchIds -> Nat]
    BY <1>2, <1>3, <1>4, ConstantsAssumption, Zenon DEF Inv, TypeOK
  <1>7. TypeOK'
    BY <1>1, <1>2, <1>3, <1>6, Zenon DEF Inv, TypeOK
  <1>8. R \cap running = {} /\ InStatus("Running")' = running \cup R
    BY <1>1, <1>3, <1>5, Zenon DEF InStatus
  <1>9. IdInv' /\ BindInv'
    <2>1. \A a \in Agents : a > nextId => a \notin sel
      BY <1>3, <1>5 DEF Inv, TypeOK, Agents
    <2>. QED BY <1>1, <1>2, <1>3, <2>1, Zenon DEF Inv, TypeOK, IdInv, BindInv
  <1>10. TaskInv' /\ SlotHasTask'
    BY <1>1, <1>3, <1>5, Zenon DEF Inv, TypeOK, TaskInv, SlotHasTask
  <1>11. BatchBounded'
    <2> SUFFICES ASSUME NEW b \in BatchIds
                 PROVE  Cardinality(InBatch(running \cup R, b)) <= batchMax'[b]
      BY <1>2, <1>8, Zenon DEF BatchBounded, InBatch
    <2>1. Cardinality(InBatch(running, b)) <= batchMax'[b]
      <3>1. CASE b = nextBatch
        <4>1. InBatch(running, b) = {}
          BY <1>2, <3>1, Zenon DEF InBatch, InStatus, Inv, BindInv
        <4>. QED BY <4>1, <1>6, FS_EmptySet
      <3>2. CASE b # nextBatch
        BY <1>2, <3>2, Zenon DEF Inv, TypeOK, BatchBounded
      <3>. QED BY <3>1, <3>2, Zenon
    <2>. QED BY <1>1, <1>3, <1>6, <1>8, <2>1, SelectsBatch, Zenon
  <1>12. TerminalKept
    BY <1>1, <1>5, Zenon DEF TerminalKept, Terminal
  <1>13. StartStep
    <2>1. max \in Nat
      BY LimitType, Zenon DEF Inv
    <2>. QED BY <1>1, <1>3, <1>8, <2>1, SelectsThreads, Zenon DEF StartStep, RunningWithin
  <1>. QED BY <1>7, <1>9, <1>10, <1>11, <1>12, <1>13, Zenon DEF Good, Inv

\* The steps of spawn.
LEMMA SpawnGood == Inv /\ SpawnNext => Good
  <1> USE DEF policyVars, idVars, tokenVars, callVars, taskVars, startVars
  <1>2. ASSUME Inv, NEW n \in 1..MaxTasks, SpawnBegin(n) PROVE Good
    <2>1. TypeOK'
      BY <1>2, ConstantsAssumption DEF SpawnBegin, Inv, TypeOK, BatchIds
    <2>2. InStatus("Running")' = InStatus("Running")
      BY <1>2, Zenon DEF SpawnBegin, InStatus
    <2>3. BatchBounded'
      BY <1>2, <2>2, Zenon DEF SpawnBegin, Inv, BatchBounded, InBatch
    <2>4. IdInv' /\ BindInv'
      <3>1. IdInv'
        BY <1>2, ConstantsAssumption DEF SpawnBegin, Inv, TypeOK, IdInv, BatchIds
      <3>2. BindInv'
        BY <1>2, ConstantsAssumption DEF SpawnBegin, Inv, TypeOK, IdInv, BindInv, BatchIds
      <3>. QED BY <3>1, <3>2, Zenon
    <2>5. TaskInv' /\ SlotHasTask'
      BY <1>2, Zenon DEF SpawnBegin, Inv, TaskInv, SlotHasTask
    <2>. QED BY <1>2, <2>1, <2>2, <2>3, <2>4, <2>5, Zenon
           DEF SpawnBegin, Good, Inv, TerminalKept, StartStep
  <1>3. ASSUME Inv, NEW outcome \in {"accepted", "refused", "unbound"}, SpawnBind(outcome)
        PROVE  Good
    <2> DEFINE a == nextId + 1
    <2>1. a \in Agents /\ status[a] = "Absent"
      BY <1>3, ConstantsAssumption DEF SpawnBind, Inv, TypeOK, IdInv, BindInv, Agents
    <2>2. TypeOK' /\ IdInv' /\ BindInv'
      <3>1. /\ nextId \in Nat /\ nextBatch \in BatchIds /\ nextBatch \in Nat
            /\ left \in Nat /\ left > 0 /\ left' = left - 1
            /\ call = "bind" /\ call' = "bind" /\ nextId + left <= NumAgents
        BY <1>3, ConstantsAssumption DEF SpawnBind, Inv, TypeOK, BindInv, BatchIds
      <3>2. nextId' \in 0..NumAgents /\ left' \in Nat /\ nextId' \in {nextId, a}
        BY <1>3, <3>1, ConstantsAssumption DEF SpawnBind
      <3>3. nextId' + left' <= NumAgents /\ nextBatch' = nextBatch /\ status' = status
        BY <1>3, <3>1, <3>2, ConstantsAssumption DEF SpawnBind
      <3>4. CASE outcome = "accepted"
        <4>1. /\ nextId' = a /\ sel' = sel \cup {a}
              /\ batch' = [batch EXCEPT ![a] = nextBatch]
          BY <1>3, <3>4, Zenon DEF SpawnBind
        <4>2. TypeOK'
          BY <1>3, <2>1, <3>1, <3>2, <4>1, Zenon DEF SpawnBind, Inv, TypeOK
        <4>3. IdInv'
          BY <1>3, <2>1, <3>1, <3>3, <4>1 DEF Inv, TypeOK, IdInv, Agents, BatchIds
        <4>4. \A x \in sel' : x <= nextId' /\ status'[x] = "Absent" /\ batch'[x] = nextBatch'
          <5>1. \A x \in sel : x \in Agents /\ x \in Int /\ x <= nextId /\ x # a
            BY <1>3, <3>1 DEF Inv, TypeOK, BindInv, Agents
          <5>. QED BY <1>3, <2>1, <3>1, <3>3, <4>1, <5>1 DEF Inv, TypeOK, BindInv
        <4>5. \A x \in Agents : batch'[x] = nextBatch' => status'[x] = "Absent"
          BY <1>3, <2>1, <3>1, <3>3, <4>1, Zenon DEF Inv, TypeOK, BindInv
        <4>. QED BY <3>3, <4>2, <4>3, <4>4, <4>5, Zenon DEF BindInv
      <3>5. CASE outcome # "accepted"
        <4>1. UNCHANGED <<sel, batch>>
          BY <1>3, <3>5, Zenon DEF SpawnBind, Inv, TypeOK
        <4>2. TypeOK'
          BY <1>3, <3>2, <4>1, Zenon DEF SpawnBind, Inv, TypeOK
        <4>3. IdInv'
          BY <1>3, <3>1, <3>2, <3>3, <4>1 DEF Inv, TypeOK, IdInv, Agents
        <4>4. \A x \in sel : x <= nextId'
          BY <1>3, <3>1, <3>2 DEF Inv, TypeOK, BindInv, Agents
        <4>. QED BY <1>3, <3>1, <3>3, <4>1, <4>2, <4>3, <4>4, Zenon DEF Inv, BindInv
      <3>. QED BY <3>4, <3>5, Zenon
    <2>5. InStatus("Running")' = InStatus("Running")
      BY <1>3, Zenon DEF SpawnBind, InStatus
    <2>6. BatchBounded'
      <3> SUFFICES ASSUME NEW b \in BatchIds
                   PROVE  InBatch(InStatus("Running"), b)' = InBatch(InStatus("Running"), b)
        BY <1>3, Zenon DEF SpawnBind, Inv, BatchBounded
      <3>. QED BY <1>3, <2>1, <2>5, Zenon DEF SpawnBind, InBatch, InStatus, Inv, TypeOK
    <2>7. TaskInv' /\ SlotHasTask'
      BY <1>3, Zenon DEF SpawnBind, Inv, TaskInv, SlotHasTask
    <2>. QED BY <1>3, <2>2, <2>5, <2>6, <2>7, Zenon
           DEF SpawnBind, Good, Inv, TerminalKept, StartStep
  <1>4. ASSUME Inv, NEW cap \in Caps, SpawnInsert(cap), sel = {} PROVE Good
    <2>1. TypeOK'
      BY <1>4, Zenon DEF SpawnInsert, Inv, TypeOK
    <2>. QED BY <1>4, <2>1, QuietStep, Zenon DEF SpawnInsert
  <1>5. ASSUME Inv, NEW cap \in Caps, SpawnInsert(cap), sel # {} PROVE Good
    BY <1>5, InsertGood, Zenon
  <1>6. ASSUME Inv, SpawnReturn PROVE Good
    <2>1. TypeOK'
      BY <1>6, Zenon DEF SpawnReturn, Inv, TypeOK
    <2>. QED BY <1>6, <2>1, QuietStep, Zenon DEF SpawnReturn
  <1>. QED BY <1>2, <1>3, <1>4, <1>5, <1>6, Zenon DEF SpawnNext, SpawnStep

\* The steps of cancel and the cancellation of a run.
LEMMA CancelGood == Inv /\ CancelNext => Good
  <1> USE DEF policyVars, idVars, tokenVars, callVars, taskVars, startVars
  <1>1. ASSUME Inv, NEW ids \in SUBSET (1..nextId), Cancel(ids) PROVE Good
    <2> DEFINE gone == {a \in ids : status[a] \in {"Queued", "Running"}}
    <2>1. EffectiveMaxThreads \in Nat
      BY <1>1, LimitType, Zenon DEF Inv
    <2>2. MayReserve(gone, "Cancelled", ByCancel, "none")
      <3>1. \A x \in 1..nextId : x \in Agents
        BY <1>1, ConstantsAssumption DEF Inv, TypeOK, Agents
      <3>2. ByCancel \notin Agents
        BY ConstantsAssumption DEF ByCancel, Agents
      <3>. QED BY <1>1, <3>1, <3>2, Zenon DEF Cancel, MayReserve, Terminal
    <2>3. ReserveQueuedStarts(gone, "Cancelled", EffectiveMaxThreads, ByCancel, "none")
      BY <1>1, Zenon DEF Cancel
    <2>4. Reserved(EffectiveMaxThreads)
      <3> HIDE DEF gone
      <3>. QED BY <1>1, <2>1, <2>2, <2>3, ReserveInv, Zenon
    <2>5. own' \in [Agents -> BOOLEAN] /\ cancels' \in 0..MaxCancels
      BY <1>1, ConstantsAssumption DEF Cancel, Inv, TypeOK
    <2>6. TypeOK'
      BY <1>1, <2>4, <2>5, Zenon DEF Cancel, Reserved, Inv, TypeOK, PcValues
    <2>. QED BY <2>4, <2>6, Zenon DEF Good, Reserved, Inv, StartStep
  <1>2. ASSUME Inv, CancelReturn PROVE Good
    <2>1. TypeOK'
      BY <1>2, Zenon DEF CancelReturn, Inv, TypeOK
    <2>. QED BY <1>2, <2>1, QuietStep, Zenon DEF CancelReturn
  <1>3. ASSUME Inv, NEW b \in BatchIds, CancelRun(b) PROVE Good
    <2>1. TypeOK'
      BY <1>3, ConstantsAssumption DEF CancelRun, Inv, TypeOK
    <2>. QED BY <1>3, <2>1, QuietStep, Zenon DEF CancelRun
  <1>4. Inv /\ (\E ids \in (SUBSET (1..nextId)) \ {{}} : Cancel(ids)) => Good
    BY <1>1, Zenon
  <1>5. Inv /\ (\E b \in BatchIds : CancelRun(b)) => Good
    BY <1>3, Zenon
  <1>. QED BY <1>2, <1>4, <1>5, Zenon DEF CancelNext

\* A child that gives up its slot, or finds that it has none any more, and
\* promotes queued children.
LEMMA SettleGood ==
    ASSUME Inv, NEW a \in Agents, NEW gone \in SUBSET {a}, NEW final \in Terminal,
           NEW max \in Nat, NEW next \in {"settling", "done"},
           gone = {} => status[a] \in Terminal,
           gone = {a} => status[a] = "Running",
           ReserveQueuedStarts(gone, final, max, a, next),
           UNCHANGED <<policyVars, idVars, tokenVars, callVars>>,
           want' \in [Agents -> Terminal], limit' \in [Agents -> Nat]
    PROVE  /\ Inv' /\ TerminalKept
           /\ InStatus("Running")' \subseteq InStatus("Running") \/ RunningWithin(max)
  <1>1. MayReserve(gone, final, a, next)
    BY Zenon DEF MayReserve, callVars
  <1>2. Reserved(max)
    BY <1>1, ReserveInv, Zenon
  <1>3. TypeOK'
    BY <1>2, Zenon DEF Reserved, Inv, TypeOK, PcValues, policyVars, idVars, tokenVars, callVars
  <1>. QED BY <1>2, <1>3, Zenon DEF Reserved, Inv

\* The same, by the limit in force: the step is good.
LEMMA SettleInForce ==
    ASSUME Inv, NEW a \in Agents, NEW gone \in SUBSET {a}, NEW final \in Terminal,
           NEW next \in {"settling", "done"},
           gone = {} => status[a] \in Terminal,
           gone = {a} => status[a] = "Running",
           ReserveQueuedStarts(gone, final, EffectiveMaxThreads, a, next),
           UNCHANGED <<policyVars, idVars, tokenVars, callVars>>,
           want' \in [Agents -> Terminal], limit' \in [Agents -> Nat]
    PROVE  Good
  <1>1. EffectiveMaxThreads \in Nat
    BY LimitType, Zenon DEF Inv
  <1>2. /\ Inv' /\ TerminalKept
        /\ \/ InStatus("Running")' \subseteq InStatus("Running")
           \/ RunningWithin(EffectiveMaxThreads)
    BY <1>1, SettleGood, Zenon
  <1>. QED BY <1>2, Zenon DEF Good, StartStep

\* The steps of a child's task.
LEMMA ChildGood == ASSUME Inv, NEW a \in Agents, ChildStep(a) PROVE Good
  <1>0. /\ EffectiveMaxThreads \in Nat /\ want[a] \in Terminal /\ limit[a] \in Nat
        /\ "Ended" \in Terminal /\ "Cancelled" \in Terminal
        /\ {a} \in SUBSET {a} /\ {} \in SUBSET {a} /\ {a} # {}
        /\ "settling" \in {"settling", "done"} /\ "done" \in {"settling", "done"}
    <2>1. EffectiveMaxThreads \in Nat
      BY LimitType, Zenon DEF Inv
    <2>2. want[a] \in Terminal /\ limit[a] \in Nat
      BY Zenon DEF Inv, TypeOK
    <2>. QED BY <2>1, <2>2, Zenon DEF Terminal
  <1>1. ASSUME NEW built \in BOOLEAN, Launch(a, built) PROVE Good
    <2>1. TypeOK'
      BY <1>1, Zenon DEF Launch, Inv, TypeOK, Terminal, policyVars, idVars, tokenVars, callVars
    <2>2. /\ status[a] \in {"Running", "Cancelled"}
          /\ pc' = [pc EXCEPT ![a] = "looping"] \/ pc' = [pc EXCEPT ![a] = "refused"]
      BY <1>1, Zenon DEF Launch, Inv, TaskInv
    <2>3. UNCHANGED <<status, batch, batchMax, nextId, nextBatch, call, sel, left>>
      BY <1>1, Zenon DEF Launch, idVars, callVars
    <2>4. \A x \in Agents :
            \/ pc'[x] = pc[x]
            \/ status[x] \in {"Running", "Cancelled"} /\ pc'[x] \in {"refused", "looping"}
      BY <2>2, Zenon DEF Inv, TypeOK
    <2>. QED BY <2>1, <2>3, <2>4, QuietStep, Zenon
  <1>2. ASSUME ClaimRefused(a) PROVE Good
    <2>1. want' \in [Agents -> Terminal] /\ limit' \in [Agents -> Nat]
      BY <1>2, Zenon DEF ClaimRefused, Inv, TypeOK, Terminal
    <2>2. CASE status[a] \notin Terminal
      <3>1. status[a] = "Running"
        BY <1>2, <2>2, Zenon DEF ClaimRefused, Inv, TaskInv, Terminal
      <3>2. /\ ReserveQueuedStarts({a}, want[a], EffectiveMaxThreads, a, "settling")
            /\ UNCHANGED <<policyVars, idVars, tokenVars, callVars>>
        BY <1>2, <2>2, Zenon DEF ClaimRefused
      <3>. QED BY <1>0, <2>1, <3>1, <3>2, SettleInForce, Zenon
    <2>3. CASE status[a] \in Terminal /\ owner[a] = BySpawn /\ want[a] = "Ended"
      <3>1. /\ pc' = [pc EXCEPT ![a] = "done"] /\ UNCHANGED <<status, owner>>
            /\ UNCHANGED <<policyVars, idVars, tokenVars, callVars>>
        BY <1>2, <2>3, Zenon DEF ClaimRefused
      <3>2. TypeOK'
        BY <2>1, <3>1, Zenon DEF Inv, TypeOK, policyVars, idVars, tokenVars, callVars
      <3>3. UNCHANGED <<status, batch, batchMax, nextId, nextBatch, call, sel, left>>
        BY <3>1, Zenon DEF idVars, callVars
      <3>4. \A x \in Agents : pc'[x] = pc[x] \/ (status[x] # "Running" /\ pc'[x] = "done")
        <4>1. status[a] # "Running" /\ pc \in [Agents -> PcValues]
          BY <2>3, Zenon DEF Terminal, Inv, TypeOK, PcValues
        <4>2. pc' = [pc EXCEPT ![a] = "done"]
          BY <3>1, Zenon
        <4>3. SUFFICES ASSUME NEW x \in Agents
                       PROVE  pc'[x] = pc[x] \/ (status[x] # "Running" /\ pc'[x] = "done")
          BY Zenon
        <4>4. CASE x = a
          BY <4>1, <4>2, <4>4, Zenon
        <4>5. CASE x # a
          BY <4>1, <4>2, <4>5, Zenon
        <4>. QED BY <4>4, <4>5, Zenon
      <3>. QED BY <3>2, <3>3, <3>4, QuietStep, Zenon
    <2>4. CASE status[a] \in Terminal /\ ~(owner[a] = BySpawn /\ want[a] = "Ended")
      <3>1. /\ ReserveQueuedStarts({}, want[a], EffectiveMaxThreads, a, "done")
            /\ UNCHANGED <<policyVars, idVars, tokenVars, callVars>>
        BY <1>2, <2>4, Zenon DEF ClaimRefused
      <3>. QED BY <1>0, <2>1, <2>4, <3>1, SettleInForce, Zenon
    <2>. QED BY <2>2, <2>3, <2>4, Zenon
  <1>3. ASSUME NEW result \in Terminal, LoopEnds(a, result) PROVE Good
    <2>1. TypeOK'
      BY <1>3, Zenon DEF LoopEnds, Inv, TypeOK, policyVars, idVars, tokenVars, callVars
    <2>. QED BY <1>3, <2>1, QuietStep, Zenon
           DEF LoopEnds, Inv, TypeOK, TaskInv, policyVars, idVars, callVars
  <1>4. ASSUME ClaimEnded(a) PROVE Good
    <2>1. want' \in [Agents -> Terminal] /\ limit' \in [Agents -> Nat]
      BY <1>4, Zenon DEF ClaimEnded, Inv, TypeOK, Terminal
    <2>2. CASE status[a] = "Cancelled"
      <3>1. /\ ReserveQueuedStarts({}, "Cancelled", EffectiveMaxThreads, a, "done")
            /\ UNCHANGED <<policyVars, idVars, tokenVars, callVars>>
        BY <1>4, <2>2, Zenon DEF ClaimEnded
      <3>. QED BY <1>0, <2>1, <2>2, <3>1, SettleInForce, Zenon
    <2>3. CASE status[a] # "Cancelled"
      <3>1. status[a] = "Running"
        BY <1>4, <2>3, Zenon DEF ClaimEnded, Inv, TaskInv
      <3>2. /\ ReserveQueuedStarts({a}, want[a], EffectiveMaxThreads, a, "settling")
            /\ UNCHANGED <<policyVars, idVars, tokenVars, callVars>>
        BY <1>4, <2>3, Zenon DEF ClaimEnded
      <3>. QED BY <1>0, <2>1, <3>1, <3>2, SettleInForce, Zenon
    <2>. QED BY <2>2, <2>3, Zenon
  <1>5. ASSUME LoopErrs(a) PROVE Good
    <2>1. TypeOK'
      BY <1>0, <1>5, Zenon DEF LoopErrs, Inv, TypeOK, Terminal, policyVars, idVars, tokenVars, callVars
    <2>. QED BY <1>5, <2>1, QuietStep, Zenon
           DEF LoopErrs, Inv, TypeOK, TaskInv, policyVars, idVars, callVars
  <1>6. ASSUME ClaimErred(a) PROVE Good
    <2>1. want' \in [Agents -> Terminal] /\ limit' \in [Agents -> Nat]
      BY <1>6, Zenon DEF ClaimErred, Inv, TypeOK, Terminal
    <2>2. UNCHANGED <<policyVars, idVars, tokenVars, callVars>>
      BY <1>6, Zenon DEF ClaimErred
    <2>3. /\ Inv' /\ TerminalKept
          /\ InStatus("Running")' \subseteq InStatus("Running") \/ RunningWithin(limit[a])
      <3>1. CASE status[a] \notin Terminal
        <4>1. status[a] = "Running"
          BY <1>6, <3>1, Zenon DEF ClaimErred, Inv, TaskInv, Terminal
        <4>2. ReserveQueuedStarts({a}, want[a], limit[a], a, "settling")
          BY <1>6, <3>1, Zenon DEF ClaimErred
        <4>. QED BY <1>0, <2>1, <2>2, <4>1, <4>2, SettleGood, Zenon
      <3>2. CASE status[a] \in Terminal
        <4>1. ReserveQueuedStarts({}, want[a], limit[a], a, "done")
          BY <1>6, <3>2, Zenon DEF ClaimErred
        <4>. QED BY <1>0, <2>1, <2>2, <3>2, <4>1, SettleGood, Zenon
      <3>. QED BY <3>1, <3>2, Zenon
    <2>4. pc[a] = "erred" /\ pc'[a] # "erred"
      BY <1>6, Zenon DEF ClaimErred, ReserveQueuedStarts
    <2>. QED BY <2>3, <2>4, Zenon DEF Good, StartStep
  <1>7. ASSUME Settle(a) PROVE Good
    <2>1. TypeOK'
      BY <1>7, Zenon DEF Settle, Inv, TypeOK, policyVars, idVars, tokenVars, callVars
    <2>. QED BY <1>7, <2>1, QuietStep, Zenon
           DEF Settle, Inv, TypeOK, SlotHasTask, policyVars, idVars, callVars
  <1>. QED BY <1>1, <1>2, <1>3, <1>4, <1>5, <1>6, <1>7, Zenon DEF ChildStep

----------------------------------------------------------------------------
(***************************************************************************)
(* Slots are handed on.  A reservation leaves no queued child that the     *)
(* limits would let start, and no other step makes one startable, as long  *)
(* as the limit that finish_child_with_status has read is the limit in     *)
(* force, that is, until the first update_policy.                          *)
(***************************************************************************)
Unstartable == \A a \in Agents : ~Startable(a)

LimitIsCurrent == \A a \in Agents : pc[a] = "erred" => limit[a] = EffectiveMaxThreads

HandInv == updates = 0 => policy = "idle" /\ LimitIsCurrent /\ Unstartable

\* What a larger set of children has at least.
LEMMA CardinalityGrows ==
    ASSUME NEW S \in SUBSET Agents, NEW T \in SUBSET S
    PROVE  /\ Cardinality(S) \in Nat /\ Cardinality(T) \in Nat
           /\ Cardinality(T) <= Cardinality(S)
  BY FiniteAgents, FS_Subset, Zenon

\* A candidate that a selection passes over finds the threads or its batch full.
LEMMA SelectsLeavesNone ==
    ASSUME NEW R \in SUBSET Agents, NEW running \in SUBSET Agents, R \cap running = {},
           NEW cands, NEW max \in Nat, NEW caps \in [BatchIds -> Nat],
           batch \in [Agents -> BatchIds],
           Selects(R, cands, running, max, caps), NEW a \in Agents, a \in cands \ R
    PROVE  \/ Cardinality(running \cup R) >= max
           \/ Cardinality(InBatch(running \cup R, batch[a])) >= caps[batch[a]]
  <1>. DEFINE b == batch[a]
             B == Below(R, a)
             X == InBatch(running, b)
             Y == InBatch(R, b)
             Z == InBatch(B, b)
             available == IF max > Cardinality(running) THEN max - Cardinality(running) ELSE 0
  <1>1. /\ InBatch(running \cup R, b) = X \cup Y /\ X \cap Y = {}
        /\ X \in SUBSET Agents /\ Y \in SUBSET Agents
        /\ B \in SUBSET R /\ Z \in SUBSET Y /\ b \in BatchIds
    BY Zenon DEF InBatch, Below
  <1>2. \/ Cardinality(B) >= available
        \/ Cardinality(X) + Cardinality(Z) >= caps[b]
    BY Zenon DEF Selects
  <1>. HIDE DEF b, B, X, Y, Z
  <1>3. /\ Cardinality(R) \in Nat /\ Cardinality(B) \in Nat /\ Cardinality(B) <= Cardinality(R)
        /\ Cardinality(Y) \in Nat /\ Cardinality(Z) \in Nat /\ Cardinality(Z) <= Cardinality(Y)
    BY <1>1, CardinalityGrows, Zenon
  <1>4. /\ Cardinality(running) \in Nat /\ Cardinality(X) \in Nat
        /\ Cardinality(running \cup R) = Cardinality(running) + Cardinality(R)
        /\ Cardinality(X \cup Y) = Cardinality(X) + Cardinality(Y)
    BY <1>1, FiniteAgents, DisjointChildren, Zenon
  <1>5. CASE Cardinality(B) >= available
    BY <1>3, <1>4, <1>5
  <1>6. CASE Cardinality(X) + Cardinality(Z) >= caps[b]
    <2>1. Cardinality(X \cup Y) >= caps[b]
      BY <1>1, <1>3, <1>4, <1>6
    <2>. QED BY <1>1, <2>1, Zenon DEF b
  <1>. QED BY <1>2, <1>5, <1>6, Zenon

\* A reservation by the limit in force leaves nobody startable.
LEMMA ReserveHandsOn ==
    ASSUME Inv, NEW gone, NEW final \in Terminal, NEW by, NEW next,
           UNCHANGED <<policyVars, idVars>>,
           ReserveQueuedStarts(gone, final, EffectiveMaxThreads, by, next)
    PROVE  Unstartable'
  <1>. DEFINE queued  == InStatus("Queued") \ gone
             running == InStatus("Running") \ gone
             max     == EffectiveMaxThreads
  <1>1. PICK R \in SUBSET queued :
          /\ Selects(R, queued, running, max, batchMax)
          /\ status' = [a \in Agents |-> IF a \in R THEN "Running"
                                         ELSE IF a \in gone THEN final ELSE status[a]]
    BY Zenon DEF ReserveQueuedStarts
  <1>2. R \in SUBSET Agents /\ running \in SUBSET Agents /\ R \cap running = {}
    BY Zenon DEF InStatus
  <1>3. /\ InStatus("Running")' = running \cup R
        /\ \A a \in Agents : status'[a] = "Queued" => a \in queued \ R
    BY <1>1, Zenon DEF InStatus, Terminal
  <1>4. /\ max \in Nat /\ max' = max /\ batch \in [Agents -> BatchIds]
        /\ batchMax \in [BatchIds -> Nat] /\ UNCHANGED <<batch, batchMax>>
    BY LimitType, Zenon DEF Inv, TypeOK, policyVars, idVars, EffectiveMaxThreads
  <1>. HIDE DEF queued, running, max
  <1>5. ASSUME NEW a \in Agents, Startable(a)' PROVE FALSE
    <2>1. /\ a \in queued \ R /\ Cardinality(running \cup R) < max
          /\ Cardinality(InBatch(running \cup R, batch[a])) < batchMax[batch[a]]
      BY <1>3, <1>4, <1>5, Zenon DEF Startable, InBatch, max
    <2>2. \/ Cardinality(running \cup R) >= max
          \/ Cardinality(InBatch(running \cup R, batch[a])) >= batchMax[batch[a]]
      BY <1>1, <1>2, <1>4, <2>1, SelectsLeavesNone, Zenon
    <2>3. /\ Cardinality(running \cup R) \in Nat
          /\ Cardinality(InBatch(running \cup R, batch[a])) \in Nat /\ batchMax[batch[a]] \in Nat
      <3>1. running \cup R \in SUBSET Agents /\ InBatch(running \cup R, batch[a]) \in SUBSET Agents
        BY <1>2, Zenon DEF InBatch
      <3>. QED BY <1>4, <3>1, FiniteAgents, Zenon
    <2>. QED BY <1>4, <2>1, <2>2, <2>3
  <1>. QED BY <1>5, Zenon DEF Unstartable

\* The children a spawn call inserts take what they can, and the others find no
\* more room than before.
LEMMA InsertHandsOn ==
    ASSUME Inv, Unstartable, NEW cap \in Caps, SpawnInsert(cap), sel # {}
    PROVE  Unstartable'
  <1>. DEFINE running == InStatus("Running")
             max     == EffectiveMaxThreads
  <1>1. PICK R \in SUBSET sel :
          /\ Selects(R, sel, running, max, batchMax')
          /\ status' = [a \in Agents |-> IF a \in R THEN "Running"
                                         ELSE IF a \in sel THEN "Queued" ELSE status[a]]
    BY Zenon DEF SpawnInsert
  <1>2. /\ call = "bind" /\ UNCHANGED <<enabled, maxThreads, batch>>
        /\ batchMax' = [batchMax EXCEPT ![nextBatch] =
                           IF cap < Cardinality(sel) THEN cap ELSE Cardinality(sel)]
    BY Zenon DEF SpawnInsert, policyVars
  <1>3. /\ sel \in SUBSET Agents /\ running \in SUBSET Agents /\ nextBatch \in BatchIds
        /\ batch \in [Agents -> BatchIds] /\ batchMax \in [BatchIds -> Nat]
    BY Zenon DEF Inv, TypeOK, InStatus
  <1>4. /\ \A a \in sel : status[a] = "Absent"
        /\ \A a \in Agents : batch[a] = nextBatch => status[a] = "Absent"
    BY <1>2, Zenon DEF Inv, BindInv
  <1>5. batchMax' \in [BatchIds -> Nat] /\ \A b \in BatchIds : b # nextBatch => batchMax'[b] = batchMax[b]
    <2>1. Cardinality(sel) \in Nat
      BY <1>3, FiniteAgents, Zenon
    <2>. QED BY <1>2, <1>3, <2>1, ConstantsAssumption, Zenon
  <1>6. R \in SUBSET Agents /\ R \cap running = {} /\ InStatus("Running")' = running \cup R
    BY <1>1, <1>3, <1>4, Zenon DEF InStatus
  <1>7. max \in Nat /\ max' = max
    BY <1>2, LimitType, Zenon DEF Inv, EffectiveMaxThreads
  <1>. HIDE DEF running, max
  <1>8. ASSUME NEW a \in Agents, Startable(a)' PROVE FALSE
    <2>. DEFINE b == batch[a]
               all == running \cup R
    <2>1. /\ status'[a] = "Queued" /\ Cardinality(all) < max
          /\ Cardinality(InBatch(all, b)) < batchMax'[b]
      BY <1>2, <1>6, <1>7, <1>8, Zenon DEF Startable, InBatch, max
    <2>2. b \in BatchIds /\ batchMax'[b] \in Nat
      BY <1>3, <1>5, Zenon
    <2>3. /\ all \in SUBSET Agents /\ InBatch(all, b) \in SUBSET Agents
          /\ running \in SUBSET all /\ InBatch(running, b) \in SUBSET InBatch(all, b)
      BY <1>3, <1>6, Zenon DEF InBatch
    <2>4. /\ Cardinality(all) \in Nat /\ Cardinality(running) \in Nat
          /\ Cardinality(running) <= Cardinality(all)
      BY <2>3, CardinalityGrows, Zenon
    <2>5. /\ Cardinality(InBatch(all, b)) \in Nat /\ Cardinality(InBatch(running, b)) \in Nat
          /\ Cardinality(InBatch(running, b)) <= Cardinality(InBatch(all, b))
      BY <2>3, CardinalityGrows, Zenon
    <2>. HIDE DEF b, all
    <2>6. CASE a \in sel
      <3>1. a \in sel \ R
        BY <1>1, <2>1, <2>6, Zenon
      <3>2. Cardinality(all) >= max \/ Cardinality(InBatch(all, b)) >= batchMax'[b]
        BY <1>1, <1>3, <1>5, <1>6, <1>7, <3>1, SelectsLeavesNone, Zenon DEF b, all
      <3>. QED BY <1>7, <2>1, <2>2, <2>4, <2>5, <3>2
    <2>7. CASE a \notin sel
      <3>1. status[a] = "Queued"
        BY <1>1, <2>1, <2>7, Zenon
      <3>2. batchMax'[b] = batchMax[b]
        BY <1>4, <1>5, <2>2, <3>1, Zenon DEF b
      <3>3. ~(Cardinality(running) < max) \/ ~(Cardinality(InBatch(running, b)) < batchMax[b])
        BY <3>1, Zenon DEF Unstartable, Startable, running, max, b
      <3>. QED BY <1>7, <2>1, <2>2, <2>4, <2>5, <3>2, <3>3
    <2>. QED BY <2>6, <2>7, Zenon
  <1>. QED BY <1>8, Zenon DEF Unstartable

\* A step that leaves the statuses, the limits and the batches of the children that
\* were inserted as they are.
LEMMA NoSlotMoves ==
    ASSUME Unstartable, UNCHANGED <<status, batchMax, enabled, maxThreads>>,
           \A a \in Agents : status[a] # "Absent" => batch'[a] = batch[a]
    PROVE  Unstartable'
  <1>1. InStatus("Running")' = InStatus("Running") /\ EffectiveMaxThreads' = EffectiveMaxThreads
    BY Zenon DEF InStatus, EffectiveMaxThreads
  <1>2. \A b : InBatch(InStatus("Running"), b)' = InBatch(InStatus("Running"), b)
    BY <1>1, Zenon DEF InStatus, InBatch
  <1>. QED BY <1>1, <1>2, Zenon DEF Unstartable, Startable

----------------------------------------------------------------------------
\* The initial states satisfy the invariant.
LEMMA InitInv == Init => Inv
  <1> SUFFICES ASSUME Init PROVE Inv
    BY Zenon
  <1>1. TypeOK
    BY ConstantsAssumption DEF Init, TypeOK, Terminal, BatchIds
  <1>2. \A b \in BatchIds : InBatch(InStatus("Running"), b) = {}
    BY Zenon DEF Init, InBatch, InStatus
  <1>3. BatchBounded
    BY <1>2, FS_EmptySet DEF Init, BatchBounded
  <1>. QED BY <1>1, <1>3, ConstantsAssumption DEF Init, Inv, IdInv, BindInv, TaskInv, SlotHasTask

\* Every step preserves the invariant and satisfies both action properties.
LEMMA StepGood == Inv /\ [Next]_vars => Inv' /\ [TerminalKept]_vars /\ [StartStep]_vars
  <1>1. ASSUME Inv, Next PROVE Good
    BY <1>1, PolicyGood, SpawnGood, CancelGood, ChildGood, Zenon DEF Next
  <1>2. ASSUME Inv, UNCHANGED vars PROVE Inv'
    BY <1>2, Zenon DEF vars, policyVars, idVars, tokenVars, callVars, taskVars, startVars,
      Inv, TypeOK, IdInv, BindInv, TaskInv, BatchBounded, SlotHasTask, InBatch, InStatus
  <1>. QED BY <1>1, <1>2, Zenon DEF Good

\* The invariant holds in every reachable state, for every number of children and
\* batches, every cap and every configured limit.
THEOREM Invariance == Spec => []Inv
  BY InitInv, StepGood, PTL DEF Spec

\* Every variable keeps its type.
THEOREM TypeCorrect == Spec => []TypeOK
  BY Invariance, PTL DEF Inv

\* However spawn, settlement, cancellation and policy updates interleave, a
\* batch never has more running children than its max_concurrency.
THEOREM BatchCap == Spec => []BatchBounded
  BY Invariance, PTL DEF Inv

\* Every slot belongs to a child whose task will give it back.
THEOREM NoLeakedSlot == Spec => []SlotHasTask
  BY Invariance, PTL DEF Inv

\* A terminal status is final.
THEOREM TerminalForever == Spec => TerminalIsFinal
  BY InitInv, StepGood, PTL DEF Spec, TerminalIsFinal

\* A child is given a slot only within the limit the step went by.
THEOREM ThreadLimit == Spec => StartsWithinLimit
  BY InitInv, StepGood, PTL DEF Spec, StartsWithinLimit

\* What the steps of the tasks, the spawn calls and the cancellations keep, once
\* they leave the policy alone.
Hands == LimitIsCurrent' /\ Unstartable'

LEMMA SpawnHands ==
    ASSUME Inv, LimitIsCurrent, Unstartable, SpawnNext
    PROVE  UNCHANGED policyVars /\ Hands
  <1>1. UNCHANGED <<policyVars, limit>> /\ \A a \in Agents : pc'[a] = "erred" => pc[a] = "erred"
    <2>1. ASSUME NEW cap \in Caps, SpawnInsert(cap)
          PROVE  UNCHANGED <<policyVars, limit>> /\ \A a \in Agents : pc'[a] = "erred" => pc[a] = "erred"
      <3>1. pc' = pc \/ \E R : pc' = [a \in Agents |-> IF a \in R THEN "reserved" ELSE pc[a]]
        BY <2>1, Zenon DEF SpawnInsert, startVars
      <3>. QED BY <2>1, <3>1, Zenon DEF SpawnInsert
    <2>2. ASSUME NEW n, SpawnBegin(n) PROVE UNCHANGED <<policyVars, limit, pc>>
      BY <2>2, Zenon DEF SpawnBegin, taskVars, startVars
    <2>3. ASSUME NEW outcome, SpawnBind(outcome) PROVE UNCHANGED <<policyVars, limit, pc>>
      BY <2>3, Zenon DEF SpawnBind, taskVars, startVars
    <2>4. ASSUME SpawnReturn PROVE UNCHANGED <<policyVars, limit, pc>>
      BY <2>4, Zenon DEF SpawnReturn, taskVars, startVars
    <2>. QED BY <2>1, <2>2, <2>3, <2>4, Zenon DEF SpawnNext, SpawnStep
  <1>2. LimitIsCurrent'
    BY <1>1, Zenon DEF LimitIsCurrent, EffectiveMaxThreads, policyVars
  <1>3. ASSUME NEW n, SpawnBegin(n) PROVE Unstartable'
    BY <1>3, NoSlotMoves, Zenon DEF SpawnBegin, policyVars, taskVars, startVars
  <1>4. ASSUME NEW outcome, SpawnBind(outcome) PROVE Unstartable'
    <2>1. \A a \in Agents : status[a] # "Absent" => batch'[a] = batch[a]
      <3>1. status[nextId + 1] = "Absent" \/ nextId + 1 \notin Agents
        BY DEF Inv, TypeOK, IdInv
      <3>2. batch' = batch \/ batch' = [batch EXCEPT ![nextId + 1] = nextBatch]
        BY <1>4, Zenon DEF SpawnBind
      <3>. QED BY <3>1, <3>2, Zenon DEF Inv, TypeOK
    <2>. QED BY <1>4, <2>1, NoSlotMoves, Zenon DEF SpawnBind, policyVars, taskVars, startVars
  <1>5. ASSUME NEW cap \in Caps, SpawnInsert(cap) PROVE Unstartable'
    <2>1. CASE sel = {}
      BY <1>5, <2>1, NoSlotMoves, Zenon DEF SpawnInsert, policyVars, startVars
    <2>2. CASE sel # {}
      BY <1>5, <2>2, InsertHandsOn, Zenon
    <2>. QED BY <2>1, <2>2, Zenon
  <1>6. ASSUME SpawnReturn PROVE Unstartable'
    BY <1>6, NoSlotMoves, Zenon DEF SpawnReturn, policyVars, idVars, taskVars, startVars
  <1>. QED BY <1>1, <1>2, <1>3, <1>4, <1>5, <1>6, Zenon DEF SpawnNext, SpawnStep, Hands

\* A reservation touches no task that has read a limit.
LEMMA ReserveErrs ==
    ASSUME NEW gone, NEW final, NEW max, NEW by, NEW next, next # "erred",
           ReserveQueuedStarts(gone, final, max, by, next)
    PROVE  \A a \in Agents : pc'[a] = "erred" => pc[a] = "erred" /\ a # by
  <1>1. PICK R : pc' = [a \in Agents |-> IF a \in R THEN "reserved"
                                         ELSE IF a = by THEN next ELSE pc[a]]
    BY Zenon DEF ReserveQueuedStarts
  <1>. QED BY <1>1, Zenon

LEMMA CancelHands ==
    ASSUME Inv, LimitIsCurrent, Unstartable, CancelNext
    PROVE  UNCHANGED policyVars /\ Hands
  <1>1. ASSUME NEW ids, Cancel(ids) PROVE UNCHANGED policyVars /\ Hands
    <2>. DEFINE gone == {a \in ids : status[a] \in {"Queued", "Running"}}
    <2>1. /\ ReserveQueuedStarts(gone, "Cancelled", EffectiveMaxThreads, ByCancel, "none")
          /\ UNCHANGED <<policyVars, idVars, limit>>
      BY <1>1, Zenon DEF Cancel
    <2>. HIDE DEF gone
    <2>2. Unstartable'
      BY <2>1, ReserveHandsOn, Zenon DEF Terminal
    <2>3. \A a \in Agents : pc'[a] = "erred" => pc[a] = "erred"
      BY <2>1, ReserveErrs, Zenon
    <2>4. LimitIsCurrent'
      BY <2>1, <2>3, Zenon DEF LimitIsCurrent, EffectiveMaxThreads, policyVars
    <2>. QED BY <2>1, <2>2, <2>4, Zenon DEF Hands
  <1>2. ASSUME CancelReturn \/ \E b : CancelRun(b) PROVE UNCHANGED policyVars /\ Hands
    <2>1. UNCHANGED <<policyVars, idVars, taskVars>>
      BY <1>2, Zenon DEF CancelReturn, CancelRun
    <2>2. LimitIsCurrent'
      BY <2>1, Zenon DEF LimitIsCurrent, EffectiveMaxThreads, policyVars, taskVars, startVars
    <2>3. Unstartable'
      BY <2>1, NoSlotMoves, Zenon DEF policyVars, idVars, taskVars, startVars
    <2>. QED BY <2>1, <2>2, <2>3, Zenon DEF Hands
  <1>. QED BY <1>1, <1>2, Zenon DEF CancelNext

\* The steps of a child that leave every status alone.
LEMMA QuietHands ==
    ASSUME LimitIsCurrent, Unstartable, UNCHANGED <<policyVars, idVars, status>>,
           \A a \in Agents : pc'[a] = "erred" =>
               \/ pc[a] = "erred" /\ limit'[a] = limit[a]
               \/ limit'[a] = EffectiveMaxThreads
    PROVE  Hands
  <1>1. LimitIsCurrent'
    BY Zenon DEF LimitIsCurrent, EffectiveMaxThreads, policyVars
  <1>2. Unstartable'
    BY NoSlotMoves, Zenon DEF policyVars, idVars
  <1>. QED BY <1>1, <1>2, Zenon DEF Hands

\* A child that gives its slot back, by the limit in force.
LEMMA ReserveHands ==
    ASSUME Inv, LimitIsCurrent, NEW a \in Agents, NEW gone, NEW final \in Terminal,
           NEW next \in {"settling", "done"},
           ReserveQueuedStarts(gone, final, EffectiveMaxThreads, a, next),
           UNCHANGED <<policyVars, idVars>>, \A x \in Agents : x # a => limit'[x] = limit[x]
    PROVE  Hands
  <1>1. Unstartable'
    BY ReserveHandsOn, Zenon
  <1>2. \A x \in Agents : pc'[x] = "erred" => pc[x] = "erred" /\ x # a
    BY ReserveErrs, Zenon
  <1>3. LimitIsCurrent'
    BY <1>2, Zenon DEF LimitIsCurrent, EffectiveMaxThreads, policyVars
  <1>. QED BY <1>1, <1>3, Zenon DEF Hands

LEMMA ChildHands ==
    ASSUME Inv, LimitIsCurrent, Unstartable, NEW a \in Agents, ChildStep(a)
    PROVE  UNCHANGED policyVars /\ Hands
  <1>1. /\ want[a] \in Terminal /\ "Cancelled" \in Terminal
        /\ pc \in [Agents -> PcValues] /\ limit \in [Agents -> Nat]
    BY Zenon DEF Inv, TypeOK, Terminal, PcValues
  <1>2. ASSUME \/ \E built : Launch(a, built)
               \/ \E result : LoopEnds(a, result)
               \/ Settle(a)
        PROVE  UNCHANGED policyVars /\ Hands
    <2>1. /\ UNCHANGED <<policyVars, idVars, status, limit>>
          /\ \E s \in {"looping", "refused", "ended", "done"} : pc' = [pc EXCEPT ![a] = s]
      BY <1>2, Zenon DEF Launch, LoopEnds, Settle
    <2>2. \A x \in Agents : pc'[x] = "erred" => pc[x] = "erred" /\ limit'[x] = limit[x]
      BY <1>1, <2>1, Zenon
    <2>. QED BY <2>1, <2>2, QuietHands, Zenon
  <1>3. CASE LoopErrs(a)
    <2>1. /\ UNCHANGED <<policyVars, idVars, status>>
          /\ pc' = [pc EXCEPT ![a] = "erred"]
          /\ limit' = [limit EXCEPT ![a] = EffectiveMaxThreads]
      BY <1>3, Zenon DEF LoopErrs
    <2>2. \A x \in Agents : pc'[x] = "erred" =>
             (pc[x] = "erred" /\ limit'[x] = limit[x]) \/ limit'[x] = EffectiveMaxThreads
      BY <1>1, <2>1, Zenon
    <2>. QED BY <2>1, <2>2, QuietHands, Zenon
  <1>4. CASE ClaimRefused(a)
    <2>1. UNCHANGED <<policyVars, idVars, limit>>
      BY <1>4, Zenon DEF ClaimRefused
    <2>2. \/ ReserveQueuedStarts({a}, want[a], EffectiveMaxThreads, a, "settling")
          \/ ReserveQueuedStarts({}, want[a], EffectiveMaxThreads, a, "done")
          \/ pc' = [pc EXCEPT ![a] = "done"] /\ UNCHANGED status
      BY <1>4, Zenon DEF ClaimRefused
    <2>3. CASE pc' = [pc EXCEPT ![a] = "done"] /\ UNCHANGED status
      <3>1. \A x \in Agents : pc'[x] = "erred" => pc[x] = "erred" /\ limit'[x] = limit[x]
        BY <1>1, <2>1, <2>3, Zenon
      <3>. QED BY <2>1, <2>3, <3>1, QuietHands, Zenon
    <2>. QED BY <1>1, <2>1, <2>2, <2>3, ReserveHands, Zenon
  <1>5. CASE ClaimEnded(a)
    <2>1. UNCHANGED <<policyVars, idVars, limit>>
      BY <1>5, Zenon DEF ClaimEnded
    <2>2. \/ ReserveQueuedStarts({}, "Cancelled", EffectiveMaxThreads, a, "done")
          \/ ReserveQueuedStarts({a}, want[a], EffectiveMaxThreads, a, "settling")
      BY <1>5, Zenon DEF ClaimEnded
    <2>. QED BY <1>1, <2>1, <2>2, ReserveHands, Zenon
  <1>6. CASE ClaimErred(a)
    <2>1. /\ UNCHANGED <<policyVars, idVars>> /\ \A x \in Agents : x # a => limit'[x] = limit[x]
      BY <1>1, <1>6, Zenon DEF ClaimErred
    <2>2. limit[a] = EffectiveMaxThreads
      BY <1>6, Zenon DEF ClaimErred, LimitIsCurrent
    <2>3. \/ ReserveQueuedStarts({a}, want[a], EffectiveMaxThreads, a, "settling")
          \/ ReserveQueuedStarts({}, want[a], EffectiveMaxThreads, a, "done")
      BY <1>6, <2>2, Zenon DEF ClaimErred
    <2>. QED BY <1>1, <2>1, <2>3, ReserveHands, Zenon
  <1>. QED BY <1>2, <1>3, <1>4, <1>5, <1>6, Zenon DEF ChildStep

LEMMA HandStep == Inv /\ HandInv /\ [Next]_vars => HandInv'
  <1>. SUFFICES ASSUME Inv, HandInv, [Next]_vars, updates' = 0
                PROVE  policy' = "idle" /\ LimitIsCurrent' /\ Unstartable'
    BY Zenon DEF HandInv
  <1>1. updates \in Nat /\ (updates = 0 => policy = "idle" /\ LimitIsCurrent /\ Unstartable)
    BY ConstantsAssumption DEF Inv, TypeOK, HandInv
  <1>2. CASE PolicyNext
    <2>1. ASSUME NEW on, NEW max, PolicyStoreLimit(on, max) PROVE FALSE
      BY <1>1, <2>1 DEF PolicyStoreLimit
    <2>2. ASSUME PolicyStoreEnabled \/ PolicyReserve PROVE FALSE
      BY <1>1, <2>2, Zenon DEF PolicyStoreEnabled, PolicyReserve
    <2>. QED BY <1>2, <2>1, <2>2, Zenon DEF PolicyNext
  <1>3. CASE SpawnNext \/ CancelNext \/ \E a \in Agents : ChildStep(a)
    <2>1. UNCHANGED policyVars
      BY <1>3, Zenon DEF SpawnNext, SpawnStep, SpawnBegin, SpawnBind, SpawnInsert, SpawnReturn,
         CancelNext, Cancel, CancelReturn, CancelRun, ChildStep, Launch, ClaimRefused, LoopEnds,
         ClaimEnded, LoopErrs, ClaimErred, Settle
    <2>2. policy' = "idle" /\ LimitIsCurrent /\ Unstartable
      BY <1>1, <2>1, Zenon DEF policyVars
    <2>. QED BY <1>3, <2>2, SpawnHands, CancelHands, ChildHands, Zenon DEF Hands
  <1>4. CASE UNCHANGED vars
    <2>1. /\ UNCHANGED <<policyVars, idVars, status, pc, limit>> /\ updates' = updates
          /\ policy' = policy
      BY <1>4, Zenon DEF vars, taskVars, startVars, policyVars
    <2>. QED BY <1>1, <2>1, QuietHands, Zenon DEF Hands
  <1>. QED BY <1>2, <1>3, <1>4, Zenon DEF Next

\* Until the first update_policy a slot that is given back, by a settlement, a failed
\* start or a cancellation, is handed on at once: no queued child is left that the
\* limits would let start, however many children and batches there are.
THEOREM EverySlotIsHandedOn == Spec => []SlotsHandedOn
  <1>1. Init => HandInv
    <2>. SUFFICES ASSUME Init PROVE policy = "idle" /\ LimitIsCurrent /\ Unstartable
      BY Zenon DEF HandInv
    <2>. QED BY Zenon DEF Init, LimitIsCurrent, Unstartable, Startable
  <1>2. HandInv => SlotsHandedOn
    BY Zenon DEF HandInv, SlotsHandedOn, NoStartableLeft, Unstartable
  <1>. QED BY Invariance, <1>1, <1>2, HandStep, PTL DEF Spec

=============================================================================
