----------------------- MODULE PlanCompletionProofs ------------------------
(***************************************************************************)
(* What one step of a plan whose variables have their types does to the    *)
(* nodes that are worked on and to the root: whoever works is shown at     *)
(* work, and the root is closed only by work.  PlanLifecycleProofs draws   *)
(* the theorem from it.                                                    *)
(***************************************************************************)
EXTENDS PlanLifecycleInvariants, FiniteSetTheorems, TLAPS

\* The ids an edit takes.
LEMMA NewNodesFacts ==
    ASSUME ShapeTypes, NEW k \in Nat, HasRoom(k)
    PROVE  /\ NewNodes(k) \subseteq NodeIds /\ Cardinality(NewNodes(k)) = k
           /\ nextNode + k \in 1..(MaxNodes + 1)
  <1>1. nextNode \in Nat /\ nextNode >= 1 /\ MaxNodes \in Nat
    BY PlanAssumption DEF ShapeTypes
  <1>2. nextNode + k - 1 <= MaxNodes
    BY Zenon DEF HasRoom
  <1>3. Cardinality(NewNodes(k)) =
           IF nextNode > nextNode + k - 1 THEN 0 ELSE nextNode + k - 1 - nextNode + 1
    BY <1>1, FS_Interval DEF NewNodes
  <1>. QED BY <1>1, <1>2, <1>3 DEF NewNodes, NodeIds

LEMMA LinkedNode ==
    ASSUME TypeInv, NEW l \in LinkIds
    PROVE  links[l].node \in NodeIds \cup {NoNode} /\ links[l] \in LinkRecords
  BY Zenon DEF TypeInv, LinkTypes, LinkRecords

-----------------------------------------------------------------------------
(***************************************************************************)
(* Who works is shown at work, and the root is closed by work.             *)
(***************************************************************************)

\* The refresh of the parents makes and drops no node, and touches none that is in
\* progress or completed.
Same(st, st2) ==
    \A n \in NodeIds : /\ st[n] = "Absent" <=> st2[n] = "Absent"
                       /\ st[n] = "Superseded" <=> st2[n] = "Superseded"
                       /\ st[n] = "InProgress" <=> st2[n] = "InProgress"
                       /\ st[n] = "Completed" => st2[n] = "Completed"

LEMMA PassSame ==
    ASSUME NEW st, NEW par, NEW auto
    PROVE  Same(st, RefreshPass(st, par, auto))
  BY Zenon DEF Same, RefreshPass

\* A pass completes a node only when it has live children and all are completed.
LEMMA PassEarns ==
    ASSUME NEW st, NEW par, NEW auto, NEW n \in NodeIds, st[n] # "Completed",
           RefreshPass(st, par, auto)[n] = "Completed"
    PROVE  Children(st, par, n) # {} /\ \A c \in Children(st, par, n) : st[c] = "Completed"
  BY Zenon DEF RefreshPass

Earned(st, par, n) ==
    Children(st, par, n) # {} /\ \A c \in Children(st, par, n) : st[c] = "Completed"

LEMMA EarnedStays ==
    ASSUME NEW st, NEW st2, NEW par, NEW n, Same(st, st2), Earned(st, par, n)
    PROVE  Earned(st2, par, n)
  <1>1. Children(st, par, n) = Children(st2, par, n)
    BY Zenon DEF Same, Children, LiveNodes
  <1>2. Children(st, par, n) \subseteq NodeIds
    BY Zenon DEF Children, LiveNodes
  <1>. QED BY <1>1, <1>2, Zenon DEF Earned, Same

LEMMA RefreshEarns ==
    ASSUME NEW st, NEW par, NEW ph, NEW sc, NEW at, NEW ls, NEW lk, NEW st2,
           st2 = RefreshParentStates(st, par, ph, sc, at, ls, lk)
    PROVE  /\ Same(st, st2)
           /\ \A n \in NodeIds : st[n] # "Completed" /\ st2[n] = "Completed" => Earned(st2, par, n)
  <1>. DEFINE auto == /\ ph = "Executing" /\ sc = "Active"
                      /\ ~NodeHasLiveExecution(root, at, ls, lk)
             once == RefreshPass(st, par, auto)
  <1>1. st2 = RefreshPass(once, par, auto)
    BY Zenon DEF RefreshParentStates
  <1>2. Same(st, once)
    BY PassSame, Zenon
  <1>3. ASSUME NEW n \in NodeIds, st[n] # "Completed", once[n] = "Completed" PROVE Earned(st, par, n)
    BY <1>3, PassEarns, Zenon DEF Earned
  <1>. HIDE DEF auto, once
  <1>4. Same(once, st2)
    BY <1>1, PassSame, Zenon
  <1>5. Same(st, st2)
    BY <1>2, <1>4, Zenon DEF Same
  <1>6. ASSUME NEW n \in NodeIds, st[n] # "Completed", st2[n] = "Completed" PROVE Earned(st2, par, n)
    <2>1. CASE once[n] = "Completed"
      BY <1>3, <1>5, <1>6, <2>1, EarnedStays, Zenon
    <2>2. CASE once[n] # "Completed"
      <3>1. Earned(once, par, n)
        BY <1>1, <1>6, <2>2, PassEarns, Zenon DEF Earned
      <3>. QED BY <1>4, <3>1, EarnedStays, Zenon
    <2>. QED BY <2>1, <2>2, Zenon
  <1>. QED BY <1>5, <1>6, Zenon

\* The nodes of a plan are those below the next id, each declared; a link of the
\* plan is of one of them; a node with a live attempt or an active link is in
\* progress, and a node has one live attempt at most; a plan that has attempts has
\* no links.
Manned(st, dc, nx, pn, lk, at) ==
    /\ \A n \in NodeIds : st[n] # "Absent" => n < nx /\ dc[n] # "Absent"
    /\ \A l \in LinkIds :
          /\ lk[l].plan <= pn
          /\ lk[l].plan = pn /\ lk[l].node # NoNode =>
                /\ st[lk[l].node] # "Absent"
                /\ lk[l].status = "Active" => st[lk[l].node] = "InProgress" /\ ~lk[l].replaced
    /\ \A a \in AttemptIds : at[a].outcome = "Live" =>
          at[a].node \in NodeIds /\ st[at[a].node] = "InProgress"
    /\ \A a, b \in AttemptIds :
          at[a].outcome = "Live" /\ at[b].outcome = "Live" /\ at[a].node = at[b].node => a = b
    /\ \A a \in AttemptIds : at[a].outcome = "Free" => at[a].node = NoNode
    /\ \A a \in AttemptIds, l \in LinkIds : at[a].outcome # "Free" => lk[l].plan # pn

MannedInv == TypeInv /\ Manned(status, declared, nextNode, planNo, links, attempts)

LEMMA MannedRefresh ==
    ASSUME NEW st, NEW st2, NEW dc, NEW nx, NEW pn, NEW lk, NEW at, Same(st, st2),
           \A l \in LinkIds : lk[l].node \in NodeIds \cup {NoNode},
           Manned(st, dc, nx, pn, lk, at)
    PROVE  Manned(st2, dc, nx, pn, lk, at)
  <1>1. \A n \in NodeIds : st2[n] # "Absent" => n < nx /\ dc[n] # "Absent"
    BY Zenon DEF Same, Manned
  <1>2. ASSUME NEW l \in LinkIds
        PROVE  /\ lk[l].plan <= pn
               /\ lk[l].plan = pn /\ lk[l].node # NoNode =>
                    /\ st2[lk[l].node] # "Absent"
                    /\ lk[l].status = "Active" => st2[lk[l].node] = "InProgress" /\ ~lk[l].replaced
    BY Zenon DEF Same, Manned
  <1>3. ASSUME NEW a \in AttemptIds, at[a].outcome = "Live"
        PROVE  at[a].node \in NodeIds /\ st2[at[a].node] = "InProgress"
    BY <1>3, Zenon DEF Same, Manned
  <1>. QED BY <1>1, <1>2, <1>3, Zenon DEF Manned

\* What CompletionEarned says of a step.
ClosedByWork ==
    root # NoNode /\ root' = root /\ status[root] # "Completed" /\ status'[root] = "Completed" =>
        \/ declared'[root] = "Completed"
        \/ Earned(status', parent', root)
        \/ \E a \in AttemptIds : attempts'[a].node = root /\ attempts'[a].outcome = "Completed"
        \/ \E l \in LinkIds : /\ links'[l].plan = planNo /\ links'[l].node = root
                              /\ links'[l].status = "Completed"

LEMMA RootIsNode ==
    ASSUME TypeInv, root # NoNode
    PROVE  root \in NodeIds
  BY Zenon DEF TypeInv, ShapeTypes

LEMMA RefreshCloses ==
    ASSUME TypeInv, NEW st, NEW ph, NEW sc, NEW at, NEW ls, NEW lk,
           status' = RefreshParentStates(st, parent', ph, sc, at, ls, lk),
           root \in NodeIds /\ status[root] # "Completed" /\ st[root] = "Completed" => ClosedByWork
    PROVE  ClosedByWork
  <1>1. \A n \in NodeIds : st[n] # "Completed" /\ status'[n] = "Completed" => Earned(status', parent', n)
    BY RefreshEarns, ZenonT(30)
  <1>2. CASE root \in NodeIds /\ st[root] # "Completed" /\ status'[root] = "Completed"
    BY <1>1, <1>2, Zenon DEF ClosedByWork
  <1>. QED BY <1>2, RootIsNode, Zenon DEF ClosedByWork

LEMMA LinkNumbers ==
    ASSUME TypeInv
    PROVE  /\ planNo \in Nat /\ nextNode \in Nat
           /\ \A l \in LinkIds : links[l].plan \in Nat /\ links[l].node \in NodeIds \cup {NoNode}
  <1>1. planNo \in Nat /\ nextNode \in Nat
    BY PlanAssumption DEF TypeInv, StateTypes, ShapeTypes
  <1>2. ASSUME NEW l \in LinkIds PROVE links[l].plan \in Nat /\ links[l].node \in NodeIds \cup {NoNode}
    <2>1. links[l] \in LinkRecords
      BY LinkedNode, Zenon
    <2>2. links[l].plan \in 0..MaxPlans /\ links[l].node \in NodeIds \cup {NoNode}
      BY <2>1, Zenon DEF LinkRecords
    <2>. QED BY <2>2, PlanAssumption
  <1>. QED BY <1>1, <1>2, Zenon

LEMMA NewPlanManned ==
    ASSUME MannedInv, TypeInv', planNo' = planNo + 1, links' = links, attempts' = BlankAttempts,
           \A n \in NodeIds : status'[n] # "Absent" => n < nextNode' /\ declared'[n] # "Absent"
    PROVE  MannedInv'
  <1>1. \A a \in AttemptIds : attempts'[a].outcome = "Free" /\ attempts'[a].node = NoNode
    BY Zenon DEF BlankAttempts, NoAttempt
  <1>2. \A l \in LinkIds : links'[l].plan <= planNo' /\ links'[l].plan # planNo'
    BY LinkNumbers DEF MannedInv, Manned
  <1>. QED BY <1>1, <1>2, Zenon DEF MannedInv, Manned

\* An edit that leaves the statuses st and rebuilds the nodes of input, of which those
\* of new are new: nothing in progress is rebuilt or dropped.
Spares(st, input, new) ==
    /\ \A n \in NodeIds : st[n] # "Absent" => status[n] # "Absent"
    /\ \A n \in NodeIds : status[n] = "InProgress" => n \notin input /\ st[n] = "InProgress"
    /\ \A n \in NodeIds : n \in input /\ n \notin new => status[n] # "Absent"

LEMMA BuildManned ==
    ASSUME MannedInv, TypeInv', NEW st, NEW top \in NodeIds, NEW up, NEW below, NEW k \in Nat,
           NEW d \in Authoring, NEW inherit, NEW chain, MayEdit(k), NEW new, new = NewNodes(k),
           NEW input, input = {top} \cup below,
           Build(st, top, up, below, new, d, inherit, chain),
           UNCHANGED attemptVars, planNo' = planNo, Spares(st, input, new)
    PROVE  MannedInv'
  <1>. USE DEF Spares
  <1>1. /\ \A n \in NodeIds : n \in input => status'[n] = declared'[n]
        /\ \A n \in NodeIds : n \notin input => status'[n] = st[n] /\ declared'[n] = declared[n]
    BY Zenon DEF Build
  <1>2. nextNode' = nextNode + k /\ nextNode \in Nat /\ \A n \in new : n < nextNode + k
    <2>1. nextNode' = nextNode + Cardinality(new) /\ HasRoom(k)
      BY Zenon DEF Build, MayEdit
    <2>2. Cardinality(new) = k /\ nextNode \in Nat
      BY <2>1, NewNodesFacts, LinkNumbers, Zenon DEF MannedInv, TypeInv
    <2>. QED BY <2>1, <2>2 DEF NewNodes
  <1>3. ASSUME NEW n \in NodeIds, status'[n] # "Absent"
        PROVE  n < nextNode' /\ declared'[n] # "Absent"
    <2>1. CASE n \in new /\ n \in input
      BY <1>1, <1>2, <1>3, <2>1, Zenon
    <2>2. CASE n \in input /\ n \notin new
      <3>1. n < nextNode
        BY <2>2, Zenon DEF MannedInv, Manned
      <3>. QED BY <1>1, <1>2, <1>3, <2>2, <3>1 DEF NodeIds
    <2>3. CASE n \notin input
      <3>1. n < nextNode /\ declared[n] # "Absent"
        BY <1>1, <1>3, <2>3, Zenon DEF MannedInv, Manned
      <3>. QED BY <1>1, <1>2, <2>3, <3>1 DEF NodeIds
    <2>. QED BY <2>1, <2>2, <2>3, Zenon
  <1>4. ASSUME NEW l \in LinkIds
        PROVE  /\ links'[l].plan = links[l].plan /\ links'[l].status = links[l].status
               /\ links'[l].replaced = links[l].replaced
               /\ links'[l].plan = planNo /\ links'[l].node # NoNode =>
                     /\ links'[l].node = links[l].node /\ links[l].node \notin input
                     /\ st[links[l].node] # "Absent"
    <2>. DEFINE cleared == [links[l] EXCEPT !.node = NoNode]
    <2>1. links[l] \in LinkRecords
      BY LinkedNode, Zenon DEF MannedInv
    <2>2. /\ cleared.plan = links[l].plan /\ cleared.status = links[l].status
          /\ cleared.replaced = links[l].replaced /\ cleared.node = NoNode
      BY <2>1, Zenon DEF LinkRecords
    <2>. HIDE DEF cleared
    <2>3. \/ links'[l] = cleared
          \/ /\ links'[l] = links[l]
             /\ links[l].plan = planNo /\ links[l].node # NoNode =>
                   links[l].node \notin input /\ st[links[l].node] # "Absent"
      BY Zenon DEF Build, cleared
    <2>. QED BY <2>2, <2>3, Zenon
  <1>5. attempts' = attempts /\ planNo' = planNo
    BY Zenon DEF attemptVars
  <1>6. ASSUME NEW l \in LinkIds
        PROVE  /\ links'[l].plan <= planNo'
               /\ links'[l].plan = planNo' /\ links'[l].node # NoNode =>
                    /\ status'[links'[l].node] # "Absent"
                    /\ links'[l].status = "Active" =>
                          status'[links'[l].node] = "InProgress" /\ ~links'[l].replaced
    <2>1. links[l].node \in NodeIds \cup {NoNode}
      BY LinkNumbers, Zenon DEF MannedInv
    <2>. QED BY <1>1, <1>4, <1>5, <2>1 DEF MannedInv, Manned
  <1>7. ASSUME NEW a \in AttemptIds, attempts'[a].outcome = "Live"
        PROVE  attempts'[a].node \in NodeIds /\ status'[attempts'[a].node] = "InProgress"
    BY <1>1, <1>5, <1>7, Zenon DEF MannedInv, Manned
  <1>8. ASSUME NEW a \in AttemptIds, NEW l \in LinkIds, attempts'[a].outcome # "Free"
        PROVE  links'[l].plan # planNo'
    BY <1>4, <1>5, <1>8, Zenon DEF MannedInv, Manned
  <1>9. ASSUME NEW a \in AttemptIds, NEW b \in AttemptIds, attempts'[a].outcome = "Live",
               attempts'[b].outcome = "Live", attempts'[a].node = attempts'[b].node
        PROVE  a = b
    BY <1>5, <1>9, Zenon DEF MannedInv, Manned
  <1>10. \A a \in AttemptIds : attempts'[a].outcome = "Free" => attempts'[a].node = NoNode
    BY <1>5, Zenon DEF MannedInv, Manned
  <1>. QED BY <1>3, <1>6, <1>7, <1>8, <1>9, <1>10, Zenon DEF MannedInv, Manned

LEMMA BuildCloses ==
    ASSUME TypeInv, NEW st, NEW top, NEW up, NEW below, NEW new, NEW d, NEW inherit, NEW chain,
           Build(st, top, up, below, new, d, inherit, chain),
           \A n \in NodeIds : st[n] \in {status[n], "Superseded", "Absent"}
    PROVE  ClosedByWork
  <1>. DEFINE input == {top} \cup below
  <1>1. /\ \A n \in NodeIds : n \in input => status'[n] = declared'[n]
        /\ \A n \in NodeIds : n \notin input => status'[n] = st[n]
    BY Zenon DEF Build
  <1>. HIDE DEF input
  <1>. QED BY <1>1, RootIsNode, Zenon DEF ClosedByWork

LEMMA CoordinatorManned ==
    ASSUME MannedInv, TypeInv', CoordinatorEdits
    PROVE  MannedInv' /\ ClosedByWork
  <1>1. CASE BeginPlan
    <2>1. MannedInv'
      BY <1>1, NewPlanManned, Zenon DEF BeginPlan, BlankTree, linkVars
    <2>. QED BY <1>1, <2>1, Zenon DEF BeginPlan, ClosedByWork
  <1>2. ASSUME NEW k \in FirstChildren, NEW d \in Authoring, NEW chain, NEW cp, NEW i,
               DefineNewPlan(k, d, chain, cp, i)
        PROVE  MannedInv' /\ ClosedByWork
    <2>1. d.top # "Absent" /\ d.below # "Absent" /\ k \in Nat
      BY PlanAssumption, Zenon DEF Authoring, Authored
    <2>2. /\ status' = [n \in NodeIds |->
                 IF n \notin 1..(k + 1) THEN "Absent" ELSE IF n = 1 THEN d.top ELSE d.below]
          /\ declared' = status' /\ nextNode' = k + 2
          /\ planNo' = planNo + 1 /\ links' = links /\ attempts' = BlankAttempts
      BY <1>2, Zenon DEF DefineNewPlan, linkVars
    <2>3. \A n \in NodeIds : status'[n] # "Absent" => n < nextNode' /\ declared'[n] # "Absent"
      BY <2>1, <2>2
    <2>4. MannedInv'
      BY <2>2, <2>3, NewPlanManned, Zenon
    <2>. QED BY <2>2, <2>4, Zenon DEF ClosedByWork
  <1>3. ASSUME NEW r \in NodeIds, NEW reused, NEW k \in ChildCounts, NEW d \in Authoring,
               NEW inherit, NEW chain, NEW cp, NEW reworded, NEW i,
               DefinePlan(r, reused, k, d, inherit, chain, cp, reworded, i)
        PROVE  MannedInv' /\ ClosedByWork
    <2>. DEFINE kept == [n \in NodeIds |-> IF n \in LiveNodes(status) THEN "Superseded" ELSE "Absent"]
               below == ({r} \cup reused \cup NewNodes(k)) \ {r}
               input == {r} \cup below
    <2>1. /\ Build(kept, r, NoNode, below, NewNodes(k), d, inherit, chain) /\ MayEdit(k)
          /\ UNCHANGED <<attemptVars, planNo>> /\ k \in Nat
          /\ \A n \in LiveNodes(status) : Mutable(n)
          /\ reused \subseteq LiveNodes(status) /\ r \in LiveNodes(status) \cup NewNodes(k)
      BY <1>3, PlanAssumption, Zenon DEF DefinePlan
    <2>2. \A n \in NodeIds : /\ kept[n] # "Absent" => status[n] # "Absent"
                             /\ kept[n] \in {status[n], "Superseded", "Absent"}
                             /\ status[n] # "InProgress"
      BY <2>1, Zenon DEF LiveNodes, Mutable
    <2>3. \A n \in NodeIds : n \in input /\ n \notin NewNodes(k) => status[n] # "Absent"
      BY <2>1, Zenon DEF LiveNodes
    <2>6. input = {r} \cup below
      BY Zenon
    <2>7. Spares(kept, input, NewNodes(k))
      BY <2>2, <2>3, Zenon DEF Spares
    <2>8. UNCHANGED attemptVars /\ planNo' = planNo
      BY <2>1, Zenon
    <2>. HIDE DEF kept, below, input
    <2>4. MannedInv'
      BY <2>1, <2>6, <2>7, <2>8, BuildManned, Zenon
    <2>5. ClosedByWork
      BY <2>1, <2>2, BuildCloses, Zenon DEF MannedInv
    <2>. QED BY <2>4, <2>5, Zenon
  <1>4. ASSUME NEW t \in LiveNodes(status), NEW reused \in SUBSET LiveNodes(status),
               NEW k \in ChildCounts, NEW d \in Authoring, NEW inherit, NEW chain, NEW reworded,
               NEW i, ReplaceSubtree(t, reused, k, d, inherit, chain, reworded, i)
        PROVE  MannedInv' /\ ClosedByWork
    <2>. DEFINE region == LiveSubtree(status, parent, t)
               omitted == region \ ({t} \cup reused)
               kept == [n \in NodeIds |-> IF n \in omitted THEN "Superseded" ELSE status[n]]
               below == reused \cup NewNodes(k)
               input == {t} \cup below
    <2>1. /\ Build(kept, t, parent[t], below, NewNodes(k), d, inherit, chain) /\ MayEdit(k)
          /\ UNCHANGED <<attemptVars, planNo>> /\ k \in Nat
          /\ \A n \in region \cup reused : status[n] = "Pending"
      BY <1>4, PlanAssumption, Zenon DEF ReplaceSubtree, Mutable
    <2>2. t \in region /\ t \in NodeIds /\ status[t] # "Absent"
      BY Zenon DEF LiveSubtree, LiveNodes
    <2>. HIDE DEF region
    <2>3. \A n \in NodeIds : /\ kept[n] # "Absent" => status[n] # "Absent"
                             /\ kept[n] \in {status[n], "Superseded", "Absent"}
      BY <2>1, Zenon
    <2>4. ASSUME NEW n \in NodeIds, status[n] = "InProgress" PROVE n \notin input /\ kept[n] = "InProgress"
      <3>1. n \notin NewNodes(k)
        <4>1. n < nextNode
          BY <2>4, Zenon DEF MannedInv, Manned
        <4>. QED BY <4>1, <2>1, LinkNumbers DEF NewNodes, NodeIds, MannedInv
      <3>. QED BY <2>1, <2>2, <2>4, <3>1, Zenon
    <2>5. \A n \in NodeIds : n \in input /\ n \notin NewNodes(k) => status[n] # "Absent"
      BY <2>1, <2>2, Zenon
    <2>8. input = {t} \cup below
      BY Zenon
    <2>9. Spares(kept, input, NewNodes(k))
      BY <2>3, <2>4, <2>5, Zenon DEF Spares
    <2>10. UNCHANGED attemptVars /\ planNo' = planNo
      BY <2>1, Zenon
    <2>. HIDE DEF kept, below, input
    <2>6. MannedInv'
      BY <2>1, <2>2, <2>8, <2>9, <2>10, BuildManned, Zenon
    <2>7. ClosedByWork
      BY <2>1, <2>3, BuildCloses, Zenon DEF MannedInv
    <2>. QED BY <2>6, <2>7, Zenon
  <1>5. ASSUME NEW i, UseCurrentPlan(i) PROVE MannedInv' /\ ClosedByWork
    <2>1. UNCHANGED <<status, declared, nextNode, planNo, links, attempts>>
      BY <1>5, Zenon DEF UseCurrentPlan, treeVars, linkVars, attemptVars
    <2>. QED BY <2>1, Zenon DEF MannedInv, ClosedByWork
  <1>. QED BY <1>1, <1>2, <1>3, <1>4, <1>5, Zenon DEF CoordinatorEdits

\* A subagent that may edit has a link of the plan: no attempt has been started.
LEMMA ScopeMeansLinked ==
    ASSUME MannedInv, NEW l, InScope(l)
    PROVE  /\ links[l].node \in NodeIds
           /\ \A a \in AttemptIds : attempts[a].outcome = "Free"
  <1>1. PICK m \in LinkIds : /\ links[m].plan = planNo /\ links[m].node = links[l].node
                             /\ links[m].node # NoNode
    BY Zenon DEF InScope
  <1>2. links[m].node \in NodeIds \cup {NoNode}
    BY LinkNumbers, Zenon DEF MannedInv
  <1>. QED BY <1>1, <1>2, Zenon DEF MannedInv, Manned

\* An edit within the scope of a subagent: new nodes, and mutable ones superseded.
LEMMA ScopedEditManned ==
    ASSUME MannedInv, TypeInv', NEW l, InScope(l), NEW k \in Nat, NEW d \in Declared, NEW dropped,
           UNCHANGED <<attemptVars, linkVars, planNo>>, nextNode' = nextNode + k,
           \A n \in NodeIds : n \in dropped => status[n] = "Pending",
           \A n \in NodeIds : status'[n] = IF n \in NewNodes(k) THEN d
                                           ELSE IF n \in dropped THEN "Superseded" ELSE status[n],
           \A n \in NodeIds : declared'[n] = d \/ (declared'[n] = declared[n] /\ n \notin NewNodes(k))
    PROVE  MannedInv'
  <1>1. d # "Absent" /\ nextNode \in Nat
    BY PlanAssumption, LinkNumbers, Zenon DEF Authored, MannedInv
  <1>2. attempts' = attempts /\ links' = links /\ planNo' = planNo
    BY Zenon DEF attemptVars, linkVars
  <1>3. \A a \in AttemptIds : attempts[a].outcome = "Free"
    BY ScopeMeansLinked, Zenon
  <1>4. ASSUME NEW n \in NodeIds, status'[n] # "Absent"
        PROVE  n < nextNode' /\ declared'[n] # "Absent"
    <2>1. CASE n \in NewNodes(k)
      BY <1>1, <2>1 DEF NewNodes, NodeIds
    <2>2. CASE n \notin NewNodes(k)
      <3>1. n < nextNode /\ declared[n] # "Absent"
        BY <1>4, <2>2, Zenon DEF MannedInv, Manned
      <3>. QED BY <1>1, <2>2, <3>1 DEF NodeIds
    <2>. QED BY <2>1, <2>2, Zenon
  <1>5. ASSUME NEW n \in NodeIds, status[n] # "Absent"
        PROVE  status'[n] # "Absent" /\ (status[n] = "InProgress" => status'[n] = "InProgress")
    <2>1. n < nextNode
      BY <1>5, Zenon DEF MannedInv, Manned
    <2>2. n \notin NewNodes(k)
      BY <1>1, <2>1 DEF NewNodes, NodeIds
    <2>. QED BY <1>5, <2>2, Zenon
  <1>6. ASSUME NEW m \in LinkIds
        PROVE  /\ links'[m].plan <= planNo'
               /\ links'[m].plan = planNo' /\ links'[m].node # NoNode =>
                    /\ status'[links'[m].node] # "Absent"
                    /\ links'[m].status = "Active" =>
                          status'[links'[m].node] = "InProgress" /\ ~links'[m].replaced
    <2>1. links[m].node \in NodeIds \cup {NoNode}
      BY LinkNumbers, Zenon DEF MannedInv
    <2>. QED BY <1>2, <1>5, <2>1 DEF MannedInv, Manned
  <1>. QED BY <1>2, <1>3, <1>4, <1>6, Zenon DEF MannedInv, Manned

\* The linked node is not among those a replacement in its subtree omits: the tree
\* that is left would have the target without its parent or without its root.
LEMMA LinkedNodeStays ==
    ASSUME MannedInv, NEW l, NEW t \in NodeIds, NEW k \in Nat, NEW d \in Declared, NEW chain,
           ReplaceScopedSubtree(l, t, k, d, chain), t \in LiveNodes(status)
    PROVE  links[l].node \notin LiveSubtree(status, parent, t) \ {t}
  <1>. DEFINE top == links[l].node
             omitted == LiveSubtree(status, parent, t) \ {t}
             new == NewNodes(k)
  <1>1. /\ InScope(l) /\ t \in LiveSubtree(status, parent, top)
        /\ ValidGraph(status', parent', deps', root)
        /\ status' = [n \in NodeIds |-> IF n \in new THEN d
                                        ELSE IF n \in omitted THEN "Superseded" ELSE status[n]]
        /\ parent' = [n \in NodeIds |-> IF n \in new THEN t ELSE parent[n]]
    BY Zenon DEF ReplaceScopedSubtree
  <1>2. top \in NodeIds
    BY <1>1, ScopeMeansLinked, Zenon
  <1>3. \A n \in NodeIds : status[n] # "Absent" => n \notin new
    <2>1. \A n \in NodeIds : status[n] # "Absent" => n < nextNode
      BY Zenon DEF MannedInv, Manned
    <2>. QED BY <2>1, LinkNumbers DEF NewNodes, NodeIds, MannedInv
  <1>. HIDE DEF new
  <1>4. SUFFICES ASSUME top \in omitted PROVE FALSE
    BY Zenon
  <1>5. omitted \subseteq LiveNodes(status)
    BY Zenon DEF LiveSubtree, Children
  <1>6. top \notin new /\ t \notin new /\ t \notin omitted /\ top # t
    BY <1>2, <1>3, <1>4, <1>5, Zenon DEF LiveNodes
  <1>7. t \in LiveNodes(status') /\ top \notin LiveNodes(status') /\ parent'[t] = parent[t]
    <2>. HIDE DEF omitted
    <2>. QED BY <1>1, <1>2, <1>4, <1>6, Zenon DEF LiveNodes
  <1>8. CASE parent[t] = top
    <2>1. t # root
      BY <1>1, <1>2, <1>7, <1>8 DEF ValidGraph, NodeIds, NoNode
    <2>2. parent'[t] \in LiveNodes(status')
      BY <1>1, <1>7, <2>1, Zenon DEF ValidGraph
    <2>. QED BY <1>7, <1>8, <2>2, Zenon
  <1>9. ASSUME NEW c \in LiveNodes(status), parent[c] = top, parent[t] = c PROVE FALSE
    <2>1. c \in NodeIds /\ c \notin new /\ parent'[c] = top /\ parent'[t] = c /\ c # NoNode /\ top # NoNode
      <3>1. c \in NodeIds /\ status[c] # "Absent"
        BY Zenon DEF LiveNodes
      <3>2. c \notin new /\ c # NoNode /\ top # NoNode
        BY <1>2, <1>3, <3>1 DEF NodeIds, NoNode
      <3>3. parent'[c] = parent[c]
        BY <1>1, <3>1, <3>2, Zenon
      <3>. QED BY <1>7, <1>9, <3>1, <3>2, <3>3, Zenon
    <2>2. root \in LiveNodes(status') /\ parent'[root] = NoNode
      BY <1>1, Zenon DEF ValidGraph
    <2>3. t # root /\ c # root
      BY <2>1, <2>2, Zenon
    <2>4. root \in Ancestors(parent', t)
      BY <1>1, <1>7, <2>3, Zenon DEF ValidGraph
    <2>5. Ancestors(parent', t) \subseteq {c, top}
      BY <2>1, Zenon DEF Ancestors, Up, NodeIds, NoNode
    <2>. QED BY <1>7, <2>2, <2>3, <2>4, <2>5, Zenon
  <1>10. \/ t = top \/ parent[t] = top
         \/ \E c \in LiveNodes(status) : parent[c] = top /\ parent[t] = c
    BY <1>1, Zenon DEF LiveSubtree, Children
  <1>. QED BY <1>6, <1>8, <1>9, <1>10, Zenon

LEMMA SubagentManned ==
    ASSUME MannedInv, TypeInv', SubagentEdits
    PROVE  MannedInv' /\ ClosedByWork
  <1>1. PICK l \in running, k \in ChildCounts, d \in Declared, chain \in BOOLEAN :
           \/ DefineScopedChildren(l, k, d, chain)
           \/ \E t \in LiveNodes(status) : ReplaceScopedSubtree(l, t, k, d, chain)
    BY Zenon DEF SubagentEdits, Chains
  <1>2. k \in Nat /\ LiveNodes(status) \subseteq NodeIds
    BY PlanAssumption, Zenon DEF LiveNodes
  <1>3. CASE DefineScopedChildren(l, k, d, chain)
    <2>. DEFINE dropped == {}
    <2>1. /\ UNCHANGED <<attemptVars, linkVars, planNo>> /\ nextNode' = nextNode + k /\ InScope(l)
          /\ \A n \in NodeIds : status'[n] = IF n \in NewNodes(k) THEN d ELSE status[n]
          /\ \A n \in NodeIds : declared'[n] = IF n \in NewNodes(k) THEN d ELSE declared[n]
      BY <1>3, Zenon DEF DefineScopedChildren
    <2>2. /\ \A n \in NodeIds : n \in dropped => status[n] = "Pending"
          /\ \A n \in NodeIds : status'[n] = IF n \in NewNodes(k) THEN d
                                             ELSE IF n \in dropped THEN "Superseded" ELSE status[n]
          /\ \A n \in NodeIds : declared'[n] = d \/ (declared'[n] = declared[n] /\ n \notin NewNodes(k))
      BY <2>1, Zenon
    <2>. HIDE DEF dropped
    <2>3. MannedInv'
      BY <1>2, <2>1, <2>2, ScopedEditManned, ZenonT(30)
    <2>. QED BY <2>1, <2>3, RootIsNode, Zenon DEF ClosedByWork, MannedInv
  <1>4. ASSUME NEW t \in LiveNodes(status), ReplaceScopedSubtree(l, t, k, d, chain)
        PROVE  MannedInv' /\ ClosedByWork
    <2>. DEFINE top == links[l].node
               dropped == LiveSubtree(status, parent, t) \ {t}
    <2>1. /\ UNCHANGED <<attemptVars, linkVars, planNo>> /\ nextNode' = nextNode + k /\ InScope(l)
          /\ \A n \in NodeIds : status'[n] = IF n \in NewNodes(k) THEN d
                                             ELSE IF n \in dropped THEN "Superseded" ELSE status[n]
          /\ \A n \in NodeIds : declared'[n] = IF n \in NewNodes(k) \cup ({t} \ {top}) THEN d
                                               ELSE declared[n]
          /\ \A n \in ({t} \cup dropped) \ {top} : status[n] = "Pending"
      BY <1>4, Zenon DEF ReplaceScopedSubtree, Mutable
    <2>2. top \notin dropped
      BY <1>2, <1>4, LinkedNodeStays, Zenon
    <2>3. /\ \A n \in NodeIds : n \in dropped => status[n] = "Pending"
          /\ \A n \in NodeIds : declared'[n] = d \/ (declared'[n] = declared[n] /\ n \notin NewNodes(k))
      <3>. HIDE DEF dropped
      <3>. QED BY <2>1, <2>2, Zenon
    <2>. HIDE DEF dropped
    <2>4. MannedInv'
      BY <1>2, <2>1, <2>3, ScopedEditManned, ZenonT(30)
    <2>. QED BY <2>1, <2>4, RootIsNode, Zenon DEF ClosedByWork, MannedInv
  <1>. QED BY <1>1, <1>3, <1>4, Zenon

\* The steps that leave nodes, links and attempts alone.
LEMMA StillManned ==
    ASSUME MannedInv, TypeInv', UNCHANGED <<status, declared, nextNode, planNo, links>>,
           \A a \in AttemptIds : /\ attempts'[a].outcome = attempts[a].outcome
                                 /\ attempts'[a].node = attempts[a].node
    PROVE  MannedInv' /\ ClosedByWork
  <1>1. MannedInv'
    BY DEF MannedInv, Manned
  <1>. QED BY <1>1, Zenon DEF ClosedByWork

\* The steps that end attempts: st is the tree they write before the refresh.  With
\* a link of the plan there are no attempts, and the step writes nothing.
Ending(st) ==
    /\ UNCHANGED <<links, planNo>> /\ Same(st, status')
    /\ \A n \in NodeIds : st[n] # "Absent" => n < nextNode' /\ declared'[n] # "Absent"
    /\ (\E l \in LinkIds : links[l].plan = planNo) => \A n \in NodeIds : st[n] = status[n]
    /\ \A a \in AttemptIds : /\ attempts'[a].outcome = "Free" <=> attempts[a].outcome = "Free"
                             /\ attempts'[a].outcome = "Free" => attempts'[a].node = attempts[a].node
    /\ \A a \in AttemptIds : attempts'[a].outcome = "Live" =>
          /\ attempts[a].outcome = "Live" /\ attempts'[a].node = attempts[a].node
          /\ st[attempts[a].node] = status[attempts[a].node]

LEMMA EndingManned ==
    ASSUME MannedInv, TypeInv', NEW st, Ending(st)
    PROVE  MannedInv'
  <1>. DEFINE M(s) == Manned(s, declared', nextNode', planNo', links', attempts')
  <1>1. \A n \in NodeIds : st[n] # "Absent" => n < nextNode' /\ declared'[n] # "Absent"
    BY Zenon DEF Ending
  <1>2. ASSUME NEW l \in LinkIds
        PROVE  /\ links'[l].plan <= planNo'
               /\ links'[l].plan = planNo' /\ links'[l].node # NoNode =>
                    /\ st[links'[l].node] # "Absent"
                    /\ links'[l].status = "Active" =>
                          st[links'[l].node] = "InProgress" /\ ~links'[l].replaced
    <2>1. links[l].node \in NodeIds \cup {NoNode} /\ links' = links /\ planNo' = planNo
      BY LinkNumbers, Zenon DEF MannedInv, Ending
    <2>2. links[l].plan = planNo /\ links[l].node # NoNode => st[links[l].node] = status[links[l].node]
      BY <2>1, Zenon DEF Ending
    <2>. QED BY <2>1, <2>2, Zenon DEF MannedInv, Manned
  <1>3. \A a \in AttemptIds : attempts'[a].outcome = "Live" =>
           attempts'[a].node \in NodeIds /\ st[attempts'[a].node] = "InProgress"
    BY Zenon DEF Ending, MannedInv, Manned
  <1>4. \A a, b \in AttemptIds : attempts'[a].outcome = "Live" /\ attempts'[b].outcome = "Live"
                                 /\ attempts'[a].node = attempts'[b].node => a = b
    BY DEF Ending, MannedInv, Manned
  <1>5. \A a \in AttemptIds, l \in LinkIds : attempts'[a].outcome # "Free" => links'[l].plan # planNo'
    BY Zenon DEF Ending, MannedInv, Manned
  <1>5a. \A a \in AttemptIds : attempts'[a].outcome = "Free" => attempts'[a].node = NoNode
    BY Zenon DEF Ending, MannedInv, Manned
  <1>6. M(st)
    BY <1>1, <1>2, <1>3, <1>4, <1>5, <1>5a, Zenon DEF Manned
  <1>7. M(status')
    <2>1. Same(st, status') /\ \A l \in LinkIds : links'[l].node \in NodeIds \cup {NoNode}
      BY LinkNumbers, Zenon DEF Ending, MannedInv
    <2>. QED BY <1>6, <2>1, MannedRefresh, Zenon
  <1>. QED BY <1>7, Zenon DEF MannedInv

\* The live attempts of `over` are ended, and the statuses of their nodes written.
LEMMA EndingThem ==
    ASSUME MannedInv, NEW st, NEW over, over \subseteq LiveAttempts(attempts),
           UNCHANGED <<links, planNo, declared, nextNode>>, Same(st, status'),
           \A n \in NodeIds : st[n] = status[n] \/ \E a \in over : attempts[a].node = n,
           \A a \in AttemptIds : IF a \in over THEN attempts'[a].outcome \notin {"Free", "Live"}
                                 ELSE attempts'[a] = attempts[a]
    PROVE  Ending(st)
  <1>1. ASSUME NEW n \in NodeIds, st[n] # "Absent" PROVE n < nextNode' /\ declared'[n] # "Absent"
    <2>1. status[n] # "Absent"
      BY <1>1 DEF MannedInv, Manned, LiveAttempts
    <2>. QED BY <2>1, Zenon DEF MannedInv, Manned
  <1>2. ASSUME NEW l \in LinkIds, links[l].plan = planNo, NEW n \in NodeIds PROVE st[n] = status[n]
    BY <1>2, Zenon DEF MannedInv, Manned, LiveAttempts
  <1>3. ASSUME NEW a \in AttemptIds
        PROVE  /\ attempts'[a].outcome = "Free" <=> attempts[a].outcome = "Free"
               /\ attempts'[a].outcome = "Free" => attempts'[a].node = attempts[a].node
    BY Zenon DEF LiveAttempts
  <1>4. ASSUME NEW a \in AttemptIds, attempts'[a].outcome = "Live"
        PROVE  /\ attempts[a].outcome = "Live" /\ attempts'[a].node = attempts[a].node
               /\ st[attempts[a].node] = status[attempts[a].node]
    <2>1. a \notin over /\ attempts'[a] = attempts[a]
      BY <1>4, Zenon
    <2>2. attempts[a].node \in NodeIds
      BY <1>4, <2>1, Zenon DEF MannedInv, Manned
    <2>3. \A b \in over : attempts[b].node # attempts[a].node
      BY <1>4, <2>1 DEF MannedInv, Manned, LiveAttempts
    <2>. QED BY <1>4, <2>1, <2>2, <2>3, Zenon
  <1>. QED BY <1>1, <1>2, <1>3, <1>4, Zenon DEF Ending

LEMMA ControlManned ==
    ASSUME MannedInv, TypeInv', UserControls
    PROVE  MannedInv' /\ ClosedByWork
  <1>1. ASSUME \/ \E env : Approve(env) \/ AuthorizeExecution(env)
               \/ PauseScheduling \/ ResumeScheduling \/ Revise
        PROVE  MannedInv' /\ ClosedByWork
    <2>1. UNCHANGED <<status, declared, nextNode, planNo, links, attempts>>
      BY <1>1, Zenon DEF Approve, AuthorizeExecution, PauseScheduling, ResumeScheduling,
                  ChangeSchedulerStatus, Revise, treeVars, linkVars, attemptVars
    <2>. QED BY <2>1, StillManned, Zenon
  <1>2. CASE RequestCancellation
    <2>. DEFINE over == {a \in LiveAttempts(attempts) : ~attempts[a].leased}
               at == [a \in AttemptIds |->
                        IF a \in over THEN Closed(attempts[a], "Cancelled") ELSE attempts[a]]
               st == [n \in NodeIds |->
                        IF \E a \in over : attempts[a].node = n THEN "Blocked" ELSE status[n]]
    <2>1. /\ attempts' = at /\ UNCHANGED <<links, planNo, declared, nextNode>> /\ parent' = parent
          /\ status' = RefreshParentStates(st, parent, phase, sched', at, leases, links)
      BY <1>2, Zenon DEF RequestCancellation, RefreshedAndSettled, treeVars, linkVars
    <2>2. \A n \in NodeIds : /\ st[n] = status[n] \/ \E a \in over : attempts[a].node = n
                             /\ st[n] = "Completed" => status[n] = "Completed"
      BY Zenon
    <2>3. \A a \in AttemptIds : IF a \in over THEN at[a].outcome \notin {"Free", "Live"}
                                ELSE at[a] = attempts[a]
      BY Zenon DEF Closed
    <2>4. over \subseteq LiveAttempts(attempts)
      BY Zenon
    <2>. HIDE DEF over, at, st
    <2>5. Same(st, status')
      BY <2>1, RefreshEarns, ZenonT(30)
    <2>6. Ending(st)
      <3>1. \A a \in AttemptIds : IF a \in over THEN attempts'[a].outcome \notin {"Free", "Live"}
                                  ELSE attempts'[a] = attempts[a]
        BY <2>1, <2>3, Zenon
      <3>2. UNCHANGED <<links, planNo, declared, nextNode>>
        BY <2>1, Zenon
      <3>3. \A n \in NodeIds : st[n] = status[n] \/ \E a \in over : attempts[a].node = n
        BY <2>2, Zenon
      <3>. QED BY <2>4, <2>5, <3>1, <3>2, <3>3, EndingThem, Zenon
    <2>7. MannedInv'
      BY <2>6, EndingManned, Zenon
    <2>8. ClosedByWork
      BY <2>1, <2>2, RefreshCloses, Zenon DEF MannedInv
    <2>. QED BY <2>7, <2>8, Zenon
  <1>3. ASSUME NEW n \in NodeIds, RetryInterruptedNode(n) PROVE MannedInv' /\ ClosedByWork
    <2>. DEFINE st == [m \in NodeIds |->
                  IF m = n THEN "Pending"
                  ELSE IF m \in Ancestors(parent, n) /\ status[m] = "Blocked" THEN "Expanded"
                  ELSE status[m]]
    <2>1. /\ UNCHANGED <<links, planNo, declared, nextNode, attempts>> /\ parent' = parent
          /\ status' = RefreshParentStates(st, parent, phase, sched, attempts, leases, links)
          /\ status[n] = "Blocked" /\ LatestAttempt(n) # 0
      BY <1>3, Zenon DEF RetryInterruptedNode, treeVars, linkVars, attemptVars
    <2>2. \A m \in NodeIds : /\ st[m] = status[m] \/ (status[m] = "Blocked" /\ st[m] # "Absent")
                             /\ st[m] = "Completed" => status[m] = "Completed"
      BY <2>1, Zenon
    <2>3. \E a \in AttemptIds : attempts[a].outcome # "Free"
      <3>1. PICK a \in AttemptIds : attempts[a].node = n
        BY <2>1, Zenon DEF LatestAttempt
      <3>2. n # NoNode
        BY DEF NodeIds, NoNode
      <3>. QED BY <3>1, <3>2, Zenon DEF MannedInv, Manned
    <2>. HIDE DEF st
    <2>4. Same(st, status')
      BY <2>1, RefreshEarns, ZenonT(30)
    <2>5. Ending(st)
      <3>1. \A m \in NodeIds : st[m] # "Absent" => m < nextNode' /\ declared'[m] # "Absent"
        BY <2>1, <2>2, Zenon DEF MannedInv, Manned
      <3>2. ~(\E l \in LinkIds : links[l].plan = planNo)
        BY <2>3, Zenon DEF MannedInv, Manned
      <3>3. \A a \in AttemptIds : attempts[a].outcome = "Live" =>
               st[attempts[a].node] = status[attempts[a].node]
        BY <2>2, Zenon DEF MannedInv, Manned
      <3>. QED BY <2>1, <2>4, <3>1, <3>2, <3>3, Zenon DEF Ending
    <2>6. MannedInv'
      BY <2>5, EndingManned, Zenon
    <2>7. ClosedByWork
      BY <2>1, <2>2, RefreshCloses, Zenon DEF MannedInv
    <2>. QED BY <2>6, <2>7, Zenon
  <1>. QED BY <1>1, <1>2, <1>3, Zenon DEF UserControls

\* recompute_link_projection: an active link shows, a completion comes from a link or
\* from the author, and no node is lost.
LEMMA ProjectionFacts ==
    ASSUME NEW lk, NEW n \in NodeIds
    PROVE  /\ \A l \in LinkIds : /\ lk[l].plan = planNo /\ lk[l].node = n
                                 /\ lk[l].status = "Active" /\ ~lk[l].replaced
                                 => LinkProjection(lk, n) = "InProgress"
           /\ LinkProjection(lk, n) = "Completed" =>
                 \/ declared[n] = "Completed"
                 \/ \E l \in LinkIds : /\ lk[l].plan = planNo /\ lk[l].node = n
                                       /\ lk[l].status = "Completed"
           /\ declared[n] # "Absent" => LinkProjection(lk, n) # "Absent"
  <1>1. ASSUME NEW l \in LinkIds, lk[l].plan = planNo, lk[l].node = n,
               lk[l].status = "Active", ~lk[l].replaced
        PROVE  LinkProjection(lk, n) = "InProgress"
    BY <1>1, Zenon DEF LinkProjection, LinksOf
  <1>2. ASSUME LinkProjection(lk, n) = "Completed"
        PROVE  \/ declared[n] = "Completed"
               \/ \E l \in LinkIds : /\ lk[l].plan = planNo /\ lk[l].node = n
                                     /\ lk[l].status = "Completed"
    BY <1>2, Zenon DEF LinkProjection, LinksOf
  <1>3. ASSUME declared[n] # "Absent" PROVE LinkProjection(lk, n) # "Absent"
    BY <1>3, Zenon DEF LinkProjection
  <1>. QED BY <1>1, <1>2, <1>3, Zenon

\* The steps on links: no attempt was started; st and lk are the tree and the links
\* they write before the refresh.
LEMMA LinkedManned ==
    ASSUME MannedInv, TypeInv', NEW st, NEW lk, links' = lk, Same(st, status'),
           UNCHANGED <<planNo, declared, nextNode, attempts>>,
           \A a \in AttemptIds : attempts[a].outcome = "Free",
           \A n \in NodeIds : st[n] # "Absent" => status[n] # "Absent",
           \A l \in LinkIds :
              /\ lk[l].plan <= planNo
              /\ lk[l].plan = planNo /\ lk[l].node # NoNode =>
                    /\ st[lk[l].node] # "Absent"
                    /\ lk[l].status = "Active" => st[lk[l].node] = "InProgress" /\ ~lk[l].replaced
    PROVE  MannedInv'
  <1>1. Manned(st, declared, nextNode, planNo, lk, attempts)
    BY Zenon DEF MannedInv, Manned
  <1>2. \A l \in LinkIds : lk[l].node \in NodeIds \cup {NoNode}
    BY Zenon DEF TypeInv, LinkTypes, LinkRecords
  <1>3. Manned(status', declared, nextNode, planNo, lk, attempts)
    BY <1>1, <1>2, MannedRefresh, Zenon
  <1>. QED BY <1>3, Zenon DEF MannedInv

LEMMA BindManned ==
    ASSUME MannedInv, TypeInv', NEW l \in LinkIds, NEW n \in NodeIds, NEW b, BindSubagent(l, n, b)
    PROVE  MannedInv' /\ ClosedByWork
  <1>. DEFINE new == [plan |-> planNo, node |-> n, binding |-> b,
                      status |-> "Active", replaced |-> FALSE]
             old(m) == [links[m] EXCEPT !.status = "Superseded", !.replaced = TRUE]
             lk == [m \in LinkIds |->
                      IF m = l THEN new
                      ELSE IF m \in LinksOf(links, n) /\ ~links[m].replaced
                              /\ links[m].status \in LinkEnds
                      THEN old(m)
                      ELSE links[m]]
             st == [m \in NodeIds |->
                      IF m = n THEN LinkProjection(lk, n)
                      ELSE IF m \in Ancestors(parent, n) /\ status[m] \in {"Blocked", "Failed"}
                      THEN "Expanded" ELSE status[m]]
  <1>1. /\ UNCHANGED <<planNo, declared, nextNode, attempts>> /\ links' = lk /\ parent' = parent
        /\ \E ph : status' = RefreshParentStates(st, parent, ph, sched', attempts, leases, lk)
        /\ status[n] # "Absent" /\ \A a \in AttemptIds : attempts[a].outcome = "Free"
    BY Zenon DEF BindSubagent, Refreshed, treeVars, attemptVars, LinkDomain
  <1>2. /\ new.plan = planNo /\ new.node = n /\ new.status = "Active" /\ ~new.replaced
        /\ lk[l] = new
    BY Zenon
  <1>3. ASSUME NEW m \in LinkIds, m # l
        PROVE  \/ lk[m] = links[m]
               \/ /\ lk[m].plan = links[m].plan /\ lk[m].node = links[m].node
                  /\ lk[m].status = "Superseded"
    <2>1. links[m] \in LinkRecords
      BY LinkedNode, Zenon DEF MannedInv
    <2>2. /\ old(m).plan = links[m].plan /\ old(m).node = links[m].node
          /\ old(m).status = "Superseded"
      BY <2>1, Zenon DEF LinkRecords
    <2>3. lk[m] = links[m] \/ lk[m] = old(m)
      BY <1>3, Zenon
    <2>. HIDE DEF lk, old
    <2>. QED BY <2>2, <2>3, Zenon
  <1>4. /\ st[n] = LinkProjection(lk, n)
        /\ \A m \in NodeIds : m # n => st[m] = status[m]
              \/ (st[m] = "Expanded" /\ status[m] \in {"Blocked", "Failed"})
    BY Zenon
  <1>. HIDE DEF new, old, lk, st
  <1>5. st[n] = "InProgress"
    BY <1>2, <1>4, ProjectionFacts
  <1>6. Same(st, status')
    BY <1>1, RefreshEarns, ZenonT(30)
  <1>7. \A m \in NodeIds : st[m] # "Absent" => status[m] # "Absent"
    BY <1>1, <1>4, Zenon
  <1>8. ASSUME NEW m \in LinkIds
        PROVE  /\ lk[m].plan <= planNo
               /\ lk[m].plan = planNo /\ lk[m].node # NoNode =>
                    /\ st[lk[m].node] # "Absent"
                    /\ lk[m].status = "Active" => st[lk[m].node] = "InProgress" /\ ~lk[m].replaced
    <2>1. CASE m = l
      BY <1>2, <1>5, <2>1, LinkNumbers, SMTT(20) DEF MannedInv
    <2>2. CASE m # l
      <3>1. /\ lk[m].plan = links[m].plan /\ lk[m].node = links[m].node
            /\ lk[m].status = "Active" => lk[m] = links[m]
        BY <1>3, <2>2, Zenon
      <3>2. links[m].node \in NodeIds \cup {NoNode}
        BY LinkNumbers, Zenon DEF MannedInv
      <3>3. \A k \in NodeIds : /\ status[k] # "Absent" => st[k] # "Absent"
                               /\ status[k] = "InProgress" => st[k] = "InProgress"
        BY <1>4, <1>5, Zenon
      <3>. QED BY <3>1, <3>2, <3>3 DEF MannedInv, Manned
    <2>. QED BY <2>1, <2>2, Zenon
  <1>9. MannedInv'
    BY <1>1, <1>6, <1>7, <1>8, LinkedManned
  <1>10. ClosedByWork
    <2>1. root \in NodeIds /\ st[root] = "Completed" => status[root] = "Completed"
      BY <1>4, <1>5, Zenon
    <2>. QED BY <1>1, <2>1, RefreshCloses, Zenon DEF MannedInv
  <1>. QED BY <1>9, <1>10, Zenon

LEMMA UpdateLinkManned ==
    ASSUME MannedInv, TypeInv', NEW l \in LinkIds, NEW end \in LinkEnds, UpdateSubagentLink(l, end)
    PROVE  MannedInv' /\ ClosedByWork
  <1>1. PICK m \in LinkIds :
           LET lk == [links EXCEPT ![m].status = end]
               n == links[m].node
           IN  /\ links[m].plan = planNo /\ n # NoNode /\ links' = lk
               /\ Refreshed([status EXCEPT ![n] = LinkProjection(lk, n)], phase, attempts, leases, lk)
    BY Zenon DEF UpdateSubagentLink, LinkOfBinding
  <1>. DEFINE rec == [links[m] EXCEPT !.status = end]
             lk == [links EXCEPT ![m] = rec]
             n == links[m].node
             st == [status EXCEPT ![n] = LinkProjection(lk, n)]
  <1>2. /\ UNCHANGED <<planNo, declared, nextNode, attempts>> /\ links' = lk /\ parent' = parent
        /\ status' = RefreshParentStates(st, parent, phase, sched', attempts, leases, lk)
    BY <1>1, Zenon DEF UpdateSubagentLink, Refreshed, treeVars, attemptVars
  <1>3. /\ rec.plan = planNo /\ rec.node = n /\ rec.status = end /\ end # "Active"
    <2>1. links[m] \in LinkRecords
      BY LinkedNode, Zenon DEF MannedInv
    <2>. QED BY <1>1, <2>1, Zenon DEF LinkRecords, LinkEnds
  <1>4. lk[m] = rec /\ \A k \in LinkIds : k # m => lk[k] = links[k]
    BY Zenon DEF MannedInv, TypeInv, LinkTypes
  <1>5. n \in NodeIds /\ status[n] # "Absent" /\ declared[n] # "Absent"
        /\ \A a \in AttemptIds : attempts[a].outcome = "Free"
    <2>1. n \in NodeIds
      BY <1>1, LinkNumbers, Zenon DEF MannedInv
    <2>. QED BY <1>1, <2>1, Zenon DEF MannedInv, Manned
  <1>6. st[n] = LinkProjection(lk, n) /\ \A k \in NodeIds : k # n => st[k] = status[k]
    BY <1>5, Zenon DEF MannedInv, TypeInv, StateTypes, Trees
  <1>. HIDE DEF rec, lk, n, st
  <1>7. Same(st, status')
    BY <1>2, RefreshEarns, ZenonT(30)
  <1>8. \A k \in NodeIds : st[k] # "Absent" => status[k] # "Absent"
    BY <1>5, <1>6, Zenon
  <1>9. ASSUME NEW k \in LinkIds
        PROVE  /\ lk[k].plan <= planNo
               /\ lk[k].plan = planNo /\ lk[k].node # NoNode =>
                    /\ st[lk[k].node] # "Absent"
                    /\ lk[k].status = "Active" => st[lk[k].node] = "InProgress" /\ ~lk[k].replaced
    <2>1. CASE k = m
      BY <1>3, <1>4, <1>5, <1>6, <2>1, ProjectionFacts, LinkNumbers DEF MannedInv
    <2>2. CASE k # m
      <3>1. lk[k] = links[k] /\ links[k].node \in NodeIds \cup {NoNode}
        BY <1>4, <2>2, LinkNumbers, Zenon DEF MannedInv
      <3>2. /\ links[k].plan <= planNo
            /\ links[k].plan = planNo /\ links[k].node # NoNode =>
                 /\ status[links[k].node] # "Absent"
                 /\ links[k].status = "Active" => status[links[k].node] = "InProgress"
                                                  /\ ~links[k].replaced
        BY Zenon DEF MannedInv, Manned
      <3>3. CASE links[k].node = n
        BY <1>5, <1>6, <3>1, <3>2, <3>3, ProjectionFacts
      <3>4. CASE links[k].node # n
        BY <1>6, <3>1, <3>2, <3>4, Zenon
      <3>. QED BY <3>3, <3>4, Zenon
    <2>. QED BY <2>1, <2>2, Zenon
  <1>10. MannedInv'
    BY <1>2, <1>5, <1>7, <1>8, <1>9, LinkedManned, Zenon
  <1>11. ClosedByWork
    <2>1. ASSUME root \in NodeIds, status[root] # "Completed", st[root] = "Completed"
          PROVE  ClosedByWork
      <3>1. root = n /\ LinkProjection(lk, root) = "Completed"
        BY <1>6, <2>1, Zenon
      <3>2. \/ declared[root] = "Completed"
            \/ \E k \in LinkIds : lk[k].plan = planNo /\ lk[k].node = root /\ lk[k].status = "Completed"
        BY <2>1, <3>1, ProjectionFacts, Zenon
      <3>. QED BY <1>2, <3>2, Zenon DEF ClosedByWork
    <2>. QED BY <1>2, <2>1, RefreshCloses, Zenon DEF MannedInv
  <1>. QED BY <1>10, <1>11, Zenon

LEMMA LinkStepManned ==
    ASSUME MannedInv, TypeInv', LinkSteps
    PROVE  MannedInv' /\ ClosedByWork
  <1>1. ASSUME NEW l, LinkUpdateFails(l) PROVE MannedInv' /\ ClosedByWork
    <2>1. UNCHANGED <<status, declared, nextNode, planNo, links, attempts>>
      BY <1>1, Zenon DEF LinkUpdateFails, treeVars, attemptVars
    <2>. QED BY <2>1, StillManned
  <1>. QED BY <1>1, BindManned, UpdateLinkManned, Zenon DEF LinkSteps

LEMMA StartManned ==
    ASSUME MannedInv, TypeInv', NEW a \in AttemptIds, NEW n, NEW e, NEW leased,
           StartAttempt(a, n, e, leased)
    PROVE  MannedInv' /\ ClosedByWork
  <1>. DEFINE new == [node |-> n, executor |-> e, leased |-> leased,
                      outcome |-> "Live", effects |-> FALSE]
  <1>1. /\ UNCHANGED <<planNo, declared, nextNode, links>>
        /\ attempts' = [attempts EXCEPT ![a] = new] /\ status' = [status EXCEPT ![n] = "InProgress"]
        /\ \A l \in LinkIds : links[l].plan # planNo
        /\ n \in NodeIds /\ status[n] \in {"Pending", "Verifying"}
    BY Zenon DEF StartAttempt, treeVars, linkVars, AttemptDomain, ReadyNodes
  <1>2. new.node = n /\ new.outcome = "Live"
    BY Zenon
  <1>. HIDE DEF new
  <1>3. /\ attempts'[a] = new /\ \A b \in AttemptIds : b # a => attempts'[b] = attempts[b]
        /\ status'[n] = "InProgress" /\ \A m \in NodeIds : m # n => status'[m] = status[m]
    BY <1>1 DEF MannedInv, TypeInv, AttemptInv, AttemptTypes, StateTypes, Trees
  <1>4. \A b \in AttemptIds : attempts[b].outcome = "Live" => attempts[b].node # n
    BY <1>1, Zenon DEF MannedInv, Manned
  <1>5. \A b \in AttemptIds : attempts'[b].outcome = "Live" =>
           attempts'[b].node \in NodeIds /\ status'[attempts'[b].node] = "InProgress"
    BY <1>1, <1>2, <1>3, <1>4, SMTT(20) DEF MannedInv, Manned
  <1>6. \A b, c \in AttemptIds : attempts'[b].outcome = "Live" /\ attempts'[c].outcome = "Live"
                                 /\ attempts'[b].node = attempts'[c].node => b = c
    BY <1>2, <1>3, <1>4, SMTT(20) DEF MannedInv, Manned
  <1>7. \A b \in AttemptIds : attempts'[b].outcome = "Free" => attempts'[b].node = NoNode
    BY <1>2, <1>3 DEF MannedInv, Manned
  <1>8. \A m \in NodeIds : status'[m] # "Absent" => m < nextNode' /\ declared'[m] # "Absent"
    BY <1>1, <1>3, Zenon DEF MannedInv, Manned
  <1>9. \A l \in LinkIds : links'[l].plan <= planNo' /\ links'[l].plan # planNo'
    BY <1>1, Zenon DEF MannedInv, Manned
  <1>10. MannedInv'
    BY <1>5, <1>6, <1>7, <1>8, <1>9, Zenon DEF MannedInv, Manned
  <1>11. ClosedByWork
    BY <1>3, RootIsNode, Zenon DEF ClosedByWork, MannedInv
  <1>. QED BY <1>10, <1>11, Zenon

LEMMA OutcomeFacts ==
    ASSUME NEW n, NEW outcome \in Reportable
    PROVE  /\ StatusAfterOutcome(n, outcome) # "Absent"
           /\ StatusAfterOutcome(n, outcome) = "Completed" => outcome = "Completed"
  BY Zenon DEF StatusAfterOutcome, Reportable

LEMMA ReportManned ==
    ASSUME MannedInv, TypeInv', NEW a \in AttemptIds, NEW outcome \in Reportable, NEW k \in Nat,
           NEW d \in Declared, NEW chain, NEW acked, NEW applied,
           ReportAttempt(a, outcome, k, d, chain, acked, applied)
    PROVE  MannedInv' /\ ClosedByWork
  <1>. DEFINE n == attempts[a].node
             new == NewNodes(k)
             rec == Closed(attempts[a], outcome)
             at == [attempts EXCEPT ![a] = rec]
             ls == [leases EXCEPT ![a] = IF attempts[a].leased THEN "Resolved" ELSE @]
             st == [m \in NodeIds |-> IF m = n THEN StatusAfterOutcome(n, outcome)
                                      ELSE IF m \in new THEN d ELSE status[m]]
  <1>1. /\ UNCHANGED <<planNo, links>> /\ nextNode' = nextNode + k
        /\ attempts' = at /\ attempts[a].outcome = "Live"
        /\ declared' = [m \in NodeIds |-> IF m \in new THEN d ELSE declared[m]]
        /\ status' = RefreshParentStates(st, parent', phase, sched', at, ls, links)
    BY Zenon DEF ReportAttempt, RefreshedAndSettled, linkVars, CurrentAttempt
  <1>2. rec.node = n /\ rec.outcome = outcome /\ outcome # "Free" /\ outcome # "Live"
    BY Zenon DEF Closed, Reportable
  <1>3. at[a] = rec /\ \A b \in AttemptIds : b # a => at[b] = attempts[b]
    BY Zenon DEF MannedInv, TypeInv, AttemptInv, AttemptTypes
  <1>4. /\ n \in NodeIds /\ status[n] = "InProgress" /\ d # "Absent" /\ nextNode \in Nat
        /\ \A l \in LinkIds : links[l].plan # planNo
        /\ \A m \in NodeIds : status[m] # "Absent" => m \notin new
    <2>1. /\ n \in NodeIds /\ status[n] = "InProgress" /\ \A l \in LinkIds : links[l].plan # planNo
          /\ \A m \in NodeIds : status[m] # "Absent" => m < nextNode
      BY <1>1, Zenon DEF MannedInv, Manned
    <2>2. d # "Absent" /\ nextNode \in Nat
      BY PlanAssumption, LinkNumbers, Zenon DEF Authored, MannedInv
    <2>. QED BY <2>1, <2>2 DEF NewNodes, NodeIds
  <1>5. /\ st[n] = StatusAfterOutcome(n, outcome)
        /\ \A m \in NodeIds : m # n => st[m] = IF m \in new THEN d ELSE status[m]
        /\ \A m \in NodeIds : declared'[m] = IF m \in new THEN d ELSE declared[m]
        /\ \A m \in new : m < nextNode + k
    BY <1>1, <1>4 DEF NewNodes
  <1>. HIDE DEF n, new, rec, at, ls, st
  <1>6. Same(st, status')
    BY <1>1, RefreshEarns, ZenonT(30)
  <1>7. ASSUME NEW m \in NodeIds, st[m] # "Absent" PROVE m < nextNode' /\ declared'[m] # "Absent"
    <2>1. CASE m \in new
      BY <1>1, <1>4, <1>5, <2>1, Zenon
    <2>2. CASE m \notin new
      <3>1. status[m] # "Absent"
        BY <1>4, <1>5, <1>7, <2>2, Zenon
      <3>2. m < nextNode /\ declared[m] # "Absent"
        BY <3>1, Zenon DEF MannedInv, Manned
      <3>3. declared'[m] = declared[m]
        BY <1>5, <2>2, Zenon
      <3>4. nextNode' = nextNode + k /\ nextNode \in Nat
        BY <1>1, <1>4, Zenon
      <3>5. m \in Nat
        BY DEF NodeIds
      <3>. QED BY <3>2, <3>3, <3>4, <3>5
    <2>. QED BY <2>1, <2>2, Zenon
  <1>8. ASSUME NEW b \in AttemptIds, attempts'[b].outcome = "Live"
        PROVE  /\ attempts[b].outcome = "Live" /\ attempts'[b].node = attempts[b].node
               /\ st[attempts[b].node] = status[attempts[b].node]
    <2>1. b # a /\ attempts'[b] = attempts[b]
      BY <1>1, <1>2, <1>3, <1>8, Zenon
    <2>2. attempts[b].node \in NodeIds /\ status[attempts[b].node] = "InProgress"
          /\ attempts[b].node # n
      BY <1>1, <1>8, <2>1, Zenon DEF MannedInv, Manned, n
    <2>. QED BY <1>4, <1>5, <1>8, <2>1, <2>2, Zenon
  <1>9. \A b \in AttemptIds : /\ attempts'[b].outcome = "Free" <=> attempts[b].outcome = "Free"
                              /\ attempts'[b].outcome = "Free" => attempts'[b].node = attempts[b].node
    BY <1>1, <1>2, <1>3, ZenonT(30)
  <1>10. Ending(st)
    BY <1>1, <1>4, <1>6, <1>7, <1>8, <1>9 DEF Ending
  <1>11. MannedInv'
    BY <1>10, EndingManned, Zenon
  <1>12. ClosedByWork
    <2>1. ASSUME root \in NodeIds, status[root] # "Completed", st[root] = "Completed"
          PROVE  ClosedByWork
      <3>1. CASE root = n
        <4>1. outcome = "Completed"
          BY <1>5, <2>1, <3>1, OutcomeFacts, Zenon
        <4>2. attempts'[a].node = root /\ attempts'[a].outcome = "Completed"
          BY <1>1, <1>2, <1>3, <3>1, <4>1, Zenon
        <4>. QED BY <4>2, Zenon DEF ClosedByWork
      <3>2. CASE root # n
        <4>1. declared'[root] = "Completed"
          BY <1>5, <2>1, <3>2, Zenon
        <4>. QED BY <4>1, Zenon DEF ClosedByWork
      <3>. QED BY <3>1, <3>2, Zenon
    <2>. QED BY <1>1, <2>1, RefreshCloses, Zenon DEF MannedInv
  <1>. QED BY <1>11, <1>12, Zenon

LEMMA CancelManned ==
    ASSUME MannedInv, TypeInv', NEW a \in AttemptIds, CancelAttempt(a)
    PROVE  MannedInv' /\ ClosedByWork
  <1>. DEFINE rec == Closed(attempts[a], "Cancelled")
             over == {a}
             st == status'
  <1>1. /\ UNCHANGED <<planNo, links, declared, nextNode>> /\ attempts[a].outcome = "Live"
        /\ status' = [status EXCEPT ![attempts[a].node] = "Blocked"]
        /\ attempts' = [attempts EXCEPT ![a] = rec]
    BY Zenon DEF CancelAttempt, treeVars, linkVars, LiveLease
  <1>2. rec.outcome \notin {"Free", "Live"}
    BY Zenon DEF Closed
  <1>. HIDE DEF rec
  <1>3. \A b \in AttemptIds : IF b \in over THEN attempts'[b].outcome \notin {"Free", "Live"}
                              ELSE attempts'[b] = attempts[b]
    BY <1>1, <1>2, Zenon DEF MannedInv, TypeInv, AttemptInv, AttemptTypes
  <1>4. \A m \in NodeIds : /\ st[m] = status[m] \/ (st[m] = "Blocked" /\ attempts[a].node = m)
    BY <1>1, Zenon DEF MannedInv, TypeInv, StateTypes, Trees
  <1>5. over \subseteq LiveAttempts(attempts) /\ a \in over
    BY <1>1, Zenon DEF LiveAttempts
  <1>6. Same(st, status')
    BY Zenon DEF Same
  <1>7. \A m \in NodeIds : st[m] = status[m] \/ \E b \in over : attempts[b].node = m
    BY <1>4, <1>5, Zenon
  <1>. HIDE DEF over, st
  <1>8. Ending(st)
    BY <1>1, <1>3, <1>5, <1>6, <1>7, EndingThem, Zenon
  <1>9. MannedInv'
    BY <1>8, EndingManned, Zenon
  <1>10. ClosedByWork
    BY <1>4, RootIsNode, Zenon DEF ClosedByWork, MannedInv, st
  <1>. QED BY <1>9, <1>10, Zenon

LEMMA ExpiryManned ==
    ASSUME MannedInv, TypeInv', NEW late \in SUBSET AttemptIds, InterruptExpiredLeases(late)
    PROVE  MannedInv' /\ ClosedByWork
  <1>. DEFINE at == [a \in AttemptIds |->
                  IF a \in late THEN Closed(attempts[a], "Interrupted") ELSE attempts[a]]
             ls == [a \in AttemptIds |-> IF a \in late THEN "Expired" ELSE leases[a]]
             st == [n \in NodeIds |->
                  IF \E a \in late : attempts[a].node = n
                  THEN IF \A a \in late : attempts[a].node = n => CanRetry(a)
                       THEN "Pending" ELSE "Blocked"
                  ELSE status[n]]
  <1>1. /\ UNCHANGED <<planNo, links, declared, nextNode>> /\ attempts' = at /\ parent' = parent
        /\ status' = RefreshParentStates(st, parent, phase, sched', at, ls, links)
        /\ \A a \in late : LiveLease(a)
    BY Zenon DEF InterruptExpiredLeases, RefreshedAndSettled, treeVars, linkVars
  <1>2. \A n \in NodeIds : /\ st[n] = status[n] \/ \E a \in late : attempts[a].node = n
                           /\ st[n] = "Completed" => status[n] = "Completed"
    BY Zenon
  <1>3. \A a \in AttemptIds : IF a \in late THEN at[a].outcome \notin {"Free", "Live"}
                              ELSE at[a] = attempts[a]
    BY Zenon DEF Closed
  <1>4. late \subseteq LiveAttempts(attempts)
    BY <1>1, Zenon DEF LiveLease, LiveAttempts
  <1>. HIDE DEF at, ls, st
  <1>5. Same(st, status')
    BY <1>1, RefreshEarns, ZenonT(30)
  <1>6. Ending(st)
    <2>1. \A a \in AttemptIds : IF a \in late THEN attempts'[a].outcome \notin {"Free", "Live"}
                                ELSE attempts'[a] = attempts[a]
      BY <1>1, <1>3, Zenon
    <2>2. UNCHANGED <<links, planNo, declared, nextNode>>
      BY <1>1, Zenon
    <2>3. \A n \in NodeIds : st[n] = status[n] \/ \E a \in late : attempts[a].node = n
      BY <1>2, Zenon
    <2>. QED BY <1>4, <1>5, <2>1, <2>2, <2>3, EndingThem
  <1>7. MannedInv'
    BY <1>6, EndingManned
  <1>8. ClosedByWork
    BY <1>1, <1>2, RefreshCloses, Zenon DEF MannedInv
  <1>. QED BY <1>7, <1>8, Zenon

\* A restart blocks the nodes somebody was at; none of them is completed, so the
\* children that closed the root in the first refresh are still completed.
LEMMA RestartManned ==
    ASSUME MannedInv, TypeInv', Restart
    PROVE  MannedInv' /\ ClosedByWork
  <1>. DEFINE st == RefreshParentStates(status, parent, phase, sched, attempts, leases, links)
             open == LiveAttempts(attempts)
             cut == ActiveLinks(links)
             at == [a \in AttemptIds |->
                  IF a \in open THEN Closed(attempts[a], "Interrupted") ELSE attempts[a]]
             ended(l) == [links[l] EXCEPT !.status = "Cancelled"]
             lk == [l \in LinkIds |-> IF l \in cut THEN ended(l) ELSE links[l]]
             stopped == {attempts[a].node : a \in open} \cup {links[l].node : l \in cut}
             halted == [n \in NodeIds |-> IF n \in stopped THEN "Blocked" ELSE st[n]]
  <1>1. /\ UNCHANGED <<planNo, declared, nextNode>> /\ parent' = parent
        /\ attempts' = at /\ links' = lk
        /\ \/ stopped = {} /\ status' = st
           \/ \E ph, ls : status' = RefreshParentStates(halted, parent, ph, sched', at, ls, lk)
    BY Zenon DEF Restart, Refreshed, treeVars
  <1>2. /\ Same(status, st)
        /\ \A n \in NodeIds : status[n] # "Completed" /\ st[n] = "Completed" => Earned(st, parent, n)
    BY RefreshEarns, ZenonT(30)
  <1>3. \A n \in NodeIds : halted[n] = IF n \in stopped THEN "Blocked" ELSE st[n]
    BY Zenon
  <1>4. \A n \in NodeIds : n \in stopped => status[n] = "InProgress"
    BY Zenon DEF LiveAttempts, ActiveLinks, MannedInv, Manned
  <1>5. \A a \in AttemptIds : /\ at[a].outcome # "Live"
                              /\ at[a].outcome = "Free" => at[a] = attempts[a]
                              /\ attempts[a].outcome = "Free" => at[a] = attempts[a]
    BY Zenon DEF Closed, LiveAttempts
  <1>6. ASSUME NEW l \in LinkIds
        PROVE  /\ lk[l].plan = links[l].plan /\ lk[l].node = links[l].node
               /\ ~(lk[l].plan = planNo /\ lk[l].node # NoNode /\ lk[l].status = "Active")
    <2>1. links[l] \in LinkRecords
      BY LinkedNode, Zenon DEF MannedInv
    <2>2. /\ ended(l).plan = links[l].plan /\ ended(l).node = links[l].node
          /\ ended(l).status = "Cancelled"
      BY <2>1, Zenon DEF LinkRecords
    <2>3. IF l \in cut THEN lk[l] = ended(l) ELSE lk[l] = links[l]
      BY Zenon
    <2>4. l \notin cut => ~(links[l].plan = planNo /\ links[l].node # NoNode /\ links[l].status = "Active")
      BY Zenon DEF ActiveLinks
    <2>. HIDE DEF cut, lk, ended
    <2>. QED BY <2>2, <2>3, <2>4, Zenon
  <1>. HIDE DEF st, open, cut, at, ended, lk, stopped, halted
  <1>7. PICK tree : /\ Same(tree, status') /\ \A n \in NodeIds : n \notin stopped => tree[n] = st[n]
                    /\ \A n \in NodeIds : n \in stopped => tree[n] = "Blocked"
                    /\ \/ tree = status'
                       \/ /\ tree = halted
                          /\ \E ph, ls : status' = RefreshParentStates(halted, parent, ph, sched', at, ls, lk)
    <2>1. CASE stopped = {} /\ status' = st
      <3>1. Same(st, status')
        BY <2>1, Zenon DEF Same
      <3>. QED BY <2>1, <3>1, Zenon
    <2>2. CASE \E ph, ls : status' = RefreshParentStates(halted, parent, ph, sched', at, ls, lk)
      <3>1. Same(halted, status')
        BY <2>2, RefreshEarns, ZenonT(30)
      <3>. QED BY <1>3, <2>2, <3>1, Zenon
    <2>. QED BY <1>1, <2>1, <2>2, Zenon
  <1>8. \A n \in NodeIds : tree[n] = "Absent" <=> status[n] = "Absent"
    BY <1>2, <1>4, <1>7, Zenon DEF Same
  <1>9. Manned(tree, declared', nextNode', planNo', links', attempts')
    <2>1. \A n \in NodeIds : tree[n] # "Absent" => n < nextNode' /\ declared'[n] # "Absent"
      BY <1>1, <1>8, ZenonT(30) DEF MannedInv, Manned
    <2>2. ASSUME NEW l \in LinkIds
          PROVE  /\ links'[l].plan <= planNo'
                 /\ links'[l].plan = planNo' /\ links'[l].node # NoNode =>
                      tree[links'[l].node] # "Absent" /\ links'[l].status # "Active"
      <3>1. links[l].node \in NodeIds \cup {NoNode}
        BY LinkNumbers, Zenon DEF MannedInv
      <3>. QED BY <1>1, <1>6, <1>8, <3>1 DEF MannedInv, Manned
    <2>3. \A a \in AttemptIds, l \in LinkIds : attempts'[a].outcome # "Free" => links'[l].plan # planNo'
      BY <1>1, <1>5, <1>6 DEF MannedInv, Manned
    <2>4. \A a \in AttemptIds : /\ attempts'[a].outcome # "Live"
                                /\ attempts'[a].outcome = "Free" => attempts'[a].node = NoNode
      BY <1>1, <1>5, Zenon DEF MannedInv, Manned
    <2>. QED BY <2>1, <2>2, <2>3, <2>4, Zenon DEF Manned
  <1>10. MannedInv'
    <2>1. \A l \in LinkIds : links'[l].node \in NodeIds \cup {NoNode}
      BY Zenon DEF TypeInv, LinkTypes, LinkRecords
    <2>2. Manned(status', declared', nextNode', planNo', links', attempts')
      BY <1>7, <1>9, <2>1, MannedRefresh, Zenon
    <2>. QED BY <2>2, Zenon DEF MannedInv
  <1>11. ASSUME root \in NodeIds, status[root] # "Completed", tree[root] = "Completed"
         PROVE  ClosedByWork
    <2>1. Earned(st, parent, root)
      BY <1>2, <1>7, <1>11, Zenon
    <2>2. \A c \in NodeIds : c \in stopped => st[c] = "InProgress"
      BY <1>2, <1>4, Zenon DEF Same
    <2>3. Children(tree, parent, root) = Children(st, parent, root)
      BY <1>7, <2>2, Zenon DEF Children, LiveNodes
    <2>4. Children(st, parent, root) \subseteq NodeIds
      BY Zenon DEF Children, LiveNodes
    <2>5. Earned(tree, parent, root)
      BY <1>7, <2>1, <2>2, <2>3, <2>4, Zenon DEF Earned
    <2>6. Earned(status', parent', root)
      BY <1>1, <1>7, <2>5, EarnedStays
    <2>. QED BY <2>6, Zenon DEF ClosedByWork
  <1>12. ClosedByWork
    <2>1. CASE tree = status'
      BY <1>11, <2>1, RootIsNode DEF ClosedByWork, MannedInv
    <2>2. CASE tree = halted /\ \E ph, ls :
                 status' = RefreshParentStates(halted, parent, ph, sched', at, ls, lk)
      BY <1>1, <1>11, <2>2, RefreshCloses, Zenon DEF MannedInv
    <2>. QED BY <1>7, <2>1, <2>2, Zenon
  <1>. QED BY <1>10, <1>12

LEMMA AttemptStepManned ==
    ASSUME MannedInv, TypeInv', AttemptSteps
    PROVE  MannedInv' /\ ClosedByWork
  <1>1. PICK a \in AttemptIds :
          \/ \E n \in ReadyNodes, e \in Executors, leased \in BOOLEAN : StartAttempt(a, n, e, leased)
          \/ RecordRuntimeEffect(a) \/ DeliverQueuedDirectives(a)
          \/ \E x \in DirectiveIds : IssueDirective(x, a)
          \/ \E acked, applied : ReportProgress(a, acked, applied)
          \/ CancelAttempt(a)
          \/ \E outcome \in Reportable, d \in Declared, k \in Nat : \E chain, acked, applied :
                ReportAttempt(a, outcome, k, d, chain, acked, applied)
    <2>1. ASSUME NEW outcome, NEW k \in IF outcome = "Decomposed" THEN ChildCounts ELSE {0}
          PROVE  k \in Nat
      BY PlanAssumption
    <2>. QED BY <2>1 DEF AttemptSteps
  <1>2. ASSUME \/ RecordRuntimeEffect(a) \/ DeliverQueuedDirectives(a)
               \/ \E x \in DirectiveIds : IssueDirective(x, a)
               \/ \E acked, applied : ReportProgress(a, acked, applied)
        PROVE  MannedInv' /\ ClosedByWork
    <2>1. /\ UNCHANGED <<status, declared, nextNode, planNo, links>>
          /\ attempts' = attempts \/ attempts' = [attempts EXCEPT ![a].effects = TRUE]
      BY <1>2, Zenon DEF RecordRuntimeEffect, DeliverQueuedDirectives, IssueDirective, ReportProgress,
                  treeVars, linkVars
    <2>2. \A b \in AttemptIds : attempts'[b].outcome = attempts[b].outcome
                                /\ attempts'[b].node = attempts[b].node
      <3>1. attempts \in [AttemptIds -> AttemptRecords]
        BY Zenon DEF MannedInv, TypeInv, AttemptInv, AttemptTypes
      <3>. QED BY <2>1, <3>1 DEF AttemptRecords
    <2>. QED BY <2>1, <2>2, StillManned, Zenon
  <1>. QED BY <1>1, <1>2, StartManned, CancelManned, ReportManned, Zenon

LEMMA MannedStep ==
    ASSUME MannedInv, TypeInv', [Next]_vars
    PROVE  MannedInv' /\ ClosedByWork
  <1>1. CASE UNCHANGED vars
    <2>1. UNCHANGED <<status, declared, nextNode, planNo, links, attempts>>
      BY <1>1, Zenon DEF vars, treeVars, linkVars, attemptVars
    <2>. QED BY <2>1, StillManned, Zenon
  <1>. QED BY <1>1, CoordinatorManned, SubagentManned, ControlManned, LinkStepManned,
              AttemptStepManned, RestartManned, ExpiryManned, Zenon DEF Next
=============================================================================
