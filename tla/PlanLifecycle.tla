--------------------------- MODULE PlanLifecycle ---------------------------
(* The Plan of a session, as merry-runtime's plan controller keeps it: the    *)
(* tree of nodes the coordinator authors and linked children extend, the      *)
(* phase and the approval requirements that gate execution, the links that    *)
(* bind nodes to subagents, and the attempts, leases and directives of the    *)
(* attempt domain.  The controller is an actor that takes one command at a    *)
(* time, works on a clone of the plan and installs it when the command        *)
(* succeeds; a refused command changes nothing and is no step here.  How a    *)
(* commit reaches the disk is PlanStore's subject; a restart finds the last   *)
(* installed plan.                                                            *)
(*                                                                            *)
(* Revisions are not counted.  A caller whose expected revision is stale is   *)
(* refused, so every edit below is one whose author has seen the current      *)
(* plan; a binding id, which is the revision at which the link was made, is   *)
(* any number above the ids of the same plan, because commands that change    *)
(* nothing else advance the revision in between.  Texts, harnesses and        *)
(* evidence are left out, except the root's capabilities.                     *)
EXTENDS Naturals, FiniteSets

CONSTANTS
    MaxNodes,       \* node ids of one plan
    MaxEdits,       \* edits of the tree
    AttemptEdits,   \* edits of the tree before the first attempt starts
    MaxLinks,       \* bindings of the session, over all its plans
    MaxBinding,     \* the largest revision at which a link is made
    MaxAttempts,    \* attempts of one plan
    MaxDirectives,  \* directives of one plan
    MaxPlans,       \* plans of the session
    MaxTransient,   \* max_transient_attempts of every node
    Executors,      \* sessions that execute attempts
    Capabilities,   \* what roots ask for and users grant, of "narrow" and "wide"
    FirstChildren,  \* how many children the first definition of a plan may author
    ChildCounts,    \* how many new children a later edit may author
    Declared        \* statuses an edit may author

NoNode == 0
NodeIds == 1..MaxNodes
LinkIds == 1..MaxLinks
AttemptIds == 1..MaxAttempts
DirectiveIds == 1..MaxDirectives

\* The depth the model allows; MAX_PLAN_DEPTH is 16.
MaxDepth == 3

Phases == {"Planning", "AwaitingApproval", "Executing", "Completed", "Blocked", "Cancelled"}
TerminalPhases == {"Completed", "Blocked", "Cancelled"}
SchedulerStatuses == {"Active", "Paused", "Draining"}
Authored == {"Pending", "InProgress", "Completed", "Failed"}
NodeStatuses == Authored \cup {"Expanded", "Verifying", "Blocked", "Superseded"}
LinkEnds == {"Completed", "Failed", "Cancelled", "Blocked"}
LinkStatuses == LinkEnds \cup {"Active", "Superseded"}
Reportable == {"Completed", "Decomposed", "Blocked", "SemanticFailure", "TransientFailure", "Yielded"}
Outcomes == Reportable \cup {"Cancelled", "Interrupted"}
LeaseStatuses == {"Live", "Resolved", "Cancelled", "Expired"}
OpenDirective == {"Queued", "Delivered", "Acknowledged"}
DirectiveStatuses == OpenDirective \cup {"Applied", "Expired"}
\* "Review" is a review the author asked for, or a change of an established contract:
\* approval resolves them alike.
Requirements == {"Review", "Capability"}
Envelopes == {"narrow", "wide"}
Intents == {"ContinuePlanning", "ExecuteIfAuthorized", "RequestUserReview"}

\* The statuses one edit authors, for the topmost node of its input and for the others.
Authoring == [top : Declared, below : Declared]

ASSUME PlanAssumption ==
    /\ MaxNodes \in Nat /\ MaxEdits \in Nat /\ AttemptEdits \in Nat /\ MaxLinks \in Nat /\ MaxBinding \in Nat
    /\ MaxAttempts \in Nat /\ MaxDirectives \in Nat /\ MaxPlans \in Nat
    /\ MaxTransient \in Nat
    /\ FirstChildren \subseteq Nat /\ ChildCounts \subseteq Nat
    /\ Declared \subseteq Authored
    /\ Capabilities \subseteq Envelopes

VARIABLES
    planNo,       \* the number of the active plan, 0 when there is none
    phase,
    sched,        \* scheduler_status
    root,         \* root_node_id
    status,       \* of every node id; "Absent" before the node is made
    declared,     \* declared_status
    parent,       \* parent_id
    deps,         \* depends_on
    nextNode,     \* next_node_sequence
    edits,        \* edits of the tree so far, over all plans
    pending,      \* kinds of the pending approval requirements
    envelope,     \* authorized_capability_envelope, "none" when unset
    caps,         \* the capabilities the root's harness asks for
    established,  \* whether an execution contract fingerprint is stored
    links,        \* link records, of the active and of earlier plans
    running,      \* bindings whose subagent has not reported its end
    attempts,     \* attempt records of the active plan
    leases,       \* the status of the lease of each attempt
    directives    \* directive records of the active plan

treeVars == <<root, declared, parent, deps, nextNode, caps, edits>>
gateVars == <<pending, envelope, established>>
linkVars == <<links, running>>
attemptVars == <<attempts, leases, directives>>
vars == <<planNo, phase, sched, status, treeVars, gateVars, linkVars, attemptVars>>

NoLink == [plan |-> 0, node |-> NoNode, binding |-> 0, status |-> "Free", replaced |-> FALSE]
NoAttempt == [node |-> NoNode, executor |-> "none", leased |-> FALSE, outcome |-> "Free",
              effects |-> FALSE]
\* An ended attempt: what nothing reads any more is cleared.
Closed(at, outcome) == [node |-> at.node, executor |-> "none", leased |-> at.leased,
                        outcome |-> outcome, effects |-> FALSE]
NoDirective == [attempt |-> 0, status |-> "Free"]

BlankTree == [n \in NodeIds |-> "Absent"]
BlankParents == [n \in NodeIds |-> NoNode]
BlankDeps == [n \in NodeIds |-> {}]
BlankAttempts == [a \in AttemptIds |-> NoAttempt]
BlankLeases == [a \in AttemptIds |-> "None"]
BlankDirectives == [d \in DirectiveIds |-> NoDirective]

Init ==
    /\ planNo = 0 /\ phase = "Planning" /\ sched = "Active" /\ root = NoNode
    /\ status = BlankTree /\ declared = BlankTree
    /\ parent = BlankParents /\ deps = BlankDeps
    /\ nextNode = 1 /\ edits = 0 /\ caps = "narrow"
    /\ pending = {} /\ envelope = "none" /\ established = FALSE
    /\ links = [l \in LinkIds |-> NoLink] /\ running = {}
    /\ attempts = BlankAttempts /\ leases = BlankLeases
    /\ directives = BlankDirectives
------------------------------------------------------------------------------
(* The tree *)

LiveNodes(st) == {n \in NodeIds : st[n] \notin {"Absent", "Superseded"}}
Children(st, par, n) == {c \in LiveNodes(st) : par[c] = n}
Up(par, n) == IF n = NoNode THEN NoNode ELSE par[n]
Ancestors(par, n) == {Up(par, n), Up(par, Up(par, n))} \ {NoNode}
DepthOf(par, n) == 1 + Cardinality(Ancestors(par, n))

\* live_subtree_ids, for a tree of at most MaxDepth levels
LiveSubtree(st, par, n) ==
    LET kids == Children(st, par, n)
    IN  {n} \cup kids \cup UNION {Children(st, par, c) : c \in kids}

\* A link whose record went with a rebuilt node has no node.
LinksOf(lk, n) == {l \in LinkIds : lk[l].plan = planNo /\ lk[l].node = n}
ActiveLinks(lk) ==
    {l \in LinkIds : lk[l].plan = planNo /\ lk[l].node # NoNode /\ lk[l].status = "Active"}
LiveAttempts(at) == {a \in AttemptIds : at[a].outcome = "Live"}

Mutable(n) == /\ status[n] = "Pending"
              /\ \A l \in LinksOf(links, n) : links[l].status # "Active"

NodeHasLiveExecution(n, at, ls, lk) ==
    \/ \E a \in AttemptIds : at[a].node = n /\ (at[a].outcome = "Live" \/ ls[a] = "Live")
    \/ \E l \in ActiveLinks(lk) : lk[l].node = n

\* An assumption on the callers: links are "the authoritative execution projection"
\* and attempts are "legacy attempt-domain records", which no code of the runtime
\* starts any more: a plan is executed by links or by attempts, never by both.
LinkDomain == \A a \in AttemptIds : attempts[a].outcome = "Free"
AttemptDomain ==
    /\ \A l \in LinkIds : links[l].plan # planNo
    /\ LinkDomain => edits <= AttemptEdits

ActivePlanHasLiveWork ==
    \/ LiveAttempts(attempts) # {}
    \/ \E a \in AttemptIds : leases[a] = "Live"
    \/ ActiveLinks(links) # {}

\* Mutant of RefreshPass: one finished child in good order is taken for all.
RefreshPassAny(st, par, auto) ==
    [n \in NodeIds |->
        LET kids == Children(st, par, n)
        IN  IF /\ st[n] \in {"Pending", "Expanded", "Verifying"}
               /\ kids # {}
               /\ \A c \in kids : st[c] \in {"Completed", "Blocked", "Failed"}
            THEN IF \E c \in kids : st[c] = "Completed"
                 THEN IF n = root /\ auto THEN "Completed" ELSE "Verifying"
                 ELSE "Blocked"
            ELSE st[n]]

\* One pass of the loop of refresh_parent_states.
RefreshPass(st, par, auto) ==
    [n \in NodeIds |->
        LET kids == Children(st, par, n)
        IN  IF /\ st[n] \in {"Pending", "Expanded", "Verifying"}
               /\ kids # {}
               /\ \A c \in kids : st[c] \in {"Completed", "Blocked", "Failed"}
            THEN IF \A c \in kids : st[c] = "Completed"
                 THEN IF n = root /\ auto THEN "Completed" ELSE "Verifying"
                 ELSE "Blocked"
            ELSE st[n]]

\* The loop ends after one pass for each level above the leaves, MaxDepth - 1 of
\* them: what a pass closes is not open to the next one.
RefreshParentStates(st, par, ph, sc, at, ls, lk) ==
    LET auto == /\ ph = "Executing" /\ sc = "Active"
                /\ ~NodeHasLiveExecution(root, at, ls, lk)
    IN  RefreshPass(RefreshPass(st, par, auto), par, auto)

RefreshTerminalPhase(st, ph) ==
    IF root = NoNode THEN ph
    ELSE IF st[root] = "Completed" THEN "Completed"
    ELSE IF st[root] \in {"Blocked", "Failed"} THEN "Blocked" ELSE ph

\* Mutant of SettleDraining: it looks at the attempts of before the step.
SettleDrainingLate(ph, sc, at) ==
    IF sc = "Draining" /\ LiveAttempts(attempts) = {} THEN "Cancelled" ELSE ph

SettleDraining(ph, sc, at) ==
    IF sc = "Draining" /\ LiveAttempts(at) = {} THEN "Cancelled" ELSE ph

\* What a handler that recomputes the parents leaves: the statuses st are those
\* it has written itself, ph the phase before the refresh.
Refreshed(st, ph, at, ls, lk) ==
    /\ status' = RefreshParentStates(st, parent, ph, sched', at, ls, lk)
    /\ phase' = RefreshTerminalPhase(status', ph)

RefreshedAndSettled(st, par, ph, at, ls, lk) ==
    /\ status' = RefreshParentStates(st, par, ph, sched', at, ls, lk)
    /\ phase' = SettleDraining(RefreshTerminalPhase(status', ph), sched', at)

\* validate_graph, without sibling positions and harnesses: the root and every
\* parent and dependency of a live node are live, no node depends on itself or on
\* a descendant, and dependencies have no cycle.
Needs(dp, n) == dp[n] \cup UNION {dp[m] : m \in dp[n]}
ValidGraph(st, par, dp, r) ==
    LET live == LiveNodes(st)
    IN  /\ r \in live /\ par[r] = NoNode
        /\ \A n \in live \ {r} : par[n] \in live /\ r \in Ancestors(par, n)
        /\ \A n \in live : /\ dp[n] \subseteq live
                           /\ n \notin UNION {Needs(dp, m) : m \in dp[n]} \cup dp[n]
                           /\ \A m \in dp[n] : n \notin Ancestors(par, m)

Covers(env, asked) == env = "wide" \/ env = asked
------------------------------------------------------------------------------
(* Admission *)

\* apply_execution_intent on a candidate of phase ph with the root asking for cp.
ApplyExecutionIntent(intent, ph, pend, env, est, cp) ==
    LET short == IF env # "none" /\ ~Covers(env, cp) THEN {"Capability"} ELSE {}
    IN  \/ /\ intent = "ContinuePlanning" /\ ph # "Executing"
           /\ phase' = "Planning"
           /\ pending' = pend /\ envelope' = env /\ established' = est
        \/ /\ intent = "ExecuteIfAuthorized"
           /\ pending' = pend \cup short
           /\ envelope' = IF env = "none" THEN cp ELSE env
           /\ phase' = IF pending' # {} THEN "AwaitingApproval" ELSE "Executing"
           /\ established' = (est \/ pending' = {})
        \/ /\ intent = "RequestUserReview"
           /\ pending' = pend \cup short \cup {"Review"}
           /\ phase' = "AwaitingApproval"
           /\ envelope' = env /\ established' = est

\* record_root_contract_changes: an edit that rewords the root of an established
\* plan needs a review.
ContractChanges(reworded) ==
    IF established /\ reworded THEN {"Review"} ELSE {}
------------------------------------------------------------------------------
(* Edits of the coordinator *)

NewNodes(k) == nextNode .. (nextNode + k - 1)
HasRoom(k) == nextNode + k - 1 <= MaxNodes
MayEdit(k) == HasRoom(k) /\ edits < MaxEdits

\* The status an edit writes: the authored one, or, for a node the edit names by
\* its id and gives no status, the one declared before.
AuthoredStatus(n, top, new, d, inherit) ==
    IF n \notin new /\ inherit THEN declared[n] ELSE IF n = top THEN d.top ELSE d.below

\* TreeBuilder: the nodes of the input, `top' under `up' and `below' under `top',
\* are rebuilt: status as authored, links dropped, dependencies as authored.  New
\* siblings are independent or, when chained, each depends on the one before it.
Build(st, top, up, below, new, d, inherit, chain) ==
    LET input == {top} \cup below
    IN  /\ status' = [n \in NodeIds |->
              IF n \in input THEN AuthoredStatus(n, top, new, d, inherit) ELSE st[n]]
        /\ declared' = [n \in NodeIds |->
              IF n \in input THEN AuthoredStatus(n, top, new, d, inherit) ELSE declared[n]]
        /\ parent' = [n \in NodeIds |->
              IF n = top THEN up ELSE IF n \in below THEN top ELSE parent[n]]
        /\ deps' = [n \in NodeIds |->
              IF n \in new /\ chain /\ n - 1 \in new \ {top} /\ n # top THEN {n - 1}
              ELSE IF n \in new \/ (n \in input /\ ~inherit) THEN {}
              ELSE deps[n]]
        /\ nextNode' = nextNode + Cardinality(new) /\ edits' = edits + 1
        /\ links' = [l \in LinkIds |->
              IF /\ links[l].plan = planNo /\ links[l].node # NoNode
                 /\ links[l].node \in input \/ st[links[l].node] = "Absent"
              THEN [links[l] EXCEPT !.node = NoNode] ELSE links[l]]

\* begin_plan when no plan is active or the active one is terminal; otherwise it
\* returns the active plan and changes nothing.
BeginPlan ==
    /\ planNo < MaxPlans
    /\ planNo = 0 \/ phase \in TerminalPhases
    /\ planNo' = planNo + 1
    /\ phase' = "Planning" /\ sched' = "Active" /\ root' = NoNode
    /\ status' = BlankTree /\ declared' = BlankTree
    /\ parent' = BlankParents /\ deps' = BlankDeps /\ nextNode' = 1 /\ caps' = "narrow"
    /\ pending' = {} /\ envelope' = "none" /\ established' = FALSE
    /\ attempts' = BlankAttempts /\ leases' = BlankLeases
    /\ directives' = BlankDirectives
    /\ UNCHANGED <<edits, linkVars>>

\* update_plan with define_plan when there is no plan, or when the active one has
\* a root and has left planning: it is archived, unless work is live, and the
\* tree becomes a new plan.
DefineNewPlan(k, d, chain, cp, intent) ==
    LET new == 1..(k + 1)
    IN  /\ planNo < MaxPlans /\ k + 1 <= MaxNodes /\ edits < MaxEdits
        /\ \/ planNo = 0
           \/ root # NoNode /\ phase # "Planning" /\ ~ActivePlanHasLiveWork
        /\ planNo' = planNo + 1
        /\ sched' = "Active" /\ root' = 1 /\ caps' = cp /\ nextNode' = k + 2 /\ edits' = edits + 1
        /\ status' = [n \in NodeIds |->
              IF n \notin new THEN "Absent" ELSE IF n = 1 THEN d.top ELSE d.below]
        /\ declared' = status'
        /\ parent' = [n \in NodeIds |-> IF n \in new \ {1} THEN 1 ELSE NoNode]
        /\ deps' = [n \in NodeIds |-> IF chain /\ n \in new \ {1, 2} THEN {n - 1} ELSE {}]
        /\ ApplyExecutionIntent(intent, "Planning", {}, "none", FALSE, cp)
        /\ attempts' = BlankAttempts /\ leases' = BlankLeases
        /\ directives' = BlankDirectives
        /\ UNCHANGED linkVars

\* define_plan on the active plan while it is being planned.  The root is new or a
\* node named by its id; so are its children.  A node left out is superseded, and
\* must be mutable; one superseded before is dropped.
DefinePlan(r, reused, k, d, inherit, chain, cp, reworded, intent) ==
    LET new == NewNodes(k)
        input == {r} \cup reused \cup new
        live == LiveNodes(status)
        kept == [n \in NodeIds |->
                    IF n \in live THEN "Superseded" ELSE "Absent"]
    IN  /\ planNo # 0 /\ phase = "Planning" /\ MayEdit(k)
        /\ reused \subseteq live
        /\ r \in live \cup new
        /\ \A n \in live : Mutable(n)
        /\ Build(kept, r, NoNode, input \ {r}, new, d, inherit, chain)
        /\ ValidGraph(status', parent', deps', r)
        /\ cp = caps \/ r \in new
        /\ envelope = "none" \/ Covers(envelope, cp)
        /\ root' = r /\ caps' = cp
        /\ ApplyExecutionIntent(intent, "Planning", pending \cup ContractChanges(reworded),
                                envelope, established, cp)
        /\ UNCHANGED <<planNo, sched, running, attemptVars>>

\* replace_subtree: the target is rebuilt with the children the input gives it,
\* new ones and mutable nodes named by their ids, from its old region or from
\* elsewhere.  The rest of the region is superseded.
ReplaceSubtree(t, reused, k, d, inherit, chain, reworded, intent) ==
    LET new == NewNodes(k)
        region == LiveSubtree(status, parent, t)
        omitted == region \ ({t} \cup reused)
        kept == [n \in NodeIds |-> IF n \in omitted THEN "Superseded" ELSE status[n]]
    IN  /\ planNo # 0 /\ phase \in {"Planning", "Executing"} /\ MayEdit(k)
        /\ t \notin reused
        /\ \A n \in region \cup reused : Mutable(n)
        /\ \A n \in NodeIds \ region : deps[n] \cap omitted = {}
        /\ Build(kept, t, parent[t], reused \cup new, new, d, inherit, chain)
        /\ ValidGraph(status', parent', deps', root)
        /\ reworded => t = root
        /\ ApplyExecutionIntent(intent, phase, pending \cup ContractChanges(reworded),
                                envelope, established, caps)
        /\ UNCHANGED <<planNo, sched, root, caps, running, attemptVars>>

UseCurrentPlan(intent) ==
    /\ planNo # 0 /\ phase = "Planning" /\ root # NoNode
    /\ ApplyExecutionIntent(intent, phase, pending, envelope, established, caps)
    /\ UNCHANGED <<planNo, sched, status, treeVars, linkVars, attemptVars>>
------------------------------------------------------------------------------
(* Edits of a linked subagent *)

\* validate_subagent_scope: the edit names the active plan and a node with an
\* active link of this binding.  Only a subagent that still runs sends one.
InScope(l) ==
    /\ l \in running /\ links[l].plan = planNo
    /\ \E m \in LinkIds : /\ links[m].plan = planNo /\ links[m].binding = links[l].binding
                          /\ links[m].node = links[l].node /\ links[m].node # NoNode
                          /\ links[m].status = "Active" /\ ~links[m].replaced

\* define_scoped_children: new children below the node the subagent is linked to.
DefineScopedChildren(l, k, d, chain) ==
    LET new == NewNodes(k)
        top == links[l].node
    IN  /\ planNo # 0 /\ phase \in {"Planning", "Executing"} /\ MayEdit(k) /\ k > 0
        /\ InScope(l)
        /\ status' = [n \in NodeIds |-> IF n \in new THEN d ELSE status[n]]
        /\ declared' = [n \in NodeIds |-> IF n \in new THEN d ELSE declared[n]]
        /\ parent' = [n \in NodeIds |-> IF n \in new THEN top ELSE parent[n]]
        /\ deps' = [n \in NodeIds |-> IF chain /\ n \in new /\ n - 1 \in new THEN {n - 1} ELSE deps[n]]
        /\ nextNode' = nextNode + k /\ edits' = edits + 1
        /\ ValidGraph(status', parent', deps', root)
        /\ envelope = "none" \/ Covers(envelope, caps)
        /\ UNCHANGED <<planNo, phase, sched, root, caps, gateVars, linkVars, attemptVars>>

\* replace_scoped_subtree: the target, in the subagent's subtree, gets new children
\* and keeps its own status and links; the linked node itself is kept as it is.
ReplaceScopedSubtree(l, t, k, d, chain) ==
    LET new == NewNodes(k)
        top == links[l].node
        omitted == LiveSubtree(status, parent, t) \ {t}
    IN  /\ planNo # 0 /\ phase \in {"Planning", "Executing"} /\ MayEdit(k)
        /\ InScope(l)
        /\ t \in LiveSubtree(status, parent, top)
        /\ \A n \in ({t} \cup omitted) \ {top} : Mutable(n)
        /\ \A n \in NodeIds \ ({t} \cup omitted) : deps[n] \cap omitted = {}
        /\ status' = [n \in NodeIds |-> IF n \in new THEN d
                                        ELSE IF n \in omitted THEN "Superseded" ELSE status[n]]
        /\ declared' = [n \in NodeIds |-> IF n \in new \cup ({t} \ {top}) THEN d ELSE declared[n]]
        /\ parent' = [n \in NodeIds |-> IF n \in new THEN t ELSE parent[n]]
        /\ deps' = [n \in NodeIds |-> IF chain /\ n \in new /\ n - 1 \in new THEN {n - 1} ELSE deps[n]]
        /\ nextNode' = nextNode + k /\ edits' = edits + 1
        /\ ValidGraph(status', parent', deps', root)
        /\ UNCHANGED <<planNo, phase, sched, root, caps, gateVars, linkVars, attemptVars>>
------------------------------------------------------------------------------
(* Control by the user *)

\* Mutant of Approve: it resolves capability requirements only.
ApproveLeavesReview(supplied) ==
    LET env == IF supplied = "none" THEN envelope ELSE supplied
    IN  /\ planNo # 0 /\ phase \in {"Planning", "AwaitingApproval"} /\ root # NoNode
        /\ env # "none" /\ Covers(env, caps)
        /\ pending' = pending \ {"Capability"} /\ envelope' = env /\ established' = TRUE
        /\ phase' = "Executing" /\ sched' = "Active"
        /\ UNCHANGED <<planNo, status, treeVars, linkVars, attemptVars>>

\* approve: the envelope is the one supplied or the one stored, and must cover the
\* root; a supplied one comes with authorization references.
Approve(supplied) ==
    LET env == IF supplied = "none" THEN envelope ELSE supplied
    IN  /\ planNo # 0 /\ phase \in {"Planning", "AwaitingApproval"} /\ root # NoNode
        /\ env # "none" /\ Covers(env, caps)
        /\ "Capability" \in pending => supplied # "none"
        /\ pending' = {} /\ envelope' = env /\ established' = TRUE
        /\ phase' = "Executing" /\ sched' = "Active"
        /\ UNCHANGED <<planNo, status, treeVars, linkVars, attemptVars>>

ChangeSchedulerStatus(from, to) ==
    /\ planNo # 0 /\ phase = "Executing" /\ sched = from
    /\ sched' = to
    /\ UNCHANGED <<planNo, phase, status, treeVars, gateVars, linkVars, attemptVars>>

PauseScheduling == ChangeSchedulerStatus("Active", "Paused")
ResumeScheduling == ChangeSchedulerStatus("Paused", "Active")

Revise ==
    /\ planNo # 0 /\ phase \in {"AwaitingApproval", "Executing"}
    /\ LiveAttempts(attempts) = {}
    /\ pending' = {} /\ phase' = "Planning" /\ sched' = "Paused"
    /\ UNCHANGED <<planNo, status, treeVars, envelope, established, linkVars, attemptVars>>

\* request_cancellation ends the attempts without a lease itself; those with one
\* are cancelled by their executors while the plan drains.  Links are left alone.
RequestCancellation ==
    LET local == {a \in LiveAttempts(attempts) : ~attempts[a].leased}
        at == [a \in AttemptIds |->
                  IF a \in local THEN Closed(attempts[a], "Cancelled") ELSE attempts[a]]
        st == [n \in NodeIds |->
                  IF \E a \in local : attempts[a].node = n THEN "Blocked" ELSE status[n]]
    IN  /\ planNo # 0 /\ phase \notin TerminalPhases
        /\ sched' = "Draining" /\ attempts' = at
        /\ RefreshedAndSettled(st, parent, phase, at, leases, links)
        /\ UNCHANGED <<planNo, treeVars, gateVars, linkVars, leases, directives>>

LatestAttempt(n) ==
    LET mine == {a \in AttemptIds : attempts[a].node = n}
    IN  IF mine = {} THEN 0 ELSE CHOOSE a \in mine : \A b \in mine : b <= a

\* retry_interrupted_node: the refresh runs with the phase and the scheduler status
\* of before; then both are set to run.
RetryInterruptedNode(n) ==
    LET up == Ancestors(parent, n)
        st == [m \in NodeIds |->
                  IF m = n THEN "Pending"
                  ELSE IF m \in up /\ status[m] = "Blocked" THEN "Expanded" ELSE status[m]]
    IN  /\ planNo # 0 /\ phase \in {"Executing", "Blocked"} /\ sched # "Draining"
        /\ status[n] = "Blocked"
        /\ LatestAttempt(n) # 0 /\ attempts[LatestAttempt(n)].outcome = "Interrupted"
        /\ \A a \in AttemptIds : attempts[a].node = n => leases[a] # "Live"
        /\ status' = RefreshParentStates(st, parent, phase, sched, attempts, leases, links)
        /\ phase' = "Executing" /\ sched' = "Active"
        /\ UNCHANGED <<planNo, treeVars, gateVars, linkVars, attemptVars>>

\* authorize_execution and enter_execution: any phase, pending requirements and the
\* scheduler status stay as they are.
AuthorizeExecution(env) ==
    /\ planNo # 0 /\ root # NoNode /\ Covers(env, caps)
    /\ envelope' = env /\ established' = TRUE /\ phase' = "Executing"
    /\ UNCHANGED <<planNo, sched, status, treeVars, pending, linkVars, attemptVars>>
------------------------------------------------------------------------------
(* Links to subagents *)

\* Mutant of LinkProjection: a node takes over the end of its link as it is.
LinkProjectionRaw(lk, n) ==
    LET ends == {lk[l].status : l \in {m \in LinksOf(lk, n) : ~lk[m].replaced}}
    IN  IF ends = {} THEN declared[n]
        ELSE IF "Active" \in ends THEN "InProgress" ELSE CHOOSE e \in ends : TRUE

\* recompute_link_projection: the status of a node from its links.
LinkProjection(lk, n) ==
    LET ends == {lk[l].status : l \in {m \in LinksOf(lk, n) : ~lk[m].replaced}}
    IN  IF "Active" \in ends THEN "InProgress"
        ELSE IF "Failed" \in ends \/ "Cancelled" \in ends THEN "Failed"
        ELSE IF "Blocked" \in ends THEN "Blocked"
        ELSE IF "Completed" \in ends THEN "Completed"
        ELSE declared[n]

\* bind_subagent finds the node by its client key, whatever the phase and whatever
\* the node's status: a superseded node keeps its key.
BindSubagent(l, n, binding) ==
    LET lk == [m \in LinkIds |->
                  IF m = l THEN [plan |-> planNo, node |-> n, binding |-> binding,
                                 status |-> "Active", replaced |-> FALSE]
                  ELSE IF m \in LinksOf(links, n) /\ ~links[m].replaced
                          /\ links[m].status \in LinkEnds
                  THEN [links[m] EXCEPT !.status = "Superseded", !.replaced = TRUE]
                  ELSE links[m]]
        st == [m \in NodeIds |->
                  IF m = n THEN LinkProjection(lk, n)
                  ELSE IF m \in Ancestors(parent, n) /\ status[m] \in {"Blocked", "Failed"}
                  THEN "Expanded" ELSE status[m]]
    IN  /\ planNo # 0 /\ status[n] # "Absent" /\ LinkDomain
        /\ links[l].status = "Free" /\ \A m \in 1..(l - 1) : links[m].status # "Free"
        /\ \A m \in LinkIds : links[m].plan = planNo => links[m].binding < binding
        /\ links' = lk /\ running' = running \cup {l}
        /\ sched' = IF phase = "Blocked" THEN "Active" ELSE sched
        /\ Refreshed(st, IF phase = "Blocked" THEN "Executing" ELSE phase, attempts, leases, lk)
        /\ UNCHANGED <<planNo, treeVars, gateVars, attemptVars>>

\* The record update_subagent_link finds: of the active plan, by the binding id alone.
LinkOfBinding(binding) ==
    {m \in LinkIds : links[m].plan = planNo /\ links[m].node # NoNode /\ links[m].binding = binding}

\* The end of l's subagent is reported to the controller.
UpdateSubagentLink(l, end) ==
    /\ planNo # 0 /\ l \in running
    /\ running' = running \ {l}
    /\ \E m \in LinkOfBinding(links[l].binding) :
           LET lk == [links EXCEPT ![m].status = end]
               n == links[m].node
           IN  /\ links' = lk
               /\ sched' = sched
               /\ Refreshed([status EXCEPT ![n] = LinkProjection(lk, n)], phase,
                            attempts, leases, lk)
    /\ UNCHANGED <<planNo, treeVars, gateVars, attemptVars>>

\* The report finds no record, or the commit fails; the subagent layer logs the
\* error and does not report again.
LinkUpdateFails(l) ==
    /\ l \in running
    /\ running' = running \ {l}
    /\ UNCHANGED <<planNo, phase, sched, status, treeVars, gateVars, links, attemptVars>>
------------------------------------------------------------------------------
(* Attempts *)

\* node_execution_shape_is_ready
ShapeIsReady(n) ==
    LET kids == Children(status, parent, n)
    IN  IF kids = {} THEN status[n] = "Pending"
        ELSE status[n] = "Verifying" /\ \A c \in kids : status[c] = "Completed"

HasLiveLease(n) == \E a \in AttemptIds : attempts[a].node = n /\ leases[a] = "Live"

\* Mutant of ReadyNodes: a node that is in progress is offered again.
ReadyNodesAgain ==
    {n \in NodeIds : /\ phase = "Executing" /\ sched = "Active"
                     /\ status[n] \in {"Pending", "InProgress", "Verifying"}
                     /\ \A m \in deps[n] : status[m] = "Completed"
                     /\ Children(status, parent, n) = {}}

\* ready_node_ids_at, once the retry backoff has elapsed
ReadyNodes ==
    {n \in NodeIds : /\ phase = "Executing" /\ sched = "Active"
                     /\ status[n] \in {"Pending", "Verifying"}
                     /\ ~HasLiveLease(n)
                     /\ \A m \in deps[n] : status[m] = "Completed"
                     /\ ShapeIsReady(n)}

\* start_attempt (with a lease, for a subagent) and start_local_attempt
StartAttempt(a, n, e, leased) ==
    /\ planNo # 0 /\ n \in ReadyNodes /\ AttemptDomain
    /\ attempts[a].outcome = "Free" /\ \A b \in 1..(a - 1) : attempts[b].outcome # "Free"
    /\ \A b \in LiveAttempts(attempts) : attempts[b].executor # e
    /\ attempts' = [attempts EXCEPT ![a] = [node |-> n, executor |-> e, leased |-> leased,
                                            outcome |-> "Live", effects |-> FALSE]]
    /\ leases' = [leases EXCEPT ![a] = IF leased THEN "Live" ELSE "None"]
    /\ status' = [status EXCEPT ![n] = "InProgress"]
    /\ UNCHANGED <<planNo, phase, sched, treeVars, gateVars, linkVars, directives>>

\* validate_current_attempt: the one live attempt of the executor, whose lease, if it
\* has one, is live.
CurrentAttempt(a) ==
    /\ planNo # 0 /\ attempts[a].outcome = "Live"
    /\ \A b \in LiveAttempts(attempts) : attempts[b].executor = attempts[a].executor => b = a
    /\ attempts[a].leased => leases[a] = "Live"

\* apply_directive_reports: acked and applied name directives of the attempt; one that
\* is applied must have been acknowledged, at the latest by the same report.
ReportsApply(a, acked, applied) ==
    /\ \A d \in acked \cup applied : directives[d].attempt = a
    /\ \A d \in applied : \/ directives[d].status \in {"Acknowledged", "Applied"}
                          \/ d \in acked /\ directives[d].status \in {"Queued", "Delivered"}

AppliedReports(acked, applied) ==
    [d \in DirectiveIds |->
        IF d \in applied THEN [directives[d] EXCEPT !.status = "Applied"]
        ELSE IF d \in acked /\ directives[d].status \in {"Queued", "Delivered"}
        THEN [directives[d] EXCEPT !.status = "Acknowledged"]
        ELSE directives[d]]

DirectivesOf(a) == {x \in DirectiveIds : directives[x].attempt = a}

\* Mutant of Expired: a directive that was delivered is kept.
ExpiredIfQueued(dir, ended) ==
    [d \in DirectiveIds |->
        IF dir[d].attempt \in ended /\ dir[d].status = "Queued"
        THEN [NoDirective EXCEPT !.status = "Expired"] ELSE dir[d]]

\* expire_attempt_directives; what nothing reads after the attempt is cleared
Expired(dir, ended) ==
    [d \in DirectiveIds |->
        IF dir[d].attempt \notin ended THEN dir[d]
        ELSE [NoDirective EXCEPT !.status =
                 IF dir[d].status \in OpenDirective THEN "Expired" ELSE dir[d].status]]

ReportProgress(a, acked, applied) ==
    /\ CurrentAttempt(a)
    /\ ReportsApply(a, acked, applied)
    /\ directives' = AppliedReports(acked, applied)
    /\ UNCHANGED <<planNo, phase, sched, status, treeVars, gateVars, linkVars, attempts, leases>>

RecordRuntimeEffect(a) ==
    /\ CurrentAttempt(a)
    /\ attempts' = [attempts EXCEPT ![a].effects = TRUE]
    /\ UNCHANGED <<planNo, phase, sched, status, treeVars, gateVars, linkVars, leases, directives>>

Ended(n, outcomes) == {a \in AttemptIds : attempts[a].node = n /\ attempts[a].outcome \in outcomes}

\* node_status_after_outcome; the first live attempt of the node tells whether a
\* retry is safe.
StatusAfterOutcome(n, outcome) ==
    LET live == {a \in LiveAttempts(attempts) : attempts[a].node = n}
        first == CHOOSE a \in live : \A b \in live : a <= b
    IN  CASE outcome = "Completed" -> "Completed"
          [] outcome = "Decomposed" -> "Expanded"
          [] outcome = "Blocked" -> "Blocked"
          [] outcome = "SemanticFailure" -> "Failed"
          [] outcome = "TransientFailure" ->
                 IF /\ ~attempts[first].effects
                    /\ Cardinality(Ended(n, {"TransientFailure"})) + 1 < MaxTransient
                 THEN "Pending" ELSE "Blocked"
          [] outcome = "Yielded" -> "Pending"

\* report_attempt.  k children come with a decomposition, and with nothing else; an
\* attempt that yields has reported a checkpoint before, one that decomposes is under
\* no directive that forbids it.
ReportAttempt(a, outcome, k, d, chain, acked, applied) ==
    LET n == attempts[a].node
        new == NewNodes(k)
        at == [attempts EXCEPT ![a] = Closed(@, outcome)]
        ls == [leases EXCEPT ![a] = IF attempts[a].leased THEN "Resolved" ELSE @]
        st == [m \in NodeIds |-> IF m = n THEN StatusAfterOutcome(n, outcome)
                                 ELSE IF m \in new THEN d ELSE status[m]]
    IN  /\ CurrentAttempt(a) /\ HasRoom(k)
        /\ (k > 0) <=> (outcome = "Decomposed")
        /\ ReportsApply(a, acked, applied)
        /\ outcome = "Decomposed" => status[n] = "InProgress" /\ DirectivesOf(a) = {}
        /\ declared' = [m \in NodeIds |-> IF m \in new THEN d ELSE declared[m]]
        /\ parent' = [m \in NodeIds |-> IF m \in new THEN n ELSE parent[m]]
        /\ deps' = [m \in NodeIds |->
                       IF chain /\ m \in new /\ m - 1 \in new THEN {m - 1} ELSE deps[m]]
        /\ nextNode' = nextNode + k
        /\ k > 0 => /\ ValidGraph(st, parent', deps', root)
                    /\ envelope = "none" \/ Covers(envelope, caps)
        /\ attempts' = at /\ leases' = ls /\ sched' = sched
        /\ directives' = Expired(AppliedReports(acked, applied), {a})
        /\ RefreshedAndSettled(st, parent', phase, at, ls, links)
        /\ UNCHANGED <<planNo, root, caps, edits, gateVars, linkVars>>

\* validate_live_lease
LiveLease(a) == planNo # 0 /\ leases[a] = "Live" /\ attempts[a].outcome = "Live"

\* The directives are those whose constraints do not allow decomposition; the others
\* differ in nothing but that check.
IssueDirective(x, a) ==
    /\ LiveLease(a)
    /\ directives[x].status = "Free" /\ \A y \in 1..(x - 1) : directives[y].status # "Free"
    /\ directives' = [directives EXCEPT ![x] = [attempt |-> a, status |-> "Queued"]]
    /\ UNCHANGED <<planNo, phase, sched, status, treeVars, gateVars, linkVars, attempts, leases>>

DeliverQueuedDirectives(a) ==
    LET queued == {x \in DirectiveIds : directives[x].attempt = a /\ directives[x].status = "Queued"}
    IN  /\ LiveLease(a) /\ queued # {}
        /\ directives' = [x \in DirectiveIds |->
                             IF x \in queued THEN [directives[x] EXCEPT !.status = "Delivered"]
                             ELSE directives[x]]
        /\ UNCHANGED <<planNo, phase, sched, status, treeVars, gateVars, linkVars, attempts, leases>>

\* Mutant of CancelAttempt: the node is left as it is.
CancelAttemptOnly(a) ==
    LET at == [attempts EXCEPT ![a] = Closed(@, "Cancelled")]
    IN  /\ LiveLease(a) /\ sched = "Draining"
        /\ attempts' = at
        /\ leases' = [leases EXCEPT ![a] = "Cancelled"]
        /\ directives' = Expired(directives, {a})
        /\ phase' = SettleDraining(phase, sched, at)
        /\ UNCHANGED <<planNo, sched, status, treeVars, gateVars, linkVars>>

\* cancel_attempt: parents are not recomputed.
CancelAttempt(a) ==
    LET at == [attempts EXCEPT ![a] = Closed(@, "Cancelled")]
    IN  /\ LiveLease(a) /\ sched = "Draining"
        /\ attempts' = at
        /\ leases' = [leases EXCEPT ![a] = "Cancelled"]
        /\ status' = [status EXCEPT ![attempts[a].node] = "Blocked"]
        /\ directives' = Expired(directives, {a})
        /\ phase' = SettleDraining(phase, sched, at)
        /\ UNCHANGED <<planNo, sched, treeVars, gateVars, linkVars>>
------------------------------------------------------------------------------
(* Recovery *)

\* interrupted_attempt_can_retry
CanRetry(a) ==
    /\ Cardinality(Ended(attempts[a].node, {"TransientFailure", "Interrupted"})) + 1 < MaxTransient
    /\ ~attempts[a].effects

\* interrupt_expired_leases ends every live attempt whose lease has run out.  Time is
\* not modelled: the leases that no heartbeat renewed in time are any of the live ones.
InterruptExpiredLeases(late) ==
    LET at == [a \in AttemptIds |->
                  IF a \in late THEN Closed(attempts[a], "Interrupted") ELSE attempts[a]]
        ls == [a \in AttemptIds |-> IF a \in late THEN "Expired" ELSE leases[a]]
        st == [n \in NodeIds |->
                  IF \E a \in late : attempts[a].node = n
                  THEN IF \A a \in late : attempts[a].node = n => CanRetry(a)
                       THEN "Pending" ELSE "Blocked"
                  ELSE status[n]]
    IN  /\ planNo # 0 /\ late # {} /\ \A a \in late : LiveLease(a)
        /\ attempts' = at /\ leases' = ls /\ sched' = sched
        /\ directives' = Expired(directives, late)
        /\ RefreshedAndSettled(st, parent, phase, at, ls, links)
        /\ UNCHANGED <<planNo, treeVars, gateVars, linkVars>>

\* What from_persisted accepts of a plan it reads back.
Loadable ==
    IF root = NoNode THEN phase = "Planning" /\ LiveNodes(status) = {}
    ELSE /\ ValidGraph(status, parent, deps, root)
         /\ phase \in {"Executing", "Completed", "Blocked", "Cancelled"} =>
                envelope = "none" \/ Covers(envelope, caps)

\* The process ends and the session is loaded again: from_persisted recomputes the
\* parents, then abandon_unresumed_execution closes what was in flight.
Restart ==
    LET st == RefreshParentStates(status, parent, phase, sched, attempts, leases, links)
        ph == RefreshTerminalPhase(st, phase)
        open == LiveAttempts(attempts)
        cut == ActiveLinks(links)
        at == [a \in AttemptIds |->
                  IF a \in open THEN Closed(attempts[a], "Interrupted") ELSE attempts[a]]
        ls == [a \in AttemptIds |-> IF a \in open /\ leases[a] = "Live" THEN "Expired" ELSE leases[a]]
        lk == [l \in LinkIds |-> IF l \in cut THEN [links[l] EXCEPT !.status = "Cancelled"] ELSE links[l]]
        stopped == {attempts[a].node : a \in open} \cup {links[l].node : l \in cut}
    IN  /\ planNo # 0 /\ Loadable
        /\ running' = {} /\ sched' = sched
        /\ attempts' = at /\ leases' = ls /\ links' = lk
        /\ directives' = Expired(directives, open)
        /\ IF open = {} /\ cut = {} THEN status' = st /\ phase' = ph
           ELSE Refreshed([n \in NodeIds |-> IF n \in stopped THEN "Blocked" ELSE st[n]], ph, at, ls, lk)
        /\ UNCHANGED <<planNo, treeVars, gateVars>>
------------------------------------------------------------------------------
(* The specification *)

Rewordings == IF established THEN BOOLEAN ELSE {FALSE}
Chains(k) == IF k > 1 THEN BOOLEAN ELSE {FALSE}

CoordinatorEdits ==
    \/ BeginPlan
    \/ \E k \in FirstChildren, d \in Authoring, cp \in Capabilities, i \in Intents :
           \E chain \in Chains(k) : DefineNewPlan(k, d, chain, cp, i)
    \/ /\ phase = "Planning" /\ MayEdit(0)
       /\ \E k \in ChildCounts, reused \in SUBSET LiveNodes(status), r \in NodeIds, d \in Authoring,
             inherit \in BOOLEAN, cp \in Capabilities, reworded \in Rewordings, i \in Intents :
              \E chain \in Chains(k) : DefinePlan(r, reused, k, d, inherit, chain, cp, reworded, i)
    \/ \E t \in LiveNodes(status) :
       /\ Mutable(t) /\ MayEdit(0)
       /\ \E k \in ChildCounts, reused \in SUBSET LiveNodes(status), d \in Authoring,
             inherit \in BOOLEAN, reworded \in Rewordings, i \in Intents :
              \E chain \in Chains(k) : ReplaceSubtree(t, reused, k, d, inherit, chain, reworded, i)
    \/ \E i \in Intents : UseCurrentPlan(i)

SubagentEdits ==
    \E l \in running, k \in ChildCounts, d \in Declared : \E chain \in Chains(k) :
        \/ DefineScopedChildren(l, k, d, chain)
        \/ \E t \in LiveNodes(status) : ReplaceScopedSubtree(l, t, k, d, chain)

UserControls ==
    \/ \E env \in Capabilities \cup {"none"} : Approve(env)
    \/ \E env \in Capabilities : AuthorizeExecution(env)
    \/ PauseScheduling \/ ResumeScheduling \/ Revise \/ RequestCancellation
    \/ \E n \in NodeIds : RetryInterruptedNode(n)

LinkSteps ==
    \/ \E l \in LinkIds, n \in NodeIds, b \in 1..MaxBinding : BindSubagent(l, n, b)
    \/ \E l \in LinkIds, end \in LinkEnds : UpdateSubagentLink(l, end)
    \/ \E l \in LinkIds : LinkUpdateFails(l)

AttemptSteps ==
    \E a \in AttemptIds :
        \/ \E n \in ReadyNodes, e \in Executors, leased \in BOOLEAN : StartAttempt(a, n, e, leased)
        \/ /\ CurrentAttempt(a)
           /\ \/ RecordRuntimeEffect(a)
              \/ CancelAttempt(a)
              \/ DeliverQueuedDirectives(a)
              \/ \E x \in DirectiveIds : IssueDirective(x, a)
              \/ \E acked \in SUBSET DirectivesOf(a) : \E applied \in SUBSET DirectivesOf(a) :
                     \/ ReportProgress(a, acked, applied)
                     \/ \E outcome \in Reportable, d \in Declared :
                        \E k \in IF outcome = "Decomposed" THEN ChildCounts ELSE {0} :
                        \E chain \in Chains(k) :
                            ReportAttempt(a, outcome, k, d, chain, acked, applied)

Next == \/ CoordinatorEdits \/ SubagentEdits \/ UserControls \/ LinkSteps
        \/ AttemptSteps \/ Restart
        \/ \E late \in SUBSET AttemptIds : InterruptExpiredLeases(late)

Spec == Init /\ [][Next]_vars
------------------------------------------------------------------------------
(* Properties *)

\* Every variable of the controller's plan holds a value of its kind.
TypeOK ==
    /\ planNo \in 0..MaxPlans /\ phase \in Phases /\ sched \in SchedulerStatuses
    /\ root \in NodeIds \cup {NoNode}
    /\ status \in [NodeIds -> NodeStatuses \cup {"Absent"}]
    /\ declared \in [NodeIds -> Authored \cup {"Absent"}]
    /\ parent \in [NodeIds -> NodeIds \cup {NoNode}]
    /\ deps \in [NodeIds -> SUBSET NodeIds]
    /\ nextNode \in 1..(MaxNodes + 1) /\ edits \in 0..MaxEdits
    /\ pending \subseteq Requirements /\ envelope \in Envelopes \cup {"none"}
    /\ caps \in Envelopes /\ established \in BOOLEAN
    /\ links \in [LinkIds -> [plan : 0..MaxPlans, node : NodeIds \cup {NoNode},
                              binding : 0..MaxBinding, status : LinkStatuses \cup {"Free"},
                              replaced : BOOLEAN]]
    /\ running \subseteq LinkIds
    /\ attempts \in [AttemptIds -> [node : NodeIds \cup {NoNode}, executor : Executors \cup {"none"},
                                    leased : BOOLEAN, outcome : Outcomes \cup {"Free", "Live"},
                                    effects : BOOLEAN]]
    /\ leases \in [AttemptIds -> LeaseStatuses \cup {"None"}]
    /\ directives \in [DirectiveIds -> [attempt : AttemptIds \cup {0},
                                        status : DirectiveStatuses \cup {"Free"}]]

\* A node the plan shows in progress has someone at work on it, a live attempt or
\* an active link, unless its author declared that status: no cancellation, expiry,
\* restart or rebuild leaves a node running for nobody.
NoOrphanedWork ==
    \A n \in NodeIds : status[n] = "InProgress" =>
        \/ declared[n] = "InProgress"
        \/ \E a \in LiveAttempts(attempts) : attempts[a].node = n
        \/ \E l \in ActiveLinks(links) : links[l].node = n

\* A lease is live exactly while its attempt is, and no node is leased twice:
\* validate_current_attempt relies on the first, ready_node_ids_at on the second.
LeaseFollowsAttempt ==
    /\ \A a \in AttemptIds :
           leases[a] = "Live" <=> attempts[a].outcome = "Live" /\ attempts[a].leased
    /\ \A a, b \in AttemptIds :
           leases[a] = "Live" /\ leases[b] = "Live" /\ attempts[a].node = attempts[b].node => a = b

\* A directive that may still be delivered or acted on belongs to a live attempt:
\* none is replayed to the attempt that takes over the node.
NoStaleDirective ==
    \A x \in DirectiveIds : directives[x].status \in OpenDirective =>
        attempts[directives[x].attempt].outcome = "Live"

\* Execution starts with a review outstanding in two ways only: authorize_execution
\* overrides it, and a plan that was blocked is put back to work.
ReviewBoundary ==
    [][phase # "Executing" /\ phase' = "Executing" /\ pending' # {} =>
           phase = "Blocked" \/ \E env \in Capabilities : AuthorizeExecution(env)]_vars

\* The root is closed by work, never by bookkeeping: at the step that completes it,
\* all its live children are completed, or an executor of the root itself has
\* reported completion; an edit that declares it completed is the one exception.
CompletionEarned ==
    [][root # NoNode /\ root' = root /\ status[root] # "Completed" /\ status'[root] = "Completed" =>
           \/ declared'[root] = "Completed"
           \/ /\ Children(status', parent', root) # {}
              /\ \A c \in Children(status', parent', root) : status'[c] = "Completed"
           \/ \E a \in AttemptIds : attempts'[a].node = root /\ attempts'[a].outcome = "Completed"
           \/ \E l \in LinkIds : /\ links'[l].plan = planNo /\ links'[l].node = root
                                 /\ links'[l].status = "Completed"]_vars

\* The step that ends the last attempt of a draining plan settles the plan as
\* cancelled; only a restart ends it without settling.
LastAttemptSettles ==
    [][LiveAttempts(attempts) # {} /\ LiveAttempts(attempts') = {} /\ sched' = "Draining" =>
           phase' = "Cancelled" \/ Restart]_vars

\* The status of a link changes only by a report of its own subagent, by a newer
\* binding of its node or by a restart: "subagent lifecycle links are the
\* authoritative execution projection" of the plan.
OwnReportOnly ==
    [][\A l \in LinkIds : links[l].status = "Active" /\ links'[l].status \in {"Completed", "Failed", "Blocked"} =>
           l \in running /\ l \notin running']_vars
====
