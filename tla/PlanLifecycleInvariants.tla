---------------------- MODULE PlanLifecycleInvariants ----------------------
(***************************************************************************)
(* The inductive invariants of the plan: what the attempts, leases and     *)
(* directives agree on, and the kinds of value that the steps keep.        *)
(***************************************************************************)
EXTENDS PlanLifecycle

AttemptRecords == [node : NodeIds \cup {NoNode}, executor : Executors \cup {"none"},
                   leased : BOOLEAN, outcome : Outcomes \cup {"Free", "Live"},
                   effects : BOOLEAN]
DirectiveRecords == [attempt : AttemptIds \cup {0}, status : DirectiveStatuses \cup {"Free"}]

AttemptTypes ==
    /\ attempts \in [AttemptIds -> AttemptRecords]
    /\ leases \in [AttemptIds -> LeaseStatuses \cup {"None"}]
    /\ directives \in [DirectiveIds -> DirectiveRecords]

\* A directive that is open is of an attempt with a lease: the attempts that a
\* cancellation ends itself have none.
AttemptInv ==
    /\ AttemptTypes /\ LeaseFollowsAttempt /\ NoStaleDirective
    /\ \A x \in DirectiveIds : directives[x].status \in OpenDirective =>
           directives[x].attempt \in AttemptIds /\ attempts[directives[x].attempt].leased

Trees == [NodeIds -> NodeStatuses \cup {"Absent"}]
LinkRecords == [plan : 0..MaxPlans, node : NodeIds \cup {NoNode}, binding : 0..MaxBinding,
                status : LinkStatuses \cup {"Free"}, replaced : BOOLEAN]

\* The conjuncts of TypeOK, grouped as the steps change them.
StateTypes ==
    /\ planNo \in 0..MaxPlans /\ phase \in Phases /\ sched \in SchedulerStatuses
    /\ status \in Trees
ShapeTypes ==
    /\ root \in NodeIds \cup {NoNode}
    /\ declared \in [NodeIds -> Authored \cup {"Absent"}]
    /\ parent \in [NodeIds -> NodeIds \cup {NoNode}]
    /\ deps \in [NodeIds -> SUBSET NodeIds]
    /\ nextNode \in 1..(MaxNodes + 1) /\ edits \in 0..MaxEdits
    /\ caps \in Envelopes
GateTypes ==
    /\ pending \subseteq Requirements /\ envelope \in Envelopes \cup {"none"}
    /\ established \in BOOLEAN
LinkTypes == links \in [LinkIds -> LinkRecords] /\ running \subseteq LinkIds

TypeInv == AttemptInv /\ StateTypes /\ ShapeTypes /\ GateTypes /\ LinkTypes
=============================================================================
