----------------------------- MODULE PlanStore -----------------------------
(***************************************************************************)
(* How a change of the plan is committed, and what a restart finds of it   *)
(* (plan/controller/transactions/persistence.rs, session/plan_persistence, *)
(* session/persistence.rs, session_store.rs, runtime/journal_persistence). *)
(*                                                                         *)
(* Two files hold a session: state.json, the whole session, and            *)
(* plan-state.json, the "overlay", the plan alone.  Two tasks write them.  *)
(* The driver of the agent loop records events, runs tool calls and, while *)
(* no call is pending, saves the session (a savepoint).  The plan actor    *)
(* serves one command at a time: a PlanOnly command writes the overlay, a  *)
(* Tool command (update_plan) writes state.json with the call resolved.    *)
(* Both share the session behind an async mutex and neither holds it while *)
(* it writes, so an action is what a task does between two awaits.         *)
(*                                                                         *)
(* A plan is abstracted to its identity, its revision, the number of       *)
(* terminal plans kept beside it and the set of commands it reflects.      *)
(***************************************************************************)
EXTENDS Integers, FiniteSets

CONSTANTS
    None,             \* no file
    MaxTerminals,     \* MAX_TERMINAL_PLANS: archived plans kept
    Builds,           \* cfg!(debug_assertions) of the builds considered
    MaxCommands,      \* bound: commands the plan actor serves
    MaxTurns,         \* bound: events the driver records on its own account
    MaxMishaps        \* bound: failed writes, renames and directory syncs,
                      \* and crashes, each followed by a resume

ASSUME ConstantsAssumption ==
    /\ Builds \subseteq BOOLEAN /\ MaxTerminals \in Nat
    /\ MaxCommands \in Nat /\ MaxTurns \in Nat /\ MaxMishaps \in Nat

Commands == 1..MaxCommands

VARIABLES
    mem,          \* the session: plan, terminal plans, next_sequence
    pending,      \* its pending tool calls
    planSeq,      \* the actor's next_plan_sequence
    driver, snap, \* where the driver is, the bundle it is saving
    batchActive,  \* tool_batch_active
    actor,        \* the command in progress
    nextCommand,
    state, overlay,        \* the two files
    acked, failed,         \* commands answered Ok and durably, answered Err
    published,             \* events delivered since the process started
    previous,              \* the plan version before the last change
    turns, faults, crashes   \* counters for the bounds

sessionVars == <<mem, pending, planSeq, previous>>
driverVars  == <<driver, snap, batchActive>>
actorVars   == <<actor, nextCommand>>
fileVars    == <<state, overlay>>
answerVars  == <<acked, failed, published>>
boundVars   == <<turns, faults, crashes>>
vars == <<sessionVars, driverVars, actorVars, fileVars, answerVars, boundVars>>

----------------------------------------------------------------------------
\* Documents, files and what load_from makes of them

\* A session as far as its plan goes.  id = 0: there is no active plan.
Session == [id : Nat, rev : Nat, terms : Nat, seq : Nat, ops : SUBSET Commands]

EmptySession == [id |-> 0, rev |-> 0, terms |-> 0, seq |-> 1, ops |-> {}]

Overlay == [base : Session, doc : Session]

ASSUME NoneAssumption == None \notin Session /\ None \notin Overlay

\* StoredPlanVersion with the number of terminal plans beside it.
Version(s) == <<s.id, s.rev, s.terms>>

\* A file as processes read it, and as a crash may leave it: the rename of
\* a staged file is durable once its directory has been synced.
File(Content) == [cur : Content \cup {None}, syn : Content \cup {None}]

NoFile == [cur |-> None, syn |-> None]

Larger(a, b) == IF a >= b THEN a ELSE b

\* Mutant of ApplyPlanOverlay: an overlay counts only for the plan version
\* it holds itself, not for the one it was made from.
ApplyPlanOverlayWithoutBase(s, o, allowWithoutBase) ==
    IF allowWithoutBase \/ (s.id = o.doc.id /\ s.rev = o.doc.rev)
      THEN [o.doc EXCEPT !.seq = Larger(s.seq, @)] ELSE s

\* apply_plan_overlay on the session s read from state.json.
ApplyPlanOverlay(s, o, allowWithoutBase) ==
    LET baseMatches == Version(s) = Version(o.base)
        samePlan    == s.id # 0 /\ s.id = o.doc.id
        applies == /\ \/ allowWithoutBase \/ baseMatches
                      \/ samePlan /\ s.rev >= o.doc.rev
                   /\ ~(samePlan /\ s.rev > o.doc.rev)
    IN IF applies THEN [o.doc EXCEPT !.seq = Larger(s.seq, @)] ELSE s

\* load_from.  Without files it is an error, and the session starts anew.
LoadFrom(s, o) ==
    LET read == IF s = None THEN EmptySession ELSE s
    IN IF o = None THEN read ELSE ApplyPlanOverlay(read, o, s = None)

\* sync_parent_directory: both files are in the session's directory.
Synced(f) == [f EXCEPT !.syn = f.cur]

----------------------------------------------------------------------------
\* Commands of the plan actor

Idle == [pc |-> "idle", tool |-> FALSE, persist |-> FALSE, command |-> 0,
         base |-> EmptySession, cand |-> EmptySession, events |-> {}]

\* A change of the active plan, which advances its revision.
Advanced(c) == [mem EXCEPT !.rev = @ + 1, !.ops = @ \cup {c}]

\* A new plan takes the place of the active one, which is archived; the
\* oldest archived plan makes room for it.
Created(c, rev) ==
    [mem EXCEPT !.id = planSeq, !.rev = rev, !.ops = @ \cup {c},
                !.terms = IF mem.id = 0 \/ @ = MaxTerminals THEN @ ELSE @ + 1]

\* SessionBase: what must not have moved under a command.
PlanMatches == Version(actor.base) = Version(mem)

\* Mutant of BaseMatches: the sequence is not compared.
BaseMatchesPlanAlone == PlanMatches

BaseMatches == PlanMatches /\ actor.base.seq = mem.seq

\* The reply ends a command; the driver waits for the one it sent.
Answer(ok) ==
    /\ actor' = Idle
    /\ acked' = IF ok /\ (actor.persist \/ ~actor.tool)
                  THEN acked \cup {actor.command} ELSE acked
    /\ failed' = IF ok THEN failed ELSE failed \cup {actor.command}
    /\ driver' = CASE driver # "calling" -> driver
                   [] driver = "calling" /\ ok -> "tools"
                   [] OTHER -> "settling"
    /\ batchActive' = (batchActive /\ (ok \/ driver # "calling"))
    /\ UNCHANGED <<snap, nextCommand>>

Refuse == Answer(FALSE) /\ UNCHANGED <<sessionVars, published>>

\* begin_plan and the other commands that change nothing but the plan:
\* approve, pause, revise, cancel, bind_subagent, update_subagent_link...
PreparePlanOnly ==
    /\ actor.pc = "idle" /\ nextCommand <= MaxCommands
    /\ \E cand \in {Advanced(nextCommand), Created(nextCommand, 0)} :
          /\ mem.id = 0 => cand.id # 0
          /\ actor' = [Idle EXCEPT !.pc = "reserve", !.command = nextCommand,
                                   !.base = mem, !.cand = cand]
    /\ nextCommand' = nextCommand + 1
    /\ UNCHANGED <<sessionVars, driverVars, fileVars, answerVars, boundVars>>

\* Event identities are taken before the first write.
ReserveEvents ==
    /\ actor.pc = "reserve"
    /\ IF PlanMatches
         THEN /\ mem' = [mem EXCEPT !.seq = @ + 1]
              /\ actor' = [actor EXCEPT !.pc = "stage", !.events = {mem.seq}]
              /\ UNCHANGED <<pending, planSeq, previous, driverVars,
                             nextCommand, answerVars>>
         ELSE Refuse
    /\ UNCHANGED <<fileVars, boundVars>>

\* The overlay for the session as it is now, written to a temporary file.
StageOverlay ==
    /\ actor.pc = "stage" /\ ~actor.tool
    /\ IF PlanMatches
         THEN /\ actor' = [actor EXCEPT !.pc = "rename", !.cand.seq = mem.seq]
              /\ UNCHANGED <<sessionVars, driverVars, nextCommand, answerVars>>
         ELSE Refuse
    /\ UNCHANGED <<fileVars, boundVars>>

\* update_plan called as a tool: the prepared commit resolves the call.
PrepareTool ==
    /\ driver = "tools" /\ pending > 0
    /\ actor.pc = "idle" /\ nextCommand <= MaxCommands
    /\ nextCommand' = nextCommand + 1
    /\ \E cand \in {Advanced(nextCommand), Created(nextCommand, 1)} :
          /\ mem.id = 0 => cand.id # 0
          /\ actor' = [Idle EXCEPT
                 !.pc = IF batchActive THEN "install" ELSE "stage",
                 !.tool = TRUE, !.persist = ~batchActive,
                 !.command = nextCommand, !.base = mem,
                 !.cand = [cand EXCEPT !.seq = @ + 2],
                 !.events = {mem.seq, mem.seq + 1}]
    /\ batchActive \/ pending = 1
    /\ driver' = "calling"
    /\ UNCHANGED <<sessionVars, snap, batchActive, fileVars, answerVars,
                   boundVars>>

\* persistable_bundle_for accepts no other pending call.
RefuseTool ==
    /\ driver = "tools" /\ pending > 1 /\ ~batchActive
    /\ actor.pc = "idle" /\ nextCommand <= MaxCommands
    /\ nextCommand' = nextCommand + 1
    /\ failed' = failed \cup {nextCommand}
    /\ driver' = "settling"
    /\ UNCHANGED <<sessionVars, snap, batchActive, actor, fileVars, acked,
                   published, boundVars>>

\* The bundle is written to a temporary file and the base is checked.
StageBundle ==
    /\ actor.pc = "stage" /\ actor.tool
    /\ IF BaseMatches
         THEN /\ actor' = [actor EXCEPT !.pc = "rename"]
              /\ UNCHANGED <<sessionVars, driverVars, nextCommand, answerVars>>
         ELSE Refuse
    /\ UNCHANGED <<fileVars, boundVars>>

\* The staged file takes the place of the old one.
RenameStaged ==
    /\ actor.pc = "rename"
    /\ IF actor.tool
         THEN /\ state' = [state EXCEPT !.cur = actor.cand]
              /\ UNCHANGED overlay
         ELSE /\ overlay' = [overlay EXCEPT
                    !.cur = [base |-> actor.base, doc |-> actor.cand]]
              /\ UNCHANGED state
    /\ actor' = [actor EXCEPT !.pc = "sync"]
    /\ UNCHANGED <<sessionVars, driverVars, nextCommand, answerVars, boundVars>>

\* Mutant of SyncStaged: the directory is not synced.
SyncNothing ==
    /\ actor.pc = "sync"
    /\ actor' = [actor EXCEPT !.pc = "install"]
    /\ UNCHANGED <<sessionVars, driverVars, nextCommand, fileVars, answerVars,
                   boundVars>>

\* The directory is synced, and with it whatever was renamed in it.
SyncStaged ==
    /\ actor.pc = "sync"
    /\ state' = Synced(state) /\ overlay' = Synced(overlay)
    /\ actor' = [actor EXCEPT !.pc = "install"]
    /\ UNCHANGED <<sessionVars, driverVars, nextCommand, answerVars, boundVars>>

\* The write or the rename fails: nothing was replaced.
FailWrite ==
    /\ actor.pc = "rename" /\ faults + crashes < MaxMishaps
    /\ faults' = faults + 1
    /\ Refuse
    /\ UNCHANGED <<fileVars, turns, crashes>>

\* RenamedButNotSynced, which require_durable turns into an error.
FailSync ==
    /\ actor.pc = "sync" /\ faults + crashes < MaxMishaps
    /\ faults' = faults + 1
    /\ Refuse
    /\ UNCHANGED <<fileVars, turns, crashes>>

\* The candidate becomes the session's plan, and its events go out.
Install(seq, stillPending) ==
    /\ mem' = [actor.cand EXCEPT !.seq = seq]
    /\ previous' = Version(mem)
    /\ pending' = stillPending
    /\ planSeq' = IF actor.cand.id = actor.base.id THEN planSeq ELSE planSeq + 1
    /\ published' = published \cup
           {[seq |-> e, by |-> actor.command] : e \in actor.events}
    /\ Answer(TRUE)

\* Mutant of InstallPlanOnly: installs whatever the sequence has become.
InstallAtAnySequence ==
    /\ actor.pc = "install" /\ ~actor.tool
    /\ IF PlanMatches THEN Install(mem.seq, pending) ELSE Refuse
    /\ UNCHANGED <<fileVars, boundVars>>

InstallPlanOnly ==
    /\ actor.pc = "install" /\ ~actor.tool
    /\ CASE ~PlanMatches -> Refuse
         [] PlanMatches /\ mem.seq # actor.cand.seq ->
              /\ actor' = [actor EXCEPT !.pc = "stage"]
              /\ UNCHANGED <<sessionVars, driverVars, nextCommand, answerVars>>
         [] OTHER -> Install(mem.seq, pending)
    /\ UNCHANGED <<fileVars, boundVars>>

InstallTool ==
    /\ actor.pc = "install" /\ actor.tool
    /\ IF BaseMatches THEN Install(actor.cand.seq, pending - 1) ELSE Refuse
    /\ UNCHANGED <<fileVars, boundVars>>

----------------------------------------------------------------------------
\* The driver

\* The driver records n events in the session and delivers them.
Record(n) ==
    /\ mem' = [mem EXCEPT !.seq = @ + n]
    /\ published' = published \cup
           {[seq |-> e, by |-> 0] : e \in mem.seq..(mem.seq + n - 1)}
    /\ UNCHANGED <<planSeq, previous, actorVars, fileVars, acked, failed,
                   faults, crashes>>

\* record_event and record_transient_event during a model step.
RecordEvent ==
    /\ driver = "model" /\ turns < MaxTurns
    /\ Record(1) /\ turns' = turns + 1
    /\ UNCHANGED <<pending, driverVars>>

\* The model asks for one tool, or for a batch of two.  begin_tool_batch
\* sets tool_batch_active inside a debug_assert!, so only in a build that
\* compiles assertions in.
RequestTools ==
    /\ driver = "model" /\ turns < MaxTurns
    /\ Record(1) /\ turns' = turns + 1
    /\ driver' = "tools"
    /\ pending' \in {1, 2}
    /\ \E debugAssertions \in Builds :
          batchActive' = (debugAssertions /\ pending' > 1)
    /\ UNCHANGED snap

\* Mutant of ResolveCall: it does not look whether a call is pending.
ResolveAnyCall ==
    /\ driver \in {"tools", "settling"}
    /\ Record(1)
    /\ pending' = pending - 1
    /\ UNCHANGED <<driverVars, turns>>

\* A call ends with a result that is not a plan commit: another tool, a
\* rejected update, or the failure recorded for every call that is left
\* when one of them could not be executed or the run was dropped.
ResolveCall ==
    /\ driver \in {"tools", "settling"} /\ pending > 0
    /\ Record(1)
    /\ pending' = pending - 1
    /\ UNCHANGED <<driverVars, turns>>

\* The run is dropped while it waits for the plan actor.
DropCall ==
    /\ driver = "calling"
    /\ driver' = "settling" /\ batchActive' = FALSE
    /\ UNCHANGED <<sessionVars, snap, actorVars, fileVars, answerVars, boundVars>>

\* persist_resume_safe_savepoint_if_configured, up to the write.
TakeSavepoint ==
    /\ driver \in {"model", "tools", "settling"} /\ pending = 0
    /\ snap' = mem
    /\ driver' = "saving" /\ batchActive' = FALSE
    /\ UNCHANGED <<sessionVars, actorVars, fileVars, answerVars, boundVars>>

RenameSavepoint ==
    /\ driver = "saving"
    /\ state' = [state EXCEPT !.cur = snap]
    /\ driver' = "syncing"
    /\ UNCHANGED <<sessionVars, snap, batchActive, actorVars, overlay,
                   answerVars, boundVars>>

SyncSavepoint ==
    /\ driver = "syncing"
    /\ state' = Synced(state) /\ overlay' = Synced(overlay)
    /\ driver' = "model" /\ snap' = EmptySession
    /\ UNCHANGED <<sessionVars, batchActive, actorVars, answerVars, boundVars>>

\* A savepoint that fails is logged and forgotten.
FailSavepoint ==
    /\ driver \in {"saving", "syncing"} /\ faults + crashes < MaxMishaps
    /\ faults' = faults + 1
    /\ driver' = "model" /\ snap' = EmptySession
    /\ UNCHANGED <<sessionVars, batchActive, actorVars, fileVars, answerVars,
                   turns, crashes>>

----------------------------------------------------------------------------
\* What a crash may leave of the two files
Remains == {state.cur, state.syn} \X {overlay.cur, overlay.syn}

\* The process dies and the session is resumed: load_from, then
\* abandon_unresumed_execution if the plan had work in progress.
CrashAndResume ==
    /\ faults + crashes < MaxMishaps
    /\ crashes' = crashes + 1
    /\ \E r \in Remains, abandon \in BOOLEAN :
          LET loaded == LoadFrom(r[1], r[2])
          IN /\ abandon => loaded.id # 0
             /\ state' = [cur |-> r[1], syn |-> r[1]]
             /\ overlay' = [cur |-> r[2], syn |-> r[2]]
             /\ mem' = IF abandon THEN [loaded EXCEPT !.rev = @ + 1] ELSE loaded
             /\ previous' = Version(loaded)
             /\ planSeq' = loaded.terms + (IF loaded.id = 0 THEN 1 ELSE 2)
             /\ acked' = acked \cap loaded.ops
    /\ pending' = 0
    /\ driver' = "model" /\ snap' = EmptySession /\ batchActive' = FALSE
    /\ actor' = Idle
    /\ published' = {}
    /\ UNCHANGED <<nextCommand, failed, turns, faults>>

Init ==
    /\ mem = EmptySession /\ previous = Version(EmptySession)
    /\ pending = 0 /\ planSeq = 1
    /\ driver = "model" /\ snap = EmptySession /\ batchActive = FALSE
    /\ actor = Idle /\ nextCommand = 1
    /\ state = NoFile /\ overlay = NoFile
    /\ acked = {} /\ failed = {} /\ published = {}
    /\ turns = 0 /\ faults = 0 /\ crashes = 0

Next ==
    \/ PreparePlanOnly \/ ReserveEvents \/ StageOverlay \/ InstallPlanOnly
    \/ PrepareTool \/ RefuseTool \/ StageBundle \/ InstallTool
    \/ RenameStaged \/ SyncStaged \/ FailWrite \/ FailSync
    \/ RecordEvent \/ RequestTools \/ ResolveCall \/ DropCall
    \/ TakeSavepoint \/ RenameSavepoint \/ SyncSavepoint \/ FailSavepoint
    \/ CrashAndResume

Spec == Init /\ [][Next]_vars

----------------------------------------------------------------------------
\* Properties

\* Type invariant: the session, the files and the tasks keep their shapes.
TypeOK ==
    /\ mem \in Session /\ previous \in Nat \X Nat \X Nat /\ snap \in Session
    /\ pending \in 0..2 /\ planSeq \in Nat
    /\ driver \in {"model", "tools", "calling", "settling", "saving", "syncing"}
    /\ batchActive \in BOOLEAN
    /\ actor \in [pc : {"idle", "reserve", "stage", "rename", "sync", "install"},
                  tool : BOOLEAN, persist : BOOLEAN, command : 0..MaxCommands,
                  base : Session, cand : Session, events : SUBSET Nat]
    /\ nextCommand \in 1..(MaxCommands + 1)
    /\ state \in File(Session) /\ overlay \in File(Overlay)
    /\ acked \subseteq Commands /\ failed \subseteq Commands
    /\ published \subseteq [seq : Nat, by : 0..MaxCommands]
    /\ turns \in 0..MaxTurns /\ faults \in 0..MaxMishaps /\ crashes \in 0..MaxMishaps

\* No event identity is delivered twice by one process, although a command
\* takes its sequence numbers before it writes and is installed, given up
\* or overtaken by the driver's events later ("a later attempt can never
\* reuse an event identity that was prepared here").
EventIdentity ==
    \A a, b \in published : a.seq = b.seq => a = b

OpsOn(files) == UNION {s.ops : s \in files \ {None}}

\* A command is answered Ok only when its plan is in a file that a crash
\* cannot take back, and it stays in one while the process lives: neither
\* a savepoint taken earlier nor the next command's write removes it.
DurableBeforeAck ==
    acked \subseteq OpsOn({state.syn} \cup
                        {o.doc : o \in {overlay.syn} \ {None}})

\* What the overlay holds, whatever a crash leaves of it.
OverlayOps == OpsOn({o.doc : o \in {overlay.cur, overlay.syn} \ {None}})

\* Does state.json, whatever a crash leaves of it, hold the plan version in
\* memory, or the one before it while the overlay is not ahead of memory?
SavepointIsRecent ==
    \A s \in {state.cur, state.syn} \ {None} :
        \/ Version(s) = Version(mem)
        \/ Version(s) = previous /\ OverlayOps \subseteq mem.ops

\* In the process that created the session, a restart recovers every
\* acknowledged command if the last savepoint is at most one change of the
\* plan behind and no command that failed has left its plan in a file.
RecentSavepointRecovers ==
    (/\ crashes = 0 /\ SavepointIsRecent
     /\ (OverlayOps \cup OpsOn({state.cur, state.syn})) \cap failed = {}) =>
        \A r \in Remains : acked \subseteq LoadFrom(r[1], r[2]).ops

\* When a PlanOnly command is installed, the sequence a restart would go on
\* with is the session's own: no event recorded up to the installation can
\* get its number again ("Rewrite until the persisted frontier and install
\* point agree").
FrontierAgrees ==
    [][(/\ ~actor.tool /\ actor.command \in acked' \ acked
          /\ crashes = 0 /\ SavepointIsRecent)
         => LoadFrom(state.cur, overlay.cur).seq = mem'.seq]_vars

\* While neither the plan actor nor the driver is writing, a restart recovers
\* every command that commit answered Ok: load_from reads the Plan the overlay
\* was written for, as subagent_scope/tests/persistence.rs:41 asserts after
\* several commits (in a session without a state.json).
AcknowledgedSurvives ==
    actor = Idle /\ driver = "model" =>
        \A r \in Remains : acked \subseteq LoadFrom(r[1], r[2]).ops

\* An update_plan call is not refused because of the calls of its batch
\* that are still pending: the batch commits as a whole at its end.
BatchedUpdateAccepted ==
    [][driver = "tools" /\ pending > 1 /\ nextCommand' # nextCommand
         => failed' = failed]_vars

=============================================================================
