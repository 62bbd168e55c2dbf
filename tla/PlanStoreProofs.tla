-------------------------- MODULE PlanStoreProofs --------------------------
(***************************************************************************)
(* Type correctness of PlanStore, the identity of its events, the          *)
(* durability of what it acknowledges, what a restart recovers of it, and  *)
(* the agreement of the sequence in the files with the session's: for any  *)
(* number of commands, turns, failures and crashes.  Last, what becomes of *)
(* a batch of tool calls in a build that evaluates debug assertions.       *)
(***************************************************************************)
EXTENDS PlanStore, TLAPS

Busy == actor.pc # "idle"

\* A command that found the session unchanged since it was prepared.
Unmoved == actor.base.seq = mem.seq

\* The plan actor is the only writer of the plan: while it serves a command
\* the plan in memory is the one the candidate was made from.
CommandInv ==
    Busy => /\ actor.command \in Commands
            /\ actor.base.ops = mem.ops
            /\ actor.cand.ops = mem.ops \cup {actor.command}
            /\ actor.base.seq <= mem.seq

\* A Tool command takes its event numbers only at installation; as long as
\* the session has not moved, its call is pending and its driver waits, or
\* has been dropped and has not yet settled the call.
ToolInv ==
    /\ actor.tool => Busy
    /\ actor.tool =>
         /\ actor.pc # "reserve"
         /\ actor.events = {actor.base.seq, actor.base.seq + 1}
         /\ actor.cand.seq = actor.base.seq + 2
         /\ Unmoved => pending > 0 /\ driver \in {"calling", "settling"}

\* Published numbers are below the session's next one, and the numbers a
\* PlanOnly command has reserved are its own.
EventInv ==
    /\ \A e \in published : e.seq < mem.seq
    /\ (Busy /\ ~actor.tool) =>
         \A n \in actor.events : n < mem.seq /\ \A e \in published : e.seq # n

StateOps(s) == IF s = None THEN {} ELSE s.ops
OverlayDocOps(o) == IF o = None THEN {} ELSE o.doc.ops

Saving == driver \in {"saving", "syncing"}

\* Every version of state.json that is or may become current holds what was
\* acknowledged, or every version of the overlay does.
InState ==
    /\ acked \subseteq StateOps(state.cur)
    /\ acked \subseteq StateOps(state.syn)
    /\ Saving => acked \subseteq snap.ops
InOverlay ==
    /\ acked \subseteq OverlayDocOps(overlay.cur)
    /\ acked \subseteq OverlayDocOps(overlay.syn)

\* What the command in progress has written so far.
WrittenInv ==
    /\ (actor.pc \in {"sync", "install"} /\ ~actor.tool) =>
         actor.cand.ops \subseteq OverlayDocOps(overlay.cur)
    /\ (actor.pc = "install" /\ ~actor.tool) =>
         actor.cand.ops \subseteq OverlayDocOps(overlay.syn)
    /\ (actor.pc \in {"sync", "install"} /\ actor.tool /\ actor.persist /\ Unmoved) =>
         actor.cand.ops \subseteq StateOps(state.cur)
    /\ (actor.pc = "install" /\ actor.tool /\ actor.persist /\ Unmoved) =>
         actor.cand.ops \subseteq StateOps(state.syn)

DurableInv == acked \subseteq mem.ops /\ WrittenInv /\ (InState \/ InOverlay)

Inv == TypeOK /\ CommandInv /\ ToolInv /\ EventInv /\ EventIdentity /\ DurableInv

----------------------------------------------------------------------------
\* Loading two files yields a session.
LEMMA LoadType ==
    ASSUME NEW s \in Session \cup {None}, NEW o \in Overlay \cup {None}
    PROVE  LoadFrom(s, o) \in Session
  <1>1. EmptySession \in Session
    BY Zenon DEF EmptySession, Session
  <1>2. ASSUME NEW a \in Nat, NEW b \in Nat PROVE Larger(a, b) \in Nat
    BY Zenon DEF Larger
  <1>3. ASSUME NEW t \in Session, NEW v \in Overlay, NEW allow
        PROVE  ApplyPlanOverlay(t, v, allow) \in Session
    BY <1>2, Zenon DEF ApplyPlanOverlay, Session, Overlay
  <1>. QED BY <1>1, <1>3, Zenon DEF LoadFrom

\* Loading two files yields the commands of one of them, or none.
LEMMA LoadOps ==
    ASSUME NEW s \in Session \cup {None}, NEW o \in Overlay \cup {None}
    PROVE  \/ LoadFrom(s, o).ops = {}
           \/ s # None /\ LoadFrom(s, o).ops = s.ops
           \/ o # None /\ LoadFrom(s, o).ops = o.doc.ops
  <1>1. EmptySession.ops = {} /\ EmptySession \in Session
    BY Zenon DEF EmptySession, Session
  <1>2. ASSUME NEW t \in Session, NEW v \in Overlay, NEW allow
        PROVE  \/ ApplyPlanOverlay(t, v, allow) = t
               \/ ApplyPlanOverlay(t, v, allow).ops = v.doc.ops
    BY Zenon DEF ApplyPlanOverlay, Session, Overlay
  <1>. QED BY <1>1, <1>2, Zenon DEF LoadFrom

\* The initial state satisfies the invariant.
LEMMA InitInv == Init => Inv
  <1> SUFFICES ASSUME Init PROVE Inv
    BY Zenon
  <1>1. EmptySession \in Session
    BY Zenon DEF EmptySession, Session
  <1>2. batchActive \in BOOLEAN
    BY Zenon DEF Init
  <1>3. TypeOK
    BY <1>1, <1>2, ConstantsAssumption DEF Init, TypeOK, Idle, NoFile, File, Version, EmptySession
  <1>4. CommandInv /\ ToolInv /\ EventInv /\ EventIdentity /\ DurableInv
    BY Zenon DEF Init, Idle, NoFile, EmptySession, Busy, Unmoved, CommandInv, ToolInv,
      EventInv, EventIdentity, DurableInv, WrittenInv, InState, InOverlay, Saving
  <1>. QED BY <1>3, <1>4, Zenon DEF Inv

\* The driver's steps preserve the invariant.
LEMMA DriverInv ==
    Inv /\ (\/ RecordEvent \/ RequestTools \/ ResolveCall \/ DropCall
            \/ TakeSavepoint \/ RenameSavepoint \/ SyncSavepoint \/ FailSavepoint)
    => Inv'
  <1> SUFFICES ASSUME Inv,
                      \/ RecordEvent \/ RequestTools \/ ResolveCall \/ DropCall
                      \/ TakeSavepoint \/ RenameSavepoint \/ SyncSavepoint \/ FailSavepoint
               PROVE  Inv'
    BY Zenon
  <1> USE DEF Inv, sessionVars, driverVars, actorVars, fileVars, answerVars, boundVars
  <1>1. CASE RecordEvent
    <2>1. TypeOK'
      BY <1>1, ConstantsAssumption DEF RecordEvent, TypeOK, Record, Session
    <2>2. (CommandInv /\ ToolInv /\ EventInv /\ EventIdentity /\ DurableInv)'
      BY <1>1 DEF RecordEvent, TypeOK, Session, Record, Busy, Unmoved, CommandInv,
        ToolInv, EventInv, EventIdentity, DurableInv, WrittenInv, InState, InOverlay,
        Saving
    <2>. QED BY <2>1, <2>2, Zenon
  <1>2. CASE RequestTools
    <2>1. TypeOK'
      BY <1>2, ConstantsAssumption DEF RequestTools, TypeOK, Record, Session
    <2>2. (CommandInv /\ ToolInv /\ EventInv /\ EventIdentity /\ DurableInv)'
      BY <1>2 DEF RequestTools, TypeOK, Session, Record, Busy, Unmoved, CommandInv,
        ToolInv, EventInv, EventIdentity, DurableInv, WrittenInv, InState, InOverlay,
        Saving
    <2>. QED BY <2>1, <2>2
  <1>3. CASE ResolveCall
    <2>1. TypeOK'
      BY <1>3, ConstantsAssumption DEF ResolveCall, TypeOK, Record, Session
    <2>2. (CommandInv /\ ToolInv /\ EventInv /\ EventIdentity /\ DurableInv)'
      BY <1>3 DEF ResolveCall, TypeOK, Session, Record, Busy, Unmoved, CommandInv,
        ToolInv, EventInv, EventIdentity, DurableInv, WrittenInv, InState, InOverlay,
        Saving
    <2>. QED BY <2>1, <2>2
  <1>4. CASE DropCall
    <2>1. TypeOK'
      BY <1>4, ConstantsAssumption, Zenon DEF DropCall, TypeOK
    <2>2. (CommandInv /\ ToolInv /\ EventInv /\ EventIdentity /\ DurableInv)'
      BY <1>4, Zenon DEF DropCall, TypeOK, Session, Busy, Unmoved, CommandInv, ToolInv,
        EventInv, EventIdentity, DurableInv, WrittenInv, InState, InOverlay, Saving
    <2>. QED BY <2>1, <2>2
  <1>5. CASE TakeSavepoint
    <2>1. TypeOK'
      BY <1>5, ConstantsAssumption, Zenon DEF TakeSavepoint, TypeOK
    <2>2. (CommandInv /\ ToolInv /\ EventInv /\ EventIdentity /\ DurableInv)'
      BY <1>5 DEF TakeSavepoint, TypeOK, Session, Busy, Unmoved, CommandInv, ToolInv,
        EventInv, EventIdentity, DurableInv, WrittenInv, InState, InOverlay, Saving
    <2>. QED BY <2>1, <2>2
  <1>6. CASE RenameSavepoint
    <2>1. TypeOK'
      BY <1>6, ConstantsAssumption, Zenon DEF RenameSavepoint, TypeOK, File, StateOps
    <2>2. (CommandInv /\ ToolInv /\ EventInv /\ EventIdentity /\ DurableInv)'
      BY <1>6, NoneAssumption DEF RenameSavepoint, TypeOK, File, StateOps, Busy,
        Unmoved, CommandInv, ToolInv, EventInv, EventIdentity, DurableInv, WrittenInv,
        InState, InOverlay, Saving
    <2>. QED BY <2>1, <2>2
  <1>7. CASE SyncSavepoint
    <2>1. TypeOK'
      BY <1>7, ConstantsAssumption, Zenon DEF SyncSavepoint, TypeOK, Synced, File,
        EmptySession, Session, StateOps, OverlayDocOps
    <2>2. (CommandInv /\ ToolInv /\ EventInv /\ EventIdentity /\ DurableInv)'
      BY <1>7, Zenon DEF SyncSavepoint, TypeOK, Session, Synced, File, EmptySession,
        StateOps, OverlayDocOps, Busy, Unmoved, CommandInv, ToolInv, EventInv,
        EventIdentity, DurableInv, WrittenInv, InState, InOverlay, Saving
    <2>. QED BY <2>1, <2>2
  <1>8. CASE FailSavepoint
    <2>1. TypeOK'
      BY <1>8, ConstantsAssumption DEF FailSavepoint, TypeOK, EmptySession, Session
    <2>2. (CommandInv /\ ToolInv /\ EventInv /\ EventIdentity /\ DurableInv)'
      BY <1>8, Zenon DEF FailSavepoint, TypeOK, Session, EmptySession, Busy, Unmoved,
        CommandInv, ToolInv, EventInv, EventIdentity, DurableInv, WrittenInv, InState,
        InOverlay, Saving
    <2>. QED BY <2>1, <2>2
  <1>. QED BY <1>1, <1>2, <1>3, <1>4, <1>5, <1>6, <1>7, <1>8, Zenon

ActorType ==
    [pc : {"idle", "reserve", "stage", "rename", "sync", "install"},
     tool : BOOLEAN, persist : BOOLEAN, command : 0..MaxCommands,
     base : Session, cand : Session, events : SUBSET Nat]

\* The actor without a command is well typed.
LEMMA IdleType ==
    Idle \in ActorType /\ Idle.pc = "idle" /\ Idle.tool = FALSE /\ Idle.events = {}
  <1>1. EmptySession \in Session
    BY Zenon DEF EmptySession, Session
  <1>2. FALSE \in BOOLEAN
    BY Zenon
  <1>. QED BY <1>1, <1>2, ConstantsAssumption DEF Idle, ActorType

\* A refused command leaves the session and the files as they are.
LEMMA RefuseInv ==
    ASSUME Inv, Busy, Refuse, UNCHANGED fileVars,
           turns' = turns, crashes' = crashes, faults' \in 0..MaxMishaps
    PROVE  Inv'
  <1> USE DEF Inv, sessionVars, fileVars
  <1>1. batchActive' \in BOOLEAN
    BY Zenon DEF Refuse, Answer
  <1>2. /\ driver' \in {driver, "tools", "settling"}
        /\ Saving' => Saving
    BY Zenon DEF Refuse, Answer, Saving
  <1>3. /\ actor' = Idle /\ acked' = acked /\ failed' = failed \cup {actor.command}
        /\ UNCHANGED <<snap, nextCommand, mem, pending, planSeq, previous, published>>
    BY Zenon DEF Refuse, Answer
  <1>4. TypeOK'
    BY <1>1, <1>2, <1>3, IdleType, Zenon DEF TypeOK, ActorType, CommandInv
  <1>5. (CommandInv /\ ToolInv /\ EventInv /\ EventIdentity /\ DurableInv)'
    BY <1>2, <1>3, IdleType, Zenon DEF TypeOK, Busy, Unmoved, CommandInv, ToolInv,
      EventInv, EventIdentity, DurableInv, WrittenInv, InState, InOverlay
  <1>. QED BY <1>4, <1>5, Zenon

\* A command that is installed: the numbers of its events are free and below
\* the next one, and if it is acknowledged, a file holds it.
LEMMA InstallInv ==
    ASSUME NEW seq \in Nat, NEW stillPending \in 0..2,
           Inv, Busy, Install(seq, stillPending),
           UNCHANGED <<fileVars, boundVars>>,
           mem.seq <= seq, \A n \in actor.events : n < seq,
           \A n \in actor.events : \A e \in published : e.seq # n,
           (actor.persist \/ ~actor.tool) =>
              \/ /\ actor.cand.ops \subseteq StateOps(state.cur)
                 /\ actor.cand.ops \subseteq StateOps(state.syn)
                 /\ ~Saving
              \/ /\ actor.cand.ops \subseteq OverlayDocOps(overlay.cur)
                 /\ actor.cand.ops \subseteq OverlayDocOps(overlay.syn)
    PROVE  Inv'
  <1> USE DEF Inv, fileVars, boundVars
  <1>1. batchActive' \in BOOLEAN
    BY Zenon DEF Install, Answer
  <1>2. /\ driver' \in {driver, "tools"}
        /\ Saving' => Saving
    BY Zenon DEF Install, Answer, Saving
  <1>3. /\ actor' = Idle /\ failed' = failed
        /\ acked' = IF actor.persist \/ ~actor.tool
                      THEN acked \cup {actor.command} ELSE acked
        /\ UNCHANGED <<snap, nextCommand>>
    BY Zenon DEF Install, Answer
  <1>4. /\ mem' \in Session /\ mem'.seq = seq /\ mem'.ops = mem.ops \cup {actor.command}
        /\ previous' \in Nat \X Nat \X Nat /\ planSeq' \in Nat /\ pending' = stillPending
    BY DEF Install, TypeOK, Session, Version, CommandInv
  <1>5. published' = published \cup {[seq |-> e, by |-> actor.command] : e \in actor.events}
    BY Zenon DEF Install
  <1>6. TypeOK'
    BY <1>1, <1>2, <1>3, <1>4, <1>5, IdleType DEF TypeOK, ActorType, CommandInv
  <1>7. (CommandInv /\ ToolInv)'
    BY <1>3, IdleType, Zenon DEF CommandInv, ToolInv, Busy
  <1>8. (EventInv /\ EventIdentity)'
    BY <1>3, <1>4, <1>5, IdleType DEF TypeOK, Session, EventInv, EventIdentity, Busy
  <1>9. DurableInv'
    BY <1>2, <1>3, <1>4, IdleType, Zenon DEF TypeOK, CommandInv, DurableInv, WrittenInv,
      InState, InOverlay
  <1>. QED BY <1>6, <1>7, <1>8, <1>9, Zenon

\* A candidate is a session with the same sequence and one command more.
LEMMA CandidateType ==
    ASSUME TypeOK, NEW c \in Commands, NEW rev \in Nat,
           NEW cand \in {Advanced(c), Created(c, rev)}
    PROVE  cand \in Session /\ cand.ops = mem.ops \cup {c} /\ cand.seq = mem.seq
  <1>1. mem \in Session /\ planSeq \in Nat
    BY Zenon DEF TypeOK
  <1>2. CASE cand = Advanced(c)
    <2>1. mem.rev + 1 \in Nat /\ mem.ops \cup {c} \in SUBSET Commands
      BY <1>1 DEF Session
    <2>2. cand = [mem EXCEPT !.rev = mem.rev + 1, !.ops = mem.ops \cup {c}]
      BY <1>2, Zenon DEF Advanced
    <2>. QED BY <1>1, <2>1, <2>2, Zenon DEF Session
  <1>3. CASE cand = Created(c, rev)
    <2> DEFINE terms == IF mem.id = 0 \/ mem.terms = MaxTerminals THEN mem.terms ELSE mem.terms + 1
    <2>1. terms \in Nat
      BY <1>1 DEF Session
    <2>2. cand = [mem EXCEPT !.id = planSeq, !.rev = rev, !.ops = @ \cup {c},
                             !.terms = terms]
      BY <1>3, Zenon DEF Created
    <2> HIDE DEF terms
    <2>. QED BY <1>1, <2>1, <2>2, Zenon DEF Session
  <1>. QED BY <1>2, <1>3, Zenon

\* The first steps of a command preserve the invariant.
LEMMA PrepareInv ==
    Inv /\ (PreparePlanOnly \/ PrepareTool \/ RefuseTool \/ ReserveEvents) => Inv'
  <1> SUFFICES ASSUME Inv, PreparePlanOnly \/ PrepareTool \/ RefuseTool \/ ReserveEvents
               PROVE  Inv'
    BY Zenon
  <1> USE DEF Inv, sessionVars, driverVars, fileVars, answerVars, boundVars
  <1>1. CASE PreparePlanOnly
    <2>1. PICK cand \in {Advanced(nextCommand), Created(nextCommand, 0)} :
             actor' = [Idle EXCEPT !.pc = "reserve", !.command = nextCommand,
                                   !.base = mem, !.cand = cand]
      BY <1>1, Zenon DEF PreparePlanOnly
    <2>2. nextCommand \in Commands
      BY <1>1, ConstantsAssumption DEF PreparePlanOnly, TypeOK, Commands
    <2>3. cand \in Session /\ cand.ops = mem.ops \cup {nextCommand}
      BY <2>2, CandidateType
    <2>4. /\ actor' \in ActorType /\ actor'.pc = "reserve" /\ actor'.tool = FALSE
          /\ actor'.command = nextCommand /\ actor'.base = mem /\ actor'.cand = cand
          /\ actor'.events = {}
      <3>1. actor' = [pc |-> "reserve", tool |-> FALSE, persist |-> FALSE,
                      command |-> nextCommand, base |-> mem, cand |-> cand, events |-> {}]
        BY <2>1, Zenon DEF Idle
      <3>2. FALSE \in BOOLEAN
        BY Zenon
      <3>3. mem \in Session /\ nextCommand \in 0..MaxCommands
        BY <2>2 DEF TypeOK, Commands
      <3>. QED BY <2>3, <3>1, <3>2, <3>3, Zenon DEF ActorType
    <2>5. TypeOK'
      BY <1>1, <2>2, <2>4, ConstantsAssumption DEF PreparePlanOnly, TypeOK, ActorType, Commands
    <2>6. (CommandInv /\ ToolInv /\ EventInv /\ EventIdentity /\ DurableInv)'
      BY <1>1, <2>2, <2>3, <2>4 DEF PreparePlanOnly, TypeOK, Session, Busy, Unmoved,
        CommandInv, ToolInv, EventInv, EventIdentity, DurableInv, WrittenInv, InState,
        InOverlay, Saving
    <2>. QED BY <2>5, <2>6, Zenon
  <1>2. CASE PrepareTool
    <2>1. PICK cand \in {Advanced(nextCommand), Created(nextCommand, 1)} :
             actor' = [Idle EXCEPT
                 !.pc = IF batchActive THEN "install" ELSE "stage",
                 !.tool = TRUE, !.persist = ~batchActive,
                 !.command = nextCommand, !.base = mem,
                 !.cand = [cand EXCEPT !.seq = @ + 2],
                 !.events = {mem.seq, mem.seq + 1}]
      BY <1>2, Zenon DEF PrepareTool
    <2>2. nextCommand \in Commands
      BY <1>2, ConstantsAssumption DEF PrepareTool, TypeOK, Commands
    <2>3. cand \in Session /\ cand.ops = mem.ops \cup {nextCommand} /\ cand.seq = mem.seq
      BY <2>2, CandidateType
    <2>4. TRUE \in BOOLEAN /\ (~batchActive) \in BOOLEAN
      BY Zenon
    <2>5. /\ actor' \in ActorType /\ actor'.tool = TRUE /\ actor'.persist = ~batchActive
          /\ actor'.pc = IF batchActive THEN "install" ELSE "stage"
          /\ actor'.command = nextCommand /\ actor'.base = mem
          /\ actor'.cand = [cand EXCEPT !.seq = @ + 2]
          /\ actor'.events = {mem.seq, mem.seq + 1}
      <3> DEFINE pc == IF batchActive THEN "install" ELSE "stage"
                 numbered == [cand EXCEPT !.seq = @ + 2]
                 numbers == {mem.seq, mem.seq + 1}
      <3>1. actor' = [pc |-> pc, tool |-> TRUE, persist |-> ~batchActive,
                      command |-> nextCommand, base |-> mem, cand |-> numbered,
                      events |-> numbers]
        BY <2>1, Zenon DEF Idle
      <3>2. numbered \in Session /\ numbers \in SUBSET Nat /\ pc \in {"install", "stage"}
        BY <2>3 DEF TypeOK, Session
      <3>3. mem \in Session /\ nextCommand \in 0..MaxCommands
        BY <2>2 DEF TypeOK, Commands
      <3> HIDE DEF pc, numbered, numbers
      <3>4. actor' \in ActorType
        BY <2>4, <3>1, <3>2, <3>3, Zenon DEF ActorType
      <3>. QED BY <3>1, <3>4, Zenon DEF pc, numbered, numbers
    <2>6. TypeOK'
      BY <1>2, <2>2, <2>5, ConstantsAssumption DEF PrepareTool, TypeOK, ActorType, Commands
    <2>7. /\ driver' = "calling" /\ pending > 0 /\ actor'.cand.seq = mem.seq + 2
          /\ actor'.cand.ops = mem.ops \cup {nextCommand}
          /\ UNCHANGED <<sessionVars, snap, batchActive, fileVars, answerVars>>
      BY <1>2, <2>3, <2>5 DEF PrepareTool, Session
    <2>8. (CommandInv /\ ToolInv /\ EventInv /\ EventIdentity)'
      BY <2>2, <2>5, <2>7 DEF TypeOK, Session, Busy, Unmoved,
        CommandInv, ToolInv, EventInv, EventIdentity
    <2>9. DurableInv'
      BY <2>5, <2>7, Zenon DEF TypeOK, DurableInv, WrittenInv, InState, InOverlay, Saving
    <2>. QED BY <2>6, <2>8, <2>9, Zenon
  <1>3. CASE RefuseTool
    <2>1. nextCommand \in Commands
      BY <1>3, ConstantsAssumption DEF RefuseTool, TypeOK, Commands
    <2>2. TypeOK'
      BY <1>3, <2>1, ConstantsAssumption DEF RefuseTool, TypeOK, Commands
    <2>3. (CommandInv /\ ToolInv /\ EventInv /\ EventIdentity /\ DurableInv)'
      BY <1>3, Zenon DEF RefuseTool, TypeOK, Busy, Unmoved, CommandInv, ToolInv, EventInv,
        EventIdentity, DurableInv, WrittenInv, InState, InOverlay, Saving
    <2>. QED BY <2>2, <2>3, Zenon
  <1>4. CASE ReserveEvents
    <2>1. CASE PlanMatches
      <3>1. /\ mem' \in Session /\ mem'.seq = mem.seq + 1 /\ mem'.ops = mem.ops
            /\ actor' = [actor EXCEPT !.pc = "stage", !.events = {mem.seq}]
        BY <1>4, <2>1 DEF ReserveEvents, TypeOK, Session
      <3>2. actor' \in ActorType
        <4>1. actor \in ActorType /\ {mem.seq} \in SUBSET Nat
          BY Zenon DEF TypeOK, ActorType, Session
        <4>. QED BY <3>1, <4>1, Zenon DEF ActorType
      <3>3. UNCHANGED <<pending, planSeq, previous, driverVars, nextCommand, answerVars,
                        fileVars, boundVars>>
        BY <1>4, <2>1, Zenon DEF ReserveEvents
      <3>4. TypeOK'
        BY <3>1, <3>2, <3>3, Zenon DEF TypeOK, ActorType
      <3>5. (CommandInv /\ ToolInv /\ EventInv /\ EventIdentity /\ DurableInv)'
        BY <1>4, <2>1, <3>1 DEF ReserveEvents, TypeOK, Session, Busy, Unmoved,
          CommandInv, ToolInv, EventInv, EventIdentity, DurableInv, WrittenInv,
          InState, InOverlay, Saving
      <3>. QED BY <3>4, <3>5
    <2>2. CASE ~PlanMatches
      <3>1. Busy /\ Refuse /\ UNCHANGED <<fileVars, boundVars>>
        BY <1>4, <2>2, Zenon DEF ReserveEvents, Busy
      <3>2. faults' \in 0..MaxMishaps
        BY <3>1, Zenon DEF TypeOK
      <3>. QED BY <3>1, <3>2, RefuseInv, Zenon
    <2>. QED BY <2>1, <2>2, Zenon
  <1>. QED BY <1>1, <1>2, <1>3, <1>4, Zenon

\* Staging, renaming and syncing a file preserve the invariant.
LEMMA WriteInv ==
    Inv /\ (\/ StageOverlay \/ StageBundle \/ RenameStaged \/ SyncStaged
            \/ FailWrite \/ FailSync) => Inv'
  <1> SUFFICES ASSUME Inv, \/ StageOverlay \/ StageBundle \/ RenameStaged \/ SyncStaged
                           \/ FailWrite \/ FailSync
               PROVE  Inv'
    BY Zenon
  <1> USE DEF Inv, sessionVars, driverVars, fileVars, answerVars, boundVars
  <1>1. CASE StageOverlay
    <2>1. CASE PlanMatches
      <3>1. actor' = [actor EXCEPT !.pc = "rename", !.cand.seq = mem.seq]
        BY <1>1, <2>1, Zenon DEF StageOverlay
      <3>2. /\ actor' \in ActorType /\ actor'.pc = "rename" /\ actor'.tool = actor.tool
            /\ actor'.command = actor.command /\ actor'.base = actor.base
            /\ actor'.cand.ops = actor.cand.ops /\ actor'.events = actor.events
        BY <3>1, Zenon DEF TypeOK, ActorType, Session
      <3>3. TypeOK'
        BY <1>1, <2>1, <3>2, Zenon DEF StageOverlay, TypeOK, ActorType
      <3>4. (CommandInv /\ ToolInv /\ EventInv /\ EventIdentity /\ DurableInv)'
        BY <1>1, <2>1, <3>2, Zenon DEF StageOverlay, Busy, Unmoved, CommandInv, ToolInv,
          EventInv, EventIdentity, DurableInv, WrittenInv, InState, InOverlay, Saving
      <3>. QED BY <3>3, <3>4, Zenon
    <2>2. CASE ~PlanMatches
      BY <1>1, <2>2, RefuseInv, Zenon DEF StageOverlay, Busy, TypeOK
    <2>. QED BY <2>1, <2>2, Zenon
  <1>2. CASE StageBundle
    <2>1. CASE BaseMatches
      <3>1. TypeOK'
        BY <1>2, <2>1 DEF StageBundle, TypeOK
      <3>2. (CommandInv /\ ToolInv /\ EventInv /\ EventIdentity /\ DurableInv)'
        BY <1>2, <2>1 DEF StageBundle, TypeOK, Busy, Unmoved, CommandInv, ToolInv,
          EventInv, EventIdentity, DurableInv, WrittenInv, InState, InOverlay, Saving
      <3>. QED BY <3>1, <3>2
    <2>2. CASE ~BaseMatches
      BY <1>2, <2>2, RefuseInv, Zenon DEF StageBundle, Busy, TypeOK
    <2>. QED BY <2>1, <2>2
  <1>3. CASE RenameStaged
    <2>1. TypeOK'
      BY <1>3 DEF RenameStaged, TypeOK, File, Overlay
    <2>2. (CommandInv /\ ToolInv /\ EventInv /\ EventIdentity)'
      BY <1>3, Zenon DEF RenameStaged, TypeOK, Busy, Unmoved, CommandInv, ToolInv, EventInv,
        EventIdentity
    <2>3. ASSUME actor.tool PROVE DurableInv'
      BY <1>3, <2>3, NoneAssumption DEF RenameStaged, TypeOK, File, Busy, Unmoved,
        CommandInv, DurableInv, WrittenInv, InState, InOverlay, Saving, StateOps
    <2>4. ASSUME ~actor.tool PROVE DurableInv'
      BY <1>3, <2>4, NoneAssumption DEF RenameStaged, TypeOK, File, Overlay, Busy,
        Unmoved, CommandInv, DurableInv, WrittenInv, InState, InOverlay, Saving,
        OverlayDocOps
    <2>. QED BY <2>1, <2>2, <2>3, <2>4, Zenon
  <1>4. CASE SyncStaged
    <2>1. TypeOK'
      BY <1>4, Zenon DEF SyncStaged, Synced, TypeOK, File
    <2>2. (CommandInv /\ ToolInv /\ EventInv /\ EventIdentity /\ DurableInv)'
      BY <1>4, Zenon DEF SyncStaged, Synced, TypeOK, File, Busy, Unmoved, CommandInv, ToolInv,
        EventInv, EventIdentity, DurableInv, WrittenInv, InState, InOverlay, Saving
    <2>. QED BY <2>1, <2>2
  <1>5. CASE FailWrite
    <2>1. Busy /\ Refuse /\ UNCHANGED <<fileVars, turns, crashes>>
      BY <1>5, Zenon DEF FailWrite, Busy
    <2>2. faults' \in 0..MaxMishaps
      BY <1>5, ConstantsAssumption DEF FailWrite, TypeOK
    <2>. QED BY <2>1, <2>2, RefuseInv, Zenon
  <1>6. CASE FailSync
    <2>1. Busy /\ Refuse /\ UNCHANGED <<fileVars, turns, crashes>>
      BY <1>6, Zenon DEF FailSync, Busy
    <2>2. faults' \in 0..MaxMishaps
      BY <1>6, ConstantsAssumption DEF FailSync, TypeOK
    <2>. QED BY <2>1, <2>2, RefuseInv
  <1>. QED BY <1>1, <1>2, <1>3, <1>4, <1>5, <1>6, Zenon

\* Installing a command, or giving it up, preserves the invariant.
LEMMA InstallStepInv == Inv /\ (InstallPlanOnly \/ InstallTool) => Inv'
  <1> SUFFICES ASSUME Inv, InstallPlanOnly \/ InstallTool PROVE Inv'
    BY Zenon
  <1> USE DEF Inv, sessionVars, driverVars, fileVars, answerVars, boundVars
  <1>1. CASE InstallPlanOnly
    <2>1. CASE ~PlanMatches
      <3>1. Busy /\ Refuse /\ UNCHANGED <<fileVars, boundVars>>
        BY <1>1, <2>1, Zenon DEF InstallPlanOnly, Busy
      <3>2. faults' \in 0..MaxMishaps
        BY <3>1, Zenon DEF TypeOK
      <3>. QED BY <3>1, <3>2, RefuseInv, Zenon
    <2>2. CASE PlanMatches /\ mem.seq # actor.cand.seq
      <3>1. TypeOK'
        BY <1>1, <2>2 DEF InstallPlanOnly, TypeOK
      <3>2. (CommandInv /\ ToolInv /\ EventInv /\ EventIdentity /\ DurableInv)'
        BY <1>1, <2>2 DEF InstallPlanOnly, TypeOK, Busy, Unmoved, CommandInv, ToolInv,
          EventInv, EventIdentity, DurableInv, WrittenInv, InState, InOverlay, Saving
      <3>. QED BY <3>1, <3>2, Zenon
    <2>3. CASE PlanMatches /\ mem.seq = actor.cand.seq
      <3>1. Install(mem.seq, pending) /\ actor.pc = "install" /\ ~actor.tool
        BY <1>1, <2>3, Zenon DEF InstallPlanOnly
      <3>2. mem.seq \in Nat /\ pending \in 0..2
        BY Zenon DEF TypeOK, Session
      <3>3. \A n \in actor.events : n < mem.seq /\ \A e \in published : e.seq # n
        BY <3>1, Zenon DEF EventInv, Busy
      <3>4. /\ actor.cand.ops \subseteq OverlayDocOps(overlay.cur)
            /\ actor.cand.ops \subseteq OverlayDocOps(overlay.syn)
        BY <3>1, Zenon DEF DurableInv, WrittenInv
      <3>. QED BY <1>1, <3>1, <3>2, <3>3, <3>4, InstallInv DEF InstallPlanOnly, Busy
    <2>. QED BY <2>1, <2>2, <2>3, Zenon
  <1>2. CASE InstallTool
    <2>1. CASE ~BaseMatches
      <3>1. Busy /\ Refuse /\ UNCHANGED <<fileVars, boundVars>>
        BY <1>2, <2>1, Zenon DEF InstallTool, Busy
      <3>2. faults' \in 0..MaxMishaps
        BY <3>1 DEF TypeOK
      <3>. QED BY <3>1, <3>2, RefuseInv
    <2>2. CASE BaseMatches
      <3>1. Install(actor.cand.seq, pending - 1) /\ actor.pc = "install" /\ actor.tool /\ Unmoved
        BY <1>2, <2>2, Zenon DEF InstallTool, BaseMatches, Unmoved
      <3>2. /\ actor.cand.seq \in Nat /\ mem.seq \in Nat
            /\ actor.cand.seq = mem.seq + 2 /\ actor.events = {mem.seq, mem.seq + 1}
            /\ pending - 1 \in 0..2 /\ ~Saving
        BY <3>1 DEF TypeOK, Session, ToolInv, Unmoved, Saving
      <3>3. \A n \in actor.events :
              n < actor.cand.seq /\ \A e \in published : e.seq # n
        BY <3>2 DEF EventInv, TypeOK
      <3>4. actor.persist => /\ actor.cand.ops \subseteq StateOps(state.cur)
                             /\ actor.cand.ops \subseteq StateOps(state.syn)
        BY <3>1, Zenon DEF DurableInv, WrittenInv
      <3>. QED BY <1>2, <3>1, <3>2, <3>3, <3>4, InstallInv DEF InstallTool, Busy
    <2>. QED BY <2>1, <2>2, Zenon
  <1>. QED BY <1>1, <1>2, Zenon

\* A crash leaves a session that one of the files accounts for.
LEMMA CrashInv == Inv /\ CrashAndResume => Inv'
  <1> SUFFICES ASSUME Inv, CrashAndResume PROVE Inv'
    BY Zenon
  <1> USE DEF Inv
  <1>1. PICK r \in Remains, abandon \in BOOLEAN :
          /\ state' = [cur |-> r[1], syn |-> r[1]]
          /\ overlay' = [cur |-> r[2], syn |-> r[2]]
          /\ mem' = IF abandon THEN [LoadFrom(r[1], r[2]) EXCEPT !.rev = @ + 1]
                               ELSE LoadFrom(r[1], r[2])
          /\ previous' = Version(LoadFrom(r[1], r[2]))
          /\ planSeq' = LoadFrom(r[1], r[2]).terms
                          + (IF LoadFrom(r[1], r[2]).id = 0 THEN 1 ELSE 2)
          /\ acked' = acked \cap LoadFrom(r[1], r[2]).ops
    BY Zenon DEF CrashAndResume
  <1> DEFINE s == r[1]
             o == r[2]
  <1>2. /\ s \in {state.cur, state.syn} /\ o \in {overlay.cur, overlay.syn}
        /\ s \in Session \cup {None} /\ o \in Overlay \cup {None}
    BY Zenon DEF TypeOK, File, Remains
  <1> DEFINE loaded == LoadFrom(s, o)
  <1>3. loaded \in Session
    BY <1>2, LoadType, Zenon
  <1>4. \/ loaded.ops = {}
        \/ s # None /\ loaded.ops = s.ops
        \/ o # None /\ loaded.ops = o.doc.ops
    BY <1>2, LoadOps, Zenon
  <1> HIDE DEF loaded
  <1>5. /\ mem' \in Session /\ mem'.ops = loaded.ops
        /\ previous' \in Nat \X Nat \X Nat /\ planSeq' \in Nat
        /\ acked' = acked \cap loaded.ops
    <2>1. mem' \in {loaded, [loaded EXCEPT !.rev = @ + 1]}
      BY <1>1, Zenon DEF loaded
    <2>2. mem' \in Session /\ mem'.ops = loaded.ops
      BY <1>3, <2>1 DEF Session
    <2>3. previous' \in Nat \X Nat \X Nat /\ planSeq' \in Nat
      BY <1>1, <1>3 DEF Session, Version, loaded
    <2>. QED BY <1>1, <2>2, <2>3, Zenon DEF loaded
  <1>6. /\ pending' = 0 /\ driver' = "model" /\ snap' = EmptySession
        /\ actor' = Idle /\ published' = {} /\ crashes' = crashes + 1
        /\ faults + crashes < MaxMishaps
        /\ UNCHANGED <<nextCommand, failed, turns, faults>>
    BY Zenon DEF CrashAndResume
  <1>7. TypeOK'
    <2>1. batchActive' \in BOOLEAN
      BY Zenon DEF CrashAndResume
    <2>2. EmptySession \in Session
      BY Zenon DEF EmptySession, Session
    <2>3. state' \in File(Session) /\ overlay' \in File(Overlay)
      BY <1>1, <1>2, Zenon DEF File
    <2>4. crashes' \in 0..MaxMishaps
      BY <1>6, ConstantsAssumption DEF TypeOK
    <2>. QED BY <1>5, <1>6, <2>1, <2>2, <2>3, <2>4, IdleType DEF TypeOK, ActorType
  <1>8. (CommandInv /\ ToolInv /\ EventInv /\ EventIdentity)'
    BY <1>6, IdleType, Zenon DEF CommandInv, ToolInv, EventInv, EventIdentity, Busy
  <1>9. DurableInv'
    BY <1>1, <1>4, <1>5, <1>6, IdleType, Zenon DEF DurableInv, WrittenInv, InState, InOverlay,
      Saving, StateOps, OverlayDocOps
  <1>. QED BY <1>7, <1>8, <1>9, Zenon

\* Every step preserves the invariant.
LEMMA NextInv == Inv /\ [Next]_vars => Inv'
  <1>1. CASE UNCHANGED vars
    <2>1. UNCHANGED <<mem, pending, planSeq, previous, driver, snap, batchActive, actor, nextCommand>>
      BY <1>1, Zenon DEF vars, sessionVars, driverVars, actorVars
    <2>2. UNCHANGED <<state, overlay, acked, failed, published, turns, faults, crashes>>
      BY <1>1, Zenon DEF vars, fileVars, answerVars, boundVars
    <2>3. Inv => TypeOK'
      BY <2>1, <2>2, Zenon DEF Inv, TypeOK
    <2>4. Inv => CommandInv' /\ ToolInv'
      BY <2>1, <2>2, Zenon DEF Inv, CommandInv, ToolInv, Busy, Unmoved
    <2>5. Inv => EventInv' /\ EventIdentity'
      BY <2>1, <2>2, Zenon DEF Inv, EventInv, EventIdentity, Busy
    <2>6. Inv => DurableInv'
      BY <2>1, <2>2, Zenon DEF Inv, DurableInv, WrittenInv, InState, InOverlay, Saving, Unmoved
    <2>. QED BY <2>3, <2>4, <2>5, <2>6, Zenon DEF Inv
  <1>2. CASE Next
    BY <1>2, PrepareInv, WriteInv, InstallStepInv, DriverInv, CrashInv, Zenon DEF Next
  <1>. QED BY <1>1, <1>2, Zenon

\* The invariant holds throughout.
LEMMA Invariance == Spec => []Inv
  BY InitInv, NextInv, PTL DEF Spec

----------------------------------------------------------------------------
\* Every variable keeps its type: in particular a call is resolved at most
\* once, by the command that commits it or by the driver that gives it up.
THEOREM TypeCorrect == Spec => []TypeOK
  <1>1. Inv => TypeOK
    BY Zenon DEF Inv
  <1>. QED BY <1>1, Invariance, PTL

\* No event identity is delivered twice by one process.
THEOREM UniqueEvents == Spec => []EventIdentity
  <1>1. Inv => EventIdentity
    BY Zenon DEF Inv
  <1>. QED BY <1>1, Invariance, PTL

\* What was answered Ok is in a file no crash can take back.
THEOREM Durability == Spec => []DurableBeforeAck
  <1>1. Inv => DurableBeforeAck
    <2> SUFFICES ASSUME Inv PROVE DurableBeforeAck
      BY Zenon
    <2>1. \/ acked \subseteq StateOps(state.syn)
          \/ acked \subseteq OverlayDocOps(overlay.syn)
      BY Zenon DEF Inv, DurableInv, InState, InOverlay
    <2>2. StateOps(state.syn) \subseteq OpsOn({state.syn} \cup
                        {o.doc : o \in {overlay.syn} \ {None}})
      BY Zenon DEF StateOps, OpsOn
    <2>3. OverlayDocOps(overlay.syn) \subseteq OpsOn({state.syn} \cup
                        {o.doc : o \in {overlay.syn} \ {None}})
      <3>1. overlay.syn # None => overlay.syn.doc # None
        BY NoneAssumption, Zenon DEF Inv, TypeOK, File, Overlay
      <3>. QED BY <3>1, Zenon DEF OverlayDocOps, OpsOn
    <2>. QED BY <2>1, <2>2, <2>3, Zenon DEF DurableBeforeAck
  <1>. QED BY <1>1, Invariance, PTL

----------------------------------------------------------------------------
(***************************************************************************)
(* What a restart recovers in the process that created the session.  The   *)
(* plan actor is the only writer of the plan, so the plans that were ever  *)
(* installed form a chain: each has a higher version than the one before   *)
(* and reflects one command more.  A document in a file, or in the hands   *)
(* of the driver, that reflects no failed command is a member of this      *)
(* chain, or the candidate that is about to become its next member.        *)
(***************************************************************************)
\* Versions in the order in which plans are installed.
AtMost(v, w) == v[1] < w[1] \/ (v[1] = w[1] /\ v[2] <= w[2])
SameKey(v, w) == v[1] = w[1] /\ v[2] = w[2]

Overlays == {overlay.cur, overlay.syn} \ {None}

\* The documents that are or may become current.
Kept == ({state.cur, state.syn} \ {None}) \cup {o.doc : o \in Overlays}
          \cup {o.base : o \in Overlays} \cup (IF Saving THEN {snap} ELSE {})

Issued == 1..(nextCommand - 1)

PlanInv ==
    /\ mem.id < planSeq /\ AtMost(previous, Version(mem))
    /\ mem.ops \cup failed \subseteq Issued /\ mem.ops \cap failed = {}

\* The candidate is the next member of the chain.
CandInv ==
    Busy => /\ Version(actor.base) = Version(mem)
            /\ actor.command \in Issued /\ actor.command \notin mem.ops \cup failed
            /\ ~AtMost(Version(actor.cand), Version(mem))
            /\ actor.cand.id \in {mem.id, planSeq}

\* d is the plan in memory, or an earlier one.
Past(d) ==
    /\ d.ops \subseteq mem.ops
    /\ IF SameKey(Version(d), Version(mem)) THEN d.ops = mem.ops
                                            ELSE AtMost(Version(d), previous)

\* d is the candidate.
Coming(d) ==
    Busy /\ d.ops = actor.cand.ops /\ SameKey(Version(d), Version(actor.cand))

KeptInv ==
    \A d \in Kept : d.ops \subseteq Issued /\ (d.ops \cap failed = {} => Past(d) \/ Coming(d))

OrderInv ==
    \A d, e \in Kept :
        d.ops \subseteq mem.ops /\ e.ops \subseteq mem.ops /\ AtMost(Version(d), Version(e))
            => d.ops \subseteq e.ops

\* An overlay was made from the plan before the one it holds.
Fits(o) ==
    \/ /\ o.doc.ops \subseteq mem.ops
       /\ SameKey(Version(o.doc), Version(mem)) => Version(o.base) = previous
    \/ Coming(o.doc) /\ Version(o.base) = Version(mem)

OverlayInv ==
    \A o \in Overlays :
        /\ o.base.ops \subseteq mem.ops /\ o.base.ops \subseteq o.doc.ops
        /\ o.doc.ops \cap failed = {} => Fits(o)

ChainInv == PlanInv /\ CandInv /\ KeptInv /\ OrderInv /\ OverlayInv

Versions == Nat \X Nat \X Nat

LEMMA SessionFields ==
    ASSUME NEW s \in Session
    PROVE  s.id \in Nat /\ s.rev \in Nat /\ s.terms \in Nat /\ s.seq \in Nat
  BY Zenon DEF Session

LEMMA VersionKeys ==
    ASSUME NEW s, NEW t
    PROVE  /\ AtMost(Version(s), Version(t)) <=> s.id < t.id \/ (s.id = t.id /\ s.rev <= t.rev)
           /\ SameKey(Version(s), Version(t)) <=> s.id = t.id /\ s.rev = t.rev
  BY Zenon DEF AtMost, SameKey, Version

LEMMA MemoryStays ==
    ASSUME TypeOK, mem' = mem
    PROVE  mem'.seq >= mem.seq /\ Version(mem)' = Version(mem)
  <1>1. mem \in Session
    BY Zenon DEF TypeOK
  <1>2. mem.seq \in Nat
    BY <1>1, SessionFields, Zenon
  <1>. QED BY <1>2 DEF Version

LEMMA KeyOrder ==
    ASSUME NEW u \in Versions, NEW v \in Versions, NEW w \in Versions
    PROVE  /\ AtMost(u, v) /\ AtMost(v, w) => AtMost(u, w)
           /\ AtMost(u, v) \/ AtMost(v, u)
           /\ SameKey(u, v) <=> AtMost(u, v) /\ AtMost(v, u)
  BY DEF Versions, AtMost, SameKey

LEMMA VersionType ==
    ASSUME NEW d \in Session
    PROVE  Version(d) \in Versions /\ Version(d)[1] = d.id
  BY Zenon DEF Version, Versions, Session

LEMMA KeptType ==
    ASSUME TypeOK
    PROVE  /\ Kept \subseteq Session /\ Overlays \subseteq Overlay
           /\ mem \in Session /\ actor.base \in Session /\ actor.cand \in Session
           /\ previous \in Versions
  <1>1. Overlays \subseteq Overlay /\ {state.cur, state.syn} \ {None} \subseteq Session
    BY Zenon DEF TypeOK, File, Overlays
  <1>2. \A o \in Overlays : o.doc \in Session /\ o.base \in Session
    BY <1>1, Zenon DEF Overlay
  <1>3. snap \in Session /\ mem \in Session /\ actor.base \in Session /\ actor.cand \in Session
    BY Zenon DEF TypeOK
  <1>4. Kept \subseteq Session
    BY <1>1, <1>2, <1>3, Zenon DEF Kept
  <1>. QED BY <1>1, <1>3, <1>4, Zenon DEF TypeOK, Versions

\* The plan and the answers stay as they are.
PlanStill ==
    /\ mem'.ops = mem.ops /\ mem'.id = mem.id /\ Version(mem)' = Version(mem)
    /\ UNCHANGED <<planSeq, previous, failed, nextCommand>>

\* A command that is in progress goes on.
ActorStill ==
    /\ Busy' <=> Busy
    /\ Busy => /\ actor'.command = actor.command /\ actor'.base = actor.base
               /\ actor'.cand.ops = actor.cand.ops /\ actor'.cand.id = actor.cand.id
               /\ Version(actor.cand)' = Version(actor.cand)

\* A document made of the session as it is now, or of the candidate.
Fresh(d) == (d.ops = mem.ops /\ Version(d) = Version(mem)) \/ Coming(d)

FreshOverlay(o) ==
    /\ o.base.ops = mem.ops /\ Version(o.base) = Version(mem)
    /\ o.base.ops \subseteq o.doc.ops /\ Coming(o.doc)

StillStep ==
    /\ PlanStill /\ ActorStill
    /\ \A d \in Kept' : d \in Kept \/ Fresh(d)
    /\ \A o \in Overlays' : o \in Overlays \/ FreshOverlay(o)

\* A command is refused; or the driver's call never becomes one.
RefusedStep ==
    /\ UNCHANGED <<mem, planSeq, previous>> /\ ~Busy'
    /\ Kept' \subseteq Kept /\ Overlays' \subseteq Overlays
    /\ \/ Busy /\ failed' = failed \cup {actor.command} /\ nextCommand' = nextCommand
       \/ ~Busy /\ failed' = failed \cup {nextCommand} /\ nextCommand' = nextCommand + 1

InstalledStep ==
    /\ Busy /\ ~Busy' /\ UNCHANGED <<failed, nextCommand>>
    /\ Kept' \subseteq Kept /\ Overlays' \subseteq Overlays
    /\ mem'.ops = actor.cand.ops /\ mem'.id = actor.cand.id
    /\ Version(mem)' = Version(actor.cand) /\ previous' = Version(mem)
    /\ planSeq' = IF actor.cand.id = actor.base.id THEN planSeq ELSE planSeq + 1

PreparedStep ==
    /\ ~Busy /\ Busy' /\ UNCHANGED <<mem, planSeq, previous, failed>>
    /\ nextCommand' = nextCommand + 1
    /\ Kept' \subseteq Kept /\ Overlays' \subseteq Overlays
    /\ actor'.command = nextCommand /\ actor'.base = mem
    /\ actor'.cand.id \in {mem.id, planSeq}
    /\ ~AtMost(Version(actor.cand)', Version(mem))

\* What is in a document of the chain that is no later than the plan in memory.
LEMMA PastFacts ==
    ASSUME TypeOK, CommandInv, ChainInv, NEW d \in Kept
    PROVE  /\ d.ops \subseteq mem.ops /\ d.ops \cap failed = {} =>
                 AtMost(Version(d), Version(mem)) /\ Past(d)
           /\ Coming(d) => ~AtMost(Version(d), Version(mem)) /\ ~(d.ops \subseteq mem.ops)
  <1>1. /\ Version(d) \in Versions /\ Version(mem) \in Versions /\ previous \in Versions
        /\ Version(actor.cand) \in Versions
    BY KeptType, VersionType, Zenon
  <1>2. Coming(d) => ~(d.ops \subseteq mem.ops)
    BY Zenon DEF ChainInv, CandInv, CommandInv, Coming
  <1>3. d.ops \subseteq mem.ops /\ d.ops \cap failed = {} => Past(d)
    BY <1>2, Zenon DEF ChainInv, KeptInv
  <1>4. Past(d) => AtMost(Version(d), Version(mem))
    BY <1>1, KeyOrder, Zenon DEF Past, ChainInv, PlanInv
  <1>5. Coming(d) => ~AtMost(Version(d), Version(mem))
    BY <1>1, KeyOrder, Zenon DEF Coming, ChainInv, CandInv
  <1>. QED BY <1>2, <1>3, <1>4, <1>5, Zenon

LEMMA StillChain ==
    ASSUME Inv, TypeOK', ChainInv, StillStep
    PROVE  ChainInv'
  <1>1. /\ mem'.ops = mem.ops /\ mem'.id = mem.id /\ Version(mem)' = Version(mem)
        /\ UNCHANGED <<planSeq, previous, failed, nextCommand>>
    BY Zenon DEF StillStep, PlanStill
  <1>2. PlanInv'
    BY <1>1, Zenon DEF ChainInv, PlanInv, Issued
  <1>3. CandInv'
    BY <1>1, Zenon DEF StillStep, ActorStill, ChainInv, CandInv, Issued
  <1>4. \A d : (Past(d)' <=> Past(d)) /\ (Coming(d)' <=> Coming(d))
    BY <1>1, Zenon DEF StillStep, ActorStill, Past, Coming
  <1>5. \A d : Fresh(d) => /\ d.ops \subseteq Issued /\ (Past(d) \/ Coming(d))
                           /\ d.ops \subseteq mem.ops => d.ops = mem.ops /\ Version(d) = Version(mem)
    <2>. SUFFICES ASSUME NEW d, Fresh(d)
                  PROVE  /\ d.ops \subseteq Issued /\ (Past(d) \/ Coming(d))
                         /\ d.ops \subseteq mem.ops => d.ops = mem.ops /\ Version(d) = Version(mem)
      BY Zenon
    <2>1. CASE d.ops = mem.ops /\ Version(d) = Version(mem)
      BY <2>1, Zenon DEF ChainInv, PlanInv, Past, SameKey
    <2>2. CASE Coming(d)
      BY <2>2, Zenon DEF ChainInv, PlanInv, CandInv, Coming, Inv, CommandInv
    <2>. QED BY <2>1, <2>2, Zenon DEF Fresh
  <1>6. KeptInv'
    BY <1>1, <1>4, <1>5, Zenon DEF StillStep, ChainInv, KeptInv, Issued
  <1>7. OrderInv'
    <2>. SUFFICES ASSUME NEW d \in Kept', NEW e \in Kept', d.ops \subseteq mem.ops,
                         e.ops \subseteq mem.ops, AtMost(Version(d), Version(e))
                  PROVE  d.ops \subseteq e.ops
      BY <1>1, Zenon DEF OrderInv
    <2>1. CASE Fresh(e)
      BY <1>5, <2>1, Zenon
    <2>2. CASE d \in Kept /\ e \in Kept
      BY <2>2, Zenon DEF ChainInv, OrderInv
    <2>3. CASE Fresh(d) /\ e \in Kept
      <3>1. d.ops = mem.ops /\ Version(d) = Version(mem)
        BY <1>5, <2>3, Zenon
      <3>2. e.ops \cap failed = {}
        BY Zenon DEF ChainInv, PlanInv
      <3>3. AtMost(Version(e), Version(mem)) /\ Past(e)
        BY <2>3, <3>2, PastFacts, Zenon DEF Inv
      <3>4. Version(e) \in Versions /\ Version(mem) \in Versions
        BY <2>3, KeptType, VersionType, Zenon DEF Inv
      <3>5. SameKey(Version(e), Version(mem))
        BY <3>1, <3>3, <3>4, KeyOrder, Zenon
      <3>. QED BY <3>1, <3>3, <3>5, Zenon DEF Past
    <2>. QED BY <2>1, <2>2, <2>3, Zenon DEF StillStep
  <1>8. OverlayInv'
    <2>. SUFFICES ASSUME NEW o \in Overlays'
                  PROVE  /\ o.base.ops \subseteq mem.ops /\ o.base.ops \subseteq o.doc.ops
                         /\ o.doc.ops \cap failed = {} => Fits(o)'
      BY <1>1, Zenon DEF OverlayInv
    <2>1. Fits(o)' <=> Fits(o)
      BY <1>1, <1>4, Zenon DEF Fits
    <2>2. CASE o \in Overlays
      BY <2>1, <2>2, Zenon DEF ChainInv, OverlayInv
    <2>3. CASE FreshOverlay(o)
      BY <2>1, <2>3, Zenon DEF FreshOverlay, Fits
    <2>. QED BY <2>2, <2>3, Zenon DEF StillStep
  <1>. QED BY <1>2, <1>3, <1>6, <1>7, <1>8, Zenon DEF ChainInv

LEMMA RefusedChain ==
    ASSUME Inv, ChainInv, RefusedStep
    PROVE  ChainInv'
  <1>1. /\ mem' = mem /\ UNCHANGED <<planSeq, previous>> /\ ~Busy'
        /\ Kept' \subseteq Kept /\ Overlays' \subseteq Overlays
    BY Zenon DEF RefusedStep
  <1>2. nextCommand \in Nat /\ nextCommand >= 1 /\ nextCommand \notin Issued
    BY ConstantsAssumption DEF Inv, TypeOK, Issued
  <1>3. /\ failed \subseteq failed' /\ failed' \cap mem.ops = {} /\ failed' \subseteq Issued'
        /\ Issued \subseteq Issued'
    <2>1. Issued \subseteq Issued' /\ (~Busy => nextCommand \in Issued')
      BY <1>2 DEF RefusedStep, Issued
    <2>2. \E c \in Issued' : c \notin mem.ops /\ failed' = failed \cup {c}
      <3>1. CASE Busy
        BY <2>1, <3>1, Zenon DEF RefusedStep, ChainInv, CandInv
      <3>2. CASE ~Busy
        BY <1>2, <2>1, <3>2, Zenon DEF RefusedStep, ChainInv, PlanInv
      <3>. QED BY <3>1, <3>2, Zenon
    <2>. QED BY <2>1, <2>2, Zenon DEF ChainInv, PlanInv
  <1>4. PlanInv'
    BY <1>1, <1>3, Zenon DEF ChainInv, PlanInv, Version
  <1>5. \A d \in Kept : d.ops \cap failed' = {} => ~Coming(d)
    BY Zenon DEF RefusedStep, Coming, Inv, CommandInv
  <1>6. \A d : Past(d)' <=> Past(d)
    BY <1>1, Zenon DEF Past, Version
  <1>7. KeptInv'
    BY <1>1, <1>3, <1>5, <1>6, Zenon DEF ChainInv, KeptInv
  <1>8. OrderInv'
    BY <1>1, Zenon DEF ChainInv, OrderInv
  <1>9. OverlayInv'
    <2>. SUFFICES ASSUME NEW o \in Overlays', o.doc.ops \cap failed' = {}
                  PROVE  Fits(o)'
      BY <1>1, Zenon DEF ChainInv, OverlayInv
    <2>1. Fits(o) /\ o.doc \in Kept
      BY <1>1, <1>3, Zenon DEF ChainInv, OverlayInv, Kept
    <2>2. ~Coming(o.doc)
      BY <1>5, <2>1, Zenon
    <2>. QED BY <1>1, <2>1, <2>2, Zenon DEF Fits, Version
  <1>. QED BY <1>1, <1>4, <1>7, <1>8, <1>9, Zenon DEF ChainInv, CandInv

LEMMA InstalledChain ==
    ASSUME Inv, TypeOK', ChainInv, InstalledStep
    PROVE  ChainInv'
  <1>1. /\ Busy /\ ~Busy' /\ UNCHANGED <<failed, nextCommand>>
        /\ Kept' \subseteq Kept /\ Overlays' \subseteq Overlays
        /\ mem'.ops = actor.cand.ops /\ mem'.id = actor.cand.id
        /\ Version(mem)' = Version(actor.cand) /\ previous' = Version(mem)
    BY Zenon DEF InstalledStep
  <1>2. /\ Version(mem) \in Versions /\ Version(actor.cand) \in Versions /\ previous \in Versions
        /\ \A d \in Kept : Version(d) \in Versions
    BY KeptType, VersionType, Zenon DEF Inv
  <1>3. /\ actor.cand.ops = mem.ops \cup {actor.command}
        /\ actor.command \in Issued /\ actor.command \notin mem.ops \cup failed
        /\ AtMost(Version(mem), Version(actor.cand)) /\ ~AtMost(Version(actor.cand), Version(mem))
    BY <1>1, <1>2, KeyOrder, Zenon DEF Inv, CommandInv, ChainInv, CandInv
  <1>4. PlanInv'
    <2>1. mem'.id < planSeq'
      <3>1. /\ actor.base.id = mem.id /\ actor.cand.id \in {mem.id, planSeq}
            /\ mem.id < planSeq /\ mem.id \in Nat /\ planSeq \in Nat
        BY <1>1, Zenon DEF ChainInv, CandInv, PlanInv, Version, Inv, TypeOK, Session
      <3>. QED BY <1>1, <3>1 DEF InstalledStep
    <2>. QED BY <1>1, <1>3, <2>1, Zenon DEF ChainInv, PlanInv, Issued
  <1>5. ASSUME NEW d \in Kept, d.ops \cap failed = {}
        PROVE  /\ Past(d)'
               /\ Past(d) => AtMost(Version(d), Version(mem)) /\ ~AtMost(Version(actor.cand), Version(d))
               /\ Coming(d) => d.ops = mem'.ops
    <2>1. CASE Past(d)
      <3>1. AtMost(Version(d), Version(mem)) /\ ~AtMost(Version(actor.cand), Version(d))
        BY <1>2, <1>3, <1>5, <2>1, PastFacts, KeyOrder, Zenon DEF Inv, Past
      <3>2. ~SameKey(Version(d), Version(actor.cand))
        BY <1>2, <3>1, KeyOrder, Zenon
      <3>. QED BY <1>1, <1>3, <2>1, <3>1, <3>2, Zenon DEF Past, Coming
    <2>2. CASE Coming(d)
      <3>1. ~Past(d)
        BY <2>2, <1>5, PastFacts, Zenon DEF Inv, Past
      <3>. QED BY <1>1, <2>2, <3>1, Zenon DEF Past, Coming
    <2>. QED BY <1>5, <2>1, <2>2, Zenon DEF ChainInv, KeptInv
  <1>6. KeptInv'
    BY <1>1, <1>5, Zenon DEF ChainInv, KeptInv, Issued
  <1>7. OrderInv'
    <2>. SUFFICES ASSUME NEW d \in Kept, NEW e \in Kept, d.ops \subseteq mem'.ops,
                         e.ops \subseteq mem'.ops, AtMost(Version(d), Version(e))
                  PROVE  d.ops \subseteq e.ops
      BY <1>1, Zenon DEF OrderInv
    <2>1. d.ops \cap failed = {} /\ e.ops \cap failed = {}
      BY <1>1, <1>3, Zenon DEF ChainInv, PlanInv
    <2>2. (Past(d) \/ Coming(d)) /\ (Past(e) \/ Coming(e))
      BY <2>1, Zenon DEF ChainInv, KeptInv
    <2>3. CASE Coming(e)
      BY <1>5, <2>1, <2>3, Zenon
    <2>4. CASE Past(d) /\ Past(e)
      BY <2>4, Zenon DEF ChainInv, OrderInv, Past
    <2>5. CASE Coming(d) /\ Past(e)
      <3>1. SameKey(Version(d), Version(actor.cand))
        BY <2>5, Zenon DEF Coming
      <3>2. AtMost(Version(actor.cand), Version(d))
        BY <1>2, <3>1, KeyOrder, Zenon
      <3>3. AtMost(Version(actor.cand), Version(e))
        BY <1>2, <3>2, KeyOrder, Zenon
      <3>. QED BY <1>5, <2>1, <2>5, <3>3, Zenon
    <2>. QED BY <2>2, <2>3, <2>4, <2>5, Zenon
  <1>8. OverlayInv'
    <2>. SUFFICES ASSUME NEW o \in Overlays
                  PROVE  /\ o.base.ops \subseteq mem'.ops /\ o.base.ops \subseteq o.doc.ops
                         /\ o.doc.ops \cap failed = {} => Fits(o)'
      BY <1>1, Zenon DEF OverlayInv
    <2>1. o.base.ops \subseteq mem'.ops /\ o.base.ops \subseteq o.doc.ops
      BY <1>1, <1>3, Zenon DEF ChainInv, OverlayInv
    <2>2. ASSUME o.doc.ops \cap failed = {} PROVE Fits(o)'
      <3>1. o.doc \in Kept
        BY Zenon DEF Kept
      <3>2. Past(o.doc)' /\ o.doc.ops \subseteq mem'.ops
        BY <1>5, <2>2, <3>1, Zenon DEF Past
      <3>3. CASE Coming(o.doc)
        <4>1. ~(o.doc.ops \subseteq mem.ops)
          BY <3>1, <3>3, PastFacts, Zenon DEF Inv
        <4>2. Version(o.base) = Version(mem)
          BY <2>2, <4>1, Zenon DEF ChainInv, OverlayInv, Fits
        <4>. QED BY <1>1, <3>2, <4>2, Zenon DEF Fits
      <3>4. CASE Past(o.doc)
        <4>1. ~AtMost(Version(actor.cand), Version(o.doc))
          BY <1>5, <2>2, <3>1, <3>4, Zenon
        <4>2. ~SameKey(Version(o.doc), Version(actor.cand))
          BY <1>2, <3>1, <4>1, KeyOrder, Zenon
        <4>. QED BY <1>1, <3>2, <4>2, Zenon DEF Fits
      <3>. QED BY <2>2, <3>1, <3>3, <3>4, Zenon DEF ChainInv, KeptInv
    <2>. QED BY <2>1, <2>2, Zenon
  <1>. QED BY <1>1, <1>4, <1>6, <1>7, <1>8, Zenon DEF ChainInv, CandInv

LEMMA PreparedChain ==
    ASSUME Inv, ChainInv, PreparedStep
    PROVE  ChainInv'
  <1>1. /\ ~Busy /\ UNCHANGED <<mem, planSeq, previous, failed>>
        /\ Kept' \subseteq Kept /\ Overlays' \subseteq Overlays
        /\ actor'.command = nextCommand /\ actor'.base = mem
        /\ nextCommand' = nextCommand + 1
    BY Zenon DEF PreparedStep
  <1>2. /\ nextCommand \notin Issued /\ nextCommand \in Issued' /\ Issued \subseteq Issued'
    BY <1>1, ConstantsAssumption DEF Inv, TypeOK, Issued
  <1>3. \A d : ~Coming(d) /\ (Past(d)' <=> Past(d))
    BY <1>1, Zenon DEF Coming, Past, Version
  <1>4. PlanInv'
    BY <1>1, <1>2, Zenon DEF ChainInv, PlanInv, Version
  <1>5. CandInv'
    BY <1>1, <1>2, Zenon DEF PreparedStep, ChainInv, PlanInv, CandInv, Version
  <1>6. KeptInv' /\ OrderInv'
    BY <1>1, <1>2, <1>3, Zenon DEF ChainInv, KeptInv, OrderInv
  <1>7. OverlayInv'
    BY <1>1, <1>3, Zenon DEF ChainInv, OverlayInv, Fits, Version
  <1>. QED BY <1>4, <1>5, <1>6, <1>7, Zenon DEF ChainInv

\* The files stay, and the driver does not begin to save.
LEMMA FilesStill ==
    ASSUME UNCHANGED <<state, overlay>>, Saving' => Saving /\ snap' = snap
    PROVE  Kept' \subseteq Kept /\ Overlays' \subseteq Overlays
  <1>1. Overlays' = Overlays
    BY Zenon DEF Overlays
  <1>. QED BY <1>1, Zenon DEF Kept

\* The directory is synced.
LEMMA FilesSynced ==
    ASSUME TypeOK, state' = Synced(state), overlay' = Synced(overlay),
           Saving' => Saving /\ snap' = snap
    PROVE  Kept' \subseteq Kept /\ Overlays' \subseteq Overlays
  <1>1. /\ state'.cur = state.cur /\ state'.syn = state.cur
        /\ overlay'.cur = overlay.cur /\ overlay'.syn = overlay.cur
    BY Zenon DEF Synced, TypeOK, File
  <1>2. Overlays' \subseteq Overlays
    BY <1>1, Zenon DEF Overlays
  <1>. QED BY <1>1, <1>2, Zenon DEF Kept

LEMMA SubsetStill ==
    ASSUME PlanStill, ActorStill, Kept' \subseteq Kept, Overlays' \subseteq Overlays
    PROVE  StillStep
  BY Zenon DEF StillStep

\* A step of the driver leaves the plan and the command in progress alone.
LEMMA DriverFrame ==
    ASSUME Inv,
           \/ RecordEvent \/ RequestTools \/ ResolveCall \/ DropCall
           \/ TakeSavepoint \/ RenameSavepoint \/ SyncSavepoint \/ FailSavepoint
    PROVE  StillStep
  <1>1. /\ UNCHANGED <<planSeq, previous, failed, nextCommand, actor>>
        /\ mem' = mem \/ \E n \in Nat : mem' = [mem EXCEPT !.seq = @ + n]
    BY Zenon DEF RecordEvent, RequestTools, ResolveCall, DropCall, TakeSavepoint, RenameSavepoint,
       SyncSavepoint, FailSavepoint, Record, sessionVars, actorVars, answerVars
  <1>2. PlanStill
    <2>1. mem'.ops = mem.ops /\ mem'.id = mem.id /\ mem'.rev = mem.rev /\ mem'.terms = mem.terms
      BY <1>1, Zenon DEF Inv, TypeOK, Session
    <2>. QED BY <1>1, <2>1, Zenon DEF PlanStill, Version
  <1>3. ActorStill
    BY <1>1, Zenon DEF ActorStill, Busy
  <1>4. CASE RecordEvent \/ RequestTools \/ ResolveCall \/ DropCall
    <2>1. UNCHANGED <<state, overlay, snap>> /\ ~(Saving' /\ ~Saving)
      BY <1>4, Zenon DEF RecordEvent, RequestTools, ResolveCall, DropCall, Record, Saving, fileVars, driverVars
    <2>. QED BY <1>2, <1>3, <2>1, FilesStill, SubsetStill, Zenon
  <1>5. CASE TakeSavepoint
    <2>1. UNCHANGED <<state, overlay, mem>> /\ snap' = mem
      BY <1>5, Zenon DEF TakeSavepoint, fileVars, sessionVars
    <2>2. Overlays' = Overlays
      BY <2>1, Zenon DEF Overlays
    <2>3. \A d \in Kept' : d \in Kept \/ d = mem
      BY <2>1, <2>2, Zenon DEF Kept
    <2>4. Fresh(mem)
      BY Zenon DEF Fresh
    <2>. QED BY <1>2, <1>3, <2>2, <2>3, <2>4, Zenon DEF StillStep
  <1>6. CASE RenameSavepoint
    <2>1. /\ state' = [state EXCEPT !.cur = snap] /\ UNCHANGED <<overlay, snap>> /\ Saving
      BY <1>6, Zenon DEF RenameSavepoint, Saving
    <2>2. state'.cur = snap /\ state'.syn = state.syn
      BY <2>1, Zenon DEF Inv, TypeOK, File
    <2>3. Overlays' = Overlays
      BY <2>1, Zenon DEF Overlays
    <2>4. Kept' \subseteq Kept
      BY <2>1, <2>2, <2>3, Zenon DEF Kept
    <2>. QED BY <1>2, <1>3, <2>3, <2>4, SubsetStill, Zenon
  <1>7. CASE SyncSavepoint
    <2>1. state' = Synced(state) /\ overlay' = Synced(overlay) /\ ~Saving'
      BY <1>7, Zenon DEF SyncSavepoint, Saving
    <2>. QED BY <1>2, <1>3, <2>1, FilesSynced, SubsetStill, Zenon DEF Inv
  <1>8. CASE FailSavepoint
    <2>1. UNCHANGED <<state, overlay>> /\ ~Saving'
      BY <1>8, Zenon DEF FailSavepoint, Saving, fileVars
    <2>. QED BY <1>2, <1>3, <2>1, FilesStill, SubsetStill, Zenon
  <1>. QED BY <1>4, <1>5, <1>6, <1>7, <1>8, Zenon

LEMMA RefuseFrame ==
    ASSUME Busy, Refuse, UNCHANGED fileVars
    PROVE  RefusedStep
  <1>1. /\ UNCHANGED <<mem, planSeq, previous, nextCommand, snap, state, overlay>>
        /\ failed' = failed \cup {actor.command} /\ actor' = Idle /\ (Saving' => Saving)
    BY Zenon DEF Refuse, Answer, sessionVars, fileVars, Saving
  <1>2. ~Busy'
    BY <1>1, Zenon DEF Busy, Idle
  <1>. QED BY <1>1, <1>2, FilesStill, Zenon DEF RefusedStep

LEMMA InstallFrame ==
    ASSUME Inv, Busy, UNCHANGED fileVars, NEW seq, NEW still, Install(seq, still)
    PROVE  InstalledStep
  <1>1. /\ mem' = [actor.cand EXCEPT !.seq = seq] /\ previous' = Version(mem)
        /\ planSeq' = IF actor.cand.id = actor.base.id THEN planSeq ELSE planSeq + 1
        /\ UNCHANGED <<failed, nextCommand, snap, state, overlay>> /\ actor' = Idle
        /\ (Saving' => Saving)
    BY Zenon DEF Install, Answer, fileVars, Saving
  <1>2. ~Busy'
    BY <1>1, Zenon DEF Busy, Idle
  <1>3. /\ mem'.ops = actor.cand.ops /\ mem'.id = actor.cand.id
        /\ mem'.rev = actor.cand.rev /\ mem'.terms = actor.cand.terms
    BY <1>1, Zenon DEF Inv, TypeOK, Session
  <1>4. Version(mem)' = Version(actor.cand)
    BY <1>3, Zenon DEF Version
  <1>. QED BY <1>1, <1>2, <1>3, <1>4, FilesStill, Zenon DEF InstalledStep

\* The candidate has a higher version than the plan it is made from.
LEMMA CandidateIsNext ==
    ASSUME TypeOK, mem.id < planSeq, NEW c \in Commands, NEW rev \in Nat,
           NEW cand \in {Advanced(c), Created(c, rev)}
    PROVE  cand.id \in {mem.id, planSeq} /\ ~AtMost(Version(cand), Version(mem))
  <1>1. mem \in Session /\ planSeq \in Nat
    BY Zenon DEF TypeOK
  <1>2. CASE cand = Advanced(c)
    <2>1. cand = [mem EXCEPT !.rev = mem.rev + 1, !.ops = mem.ops \cup {c}]
      BY <1>2, Zenon DEF Advanced
    <2>2. cand.id = mem.id /\ cand.rev = mem.rev + 1
      BY <1>1, <2>1, Zenon DEF Session
    <2>. QED BY <1>1, <2>2 DEF AtMost, Version, Session
  <1>3. CASE cand = Created(c, rev)
    <2>1. cand.id = planSeq
      BY <1>1, <1>3, Zenon DEF Created, Session
    <2>. QED BY <1>1, <2>1 DEF AtMost, Version, Session
  <1>. QED BY <1>2, <1>3, Zenon

LEMMA PrepareFrame ==
    ASSUME Inv, mem.id < planSeq, PreparePlanOnly \/ PrepareTool
    PROVE  PreparedStep
  <1>1. /\ ~Busy /\ UNCHANGED <<mem, planSeq, previous, failed, state, overlay, snap>>
        /\ nextCommand' = nextCommand + 1 /\ (Saving' => Saving)
    BY Zenon DEF PreparePlanOnly, PrepareTool, Busy, Saving, sessionVars, fileVars, answerVars, driverVars
  <1>2. nextCommand \in Commands /\ mem \in Session
    BY ConstantsAssumption DEF PreparePlanOnly, PrepareTool, Inv, TypeOK, Commands
  <1>3. PICK cand \in {Advanced(nextCommand), Created(nextCommand, 0), Created(nextCommand, 1)} :
          /\ actor'.pc # "idle" /\ actor'.command = nextCommand /\ actor'.base = mem
          /\ actor'.cand = cand \/ actor'.cand = [cand EXCEPT !.seq = @ + 2]
    <2>1. CASE PreparePlanOnly
      <3>1. PICK cand \in {Advanced(nextCommand), Created(nextCommand, 0)} :
               actor' = [Idle EXCEPT !.pc = "reserve", !.command = nextCommand,
                                     !.base = mem, !.cand = cand]
        BY <2>1, Zenon DEF PreparePlanOnly
      <3>2. actor' = [pc |-> "reserve", tool |-> FALSE, persist |-> FALSE,
                      command |-> nextCommand, base |-> mem, cand |-> cand, events |-> {}]
        BY <3>1, Zenon DEF Idle
      <3>. QED BY <3>2, Zenon
    <2>2. CASE PrepareTool
      <3>. DEFINE pc == IF batchActive THEN "install" ELSE "stage"
      <3>1. PICK cand \in {Advanced(nextCommand), Created(nextCommand, 1)} :
               actor' = [Idle EXCEPT
                 !.pc = IF batchActive THEN "install" ELSE "stage",
                 !.tool = TRUE, !.persist = ~batchActive,
                 !.command = nextCommand, !.base = mem,
                 !.cand = [cand EXCEPT !.seq = @ + 2],
                 !.events = {mem.seq, mem.seq + 1}]
        BY <2>2, Zenon DEF PrepareTool
      <3>2. actor' = [pc |-> pc, tool |-> TRUE, persist |-> ~batchActive,
                      command |-> nextCommand, base |-> mem, cand |-> [cand EXCEPT !.seq = @ + 2],
                      events |-> {mem.seq, mem.seq + 1}]
        BY <3>1, Zenon DEF Idle
      <3>3. pc # "idle"
        BY Zenon
      <3>. HIDE DEF pc
      <3>. QED BY <3>2, <3>3, Zenon
    <2>. QED BY <2>1, <2>2, Zenon
  <1>4. /\ cand \in Session /\ cand.id \in {mem.id, planSeq}
        /\ ~AtMost(Version(cand), Version(mem))
    <2>1. \E rev \in Nat : cand \in {Advanced(nextCommand), Created(nextCommand, rev)}
      BY <1>3, Zenon
    <2>2. PICK rev \in Nat : cand \in {Advanced(nextCommand), Created(nextCommand, rev)}
      BY <2>1, Zenon
    <2>3. cand \in Session
      BY <1>2, <2>2, CandidateType DEF Inv
    <2>4. cand.id \in {mem.id, planSeq} /\ ~AtMost(Version(cand), Version(mem))
      BY <1>2, <2>2, CandidateIsNext, Zenon DEF Inv
    <2>. QED BY <2>3, <2>4, Zenon
  <1>5. actor'.cand.id = cand.id /\ Version(actor.cand)' = Version(cand)
    <2>1. actor'.cand.id = cand.id /\ actor'.cand.rev = cand.rev /\ actor'.cand.terms = cand.terms
      BY <1>3, <1>4, Zenon DEF Session
    <2>. QED BY <2>1, Zenon DEF Version
  <1>6. Kept' \subseteq Kept /\ Overlays' \subseteq Overlays
    BY <1>1, FilesStill, Zenon
  <1>. QED BY <1>1, <1>3, <1>4, <1>5, <1>6, Zenon DEF PreparedStep, Busy

LEMMA WriteFrame ==
    ASSUME Inv, CandInv,
           \/ ReserveEvents \/ StageOverlay \/ StageBundle \/ RenameStaged \/ SyncStaged
           \/ FailWrite \/ FailSync
    PROVE  StillStep \/ RefusedStep
  <1>1. Busy
    BY Zenon DEF Busy, ReserveEvents, StageOverlay, StageBundle, RenameStaged, SyncStaged, FailWrite, FailSync
  <1>2. actor \in ActorType /\ mem \in Session
    BY Zenon DEF Inv, TypeOK, ActorType
  <1>3. ASSUME Refuse, UNCHANGED fileVars PROVE RefusedStep
    BY <1>1, <1>3, RefuseFrame, Zenon
  <1>4. CASE ReserveEvents /\ PlanMatches
    <2>1. /\ mem' = [mem EXCEPT !.seq = @ + 1]
          /\ actor' = [actor EXCEPT !.pc = "stage", !.events = {mem.seq}]
          /\ UNCHANGED <<planSeq, previous, failed, nextCommand, state, overlay, driver, snap>>
      BY <1>4, Zenon DEF ReserveEvents, driverVars, answerVars, fileVars
    <2>2. mem'.ops = mem.ops /\ mem'.id = mem.id /\ mem'.rev = mem.rev /\ mem'.terms = mem.terms
      BY <1>2, <2>1, Zenon DEF Session
    <2>3. /\ actor'.pc = "stage" /\ actor'.command = actor.command /\ actor'.base = actor.base
          /\ actor'.cand = actor.cand
      BY <1>2, <2>1, Zenon DEF ActorType
    <2>4. PlanStill /\ ActorStill
      BY <1>1, <2>1, <2>2, <2>3, Zenon DEF PlanStill, ActorStill, Busy, Version
    <2>. QED BY <2>1, <2>4, FilesStill, SubsetStill, Zenon DEF Saving
  <1>5. CASE (StageOverlay /\ PlanMatches) \/ (StageBundle /\ BaseMatches)
    <2>1. /\ \/ actor' = [actor EXCEPT !.pc = "rename", !.cand.seq = mem.seq]
             \/ actor' = [actor EXCEPT !.pc = "rename"]
          /\ UNCHANGED <<mem, planSeq, previous, failed, nextCommand, state, overlay, driver, snap>>
      BY <1>5, Zenon DEF StageOverlay, StageBundle, sessionVars, driverVars, answerVars, fileVars
    <2>2. /\ actor'.pc = "rename" /\ actor'.command = actor.command /\ actor'.base = actor.base
          /\ actor'.cand.ops = actor.cand.ops /\ actor'.cand.id = actor.cand.id
          /\ actor'.cand.rev = actor.cand.rev /\ actor'.cand.terms = actor.cand.terms
      <3>1. actor.cand \in Session
        BY <1>2, Zenon DEF ActorType
      <3>2. CASE actor' = [actor EXCEPT !.pc = "rename", !.cand.seq = mem.seq]
        <4>1. /\ actor'.pc = "rename" /\ actor'.command = actor.command /\ actor'.base = actor.base
              /\ actor'.cand = [actor.cand EXCEPT !.seq = mem.seq]
          BY <1>2, <3>2, Zenon DEF ActorType
        <4>. QED BY <3>1, <4>1, Zenon DEF Session
      <3>3. CASE actor' = [actor EXCEPT !.pc = "rename"]
        BY <1>2, <3>3, Zenon DEF ActorType
      <3>. QED BY <2>1, <3>2, <3>3, Zenon
    <2>3. PlanStill /\ ActorStill
      BY <1>1, <2>1, <2>2, Zenon DEF PlanStill, ActorStill, Busy, Version
    <2>. QED BY <2>1, <2>3, FilesStill, SubsetStill, Zenon DEF Saving
  <1>6. CASE RenameStaged
    <2>1. /\ actor' = [actor EXCEPT !.pc = "sync"]
          /\ UNCHANGED <<mem, planSeq, previous, failed, nextCommand, driver, snap>>
      BY <1>6, Zenon DEF RenameStaged, sessionVars, driverVars, answerVars
    <2>2. /\ actor'.pc = "sync" /\ actor'.command = actor.command /\ actor'.base = actor.base
          /\ actor'.cand = actor.cand
      BY <1>2, <2>1, Zenon DEF ActorType
    <2>3. PlanStill /\ ActorStill
      BY <1>1, <2>1, <2>2, Zenon DEF PlanStill, ActorStill, Busy, Version
    <2>4. /\ Coming(actor.cand) /\ actor.base.ops = mem.ops
          /\ Version(actor.base) = Version(mem) /\ actor.base.ops \subseteq actor.cand.ops
      BY <1>1, Zenon DEF Coming, SameKey, CandInv, Inv, CommandInv
    <2>5. CASE actor.tool
      <3>1. state' = [state EXCEPT !.cur = actor.cand] /\ overlay' = overlay
        BY <1>6, <2>5, Zenon DEF RenameStaged
      <3>2. state'.cur = actor.cand /\ state'.syn = state.syn
        BY <3>1, Zenon DEF Inv, TypeOK, File
      <3>3. Overlays' = Overlays
        BY <3>1, Zenon DEF Overlays
      <3>4. \A d \in Kept' : d \in Kept \/ d = actor.cand
        BY <2>1, <3>2, <3>3, Zenon DEF Kept, Saving
      <3>. QED BY <2>3, <2>4, <3>3, <3>4, Zenon DEF StillStep, Fresh
    <2>6. CASE ~actor.tool
      <3>. DEFINE o == [base |-> actor.base, doc |-> actor.cand]
      <3>1. state' = state /\ overlay' = [overlay EXCEPT !.cur = o]
        BY <1>6, <2>6, Zenon DEF RenameStaged
      <3>2. overlay'.cur = o /\ overlay'.syn = overlay.syn
        BY <3>1, Zenon DEF Inv, TypeOK, File
      <3>3. o.base = actor.base /\ o.doc = actor.cand
        BY Zenon
      <3>. HIDE DEF o
      <3>4. \A q \in Overlays' : q \in Overlays \/ q = o
        BY <3>2, Zenon DEF Overlays
      <3>5. \A d \in Kept' : d \in Kept \/ d = actor.cand \/ d = actor.base
        BY <2>1, <3>1, <3>3, <3>4, Zenon DEF Kept, Saving
      <3>6. FreshOverlay(o) /\ Fresh(actor.cand) /\ Fresh(actor.base)
        BY <2>4, <3>3, Zenon DEF FreshOverlay, Fresh
      <3>. QED BY <2>3, <3>4, <3>5, <3>6, Zenon DEF StillStep
    <2>. QED BY <2>5, <2>6, Zenon
  <1>7. CASE SyncStaged
    <2>1. /\ actor' = [actor EXCEPT !.pc = "install"] /\ state' = Synced(state)
          /\ overlay' = Synced(overlay)
          /\ UNCHANGED <<mem, planSeq, previous, failed, nextCommand, driver, snap>>
      BY <1>7, Zenon DEF SyncStaged, sessionVars, driverVars, answerVars
    <2>2. /\ actor'.pc = "install" /\ actor'.command = actor.command /\ actor'.base = actor.base
          /\ actor'.cand = actor.cand
      BY <1>2, <2>1, Zenon DEF ActorType
    <2>3. PlanStill /\ ActorStill
      BY <1>1, <2>1, <2>2, Zenon DEF PlanStill, ActorStill, Busy, Version
    <2>. QED BY <2>1, <2>3, FilesSynced, SubsetStill, Zenon DEF Saving, Inv
  <1>8. CASE \/ (ReserveEvents \/ StageOverlay) /\ ~PlanMatches
             \/ StageBundle /\ ~BaseMatches
             \/ FailWrite
             \/ FailSync
    <2>1. Refuse /\ UNCHANGED fileVars
      BY <1>8, Zenon DEF ReserveEvents, StageOverlay, StageBundle, FailWrite, FailSync
    <2>. QED BY <1>3, <2>1, Zenon
  <1>. QED BY <1>4, <1>5, <1>6, <1>7, <1>8, Zenon

LEMMA InstallStepFrame ==
    ASSUME Inv, InstallPlanOnly \/ InstallTool
    PROVE  StillStep \/ RefusedStep \/ InstalledStep
  <1>1. Busy
    BY Zenon DEF Busy, InstallPlanOnly, InstallTool
  <1>2. CASE UNCHANGED fileVars /\ Refuse
    BY <1>1, <1>2, RefuseFrame, Zenon
  <1>3. CASE UNCHANGED fileVars /\ \E seq, still : Install(seq, still)
    BY <1>1, <1>3, InstallFrame, Zenon
  <1>4. CASE /\ actor' = [actor EXCEPT !.pc = "stage"]
             /\ UNCHANGED <<sessionVars, driverVars, nextCommand, answerVars, fileVars>>
    <2>1. UNCHANGED <<mem, planSeq, previous, failed, nextCommand, state, overlay, driver, snap>>
      BY <1>4, Zenon DEF sessionVars, driverVars, answerVars, fileVars
    <2>2. /\ actor'.pc = "stage" /\ actor'.command = actor.command /\ actor'.base = actor.base
          /\ actor'.cand = actor.cand
      BY <1>4, Zenon DEF Inv, TypeOK
    <2>3. PlanStill /\ ActorStill
      BY <1>1, <2>1, <2>2, Zenon DEF PlanStill, ActorStill, Busy, Version
    <2>. QED BY <2>1, <2>3, FilesStill, SubsetStill, Zenon DEF Saving
  <1>. QED BY <1>2, <1>3, <1>4, Zenon DEF InstallPlanOnly, InstallTool

LEMMA RefuseToolFrame ==
    ASSUME RefuseTool
    PROVE  RefusedStep
  <1>1. /\ UNCHANGED <<mem, planSeq, previous, actor, state, overlay, snap>> /\ ~Busy
        /\ failed' = failed \cup {nextCommand} /\ nextCommand' = nextCommand + 1 /\ ~Saving'
    BY Zenon DEF RefuseTool, sessionVars, fileVars, Busy, Saving
  <1>. QED BY <1>1, FilesStill, Zenon DEF RefusedStep, Busy

LEMMA StutterFrame ==
    ASSUME UNCHANGED vars
    PROVE  StillStep
  <1>1. UNCHANGED <<mem, planSeq, previous, failed, nextCommand, actor, state, overlay, driver, snap>>
    BY Zenon DEF vars, sessionVars, driverVars, actorVars, fileVars, answerVars
  <1>2. PlanStill /\ ActorStill
    BY <1>1, Zenon DEF PlanStill, ActorStill, Busy, Version
  <1>. QED BY <1>1, <1>2, FilesStill, SubsetStill, Zenon DEF Saving

\* Only a crash is counted as one.
LEMMA CrashesOnly ==
    ASSUME [Next]_vars, ~CrashAndResume
    PROVE  crashes' = crashes
  BY Zenon DEF Next, vars, boundVars, PreparePlanOnly, ReserveEvents, StageOverlay, InstallPlanOnly,
     PrepareTool, RefuseTool, StageBundle, InstallTool, RenameStaged, SyncStaged, FailWrite,
     FailSync, RecordEvent, RequestTools, ResolveCall, Record, DropCall, TakeSavepoint,
     RenameSavepoint, SyncSavepoint, FailSavepoint

\* In the process that created the session every step keeps the chain.
LEMMA ChainStep ==
    ASSUME Inv, crashes = 0 => ChainInv, [Next]_vars, crashes' = 0
    PROVE  ChainInv'
  <1>1. crashes = 0 /\ ~CrashAndResume
    <2>1. crashes \in Nat
      BY ConstantsAssumption DEF Inv, TypeOK
    <2>2. ~CrashAndResume
      BY <2>1 DEF CrashAndResume
    <2>. QED BY <2>2, CrashesOnly, Zenon
  <1>2. TypeOK' /\ ChainInv
    BY <1>1, NextInv, Zenon DEF Inv
  <1>3. CandInv /\ mem.id < planSeq
    BY <1>2, Zenon DEF ChainInv, PlanInv
  <1>4. StillStep \/ RefusedStep \/ InstalledStep \/ PreparedStep
    BY <1>1, <1>3, DriverFrame, WriteFrame, InstallStepFrame, RefuseToolFrame, PrepareFrame,
       StutterFrame, Zenon DEF Next
  <1>. QED BY <1>2, <1>4, StillChain, RefusedChain, InstalledChain, PreparedChain, Zenon

\* When load_from prefers the overlay to the plan in state.json.
Applies(s, o) ==
    /\ Version(s) = Version(o.base) \/ (s.id = o.doc.id /\ s.rev = o.doc.rev)
    /\ ~(s.id = o.doc.id /\ s.rev > o.doc.rev)

LEMMA LoadCases ==
    ASSUME NEW s \in Session \cup {None}, NEW o \in Overlay \cup {None}
    PROVE  /\ o = None => LoadFrom(s, o).ops = StateOps(s)
           /\ s = None /\ o # None => LoadFrom(s, o).ops = o.doc.ops
           /\ s # None /\ o # None /\ s.id # 0 =>
                LoadFrom(s, o).ops = IF Applies(s, o) THEN o.doc.ops ELSE s.ops
           /\ s # None /\ o # None /\ s.id = 0 =>
                LoadFrom(s, o).ops =
                    IF Version(s) = Version(o.base) THEN o.doc.ops ELSE s.ops
  <1>1. /\ EmptySession \in Session /\ EmptySession.id = 0 /\ EmptySession.ops = {}
    BY Zenon DEF EmptySession, Session
  <1>2. CASE o = None
    BY <1>1, <1>2, Zenon DEF LoadFrom, StateOps
  <1>3. CASE o # None
    <2>. DEFINE load(t) == [o.doc EXCEPT !.seq = Larger(t.seq, @)]
    <2>1. o.doc \in Session
      BY <1>3, Zenon DEF Overlay
    <2>2. \A t : load(t).ops = o.doc.ops
      BY <2>1, Zenon DEF Session
    <2>. HIDE DEF load
    <2>3. CASE s = None
      <3>1. LoadFrom(s, o) = load(EmptySession)
        BY <1>1, <1>3, <2>3, Zenon DEF LoadFrom, ApplyPlanOverlay, load
      <3>. QED BY <1>3, <2>2, <2>3, <3>1, Zenon
    <2>4. CASE s # None
      <3>1. s \in Session /\ s.rev \in Nat /\ o.doc.rev \in Nat
        BY <2>1, <2>4, Zenon DEF Session
      <3>2. LoadFrom(s, o) = ApplyPlanOverlay(s, o, FALSE)
        BY <1>3, <2>4, Zenon DEF LoadFrom
      <3>3. s.id # 0 => LoadFrom(s, o) = IF Applies(s, o) THEN load(s) ELSE s
        BY <3>1, <3>2 DEF ApplyPlanOverlay, Applies, load
      <3>4. s.id = 0 =>
              LoadFrom(s, o) = IF Version(s) = Version(o.base) THEN load(s) ELSE s
        BY <3>1, <3>2, Zenon DEF ApplyPlanOverlay, load
      <3>. QED BY <1>3, <2>2, <2>4, <3>3, <3>4, Zenon
    <2>. QED BY <2>3, <2>4, Zenon
  <1>. QED BY <1>2, <1>3, Zenon

\* A clean document in a file is a member of the chain or the candidate.
LEMMA CleanDocument ==
    ASSUME TypeOK, CommandInv, ChainInv, NEW d \in Kept, d.ops \cap failed = {}
    PROVE  /\ d \in Session /\ Version(d) \in Versions
           /\ \/ Past(d) /\ d.ops \subseteq mem.ops /\ AtMost(Version(d), Version(mem))
              \/ Coming(d) /\ ~AtMost(Version(d), Version(mem))
  <1>1. d \in Session /\ Version(d) \in Versions
    BY KeptType, VersionType, Zenon
  <1>2. Past(d) \/ Coming(d)
    BY Zenon DEF ChainInv, KeptInv
  <1>3. CASE Past(d)
    <2>1. d.ops \subseteq mem.ops
      BY <1>3, Zenon DEF Past
    <2>. QED BY <1>1, <1>3, <2>1, PastFacts, Zenon
  <1>4. CASE Coming(d)
    BY <1>1, <1>4, PastFacts, Zenon
  <1>. QED BY <1>2, <1>3, <1>4, Zenon

\* An overlay that applies holds what the plan in state.json holds.
LEMMA AppliedHoldsState ==
    ASSUME TypeOK, CommandInv, ChainInv, NEW s \in Kept, NEW o \in Overlays,
           s.ops \cap failed = {}, o.doc.ops \cap failed = {},
           Version(s) = Version(o.base) \/ (s.id = o.doc.id /\ s.rev = o.doc.rev)
    PROVE  s.ops \subseteq o.doc.ops
  <1>1. o.base \in Kept /\ o.doc \in Kept
    BY Zenon DEF Kept
  <1>2. o.base.ops \subseteq mem.ops /\ o.base.ops \subseteq o.doc.ops
    BY Zenon DEF ChainInv, OverlayInv
  <1>3. Version(mem) \in Versions
    BY KeptType, VersionType, Zenon
  <1>4. CASE Version(s) = Version(o.base)
    <2>1. AtMost(Version(o.base), Version(mem))
      BY <1>1, <1>2, PastFacts, Zenon
    <2>2. s.ops \subseteq mem.ops /\ Version(s) \in Versions
      BY <1>4, <2>1, CleanDocument, Zenon
    <2>3. AtMost(Version(s), Version(o.base))
      BY <1>4, <2>2, KeyOrder, Zenon
    <2>. QED BY <1>1, <1>2, <2>2, <2>3, Zenon DEF ChainInv, OrderInv
  <1>5. CASE s.id = o.doc.id /\ s.rev = o.doc.rev
    <2>1. Version(s) \in Versions /\ Version(o.doc) \in Versions
      BY <1>1, CleanDocument, Zenon
    <2>2. SameKey(Version(s), Version(o.doc))
      BY <1>5, Zenon DEF SameKey, Version
    <2>3. /\ AtMost(Version(s), Version(o.doc)) /\ AtMost(Version(o.doc), Version(s))
          /\ AtMost(Version(s), Version(mem)) <=> AtMost(Version(o.doc), Version(mem))
      BY <1>3, <2>1, <2>2, KeyOrder, Zenon
    <2>4. CASE AtMost(Version(s), Version(mem))
      <3>1. s.ops \subseteq mem.ops
        BY <2>4, CleanDocument, Zenon
      <3>2. o.doc.ops \subseteq mem.ops
        BY <1>1, <2>3, <2>4, CleanDocument, Zenon
      <3>. QED BY <1>1, <2>3, <3>1, <3>2, Zenon DEF ChainInv, OrderInv
    <2>5. CASE ~AtMost(Version(s), Version(mem))
      <3>1. Coming(s)
        BY <2>5, CleanDocument, Zenon
      <3>2. Coming(o.doc)
        BY <1>1, <2>3, <2>5, CleanDocument, Zenon
      <3>. QED BY <3>1, <3>2, Zenon DEF Coming
    <2>. QED BY <2>4, <2>5, Zenon
  <1>. QED BY <1>4, <1>5, Zenon

\* A recent savepoint that the overlay does not apply to holds what the
\* overlay holds of the plan in memory.
LEMMA UnappliedIsHeld ==
    ASSUME TypeOK, CommandInv, ChainInv, NEW s \in Kept, NEW o \in Overlays,
           s.ops \cap failed = {}, o.doc.ops \cap failed = {},
           \/ Version(s) = Version(mem)
           \/ Version(s) = previous /\ o.doc.ops \subseteq mem.ops,
           \/ Version(s) # Version(o.base)
           \/ s.id = o.doc.id /\ s.rev > o.doc.rev
    PROVE  mem.ops \subseteq s.ops \/ o.doc.ops \subseteq s.ops
  <1>1. o.doc \in Kept
    BY Zenon DEF Kept
  <1>2. /\ Version(mem) \in Versions /\ previous \in Versions /\ Version(s) \in Versions
        /\ Version(o.doc) \in Versions /\ AtMost(previous, Version(mem))
    BY <1>1, KeptType, VersionType, Zenon DEF ChainInv, PlanInv
  <1>3. CASE Version(s) = Version(mem)
    <2>1. AtMost(Version(s), Version(mem)) /\ SameKey(Version(s), Version(mem))
      BY <1>2, <1>3, KeyOrder, Zenon DEF SameKey
    <2>2. Past(s)
      BY <2>1, CleanDocument, Zenon
    <2>. QED BY <2>1, <2>2, Zenon DEF Past
  <1>4. CASE Version(s) = previous /\ o.doc.ops \subseteq mem.ops
    <2>1. Past(o.doc) /\ ~Coming(o.doc)
      BY <1>1, <1>4, PastFacts, Zenon
    <2>2. s.ops \subseteq mem.ops
      BY <1>2, <1>4, CleanDocument, Zenon
    <2>3. CASE SameKey(Version(o.doc), Version(mem))
      <3>1. Version(o.base) = previous
        BY <2>1, <2>3, Zenon DEF ChainInv, OverlayInv, Fits
      <3>2. s.id = o.doc.id /\ s.rev > o.doc.rev
        BY <1>4, <3>1, Zenon
      <3>3. s.id \in Nat /\ s.rev \in Nat /\ o.doc.rev \in Nat
        BY <1>1, CleanDocument, Zenon DEF Session
      <3>4. ~AtMost(Version(s), Version(o.doc))
        <4>1. AtMost(Version(s), Version(o.doc)) <=>
                s.id < o.doc.id \/ (s.id = o.doc.id /\ s.rev <= o.doc.rev)
          BY VersionKeys, Zenon
        <4>. QED BY <3>2, <3>3, <4>1
      <3>. QED BY <1>2, <1>4, <2>3, <3>4, KeyOrder, Zenon
    <2>4. CASE ~SameKey(Version(o.doc), Version(mem))
      <3>1. AtMost(Version(o.doc), Version(s))
        BY <1>4, <2>1, <2>4, Zenon DEF Past
      <3>. QED BY <1>1, <1>4, <2>2, <3>1, Zenon DEF ChainInv, OrderInv
    <2>. QED BY <2>3, <2>4, Zenon
  <1>. QED BY <1>3, <1>4, Zenon

LEMMA ChainRecovers ==
    ASSUME Inv, crashes = 0 => ChainInv
    PROVE  RecentSavepointRecovers
  <1> SUFFICES ASSUME ChainInv, SavepointIsRecent,
                      (OverlayOps \cup OpsOn({state.cur, state.syn})) \cap failed = {},
                      NEW s \in {state.cur, state.syn}, NEW o \in {overlay.cur, overlay.syn}
               PROVE  acked \subseteq LoadFrom(s, o).ops
    BY Zenon DEF RecentSavepointRecovers, Remains
  <1>1. /\ TypeOK /\ CommandInv /\ acked \subseteq mem.ops
        /\ s \in Session \cup {None} /\ o \in Overlay \cup {None}
        /\ acked \subseteq StateOps(s) \/ acked \subseteq OverlayDocOps(o)
    BY Zenon DEF Inv, TypeOK, File, DurableInv, InState, InOverlay
  <1>2. s # None => /\ s \in Kept /\ s.ops \cap failed = {}
                    /\ \/ Version(s) = Version(mem)
                       \/ Version(s) = previous /\ OverlayOps \subseteq mem.ops
    BY Zenon DEF Kept, OpsOn, SavepointIsRecent
  <1>3. o # None => /\ o \in Overlays /\ o.doc.ops \cap failed = {}
                    /\ o.doc.ops \subseteq OverlayOps
    <2> SUFFICES ASSUME o # None PROVE o \in Overlays /\ o.doc.ops \subseteq OverlayOps
      BY Zenon
    <2>1. o.doc \in Session
      BY <1>1, Zenon DEF Overlay
    <2>. QED BY <2>1, NoneAssumption, Zenon DEF Overlays, OverlayOps, OpsOn
  <1>4. CASE o = None
    BY <1>1, <1>4, LoadCases DEF OverlayDocOps
  <1>5. CASE s = None /\ o # None
    BY <1>1, <1>5, LoadCases, Zenon DEF StateOps, OverlayDocOps
  <1>6. CASE s # None /\ o # None
    <2>1. acked \subseteq s.ops \/ acked \subseteq o.doc.ops
      BY <1>1, <1>6, Zenon DEF StateOps, OverlayDocOps
    <2>2. CASE LoadFrom(s, o).ops = o.doc.ops /\
               (Version(s) = Version(o.base) \/ (s.id = o.doc.id /\ s.rev = o.doc.rev))
      BY <1>1, <1>2, <1>3, <1>6, <2>1, <2>2, AppliedHoldsState, Zenon
    <2>3. CASE LoadFrom(s, o).ops = s.ops /\
               (Version(s) # Version(o.base) \/ (s.id = o.doc.id /\ s.rev > o.doc.rev))
      <3>1. mem.ops \subseteq s.ops \/ o.doc.ops \subseteq s.ops
        BY <1>1, <1>2, <1>3, <1>6, <2>3, UnappliedIsHeld, Zenon
      <3>. QED BY <1>1, <2>1, <2>3, <3>1, Zenon
    <2>. QED BY <1>1, <1>6, <2>2, <2>3, LoadCases, Zenon DEF Applies
  <1>. QED BY <1>4, <1>5, <1>6, Zenon

LEMMA InitChain == Init => ChainInv
  <1> SUFFICES ASSUME Init PROVE ChainInv
    OBVIOUS
  <1>1. ~Busy /\ ~Saving /\ Overlays = {} /\ Issued = {}
    <2>1. ~Busy
      BY Zenon DEF Init, Busy, Idle
    <2>2. ~Saving /\ Overlays = {}
      BY Zenon DEF Init, Saving, Overlays, NoFile
    <2>3. Issued = {}
      BY <2>1 DEF Init, Issued
    <2>. QED BY <2>1, <2>2, <2>3, Zenon
  <1>2. Kept = {}
    BY <1>1, Zenon DEF Kept, Init, NoFile
  <1>3. mem.id = 0 /\ planSeq = 1 /\ mem.ops = {} /\ failed = {} /\ previous = Version(mem)
    BY Zenon DEF Init, EmptySession
  <1>4. AtMost(previous, Version(mem))
    BY <1>3 DEF AtMost, Version, Init, EmptySession
  <1>5. PlanInv /\ CandInv /\ KeptInv
    <2>1. PlanInv
      <3>1. mem.id < planSeq
        BY <1>3
      <3>2. mem.ops \cup failed \subseteq Issued /\ mem.ops \cap failed = {}
        BY <1>3, Zenon
      <3>. QED BY <1>4, <3>1, <3>2, Zenon DEF PlanInv
    <2>2. CandInv /\ KeptInv
      BY <1>1, <1>2, Zenon DEF CandInv, KeptInv
    <2>. QED BY <2>1, <2>2, Zenon
  <1>6. OrderInv /\ OverlayInv
    BY <1>1, <1>2, <1>3, <1>4, Zenon DEF OrderInv, OverlayInv
  <1>. QED BY <1>1, <1>2, <1>3, <1>4, <1>5, <1>6, Zenon DEF ChainInv

LEMMA ChainInvariance == Spec => [](Inv /\ (crashes = 0 => ChainInv))
  <1>1. Init => Inv /\ (crashes = 0 => ChainInv)
    BY InitInv, InitChain, Zenon
  <1>2. Inv /\ (crashes = 0 => ChainInv) /\ [Next]_vars => (Inv /\ (crashes = 0 => ChainInv))'
    BY NextInv, ChainStep, Zenon
  <1>. QED BY <1>1, <1>2, PTL DEF Spec

\* In the process that created the session a restart recovers every command
\* that was acknowledged, whatever a crash leaves of the two files, if the
\* last savepoint is at most one change of the plan behind and no command
\* that failed has left its plan in a file (apply_plan_overlay,
\* commit_plan_only, persist_resume_safe_savepoint_if_configured).
THEOREM RestartRecovers == Spec => []RecentSavepointRecovers
  <1>1. Inv /\ (crashes = 0 => ChainInv) => RecentSavepointRecovers
    BY ChainRecovers, Zenon
  <1>. QED BY <1>1, ChainInvariance, PTL

----------------------------------------------------------------------------
(***************************************************************************)
(* The sequences in the session documents on disk.  A Tool command that    *)
(* failed has counted its two events in a document that stays in           *)
(* state.json; the number a PlanOnly command reserves before it writes     *)
(* makes up for the difference while the versions still tell such a        *)
(* document from a savepoint.                                              *)
(***************************************************************************)
\* The PlanOnly command in progress has taken its event number.
Numbered == Busy /\ actor.pc # "reserve" /\ ~actor.tool

Ahead(s) == IF AtMost(Version(s), Version(mem)) THEN IF Numbered THEN 0 ELSE 1
                                                ELSE IF Numbered THEN 1 ELSE 2

Saved == {state.cur, state.syn} \ {None}

SeqInv ==
    /\ mem.seq >= 1 /\ (Saving => snap.seq <= mem.seq)
    /\ \A s \in Saved : s.seq <= mem.seq + Ahead(s)
    /\ actor.pc \in {"sync", "install"} /\ ~actor.tool =>
         overlay.cur = [base |-> actor.base, doc |-> actor.cand]

\* The session's sequence grows, and makes up for what a step changes in how
\* far a document may be ahead of it.
Overtakes ==
    /\ mem'.seq >= mem.seq
    /\ \A s \in Session : mem.seq + Ahead(s) <= mem'.seq + Ahead(s)'

LEMMA AheadValues ==
    ASSUME NEW s
    PROVE  /\ Ahead(s) \in {0, 1, 2} /\ Ahead(s)' \in {0, 1, 2}
           /\ ~Numbered => Ahead(s) >= 1
           /\ ~Numbered' => Ahead(s)' >= 1
  BY DEF Ahead

\* The version stays and no number is taken.
LEMMA OvertakesStill ==
    ASSUME TypeOK, TypeOK', mem'.seq >= mem.seq, Version(mem)' = Version(mem),
           Numbered' => Numbered
    PROVE  Overtakes
  <1>1. mem.seq \in Nat /\ mem'.seq \in Nat
    BY Zenon DEF TypeOK, Session
  <1>2. ASSUME NEW s \in Session PROVE Ahead(s) <= Ahead(s)'
    BY DEF Ahead
  <1>. QED BY <1>1, <1>2, AheadValues DEF Overtakes

\* A number is taken.
LEMMA OvertakesNumber ==
    ASSUME TypeOK, mem'.seq = mem.seq + 1, Version(mem)' = Version(mem)
    PROVE  Overtakes
  <1>1. mem.seq \in Nat
    BY Zenon DEF TypeOK, Session
  <1>2. \A s \in Session : Ahead(s) <= 1 + Ahead(s)'
    BY DEF Ahead, Version
  <1>. QED BY <1>1, <1>2, AheadValues DEF Overtakes

\* A plan is installed: by a PlanOnly command at the sequence that is
\* reserved, by a Tool command together with its two events.
LEMMA OvertakesInstall ==
    ASSUME TypeOK, ~Numbered',
           \/ Numbered /\ mem'.seq = mem.seq
           \/ mem'.seq = mem.seq + 2
    PROVE  Overtakes
  <1>1. mem.seq \in Nat
    BY Zenon DEF TypeOK, Session
  <1>2. \A s \in Session : Numbered => Ahead(s) <= 1
    BY DEF Ahead
  <1>. QED BY <1>1, <1>2, AheadValues DEF Overtakes

\* What a step must show for the sequences.
LEMMA SeqKept ==
    ASSUME TypeOK, TypeOK', SeqInv, Overtakes,
           Saving' => snap' = mem \/ (Saving /\ snap' = snap),
           \A s \in Saved' : s \in Saved \/ s.seq <= mem'.seq + Ahead(s)',
           actor'.pc \in {"sync", "install"} /\ ~actor'.tool =>
               overlay'.cur = [base |-> actor'.base, doc |-> actor'.cand]
    PROVE  SeqInv'
  <1>1. mem.seq \in Nat /\ mem'.seq \in Nat /\ snap.seq \in Nat
    BY Zenon DEF TypeOK, Session
  <1>2. Saved \subseteq Session /\ \A s \in Session : s.seq \in Nat
    BY Zenon DEF TypeOK, File, Saved, Session
  <1>3. mem'.seq >= 1 /\ (Saving' => snap'.seq <= mem'.seq)
    <2>1. mem.seq >= 1 /\ mem'.seq >= mem.seq /\ (Saving => snap.seq <= mem.seq)
      BY Zenon DEF SeqInv, Overtakes
    <2>. QED BY <1>1, <2>1
  <1>4. \A s \in Saved' : s.seq <= mem'.seq + Ahead(s)'
    <2> SUFFICES ASSUME NEW s \in Saved PROVE s.seq <= mem'.seq + Ahead(s)'
      BY Zenon
    <2>1. s.seq <= mem.seq + Ahead(s) /\ mem.seq + Ahead(s) <= mem'.seq + Ahead(s)'
      BY <1>2, Zenon DEF SeqInv, Overtakes
    <2>2. Ahead(s) \in Nat /\ Ahead(s)' \in Nat
      BY AheadValues
    <2>3. s.seq \in Nat
      BY <1>2, Zenon
    <2>. QED BY <1>1, <2>1, <2>2, <2>3
  <1>. QED BY <1>3, <1>4, Zenon DEF SeqInv

LEMMA SeqDriver ==
    ASSUME Inv, TypeOK', SeqInv,
           \/ RecordEvent \/ RequestTools \/ ResolveCall \/ DropCall
           \/ TakeSavepoint \/ RenameSavepoint \/ SyncSavepoint \/ FailSavepoint
    PROVE  SeqInv'
  <1>1. /\ actor' = actor
        /\ mem' = mem \/ \E n \in Nat : mem' = [mem EXCEPT !.seq = @ + n]
    BY Zenon DEF RecordEvent, RequestTools, ResolveCall, DropCall, TakeSavepoint, RenameSavepoint,
       SyncSavepoint, FailSavepoint, Record, sessionVars, actorVars
  <1>2. TypeOK /\ mem \in Session
    BY Zenon DEF Inv, TypeOK
  <1>3. mem'.seq >= mem.seq /\ Version(mem)' = Version(mem)
    BY <1>1, <1>2 DEF Session, Version
  <1>4. Numbered' <=> Numbered
    BY <1>1, Zenon DEF Numbered, Busy
  <1>5. Overtakes
    BY <1>2, <1>3, <1>4, OvertakesStill, Zenon
  <1>6. Saving' => snap' = mem \/ (Saving /\ snap' = snap)
    BY Zenon DEF RecordEvent, RequestTools, ResolveCall, DropCall, TakeSavepoint, RenameSavepoint,
       SyncSavepoint, FailSavepoint, Record, Saving, driverVars
  <1>7. overlay'.cur = overlay.cur
    BY <1>2, Zenon DEF RecordEvent, RequestTools, ResolveCall, DropCall, TakeSavepoint, RenameSavepoint,
       SyncSavepoint, FailSavepoint, Record, fileVars, Synced, TypeOK, File
  <1>8. \A s \in Saved' : s \in Saved \/ s.seq <= mem'.seq + Ahead(s)'
    <2>1. CASE RenameSavepoint
      <3>1. state' = [state EXCEPT !.cur = snap] /\ Saving
        BY <2>1, Zenon DEF RenameSavepoint, Saving
      <3>2. state'.cur = snap /\ state'.syn = state.syn
        BY <1>2, <3>1, Zenon DEF TypeOK, File
      <3>3. snap.seq <= mem.seq /\ snap.seq \in Nat /\ mem.seq \in Nat /\ mem'.seq \in Nat
        BY <3>1, Zenon DEF SeqInv, Inv, TypeOK, Session
      <3>4. \A s : s = snap => s.seq <= mem'.seq + Ahead(s)'
        BY <1>3, <3>3, AheadValues
      <3>. QED BY <3>2, <3>4, Zenon DEF Saved
    <2>2. CASE SyncSavepoint
      <3>1. state'.cur = state.cur /\ state'.syn = state.cur
        BY <1>2, <2>2, Zenon DEF SyncSavepoint, Synced, TypeOK, File
      <3>. QED BY <3>1, Zenon DEF Saved
    <2>3. CASE state' = state
      BY <2>3, Zenon DEF Saved
    <2>. QED BY <2>1, <2>2, <2>3, Zenon DEF RecordEvent, RequestTools, ResolveCall, DropCall,
         TakeSavepoint, FailSavepoint, Record, fileVars
  <1>. QED BY <1>1, <1>2, <1>5, <1>6, <1>7, <1>8, SeqKept, Zenon DEF SeqInv

\* A step that leaves the files and the driver's bundle alone.
LEMMA SeqOnly ==
    ASSUME Inv, TypeOK', SeqInv, Overtakes, UNCHANGED <<state, overlay>>,
           Saving' => Saving /\ snap' = snap,
           \/ actor'.pc \notin {"sync", "install"} \/ actor'.tool
           \/ actor' = actor
    PROVE  SeqInv'
  <1>1. \A s \in Saved' : s \in Saved
    BY Zenon DEF Saved
  <1>2. actor'.pc \in {"sync", "install"} /\ ~actor'.tool =>
               overlay'.cur = [base |-> actor'.base, doc |-> actor'.cand]
    BY Zenon DEF SeqInv
  <1>. QED BY <1>1, <1>2, SeqKept, Zenon DEF Inv

LEMMA SeqRefuse ==
    ASSUME Inv, TypeOK', SeqInv, Refuse, UNCHANGED fileVars
    PROVE  SeqInv'
  <1>1. UNCHANGED <<mem, snap, state, overlay>> /\ actor' = Idle /\ (Saving' => Saving)
    BY Zenon DEF Refuse, Answer, sessionVars, fileVars, Saving
  <1>2. actor'.pc = "idle" /\ ~Numbered'
    BY <1>1, Zenon DEF Idle, Numbered, Busy
  <1>3. mem'.seq >= mem.seq /\ Version(mem)' = Version(mem)
    BY <1>1, MemoryStays, Zenon DEF Inv
  <1>4. Overtakes
    BY <1>2, <1>3, OvertakesStill, Zenon DEF Inv
  <1>. QED BY <1>1, <1>2, <1>4, SeqOnly, Zenon

LEMMA SeqInstall ==
    ASSUME Inv, TypeOK', SeqInv, UNCHANGED fileVars, NEW seq, NEW still, Install(seq, still),
           (Numbered /\ seq = mem.seq) \/ seq = mem.seq + 2
    PROVE  SeqInv'
  <1>1. /\ mem' = [actor.cand EXCEPT !.seq = seq] /\ UNCHANGED <<snap, state, overlay>>
        /\ actor' = Idle /\ (Saving' => Saving)
    BY Zenon DEF Install, Answer, fileVars, Saving
  <1>2. actor'.pc = "idle" /\ ~Numbered'
    BY <1>1, Zenon DEF Idle, Numbered, Busy
  <1>3. mem'.seq = seq
    <2>1. actor.cand \in Session
      BY Zenon DEF Inv, TypeOK
    <2>. QED BY <1>1, <2>1, Zenon DEF Session
  <1>4. Overtakes
    BY <1>2, <1>3, OvertakesInstall, Zenon DEF Inv
  <1>. QED BY <1>1, <1>2, <1>4, SeqOnly, Zenon

LEMMA SeqPrepare ==
    ASSUME Inv, TypeOK', SeqInv, PreparePlanOnly \/ PrepareTool \/ RefuseTool
    PROVE  SeqInv'
  <1>1. /\ UNCHANGED <<mem, snap, state, overlay>> /\ (Saving' => Saving)
    BY Zenon DEF PreparePlanOnly, PrepareTool, RefuseTool, sessionVars, fileVars, driverVars, Saving
  <1>2. mem'.seq >= mem.seq /\ Version(mem)' = Version(mem)
    BY <1>1, MemoryStays, Zenon DEF Inv
  <1>3. actor' = actor \/ actor'.pc = "reserve" \/ actor'.tool
    <2>1. CASE PreparePlanOnly
      <3>1. PICK cand : actor' = [Idle EXCEPT !.pc = "reserve", !.command = nextCommand,
                                     !.base = mem, !.cand = cand]
        BY <2>1, Zenon DEF PreparePlanOnly
      <3>2. actor' = [pc |-> "reserve", tool |-> FALSE, persist |-> FALSE,
                      command |-> nextCommand, base |-> mem, cand |-> cand, events |-> {}]
        BY <3>1, Zenon DEF Idle
      <3>. QED BY <3>2, Zenon
    <2>2. CASE PrepareTool
      <3>1. PICK cand : actor' = [Idle EXCEPT
                 !.pc = IF batchActive THEN "install" ELSE "stage",
                 !.tool = TRUE, !.persist = ~batchActive,
                 !.command = nextCommand, !.base = mem,
                 !.cand = [cand EXCEPT !.seq = @ + 2],
                 !.events = {mem.seq, mem.seq + 1}]
        BY <2>2, Zenon DEF PrepareTool
      <3>2. actor'.tool = TRUE
        BY <3>1, Zenon DEF Idle
      <3>. QED BY <3>2, Zenon
    <2>3. CASE RefuseTool
      BY <2>3, Zenon DEF RefuseTool
    <2>. QED BY <2>1, <2>2, <2>3, Zenon
  <1>4. Numbered' => Numbered
    BY <1>3, Zenon DEF Numbered, Busy
  <1>5. Overtakes
    BY <1>2, <1>4, OvertakesStill, Zenon DEF Inv
  <1>6. \/ actor'.pc \notin {"sync", "install"} \/ actor'.tool \/ actor' = actor
    BY <1>3, Zenon
  <1>. QED BY <1>1, <1>5, <1>6, SeqOnly, Zenon

LEMMA SeqWrite ==
    ASSUME Inv, CandInv, TypeOK', SeqInv,
           \/ ReserveEvents \/ StageOverlay \/ StageBundle \/ RenameStaged \/ SyncStaged
           \/ FailWrite \/ FailSync
    PROVE  SeqInv'
  <1>1. actor \in ActorType /\ mem \in Session /\ TypeOK
    BY Zenon DEF Inv, TypeOK, ActorType
  <1>2. CASE \/ (ReserveEvents \/ StageOverlay) /\ ~PlanMatches
             \/ StageBundle /\ ~BaseMatches
             \/ FailWrite
             \/ FailSync
    <2>1. Refuse /\ UNCHANGED fileVars
      BY <1>2, Zenon DEF ReserveEvents, StageOverlay, StageBundle, FailWrite, FailSync
    <2>. QED BY <2>1, SeqRefuse, Zenon
  <1>3. CASE ReserveEvents /\ PlanMatches
    <2>1. /\ mem' = [mem EXCEPT !.seq = @ + 1]
          /\ actor' = [actor EXCEPT !.pc = "stage", !.events = {mem.seq}]
          /\ UNCHANGED <<state, overlay, driver, snap>>
      BY <1>3, Zenon DEF ReserveEvents, driverVars, fileVars
    <2>2. mem'.seq = mem.seq + 1 /\ Version(mem)' = Version(mem)
      BY <1>1, <2>1, Zenon DEF Session, Version
    <2>3. actor'.pc = "stage"
      BY <1>1, <2>1, Zenon DEF ActorType
    <2>. QED BY <1>1, <2>1, <2>2, <2>3, OvertakesNumber, SeqOnly, Zenon DEF Saving
  <1>4. CASE (StageOverlay /\ PlanMatches) \/ (StageBundle /\ BaseMatches)
    <2>1. /\ \/ actor' = [actor EXCEPT !.pc = "rename", !.cand.seq = mem.seq]
             \/ actor' = [actor EXCEPT !.pc = "rename"]
          /\ actor.pc = "stage" /\ UNCHANGED <<mem, state, overlay, driver, snap>>
      BY <1>4, Zenon DEF StageOverlay, StageBundle, sessionVars, driverVars, fileVars
    <2>2. actor'.pc = "rename" /\ actor'.tool = actor.tool
      BY <1>1, <2>1, Zenon DEF ActorType
    <2>3. Numbered' => Numbered
      BY <2>1, <2>2, Zenon DEF Numbered, Busy
    <2>4. mem'.seq >= mem.seq /\ Version(mem)' = Version(mem)
      BY <1>1, <2>1 DEF Session
    <2>5. Overtakes
      BY <1>1, <2>3, <2>4, OvertakesStill, Zenon
    <2>. QED BY <2>1, <2>2, <2>5, SeqOnly, Zenon DEF Saving
  <1>5. CASE RenameStaged
    <2>1. /\ actor' = [actor EXCEPT !.pc = "sync"] /\ actor.pc = "rename"
          /\ UNCHANGED <<mem, driver, snap>>
      BY <1>5, Zenon DEF RenameStaged, sessionVars, driverVars
    <2>2. /\ actor'.pc = "sync" /\ actor'.tool = actor.tool /\ actor'.base = actor.base
          /\ actor'.cand = actor.cand
      BY <1>1, <2>1, Zenon DEF ActorType
    <2>3. Numbered' <=> Numbered
      BY <2>1, <2>2, Zenon DEF Numbered, Busy
    <2>4. mem'.seq >= mem.seq /\ Version(mem)' = Version(mem)
      BY <1>1, <2>1 DEF Session
    <2>5. Overtakes
      BY <1>1, <2>3, <2>4, OvertakesStill, Zenon
    <2>6. CASE actor.tool
      <3>1. state' = [state EXCEPT !.cur = actor.cand] /\ ~Numbered'
        BY <1>5, <2>3, <2>6, Zenon DEF RenameStaged, Numbered
      <3>2. state'.cur = actor.cand /\ state'.syn = state.syn
        BY <1>1, <3>1, Zenon DEF TypeOK, File
      <3>3. /\ actor.cand.seq = actor.base.seq + 2 /\ actor.base.seq <= mem.seq
            /\ ~AtMost(Version(actor.cand), Version(mem))
        BY <2>1, <2>6, Zenon DEF Inv, ToolInv, CommandInv, CandInv, Busy
      <3>4. Ahead(actor.cand)' = 2
        BY <2>1, <2>2, <3>1, <3>3, Zenon DEF Ahead
      <3>5. actor.base.seq \in Nat /\ mem.seq \in Nat
        BY <1>1, Zenon DEF ActorType, Session
      <3>6. \A s \in Saved' : s \in Saved \/ s = actor.cand
        BY <3>2, Zenon DEF Saved
      <3>7. actor.cand.seq <= mem'.seq + 2
        BY <2>1, <3>3, <3>5
      <3>8. \A s : s = actor.cand => s.seq <= mem'.seq + Ahead(s)'
        BY <2>2, <3>4, <3>7, Zenon
      <3>. QED BY <1>1, <2>1, <2>2, <2>5, <2>6, <3>6, <3>8, SeqKept, Zenon DEF Saving
    <2>7. CASE ~actor.tool
      <3>1. /\ state' = state
            /\ overlay' = [overlay EXCEPT !.cur = [base |-> actor.base, doc |-> actor.cand]]
        BY <1>5, <2>7, Zenon DEF RenameStaged
      <3>2. overlay'.cur = [base |-> actor'.base, doc |-> actor'.cand]
        BY <1>1, <2>2, <3>1, Zenon DEF TypeOK, File
      <3>3. \A s \in Saved' : s \in Saved
        BY <3>1, Zenon DEF Saved
      <3>. QED BY <1>1, <2>1, <2>5, <3>2, <3>3, SeqKept, Zenon DEF Saving
    <2>. QED BY <2>6, <2>7, Zenon
  <1>6. CASE SyncStaged
    <2>1. /\ actor' = [actor EXCEPT !.pc = "install"] /\ actor.pc = "sync"
          /\ state' = Synced(state) /\ overlay' = Synced(overlay)
          /\ UNCHANGED <<mem, driver, snap>>
      BY <1>6, Zenon DEF SyncStaged, sessionVars, driverVars
    <2>2. /\ actor'.pc = "install" /\ actor'.tool = actor.tool /\ actor'.base = actor.base
          /\ actor'.cand = actor.cand
      BY <1>1, <2>1, Zenon DEF ActorType
    <2>3. Numbered' <=> Numbered
      BY <2>1, <2>2, Zenon DEF Numbered, Busy
    <2>4. mem'.seq >= mem.seq /\ Version(mem)' = Version(mem)
      BY <1>1, <2>1 DEF Session
    <2>5. Overtakes
      BY <1>1, <2>3, <2>4, OvertakesStill
    <2>6. state'.cur = state.cur /\ state'.syn = state.cur /\ overlay'.cur = overlay.cur
      BY <1>1, <2>1, Zenon DEF Synced, TypeOK, File
    <2>7. \A s \in Saved' : s \in Saved
      BY <2>6, Zenon DEF Saved
    <2>8. actor'.pc \in {"sync", "install"} /\ ~actor'.tool =>
               overlay'.cur = [base |-> actor'.base, doc |-> actor'.cand]
      BY <2>1, <2>2, <2>6, Zenon DEF SeqInv
    <2>. QED BY <1>1, <2>1, <2>5, <2>7, <2>8, SeqKept, Zenon DEF Saving
  <1>. QED BY <1>2, <1>3, <1>4, <1>5, <1>6, Zenon

LEMMA SeqInstallStep ==
    ASSUME Inv, TypeOK', SeqInv, InstallPlanOnly \/ InstallTool
    PROVE  SeqInv'
  <1>1. CASE UNCHANGED fileVars /\ Refuse
    BY <1>1, SeqRefuse, Zenon
  <1>2. CASE InstallPlanOnly /\ Install(mem.seq, pending)
    <2>1. UNCHANGED fileVars /\ Numbered
      BY <1>2, Zenon DEF InstallPlanOnly, Numbered, Busy
    <2>. QED BY <1>2, <2>1, SeqInstall, Zenon
  <1>3. CASE InstallTool /\ BaseMatches
    <2>1. /\ UNCHANGED fileVars /\ Install(actor.cand.seq, pending - 1)
          /\ actor.cand.seq = mem.seq + 2
      BY <1>3, Zenon DEF InstallTool, BaseMatches, Inv, ToolInv
    <2>. QED BY <2>1, SeqInstall, Zenon
  <1>4. CASE InstallPlanOnly /\ actor' = [actor EXCEPT !.pc = "stage"] /\ UNCHANGED <<sessionVars, driverVars>>
    <2>1. /\ UNCHANGED <<mem, state, overlay, driver, snap>> /\ ~actor.tool /\ actor.pc = "install"
      BY <1>4, Zenon DEF InstallPlanOnly, sessionVars, driverVars, fileVars
    <2>2. actor'.pc = "stage" /\ actor'.tool = actor.tool
      BY <1>4, Zenon DEF Inv, TypeOK
    <2>3. Numbered' <=> Numbered
      BY <2>1, <2>2, Zenon DEF Numbered, Busy
    <2>4. mem'.seq >= mem.seq /\ Version(mem)' = Version(mem)
      BY <2>1, MemoryStays, Zenon DEF Inv
    <2>5. Overtakes
      BY <2>3, <2>4, OvertakesStill, Zenon DEF Inv
    <2>. QED BY <2>1, <2>2, <2>5, SeqOnly, Zenon DEF Saving
  <1>. QED BY <1>1, <1>2, <1>3, <1>4, Zenon DEF InstallPlanOnly, InstallTool

\* In the process that created the session every step keeps the sequences.
LEMMA SeqStep ==
    ASSUME Inv, ChainInv, SeqInv, [Next]_vars, crashes' = 0
    PROVE  SeqInv'
  <1>1. TypeOK' /\ CandInv
    BY NextInv, Zenon DEF Inv, ChainInv
  <1>2. ~CrashAndResume
    <2>1. crashes \in Nat
      BY ConstantsAssumption DEF Inv, TypeOK
    <2>. QED BY <2>1 DEF CrashAndResume
  <1>3. CASE UNCHANGED vars
    <2>1. UNCHANGED <<mem, driver, snap, actor, state, overlay>>
      BY <1>3, Zenon DEF vars, sessionVars, driverVars, actorVars, fileVars
    <2>2. Overtakes
      <3>1. mem'.seq >= mem.seq /\ Version(mem)' = Version(mem) /\ (Numbered' => Numbered)
        BY <2>1, MemoryStays, Zenon DEF Inv, Numbered, Busy
      <3>. QED BY <1>1, <3>1, OvertakesStill, Zenon DEF Inv
    <2>. QED BY <1>1, <2>1, <2>2, SeqOnly, Zenon DEF Saving
  <1>. QED BY <1>1, <1>2, <1>3, SeqDriver, SeqPrepare, SeqWrite, SeqInstallStep, Zenon DEF Next

\* The sequence with which a restart would go on when a PlanOnly command is
\* installed is the session's.
LEMMA InstallAgrees ==
    ASSUME Inv, ChainInv, SeqInv, InstallPlanOnly, SavepointIsRecent,
           actor.command \in acked' \ acked
    PROVE  LoadFrom(state.cur, overlay.cur).seq = mem'.seq
  <1>. DEFINE o == [base |-> actor.base, doc |-> actor.cand]
  <1>1. Busy /\ Numbered /\ PlanMatches /\ mem.seq = actor.cand.seq /\ Install(mem.seq, pending)
    <2>1. ~Refuse
      BY Zenon DEF Refuse, Answer
    <2>2. ~UNCHANGED answerVars
      BY Zenon DEF answerVars
    <2>. QED BY <2>1, <2>2, Zenon DEF InstallPlanOnly, Busy, Numbered
  <1>2. overlay.cur = o
    BY Zenon DEF SeqInv, InstallPlanOnly
  <1>3. /\ actor.cand \in Session /\ actor.base \in Session /\ mem \in Session
        /\ o \in Overlay /\ o # None /\ o.base = actor.base /\ o.doc = actor.cand
    <2>1. actor.cand \in Session /\ actor.base \in Session /\ mem \in Session
      BY Zenon DEF Inv, TypeOK
    <2>2. o \in Overlay
      BY <2>1, Zenon DEF Overlay
    <2>. QED BY <2>1, <2>2, NoneAssumption, Zenon
  <1>. HIDE DEF o
  <1>4. mem'.seq = actor.cand.seq
    <2>1. mem' = [actor.cand EXCEPT !.seq = mem.seq]
      BY <1>1, Zenon DEF Install
    <2>. QED BY <1>1, <1>3, <2>1, Zenon DEF Session
  <1>5. actor.cand.seq \in Nat /\ actor.cand.seq >= 1
    BY <1>1, <1>3, Zenon DEF SeqInv, Session
  <1>6. CASE state.cur = None
    <2>1. LoadFrom(state.cur, o) = [o.doc EXCEPT !.seq = Larger(EmptySession.seq, @)]
      BY <1>3, <1>6, Zenon DEF LoadFrom, ApplyPlanOverlay, EmptySession
    <2>2. Larger(EmptySession.seq, o.doc.seq) = actor.cand.seq
      <3>1. EmptySession.seq = 1
        BY Zenon DEF EmptySession
      <3>2. Larger(1, actor.cand.seq) = actor.cand.seq
        BY <1>5 DEF Larger
      <3>. QED BY <1>3, <3>1, <3>2, Zenon
    <2>3. LoadFrom(state.cur, o).seq = Larger(EmptySession.seq, o.doc.seq)
      BY <1>3, <2>1, Zenon DEF Session
    <2>. QED BY <1>2, <1>4, <2>2, <2>3, Zenon
  <1>7. CASE state.cur # None
    <2>. DEFINE s == state.cur
    <2>1. s \in Session /\ s \in Saved
      BY <1>7, Zenon DEF Inv, TypeOK, File, Saved
    <2>. HIDE DEF s
    <2>2. ~(OverlayOps \subseteq mem.ops)
      <3>1. actor.command \in actor.cand.ops /\ actor.command \notin mem.ops
        BY <1>1, Zenon DEF Inv, CommandInv, ChainInv, CandInv
      <3>2. actor.cand.ops \subseteq OverlayOps
        BY <1>2, <1>3, NoneAssumption, Zenon DEF OverlayOps, OpsOn
      <3>. QED BY <3>1, <3>2, Zenon
    <2>3. Version(s) = Version(mem) /\ Version(mem) = Version(actor.base)
      BY <1>1, <2>1, <2>2, Zenon DEF SavepointIsRecent, Saved, PlanMatches
    <2>4. s.id = mem.id /\ s.rev = mem.rev
      BY <2>3, Zenon DEF Version
    <2>5. AtMost(Version(s), Version(mem)) /\ ~AtMost(Version(actor.cand), Version(mem))
      <3>1. AtMost(Version(mem), Version(mem))
        <4>1. mem.rev \in Nat
          BY <1>3, SessionFields, Zenon
        <4>2. AtMost(Version(mem), Version(mem)) <=>
                mem.id < mem.id \/ (mem.id = mem.id /\ mem.rev <= mem.rev)
          BY VersionKeys, Zenon
        <4>. QED BY <4>1, <4>2
      <3>. QED BY <1>1, <2>3, <3>1, Zenon DEF ChainInv, CandInv
    <2>6. ~(s.id = actor.cand.id /\ s.rev > actor.cand.rev)
      <3>1. ~(actor.cand.id = mem.id /\ actor.cand.rev <= mem.rev)
        BY <2>5, VersionKeys, Zenon
      <3>2. actor.cand.rev \in Nat /\ mem.rev \in Nat
        BY <1>3, SessionFields, Zenon
      <3>. QED BY <2>4, <3>1, <3>2
    <2>7. LoadFrom(s, o) = [o.doc EXCEPT !.seq = Larger(s.seq, @)]
      <3>1. s # None
        BY <2>1, NoneAssumption, Zenon
      <3>. QED BY <1>3, <2>3, <2>6, <3>1, Zenon DEF LoadFrom, ApplyPlanOverlay
    <2>8. s.seq <= actor.cand.seq /\ s.seq \in Nat
      <3>1. Ahead(s) = 0
        BY <1>1, <2>5, Zenon DEF Ahead
      <3>2. s.seq \in Nat /\ actor.cand.seq \in Nat
        BY <1>3, <2>1, SessionFields, Zenon
      <3>3. s.seq <= mem.seq + Ahead(s)
        BY <2>1, Zenon DEF SeqInv
      <3>. QED BY <1>1, <3>1, <3>2, <3>3
    <2>9. Larger(s.seq, o.doc.seq) = actor.cand.seq
      BY <1>3, <1>5, <2>8 DEF Larger
    <2>10. LoadFrom(s, o).seq = Larger(s.seq, o.doc.seq)
      BY <1>3, <2>7, Zenon DEF Session
    <2>. QED BY <1>2, <1>4, <2>9, <2>10, Zenon DEF s
  <1>. QED BY <1>6, <1>7, Zenon

\* Only an installation acknowledges a command.
LEMMA OnlyInstallsAcknowledge ==
    ASSUME [Next]_vars, actor.command \in acked' \ acked
    PROVE  InstallPlanOnly \/ InstallTool
  <1>1. ~Refuse
    BY Zenon DEF Refuse, Answer
  <1>2. ~UNCHANGED answerVars /\ ~UNCHANGED vars
    BY Zenon DEF answerVars, vars
  <1>3. ~(ReserveEvents \/ StageOverlay \/ StageBundle \/ FailWrite \/ FailSync)
    BY <1>1, <1>2, Zenon DEF ReserveEvents, StageOverlay, StageBundle, FailWrite, FailSync
  <1>4. ~(PreparePlanOnly \/ PrepareTool \/ RenameStaged \/ SyncStaged \/ DropCall \/ TakeSavepoint
          \/ RenameSavepoint \/ SyncSavepoint \/ FailSavepoint)
    BY <1>2, Zenon DEF PreparePlanOnly, PrepareTool, RenameStaged, SyncStaged, DropCall, TakeSavepoint,
       RenameSavepoint, SyncSavepoint, FailSavepoint
  <1>5. ~(RefuseTool \/ RecordEvent \/ RequestTools \/ ResolveCall)
    BY Zenon DEF RefuseTool, RecordEvent, RequestTools, ResolveCall, Record
  <1>6. ~CrashAndResume
    BY Zenon DEF CrashAndResume
  <1>. QED BY <1>2, <1>3, <1>4, <1>5, <1>6, Zenon DEF Next

RecoverInv == crashes = 0 => ChainInv /\ SeqInv

LEMMA RecoverInvariance == Spec => [](Inv /\ RecoverInv)
  <1>1. Init => SeqInv
    <2> SUFFICES ASSUME Init PROVE SeqInv
      OBVIOUS
    <2>1. mem.seq = 1 /\ ~Saving /\ Saved = {} /\ actor.pc = "idle"
      BY Zenon DEF Init, EmptySession, Saving, Saved, NoFile, Idle
    <2>2. \A s \in Saved : s.seq <= mem.seq + Ahead(s)
      BY <2>1, Zenon
    <2>. QED BY <2>1, <2>2 DEF SeqInv
  <1>2. Init => Inv /\ RecoverInv
    BY <1>1, InitInv, InitChain, Zenon DEF RecoverInv
  <1>3. Inv /\ RecoverInv /\ [Next]_vars => (Inv /\ RecoverInv)'
    <2> SUFFICES ASSUME Inv, RecoverInv, [Next]_vars PROVE Inv' /\ RecoverInv'
      BY Zenon
    <2>1. crashes' = 0 => crashes = 0
      <3>1. crashes \in Nat
        BY ConstantsAssumption DEF Inv, TypeOK
      <3>2. CASE CrashAndResume
        BY <3>1, <3>2 DEF CrashAndResume
      <3>3. CASE ~CrashAndResume
        BY <3>3, CrashesOnly, Zenon
      <3>. QED BY <3>2, <3>3, Zenon
    <2>. QED BY <2>1, NextInv, ChainStep, SeqStep, Zenon DEF RecoverInv
  <1>. QED BY <1>2, <1>3, PTL DEF Spec

\* When a PlanOnly command is installed in the process that created the
\* session, and the last savepoint is recent, the sequence in the files is
\* the session's own (the loop "Rewrite until the persisted frontier and
\* install point agree" of commit_plan_only, with apply_plan_overlay).
THEOREM FrontiersAgree == Spec => FrontierAgrees
  <1>1. Inv /\ RecoverInv /\ [Next]_vars =>
          [(/\ ~actor.tool /\ actor.command \in acked' \ acked
            /\ crashes = 0 /\ SavepointIsRecent)
           => LoadFrom(state.cur, overlay.cur).seq = mem'.seq]_vars
    <2> SUFFICES ASSUME Inv, RecoverInv, [Next]_vars, ~actor.tool,
                        actor.command \in acked' \ acked, crashes = 0, SavepointIsRecent
                 PROVE  LoadFrom(state.cur, overlay.cur).seq = mem'.seq
      BY Zenon
    <2>1. InstallPlanOnly
      BY OnlyInstallsAcknowledge, Zenon DEF InstallTool
    <2>. QED BY <2>1, InstallAgrees, Zenon DEF RecoverInv
  <1>. QED BY <1>1, RecoverInvariance, PTL DEF Spec, FrontierAgrees

-----------------------------------------------------------------------------
(***************************************************************************)
(* Builds that evaluate debug_assert!.  The flag that lets the calls of a  *)
(* batch commit together is set inside an assertion; where assertions are  *)
(* compiled in, it stands for as long as the batch has calls to run.       *)
(***************************************************************************)
BatchFlag == driver \in {"tools", "calling"} /\ pending > 1 => batchActive

LEMMA FlagStays ==
    ASSUME BatchFlag, driver' = driver, pending' = pending, batchActive' = batchActive
    PROVE  BatchFlag'
  BY Zenon DEF BatchFlag

LEMMA AnswerFlag ==
    ASSUME TypeOK, BatchFlag, NEW ok \in BOOLEAN, Answer(ok), pending' = pending \/ pending' = pending - 1
    PROVE  BatchFlag'
  <1> SUFFICES ASSUME driver' \in {"tools", "calling"}, pending' > 1 PROVE batchActive'
    BY Zenon DEF BatchFlag
  <1>1. pending > 1
    BY DEF TypeOK
  <1>2. driver \in {"tools", "calling"} /\ (ok \/ driver # "calling")
    BY DEF Answer, TypeOK
  <1>3. batchActive
    BY <1>1, <1>2, Zenon DEF BatchFlag
  <1>. QED BY <1>2, <1>3, Zenon DEF Answer

LEMMA RefuseFlag ==
    ASSUME TypeOK, BatchFlag, Refuse
    PROVE  BatchFlag'
  BY AnswerFlag, Zenon DEF Refuse, sessionVars

LEMMA FlagStep ==
    ASSUME Builds \subseteq {TRUE}, TypeOK, BatchFlag, [Next]_vars
    PROVE  BatchFlag'
  <1>1. CASE PreparePlanOnly \/ RenameStaged \/ SyncStaged \/ RecordEvent \/ UNCHANGED vars
    BY <1>1, FlagStays, Zenon DEF PreparePlanOnly, RenameStaged, SyncStaged, RecordEvent, vars, sessionVars,
         driverVars
  <1>2. CASE ReserveEvents \/ StageOverlay \/ StageBundle
    BY <1>2, FlagStays, RefuseFlag, Zenon DEF ReserveEvents, StageOverlay, StageBundle, sessionVars, driverVars
  <1>3. CASE FailWrite \/ FailSync
    BY <1>3, RefuseFlag, Zenon DEF FailWrite, FailSync
  <1>4. CASE InstallPlanOnly \/ InstallTool
    <2>1. ASSUME NEW seq, Install(seq, pending) \/ Install(seq, pending - 1) PROVE BatchFlag'
      BY <2>1, AnswerFlag, Zenon DEF Install
    <2>2. CASE InstallPlanOnly
      <3>1. \/ Refuse \/ Install(mem.seq, pending)
            \/ UNCHANGED sessionVars /\ UNCHANGED driverVars
        BY <2>2 DEF InstallPlanOnly
      <3>. QED BY <2>1, <3>1, RefuseFlag, FlagStays, Zenon DEF sessionVars, driverVars
    <2>3. CASE InstallTool
      BY <2>1, <2>3, RefuseFlag, Zenon DEF InstallTool
    <2>. QED BY <1>4, <2>2, <2>3, Zenon
  <1>5. CASE PrepareTool
    BY <1>5, Zenon DEF PrepareTool, BatchFlag, sessionVars
  <1>6. CASE RequestTools
    <2>1. PICK debugAssertions \in Builds : batchActive' = (debugAssertions /\ pending' > 1)
      BY <1>6, Zenon DEF RequestTools
    <2>2. debugAssertions = TRUE
      BY Zenon
    <2>. QED BY <2>1, <2>2, Zenon DEF BatchFlag
  <1>7. CASE ResolveCall
    BY <1>7 DEF ResolveCall, BatchFlag, TypeOK, driverVars
  <1>8. CASE \/ RefuseTool \/ DropCall \/ TakeSavepoint \/ RenameSavepoint \/ SyncSavepoint
             \/ FailSavepoint \/ CrashAndResume
    <2>1. driver' \notin {"tools", "calling"}
      BY <1>8 DEF RefuseTool, DropCall, TakeSavepoint, RenameSavepoint, SyncSavepoint, FailSavepoint,
           CrashAndResume
    <2>. QED BY <2>1, Zenon DEF BatchFlag
  <1>. QED BY <1>1, <1>2, <1>3, <1>4, <1>5, <1>6, <1>7, <1>8, Zenon DEF Next

\* In a build that evaluates debug assertions no update_plan call is refused
\* for the other calls of its batch: the refusals BatchedUpdateAccepted fails
\* on are confined to builds that leave the assertion in begin_tool_batch out.
THEOREM AssertionsAcceptBatches ==
    ASSUME Builds \subseteq {TRUE}
    PROVE  Spec => BatchedUpdateAccepted
  <1>1. Init => BatchFlag
    BY Zenon DEF Init, BatchFlag
  <1>2. TypeOK /\ BatchFlag /\ [Next]_vars => BatchFlag'
    BY FlagStep, Zenon
  <1>3. ASSUME BatchFlag, [Next]_vars, driver = "tools", pending > 1, nextCommand' # nextCommand
        PROVE  failed' = failed
    <2>1. batchActive
      BY <1>3, Zenon DEF BatchFlag
    <2>2. CASE PreparePlanOnly \/ PrepareTool
      BY <2>2, Zenon DEF PreparePlanOnly, PrepareTool, answerVars
    <2>3. CASE ReserveEvents \/ StageOverlay \/ StageBundle \/ FailWrite \/ FailSync
      BY <1>3, <2>3, Zenon DEF ReserveEvents, StageOverlay, StageBundle, FailWrite, FailSync, Refuse, Answer
    <2>4. CASE InstallPlanOnly \/ InstallTool
      BY <1>3, <2>4 DEF InstallPlanOnly, InstallTool, Install, Refuse, Answer
    <2>5. CASE RenameStaged \/ SyncStaged \/ UNCHANGED vars
      BY <1>3, <2>5, Zenon DEF RenameStaged, SyncStaged, vars, actorVars
    <2>6. CASE RecordEvent \/ RequestTools \/ ResolveCall \/ DropCall \/ TakeSavepoint \/ RenameSavepoint
               \/ SyncSavepoint \/ FailSavepoint \/ CrashAndResume
      BY <1>3, <2>6, Zenon DEF RecordEvent, RequestTools, ResolveCall, Record, DropCall, TakeSavepoint,
           RenameSavepoint, SyncSavepoint, FailSavepoint, CrashAndResume, actorVars
    <2>7. ~RefuseTool
      BY <2>1, Zenon DEF RefuseTool
    <2>. QED BY <1>3, <2>2, <2>3, <2>4, <2>5, <2>6, <2>7, Zenon DEF Next
  <1>4. BatchFlag /\ [Next]_vars =>
          [driver = "tools" /\ pending > 1 /\ nextCommand' # nextCommand => failed' = failed]_vars
    BY <1>3, Zenon
  <1>. QED BY <1>1, <1>2, <1>4, TypeCorrect, PTL DEF Spec, BatchedUpdateAccepted

=============================================================================
