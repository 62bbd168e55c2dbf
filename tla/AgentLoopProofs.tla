-------------------------- MODULE AgentLoopProofs ---------------------------
(***************************************************************************)
(* The agent loop implements Conversation, no step works on a session      *)
(* whose store is ahead of memory, and a run stays within its turn budget: *)
(* for every batch, channel, limit, policy and configuration.              *)
(***************************************************************************)
EXTENDS AgentLoop, TLAPS

ReductionPlaces == {"reduce", "fit", "generate", "install", "observe"}

\* The place of the task says what the session holds: a turn is open exactly
\* while the step streams, and no call is open from the gate to the turn, also
\* through a reduction on the way.
SessionInv ==
    /\ pending \subseteq 1..MaxBatch
    /\ pending # {} => turn = "AwaitingToolResults"
    /\ turn = "InProgress" <=> pc \in {"record", "stream"}
    /\ pc \in {"prepare", "begin"} => pending = {}
    /\ "by" \in DOMAIN red
    /\ pc \in ReductionPlaces /\ red.by # "manual" => pending = {}

\* A commit task exists only during its install or after its run was dropped.
CommitInv ==
    /\ storeHolds = "next" => commit = "written"
    /\ commit # "none" => pc \in {"install", "idle"}

Inv == SessionInv /\ CommitInv

\* What every step is shown to do.
Converses == [Conv!Converse]_(Conv!conversationVars)
Untouched == storeHolds = "next" => sessionVars' = sessionVars /\ pc' \in {"install", "idle"}
Sound == Inv' /\ Converses /\ Untouched

-----------------------------------------------------------------------------
\* A step that aborts an open turn, or leaves the session alone, converses.
LEMMA AbortConverses ==
    ASSUME turn' = Aborted(turn), pending' = pending
    PROVE  Converses
  BY Zenon DEF Aborted, Converses, Conv!Converse, Conv!Abort, Conv!conversationVars

LEMMA KeepConverses ==
    ASSUME turn' = turn, pending' = pending
    PROVE  Converses
  BY Zenon DEF Converses, Conv!conversationVars

\* Recording results of pending calls is a Settle.
LEMMA RecordConverses ==
    ASSUME SessionInv, NEW S, Record(S)
    PROVE  /\ Converses
           /\ pending' \subseteq 1..MaxBatch
           /\ pending' # {} => turn' = "AwaitingToolResults"
           /\ turn' # "InProgress" /\ turn # "InProgress"
  <1>1. turn = "AwaitingToolResults"
    BY Zenon DEF Record, SessionInv
  <1>2. pending' \in (SUBSET pending) \ {pending}
    BY Zenon DEF Record
  <1>3. turn' = IF pending' = {} THEN "Completed" ELSE turn
    BY Zenon DEF Record
  <1>4. Conv!Settle
    BY <1>1, <1>2, <1>3, Zenon DEF Conv!Settle
  <1>5. pending' \subseteq 1..MaxBatch
    BY <1>2, Zenon DEF SessionInv
  <1>. QED BY <1>1, <1>3, <1>4, <1>5, Zenon DEF Converses, Conv!Converse

-----------------------------------------------------------------------------
(***************************************************************************)
(* Steps of a reduction.                                                   *)
(***************************************************************************)

\* What a step of a reduction that touches neither the store nor the session
\* does: it ends, or goes on to another place of the same reduction.
ReductionMove ==
    /\ UNCHANGED <<turn, batch, pending, storeHolds>>
    /\ "by" \in DOMAIN red'
    /\ \/ pc' = "idle"
       \/ pc' \in {"classify", "begin"} /\ red.by # "manual"
       \/ pc' \in ReductionPlaces /\ red'.by = red.by

LEMMA PhaseFailsMoves ==
    ASSUME turn # "InProgress", PhaseFails, UNCHANGED <<batch, pending, storeHolds>>
    PROVE  ReductionMove
  BY Zenon DEF PhaseFails, FailStep, CancelStep, Aborted, NoReduction, ReductionMove

LEMMA ReductionFailsMoves ==
    ASSUME turn # "InProgress", ReductionFails
    PROVE  ReductionMove /\ commit' = commit
  BY PhaseFailsMoves, Zenon DEF ReductionFails

LEMMA ReductionEndsMoves ==
    ASSUME ReductionEnds
    PROVE  ReductionMove /\ commit' = commit
  BY Zenon DEF ReductionEnds, ReductionMove, NoReduction, sessionVars

LEMMA ReductionSilentMoves ==
    ASSUME ReductionSilent, red.by # "manual"
    PROVE  ReductionMove /\ commit' = commit
  BY Zenon DEF ReductionSilent, ReductionMove, NoReduction, sessionVars

LEMMA GotoMoves ==
    ASSUME NEW place \in ReductionPlaces, Goto(place), "by" \in DOMAIN red',
           red'.by = red.by
    PROVE  ReductionMove /\ commit' = commit
  BY Zenon DEF Goto, ReductionMove, sessionVars

LEMMA ManualReturnsMoves ==
    ASSUME turn # "InProgress", ManualReturns
    PROVE  ReductionMove /\ commit' = commit
  BY ReductionFailsMoves, ReductionEndsMoves, Zenon DEF ManualReturns

\* Such a step is sound once no commit task is left.
LEMMA MoveSound ==
    ASSUME Inv, pc \in ReductionPlaces, storeHolds # "next", commit' = "none",
           ReductionMove
    PROVE  Sound
  <1>1. turn # "InProgress"
    BY Zenon DEF Inv, SessionInv, ReductionPlaces
  <1>2. SessionInv'
    BY <1>1, Zenon DEF Inv, SessionInv, ReductionMove, ReductionPlaces
  <1>3. CommitInv' /\ Untouched
    BY Zenon DEF CommitInv, Untouched, ReductionMove
  <1>. QED BY <1>2, <1>3, KeepConverses, Zenon DEF Sound, Inv, ReductionMove

\* Away from an install there is no commit task.
LEMMA NoCommit ==
    ASSUME Inv, pc \notin {"install", "idle"}
    PROVE  commit = "none" /\ storeHolds # "next"
  BY Zenon DEF Inv, CommitInv

LEMMA PrepareWindowSound ==
    ASSUME Inv, PrepareWindow
    PROVE  Sound /\ ReductionMove
  <1>1. pc = "reduce" /\ turn # "InProgress" /\ "by" \in DOMAIN red
    BY Zenon DEF PrepareWindow, Inv, SessionInv
  <1>2. ReductionMove /\ commit' = commit
    <2>1. CASE ReductionFails
      BY <1>1, <2>1, ReductionFailsMoves, Zenon
    <2>2. CASE Goto("fit") /\ red' = [red EXCEPT !.shape = Appended, !.tight = 0, !.refits = 0]
      <3>1. "by" \in DOMAIN red' /\ red'.by = red.by
        BY <1>1, <2>2, Zenon
      <3>. QED BY <2>2, <3>1, GotoMoves, Zenon DEF ReductionPlaces
    <2>3. CASE Goto("install") /\ red' = [red EXCEPT !.installs = "archive"]
      <3>1. "by" \in DOMAIN red' /\ red'.by = red.by
        BY <1>1, <2>3, Zenon
      <3>. QED BY <2>3, <3>1, GotoMoves, Zenon DEF ReductionPlaces
    <2>4. CASE Goto("observe") /\ red' = [red EXCEPT !.installs = "none"]
      <3>1. "by" \in DOMAIN red' /\ red'.by = red.by
        BY <1>1, <2>4, Zenon
      <3>. QED BY <2>4, <3>1, GotoMoves, Zenon DEF ReductionPlaces
    <2>5. CASE ManualReturns
      BY <1>1, <2>5, ManualReturnsMoves
    <2>. QED BY <2>1, <2>2, <2>3, <2>4, <2>5, Zenon DEF PrepareWindow
  <1>. QED BY <1>1, <1>2, NoCommit, MoveSound, Zenon DEF ReductionPlaces

LEMMA RebuiltMoves ==
    ASSUME turn # "InProgress", NEW next, "by" \in DOMAIN next, next.by = red.by,
           Rebuilt(next)
    PROVE  ReductionMove /\ commit' = commit
  <1>1. CASE red' = next /\ Goto("fit")
    BY <1>1, GotoMoves, Zenon DEF ReductionPlaces
  <1>2. CASE Goto("install") /\ red' = [next EXCEPT !.installs = "archive"]
    <2>1. "by" \in DOMAIN red' /\ red'.by = red.by
      BY <1>2, Zenon
    <2>. QED BY <1>2, <2>1, GotoMoves, Zenon DEF ReductionPlaces
  <1>3. CASE ManualReturns
    BY <1>3, ManualReturnsMoves, Zenon
  <1>4. CASE ReductionFails
    BY <1>4, ReductionFailsMoves, Zenon
  <1>. QED BY <1>1, <1>2, <1>3, <1>4, Zenon DEF Rebuilt

LEMMA FitRequestSound ==
    ASSUME Inv, FitRequest
    PROVE  Sound /\ ReductionMove
  <1>1. pc = "fit" /\ "by" \in DOMAIN red
    BY Zenon DEF FitRequest, Inv, SessionInv
  <1>2. ReductionMove /\ commit' = commit
    <2>1. CASE red.by = "step" /\ ReductionSilent
      BY <2>1, ReductionSilentMoves, Zenon
    <2>2. CASE red' = red /\ Goto("generate")
      BY <1>1, <2>2, GotoMoves, Zenon DEF ReductionPlaces
    <2>. QED BY <2>1, <2>2, Zenon DEF FitRequest
  <1>. QED BY <1>1, <1>2, NoCommit, MoveSound, Zenon DEF ReductionPlaces

LEMMA ShrinkRequestSound ==
    ASSUME Inv, ShrinkRequest
    PROVE  Sound /\ ReductionMove
  <1>1. pc = "fit" /\ turn # "InProgress" /\ "by" \in DOMAIN red
    BY Zenon DEF ShrinkRequest, Inv, SessionInv
  <1>2. ReductionMove /\ commit' = commit
    <2>1. ASSUME NEW n \in 0..Retained, Rebuilt([red EXCEPT !.shape = n + 1])
          PROVE  ReductionMove /\ commit' = commit
      BY <1>1, <2>1, RebuiltMoves, Zenon
    <2>2. CASE Rebuilt([red EXCEPT !.shape = red.shape - 1])
      BY <1>1, <2>2, RebuiltMoves, Zenon
    <2>3. CASE Rebuilt([red EXCEPT !.tight = red.tight + 1])
      BY <1>1, <2>3, RebuiltMoves, Zenon
    <2>4. CASE ReductionFails
      BY <1>1, <2>4, ReductionFailsMoves, Zenon
    <2>. QED BY <2>1, <2>2, <2>3, <2>4, Zenon DEF ShrinkRequest
  <1>. QED BY <1>1, <1>2, NoCommit, MoveSound, Zenon DEF ReductionPlaces

LEMMA GenerateCandidateSound ==
    ASSUME Inv, GenerateCandidate
    PROVE  Sound /\ ReductionMove
  <1>1. pc = "generate" /\ turn # "InProgress" /\ "by" \in DOMAIN red
    BY Zenon DEF GenerateCandidate, Inv, SessionInv
  <1>2. ReductionMove /\ commit' = commit
    <2>1. CASE Goto("install") /\ red' = [red EXCEPT !.installs = "checkpoint"]
      <3>1. "by" \in DOMAIN red' /\ red'.by = red.by
        BY <1>1, <2>1, Zenon
      <3>. QED BY <2>1, <3>1, GotoMoves, Zenon DEF ReductionPlaces
    <2>2. CASE /\ Goto("fit")
               /\ red' = [red EXCEPT !.shape = Appended, !.tight = 0, !.refits = red.refits + 1]
      <3>1. "by" \in DOMAIN red' /\ red'.by = red.by
        BY <1>1, <2>2, Zenon
      <3>. QED BY <2>2, <3>1, GotoMoves, Zenon DEF ReductionPlaces
    <2>3. CASE ReductionFails
      BY <1>1, <2>3, ReductionFailsMoves, Zenon
    <2>. QED BY <2>1, <2>2, <2>3, Zenon DEF GenerateCandidate
  <1>. QED BY <1>1, <1>2, NoCommit, MoveSound, Zenon DEF ReductionPlaces

LEMMA MeasureAgainSound ==
    ASSUME Inv, MeasureAgain
    PROVE  Sound /\ ReductionMove
  <1>1. pc = "observe" /\ turn # "InProgress" /\ "by" \in DOMAIN red
    BY Zenon DEF MeasureAgain, Inv, SessionInv
  <1>2. ASSUME NEW b, Observe(b)
        PROVE  ReductionMove /\ commit' = commit
    <2>1. CASE ReductionEnds
      BY <2>1, ReductionEndsMoves, Zenon
    <2>2. CASE ReductionFails
      BY <1>1, <2>2, ReductionFailsMoves, Zenon
    <2>3. CASE /\ red' = [red EXCEPT !.body = b, !.prev = b, !.passes = red.passes + 1]
               /\ Goto("reduce")
      <3>1. "by" \in DOMAIN red' /\ red'.by = red.by
        BY <1>1, <2>3, Zenon
      <3>. QED BY <2>3, <3>1, GotoMoves, Zenon DEF ReductionPlaces
    <2>. QED BY <1>2, <2>1, <2>2, <2>3, Zenon DEF Observe
  <1>3. ReductionMove /\ commit' = commit
    <2>1. CASE ReductionFails
      BY <1>1, <2>1, ReductionFailsMoves
    <2>2. CASE red.by = "step" /\ ReductionSilent
      BY <2>2, ReductionSilentMoves
    <2>3. CASE \E b \in IF red.installs = "none" THEN {red.body} ELSE 0..MaxBody : Observe(b)
      BY <1>2, <2>3, Zenon
    <2>. QED BY <2>1, <2>2, <2>3, Zenon DEF MeasureAgain
  <1>. QED BY <1>1, <1>3, NoCommit, MoveSound, Zenon DEF ReductionPlaces

\* The commit task exists, or is about to: what its steps must keep.
LEMMA CommitKeeps ==
    ASSUME Inv, UNCHANGED <<turn, batch, pending, pc, red>>, pc \in {"install", "idle"},
           storeHolds' = "next" => commit' = "written"
    PROVE  Sound
  <1>1. SessionInv'
    BY Zenon DEF Inv, SessionInv
  <1>2. CommitInv' /\ Untouched
    BY Zenon DEF CommitInv, Untouched, sessionVars
  <1>. QED BY <1>1, <1>2, KeepConverses, Zenon DEF Sound, Inv

LEMMA PrepareInstallSound ==
    ASSUME Inv, PrepareInstall
    PROVE  Sound /\ (ReductionMove \/ UNCHANGED <<pc, red>>)
  <1>1. pc = "install" /\ turn # "InProgress" /\ commit = "none" /\ storeHolds # "next"
    BY Zenon DEF PrepareInstall, Inv, SessionInv, CommitInv
  <1>2. CASE ReductionFails
    BY <1>1, <1>2, ReductionFailsMoves, MoveSound, Zenon DEF ReductionPlaces
  <1>3. CASE UNCHANGED <<sessionVars, pc, red, storeHolds>>
    BY <1>1, <1>3, CommitKeeps, Zenon DEF sessionVars
  <1>. QED BY <1>2, <1>3, Zenon DEF PrepareInstall

LEMMA AwaitCommitSound ==
    ASSUME Inv, AwaitCommit
    PROVE  Sound /\ ReductionMove
  <1>1. /\ pc = "install" /\ turn # "InProgress" /\ storeHolds # "next"
        /\ "by" \in DOMAIN red /\ commit' = "none"
    BY Zenon DEF AwaitCommit, Inv, SessionInv, CommitInv
  <1>2. ReductionMove
    <2>1. CASE /\ pc' = "observe" /\ UNCHANGED turn
               /\ red' = [red EXCEPT !.replaced = red.replaced \/ red.installs = "checkpoint"]
      BY <1>1, <2>1, Zenon DEF AwaitCommit, ReductionMove, ReductionPlaces
    <2>2. CASE PhaseFails
      BY <1>1, <2>2, PhaseFailsMoves, Zenon DEF AwaitCommit
    <2>. QED BY <2>1, <2>2, Zenon DEF AwaitCommit
  <1>. QED BY <1>1, <1>2, MoveSound, Zenon DEF ReductionPlaces

LEMMA CommitTaskSound ==
    ASSUME Inv, CommitTask
    PROVE  Sound /\ UNCHANGED <<pc, red>>
  <1>1. pc \in {"install", "idle"}
    BY Zenon DEF CommitTask, StageBundle, RevalidateStaged, CommitStaged, CommitInMemory, Inv, CommitInv
  <1>2. UNCHANGED <<turn, batch, pending, pc, red>>
    BY Zenon DEF CommitTask, StageBundle, RevalidateStaged, CommitStaged, CommitInMemory,
           CommitTaskVars, sessionVars
  <1>3. storeHolds' = "next" => commit' = "written"
    BY Zenon DEF CommitTask, StageBundle, RevalidateStaged, CommitStaged, CommitInMemory, Inv, CommitInv
  <1>. QED BY <1>1, <1>2, <1>3, CommitKeeps, Zenon

LEMMA ReductionStepSound ==
    ASSUME Inv, ReductionStep
    PROVE  Sound /\ ((pc \in ReductionPlaces /\ ReductionMove) \/ UNCHANGED <<pc, red>>)
  <1>1. CASE CommitTask
    BY <1>1, CommitTaskSound, Zenon
  <1>2. ASSUME ~CommitTask PROVE pc \in ReductionPlaces
    BY <1>2, Zenon DEF ReductionStep, PrepareWindow, FitRequest, ShrinkRequest, GenerateCandidate,
                PrepareInstall, AwaitCommit, MeasureAgain, ReductionPlaces
  <1>. QED BY <1>1, <1>2, PrepareWindowSound, FitRequestSound, ShrinkRequestSound,
              GenerateCandidateSound, PrepareInstallSound, AwaitCommitSound, MeasureAgainSound, Zenon
           DEF ReductionStep

LEMMA CompactContextSound ==
    ASSUME Inv, CompactContext
    PROVE  Sound /\ pc' \in ReductionPlaces /\ red'.by = "manual"
  <1>1. pc = "idle" /\ commit = "none" /\ storeHolds # "next" /\ turn # "InProgress"
    BY Zenon DEF CompactContext, PermitFree, Inv, CommitInv, SessionInv
  <1>2. /\ UNCHANGED <<turn, batch, pending, commit, storeHolds>>
        /\ pc' = "reduce" /\ "by" \in DOMAIN red' /\ red'.by = "manual"
    BY Zenon DEF CompactContext, ReductionBegins, NoReduction, sessionVars
  <1>3. SessionInv' /\ CommitInv' /\ Untouched
    BY <1>1, <1>2, Zenon DEF Inv, SessionInv, CommitInv, Untouched, ReductionPlaces
  <1>. QED BY <1>2, <1>3, KeepConverses, Zenon DEF Sound, Inv, ReductionPlaces

-----------------------------------------------------------------------------
(***************************************************************************)
(* Steps of a model turn.                                                  *)
(***************************************************************************)

\* Away from an install the commit half of the invariant is idle.
LEMMA NoCommitKept ==
    ASSUME Inv, pc \notin {"install", "idle"}, UNCHANGED <<commit, storeHolds>>
    PROVE  CommitInv' /\ Untouched
  BY NoCommit, Zenon DEF CommitInv, Untouched

\* A step that fails or is cancelled aborts its turn.
LEMMA StepEndsSound ==
    ASSUME Inv, pc \notin {"install", "idle"}, FailStep \/ CancelStep,
           UNCHANGED <<pending, red, commit, storeHolds>>
    PROVE  Sound /\ pc' = "classify"
  <1>1. turn' = Aborted(turn) /\ pc' = "classify"
    BY Zenon DEF FailStep, CancelStep
  <1>2. SessionInv'
    BY <1>1, Zenon DEF Inv, SessionInv, Aborted, ReductionPlaces
  <1>. QED BY <1>1, <1>2, NoCommitKept, AbortConverses, Zenon DEF Sound, Inv

\* The place moves and the session stays.
LEMMA PlaceMovesSound ==
    ASSUME Inv, pc \notin {"install", "idle"}, UNCHANGED <<turn, pending, red, commit, storeHolds>>,
           pc' \in {"record", "stream"} <=> pc \in {"record", "stream"},
           pc' \in {"prepare", "begin"} => pending = {},
           pc' \in ReductionPlaces => pc \in ReductionPlaces
    PROVE  Sound
  <1>1. SessionInv'
    BY Zenon DEF Inv, SessionInv
  <1>. QED BY <1>1, NoCommitKept, KeepConverses, Zenon DEF Sound, Inv

LEMMA StartStepSound ==
    ASSUME Inv, StartStep
    PROVE  Sound /\ pc' \in {"prepare", "classify"}
  <1>1. pc = "step" /\ UNCHANGED <<pending, red, commit, storeHolds>>
    BY Zenon DEF StartStep, StepOnly, reductionVars
  <1>2. CASE StepCancels \/ StepFails
    BY <1>1, <1>2, StepEndsSound, Zenon DEF StepCancels, StepFails
  <1>3. CASE pending = {} /\ pc' = "prepare" /\ UNCHANGED turn
    BY <1>1, <1>3, PlaceMovesSound, Zenon DEF ReductionPlaces
  <1>. QED BY <1>2, <1>3, Zenon DEF StartStep

LEMMA PrepareRequestSound ==
    ASSUME Inv, PrepareRequest
    PROVE  Sound /\ pc' \in {"begin", "reduce", "classify"}
  <1>1. pc = "prepare" /\ pending = {} /\ UNCHANGED <<pending, commit, storeHolds>>
    BY Zenon DEF PrepareRequest, CallsKept, Inv, SessionInv
  <1>2. CASE (StepCancels \/ StepFails) /\ UNCHANGED red
    BY <1>1, <1>2, StepEndsSound, Zenon DEF StepCancels, StepFails
  <1>3. CASE pc' = "begin" /\ UNCHANGED <<red, turn>>
    BY <1>1, <1>3, PlaceMovesSound, Zenon DEF ReductionPlaces
  <1>4. CASE UNCHANGED turn /\ \E b \in Hard..MaxBody : ReductionBegins("step", b)
    <2>1. pc' = "reduce" /\ "by" \in DOMAIN red'
      BY <1>4, Zenon DEF ReductionBegins, NoReduction
    <2>2. SessionInv'
      BY <1>1, <1>4, <2>1, Zenon DEF Inv, SessionInv
    <2>. QED BY <1>1, <1>4, <2>1, <2>2, NoCommitKept, KeepConverses, Zenon DEF Sound, Inv
  <1>. QED BY <1>2, <1>3, <1>4, Zenon DEF PrepareRequest

LEMMA BeginTurnSound ==
    ASSUME Inv, BeginTurn
    PROVE  Sound /\ pc' \in {"record", "classify"}
  <1>1. pc = "begin" /\ pending = {} /\ UNCHANGED <<pending, red, commit, storeHolds>>
    BY Zenon DEF BeginTurn, CallsKept, StepOnly, reductionVars, Inv, SessionInv
  <1>2. CASE StepCancels
    BY <1>1, <1>2, StepEndsSound, Zenon DEF StepCancels
  <1>3. CASE turn' = "InProgress" /\ pc' = "record"
    <2>1. turn # "InProgress"
      BY <1>1, Zenon DEF Inv, SessionInv
    <2>2. Converses
      BY <1>1, <1>3, <2>1, Zenon DEF Converses, Conv!Converse, Conv!Begin
    <2>3. SessionInv'
      BY <1>1, <1>3, Zenon DEF Inv, SessionInv, ReductionPlaces
    <2>. QED BY <1>1, <1>3, <2>2, <2>3, NoCommitKept, Zenon DEF Sound, Inv
  <1>. QED BY <1>2, <1>3, Zenon DEF BeginTurn

LEMMA RecordInputSound ==
    ASSUME Inv, RecordInput
    PROVE  Sound /\ pc' \in {"stream", "classify"}
  <1>1. pc = "record" /\ UNCHANGED <<pending, red, commit, storeHolds>>
    BY Zenon DEF RecordInput, CallsKept, StepOnly, reductionVars
  <1>2. CASE StepCancels \/ StepFails
    BY <1>1, <1>2, StepEndsSound, Zenon DEF StepCancels, StepFails
  <1>3. CASE pc' = "stream" /\ UNCHANGED turn
    BY <1>1, <1>3, PlaceMovesSound, Zenon DEF ReductionPlaces
  <1>. QED BY <1>2, <1>3, Zenon DEF RecordInput

LEMMA AttemptsSound ==
    ASSUME Inv, Attempts
    PROVE  Sound /\ UNCHANGED <<pc, red>>
  <1>1. UNCHANGED <<pc, turn, batch, pending, red, commit, storeHolds>>
    BY Zenon DEF Attempts, AttemptEvent, AttemptFails, NextAttempt, AttemptOnly, StepOnly,
           sessionVars, reductionVars
  <1>2. SessionInv' /\ CommitInv'
    BY <1>1, Zenon DEF Inv, SessionInv, CommitInv
  <1>3. Untouched
    BY <1>1, Zenon DEF Inv, CommitInv, Untouched, sessionVars
  <1>. QED BY <1>1, <1>2, <1>3, KeepConverses, Zenon DEF Sound, Inv

\* A response requests at least one call and no more than a batch holds.
LEMMA BatchSize ==
    ASSUME NEW calls \in Batches
    PROVE  (1..Len(calls)) \in (SUBSET (1..MaxBatch)) \ {{}}
  <1>1. Len(calls) \in Nat /\ Len(calls) # 0
    BY TurnAssumption
  <1>2. Len(calls) <= MaxBatch /\ MaxBatch \in Nat
    BY LoopAssumption, Zenon
  <1>3. 1 \in 1..Len(calls) /\ 1..Len(calls) \subseteq 1..MaxBatch
    BY <1>1, <1>2
  <1>. QED BY <1>3, Zenon

LEMMA ConsumeEventSound ==
    ASSUME Inv, ConsumeEvent
    PROVE  Sound /\ pc' \in {"stream", "announce", "classify"} /\ UNCHANGED red
  <1>1. /\ pc = "stream" /\ turn = "InProgress" /\ pending = {}
        /\ UNCHANGED <<red, commit, storeHolds>>
    BY Zenon DEF ConsumeEvent, StepOnly, reductionVars, Inv, SessionInv
  <1>2. \/ UNCHANGED pending /\ (UNCHANGED <<pc, turn>> \/ StepFails \/ StepCancels \/ RecordAnswer)
        \/ \E calls \in Batches : RecordCalls(calls)
    BY Zenon DEF ConsumeEvent, CallsKept, Shows
  <1>3. CASE UNCHANGED <<pc, turn, pending>>
    BY <1>1, <1>3, PlaceMovesSound, Zenon DEF ReductionPlaces
  <1>4. CASE UNCHANGED pending /\ (StepFails \/ StepCancels)
    BY <1>1, <1>4, StepEndsSound, Zenon DEF StepCancels, StepFails
  <1>5. CASE UNCHANGED pending /\ RecordAnswer
    <2>1. turn' = "Completed" /\ pc' = "classify" /\ pending' = {}
      BY <1>1, <1>5, Zenon DEF RecordAnswer
    <2>2. Converses
      BY <1>1, <2>1, Zenon DEF Converses, Conv!Converse, Conv!Answer
    <2>3. SessionInv'
      BY <1>1, <2>1, Zenon DEF Inv, SessionInv
    <2>. QED BY <1>1, <2>1, <2>2, <2>3, NoCommitKept, Zenon DEF Sound, Inv
  <1>6. ASSUME NEW calls \in Batches, RecordCalls(calls)
        PROVE  Sound /\ pc' = "announce"
    <2>1. /\ turn' = "AwaitingToolResults" /\ pc' = "announce"
          /\ pending' \in (SUBSET (1..MaxBatch)) \ {{}}
      BY <1>6, BatchSize, Zenon DEF RecordCalls
    <2>2. Converses
      BY <1>1, <2>1, Zenon DEF Converses, Conv!Converse, Conv!Request
    <2>3. SessionInv'
      BY <1>1, <2>1, Zenon DEF Inv, SessionInv, ReductionPlaces
    <2>. QED BY <1>1, <2>1, <2>2, <2>3, NoCommitKept, Zenon DEF Sound, Inv
  <1>. QED BY <1>1, <1>2, <1>3, <1>4, <1>5, <1>6, StepEndsSound, Zenon
           DEF RecordAnswer, StepFails, StepCancels, FailStep, CancelStep

LEMMA ConsumeCancelledSound ==
    ASSUME Inv, ConsumeCancelled
    PROVE  Sound /\ pc' = "classify" /\ UNCHANGED red
  <1>1. pc = "stream" /\ StepCancels /\ UNCHANGED <<pending, red, commit, storeHolds>>
    BY Zenon DEF ConsumeCancelled, CallsKept, StepOnly, reductionVars
  <1>. QED BY <1>1, StepEndsSound, Zenon DEF StepCancels

\* A recorded result leaves the place, or moves it between places of the loop.
LEMMA RecordSound ==
    ASSUME Inv, NEW S, Record(S), pc \notin {"install", "idle"},
           UNCHANGED <<red, commit, storeHolds>>,
           pc' \notin {"record", "stream", "prepare", "begin"} \cup ReductionPlaces
    PROVE  Sound
  <1>1. Converses /\ pending' \subseteq 1..MaxBatch /\ turn' # "InProgress"
    BY RecordConverses, Zenon DEF Inv
  <1>2. pending' # {} => turn' = "AwaitingToolResults"
    BY RecordConverses, Zenon DEF Inv
  <1>3. SessionInv'
    BY <1>1, <1>2, Zenon DEF Inv, SessionInv
  <1>. QED BY <1>1, <1>3, NoCommitKept, Zenon DEF Sound, Inv

LEMMA AnnounceCallsSound ==
    ASSUME Inv, AnnounceCalls
    PROVE  Sound /\ pc' \in {"announce", "classify"} /\ UNCHANGED red
  <1>1. pc = "announce" /\ UNCHANGED <<red, commit, storeHolds>>
    BY Zenon DEF AnnounceCalls, StepOnly, reductionVars
  <1>2. \/ CancelStep /\ UNCHANGED pending
        \/ pc' = "classify" /\ UNCHANGED <<turn, pending>>
        \/ UNCHANGED <<pc, turn, pending>>
        \/ pc' = pc /\ \E i : Record({i})
    BY Zenon DEF AnnounceCalls, CallsKept, sessionVars
  <1>3. CASE CancelStep /\ UNCHANGED pending
    BY <1>1, <1>3, StepEndsSound, Zenon
  <1>4. CASE pc' \in {"announce", "classify"} /\ UNCHANGED <<turn, pending>>
    BY <1>1, <1>4, PlaceMovesSound, Zenon DEF ReductionPlaces
  <1>5. CASE pc' = pc /\ \E i : Record({i})
    BY <1>1, <1>5, RecordSound, Zenon DEF ReductionPlaces
  <1>. QED BY <1>1, <1>2, <1>3, <1>4, <1>5, Zenon

LEMMA TurnStepSound ==
    ASSUME Inv, TurnStep
    PROVE  /\ Sound
           /\ \/ UNCHANGED <<pc, red>>
              \/ pc \notin {"idle"} \cup ReductionPlaces /\ pc' \notin {"top", "tools"}
  <1>1. ASSUME pc \in {"step", "prepare", "begin", "record", "stream", "announce"}
        PROVE  pc \notin {"idle"} \cup ReductionPlaces
    BY <1>1, Zenon DEF ReductionPlaces
  <1>2. CASE StartStep
    BY <1>1, <1>2, StartStepSound, Zenon DEF StartStep
  <1>3. CASE PrepareRequest
    BY <1>1, <1>3, PrepareRequestSound, Zenon DEF PrepareRequest
  <1>4. CASE BeginTurn
    BY <1>1, <1>4, BeginTurnSound, Zenon DEF BeginTurn
  <1>5. CASE RecordInput
    BY <1>1, <1>5, RecordInputSound, Zenon DEF RecordInput
  <1>6. CASE Attempts
    BY <1>6, AttemptsSound, Zenon
  <1>7. CASE ConsumeEvent
    BY <1>1, <1>7, ConsumeEventSound, Zenon DEF ConsumeEvent
  <1>8. CASE ConsumeCancelled
    BY <1>1, <1>8, ConsumeCancelledSound, Zenon DEF ConsumeCancelled
  <1>9. CASE AnnounceCalls
    BY <1>1, <1>9, AnnounceCallsSound, Zenon DEF AnnounceCalls
  <1>. QED BY <1>2, <1>3, <1>4, <1>5, <1>6, <1>7, <1>8, <1>9, Zenon DEF TurnStep

-----------------------------------------------------------------------------
(***************************************************************************)
(* Steps of the tools, the loop and the host.                              *)
(***************************************************************************)

\* Where the loop itself acts, and where it goes.
LoopPlaces == {"top", "classify", "tools"}
LoopTargets == {"idle", "top", "step", "classify", "tools"}

LEMMA LoopMoveSound ==
    ASSUME Inv, pc \in LoopPlaces, pc' \in LoopTargets,
           UNCHANGED <<red, commit, storeHolds>>,
           UNCHANGED sessionVars \/ \E S : Record(S)
    PROVE  Sound
  <1>1. CASE UNCHANGED sessionVars
    BY <1>1, PlaceMovesSound, Zenon DEF LoopPlaces, LoopTargets, ReductionPlaces, sessionVars
  <1>2. CASE \E S : Record(S)
    BY <1>2, RecordSound, Zenon DEF LoopPlaces, LoopTargets, ReductionPlaces
  <1>. QED BY <1>1, <1>2, Zenon

\* A step of a call moves its future or records its result.
LEMMA ToolStepSound ==
    ASSUME Inv, ToolStep, UNCHANGED reductionVars
    PROVE  Sound /\ UNCHANGED <<pc, red>>
  <1>1. pc = "tools" /\ UNCHANGED <<red, commit, storeHolds>>
    BY Zenon DEF ToolStep, reductionVars
  <1>2. PICK i \in todo :
            \/ StartCall(i) \/ ProposalReturns(i) \/ ReuseGrant(i)
            \/ ModelReviews(i) \/ TakeAnswer(i) \/ EffectReturns(i) \/ RecordOutcome(i)
    BY Zenon DEF ToolStep
  <1>3. ASSUME NEW stage, Stage(i, stage) PROVE UNCHANGED sessionVars
    BY <1>3, Zenon DEF Stage, NoResult
  <1>4. ASSUME Resolve(i) PROVE \E S : Record(S)
    BY <1>4, Zenon DEF Resolve
  <1>5. UNCHANGED sessionVars \/ \E S : Record(S)
    <2>1. CASE StartCall(i)
      BY <1>3, <1>4, <2>1, Zenon DEF StartCall
    <2>2. CASE ProposalReturns(i)
      <3>1. CASE ReviewProcess(i)
        BY <1>3, <1>4, <3>1, Zenon DEF ReviewProcess
      <3>. QED BY <1>3, <1>4, <2>2, <3>1, Zenon DEF ProposalReturns
    <2>3. CASE ReuseGrant(i)
      BY <1>3, <2>3, Zenon DEF ReuseGrant
    <2>4. CASE ModelReviews(i)
      BY <1>3, <1>4, <2>4, Zenon DEF ModelReviews
    <2>5. CASE TakeAnswer(i)
      BY <1>3, <1>4, <2>5, Zenon DEF TakeAnswer
    <2>6. CASE EffectReturns(i)
      BY <1>3, <2>6, Zenon DEF EffectReturns
    <2>7. CASE RecordOutcome(i)
      BY <1>3, <1>4, <2>7, Zenon DEF RecordOutcome
    <2>. QED BY <1>2, <2>1, <2>2, <2>3, <2>4, <2>5, <2>6, <2>7, Zenon
  <1>6. pc' = pc
    BY <1>2, Zenon DEF StartCall, ProposalReturns, ReuseGrant, ModelReviews, TakeAnswer,
                EffectReturns, RecordOutcome, ToolFrame
  <1>. QED BY <1>1, <1>5, <1>6, LoopMoveSound, Zenon DEF LoopPlaces, LoopTargets

LEMMA HostAnswersSound ==
    ASSUME Inv, HostAnswers, pc = "tools", UNCHANGED reductionVars
    PROVE  Sound /\ UNCHANGED <<pc, red>>
  <1>1. UNCHANGED sessionVars /\ pc' = pc
    BY Zenon DEF HostAnswers, NoResult, ToolFrame
  <1>. QED BY <1>1, LoopMoveSound, Zenon DEF LoopPlaces, LoopTargets, reductionVars

LEMMA LoopStepSound ==
    ASSUME Inv, LoopStep
    PROVE  Sound /\ pc \in LoopPlaces /\ pc' \in LoopTargets
  <1>1. pc \in LoopPlaces
    BY Zenon DEF LoopStep, LoopTop, OnStepEnded, OnCompleted, OnToolResultRecorded, OnFinalOutput,
           OnCalls, GroupEnds, OfferBridge, TakeBridgeResult, CancelBridge, SettleBridge,
           LoopPlaces
  <1>2. UNCHANGED <<red, commit, storeHolds>>
    BY Zenon DEF LoopStep, LoopTop, OnStepEnded, OnCompleted, OnToolResultRecorded, OnFinalOutput,
           OnCalls, GroupEnds, OfferBridge, TakeBridgeResult, CancelBridge, SettleBridge,
           OutcomeOnly, NotLoop, reductionVars
  <1>3. ASSUME NEW done, AfterCalls(done) PROVE pc' \in {pc, "top"}
    BY <1>3, Zenon DEF AfterCalls, Continue
  <1>4. pc' \in LoopTargets
    BY <1>1, <1>3, Zenon DEF LoopStep, LoopTop, OnStepEnded, OnCompleted, OnToolResultRecorded,
           OnFinalOutput, OnCalls, GroupEnds, OfferBridge, TakeBridgeResult, CancelBridge,
           SettleBridge, Finish, Continue, LoopPlaces, LoopTargets
  <1>5. UNCHANGED sessionVars \/ \E S : Record(S)
    BY Zenon DEF LoopStep, LoopTop, OnStepEnded, OnCompleted, OnToolResultRecorded, OnFinalOutput,
           OnCalls, GroupEnds, OfferBridge, TakeBridgeResult, CancelBridge, SettleBridge,
           OutcomeOnly
  <1>. QED BY <1>1, <1>2, <1>4, <1>5, LoopMoveSound, Zenon

LEMMA HostSound ==
    ASSUME Inv, Host
    PROVE  Sound
  <1>1. CASE StartRun
    <2>1. /\ pc = "idle" /\ pc' = "top" /\ storeHolds # "next" /\ commit = "none"
          /\ UNCHANGED <<turn, batch, pending, red, commit, storeHolds>>
      BY <1>1, Zenon DEF StartRun, PermitFree, NotLoop, reductionVars, sessionVars, Inv, CommitInv
    <2>2. SessionInv' /\ CommitInv' /\ Untouched
      BY <2>1, Zenon DEF Inv, SessionInv, CommitInv, Untouched, ReductionPlaces
    <2>. QED BY <2>1, <2>2, KeepConverses, Zenon DEF Sound, Inv
  <1>2. ASSUME UNCHANGED <<pc, sessionVars, reductionVars>> PROVE Sound
    <2>1. SessionInv' /\ CommitInv' /\ Untouched
      BY <1>2, Zenon DEF Inv, SessionInv, CommitInv, Untouched, sessionVars, reductionVars
    <2>. QED BY <1>2, <2>1, KeepConverses, Zenon DEF Sound, Inv, sessionVars
  <1>3. CASE Cancel \/ RaiseNotice \/ HostSubmits
    BY <1>2, <1>3, Zenon DEF Cancel, RaiseNotice, HostSubmits, NotLoop
  <1>4. CASE DropRun
    <2>1. /\ pc' = "idle" /\ turn' = Aborted(turn) /\ UNCHANGED <<batch, pending, storeHolds>>
          /\ red' = NoReduction
          /\ commit' = IF commit \in {"ok", "failed"} THEN "none" ELSE commit
      BY <1>4, Zenon DEF DropRun, Finish, CallsKept
    <2>2. SessionInv'
      BY <2>1, Zenon DEF Inv, SessionInv, Aborted, NoReduction, ReductionPlaces
    <2>3. CommitInv'
      BY <2>1, Zenon DEF Inv, CommitInv
    <2>4. Untouched
      BY <2>1, Zenon DEF Inv, SessionInv, CommitInv, Untouched, Aborted, sessionVars
    <2>. QED BY <2>1, <2>2, <2>3, <2>4, AbortConverses, Zenon DEF Sound, Inv
  <1>5. CASE SettleCalls
    <2>1. PICK S : Record(S)
      BY <1>5, Zenon DEF SettleCalls
    <2>2. /\ Converses /\ pending' \subseteq 1..MaxBatch
          /\ pending' # {} => turn' = "AwaitingToolResults"
          /\ turn' # "InProgress"
      BY <2>1, RecordConverses, Zenon DEF Inv
    <2>3. /\ pc = "idle" /\ storeHolds # "next" /\ commit = "none"
          /\ UNCHANGED <<pc, red, commit, storeHolds>>
      BY <1>5, Zenon DEF SettleCalls, PermitFree, Inv, CommitInv, reductionVars
    <2>4. SessionInv' /\ CommitInv' /\ Untouched
      BY <2>2, <2>3, Zenon DEF Inv, SessionInv, CommitInv, Untouched, ReductionPlaces
    <2>. QED BY <2>2, <2>4, Zenon DEF Sound, Inv
  <1>. QED BY <1>1, <1>3, <1>4, <1>5, Zenon DEF Host

LEMMA StepSound ==
    ASSUME Inv, [Next]_vars
    PROVE  Sound
  <1>1. CASE Next
    <2>1. CASE System
      BY <2>1, LoopStepSound, TurnStepSound, ReductionStepSound, ToolStepSound, Zenon DEF System
    <2>2. CASE Host
      BY <2>2, HostSound, Zenon
    <2>3. CASE CompactContext
      BY <2>3, CompactContextSound, Zenon
    <2>4. CASE HostAnswers /\ pc = "tools" /\ UNCHANGED reductionVars
      BY <2>4, HostAnswersSound, Zenon
    <2>. QED BY <1>1, <2>1, <2>2, <2>3, <2>4, Zenon DEF Next
  <1>2. CASE UNCHANGED vars
    <2>1. SessionInv' /\ CommitInv' /\ Untouched
      BY <1>2, Zenon DEF vars, Inv, SessionInv, CommitInv, Untouched, sessionVars, reductionVars
    <2>. QED BY <1>2, <2>1, KeepConverses, Zenon DEF Sound, Inv, vars, sessionVars
  <1>. QED BY <1>1, <1>2, Zenon

LEMMA InitInv == Init => Inv
  BY Zenon DEF Init, ReductionInit, NoReduction, Inv, SessionInv, CommitInv, ReductionPlaces

\* The place of the task and the session stay in step, and a commit task
\* exists only during an install or after its run was dropped.
THEOREM Invariant == Spec => []Inv
  <1>1. Inv /\ [Next]_vars => Inv'
    BY StepSound, Zenon DEF Sound
  <1>. QED BY InitInv, <1>1, PTL DEF Spec

\* Every step of the loop, its tools, its reductions and its host is a step of
\* the Conversation or leaves it alone (ImplementsConversation).
THEOREM LoopImplementsConversation == Spec => ImplementsConversation
  <1>1. Init => Conv!Start
    BY Zenon DEF Init, Conv!Start
  <1>2. Inv /\ [Next]_vars => [Conv!Converse]_(Conv!conversationVars)
    BY StepSound, Zenon DEF Sound, Converses
  <1>. QED BY Invariant, <1>1, <1>2, PTL DEF Spec, ImplementsConversation, Conv!ConversationSpec

\* While the store is ahead of memory nothing changes the session's turns and
\* calls, and no run or compaction goes on or starts (CheckpointAgrees).
THEOREM StoreNeverOvertaken == Spec => CheckpointAgrees
  <1>1. Inv /\ [Next]_vars =>
          [storeHolds = "next" => sessionVars' = sessionVars /\ pc' \in {"install", "idle"}]_vars
    BY StepSound, Zenon DEF Sound, Untouched
  <1>. QED BY Invariant, <1>1, PTL DEF Spec, CheckpointAgrees

-----------------------------------------------------------------------------
(***************************************************************************)
(* The turn budget.                                                        *)
(***************************************************************************)
Runs ==
    [mode : {"none", "collect", "stream"}, contract : BOOLEAN,
     input : {"none", "user", "continue", "note"}, deferred : BOOLEAN,
     turns : Nat, retries : Nat, deferrals : Nat, raised : Nat]

\* The input that was put off may still cost a turn.
Owed == IF run.deferred THEN 1 ELSE 0

BudgetInv ==
    /\ run \in Runs /\ notice \in BOOLEAN
    /\ Owed <= run.deferrals
    /\ run.turns + Owed <= MaxTurns + run.deferrals
    /\ pc = "top" => run.turns + 1 + Owed <= MaxTurns + run.deferrals
    /\ pc = "tools" => run.turns < MaxTurns
    /\ run.mode = "none" => pc = "idle" \/ (pc \in ReductionPlaces /\ red.by = "manual")

LEMMA FinishBudget ==
    ASSUME run' = NoRun, pc' = "idle", notice' \in BOOLEAN
    PROVE  BudgetInv'
  <1>1. NoRun \in Runs
    BY Zenon DEF NoRun, Runs
  <1>2. run'.mode = "none" /\ run'.deferred = FALSE /\ run'.turns = 0 /\ run'.deferrals = 0
    BY Zenon DEF NoRun
  <1>3. Owed' = 0
    BY <1>2 DEF Owed
  <1>. QED BY <1>1, <1>2, <1>3, LoopAssumption DEF BudgetInv

\* A step that leaves the loop's locals alone and goes neither to the top nor
\* to the tools.
LEMMA PlaceBudget ==
    ASSUME BudgetInv, UNCHANGED <<run, notice>>,
           pc' \in {"top", "tools"} => pc' = pc,
           run.mode = "none" => pc' = "idle" \/ (pc' \in ReductionPlaces /\ red'.by = "manual")
    PROVE  BudgetInv'
  BY Zenon DEF BudgetInv, Owed

\* Back to the top: with turns left, or with the deferred input, whose turn is
\* owed already.
LEMMA TopBudget ==
    ASSUME BudgetInv, pc' = "top", run' \in Runs, notice' \in BOOLEAN,
           run'.mode = run.mode, run.mode # "none",
           run'.turns = run.turns, run'.deferrals = run.deferrals,
           run'.deferred => run.deferred,
           run.turns < MaxTurns \/ (run.deferred /\ ~run'.deferred)
    PROVE  BudgetInv'
  <1>1. run.turns \in Nat /\ run.deferrals \in Nat /\ MaxTurns \in Nat
    BY LoopAssumption, Zenon DEF BudgetInv, Runs
  <1>2. (Owed' = 0 /\ (Owed = 0 \/ Owed = 1)) \/ (Owed' = 1 /\ Owed = 1)
    BY Zenon DEF Owed
  <1>3. run.turns < MaxTurns \/ (Owed' = 0 /\ Owed = 1)
    BY Zenon DEF Owed
  <1>4. run.turns + Owed <= MaxTurns + run.deferrals /\ Owed <= run.deferrals
    BY Zenon DEF BudgetInv
  <1>5. Owed' <= run.deferrals /\ run.turns + 1 + Owed' <= MaxTurns + run.deferrals
    BY <1>1, <1>2, <1>3, <1>4
  <1>6. run.turns + Owed' <= MaxTurns + run.deferrals
    BY <1>1, <1>2, <1>5
  <1>. QED BY <1>5, <1>6, Zenon DEF BudgetInv

LEMMA LoopTopBudget ==
    ASSUME BudgetInv, LoopTop
    PROVE  BudgetInv'
  <1>. DEFINE count == IF Defers THEN run.deferrals + 1 ELSE run.deferrals
  <1>1. CASE Finish("Cancelled")
    BY <1>1, FinishBudget, Zenon DEF LoopTop, Finish
  <1>2. CASE /\ pc' = "step"
             /\ run' = [run EXCEPT !.input = "none", !.turns = run.turns + 1,
                           !.deferred = run.deferred \/ Defers, !.deferrals = count]
    <2>1. /\ run \in Runs /\ notice \in BOOLEAN /\ MaxTurns \in Nat
          /\ pc = "top" /\ notice' = FALSE
          /\ run.turns + 1 + Owed <= MaxTurns + run.deferrals /\ Owed <= run.deferrals
          /\ run.mode # "none"
      BY LoopAssumption, Zenon DEF BudgetInv, LoopTop, ReductionPlaces
    <2>2. run.turns \in Nat /\ run.deferrals \in Nat /\ run.deferred \in BOOLEAN
      BY <2>1, Zenon DEF Runs
    <2>3. /\ run' \in Runs /\ run'.mode = run.mode /\ run'.turns = run.turns + 1
          /\ run'.deferred = (run.deferred \/ Defers) /\ run'.deferrals = count
      <3>. DEFINE put == run.deferred \/ Defers
      <3>1. put \in BOOLEAN
        BY Zenon
      <3>2. count \in Nat
        BY <2>2
      <3>. DEFINE r1 == [run EXCEPT !.input = "none"]
                  r2 == [r1 EXCEPT !.turns = run.turns + 1]
                  r3 == [r2 EXCEPT !.deferred = put]
                  r4 == [r3 EXCEPT !.deferrals = count]
      <3>3. run' = r4
        BY <1>2, Zenon
      <3>. HIDE DEF put, count
      <3>4. r1 \in Runs /\ r1.mode = run.mode /\ r1.turns = run.turns
        BY <2>1, Zenon DEF Runs
      <3>. HIDE DEF r1
      <3>5. r2 \in Runs /\ r2.mode = run.mode /\ r2.turns = run.turns + 1
        BY <2>1, <3>4 DEF Runs
      <3>. HIDE DEF r2
      <3>6. /\ r3 \in Runs /\ r3.mode = run.mode /\ r3.turns = run.turns + 1
            /\ r3.deferred = put
        BY <3>1, <3>5, Zenon DEF Runs
      <3>. HIDE DEF r3
      <3>7. /\ r4 \in Runs /\ r4.mode = run.mode /\ r4.turns = run.turns + 1
            /\ r4.deferred = put /\ r4.deferrals = count
        BY <3>2, <3>6, Zenon DEF Runs
      <3>. HIDE DEF r4
      <3>. QED BY <3>3, <3>7, Zenon DEF put
    <2>4. \/ run'.deferrals = run.deferrals + 1 /\ Owed' = 1 /\ (Owed = 0 \/ Owed = 1)
          \/ run'.deferrals = run.deferrals /\ Owed' = Owed /\ (Owed = 0 \/ Owed = 1)
      BY <2>3, Zenon DEF Owed
    <2>. HIDE DEF count
    <2>5. Owed' <= run'.deferrals /\ run'.turns + Owed' <= MaxTurns + run'.deferrals
      BY <2>1, <2>2, <2>3, <2>4
    <2>. QED BY <1>2, <2>1, <2>3, <2>5, Zenon DEF BudgetInv
  <1>. QED BY <1>1, <1>2, Zenon DEF LoopTop

\* The loop acts only in a run.
LEMMA LoopHasRun ==
    ASSUME BudgetInv, pc \in LoopPlaces
    PROVE  /\ run \in Runs /\ run.mode # "none" /\ notice \in BOOLEAN
           /\ run.turns \in Nat /\ MaxTurns \in Nat
  BY LoopAssumption, Zenon DEF BudgetInv, LoopPlaces, ReductionPlaces, Runs

LEMMA ContinueBudget ==
    ASSUME BudgetInv, pc \in LoopPlaces, NEW input \in {"continue", "note"}, Continue(input),
           notice' \in BOOLEAN, run.turns < MaxTurns
    PROVE  BudgetInv'
  <1>1. run' = [run EXCEPT !.input = input] /\ pc' = "top"
    BY Zenon DEF Continue
  <1>2. /\ run' \in Runs /\ run'.mode = run.mode /\ run'.turns = run.turns
        /\ run'.deferrals = run.deferrals /\ run'.deferred = run.deferred
    BY <1>1, LoopHasRun, Zenon DEF Runs
  <1>. QED BY <1>1, <1>2, LoopHasRun, TopBudget, Zenon

LEMMA AfterCallsBudget ==
    ASSUME BudgetInv, pc = "tools", NEW done, AfterCalls(done), UNCHANGED notice
    PROVE  BudgetInv'
  <1>1. run.turns < MaxTurns /\ pc \in LoopPlaces /\ notice \in BOOLEAN
    BY Zenon DEF BudgetInv, LoopPlaces
  <1>2. CASE Continue("continue")
    BY <1>1, <1>2, ContinueBudget, Zenon
  <1>3. CASE UNCHANGED <<run, pc>>
    BY <1>1, <1>3, LoopHasRun, PlaceBudget, Zenon
  <1>. QED BY <1>2, <1>3, Zenon DEF AfterCalls

LEMMA LoopStepBudget ==
    ASSUME BudgetInv, LoopStep
    PROVE  BudgetInv'
  <1>1. ASSUME NEW status, Finish(status), notice' \in BOOLEAN PROVE BudgetInv'
    BY <1>1, FinishBudget, Zenon DEF Finish
  <1>2. notice \in BOOLEAN
    BY Zenon DEF BudgetInv
  <1>3. ASSUME pc = "classify", ~OutOfTurns PROVE pc \in LoopPlaces /\ run.turns < MaxTurns
    BY <1>3, LoopHasRun DEF LoopPlaces, OutOfTurns
  <1>4. CASE LoopTop
    BY <1>4, LoopTopBudget, Zenon
  <1>5. CASE OnStepEnded
    BY <1>1, <1>2, <1>5, Zenon DEF OnStepEnded
  <1>6. CASE OnCompleted
    <2>1. CASE run.deferred /\ pc' = "top" /\ run' = [run EXCEPT !.input = "user", !.deferred = FALSE]
      <3>. DEFINE r1 == [run EXCEPT !.input = "user"]
      <3>1. run \in Runs /\ run.mode # "none" /\ notice' = FALSE
        BY <1>6, LoopHasRun, Zenon DEF OnCompleted, LoopPlaces
      <3>2. /\ r1 \in Runs /\ r1.mode = run.mode /\ r1.turns = run.turns
            /\ r1.deferrals = run.deferrals
        BY <3>1, Zenon DEF Runs
      <3>3. run' = [r1 EXCEPT !.deferred = FALSE]
        BY <2>1, Zenon
      <3>. HIDE DEF r1
      <3>4. /\ run' \in Runs /\ run'.mode = run.mode /\ run'.turns = run.turns
            /\ run'.deferrals = run.deferrals /\ run'.deferred = FALSE
        BY <3>2, <3>3, Zenon DEF Runs
      <3>. QED BY <2>1, <3>1, <3>4, TopBudget, Zenon
    <2>2. notice' = FALSE /\ pc = "classify"
      BY <1>6, Zenon DEF OnCompleted
    <2>. QED BY <1>1, <1>3, <1>6, <2>1, <2>2, ContinueBudget, Zenon DEF OnCompleted
  <1>7. CASE OnToolResultRecorded
    BY <1>1, <1>2, <1>3, <1>7, ContinueBudget, Zenon DEF OnToolResultRecorded
  <1>8. CASE OnFinalOutput
    <2>1. pc = "classify" /\ notice' = FALSE
      BY <1>8, Zenon DEF OnFinalOutput
    <2>2. CASE /\ ~OutOfTurns /\ pc' = "top"
               /\ run' = [run EXCEPT !.input = "continue", !.retries = run.retries + 1]
      <3>. DEFINE r1 == [run EXCEPT !.input = "continue"]
      <3>1. run \in Runs /\ run.mode # "none" /\ run.retries + 1 \in Nat
        BY <2>1, LoopHasRun DEF LoopPlaces, Runs
      <3>2. /\ r1 \in Runs /\ r1.mode = run.mode /\ r1.turns = run.turns
            /\ r1.deferrals = run.deferrals /\ r1.deferred = run.deferred
        BY <3>1, Zenon DEF Runs
      <3>3. run' = [r1 EXCEPT !.retries = run.retries + 1]
        BY <2>2, Zenon
      <3>. HIDE DEF r1
      <3>4. /\ run' \in Runs /\ run'.mode = run.mode /\ run'.turns = run.turns
            /\ run'.deferrals = run.deferrals /\ run'.deferred = run.deferred
        BY <3>1, <3>2, <3>3, Zenon DEF Runs
      <3>. QED BY <1>3, <2>1, <2>2, <3>1, <3>4, TopBudget, Zenon
    <2>. QED BY <1>1, <1>3, <1>8, <2>1, <2>2, ContinueBudget, Zenon DEF OnFinalOutput
  <1>9. CASE OnCalls
    <2>1. CASE pc' = "tools" /\ UNCHANGED <<run, notice>> /\ pc = "classify" /\ ~OutOfTurns
      BY <1>3, <2>1, LoopHasRun, Zenon DEF BudgetInv, Owed
    <2>. QED BY <1>1, <1>2, <1>9, <2>1, Zenon DEF OnCalls
  <1>10. CASE GroupEnds
    BY <1>1, <1>2, <1>10, AfterCallsBudget, Zenon DEF GroupEnds
  <1>11. ASSUME pc = "tools", UNCHANGED <<pc, run, notice>> PROVE BudgetInv'
    BY <1>11, LoopHasRun, PlaceBudget, Zenon DEF LoopPlaces
  <1>12. CASE OfferBridge \/ CancelBridge
    BY <1>11, <1>12, Zenon DEF OfferBridge, CancelBridge
  <1>13. CASE TakeBridgeResult
    BY <1>11, <1>13, AfterCallsBudget, Zenon DEF TakeBridgeResult
  <1>14. CASE SettleBridge
    BY <1>1, <1>2, <1>11, <1>14, AfterCallsBudget, Zenon DEF SettleBridge
  <1>. QED BY <1>4, <1>5, <1>6, <1>7, <1>8, <1>9, <1>10, <1>12, <1>13, <1>14, Zenon DEF LoopStep

LEMMA StartRunBudget ==
    ASSUME BudgetInv, StartRun
    PROVE  BudgetInv'
  <1>. DEFINE due == IF notice THEN 1 ELSE 0
  <1>1. PICK config \in Configs, input \in {"user", "continue"} :
            run' = [NoRun EXCEPT !.mode = config.mode, !.contract = config.contract,
                                 !.input = input, !.raised = due]
    BY Zenon DEF StartRun
  <1>2. config.mode \in {"collect", "stream"} /\ config.contract \in BOOLEAN
    BY LoopAssumption, Zenon
  <1>3. due \in Nat
    OBVIOUS
  <1>. DEFINE r1 == [NoRun EXCEPT !.mode = config.mode]
              r2 == [r1 EXCEPT !.contract = config.contract]
              r3 == [r2 EXCEPT !.input = input]
              r4 == [r3 EXCEPT !.raised = due]
              fresh(r) == r \in Runs /\ ~r.deferred /\ r.turns = 0 /\ r.deferrals = 0
  <1>4. run' = r4
    BY <1>1, Zenon
  <1>5. fresh(run') /\ run'.mode = config.mode
    <2>. HIDE DEF due
    <2>1. fresh(NoRun)
      BY Zenon DEF NoRun, Runs
    <2>2. fresh(r1) /\ r1.mode = config.mode
      BY <1>2, <2>1, Zenon DEF Runs
    <2>. HIDE DEF r1
    <2>3. fresh(r2) /\ r2.mode = config.mode
      BY <1>2, <2>2, Zenon DEF Runs
    <2>. HIDE DEF r2
    <2>4. fresh(r3) /\ r3.mode = config.mode
      BY <2>3, Zenon DEF Runs
    <2>. HIDE DEF r3
    <2>5. fresh(r4) /\ r4.mode = config.mode
      BY <1>3, <2>4, Zenon DEF Runs
    <2>. HIDE DEF r4
    <2>. QED BY <1>4, <2>5, Zenon
  <1>6. /\ pc' = "top" /\ notice' \in BOOLEAN /\ MaxTurns \in Nat \ {0}
        /\ run'.mode # "none" /\ Owed' = 0
    BY LoopAssumption, <1>2, <1>5, Zenon DEF StartRun, BudgetInv, Owed
  <1>7. /\ Owed' <= run'.deferrals /\ run'.turns + Owed' <= MaxTurns + run'.deferrals
        /\ run'.turns + 1 + Owed' <= MaxTurns + run'.deferrals
    BY <1>5, <1>6
  <1>. QED BY <1>5, <1>6, <1>7, Zenon DEF BudgetInv

LEMMA RaiseNoticeBudget ==
    ASSUME BudgetInv, RaiseNotice
    PROVE  BudgetInv'
  <1>1. /\ run \in Runs /\ run.mode # "none" /\ notice' = TRUE
        /\ run' = [run EXCEPT !.raised = run.raised + 1]
        /\ UNCHANGED <<pc, red>>
    BY Zenon DEF RaiseNotice, BudgetInv, reductionVars
  <1>2. /\ run' \in Runs /\ run'.mode = run.mode /\ run'.turns = run.turns
        /\ run'.deferrals = run.deferrals /\ run'.deferred = run.deferred
    BY <1>1 DEF Runs
  <1>. QED BY <1>1, <1>2, Zenon DEF BudgetInv, Owed

LEMMA StepBudget ==
    ASSUME Inv, BudgetInv, [Next]_vars
    PROVE  BudgetInv'
  <1>1. ASSUME UNCHANGED <<run, notice, pc, red>> PROVE BudgetInv'
    BY <1>1, Zenon DEF BudgetInv, Owed
  <1>2. CASE LoopStep
    BY <1>2, LoopStepBudget, Zenon
  <1>3. CASE TurnStep /\ UNCHANGED loopVars
    <2>1. CASE pc \notin {"idle"} \cup ReductionPlaces /\ pc' \notin {"top", "tools"}
      <3>1. run.mode # "none"
        BY <2>1, Zenon DEF BudgetInv
      <3>. QED BY <1>3, <2>1, <3>1, PlaceBudget, Zenon DEF loopVars
    <2>. QED BY <1>1, <1>3, <2>1, TurnStepSound, Zenon DEF loopVars
  <1>4. CASE ReductionStep /\ UNCHANGED loopVars
    <2>1. CASE pc \in ReductionPlaces /\ ReductionMove
      <3>1. pc' \notin {"top", "tools"}
        BY <2>1, Zenon DEF ReductionMove, ReductionPlaces
      <3>2. run.mode = "none" => pc' = "idle" \/ (pc' \in ReductionPlaces /\ red'.by = "manual")
        BY <2>1, Zenon DEF ReductionMove, BudgetInv, ReductionPlaces
      <3>. QED BY <1>4, <3>1, <3>2, PlaceBudget, Zenon DEF loopVars
    <2>. QED BY <1>1, <1>4, <2>1, ReductionStepSound, Zenon DEF loopVars
  <1>5. CASE ToolStep /\ UNCHANGED <<reductionVars, loopVars>>
    BY <1>1, <1>5, ToolStepSound, Zenon DEF loopVars
  <1>6. CASE StartRun
    BY <1>6, StartRunBudget
  <1>7. CASE RaiseNotice
    BY <1>7, RaiseNoticeBudget
  <1>8. CASE DropRun
    <2>1. notice' \in BOOLEAN
      BY <1>8, Zenon DEF DropRun, BudgetInv
    <2>. QED BY <1>8, <2>1, FinishBudget, Zenon DEF DropRun, Finish
  <1>9. CASE Cancel \/ SettleCalls \/ HostSubmits
    BY <1>1, <1>9, Zenon DEF Cancel, SettleCalls, HostSubmits, NotLoop, loopVars, reductionVars
  <1>10. CASE CompactContext /\ UNCHANGED loopVars
    <2>1. pc' \in ReductionPlaces /\ red'.by = "manual"
      BY <1>10, CompactContextSound, Zenon
    <2>. QED BY <1>10, <2>1, PlaceBudget, Zenon DEF loopVars, ReductionPlaces
  <1>11. CASE HostAnswers /\ pc = "tools" /\ UNCHANGED <<reductionVars, loopVars>>
    BY <1>1, <1>11, HostAnswersSound, Zenon DEF loopVars
  <1>12. CASE UNCHANGED vars
    BY <1>1, <1>12, Zenon DEF vars, loopVars, reductionVars
  <1>. QED BY <1>2, <1>3, <1>4, <1>5, <1>6, <1>7, <1>8, <1>9, <1>10, <1>11, <1>12, Zenon
           DEF Next, System, Host

\* However notifications, bridge results, cancellations and retries of the
\* final output fall, a run starts no more model turns than max_model_turns
\* and one for each time it put its user's input off (TurnBudget).
THEOREM RunKeepsTurnBudget == Spec => []TurnBudget
  <1>1. Init => BudgetInv
    <2>. SUFFICES ASSUME Init PROVE BudgetInv
      BY Zenon
    <2>1. run = NoRun /\ pc = "idle" /\ notice \in BOOLEAN
      BY Zenon DEF Init
    <2>2. /\ run \in Runs /\ run.mode = "none" /\ run.deferred = FALSE
          /\ run.turns = 0 /\ run.deferrals = 0
      BY <2>1, Zenon DEF NoRun, Runs
    <2>3. Owed = 0
      BY <2>2 DEF Owed
    <2>. QED BY <2>1, <2>2, <2>3, LoopAssumption DEF BudgetInv
  <1>2. Inv /\ BudgetInv /\ [Next]_vars => BudgetInv'
    BY StepBudget, Zenon
  <1>3. BudgetInv => TurnBudget
    <2>1. ASSUME BudgetInv
          PROVE  /\ run.turns \in Nat /\ run.deferrals \in Nat /\ MaxTurns \in Nat
                 /\ Owed = 0 \/ Owed = 1
                 /\ run.turns + Owed <= MaxTurns + run.deferrals
      BY <2>1, LoopAssumption, Zenon DEF BudgetInv, Runs, Owed
    <2>. QED BY <2>1 DEF TurnBudget
  <1>. QED BY Invariant, <1>1, <1>2, <1>3, PTL DEF Spec
=============================================================================
