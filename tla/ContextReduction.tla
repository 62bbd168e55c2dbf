-------------------------- MODULE ContextReduction --------------------------
(***************************************************************************)
(* Context reduction (merry-runtime/src/runtime/auto_compaction): before a *)
(* model turn whose request is over the hard watermark, or when the host   *)
(* asks for it, passes of planning, generating and installing a checkpoint *)
(* run until the request is small enough or no pass makes progress.        *)
(*                                                                         *)
(* An install is a transaction of its own task: it stages the session      *)
(* document, checks that nothing changed, commits it to the store and then *)
(* to memory, holding a clone of the active-step permit, so that it        *)
(* outlives the run that started it.                                       *)
(*                                                                         *)
(* Token counts are small numbers; what a prepared window or a model reply *)
(* looks like is a choice.  Sessions without a store are left out: there   *)
(* the commit is one critical section.                                     *)
(***************************************************************************)
EXTENDS AgentRunState

CONSTANTS Target, Hard,      \* target_dynamic_body_tokens, hard_water_tokens
          MaxBody,           \* the largest body estimate
          MaxPasses,         \* MAX_COMPACTION_PASSES
          MaxTightenings,    \* MAX_COMPACTION_FIT_ATTEMPTS
          MaxRefits,         \* MAX_COMPACTION_TRUNCATION_REFITS
          Retained           \* one_shot_retained_tool_exchanges

ASSUME ReductionAssumption ==
    /\ {Target, Hard, MaxBody, MaxPasses, MaxTightenings, MaxRefits, Retained}
           \subseteq Nat
    /\ Hard <= MaxBody

VARIABLES
    red,        \* the reduction that is running
    commit,     \* where its commit task is
    storeHolds  \* the checkpoint of the store: the "same" as in memory, or
                \* the "next" one, which memory does not have yet

reductionVars == <<red, commit, storeHolds>>

\* The shapes a compaction request goes through as it fails to fit: appended
\* to the request, then one-shot with ever fewer tool exchanges, then rolling.
Appended == Retained + 2
Rolling == 0

NoReduction == [by |-> "none", body |-> 0, prev |-> 0, passes |-> 0,
                shape |-> Appended, tight |-> 0, refits |-> 0,
                replaced |-> FALSE, installs |-> "none"]

ReductionInit ==
    /\ red = NoReduction
    /\ commit = "none"
    /\ storeHolds = "same"

\* Mutant of PermitFree: the commit task does not hold a clone.
PermitFreeEarly == pc = "idle"

\* The permit is free: no run, no manual compaction and no commit task of one
\* holds a clone.
PermitFree == pc = "idle" /\ commit = "none"

\* CompactionProgress::new and the first pass.
ReductionBegins(by, b) ==
    /\ red' = [NoReduction EXCEPT !.by = by, !.body = b, !.prev = b]
    /\ pc' = "reduce"

\* The error of a manual compaction, or abort_with_error of a step; some paths
\* call abort_with_diagnostic, which does not look at the token first.
PhaseFails ==
    /\ red' = NoReduction
    /\ IF red.by = "manual"
         THEN pc' = "idle" /\ UNCHANGED <<turn, ended>>
         ELSE FailStep \/ (cancelled /\ CancelStep)

ReductionFails ==
    /\ PhaseFails
    /\ UNCHANGED <<batch, pending, cancelled, commit, storeHolds>>

\* An event that announces the phase is not sent once the token is cancelled,
\* and the step ends without a terminal event.
ReductionSilent ==
    /\ red' = NoReduction
    /\ ended' = "none" /\ pc' = "classify"
    /\ UNCHANGED <<sessionVars, cancelled, commit, storeHolds>>

\* The phase ends: a step goes on to its turn, a manual compaction returns.
ReductionEnds ==
    /\ red' = NoReduction
    /\ pc' = IF red.by = "manual" THEN "idle" ELSE "begin"
    /\ UNCHANGED <<sessionVars, ended, cancelled, commit, storeHolds>>

Goto(place) ==
    /\ pc' = place
    /\ UNCHANGED <<sessionVars, ended, cancelled, commit, storeHolds>>

\* A manual compaction that can install nothing more returns what it has;
\* CompactionProgress::finish rejects a body over the watermark.
ManualReturns ==
    IF red.replaced /\ red.body >= Hard THEN ReductionFails ELSE ReductionEnds

\* compact_context_once_inner starts with its own token.
CompactContext ==
    /\ PermitFree
    /\ \E b \in 0..MaxBody : ReductionBegins("manual", b)
    /\ cancelled' = FALSE /\ ended' = "none"
    /\ UNCHANGED <<sessionVars, commit, storeHolds>>

\* compaction_preparation_for_budget finds a window to replace, tool results
\* to archive, or nothing.
PrepareWindow ==
    /\ pc = "reduce"
    /\ \/ ReductionFails
       \/ /\ red.by = "manual" => ~cancelled
          /\ \/ /\ Goto("fit") /\ ~cancelled
                /\ red' = [red EXCEPT !.shape = Appended, !.tight = 0, !.refits = 0]
             \/ /\ red.by = "step" /\ ~cancelled /\ Goto("install")
                /\ red' = [red EXCEPT !.installs = "archive"]
             \/ /\ red.by = "step" /\ red.body < Hard /\ Goto("observe")
                /\ red' = [red EXCEPT !.installs = "none"]
             \/ red.by = "manual" /\ ManualReturns

\* What rebuild_preparation yields for the next shape or a tighter coverage.
Rebuilt(next) ==
    \/ /\ red' = next /\ Goto("fit")
    \/ /\ red.refits = 0 /\ red.by = "step" /\ ~cancelled /\ Goto("install")
       /\ red' = [next EXCEPT !.installs = "archive"]
    \/ red.refits = 0 /\ red.by = "manual" /\ next.tight = 0 /\ ManualReturns
    \/ ReductionFails

\* compile_fitted_compaction_request fits the model's window.  The first fit
\* of a step announces the compaction.
FitRequest ==
    /\ pc = "fit"
    /\ \/ /\ red.by = "step" /\ red.refits = 0 /\ cancelled
          /\ ReductionSilent
       \/ /\ (red.by = "step" /\ red.refits = 0) => ~cancelled
          /\ red' = red /\ Goto("generate")

\* It does not: the next shape, or a tighter coverage of the rolling one.
ShrinkRequest ==
    /\ pc = "fit"
    /\ \/ /\ red.shape = Appended
          /\ \E n \in 0..Retained : Rebuilt([red EXCEPT !.shape = n + 1])
       \/ /\ red.shape \in 1..(Retained + 1)
          /\ Rebuilt([red EXCEPT !.shape = red.shape - 1])
       \/ /\ red.shape = Rolling
          /\ IF red.tight < MaxTightenings
               THEN Rebuilt([red EXCEPT !.tight = red.tight + 1])
               ELSE ReductionFails

\* generate_validated_compaction_candidate: a candidate, an error, or a
\* truncated reply, after which one re-plan with a larger reserve is tried.
GenerateCandidate ==
    /\ pc = "generate"
    /\ \/ /\ ~cancelled /\ Goto("install")
          /\ red' = [red EXCEPT !.installs = "checkpoint"]
       \/ /\ ~cancelled /\ red.refits < MaxRefits /\ Goto("fit")
          /\ red' = [red EXCEPT !.shape = Appended, !.tight = 0,
                                !.refits = red.refits + 1]
       \/ ReductionFails

\* install_compaction_transaction up to the spawn of the commit task.
PrepareInstall ==
    /\ pc = "install" /\ commit = "none"
    /\ \/ ReductionFails
       \/ /\ ~cancelled
          /\ commit' = "staging"
          /\ UNCHANGED <<sessionVars, pc, ended, cancelled, red, storeHolds>>

\* The commit task returns; nobody waits for it when the run was dropped.
CommitReturns(value) ==
    commit' = IF pc = "install" THEN value ELSE "none"

CommitTaskVars == <<sessionVars, pc, ended, cancelled, red>>

StageBundle ==
    /\ commit = "staging"
    /\ \/ ~cancelled /\ commit' = "staged"
       \/ CommitReturns("failed")
    /\ UNCHANGED <<CommitTaskVars, storeHolds>>

\* complete_staged_compaction: a cancelled or outdated install is discarded.
RevalidateStaged ==
    /\ commit = "staged"
    /\ \/ ~cancelled /\ commit' = "valid"
       \/ CommitReturns("failed")
    /\ UNCHANGED <<CommitTaskVars, storeHolds>>

\* The last look at the token, and staged.commit().
CommitStaged ==
    /\ commit = "valid"
    /\ \/ /\ ~cancelled
          /\ commit' = "written" /\ storeHolds' = "next"
       \/ CommitReturns("failed") /\ UNCHANGED storeHolds
    /\ UNCHANGED CommitTaskVars

\* commit_prepared_compaction_install, and require_durable after it.
CommitInMemory ==
    /\ commit = "written"
    /\ storeHolds' = "same"
    /\ \E value \in {"ok", "failed"} : CommitReturns(value)
    /\ UNCHANGED CommitTaskVars

CommitTask == StageBundle \/ RevalidateStaged \/ CommitStaged \/ CommitInMemory

\* The phase gets the result of the task it spawned.
AwaitCommit ==
    /\ pc = "install"
    /\ commit \in {"ok", "failed"}
    /\ commit' = "none"
    /\ IF commit = "ok"
         THEN /\ pc' = "observe"
              /\ red' = [red EXCEPT !.replaced = red.replaced \/ red.installs = "checkpoint"]
              /\ UNCHANGED <<turn, ended>>
         ELSE PhaseFails
    /\ UNCHANGED <<batch, pending, cancelled, storeHolds>>

\* The request is compiled again from the reduced session and measured:
\* CompactionProgress::observe says whether the phase is over.
Observe(b) ==
    LET passes == red.passes + 1
        stuck == \/ red.installs # "checkpoint"
                 \/ b >= red.prev
                 \/ passes >= MaxPasses
        small == b < Target /\ b < Hard
    IN  \/ (small \/ (stuck /\ b < Hard)) /\ ReductionEnds
        \/ ~small /\ stuck /\ b >= Hard /\ ReductionFails
        \/ /\ ~small /\ ~stuck
           /\ red' = [red EXCEPT !.body = b, !.prev = b, !.passes = passes]
           /\ Goto("reduce")

MeasureAgain ==
    /\ pc = "observe"
    /\ \/ ReductionFails
       \/ /\ red.by = "step" /\ red.installs = "checkpoint" /\ cancelled
          /\ ReductionSilent
       \/ /\ (red.by = "step" /\ red.installs = "checkpoint") => ~cancelled
          /\ \E b \in IF red.installs = "none" THEN {red.body} ELSE 0..MaxBody :
                 Observe(b)

ReductionStep ==
    \/ PrepareWindow \/ FitRequest \/ ShrinkRequest \/ GenerateCandidate
    \/ PrepareInstall \/ AwaitCommit \/ MeasureAgain \/ CommitTask
=============================================================================
