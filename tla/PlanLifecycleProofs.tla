------------------------ MODULE PlanLifecycleProofs ------------------------
(***************************************************************************)
(* For any number of nodes, edits, links, attempts, directives and plans,  *)
(* and whatever statuses an edit may author: every variable keeps its      *)
(* type, leases follow their attempts, no directive outlives its attempt,  *)
(* no node is left in progress for nobody, the root is closed by work, the *)
(* last attempt of a draining plan settles it, a plan with a review        *)
(* outstanding starts only where the code means it to, and within one plan *)
(* a subagent's report and its right to edit are those of its own link.    *)
(***************************************************************************)
EXTENDS PlanCompletionProofs

-----------------------------------------------------------------------------
(***************************************************************************)
(* Attempts, leases and directives.                                        *)
(***************************************************************************)

\* What a step leaves when it ends the attempts of `over` and no other.
Ends(over, at, ls, dir) ==
    /\ at \in [AttemptIds -> AttemptRecords]
    /\ ls \in [AttemptIds -> LeaseStatuses \cup {"None"}]
    /\ dir \in [DirectiveIds -> DirectiveRecords]
    /\ \A a \in AttemptIds : a \in over => at[a].outcome # "Live" /\ ls[a] # "Live"
    /\ \A a \in AttemptIds : a \notin over =>
           /\ at[a].outcome = attempts[a].outcome /\ at[a].leased = attempts[a].leased
           /\ at[a].node = attempts[a].node /\ ls[a] = leases[a]
    /\ \A x \in DirectiveIds : dir[x].status \in OpenDirective =>
           /\ dir[x].attempt \notin over /\ dir[x].attempt \in AttemptIds
           /\ \/ LiveLease(dir[x].attempt)
              \/ /\ directives[x].status \in OpenDirective
                 /\ dir[x].attempt = directives[x].attempt

LEMMA EndsKeeps ==
    ASSUME AttemptInv, NEW over, Ends(over, attempts', leases', directives')
    PROVE  AttemptInv'
  <1>1. AttemptTypes'
    BY Zenon DEF Ends, AttemptTypes
  <1>2. ASSUME NEW a \in AttemptIds
        PROVE  leases'[a] = "Live" <=> attempts'[a].outcome = "Live" /\ attempts'[a].leased
    BY DEF Ends, AttemptInv, LeaseFollowsAttempt
  <1>3. ASSUME NEW a \in AttemptIds, NEW b \in AttemptIds, leases'[a] = "Live",
               leases'[b] = "Live", attempts'[a].node = attempts'[b].node
        PROVE  a = b
    BY <1>3 DEF Ends, AttemptInv, LeaseFollowsAttempt
  <1>4. ASSUME NEW x \in DirectiveIds, directives'[x].status \in OpenDirective
        PROVE  /\ directives'[x].attempt \in AttemptIds
               /\ attempts'[directives'[x].attempt].outcome = "Live"
               /\ attempts'[directives'[x].attempt].leased
    BY <1>4 DEF Ends, AttemptInv, NoStaleDirective, LeaseFollowsAttempt, LiveLease
  <1>. QED BY <1>1, <1>2, <1>3, <1>4, Zenon DEF AttemptInv, LeaseFollowsAttempt, NoStaleDirective

LEMMA AttemptsStill ==
    ASSUME AttemptInv, UNCHANGED attemptVars
    PROVE  AttemptInv'
  BY Zenon DEF attemptVars, AttemptInv, AttemptTypes, LeaseFollowsAttempt, NoStaleDirective

LEMMA BlankAttemptInv ==
    ASSUME NEW at, NEW ls, NEW dir, at = BlankAttempts, ls = BlankLeases, dir = BlankDirectives
    PROVE  /\ at \in [AttemptIds -> AttemptRecords]
           /\ ls \in [AttemptIds -> LeaseStatuses \cup {"None"}]
           /\ dir \in [DirectiveIds -> DirectiveRecords]
           /\ \A a \in AttemptIds : at[a].outcome = "Free" /\ ls[a] = "None"
           /\ \A x \in DirectiveIds : dir[x].status = "Free"
  <1>1. NoAttempt \in AttemptRecords /\ NoAttempt.outcome = "Free"
    BY Zenon DEF NoAttempt, AttemptRecords, NoNode
  <1>2. NoDirective \in DirectiveRecords /\ NoDirective.status = "Free"
    BY Zenon DEF NoDirective, DirectiveRecords
  <1>. QED BY <1>1, <1>2, Zenon DEF BlankAttempts, BlankLeases, BlankDirectives

\* A new plan has no attempts.
LEMMA AttemptsCleared ==
    ASSUME attempts' = BlankAttempts, leases' = BlankLeases, directives' = BlankDirectives
    PROVE  AttemptInv'
  <1>1. /\ attempts' \in [AttemptIds -> AttemptRecords]
        /\ leases' \in [AttemptIds -> LeaseStatuses \cup {"None"}]
        /\ directives' \in [DirectiveIds -> DirectiveRecords]
        /\ \A a \in AttemptIds : attempts'[a].outcome = "Free" /\ leases'[a] = "None"
        /\ \A x \in DirectiveIds : directives'[x].status = "Free"
    BY BlankAttemptInv
  <1>. QED BY <1>1, Zenon DEF AttemptInv, AttemptTypes, LeaseFollowsAttempt, NoStaleDirective, OpenDirective

LEMMA ClosedFacts ==
    ASSUME NEW at \in AttemptRecords, NEW outcome \in Outcomes
    PROVE  Closed(at, outcome) \in AttemptRecords /\ Closed(at, outcome).outcome = outcome
  BY Zenon DEF Closed, AttemptRecords

LEMMA OutcomesEnd ==
    ASSUME NEW outcome \in Outcomes
    PROVE  outcome # "Live" /\ outcome # "Free"
  BY Zenon DEF Outcomes, Reportable

\* expire_attempt_directives on records of which the open ones were open before.
LEMMA ExpiredFacts ==
    ASSUME AttemptInv, NEW dir \in [DirectiveIds -> DirectiveRecords], NEW over,
           \A x \in DirectiveIds : /\ dir[x].attempt = directives[x].attempt
                                   /\ dir[x].status \in OpenDirective =>
                                          directives[x].status \in OpenDirective
    PROVE  /\ Expired(dir, over) \in [DirectiveIds -> DirectiveRecords]
           /\ \A x \in DirectiveIds : Expired(dir, over)[x].status \in OpenDirective =>
                  /\ Expired(dir, over)[x].attempt \notin over
                  /\ Expired(dir, over)[x].attempt \in AttemptIds
                  /\ directives[x].status \in OpenDirective
                  /\ Expired(dir, over)[x].attempt = directives[x].attempt
  <1>. DEFINE e == Expired(dir, over)
             gone(x) == [NoDirective EXCEPT !.status =
                            IF dir[x].status \in OpenDirective THEN "Expired" ELSE dir[x].status]
  <1>1. \A x \in DirectiveIds : e[x] = IF dir[x].attempt \notin over THEN dir[x] ELSE gone(x)
    BY Zenon DEF Expired
  <1>2. ASSUME NEW x \in DirectiveIds
        PROVE  gone(x) \in DirectiveRecords /\ gone(x).status \notin OpenDirective
    <2>1. dir[x].status \in DirectiveStatuses \cup {"Free"}
      BY Zenon DEF DirectiveRecords
    <2>. DEFINE s == IF dir[x].status \in OpenDirective THEN "Expired" ELSE dir[x].status
    <2>2. s \in DirectiveStatuses \cup {"Free"} /\ s \notin OpenDirective
      BY <2>1, Zenon DEF OpenDirective, DirectiveStatuses
    <2>. HIDE DEF s
    <2>3. [NoDirective EXCEPT !.status = s] \in DirectiveRecords
          /\ [NoDirective EXCEPT !.status = s].status = s
      BY <2>2, Zenon DEF NoDirective, DirectiveRecords
    <2>. QED BY <2>2, <2>3, Zenon DEF s
  <1>. HIDE DEF gone
  <1>3. \A x \in DirectiveIds : e[x] \in DirectiveRecords
    BY <1>1, <1>2, Zenon
  <1>4. e \in [DirectiveIds -> DirectiveRecords]
    BY <1>3, Zenon DEF Expired
  <1>5. ASSUME NEW x \in DirectiveIds, e[x].status \in OpenDirective
        PROVE  /\ e[x].attempt \notin over /\ e[x].attempt \in AttemptIds
               /\ directives[x].status \in OpenDirective
               /\ e[x].attempt = directives[x].attempt
    <2>1. e[x] = dir[x] /\ dir[x].attempt \notin over
      BY <1>1, <1>2, <1>5, Zenon
    <2>. QED BY <1>5, <2>1, Zenon DEF AttemptInv
  <1>. QED BY <1>4, <1>5, Zenon

LEMMA ReportedFacts ==
    ASSUME AttemptInv, NEW acked, NEW applied
    PROVE  /\ AppliedReports(acked, applied) \in [DirectiveIds -> DirectiveRecords]
           /\ \A x \in DirectiveIds :
                  /\ AppliedReports(acked, applied)[x].attempt = directives[x].attempt
                  /\ AppliedReports(acked, applied)[x].status \in OpenDirective =>
                         directives[x].status \in OpenDirective
  <1>. DEFINE dir == AppliedReports(acked, applied)
  <1>1. \A x \in DirectiveIds : directives[x] \in DirectiveRecords
    BY Zenon DEF AttemptInv, AttemptTypes
  <1>2. ASSUME NEW r \in DirectiveRecords, NEW s \in {"Applied", "Acknowledged", "Delivered"},
               NEW q, q = [r EXCEPT !.status = s]
        PROVE  q \in DirectiveRecords /\ q.attempt = r.attempt /\ q.status = s
    BY <1>2, Zenon DEF DirectiveRecords, DirectiveStatuses, OpenDirective
  <1>3. ASSUME NEW x \in DirectiveIds
        PROVE  /\ dir[x] \in DirectiveRecords /\ dir[x].attempt = directives[x].attempt
               /\ dir[x].status \in OpenDirective => directives[x].status \in OpenDirective
    <2>1. CASE x \in applied
      <3>1. dir[x] = [directives[x] EXCEPT !.status = "Applied"]
        BY <2>1, Zenon DEF AppliedReports
      <3>2. /\ dir[x] \in DirectiveRecords /\ dir[x].attempt = directives[x].attempt
            /\ dir[x].status = "Applied"
        BY <1>1, <1>2, <3>1, ZenonT(30)
      <3>. QED BY <3>2, Zenon DEF OpenDirective
    <2>2. CASE x \notin applied /\ x \in acked /\ directives[x].status \in {"Queued", "Delivered"}
      <3>1. dir[x] = [directives[x] EXCEPT !.status = "Acknowledged"]
        BY <2>2, Zenon DEF AppliedReports
      <3>2. dir[x] \in DirectiveRecords /\ dir[x].attempt = directives[x].attempt
        BY <1>1, <1>2, <3>1, ZenonT(30)
      <3>. QED BY <2>2, <3>2, Zenon DEF OpenDirective
    <2>3. CASE x \notin applied /\ ~(x \in acked /\ directives[x].status \in {"Queued", "Delivered"})
      <3>1. dir[x] = directives[x]
        BY <2>3, Zenon DEF AppliedReports
      <3>. QED BY <1>1, <3>1, Zenon
    <2>. QED BY <2>1, <2>2, <2>3, Zenon
  <1>. QED BY <1>3, Zenon DEF AppliedReports

LEMMA StartAttemptInv ==
    ASSUME AttemptInv, NEW a \in AttemptIds, NEW n \in ReadyNodes, NEW e \in Executors,
           NEW leased \in BOOLEAN, StartAttempt(a, n, e, leased)
    PROVE  AttemptInv'
  <1>. DEFINE r == [node |-> n, executor |-> e, leased |-> leased,
                    outcome |-> "Live", effects |-> FALSE]
             lease == IF leased THEN "Live" ELSE "None"
  <1>1. n \in NodeIds /\ \A b \in AttemptIds : attempts[b].node = n => leases[b] # "Live"
    BY Zenon DEF ReadyNodes, HasLiveLease
  <1>2. /\ r \in AttemptRecords /\ r.node = n /\ r.outcome = "Live" /\ r.leased = leased
        /\ lease \in LeaseStatuses \cup {"None"} /\ (lease = "Live" <=> r.leased)
    BY <1>1, Zenon DEF AttemptRecords, LeaseStatuses
  <1>3. /\ attempts' = [attempts EXCEPT ![a] = r] /\ leases' = [leases EXCEPT ![a] = lease]
        /\ directives' = directives /\ attempts[a].outcome = "Free"
    BY Zenon DEF StartAttempt
  <1>. HIDE DEF r, lease
  <1>4. AttemptTypes /\ AttemptTypes'
    BY <1>2, <1>3, Zenon DEF AttemptInv, AttemptTypes
  <1>5. /\ attempts'[a] = r /\ leases'[a] = lease
        /\ \A b \in AttemptIds : b # a => attempts'[b] = attempts[b] /\ leases'[b] = leases[b]
    BY <1>3, <1>4, Zenon DEF AttemptTypes
  <1>6. LeaseFollowsAttempt'
    <2>1. \A b \in AttemptIds :
             leases'[b] = "Live" <=> attempts'[b].outcome = "Live" /\ attempts'[b].leased
      BY <1>2, <1>5 DEF AttemptInv, LeaseFollowsAttempt
    <2>2. \A b, c \in AttemptIds :
             leases'[b] = "Live" /\ leases'[c] = "Live" /\ attempts'[b].node = attempts'[c].node
               => b = c
      BY <1>1, <1>2, <1>5 DEF AttemptInv, LeaseFollowsAttempt
    <2>. QED BY <2>1, <2>2, Zenon DEF LeaseFollowsAttempt
  <1>7. \A x \in DirectiveIds : directives'[x].status \in OpenDirective =>
           /\ directives'[x].attempt \in AttemptIds
           /\ attempts'[directives'[x].attempt].leased
           /\ attempts'[directives'[x].attempt].outcome = "Live"
    BY <1>3, <1>5 DEF AttemptInv, NoStaleDirective
  <1>. QED BY <1>4, <1>6, <1>7, Zenon DEF AttemptInv, NoStaleDirective

LEMMA ReportAttemptInv ==
    ASSUME AttemptInv, NEW a \in AttemptIds, NEW outcome \in Reportable, NEW k, NEW d, NEW chain,
           NEW acked, NEW applied, ReportAttempt(a, outcome, k, d, chain, acked, applied)
    PROVE  AttemptInv'
  <1>. DEFINE dir == AppliedReports(acked, applied)
             r == Closed(attempts[a], outcome)
             lease == IF attempts[a].leased THEN "Resolved" ELSE leases[a]
  <1>1. /\ attempts' = [attempts EXCEPT ![a] = r] /\ leases' = [leases EXCEPT ![a] = lease]
        /\ directives' = Expired(dir, {a})
    BY Zenon DEF ReportAttempt
  <1>2. AttemptTypes /\ outcome \in Outcomes
    BY Zenon DEF AttemptInv, Outcomes
  <1>3. r \in AttemptRecords /\ r.outcome # "Live"
    BY <1>2, ClosedFacts, OutcomesEnd, Zenon DEF AttemptTypes
  <1>4. lease \in LeaseStatuses \cup {"None"} /\ lease # "Live"
    BY <1>2, Zenon DEF AttemptInv, AttemptTypes, LeaseFollowsAttempt, LeaseStatuses
  <1>5. /\ dir \in [DirectiveIds -> DirectiveRecords]
        /\ \A x \in DirectiveIds : /\ dir[x].attempt = directives[x].attempt
                                   /\ dir[x].status \in OpenDirective =>
                                          directives[x].status \in OpenDirective
    BY ReportedFacts, Zenon
  <1>. HIDE DEF dir, r, lease
  <1>6. /\ directives' \in [DirectiveIds -> DirectiveRecords]
        /\ \A x \in DirectiveIds : directives'[x].status \in OpenDirective =>
               /\ directives'[x].attempt \notin {a} /\ directives'[x].attempt \in AttemptIds
               /\ directives[x].status \in OpenDirective
               /\ directives'[x].attempt = directives[x].attempt
    BY <1>1, <1>5, ExpiredFacts
  <1>7. Ends({a}, attempts', leases', directives')
    BY <1>1, <1>2, <1>3, <1>4, <1>6, Zenon DEF Ends, AttemptTypes
  <1>. QED BY <1>7, EndsKeeps, Zenon

LEMMA DirectivesKept ==
    ASSUME AttemptInv
    PROVE  /\ directives \in [DirectiveIds -> DirectiveRecords]
           /\ \A x \in DirectiveIds : /\ directives[x].attempt = directives[x].attempt
                                      /\ directives[x].status \in OpenDirective =>
                                             directives[x].status \in OpenDirective
  BY Zenon DEF AttemptInv, AttemptTypes

LEMMA CancelAttemptInv ==
    ASSUME AttemptInv, NEW a \in AttemptIds, CancelAttempt(a)
    PROVE  AttemptInv'
  <1>. DEFINE r == Closed(attempts[a], "Cancelled")
  <1>1. /\ attempts' = [attempts EXCEPT ![a] = r] /\ leases' = [leases EXCEPT ![a] = "Cancelled"]
        /\ directives' = Expired(directives, {a})
    BY Zenon DEF CancelAttempt
  <1>2. AttemptTypes /\ "Cancelled" \in Outcomes /\ "Cancelled" \in LeaseStatuses
    BY Zenon DEF AttemptInv, Outcomes, LeaseStatuses
  <1>3. r \in AttemptRecords /\ r.outcome # "Live"
    BY <1>2, ClosedFacts, OutcomesEnd, Zenon DEF AttemptTypes
  <1>. HIDE DEF r
  <1>4. /\ directives' \in [DirectiveIds -> DirectiveRecords]
        /\ \A x \in DirectiveIds : directives'[x].status \in OpenDirective =>
               /\ directives'[x].attempt \notin {a} /\ directives'[x].attempt \in AttemptIds
               /\ directives[x].status \in OpenDirective
               /\ directives'[x].attempt = directives[x].attempt
    BY <1>1, DirectivesKept, ExpiredFacts
  <1>5. Ends({a}, attempts', leases', directives')
    BY <1>1, <1>2, <1>3, <1>4, Zenon DEF Ends, AttemptTypes
  <1>. QED BY <1>5, EndsKeeps, Zenon

\* Several attempts are ended at once, with their directives, or without when
\* they have no lease.
LEMMA CloseMany ==
    ASSUME AttemptInv, NEW over \in SUBSET AttemptIds, NEW outcome \in Outcomes,
           attempts' = [a \in AttemptIds |-> IF a \in over THEN Closed(attempts[a], outcome)
                                             ELSE attempts[a]],
           leases' \in [AttemptIds -> LeaseStatuses \cup {"None"}],
           \A a \in over : leases'[a] # "Live",
           \A a \in AttemptIds : a \notin over => leases'[a] = leases[a],
           \/ directives' = Expired(directives, over)
           \/ directives' = directives /\ \A a \in over : ~attempts[a].leased
    PROVE  AttemptInv'
  <1>1. AttemptTypes
    BY Zenon DEF AttemptInv
  <1>2. \A a \in over : /\ Closed(attempts[a], outcome) \in AttemptRecords
                        /\ Closed(attempts[a], outcome).outcome # "Live"
    BY <1>1, ClosedFacts, OutcomesEnd DEF AttemptTypes
  <1>3. /\ attempts' \in [AttemptIds -> AttemptRecords]
        /\ \A a \in over : attempts'[a].outcome # "Live"
        /\ \A a \in AttemptIds : a \notin over => attempts'[a] = attempts[a]
    BY <1>1, <1>2, Zenon DEF AttemptTypes
  <1>4. /\ directives' \in [DirectiveIds -> DirectiveRecords]
        /\ \A x \in DirectiveIds : directives'[x].status \in OpenDirective =>
               /\ directives'[x].attempt \notin over /\ directives'[x].attempt \in AttemptIds
               /\ directives[x].status \in OpenDirective
               /\ directives'[x].attempt = directives[x].attempt
    <2>1. CASE directives' = Expired(directives, over)
      BY <2>1, DirectivesKept, ExpiredFacts
    <2>2. CASE directives' = directives /\ \A a \in over : ~attempts[a].leased
      BY <2>2, Zenon DEF AttemptInv, AttemptTypes
    <2>. QED BY <2>1, <2>2, Zenon
  <1>5. Ends(over, attempts', leases', directives')
    BY <1>3, <1>4, Zenon DEF Ends
  <1>. QED BY <1>5, EndsKeeps, Zenon

LEMMA ExpiryInv ==
    ASSUME AttemptInv, NEW late \in SUBSET AttemptIds, InterruptExpiredLeases(late)
    PROVE  AttemptInv'
  <1>1. /\ attempts' = [a \in AttemptIds |-> IF a \in late THEN Closed(attempts[a], "Interrupted")
                                             ELSE attempts[a]]
        /\ leases' = [a \in AttemptIds |-> IF a \in late THEN "Expired" ELSE leases[a]]
        /\ directives' = Expired(directives, late)
    BY Zenon DEF InterruptExpiredLeases
  <1>2. /\ leases' \in [AttemptIds -> LeaseStatuses \cup {"None"}]
        /\ \A a \in late : leases'[a] # "Live"
        /\ \A a \in AttemptIds : a \notin late => leases'[a] = leases[a]
    BY <1>1, Zenon DEF AttemptInv, AttemptTypes, LeaseStatuses
  <1>3. "Interrupted" \in Outcomes
    BY Zenon DEF Outcomes
  <1>. QED BY <1>1, <1>2, <1>3, CloseMany, Zenon

LEMMA RestartInv ==
    ASSUME AttemptInv, Restart
    PROVE  AttemptInv'
  <1>. DEFINE open == LiveAttempts(attempts)
  <1>1. /\ attempts' = [a \in AttemptIds |-> IF a \in open THEN Closed(attempts[a], "Interrupted")
                                             ELSE attempts[a]]
        /\ leases' = [a \in AttemptIds |-> IF a \in open /\ leases[a] = "Live" THEN "Expired"
                                           ELSE leases[a]]
        /\ directives' = Expired(directives, open)
    BY Zenon DEF Restart
  <1>2. open \in SUBSET AttemptIds
    BY Zenon DEF LiveAttempts
  <1>. HIDE DEF open
  <1>3. /\ leases' \in [AttemptIds -> LeaseStatuses \cup {"None"}]
        /\ \A a \in open : leases'[a] # "Live"
        /\ \A a \in AttemptIds : a \notin open => leases'[a] = leases[a]
    BY <1>1, <1>2, Zenon DEF AttemptInv, AttemptTypes, LeaseStatuses
  <1>4. "Interrupted" \in Outcomes
    BY Zenon DEF Outcomes
  <1>. QED BY <1>1, <1>2, <1>3, <1>4, CloseMany, Zenon

LEMMA CancellationInv ==
    ASSUME AttemptInv, RequestCancellation
    PROVE  AttemptInv'
  <1>. DEFINE over == {a \in LiveAttempts(attempts) : ~attempts[a].leased}
  <1>1. /\ attempts' = [a \in AttemptIds |-> IF a \in over THEN Closed(attempts[a], "Cancelled")
                                             ELSE attempts[a]]
        /\ leases' = leases /\ directives' = directives
    BY Zenon DEF RequestCancellation
  <1>2. over \in SUBSET AttemptIds /\ \A a \in over : ~attempts[a].leased
    BY Zenon DEF LiveAttempts
  <1>. HIDE DEF over
  <1>3. /\ leases' \in [AttemptIds -> LeaseStatuses \cup {"None"}]
        /\ \A a \in over : leases'[a] # "Live"
        /\ \A a \in AttemptIds : a \notin over => leases'[a] = leases[a]
    BY <1>1, <1>2, Zenon DEF AttemptInv, AttemptTypes, LeaseFollowsAttempt
  <1>4. "Cancelled" \in Outcomes
    BY Zenon DEF Outcomes
  <1>. QED BY <1>1, <1>2, <1>3, <1>4, CloseMany, Zenon

LEMMA NoneOver ==
    ASSUME AttemptInv, leases' = leases, directives' \in [DirectiveIds -> DirectiveRecords],
           attempts' \in [AttemptIds -> AttemptRecords],
           \A a \in AttemptIds : /\ attempts'[a].outcome = attempts[a].outcome
                                 /\ attempts'[a].leased = attempts[a].leased
                                 /\ attempts'[a].node = attempts[a].node,
           \A x \in DirectiveIds : directives'[x].status \in OpenDirective =>
               \/ directives'[x].attempt \in AttemptIds /\ LiveLease(directives'[x].attempt)
               \/ /\ directives[x].status \in OpenDirective
                  /\ directives'[x].attempt = directives[x].attempt
    PROVE  AttemptInv'
  <1>1. Ends({}, attempts', leases', directives')
    BY Zenon DEF Ends, AttemptInv, AttemptTypes
  <1>. QED BY <1>1, EndsKeeps, Zenon

LEMMA SmallAttemptSteps ==
    ASSUME AttemptInv, NEW a \in AttemptIds,
           \/ RecordRuntimeEffect(a) \/ DeliverQueuedDirectives(a)
           \/ \E x \in DirectiveIds : IssueDirective(x, a)
           \/ \E acked, applied : ReportProgress(a, acked, applied)
    PROVE  AttemptInv'
  <1>1. AttemptTypes
    BY Zenon DEF AttemptInv
  <1>2. CASE RecordRuntimeEffect(a)
    <2>1. leases' = leases /\ directives' = directives
          /\ attempts' = [attempts EXCEPT ![a].effects = TRUE]
      BY <1>2, Zenon DEF RecordRuntimeEffect
    <2>2. ASSUME NEW r \in AttemptRecords
          PROVE  /\ [r EXCEPT !.effects = TRUE] \in AttemptRecords
                 /\ [r EXCEPT !.effects = TRUE].outcome = r.outcome
                 /\ [r EXCEPT !.effects = TRUE].leased = r.leased
                 /\ [r EXCEPT !.effects = TRUE].node = r.node
      BY Zenon DEF AttemptRecords
    <2>3. attempts' = [attempts EXCEPT ![a] = [attempts[a] EXCEPT !.effects = TRUE]]
      BY <2>1, Zenon
    <2>4. /\ attempts' \in [AttemptIds -> AttemptRecords]
          /\ \A b \in AttemptIds : /\ attempts'[b].outcome = attempts[b].outcome
                                   /\ attempts'[b].leased = attempts[b].leased
                                   /\ attempts'[b].node = attempts[b].node
      BY <1>1, <2>2, <2>3, Zenon DEF AttemptTypes
    <2>. QED BY <1>1, <2>1, <2>4, NoneOver, Zenon DEF AttemptTypes
  <1>3. CASE DeliverQueuedDirectives(a)
    <2>. DEFINE queued == {x \in DirectiveIds : directives[x].attempt = a /\ directives[x].status = "Queued"}
    <2>1. /\ leases' = leases /\ attempts' = attempts
          /\ directives' = [x \in DirectiveIds |->
                             IF x \in queued THEN [directives[x] EXCEPT !.status = "Delivered"]
                             ELSE directives[x]]
      BY <1>3, Zenon DEF DeliverQueuedDirectives
    <2>2. ASSUME NEW r \in DirectiveRecords
          PROVE  /\ [r EXCEPT !.status = "Delivered"] \in DirectiveRecords
                 /\ [r EXCEPT !.status = "Delivered"].attempt = r.attempt
      BY Zenon DEF DirectiveRecords, DirectiveStatuses, OpenDirective
    <2>3. \A x \in queued : directives[x].status \in OpenDirective
      BY Zenon DEF OpenDirective
    <2>. HIDE DEF queued
    <2>4. \A x \in DirectiveIds : directives[x] \in DirectiveRecords
      BY <1>1, Zenon DEF AttemptTypes
    <2>5. /\ directives' \in [DirectiveIds -> DirectiveRecords]
          /\ \A x \in DirectiveIds : /\ directives'[x].attempt = directives[x].attempt
                                     /\ directives'[x].status \in OpenDirective =>
                                            directives[x].status \in OpenDirective
      BY <2>1, <2>2, <2>3, <2>4, Zenon
    <2>. QED BY <1>1, <2>1, <2>5, NoneOver, Zenon DEF AttemptTypes
  <1>4. ASSUME NEW x \in DirectiveIds, IssueDirective(x, a) PROVE AttemptInv'
    <2>. DEFINE r == [attempt |-> a, status |-> "Queued"]
    <2>1. /\ leases' = leases /\ attempts' = attempts /\ LiveLease(a)
          /\ directives' = [directives EXCEPT ![x] = r]
      BY <1>4, Zenon DEF IssueDirective
    <2>2. r \in DirectiveRecords /\ r.attempt = a
      BY Zenon DEF DirectiveRecords, DirectiveStatuses, OpenDirective
    <2>. HIDE DEF r
    <2>3. /\ directives' \in [DirectiveIds -> DirectiveRecords] /\ directives'[x] = r
          /\ \A y \in DirectiveIds : y # x => directives'[y] = directives[y]
      BY <1>1, <2>1, <2>2, Zenon DEF AttemptTypes
    <2>. QED BY <1>1, <2>1, <2>2, <2>3, NoneOver, Zenon DEF AttemptTypes
  <1>5. ASSUME NEW acked, NEW applied, ReportProgress(a, acked, applied) PROVE AttemptInv'
    <2>1. /\ leases' = leases /\ attempts' = attempts
          /\ directives' = AppliedReports(acked, applied)
      BY <1>5, Zenon DEF ReportProgress
    <2>. QED BY <1>1, <2>1, ReportedFacts, NoneOver, Zenon DEF AttemptTypes
  <1>. QED BY <1>2, <1>3, <1>4, <1>5, Zenon

-----------------------------------------------------------------------------
(***************************************************************************)
(* The steps, by what they do to the attempts.                             *)
(***************************************************************************)

\* A subagent's edit touches neither the attempts nor the phase.
LEMMA ScopedEditKeeps ==
    ASSUME SubagentEdits
    PROVE  UNCHANGED attemptVars /\ phase' = phase
  <1>1. ASSUME NEW l, NEW k, NEW d, NEW chain, DefineScopedChildren(l, k, d, chain)
        PROVE  UNCHANGED attemptVars /\ phase' = phase
    BY <1>1, Zenon DEF DefineScopedChildren
  <1>2. ASSUME NEW l, NEW t, NEW k, NEW d, NEW chain, ReplaceScopedSubtree(l, t, k, d, chain)
        PROVE  UNCHANGED attemptVars /\ phase' = phase
    BY <1>2, Zenon DEF ReplaceScopedSubtree
  <1>. QED BY <1>1, <1>2, Zenon DEF SubagentEdits

LEMMA EditsAndAttempts ==
    ASSUME CoordinatorEdits \/ SubagentEdits
    PROVE  \/ UNCHANGED attemptVars
           \/ /\ attempts' = BlankAttempts /\ leases' = BlankLeases
              /\ directives' = BlankDirectives /\ sched' = "Active"
  <1>1. CASE SubagentEdits
    BY <1>1, ScopedEditKeeps, Zenon
  <1>2. CASE CoordinatorEdits
    <2>1. BeginPlan => /\ attempts' = BlankAttempts /\ leases' = BlankLeases
                       /\ directives' = BlankDirectives /\ sched' = "Active"
      BY Zenon DEF BeginPlan
    <2>2. ASSUME NEW k, NEW d, NEW chain, NEW cp, NEW i, DefineNewPlan(k, d, chain, cp, i)
          PROVE  /\ attempts' = BlankAttempts /\ leases' = BlankLeases
                 /\ directives' = BlankDirectives /\ sched' = "Active"
      BY <2>2, Zenon DEF DefineNewPlan
    <2>3. ASSUME NEW r, NEW reused, NEW k, NEW d, NEW inherit, NEW chain, NEW cp, NEW reworded,
                 NEW i, DefinePlan(r, reused, k, d, inherit, chain, cp, reworded, i)
          PROVE  UNCHANGED attemptVars
      BY <2>3, Zenon DEF DefinePlan
    <2>4. ASSUME NEW t, NEW reused, NEW k, NEW d, NEW inherit, NEW chain, NEW reworded,
                 NEW i, ReplaceSubtree(t, reused, k, d, inherit, chain, reworded, i)
          PROVE  UNCHANGED attemptVars
      BY <2>4, Zenon DEF ReplaceSubtree
    <2>5. ASSUME NEW i, UseCurrentPlan(i) PROVE UNCHANGED attemptVars
      BY <2>5, Zenon DEF UseCurrentPlan
    <2>. QED BY <1>2, <2>1, <2>2, <2>3, <2>4, <2>5, ZenonT(30) DEF CoordinatorEdits
  <1>. QED BY <1>1, <1>2, Zenon

LEMMA ControlsAndAttempts ==
    ASSUME UserControls \/ LinkSteps
    PROVE  UNCHANGED attemptVars \/ RequestCancellation
  <1>1. CASE UserControls
    BY <1>1, ZenonT(30) DEF UserControls, Approve, AuthorizeExecution, PauseScheduling, ResumeScheduling,
                ChangeSchedulerStatus, Revise, RetryInterruptedNode
  <1>2. CASE LinkSteps
    BY <1>2, ZenonT(30) DEF LinkSteps, BindSubagent, UpdateSubagentLink, LinkUpdateFails
  <1>. QED BY <1>1, <1>2, Zenon

LEMMA AttemptStep ==
    ASSUME AttemptInv, [Next]_vars
    PROVE  AttemptInv'
  <1>1. CASE CoordinatorEdits \/ SubagentEdits
    BY <1>1, EditsAndAttempts, AttemptsStill, AttemptsCleared, Zenon
  <1>2. CASE UserControls \/ LinkSteps
    BY <1>2, ControlsAndAttempts, AttemptsStill, CancellationInv, Zenon
  <1>3. CASE AttemptSteps
    <2>1. PICK a \in AttemptIds :
            \/ \E n \in ReadyNodes, e \in Executors, leased \in BOOLEAN : StartAttempt(a, n, e, leased)
            \/ RecordRuntimeEffect(a) \/ DeliverQueuedDirectives(a)
            \/ \E x \in DirectiveIds : IssueDirective(x, a)
            \/ \E acked, applied : ReportProgress(a, acked, applied)
            \/ CancelAttempt(a)
            \/ \E outcome \in Reportable : \E k, d, chain, acked, applied :
                  ReportAttempt(a, outcome, k, d, chain, acked, applied)
      BY <1>3, Zenon DEF AttemptSteps
    <2>. QED BY <2>1, StartAttemptInv, SmallAttemptSteps, CancelAttemptInv, ReportAttemptInv, Zenon
  <1>4. CASE UNCHANGED vars
    BY <1>4, AttemptsStill, Zenon DEF vars
  <1>. QED BY <1>1, <1>2, <1>3, <1>4, RestartInv, ExpiryInv, Zenon DEF Next

LEMMA AttemptInit ==
    ASSUME Init
    PROVE  AttemptInv
  <1>1. attempts = BlankAttempts /\ leases = BlankLeases /\ directives = BlankDirectives
    BY Zenon DEF Init
  <1>2. /\ attempts \in [AttemptIds -> AttemptRecords]
        /\ leases \in [AttemptIds -> LeaseStatuses \cup {"None"}]
        /\ directives \in [DirectiveIds -> DirectiveRecords]
        /\ \A a \in AttemptIds : attempts[a].outcome = "Free" /\ leases[a] = "None"
        /\ \A x \in DirectiveIds : directives[x].status = "Free"
    BY <1>1, BlankAttemptInv
  <1>. QED BY <1>2, Zenon DEF AttemptInv, AttemptTypes, LeaseFollowsAttempt, NoStaleDirective, OpenDirective

\* A lease is live exactly while its attempt is, and no node is leased twice.
THEOREM LeasesFollow == Spec => []LeaseFollowsAttempt
  <1>1. Init => AttemptInv
    BY AttemptInit, Zenon
  <1>2. AttemptInv /\ [Next]_vars => AttemptInv'
    BY AttemptStep, Zenon
  <1>3. AttemptInv => LeaseFollowsAttempt
    BY Zenon DEF AttemptInv
  <1>. QED BY <1>1, <1>2, <1>3, PTL DEF Spec

\* No directive that may still be delivered outlives its attempt.
THEOREM DirectivesEndWithAttempts == Spec => []NoStaleDirective
  <1>1. Init => AttemptInv
    BY AttemptInit
  <1>2. AttemptInv /\ [Next]_vars => AttemptInv'
    BY AttemptStep
  <1>3. AttemptInv => NoStaleDirective
    BY Zenon DEF AttemptInv
  <1>. QED BY <1>1, <1>2, <1>3, PTL DEF Spec

-----------------------------------------------------------------------------
(***************************************************************************)
(* The end of a draining plan, and the start of one under review.          *)
(***************************************************************************)

SettlesStep ==
    LiveAttempts(attempts) # {} /\ LiveAttempts(attempts') = {} /\ sched' = "Draining" =>
        phase' = "Cancelled" \/ Restart

LEMMA SettledIsCancelled ==
    ASSUME NEW ph, phase' = SettleDraining(ph, sched', attempts')
    PROVE  SettlesStep
  BY Zenon DEF SettlesStep, SettleDraining

LEMMA SettleHolds ==
    ASSUME AttemptInv, [Next]_vars
    PROVE  SettlesStep
  <1>1. CASE attempts' = attempts
    BY <1>1, Zenon DEF SettlesStep
  <1>2. CASE \E ph : phase' = SettleDraining(ph, sched', attempts')
    BY <1>2, SettledIsCancelled, Zenon
  <1>3. CASE sched' # "Draining"
    BY <1>3, Zenon DEF SettlesStep
  <1>4. CASE CoordinatorEdits \/ SubagentEdits
    BY <1>1, <1>3, <1>4, EditsAndAttempts DEF attemptVars
  <1>5. CASE RequestCancellation
    <2>1. \E ph : phase' = SettleDraining(ph, sched', attempts')
      BY <1>5, Zenon DEF RequestCancellation, RefreshedAndSettled
    <2>. QED BY <1>2, <2>1, Zenon
  <1>6. CASE UserControls \/ LinkSteps
    BY <1>1, <1>5, <1>6, ControlsAndAttempts, Zenon DEF attemptVars
  <1>7. CASE AttemptSteps
    <2>1. ASSUME NEW a \in AttemptIds, NEW n, NEW e, NEW leased, StartAttempt(a, n, e, leased)
          PROVE  SettlesStep
      <3>. DEFINE r == [node |-> n, executor |-> e, leased |-> leased,
                        outcome |-> "Live", effects |-> FALSE]
      <3>1. attempts' = [attempts EXCEPT ![a] = r] /\ r.outcome = "Live"
        BY <2>1, Zenon DEF StartAttempt
      <3>. HIDE DEF r
      <3>2. attempts'[a].outcome = "Live"
        BY <3>1, Zenon DEF AttemptInv, AttemptTypes
      <3>. QED BY <3>2, Zenon DEF SettlesStep, LiveAttempts
    <2>2. ASSUME NEW a \in AttemptIds, RecordRuntimeEffect(a) PROVE SettlesStep
      <3>1. attempts' = [attempts EXCEPT ![a] = [attempts[a] EXCEPT !.effects = TRUE]]
        BY <2>2, Zenon DEF RecordRuntimeEffect
      <3>2. ASSUME NEW r \in AttemptRecords PROVE [r EXCEPT !.effects = TRUE].outcome = r.outcome
        BY Zenon DEF AttemptRecords
      <3>3. \A b \in AttemptIds : attempts'[b].outcome = attempts[b].outcome
        BY <3>1, <3>2, Zenon DEF AttemptInv, AttemptTypes
      <3>. QED BY <3>3, Zenon DEF SettlesStep, LiveAttempts
    <2>3. ASSUME NEW a \in AttemptIds, CancelAttempt(a) PROVE SettlesStep
      <3>1. \E ph : phase' = SettleDraining(ph, sched', attempts')
        BY <2>3, Zenon DEF CancelAttempt
      <3>. QED BY <1>2, <3>1, Zenon
    <2>4. ASSUME NEW a \in AttemptIds, NEW outcome, NEW k, NEW d, NEW chain, NEW acked, NEW applied,
                 ReportAttempt(a, outcome, k, d, chain, acked, applied)
          PROVE  SettlesStep
      <3>1. \E ph : phase' = SettleDraining(ph, sched', attempts')
        BY <2>4, Zenon DEF ReportAttempt, RefreshedAndSettled
      <3>. QED BY <1>2, <3>1, Zenon
    <2>5. ASSUME NEW a \in AttemptIds,
                 \/ DeliverQueuedDirectives(a) \/ \E x \in DirectiveIds : IssueDirective(x, a)
                 \/ \E acked, applied : ReportProgress(a, acked, applied)
          PROVE  attempts' = attempts
      BY <2>5, Zenon DEF DeliverQueuedDirectives, IssueDirective, ReportProgress
    <2>. QED BY <1>1, <1>7, <2>1, <2>2, <2>3, <2>4, <2>5, SMTT(20) DEF AttemptSteps
  <1>8. ASSUME NEW late, InterruptExpiredLeases(late) PROVE SettlesStep
    <2>1. \E ph : phase' = SettleDraining(ph, sched', attempts')
      BY <1>8, Zenon DEF InterruptExpiredLeases, RefreshedAndSettled
    <2>. QED BY <1>2, <2>1
  <1>9. CASE Restart
    BY <1>9, Zenon DEF SettlesStep
  <1>10. CASE UNCHANGED vars
    BY <1>1, <1>10, Zenon DEF vars, attemptVars
  <1>. QED BY <1>4, <1>6, <1>7, <1>8, <1>9, <1>10, Zenon DEF Next

\* The step that ends the last attempt of a draining plan settles it as
\* cancelled, unless it is a restart.
THEOREM DrainingSettles == Spec => LastAttemptSettles
  <1>1. Init => AttemptInv
    BY AttemptInit
  <1>2. AttemptInv /\ [Next]_vars => AttemptInv'
    BY AttemptStep
  <1>3. AttemptInv /\ [Next]_vars =>
          [LiveAttempts(attempts) # {} /\ LiveAttempts(attempts') = {} /\ sched' = "Draining" =>
              phase' = "Cancelled" \/ Restart]_vars
    BY SettleHolds, Zenon DEF SettlesStep
  <1>. QED BY <1>1, <1>2, <1>3, PTL DEF Spec, LastAttemptSettles

ReviewStep ==
    phase # "Executing" /\ phase' = "Executing" /\ pending' # {} =>
        phase = "Blocked" \/ \E env \in Capabilities : AuthorizeExecution(env)

LEMMA IntentWaitsForReview ==
    ASSUME NEW intent, NEW ph, NEW pend, NEW env, NEW est, NEW cp,
           ApplyExecutionIntent(intent, ph, pend, env, est, cp)
    PROVE  ReviewStep
  BY Zenon DEF ApplyExecutionIntent, ReviewStep

LEMMA RefreshedPhase ==
    ASSUME NEW st, NEW ph
    PROVE  RefreshTerminalPhase(st, ph) \in {ph, "Completed", "Blocked"}
  BY Zenon DEF RefreshTerminalPhase

LEMMA SettledPhase ==
    ASSUME NEW ph, NEW sc, NEW at
    PROVE  SettleDraining(ph, sc, at) \in {ph, "Cancelled"}
  BY Zenon DEF SettleDraining

\* A step that keeps the phase, or leaves for one of the terminal ones.
LEMMA PhaseKept ==
    ASSUME phase' \in {phase, "Planning", "Completed", "Blocked", "Cancelled"}
    PROVE  ReviewStep
  BY Zenon DEF ReviewStep

LEMMA RefreshKeepsPhase ==
    ASSUME NEW st, NEW par, NEW at, NEW ls, NEW lk,
           Refreshed(st, phase, at, ls, lk) \/ RefreshedAndSettled(st, par, phase, at, ls, lk)
    PROVE  ReviewStep
  <1>1. phase' \in {phase, "Completed", "Blocked", "Cancelled"}
    BY RefreshedPhase, SettledPhase DEF Refreshed, RefreshedAndSettled
  <1>. QED BY <1>1, PhaseKept, Zenon

LEMMA ReviewHolds ==
    ASSUME [Next]_vars
    PROVE  ReviewStep
  <1>1. CASE CoordinatorEdits
    <2>1. BeginPlan => ReviewStep
      BY PhaseKept, Zenon DEF BeginPlan
    <2>2. ASSUME NEW k, NEW d, NEW chain, NEW cp, NEW i, DefineNewPlan(k, d, chain, cp, i)
          PROVE  ReviewStep
      BY <2>2, IntentWaitsForReview, Zenon DEF DefineNewPlan
    <2>3. ASSUME NEW r, NEW reused, NEW k, NEW d, NEW inherit, NEW chain, NEW cp, NEW reworded,
                 NEW i, DefinePlan(r, reused, k, d, inherit, chain, cp, reworded, i)
          PROVE  ReviewStep
      BY <2>3, IntentWaitsForReview, Zenon DEF DefinePlan
    <2>4. ASSUME NEW t, NEW reused, NEW k, NEW d, NEW inherit, NEW chain, NEW reworded,
                 NEW i, ReplaceSubtree(t, reused, k, d, inherit, chain, reworded, i)
          PROVE  ReviewStep
      BY <2>4, IntentWaitsForReview, Zenon DEF ReplaceSubtree
    <2>5. ASSUME NEW i, UseCurrentPlan(i) PROVE ReviewStep
      BY <2>5, IntentWaitsForReview, Zenon DEF UseCurrentPlan
    <2>. QED BY <1>1, <2>1, <2>2, <2>3, <2>4, <2>5 DEF CoordinatorEdits
  <1>2. CASE SubagentEdits
    <2>1. phase' = phase
      BY <1>2, ScopedEditKeeps, Zenon
    <2>. QED BY <2>1, PhaseKept
  <1>3. CASE UserControls
    <2>1. ASSUME NEW env, Approve(env) PROVE ReviewStep
      BY <2>1, Zenon DEF Approve, ReviewStep
    <2>2. ASSUME NEW env \in Capabilities, AuthorizeExecution(env) PROVE ReviewStep
      BY <2>2, Zenon DEF ReviewStep
    <2>3. PauseScheduling \/ ResumeScheduling \/ Revise => ReviewStep
      BY PhaseKept, Zenon DEF PauseScheduling, ResumeScheduling, ChangeSchedulerStatus, Revise
    <2>4. RequestCancellation => ReviewStep
      BY RefreshKeepsPhase, Zenon DEF RequestCancellation
    <2>5. ASSUME NEW n, RetryInterruptedNode(n) PROVE ReviewStep
      BY <2>5, Zenon DEF RetryInterruptedNode, ReviewStep
    <2>. QED BY <1>3, <2>1, <2>2, <2>3, <2>4, <2>5 DEF UserControls
  <1>4. CASE LinkSteps
    <2>1. ASSUME NEW l, NEW n, NEW b, BindSubagent(l, n, b) PROVE ReviewStep
      <3>1. CASE phase = "Blocked"
        BY <3>1, Zenon DEF ReviewStep
      <3>2. CASE phase # "Blocked"
        <4>1. \E st, lk : Refreshed(st, phase, attempts, leases, lk)
          BY <2>1, <3>2, Zenon DEF BindSubagent
        <4>. QED BY <4>1, RefreshKeepsPhase, Zenon
      <3>. QED BY <3>1, <3>2, Zenon
    <2>2. ASSUME NEW l, NEW end, UpdateSubagentLink(l, end) PROVE ReviewStep
      BY <2>2, RefreshKeepsPhase, Zenon DEF UpdateSubagentLink
    <2>3. ASSUME NEW l, LinkUpdateFails(l) PROVE ReviewStep
      BY <2>3, PhaseKept DEF LinkUpdateFails
    <2>. QED BY <1>4, <2>1, <2>2, <2>3 DEF LinkSteps
  <1>5. CASE AttemptSteps
    <2>1. ASSUME NEW a, NEW outcome, NEW k, NEW d, NEW chain, NEW acked, NEW applied,
                 ReportAttempt(a, outcome, k, d, chain, acked, applied)
          PROVE  ReviewStep
      BY <2>1, RefreshKeepsPhase, Zenon DEF ReportAttempt
    <2>2. ASSUME NEW a, CancelAttempt(a) PROVE ReviewStep
      BY <2>2, SettledPhase, PhaseKept, Zenon DEF CancelAttempt
    <2>3. ASSUME NEW a,
                 \/ \E n, e, leased : StartAttempt(a, n, e, leased)
                 \/ RecordRuntimeEffect(a) \/ DeliverQueuedDirectives(a)
                 \/ \E x \in DirectiveIds : IssueDirective(x, a)
                 \/ \E acked, applied : ReportProgress(a, acked, applied)
          PROVE  phase' = phase
      BY <2>3, Zenon DEF StartAttempt, RecordRuntimeEffect, DeliverQueuedDirectives, IssueDirective,
                  ReportProgress
    <2>. QED BY <1>5, <2>1, <2>2, <2>3, PhaseKept, Zenon DEF AttemptSteps
  <1>6. ASSUME NEW late, InterruptExpiredLeases(late) PROVE ReviewStep
    BY <1>6, RefreshKeepsPhase, Zenon DEF InterruptExpiredLeases
  <1>7. CASE Restart
    <2>1. phase' \in {phase, "Completed", "Blocked"}
      BY <1>7, RefreshedPhase DEF Restart, Refreshed
    <2>. QED BY <2>1, PhaseKept, Zenon
  <1>8. CASE UNCHANGED vars
    BY <1>8, PhaseKept, Zenon DEF vars
  <1>. QED BY <1>1, <1>2, <1>3, <1>4, <1>5, <1>6, <1>7, <1>8 DEF Next

\* Execution starts with a review outstanding only by authorize_execution or
\* when a blocked plan is put back to work.
THEOREM ReviewGatesExecution == Spec => ReviewBoundary
  <1>1. [Next]_vars =>
          [phase # "Executing" /\ phase' = "Executing" /\ pending' # {} =>
              phase = "Blocked" \/ \E env \in Capabilities : AuthorizeExecution(env)]_vars
    BY ReviewHolds, Zenon DEF ReviewStep
  <1>. QED BY <1>1, PTL DEF Spec, ReviewBoundary

-----------------------------------------------------------------------------
(***************************************************************************)
(* Work in progress has someone at it.                                     *)
(***************************************************************************)

AttemptOf(n) == \E a \in AttemptIds : attempts[a].outcome = "Live" /\ attempts[a].node = n
LinkOf(n) == \E l \in LinkIds : /\ links[l].plan = planNo /\ links[l].node = n
                                /\ links[l].status = "Active"
Worked == \A n \in NodeIds : status[n] = "InProgress" =>
              declared[n] = "InProgress" \/ AttemptOf(n) \/ LinkOf(n)

Domains == DOMAIN links = LinkIds /\ DOMAIN status = NodeIds
WorkInv == AttemptInv /\ Worked /\ Domains

LEMMA WorkedMeansNoOrphan ==
    ASSUME Worked
    PROVE  NoOrphanedWork
  BY DEF Worked, AttemptOf, LinkOf, NoOrphanedWork, LiveAttempts, ActiveLinks, NodeIds, NoNode

\* refresh_parent_states puts no node in progress.
LEMMA PassStartsNothing ==
    ASSUME NEW st, NEW par, NEW auto
    PROVE  /\ DOMAIN RefreshPass(st, par, auto) = NodeIds
           /\ \A n \in NodeIds : RefreshPass(st, par, auto)[n] = "InProgress" => st[n] = "InProgress"
  BY Zenon DEF RefreshPass

\* From st to st2 no node comes into progress.
NoneStarted(st, st2) ==
    /\ DOMAIN st2 = NodeIds
    /\ \A n \in NodeIds : st2[n] = "InProgress" => st[n] = "InProgress"

LEMMA RefreshStartsNothing ==
    ASSUME NEW st, NEW par, NEW ph, NEW sc, NEW at, NEW ls, NEW lk, NEW st2,
           st2 = RefreshParentStates(st, par, ph, sc, at, ls, lk)
    PROVE  NoneStarted(st, st2)
  <1>. DEFINE auto == /\ ph = "Executing" /\ sc = "Active"
                      /\ ~NodeHasLiveExecution(root, at, ls, lk)
             once == RefreshPass(st, par, auto)
  <1>1. st2 = RefreshPass(once, par, auto)
    BY Zenon DEF RefreshParentStates
  <1>2. \A n \in NodeIds : once[n] = "InProgress" => st[n] = "InProgress"
    BY PassStartsNothing, Zenon
  <1>. HIDE DEF auto, once
  <1>. QED BY <1>1, <1>2, PassStartsNothing DEF NoneStarted

\* Who works on a node still does.
StillWorked(n) ==
    /\ status[n] = "InProgress" /\ declared'[n] = declared[n]
    /\ AttemptOf(n) => AttemptOf(n)'
    /\ LinkOf(n) => LinkOf(n)'

LEMMA WorkGoesOn ==
    ASSUME WorkInv, AttemptInv', DOMAIN links' = LinkIds, DOMAIN status' = NodeIds,
           \A n \in NodeIds : status'[n] = "InProgress" =>
               \/ declared'[n] = "InProgress" \/ AttemptOf(n)' \/ LinkOf(n)'
               \/ StillWorked(n)
    PROVE  WorkInv'
  <1>1. ASSUME NEW n \in NodeIds, status'[n] = "InProgress"
        PROVE  declared'[n] = "InProgress" \/ AttemptOf(n)' \/ LinkOf(n)'
    BY <1>1, Zenon DEF WorkInv, Worked, StillWorked
  <1>. QED BY <1>1, Zenon DEF WorkInv, Worked, Domains

LEMMA AttemptsUnchanged ==
    ASSUME attempts' = attempts, NEW n
    PROVE  AttemptOf(n) => AttemptOf(n)'
  BY Zenon DEF AttemptOf

LEMMA LinksUnchanged ==
    ASSUME links' = links, planNo' = planNo, NEW n
    PROVE  LinkOf(n) => LinkOf(n)'
  BY Zenon DEF LinkOf

\* The steps that change no node but to statuses other than in progress, no link
\* and no attempt.
LEMMA QuietWork ==
    ASSUME WorkInv, UNCHANGED <<attemptVars, links, planNo, declared>>, DOMAIN status' = NodeIds,
           \A n \in NodeIds : status'[n] = "InProgress" => status[n] = "InProgress"
    PROVE  WorkInv'
  <1>1. /\ attempts' = attempts /\ links' = links /\ planNo' = planNo /\ declared' = declared
        /\ DOMAIN links' = LinkIds /\ AttemptInv'
    BY AttemptsStill, Zenon DEF WorkInv, Domains, attemptVars
  <1>2. \A n \in NodeIds : status'[n] = "InProgress" => StillWorked(n)
    BY <1>1, AttemptsUnchanged, LinksUnchanged DEF StillWorked
  <1>. QED BY <1>1, <1>2, WorkGoesOn, Zenon

\* TreeBuilder: what it writes is declared, and what it leaves keeps its links.
LEMMA BuildWork ==
    ASSUME WorkInv, NEW st, NEW top, NEW up, NEW below, NEW new, NEW d, NEW inherit, NEW chain,
           Build(st, top, up, below, new, d, inherit, chain), UNCHANGED <<attemptVars, planNo>>,
           \A n \in NodeIds : st[n] = "InProgress" => status[n] = "InProgress"
    PROVE  WorkInv'
  <1>. DEFINE input == {top} \cup below
  <1>1. /\ attempts' = attempts /\ planNo' = planNo /\ AttemptInv'
    BY AttemptsStill, Zenon DEF WorkInv, attemptVars
  <1>2. /\ DOMAIN links' = LinkIds /\ DOMAIN status' = NodeIds
        /\ \A n \in NodeIds : n \in input => status'[n] = declared'[n]
        /\ \A n \in NodeIds : n \notin input => status'[n] = st[n] /\ declared'[n] = declared[n]
    BY Zenon DEF Build
  <1>3. ASSUME NEW l \in LinkIds,
               links[l].node \notin input, st[links[l].node] # "Absent"
        PROVE  links'[l] = links[l]
    BY <1>3, Zenon DEF Build
  <1>. HIDE DEF input
  <1>4. ASSUME NEW n \in NodeIds, n \notin input, st[n] = "InProgress", LinkOf(n) PROVE LinkOf(n)'
    <2>1. PICK l \in LinkIds : links[l].plan = planNo /\ links[l].node = n /\ links[l].status = "Active"
      BY <1>4, Zenon DEF LinkOf
    <2>2. links'[l] = links[l]
      BY <1>3, <1>4, <2>1, Zenon
    <2>. QED BY <1>1, <2>1, <2>2, Zenon DEF LinkOf
  <1>5. ASSUME NEW n \in NodeIds, status'[n] = "InProgress"
        PROVE  declared'[n] = "InProgress" \/ StillWorked(n)
    <2>1. CASE n \in input
      BY <1>2, <1>5, <2>1, ZenonT(30)
    <2>2. CASE n \notin input
      BY <1>1, <1>2, <1>4, <1>5, <2>2, AttemptsUnchanged, SMTT(20) DEF StillWorked
    <2>. QED BY <2>1, <2>2, Zenon
  <1>. QED BY <1>1, <1>2, <1>5, WorkGoesOn, Zenon

LEMMA CoordinatorWork ==
    ASSUME WorkInv, CoordinatorEdits
    PROVE  WorkInv'
  <1>1. CASE BeginPlan
    <2>1. /\ status' = BlankTree /\ links' = links /\ DOMAIN links' = LinkIds
      BY <1>1, Zenon DEF BeginPlan, linkVars, WorkInv, Domains
    <2>2. DOMAIN status' = NodeIds /\ \A n \in NodeIds : status'[n] # "InProgress"
      BY <2>1, Zenon DEF BlankTree
    <2>3. AttemptInv'
      BY <1>1, AttemptsCleared, Zenon DEF BeginPlan
    <2>. QED BY <2>1, <2>2, <2>3, WorkGoesOn, Zenon
  <1>2. ASSUME NEW k, NEW d, NEW chain, NEW cp, NEW i, DefineNewPlan(k, d, chain, cp, i)
        PROVE  WorkInv'
    <2>1. declared' = status' /\ DOMAIN status' = NodeIds /\ DOMAIN links' = LinkIds
      BY <1>2, Zenon DEF DefineNewPlan, linkVars, WorkInv, Domains
    <2>2. AttemptInv'
      BY <1>2, AttemptsCleared, Zenon DEF DefineNewPlan
    <2>. QED BY <2>1, <2>2, WorkGoesOn, Zenon
  <1>3. ASSUME NEW r, NEW reused, NEW k, NEW d, NEW inherit, NEW chain, NEW cp, NEW reworded,
               NEW i, DefinePlan(r, reused, k, d, inherit, chain, cp, reworded, i)
        PROVE  WorkInv'
    <2>. DEFINE kept == [n \in NodeIds |-> IF n \in LiveNodes(status) THEN "Superseded" ELSE "Absent"]
    <2>1. /\ Build(kept, r, NoNode, ({r} \cup reused \cup NewNodes(k)) \ {r}, NewNodes(k), d, inherit, chain)
          /\ UNCHANGED <<attemptVars, planNo>>
      BY <1>3, Zenon DEF DefinePlan
    <2>2. \A n \in NodeIds : kept[n] = "InProgress" => status[n] = "InProgress"
      BY Zenon
    <2>. HIDE DEF kept
    <2>. QED BY <2>1, <2>2, BuildWork, Zenon
  <1>4. ASSUME NEW t, NEW reused, NEW k, NEW d, NEW inherit, NEW chain, NEW reworded,
               NEW i, ReplaceSubtree(t, reused, k, d, inherit, chain, reworded, i)
        PROVE  WorkInv'
    <2>. DEFINE omitted == LiveSubtree(status, parent, t) \ ({t} \cup reused)
               kept == [n \in NodeIds |-> IF n \in omitted THEN "Superseded" ELSE status[n]]
    <2>1. /\ Build(kept, t, parent[t], reused \cup NewNodes(k), NewNodes(k), d, inherit, chain)
          /\ UNCHANGED <<attemptVars, planNo>>
      BY <1>4, Zenon DEF ReplaceSubtree
    <2>2. \A n \in NodeIds : kept[n] = "InProgress" => status[n] = "InProgress"
      BY Zenon
    <2>. HIDE DEF kept
    <2>. QED BY <2>1, <2>2, BuildWork, Zenon
  <1>5. ASSUME NEW i, UseCurrentPlan(i) PROVE WorkInv'
    <2>1. UNCHANGED <<attemptVars, links, planNo, declared, status>>
      BY <1>5, Zenon DEF UseCurrentPlan, treeVars, linkVars
    <2>. QED BY <2>1, QuietWork, Zenon DEF WorkInv, Domains
  <1>. QED BY <1>1, <1>2, <1>3, <1>4, <1>5, ZenonT(30) DEF CoordinatorEdits

LEMMA SubagentWork ==
    ASSUME WorkInv, SubagentEdits
    PROVE  WorkInv'
  <1>1. /\ UNCHANGED <<attemptVars, links, planNo>> /\ DOMAIN status' = NodeIds
        /\ \A n \in NodeIds :
              \/ status'[n] = declared'[n] \/ status'[n] = "Superseded"
              \/ status'[n] = status[n] /\ (declared'[n] = declared[n] \/ status[n] # "InProgress")
    <2>1. ASSUME NEW l, NEW k, NEW d, NEW chain, DefineScopedChildren(l, k, d, chain)
          PROVE  /\ UNCHANGED <<attemptVars, links, planNo>> /\ DOMAIN status' = NodeIds
                 /\ \A n \in NodeIds : \/ status'[n] = declared'[n]
                                       \/ status'[n] = status[n] /\ declared'[n] = declared[n]
      BY <2>1, Zenon DEF DefineScopedChildren, linkVars
    <2>2. ASSUME NEW l, NEW t, NEW k, NEW d, NEW chain, ReplaceScopedSubtree(l, t, k, d, chain)
          PROVE  /\ UNCHANGED <<attemptVars, links, planNo>> /\ DOMAIN status' = NodeIds
                 /\ \A n \in NodeIds :
                       \/ status'[n] = declared'[n] \/ status'[n] = "Superseded"
                       \/ /\ status'[n] = status[n]
                          /\ declared'[n] = declared[n] \/ status[n] # "InProgress"
      <3>. DEFINE top == links[l].node
      <3>1. t # top => status[t] = "Pending"
        BY <2>2, Zenon DEF ReplaceScopedSubtree, Mutable
      <3>. QED BY <2>2, <3>1, Zenon DEF ReplaceScopedSubtree, linkVars
    <2>. QED BY <2>1, <2>2, Zenon DEF SubagentEdits
  <1>2. /\ attempts' = attempts /\ links' = links /\ planNo' = planNo
        /\ DOMAIN links' = LinkIds /\ AttemptInv'
    BY <1>1, AttemptsStill DEF WorkInv, Domains, attemptVars
  <1>3. \A n \in NodeIds : status'[n] = "InProgress" => declared'[n] = "InProgress" \/ StillWorked(n)
    BY <1>1, <1>2, AttemptsUnchanged, LinksUnchanged, ZenonT(30) DEF StillWorked
  <1>. QED BY <1>1, <1>2, <1>3, WorkGoesOn, ZenonT(30)

\* Attempts are ended, and the nodes they worked on leave their status.
EndsWork(over) ==
    /\ \A a \in AttemptIds : a \notin over => attempts'[a].outcome = attempts[a].outcome
                                              /\ attempts'[a].node = attempts[a].node
    /\ links' = links /\ planNo' = planNo /\ DOMAIN status' = NodeIds
    /\ \A n \in NodeIds : status'[n] = "InProgress" =>
           \/ declared'[n] = "InProgress"
           \/ /\ status[n] = "InProgress" /\ declared'[n] = declared[n]
              /\ \A a \in AttemptIds : a \in over => attempts[a].node # n

LEMMA EndedWork ==
    ASSUME WorkInv, AttemptInv', NEW over, EndsWork(over)
    PROVE  WorkInv'
  <1>1. ASSUME NEW n \in NodeIds, \A a \in AttemptIds : a \in over => attempts[a].node # n, AttemptOf(n)
        PROVE  AttemptOf(n)'
    BY <1>1, Zenon DEF AttemptOf, EndsWork
  <1>2. \A n \in NodeIds : status'[n] = "InProgress" => declared'[n] = "InProgress" \/ StillWorked(n)
    BY <1>1, LinksUnchanged, Zenon DEF StillWorked, EndsWork
  <1>3. DOMAIN links' = LinkIds /\ DOMAIN status' = NodeIds
    BY Zenon DEF WorkInv, Domains, EndsWork
  <1>. QED BY <1>2, <1>3, WorkGoesOn, Zenon

LEMMA ControlWork ==
    ASSUME WorkInv, UserControls
    PROVE  WorkInv'
  <1>1. ASSUME \/ \E env : Approve(env) \/ AuthorizeExecution(env)
               \/ PauseScheduling \/ ResumeScheduling \/ Revise
        PROVE  WorkInv'
    <2>1. UNCHANGED <<attemptVars, links, planNo, declared, status>>
      BY <1>1, Zenon DEF Approve, AuthorizeExecution, PauseScheduling, ResumeScheduling,
                  ChangeSchedulerStatus, Revise, treeVars, linkVars
    <2>. QED BY <2>1, QuietWork DEF WorkInv, Domains
  <1>2. CASE RequestCancellation
    <2>. DEFINE over == {a \in LiveAttempts(attempts) : ~attempts[a].leased}
               at == [a \in AttemptIds |->
                        IF a \in over THEN Closed(attempts[a], "Cancelled") ELSE attempts[a]]
               st == [n \in NodeIds |->
                        IF \E a \in over : attempts[a].node = n THEN "Blocked" ELSE status[n]]
    <2>1. /\ attempts' = at /\ links' = links /\ planNo' = planNo /\ declared' = declared
          /\ status' = RefreshParentStates(st, parent, phase, sched', at, leases, links)
      BY <1>2, Zenon DEF RequestCancellation, RefreshedAndSettled, treeVars, linkVars
    <2>2. \A n \in NodeIds : st[n] = "InProgress" =>
             status[n] = "InProgress" /\ \A a \in AttemptIds : a \in over => attempts[a].node # n
      BY Zenon
    <2>3. \A a \in AttemptIds : a \notin over => at[a] = attempts[a]
      BY Zenon
    <2>. HIDE DEF over, at, st
    <2>4. AttemptInv'
      BY <1>2, CancellationInv, Zenon DEF WorkInv
    <2>5. NoneStarted(st, status')
      BY <2>1, RefreshStartsNothing, ZenonT(30)
    <2>6. EndsWork(over)
      BY <2>1, <2>2, <2>3, <2>5, Zenon DEF EndsWork, NoneStarted
    <2>. QED BY <2>4, <2>6, EndedWork, ZenonT(30)
  <1>3. ASSUME NEW n, RetryInterruptedNode(n) PROVE WorkInv'
    <2>. DEFINE st == [m \in NodeIds |->
                  IF m = n THEN "Pending"
                  ELSE IF m \in Ancestors(parent, n) /\ status[m] = "Blocked" THEN "Expanded"
                  ELSE status[m]]
    <2>1. /\ UNCHANGED <<attemptVars, links, planNo, declared>>
          /\ status' = RefreshParentStates(st, parent, phase, sched, attempts, leases, links)
      BY <1>3, Zenon DEF RetryInterruptedNode, treeVars, linkVars
    <2>2. \A m \in NodeIds : st[m] = "InProgress" => status[m] = "InProgress"
      BY Zenon
    <2>. HIDE DEF st
    <2>3. NoneStarted(st, status')
      BY <2>1, RefreshStartsNothing, ZenonT(30)
    <2>. QED BY <2>1, <2>2, <2>3, QuietWork, Zenon DEF NoneStarted
  <1>. QED BY <1>1, <1>2, <1>3, Zenon DEF UserControls

LEMMA BindWork ==
    ASSUME WorkInv, NEW l \in LinkIds, NEW n \in NodeIds, NEW b, BindSubagent(l, n, b)
    PROVE  WorkInv'
  <1>. DEFINE new == [plan |-> planNo, node |-> n, binding |-> b,
                      status |-> "Active", replaced |-> FALSE]
             lk == [m \in LinkIds |->
                      IF m = l THEN new
                      ELSE IF m \in LinksOf(links, n) /\ ~links[m].replaced
                              /\ links[m].status \in LinkEnds
                      THEN [links[m] EXCEPT !.status = "Superseded", !.replaced = TRUE]
                      ELSE links[m]]
             st == [m \in NodeIds |->
                      IF m = n THEN LinkProjection(lk, n)
                      ELSE IF m \in Ancestors(parent, n) /\ status[m] \in {"Blocked", "Failed"}
                      THEN "Expanded" ELSE status[m]]
  <1>1. /\ UNCHANGED <<attemptVars, planNo, declared>> /\ links' = lk
        /\ \E ph : status' = RefreshParentStates(st, parent, ph, sched', attempts, leases, lk)
        /\ links[l].status = "Free"
    BY Zenon DEF BindSubagent, Refreshed, treeVars
  <1>2. new.plan = planNo /\ new.node = n /\ new.status = "Active" /\ lk[l] = new
    BY Zenon
  <1>3. \A m \in LinkIds : links[m].status = "Active" => lk[m] = links[m]
    BY <1>1, Zenon DEF LinkEnds
  <1>4. \A m \in NodeIds : m # n /\ st[m] = "InProgress" => status[m] = "InProgress"
    BY Zenon
  <1>5. DOMAIN lk = LinkIds
    BY Zenon
  <1>. HIDE DEF new, lk, st
  <1>6. NoneStarted(st, status')
    BY <1>1, RefreshStartsNothing, ZenonT(30)
  <1>7. LinkOf(n)'
    BY <1>1, <1>2, Zenon DEF LinkOf
  <1>8. \A m \in NodeIds : LinkOf(m) => LinkOf(m)'
    BY <1>1, <1>3, ZenonT(30) DEF LinkOf
  <1>9. AttemptInv' /\ attempts' = attempts /\ DOMAIN links' = LinkIds /\ DOMAIN status' = NodeIds
    BY <1>1, <1>5, <1>6, AttemptsStill DEF WorkInv, attemptVars, NoneStarted
  <1>10. \A m \in NodeIds : status'[m] = "InProgress" => LinkOf(m)' \/ StillWorked(m)
    BY <1>1, <1>4, <1>6, <1>7, <1>8, <1>9, AttemptsUnchanged, ZenonT(30) DEF StillWorked, NoneStarted
  <1>. QED BY <1>9, <1>10, WorkGoesOn, Zenon

LEMMA ProjectedWork ==
    ASSUME NEW lk, NEW n \in NodeIds, LinkProjection(lk, n) = "InProgress"
    PROVE  \/ declared[n] = "InProgress"
           \/ \E l \in LinkIds : lk[l].plan = planNo /\ lk[l].node = n /\ lk[l].status = "Active"
  BY Zenon DEF LinkProjection, LinksOf

LEMMA UpdateLinkWork ==
    ASSUME WorkInv, NEW l \in LinkIds, NEW end \in LinkEnds, UpdateSubagentLink(l, end)
    PROVE  WorkInv'
  <1>1. PICK m \in LinkIds :
           LET lk == [links EXCEPT ![m].status = end]
               n == links[m].node
           IN  /\ links' = lk
               /\ Refreshed([status EXCEPT ![n] = LinkProjection(lk, n)], phase, attempts, leases, lk)
    BY Zenon DEF UpdateSubagentLink, LinkOfBinding
  <1>. DEFINE lk == [links EXCEPT ![m].status = end]
             n == links[m].node
             st == [status EXCEPT ![n] = LinkProjection(lk, n)]
  <1>2. /\ UNCHANGED <<attemptVars, planNo, declared>> /\ links' = lk
        /\ status' = RefreshParentStates(st, parent, phase, sched', attempts, leases, lk)
    BY <1>1, Zenon DEF UpdateSubagentLink, Refreshed, treeVars
  <1>3. DOMAIN lk = LinkIds /\ \A k \in LinkIds : k # m => lk[k] = links[k]
    BY Zenon DEF WorkInv, Domains
  <1>4. \A k \in NodeIds : k # n => st[k] = status[k]
    BY Zenon DEF WorkInv, Domains
  <1>5. n \in NodeIds => st[n] = LinkProjection(lk, n)
    BY Zenon DEF WorkInv, Domains
  <1>. HIDE DEF lk, st
  <1>6. NoneStarted(st, status')
    BY <1>2, RefreshStartsNothing, ZenonT(30)
  <1>7. ASSUME NEW k \in NodeIds, k # n, LinkOf(k) PROVE LinkOf(k)'
    BY <1>2, <1>3, <1>7, Zenon DEF LinkOf
  <1>8. AttemptInv' /\ attempts' = attempts /\ planNo' = planNo /\ declared' = declared
        /\ DOMAIN links' = LinkIds /\ DOMAIN status' = NodeIds
    BY <1>2, <1>3, <1>6, AttemptsStill, ZenonT(30) DEF WorkInv, attemptVars, NoneStarted
  <1>9. ASSUME NEW k \in NodeIds, status'[k] = "InProgress"
        PROVE  declared'[k] = "InProgress" \/ LinkOf(k)' \/ StillWorked(k)
    <2>1. CASE k = n
      <3>1. LinkProjection(lk, k) = "InProgress"
        BY <1>5, <1>6, <1>9, <2>1, ZenonT(30) DEF NoneStarted
      <3>2. \/ declared[k] = "InProgress"
            \/ \E j \in LinkIds : lk[j].plan = planNo /\ lk[j].node = k /\ lk[j].status = "Active"
        BY <3>1, ProjectedWork, Zenon
      <3>3. links' = lk /\ planNo' = planNo /\ declared' = declared
        BY <1>2, <1>8, Zenon
      <3>. QED BY <3>2, <3>3, Zenon DEF LinkOf
    <2>2. CASE k # n
      <3>1. status[k] = "InProgress"
        BY <1>4, <1>6, <1>9, <2>2, Zenon DEF NoneStarted
      <3>. QED BY <1>7, <1>8, <2>2, <3>1, AttemptsUnchanged, ZenonT(30) DEF StillWorked
    <2>. QED BY <2>1, <2>2, Zenon
  <1>. QED BY <1>8, <1>9, WorkGoesOn, Zenon

LEMMA LinkWork ==
    ASSUME WorkInv, LinkSteps
    PROVE  WorkInv'
  <1>1. ASSUME NEW l, LinkUpdateFails(l) PROVE WorkInv'
    <2>1. UNCHANGED <<attemptVars, links, planNo, declared, status>>
      BY <1>1, Zenon DEF LinkUpdateFails, treeVars
    <2>. QED BY <2>1, QuietWork DEF WorkInv, Domains
  <1>. QED BY <1>1, BindWork, UpdateLinkWork, Zenon DEF LinkSteps

LEMMA StartWork ==
    ASSUME WorkInv, AttemptInv', NEW a \in AttemptIds, NEW n \in NodeIds, NEW e, NEW leased,
           StartAttempt(a, n, e, leased)
    PROVE  WorkInv'
  <1>. DEFINE new == [node |-> n, executor |-> e, leased |-> leased,
                      outcome |-> "Live", effects |-> FALSE]
  <1>1. /\ attempts' = [attempts EXCEPT ![a] = new] /\ status' = [status EXCEPT ![n] = "InProgress"]
        /\ links' = links /\ planNo' = planNo /\ declared' = declared /\ attempts[a].outcome = "Free"
    BY Zenon DEF StartAttempt, treeVars, linkVars
  <1>2. new.node = n /\ new.outcome = "Live"
    BY Zenon
  <1>3. DOMAIN attempts = AttemptIds /\ DOMAIN status = NodeIds /\ DOMAIN links = LinkIds
    BY Zenon DEF WorkInv, Domains, AttemptInv, AttemptTypes
  <1>. HIDE DEF new
  <1>4. AttemptOf(n)'
    BY <1>1, <1>2, <1>3, Zenon DEF AttemptOf
  <1>5. \A m \in NodeIds : AttemptOf(m) => AttemptOf(m)'
    BY <1>1, <1>3, Zenon DEF AttemptOf
  <1>6. \A m \in NodeIds : status'[m] = "InProgress" => AttemptOf(m)' \/ StillWorked(m)
    BY <1>1, <1>3, <1>4, <1>5, LinksUnchanged, Zenon DEF StillWorked
  <1>7. DOMAIN links' = LinkIds /\ DOMAIN status' = NodeIds
    BY <1>1, <1>3, Zenon
  <1>. QED BY <1>6, <1>7, WorkGoesOn, Zenon

LEMMA OutcomeStops ==
    ASSUME NEW n, NEW outcome \in Reportable
    PROVE  StatusAfterOutcome(n, outcome) # "InProgress"
  BY Zenon DEF StatusAfterOutcome, Reportable

LEMMA ReportWork ==
    ASSUME WorkInv, AttemptInv', NEW a \in AttemptIds, NEW outcome \in Reportable, NEW k, NEW d,
           NEW chain, NEW acked, NEW applied,
           ReportAttempt(a, outcome, k, d, chain, acked, applied)
    PROVE  WorkInv'
  <1>. DEFINE n == attempts[a].node
             new == NewNodes(k)
             at == [attempts EXCEPT ![a] = Closed(@, outcome)]
             ls == [leases EXCEPT ![a] = IF attempts[a].leased THEN "Resolved" ELSE @]
             st == [m \in NodeIds |-> IF m = n THEN StatusAfterOutcome(n, outcome)
                                      ELSE IF m \in new THEN d ELSE status[m]]
  <1>1. /\ attempts' = at /\ links' = links /\ planNo' = planNo
        /\ declared' = [m \in NodeIds |-> IF m \in new THEN d ELSE declared[m]]
        /\ status' = RefreshParentStates(st, parent', phase, sched', at, ls, links)
    BY Zenon DEF ReportAttempt, RefreshedAndSettled, linkVars
  <1>2. \A m \in NodeIds : st[m] = "InProgress" =>
           \/ declared'[m] = "InProgress"
           \/ m # n /\ status[m] = "InProgress" /\ declared'[m] = declared[m]
    BY <1>1, OutcomeStops, Zenon
  <1>3. \A b \in AttemptIds : b # a => at[b] = attempts[b]
    BY Zenon DEF WorkInv, AttemptInv, AttemptTypes
  <1>. HIDE DEF new, at, ls, st
  <1>4. NoneStarted(st, status')
    BY <1>1, RefreshStartsNothing, ZenonT(30)
  <1>. DEFINE over == {a}
  <1>5. \A b \in AttemptIds : b \in over <=> b = a
    BY Zenon
  <1>. HIDE DEF over
  <1>6. EndsWork(over)
    <2>1. \A m \in NodeIds : status'[m] = "InProgress" =>
               \/ declared'[m] = "InProgress"
               \/ /\ status[m] = "InProgress" /\ declared'[m] = declared[m]
                  /\ \A b \in AttemptIds : b \in over => attempts[b].node # m
      BY <1>2, <1>4, <1>5, Zenon DEF NoneStarted
    <2>2. \A b \in AttemptIds : b \notin over => attempts'[b].outcome = attempts[b].outcome
                                                  /\ attempts'[b].node = attempts[b].node
      BY <1>1, <1>3, <1>5, Zenon
    <2>3. links' = links /\ planNo' = planNo /\ DOMAIN status' = NodeIds
      BY <1>1, <1>4, Zenon DEF NoneStarted
    <2>. QED BY <2>1, <2>2, <2>3, Zenon DEF EndsWork
  <1>. QED BY <1>6, EndedWork, ZenonT(30)

LEMMA CancelWork ==
    ASSUME WorkInv, AttemptInv', NEW a \in AttemptIds, CancelAttempt(a)
    PROVE  WorkInv'
  <1>. DEFINE over == {a}
  <1>1. /\ links' = links /\ planNo' = planNo /\ declared' = declared
        /\ status' = [status EXCEPT ![attempts[a].node] = "Blocked"]
        /\ attempts' = [attempts EXCEPT ![a] = Closed(attempts[a], "Cancelled")]
    BY Zenon DEF CancelAttempt, treeVars, linkVars
  <1>2. DOMAIN attempts = AttemptIds /\ DOMAIN status = NodeIds
    BY Zenon DEF WorkInv, Domains, AttemptInv, AttemptTypes
  <1>3. /\ \A b \in AttemptIds : b \notin over => attempts'[b] = attempts[b]
        /\ DOMAIN status' = NodeIds
        /\ \A m \in NodeIds : m # attempts[a].node => status'[m] = status[m]
        /\ attempts[a].node \in NodeIds => status'[attempts[a].node] = "Blocked"
    BY <1>1, <1>2, Zenon
  <1>4. \A b \in AttemptIds : b \in over <=> b = a
    BY Zenon
  <1>. HIDE DEF over
  <1>5. EndsWork(over)
    <2>1. \A m \in NodeIds : status'[m] = "InProgress" =>
             /\ status[m] = "InProgress" /\ declared'[m] = declared[m]
             /\ \A b \in AttemptIds : b \in over => attempts[b].node # m
      BY <1>1, <1>3, <1>4, Zenon
    <2>. QED BY <1>1, <1>3, <2>1, Zenon DEF EndsWork
  <1>. QED BY <1>5, EndedWork, ZenonT(30)

\* The steps of an attempt that goes on.
LEMMA OngoingWork ==
    ASSUME WorkInv, AttemptInv', NEW a \in AttemptIds,
           \/ RecordRuntimeEffect(a) \/ DeliverQueuedDirectives(a)
           \/ \E x \in DirectiveIds : IssueDirective(x, a)
           \/ \E acked, applied : ReportProgress(a, acked, applied)
    PROVE  WorkInv'
  <1>1. /\ links' = links /\ planNo' = planNo /\ declared' = declared /\ status' = status
        /\ attempts' = attempts \/ attempts' = [attempts EXCEPT ![a].effects = TRUE]
    BY Zenon DEF RecordRuntimeEffect, DeliverQueuedDirectives, IssueDirective, ReportProgress,
           treeVars, linkVars
  <1>2. \A b \in AttemptIds : attempts'[b].outcome = attempts[b].outcome
                              /\ attempts'[b].node = attempts[b].node
    <2>1. attempts \in [AttemptIds -> AttemptRecords]
      BY Zenon DEF WorkInv, AttemptInv, AttemptTypes
    <2>. QED BY <1>1, <2>1 DEF AttemptRecords
  <1>. DEFINE over == {}
  <1>3. \A b \in AttemptIds : b \notin over
    BY Zenon
  <1>. HIDE DEF over
  <1>4. DOMAIN status' = NodeIds
    BY <1>1, Zenon DEF WorkInv, Domains
  <1>5. EndsWork(over)
    BY <1>1, <1>2, <1>3, <1>4, Zenon DEF EndsWork
  <1>. QED BY <1>5, EndedWork, ZenonT(30)

LEMMA ExpiryWork ==
    ASSUME WorkInv, AttemptInv', NEW late, InterruptExpiredLeases(late)
    PROVE  WorkInv'
  <1>. DEFINE at == [a \in AttemptIds |->
                  IF a \in late THEN Closed(attempts[a], "Interrupted") ELSE attempts[a]]
             ls == [a \in AttemptIds |-> IF a \in late THEN "Expired" ELSE leases[a]]
             st == [n \in NodeIds |->
                  IF \E a \in late : attempts[a].node = n
                  THEN IF \A a \in late : attempts[a].node = n => CanRetry(a)
                       THEN "Pending" ELSE "Blocked"
                  ELSE status[n]]
  <1>1. /\ attempts' = at /\ links' = links /\ planNo' = planNo /\ declared' = declared
        /\ status' = RefreshParentStates(st, parent, phase, sched', at, ls, links)
    BY Zenon DEF InterruptExpiredLeases, RefreshedAndSettled, treeVars, linkVars
  <1>2. \A n \in NodeIds : st[n] = "InProgress" =>
           status[n] = "InProgress" /\ \A a \in AttemptIds : a \in late => attempts[a].node # n
    BY Zenon
  <1>3. \A a \in AttemptIds : a \notin late => at[a] = attempts[a]
    BY Zenon
  <1>. HIDE DEF at, ls, st
  <1>4. NoneStarted(st, status')
    BY <1>1, RefreshStartsNothing, ZenonT(30)
  <1>5. EndsWork(late)
    BY <1>1, <1>2, <1>3, <1>4 DEF EndsWork, NoneStarted
  <1>. QED BY <1>5, EndedWork, ZenonT(30)

\* After a restart nobody is at work: what is still shown in progress was declared so.
LEMMA RestartWork ==
    ASSUME WorkInv, AttemptInv', Restart
    PROVE  WorkInv'
  <1>. DEFINE st == RefreshParentStates(status, parent, phase, sched, attempts, leases, links)
             open == LiveAttempts(attempts)
             cut == ActiveLinks(links)
             stopped == {attempts[a].node : a \in open} \cup {links[l].node : l \in cut}
             halted == [n \in NodeIds |-> IF n \in stopped THEN "Blocked" ELSE st[n]]
  <1>1. /\ declared' = declared /\ DOMAIN links' = LinkIds
        /\ \/ open = {} /\ cut = {} /\ status' = st
           \/ \E ph, at, ls, lk :
                 status' = RefreshParentStates(halted, parent, ph, sched', at, ls, lk)
    BY Zenon DEF Restart, Refreshed, treeVars
  <1>2. NoneStarted(status, st)
    BY RefreshStartsNothing, ZenonT(30)
  <1>3. \A n \in NodeIds : halted[n] = "InProgress" => st[n] = "InProgress" /\ n \notin stopped
    BY Zenon
  <1>. HIDE DEF st, halted
  <1>4. DOMAIN status' = NodeIds
        /\ \A n \in NodeIds : status'[n] = "InProgress" => status[n] = "InProgress" /\ n \notin stopped
    <2>1. CASE open = {} /\ cut = {} /\ status' = st
      BY <1>2, <2>1, Zenon DEF NoneStarted
    <2>2. CASE \E ph, at, ls, lk :
                 status' = RefreshParentStates(halted, parent, ph, sched', at, ls, lk)
      <3>1. NoneStarted(halted, status')
        BY <2>2, RefreshStartsNothing, ZenonT(30)
      <3>. HIDE DEF stopped
      <3>. QED BY <3>1, <1>2, <1>3, Zenon DEF NoneStarted
    <2>. QED BY <1>1, <2>1, <2>2, Zenon
  <1>5. \A n \in NodeIds : n \notin stopped => ~AttemptOf(n) /\ ~LinkOf(n)
    BY DEF AttemptOf, LinkOf, LiveAttempts, ActiveLinks, NoNode, NodeIds
  <1>. HIDE DEF stopped
  <1>6. \A n \in NodeIds : status'[n] = "InProgress" => declared'[n] = "InProgress"
    BY <1>1, <1>4, <1>5, Zenon DEF WorkInv, Worked
  <1>. QED BY <1>1, <1>4, <1>6, WorkGoesOn, ZenonT(30)

LEMMA WorkStep ==
    ASSUME WorkInv, [Next]_vars
    PROVE  WorkInv'
  <1>1. AttemptInv'
    BY AttemptStep, Zenon DEF WorkInv
  <1>2. CASE AttemptSteps
    <2>1. PICK a \in AttemptIds :
            \/ \E n \in ReadyNodes, e \in Executors, leased \in BOOLEAN : StartAttempt(a, n, e, leased)
            \/ RecordRuntimeEffect(a) \/ DeliverQueuedDirectives(a)
            \/ \E x \in DirectiveIds : IssueDirective(x, a)
            \/ \E acked, applied : ReportProgress(a, acked, applied)
            \/ CancelAttempt(a)
            \/ \E outcome \in Reportable : \E k, d, chain, acked, applied :
                  ReportAttempt(a, outcome, k, d, chain, acked, applied)
      BY <1>2 DEF AttemptSteps
    <2>2. ReadyNodes \subseteq NodeIds
      BY Zenon DEF ReadyNodes, LiveNodes
    <2>. QED BY <1>1, <2>1, <2>2, StartWork, OngoingWork, CancelWork, ReportWork, ZenonT(30)
  <1>3. CASE UNCHANGED vars
    <2>1. UNCHANGED <<attemptVars, links, planNo, declared, status>>
      BY <1>3, ZenonT(30) DEF vars, treeVars, linkVars
    <2>. QED BY <2>1, QuietWork, Zenon DEF WorkInv, Domains
  <1>. QED BY <1>1, <1>2, <1>3, CoordinatorWork, SubagentWork, ControlWork, LinkWork,
              RestartWork, ExpiryWork, SMTT(20) DEF Next

\* A node shown in progress has someone at work on it, or its author said so.
THEOREM EveryNodeHasItsWorker == Spec => []NoOrphanedWork
  <1>1. Init => WorkInv
    BY AttemptInit, Zenon DEF Init, WorkInv, Worked, Domains, BlankTree, NoLink
  <1>2. WorkInv /\ [Next]_vars => WorkInv'
    BY WorkStep
  <1>3. WorkInv => NoOrphanedWork
    BY WorkedMeansNoOrphan, Zenon DEF WorkInv
  <1>. QED BY <1>1, <1>2, <1>3, PTL DEF Spec
-----------------------------------------------------------------------------
(***************************************************************************)
(* Type correctness.                                                       *)
(***************************************************************************)

LEMMA TypeInvMeansTypeOK ==
    ASSUME TypeInv
    PROVE  TypeOK
  <1>1. AttemptTypes
    BY Zenon DEF TypeInv, AttemptInv
  <1>. QED BY <1>1, Zenon DEF TypeInv, TypeOK, StateTypes, ShapeTypes, GateTypes, LinkTypes, AttemptTypes,
                       Trees, LinkRecords, AttemptRecords, DirectiveRecords

LEMMA ShapeStays == ASSUME ShapeTypes, UNCHANGED treeVars PROVE ShapeTypes'
  BY Zenon DEF treeVars, ShapeTypes

LEMMA GateStays == ASSUME GateTypes, UNCHANGED gateVars PROVE GateTypes'
  BY Zenon DEF gateVars, GateTypes

LEMMA LinksStay == ASSUME LinkTypes, UNCHANGED linkVars PROVE LinkTypes'
  BY Zenon DEF linkVars, LinkTypes

\* refresh_parent_states, refresh_terminal_phase and settle_draining.
LEMMA PassTypes ==
    ASSUME NEW st \in Trees, NEW par, NEW auto
    PROVE  RefreshPass(st, par, auto) \in Trees
  BY Zenon DEF RefreshPass, Trees, NodeStatuses, Authored

LEMMA RefreshTypes ==
    ASSUME NEW st \in Trees, NEW par, NEW ph, NEW sc, NEW at, NEW ls, NEW lk, NEW st2,
           st2 = RefreshParentStates(st, par, ph, sc, at, ls, lk)
    PROVE  st2 \in Trees
  <1>. DEFINE auto == /\ ph = "Executing" /\ sc = "Active"
                      /\ ~NodeHasLiveExecution(root, at, ls, lk)
             once == RefreshPass(st, par, auto)
  <1>1. st2 = RefreshPass(once, par, auto)
    BY Zenon DEF RefreshParentStates
  <1>2. once \in Trees
    BY PassTypes, Zenon
  <1>. HIDE DEF auto, once
  <1>. QED BY <1>1, <1>2, PassTypes, Zenon

LEMMA PhaseTypes ==
    ASSUME NEW ph \in Phases, NEW st, NEW sc, NEW at
    PROVE  /\ RefreshTerminalPhase(st, ph) \in Phases
           /\ SettleDraining(RefreshTerminalPhase(st, ph), sc, at) \in Phases
  <1>1. RefreshTerminalPhase(st, ph) \in Phases
    BY Zenon DEF RefreshTerminalPhase, Phases
  <1>. QED BY <1>1, Zenon DEF SettleDraining, Phases

\* apply_execution_intent
LEMMA IntentTypes ==
    ASSUME NEW intent, NEW ph, NEW pend, NEW env, NEW est, NEW cp,
           pend \subseteq Requirements, env \in Envelopes \cup {"none"}, est \in BOOLEAN,
           cp \in Envelopes, ApplyExecutionIntent(intent, ph, pend, env, est, cp)
    PROVE  phase' \in Phases /\ GateTypes'
  <1>1. phase' \in Phases
    BY Zenon DEF ApplyExecutionIntent, Phases
  <1>2. pending' \subseteq Requirements /\ envelope' \in Envelopes \cup {"none"}
    BY Zenon DEF ApplyExecutionIntent, Requirements
  <1>3. established' \in BOOLEAN
    BY Zenon DEF ApplyExecutionIntent
  <1>. QED BY <1>1, <1>2, <1>3, ZenonT(30) DEF GateTypes

LEMMA ContractTypes ==
    ASSUME GateTypes, NEW reworded
    PROVE  pending \cup ContractChanges(reworded) \subseteq Requirements
  BY Zenon DEF GateTypes, ContractChanges, Requirements

LEMMA AuthoredTypes ==
    ASSUME ShapeTypes, NEW n \in NodeIds, NEW top, NEW new, NEW d \in Authoring, NEW inherit
    PROVE  AuthoredStatus(n, top, new, d, inherit) \in Authored \cup {"Absent"}
  BY PlanAssumption, Zenon DEF AuthoredStatus, ShapeTypes, Authoring

\* TreeBuilder
LEMMA BuildTypes ==
    ASSUME TypeInv, NEW st \in Trees, NEW top, NEW up \in NodeIds \cup {NoNode}, NEW below,
           NEW k \in Nat, NEW d \in Authoring, NEW inherit, NEW chain, MayEdit(k),
           NEW new, new = NewNodes(k), Build(st, top, up, below, new, d, inherit, chain),
           top \in NodeIds
    PROVE  /\ status' \in Trees /\ links' \in [LinkIds -> LinkRecords]
           /\ declared' \in [NodeIds -> Authored \cup {"Absent"}]
           /\ parent' \in [NodeIds -> NodeIds \cup {NoNode}]
           /\ deps' \in [NodeIds -> SUBSET NodeIds]
           /\ nextNode' \in 1..(MaxNodes + 1) /\ edits' \in 0..MaxEdits
  <1>. DEFINE input == {top} \cup below
  <1>1. ShapeTypes /\ LinkTypes /\ HasRoom(k) /\ edits < MaxEdits
    BY Zenon DEF TypeInv, MayEdit
  <1>2. new \subseteq NodeIds /\ Cardinality(new) = k /\ nextNode + k \in 1..(MaxNodes + 1)
    BY <1>1, NewNodesFacts, ZenonT(30)
  <1>3. nextNode' \in 1..(MaxNodes + 1) /\ edits' \in 0..MaxEdits
    <2>1. nextNode' = nextNode + Cardinality(new) /\ edits' = edits + 1
      BY Zenon DEF Build
    <2>2. edits \in Nat /\ edits < MaxEdits /\ MaxEdits \in Nat
      BY <1>1, PlanAssumption DEF ShapeTypes
    <2>. QED BY <1>2, <2>1, <2>2
  <1>4. declared' \in [NodeIds -> Authored \cup {"Absent"}]
    <2>1. declared' = [n \in NodeIds |->
              IF n \in input THEN AuthoredStatus(n, top, new, d, inherit) ELSE declared[n]]
      BY Zenon DEF Build
    <2>2. \A n \in NodeIds : declared[n] \in Authored \cup {"Absent"}
      BY <1>1, Zenon DEF ShapeTypes
    <2>. QED BY <1>1, <2>1, <2>2, AuthoredTypes, ZenonT(30)
  <1>5. status' \in Trees
    <2>1. status' = [n \in NodeIds |->
              IF n \in input THEN AuthoredStatus(n, top, new, d, inherit) ELSE st[n]]
      BY Zenon DEF Build
    <2>2. \A n \in NodeIds : /\ st[n] \in NodeStatuses \cup {"Absent"}
                             /\ AuthoredStatus(n, top, new, d, inherit) \in Authored \cup {"Absent"}
      BY <1>1, AuthoredTypes, ZenonT(30) DEF Trees
    <2>. QED BY <2>1, <2>2, Zenon DEF Trees, NodeStatuses
  <1>6. parent' \in [NodeIds -> NodeIds \cup {NoNode}]
    <2>1. parent' = [n \in NodeIds |->
              IF n = top THEN up ELSE IF n \in below THEN top ELSE parent[n]]
      BY Zenon DEF Build
    <2>. QED BY <1>1, <2>1, Zenon DEF ShapeTypes
  <1>7. deps' \in [NodeIds -> SUBSET NodeIds]
    <2>1. deps' = [n \in NodeIds |->
              IF n \in new /\ chain /\ n - 1 \in new \ {top} /\ n # top THEN {n - 1}
              ELSE IF n \in new \/ (n \in input /\ ~inherit) THEN {}
              ELSE deps[n]]
      BY Zenon DEF Build
    <2>2. \A n \in NodeIds : deps[n] \in SUBSET NodeIds
      BY <1>1, Zenon DEF ShapeTypes
    <2>. HIDE DEF input
    <2>. QED BY <1>2, <2>1, <2>2, ZenonT(30)
  <1>8. links' \in [LinkIds -> LinkRecords]
    <2>1. DOMAIN links' = LinkIds /\ links' = [l \in LinkIds |-> links'[l]]
      BY Zenon DEF Build
    <2>2. ASSUME NEW l \in LinkIds PROVE links'[l] \in LinkRecords
      <3>1. links[l] \in LinkRecords
        BY <1>1, Zenon DEF LinkTypes
      <3>2. [links[l] EXCEPT !.node = NoNode] \in LinkRecords
        BY <3>1, Zenon DEF LinkRecords
      <3>3. links'[l] = links[l] \/ links'[l] = [links[l] EXCEPT !.node = NoNode]
        BY Zenon DEF Build
      <3>. QED BY <3>1, <3>2, <3>3, Zenon
    <2>. QED BY <2>1, <2>2, Zenon
  <1>. QED BY <1>3, <1>4, <1>5, <1>6, <1>7, <1>8, ZenonT(30)

LEMMA NewPlanTypes ==
    ASSUME TypeInv, AttemptInv', NEW k \in FirstChildren, NEW d \in Authoring, NEW chain,
           NEW cp \in Capabilities, NEW i, DefineNewPlan(k, d, chain, cp, i)
    PROVE  TypeInv'
  <1>1. /\ k \in Nat /\ MaxNodes \in Nat /\ k + 1 <= MaxNodes /\ MaxEdits \in Nat /\ edits < MaxEdits
        /\ MaxPlans \in Nat /\ planNo < MaxPlans /\ cp \in Envelopes
    BY PlanAssumption, Zenon DEF DefineNewPlan
  <1>2. d.top \in Authored /\ d.below \in Authored
    BY PlanAssumption, Zenon DEF Authoring
  <1>. DEFINE new == 1..(k + 1)
  <1>3. status' = [n \in NodeIds |->
              IF n \notin new THEN "Absent" ELSE IF n = 1 THEN d.top ELSE d.below]
        /\ declared' = status'
    BY Zenon DEF DefineNewPlan
  <1>3a. phase' \in Phases /\ GateTypes'
    <2>1. ApplyExecutionIntent(i, "Planning", {}, "none", FALSE, cp)
      BY Zenon DEF DefineNewPlan
    <2>2. phase' \in Phases /\ pending' \subseteq Requirements
          /\ envelope' \in Envelopes \cup {"none"}
      BY <1>1, <2>1, ZenonT(30) DEF ApplyExecutionIntent, Phases, Requirements
    <2>3. established' \in BOOLEAN
      BY <2>1, Zenon DEF ApplyExecutionIntent
    <2>. QED BY <2>2, <2>3, ZenonT(30) DEF GateTypes
  <1>4. StateTypes'
    <2>2. status' \in Trees
      BY <1>2, <1>3, Zenon DEF Trees, NodeStatuses
    <2>3. planNo' \in 0..MaxPlans /\ sched' \in SchedulerStatuses
      BY <1>1 DEF DefineNewPlan, TypeInv, StateTypes, SchedulerStatuses
    <2>. QED BY <1>3a, <2>2, <2>3, Zenon DEF StateTypes
  <1>5. ShapeTypes'
    <2>1. declared' \in [NodeIds -> Authored \cup {"Absent"}]
      BY <1>2, <1>3, ZenonT(30)
    <2>2. root' \in NodeIds \cup {NoNode} /\ nextNode' \in 1..(MaxNodes + 1)
          /\ edits' \in 0..MaxEdits /\ caps' \in Envelopes
      BY <1>1 DEF DefineNewPlan, NodeIds, TypeInv, ShapeTypes
    <2>3. parent' \in [NodeIds -> NodeIds \cup {NoNode}]
      <3>1. parent' = [n \in NodeIds |-> IF n \in new \ {1} THEN 1 ELSE NoNode]
        BY Zenon DEF DefineNewPlan
      <3>2. 1 \in NodeIds
        BY <1>1 DEF NodeIds
      <3>. QED BY <3>1, <3>2, Zenon
    <2>4. deps' \in [NodeIds -> SUBSET NodeIds]
      <3>1. deps' = [n \in NodeIds |-> IF chain /\ n \in new \ {1, 2} THEN {n - 1} ELSE {}]
        BY Zenon DEF DefineNewPlan
      <3>2. \A n \in NodeIds : n \in new \ {1, 2} => n - 1 \in NodeIds
        BY <1>1 DEF NodeIds
      <3>. HIDE DEF new
      <3>. QED BY <3>1, <3>2, Zenon
    <2>. QED BY <2>1, <2>2, <2>3, <2>4, ZenonT(30) DEF ShapeTypes
  <1>6. LinkTypes'
    BY LinksStay, Zenon DEF DefineNewPlan, TypeInv
  <1>. QED BY <1>3a, <1>4, <1>5, <1>6, ZenonT(30) DEF TypeInv

LEMMA BeginTypes ==
    ASSUME TypeInv, AttemptInv', BeginPlan
    PROVE  TypeInv'
  <1>1. StateTypes'
    <2>1. BlankTree \in Trees
      BY Zenon DEF BlankTree, Trees
    <2>2. planNo' \in 0..MaxPlans
      BY PlanAssumption DEF BeginPlan, TypeInv, StateTypes
    <2>. QED BY <2>1, <2>2, Zenon DEF BeginPlan, StateTypes, Phases, SchedulerStatuses
  <1>2. ShapeTypes'
    <2>1. /\ BlankTree \in [NodeIds -> Authored \cup {"Absent"}]
          /\ BlankParents \in [NodeIds -> NodeIds \cup {NoNode}]
          /\ BlankDeps \in [NodeIds -> SUBSET NodeIds]
      BY Zenon DEF BlankTree, BlankParents, BlankDeps
    <2>2. 1 \in 1..(MaxNodes + 1) /\ edits \in 0..MaxEdits
      BY PlanAssumption DEF TypeInv, ShapeTypes
    <2>. QED BY <2>1, <2>2, Zenon DEF BeginPlan, ShapeTypes, Envelopes
  <1>3. GateTypes'
    BY Zenon DEF BeginPlan, GateTypes
  <1>4. LinkTypes'
    BY LinksStay, Zenon DEF BeginPlan, TypeInv
  <1>. QED BY <1>1, <1>2, <1>3, <1>4, ZenonT(30) DEF TypeInv

LEMMA DefinePlanTypes ==
    ASSUME TypeInv, AttemptInv', NEW r \in NodeIds, NEW reused, NEW k \in ChildCounts,
           NEW d \in Authoring, NEW inherit, NEW chain, NEW cp \in Capabilities, NEW reworded, NEW i,
           DefinePlan(r, reused, k, d, inherit, chain, cp, reworded, i)
    PROVE  TypeInv'
  <1>. DEFINE kept == [n \in NodeIds |-> IF n \in LiveNodes(status) THEN "Superseded" ELSE "Absent"]
             below == ({r} \cup reused \cup NewNodes(k)) \ {r}
  <1>1. /\ Build(kept, r, NoNode, below, NewNodes(k), d, inherit, chain) /\ MayEdit(k)
        /\ root' = r /\ caps' = cp /\ UNCHANGED <<planNo, sched, running>>
        /\ ApplyExecutionIntent(i, "Planning", pending \cup ContractChanges(reworded),
                                envelope, established, cp)
    BY Zenon DEF DefinePlan
  <1>2. kept \in Trees
    BY Zenon DEF Trees, NodeStatuses
  <1>3. k \in Nat /\ cp \in Envelopes /\ NoNode \in NodeIds \cup {NoNode}
    BY PlanAssumption, Zenon
  <1>. HIDE DEF kept, below
  <1>4. /\ status' \in Trees /\ links' \in [LinkIds -> LinkRecords]
        /\ declared' \in [NodeIds -> Authored \cup {"Absent"}]
        /\ parent' \in [NodeIds -> NodeIds \cup {NoNode}]
        /\ deps' \in [NodeIds -> SUBSET NodeIds]
        /\ nextNode' \in 1..(MaxNodes + 1) /\ edits' \in 0..MaxEdits
    BY <1>1, <1>2, <1>3, BuildTypes, Zenon
  <1>5. phase' \in Phases /\ GateTypes'
    <2>1. /\ pending \cup ContractChanges(reworded) \subseteq Requirements
          /\ envelope \in Envelopes \cup {"none"} /\ established \in BOOLEAN
      BY ContractTypes, Zenon DEF TypeInv, GateTypes
    <2>. QED BY <1>1, <1>3, <2>1, IntentTypes, Zenon
  <1>6. StateTypes'
    BY <1>1, <1>4, <1>5, ZenonT(30) DEF StateTypes, TypeInv
  <1>7. ShapeTypes'
    BY <1>1, <1>3, <1>4 DEF ShapeTypes
  <1>8. LinkTypes'
    BY <1>1, <1>4, Zenon DEF LinkTypes, TypeInv
  <1>. QED BY <1>5, <1>6, <1>7, <1>8, ZenonT(30) DEF TypeInv

LEMMA ReplaceTypes ==
    ASSUME TypeInv, AttemptInv', NEW t \in NodeIds, NEW reused, NEW k \in ChildCounts,
           NEW d \in Authoring, NEW inherit, NEW chain, NEW reworded, NEW i,
           ReplaceSubtree(t, reused, k, d, inherit, chain, reworded, i)
    PROVE  TypeInv'
  <1>. DEFINE omitted == LiveSubtree(status, parent, t) \ ({t} \cup reused)
             kept == [n \in NodeIds |-> IF n \in omitted THEN "Superseded" ELSE status[n]]
             below == reused \cup NewNodes(k)
             up == parent[t]
  <1>1. /\ Build(kept, t, up, below, NewNodes(k), d, inherit, chain) /\ MayEdit(k)
        /\ UNCHANGED <<planNo, sched, root, caps, running>>
        /\ ApplyExecutionIntent(i, phase, pending \cup ContractChanges(reworded),
                                envelope, established, caps)
    BY Zenon DEF ReplaceSubtree
  <1>2. kept \in Trees
    BY Zenon DEF Trees, NodeStatuses, TypeInv, StateTypes
  <1>3. k \in Nat /\ caps \in Envelopes /\ up \in NodeIds \cup {NoNode}
    BY PlanAssumption, ZenonT(30) DEF TypeInv, ShapeTypes
  <1>. HIDE DEF kept, below, up
  <1>4. /\ status' \in Trees /\ links' \in [LinkIds -> LinkRecords]
        /\ declared' \in [NodeIds -> Authored \cup {"Absent"}]
        /\ parent' \in [NodeIds -> NodeIds \cup {NoNode}]
        /\ deps' \in [NodeIds -> SUBSET NodeIds]
        /\ nextNode' \in 1..(MaxNodes + 1) /\ edits' \in 0..MaxEdits
    BY <1>1, <1>2, <1>3, BuildTypes, Zenon
  <1>5. phase' \in Phases /\ GateTypes'
    <2>1. /\ pending \cup ContractChanges(reworded) \subseteq Requirements
          /\ envelope \in Envelopes \cup {"none"} /\ established \in BOOLEAN
      BY ContractTypes DEF TypeInv, GateTypes
    <2>. QED BY <1>1, <1>3, <2>1, IntentTypes, Zenon
  <1>6. StateTypes'
    BY <1>1, <1>4, <1>5, ZenonT(30) DEF StateTypes, TypeInv
  <1>7. ShapeTypes'
    BY <1>1, <1>3, <1>4, SMTT(20) DEF ShapeTypes, TypeInv
  <1>8. LinkTypes'
    BY <1>1, <1>4, ZenonT(30) DEF LinkTypes, TypeInv
  <1>. QED BY <1>5, <1>6, <1>7, <1>8, ZenonT(30) DEF TypeInv

LEMMA CoordinatorTypes ==
    ASSUME TypeInv, AttemptInv', CoordinatorEdits
    PROVE  TypeInv'
  <1>1. ASSUME NEW i, UseCurrentPlan(i) PROVE TypeInv'
    <2>1. phase' \in Phases /\ GateTypes'
      <3>1. /\ pending \subseteq Requirements /\ envelope \in Envelopes \cup {"none"}
            /\ established \in BOOLEAN /\ caps \in Envelopes
        BY Zenon DEF TypeInv, GateTypes, ShapeTypes
      <3>. QED BY <1>1, <3>1, IntentTypes, ZenonT(30) DEF UseCurrentPlan
    <2>2. UNCHANGED <<planNo, sched, status>> /\ UNCHANGED treeVars /\ UNCHANGED linkVars
      BY <1>1, Zenon DEF UseCurrentPlan
    <2>3. StateTypes'
      BY <2>1, <2>2, Zenon DEF TypeInv, StateTypes
    <2>. QED BY <2>1, <2>2, <2>3, ShapeStays, LinksStay, ZenonT(30) DEF TypeInv
  <1>2. LiveNodes(status) \subseteq NodeIds
    BY Zenon DEF LiveNodes
  <1>. QED BY <1>1, <1>2, BeginTypes, NewPlanTypes, DefinePlanTypes, ReplaceTypes, SMTT(20) DEF CoordinatorEdits

\* The nodes a subagent or a decomposition adds below one node.
LEMMA AddedTypes ==
    ASSUME TypeInv, NEW k \in Nat, HasRoom(k), NEW chain
    PROVE  /\ NewNodes(k) \subseteq NodeIds /\ nextNode + k \in 1..(MaxNodes + 1)
           /\ [n \in NodeIds |-> IF chain /\ n \in NewNodes(k) /\ n - 1 \in NewNodes(k)
                                 THEN {n - 1} ELSE deps[n]] \in [NodeIds -> SUBSET NodeIds]
  <1>1. NewNodes(k) \subseteq NodeIds /\ nextNode + k \in 1..(MaxNodes + 1)
    BY NewNodesFacts, Zenon DEF TypeInv
  <1>2. \A n \in NodeIds : deps[n] \in SUBSET NodeIds
    BY Zenon DEF TypeInv, ShapeTypes
  <1>. QED BY <1>1, <1>2, Zenon

LEMMA EditCounted ==
    ASSUME TypeInv, NEW k, MayEdit(k)
    PROVE  edits + 1 \in 0..MaxEdits
  BY PlanAssumption, SMTT(20) DEF TypeInv, ShapeTypes, MayEdit

LEMMA ScopedTypes ==
    ASSUME TypeInv, AttemptInv', NEW l \in LinkIds, NEW k \in ChildCounts, NEW d \in Declared,
           NEW chain, NEW t \in NodeIds,
           DefineScopedChildren(l, k, d, chain) \/ ReplaceScopedSubtree(l, t, k, d, chain)
    PROVE  TypeInv'
  <1>. DEFINE new == NewNodes(k)
  <1>1. k \in Nat /\ d \in Authored /\ MayEdit(k) /\ HasRoom(k)
    BY PlanAssumption, Zenon DEF DefineScopedChildren, ReplaceScopedSubtree, MayEdit
  <1>2. links[l].node \in NodeIds \cup {NoNode}
    BY LinkedNode, Zenon
  <1>3. /\ nextNode' = nextNode + k /\ edits' = edits + 1
        /\ deps' = [n \in NodeIds |-> IF chain /\ n \in new /\ n - 1 \in new
                                      THEN {n - 1} ELSE deps[n]]
        /\ UNCHANGED <<planNo, phase, sched, root, caps>> /\ UNCHANGED gateVars /\ UNCHANGED linkVars
    BY Zenon DEF DefineScopedChildren, ReplaceScopedSubtree
  <1>4. \A n \in NodeIds : status[n] \in NodeStatuses \cup {"Absent"}
                           /\ declared[n] \in Authored \cup {"Absent"}
                           /\ parent[n] \in NodeIds \cup {NoNode}
    BY Zenon DEF TypeInv, StateTypes, ShapeTypes, Trees
  <1>5. status' \in Trees
    BY <1>1, <1>4, Zenon DEF DefineScopedChildren, ReplaceScopedSubtree, Trees, NodeStatuses
  <1>6. declared' \in [NodeIds -> Authored \cup {"Absent"}]
    BY <1>1, <1>4, ZenonT(30) DEF DefineScopedChildren, ReplaceScopedSubtree
  <1>7. parent' \in [NodeIds -> NodeIds \cup {NoNode}]
    BY <1>2, <1>4, Zenon DEF DefineScopedChildren, ReplaceScopedSubtree
  <1>8. nextNode' \in 1..(MaxNodes + 1) /\ deps' \in [NodeIds -> SUBSET NodeIds]
        /\ edits' \in 0..MaxEdits
    <2>. HIDE DEF new
    <2>1. nextNode + k \in 1..(MaxNodes + 1) /\ deps' \in [NodeIds -> SUBSET NodeIds]
      BY <1>1, <1>3, AddedTypes, Zenon DEF new
    <2>. QED BY <1>1, <1>3, <2>1, EditCounted, Zenon
  <1>9. StateTypes'
    BY <1>3, <1>5, Zenon DEF StateTypes, TypeInv
  <1>10. ShapeTypes'
    BY <1>3, <1>6, <1>7, <1>8, ZenonT(30) DEF ShapeTypes, TypeInv
  <1>. QED BY <1>3, <1>9, <1>10, GateStays, LinksStay, ZenonT(30) DEF TypeInv

LEMMA SubagentTypes ==
    ASSUME TypeInv, AttemptInv', SubagentEdits
    PROVE  TypeInv'
  <1>1. running \subseteq LinkIds
    BY Zenon DEF TypeInv, LinkTypes
  <1>2. PICK l \in running, k \in ChildCounts, d \in Declared, chain \in BOOLEAN :
           \/ DefineScopedChildren(l, k, d, chain)
           \/ \E t \in LiveNodes(status) : ReplaceScopedSubtree(l, t, k, d, chain)
    BY Zenon DEF SubagentEdits, Chains
  <1>3. LiveNodes(status) \subseteq NodeIds
    BY Zenon DEF LiveNodes
  <1>4. ASSUME DefineScopedChildren(l, k, d, chain) PROVE \E t : t \in NodeIds
    <2>1. HasRoom(k) /\ k > 0 /\ k \in Nat
      BY <1>4, PlanAssumption, Zenon DEF DefineScopedChildren, MayEdit
    <2>2. nextNode \in Nat /\ nextNode >= 1 /\ MaxNodes \in Nat
      BY PlanAssumption DEF TypeInv, ShapeTypes
    <2>3. 1 \in NodeIds
      BY <2>1, <2>2 DEF HasRoom, NodeIds
    <2>. QED BY <2>3
  <1>. QED BY <1>1, <1>2, <1>3, <1>4, ScopedTypes

\* The steps that leave tree, gate and links alone but for statuses.
LEMMA StatusTypes ==
    ASSUME TypeInv, AttemptInv', UNCHANGED treeVars, UNCHANGED gateVars, UNCHANGED linkVars,
           planNo' = planNo, phase' \in Phases, sched' \in SchedulerStatuses, status' \in Trees
    PROVE  TypeInv'
  <1>1. StateTypes'
    BY Zenon DEF TypeInv, StateTypes
  <1>. QED BY <1>1, ShapeStays, GateStays, LinksStay, ZenonT(30) DEF TypeInv

LEMMA RefreshedTypes ==
    ASSUME TypeInv, NEW st \in Trees, NEW ph \in Phases, NEW at, NEW ls, NEW lk, NEW par,
           Refreshed(st, ph, at, ls, lk) \/ RefreshedAndSettled(st, par, ph, at, ls, lk)
    PROVE  status' \in Trees /\ phase' \in Phases
  <1>1. /\ \E p : status' = RefreshParentStates(st, p, ph, sched', at, ls, lk)
        /\ \/ phase' = RefreshTerminalPhase(status', ph)
           \/ phase' = SettleDraining(RefreshTerminalPhase(status', ph), sched', at)
    BY Zenon DEF Refreshed, RefreshedAndSettled
  <1>. QED BY <1>1, RefreshTypes, PhaseTypes, Zenon

LEMMA ControlTypes ==
    ASSUME TypeInv, AttemptInv', UserControls
    PROVE  TypeInv'
  <1>1. ASSUME NEW env \in Capabilities \cup {"none"},
               Approve(env) \/ (env \in Capabilities /\ AuthorizeExecution(env)) \/ Revise
        PROVE  TypeInv'
    <2>1. /\ UNCHANGED <<planNo, status>> /\ UNCHANGED treeVars /\ UNCHANGED linkVars
          /\ phase' \in Phases /\ sched' \in SchedulerStatuses
      BY <1>1, Zenon DEF Approve, AuthorizeExecution, Revise, Phases, SchedulerStatuses, TypeInv, StateTypes
    <2>2. GateTypes'
      BY <1>1, PlanAssumption, ZenonT(30) DEF Approve, AuthorizeExecution, Revise, TypeInv, GateTypes
    <2>3. StateTypes'
      BY <2>1, Zenon DEF TypeInv, StateTypes
    <2>. QED BY <2>1, <2>2, <2>3, ShapeStays, LinksStay, SMTT(20) DEF TypeInv
  <1>2. CASE PauseScheduling \/ ResumeScheduling
    <2>1. /\ UNCHANGED <<planNo, status, phase>> /\ UNCHANGED treeVars /\ UNCHANGED linkVars
          /\ UNCHANGED gateVars /\ sched' \in SchedulerStatuses
      BY <1>2, Zenon DEF PauseScheduling, ResumeScheduling, ChangeSchedulerStatus, SchedulerStatuses
    <2>. QED BY <2>1, StatusTypes, Zenon DEF TypeInv, StateTypes
  <1>3. CASE RequestCancellation
    <2>. DEFINE over == {a \in LiveAttempts(attempts) : ~attempts[a].leased}
               at == [a \in AttemptIds |->
                        IF a \in over THEN Closed(attempts[a], "Cancelled") ELSE attempts[a]]
               st == [n \in NodeIds |->
                        IF \E a \in over : attempts[a].node = n THEN "Blocked" ELSE status[n]]
    <2>1. /\ planNo' = planNo /\ UNCHANGED treeVars /\ UNCHANGED linkVars /\ UNCHANGED gateVars
          /\ sched' \in SchedulerStatuses
          /\ RefreshedAndSettled(st, parent, phase, at, leases, links)
      BY <1>3, Zenon DEF RequestCancellation, SchedulerStatuses
    <2>2. st \in Trees /\ phase \in Phases
      BY DEF TypeInv, StateTypes, Trees, NodeStatuses
    <2>. HIDE DEF over, at, st
    <2>3. status' \in Trees /\ phase' \in Phases
      BY <2>1, <2>2, RefreshedTypes, ZenonT(30)
    <2>. QED BY <2>1, <2>3, StatusTypes
  <1>4. ASSUME NEW n, RetryInterruptedNode(n) PROVE TypeInv'
    <2>. DEFINE st == [m \in NodeIds |->
                  IF m = n THEN "Pending"
                  ELSE IF m \in Ancestors(parent, n) /\ status[m] = "Blocked" THEN "Expanded"
                  ELSE status[m]]
    <2>1. /\ planNo' = planNo /\ UNCHANGED treeVars /\ UNCHANGED linkVars /\ UNCHANGED gateVars
          /\ sched' \in SchedulerStatuses /\ phase' \in Phases
          /\ status' = RefreshParentStates(st, parent, phase, sched, attempts, leases, links)
      BY <1>4, Zenon DEF RetryInterruptedNode, SchedulerStatuses, Phases
    <2>2. st \in Trees
      BY DEF TypeInv, StateTypes, Trees, NodeStatuses, Authored
    <2>. HIDE DEF st
    <2>3. status' \in Trees
      BY <2>1, <2>2, RefreshTypes, ZenonT(30)
    <2>. QED BY <2>1, <2>3, StatusTypes
  <1>. QED BY <1>1, <1>2, <1>3, <1>4, ZenonT(30) DEF UserControls

LEMMA ProjectionTypes ==
    ASSUME TypeInv, NEW lk, NEW n \in NodeIds
    PROVE  LinkProjection(lk, n) \in NodeStatuses \cup {"Absent"}
  <1>1. declared[n] \in Authored \cup {"Absent"}
    BY Zenon DEF TypeInv, ShapeTypes
  <1>. QED BY <1>1, Zenon DEF LinkProjection, NodeStatuses, Authored

LEMMA BindTypes ==
    ASSUME TypeInv, AttemptInv', NEW l \in LinkIds, NEW n \in NodeIds, NEW b \in 1..MaxBinding,
           BindSubagent(l, n, b)
    PROVE  TypeInv'
  <1>. DEFINE new == [plan |-> planNo, node |-> n, binding |-> b,
                      status |-> "Active", replaced |-> FALSE]
             old(m) == [links[m] EXCEPT !.status = "Superseded", !.replaced = TRUE]
             lk == [m \in LinkIds |->
                      IF m = l THEN new
                      ELSE IF m \in LinksOf(links, n) /\ ~links[m].replaced
                              /\ links[m].status \in LinkEnds
                      THEN old(m)
                      ELSE links[m]]
             st == [m \in NodeIds |->
                      IF m = n THEN LinkProjection(lk, n)
                      ELSE IF m \in Ancestors(parent, n) /\ status[m] \in {"Blocked", "Failed"}
                      THEN "Expanded" ELSE status[m]]
             ph == IF phase = "Blocked" THEN "Executing" ELSE phase
  <1>1. /\ planNo' = planNo /\ UNCHANGED treeVars /\ UNCHANGED gateVars
        /\ links' = lk /\ running' = running \cup {l}
        /\ sched' = IF phase = "Blocked" THEN "Active" ELSE sched
        /\ Refreshed(st, ph, attempts, leases, lk)
    BY Zenon DEF BindSubagent
  <1>2. lk \in [LinkIds -> LinkRecords]
    <2>1. new \in LinkRecords
      <3>1. planNo \in 0..MaxPlans /\ b \in 0..MaxBinding
        BY PlanAssumption DEF TypeInv, StateTypes
      <3>. QED BY <3>1 DEF LinkRecords, LinkStatuses
    <2>2. ASSUME NEW m \in LinkIds PROVE links[m] \in LinkRecords /\ old(m) \in LinkRecords
      <3>1. links[m] \in LinkRecords
        BY LinkedNode
      <3>. QED BY <3>1, Zenon DEF LinkRecords, LinkStatuses
    <2>. HIDE DEF new, old
    <2>. QED BY <2>1, <2>2, Zenon
  <1>3. st \in Trees
    <2>1. LinkProjection(lk, n) \in NodeStatuses \cup {"Absent"}
      BY ProjectionTypes, Zenon
    <2>2. \A m \in NodeIds : status[m] \in NodeStatuses \cup {"Absent"}
      BY ZenonT(30) DEF TypeInv, StateTypes, Trees
    <2>. HIDE DEF lk
    <2>. QED BY <2>1, <2>2, Zenon DEF Trees, NodeStatuses
  <1>4. ph \in Phases /\ sched' \in SchedulerStatuses
    BY <1>1, Zenon DEF TypeInv, StateTypes, Phases, SchedulerStatuses
  <1>. HIDE DEF lk, st, ph
  <1>5. status' \in Trees /\ phase' \in Phases
    BY <1>1, <1>3, <1>4, RefreshedTypes, ZenonT(30)
  <1>6. StateTypes'
    BY <1>1, <1>4, <1>5, SMTT(20) DEF TypeInv, StateTypes
  <1>7. LinkTypes'
    BY <1>1, <1>2, ZenonT(30) DEF TypeInv, LinkTypes
  <1>. QED BY <1>1, <1>6, <1>7, ShapeStays, GateStays, SMTT(20) DEF TypeInv

LEMMA UpdateLinkTypes ==
    ASSUME TypeInv, AttemptInv', NEW l \in LinkIds, NEW end \in LinkEnds, UpdateSubagentLink(l, end)
    PROVE  TypeInv'
  <1>1. PICK m \in LinkIds :
           LET lk == [links EXCEPT ![m].status = end]
               n == links[m].node
           IN  /\ n # NoNode /\ links' = lk
               /\ Refreshed([status EXCEPT ![n] = LinkProjection(lk, n)], phase, attempts, leases, lk)
    BY Zenon DEF UpdateSubagentLink, LinkOfBinding
  <1>. DEFINE rec == [links[m] EXCEPT !.status = end]
             lk == [links EXCEPT ![m] = rec]
             n == links[m].node
             st == [status EXCEPT ![n] = LinkProjection(lk, n)]
  <1>2. /\ planNo' = planNo /\ sched' = sched /\ UNCHANGED treeVars /\ UNCHANGED gateVars
        /\ running' = running \ {l}
    BY Zenon DEF UpdateSubagentLink
  <1>3. links' = lk /\ Refreshed(st, phase, attempts, leases, lk)
    BY <1>1, Zenon
  <1>4. lk \in [LinkIds -> LinkRecords]
    <2>1. rec \in LinkRecords
      <3>1. links[m] \in LinkRecords
        BY LinkedNode
      <3>. QED BY <3>1, Zenon DEF LinkRecords, LinkStatuses
    <2>. HIDE DEF rec
    <2>. QED BY <2>1, Zenon DEF TypeInv, LinkTypes
  <1>5. st \in Trees
    <2>1. n \in NodeIds
      BY <1>1, LinkedNode
    <2>2. LinkProjection(lk, n) \in NodeStatuses \cup {"Absent"}
      BY <2>1, ProjectionTypes, Zenon
    <2>. HIDE DEF lk, n
    <2>. QED BY <2>1, <2>2, Zenon DEF TypeInv, StateTypes, Trees
  <1>. HIDE DEF lk, st
  <1>6. status' \in Trees /\ phase' \in Phases
    <2>1. phase \in Phases
      BY Zenon DEF TypeInv, StateTypes
    <2>. QED BY <1>3, <1>5, <2>1, RefreshedTypes, ZenonT(30)
  <1>7. StateTypes'
    BY <1>2, <1>6 DEF TypeInv, StateTypes
  <1>8. LinkTypes'
    BY <1>2, <1>3, <1>4, ZenonT(30) DEF TypeInv, LinkTypes
  <1>. QED BY <1>2, <1>7, <1>8, ShapeStays, GateStays, SMTT(20) DEF TypeInv

LEMMA LinkStepTypes ==
    ASSUME TypeInv, AttemptInv', LinkSteps
    PROVE  TypeInv'
  <1>1. ASSUME NEW l, LinkUpdateFails(l) PROVE TypeInv'
    <2>1. /\ UNCHANGED <<planNo, phase, sched, status, links>> /\ UNCHANGED treeVars
          /\ UNCHANGED gateVars /\ running' = running \ {l}
      BY <1>1, Zenon DEF LinkUpdateFails
    <2>2. StateTypes' /\ LinkTypes'
      BY <2>1, Zenon DEF TypeInv, StateTypes, LinkTypes
    <2>. QED BY <2>1, <2>2, ShapeStays, GateStays, ZenonT(30) DEF TypeInv
  <1>. QED BY <1>1, BindTypes, UpdateLinkTypes DEF LinkSteps

LEMMA OutcomeTypes ==
    ASSUME NEW n, NEW outcome \in Reportable
    PROVE  StatusAfterOutcome(n, outcome) \in NodeStatuses
  BY SMTT(20) DEF StatusAfterOutcome, Reportable, NodeStatuses, Authored

LEMMA ReportTypes ==
    ASSUME TypeInv, AttemptInv', NEW a \in AttemptIds, NEW outcome \in Reportable, NEW k \in Nat,
           NEW d \in Declared, NEW chain, NEW acked, NEW applied,
           ReportAttempt(a, outcome, k, d, chain, acked, applied)
    PROVE  TypeInv'
  <1>. DEFINE n == attempts[a].node
             new == NewNodes(k)
             at == [attempts EXCEPT ![a] = Closed(@, outcome)]
             ls == [leases EXCEPT ![a] = IF attempts[a].leased THEN "Resolved" ELSE @]
             st == [m \in NodeIds |-> IF m = n THEN StatusAfterOutcome(n, outcome)
                                      ELSE IF m \in new THEN d ELSE status[m]]
  <1>1. /\ HasRoom(k) /\ nextNode' = nextNode + k
        /\ declared' = [m \in NodeIds |-> IF m \in new THEN d ELSE declared[m]]
        /\ parent' = [m \in NodeIds |-> IF m \in new THEN n ELSE parent[m]]
        /\ deps' = [m \in NodeIds |-> IF chain /\ m \in new /\ m - 1 \in new THEN {m - 1} ELSE deps[m]]
        /\ sched' = sched /\ UNCHANGED <<planNo, root, caps, edits>>
        /\ UNCHANGED gateVars /\ UNCHANGED linkVars
        /\ RefreshedAndSettled(st, parent', phase, at, ls, links)
    BY Zenon DEF ReportAttempt
  <1>2. d \in Authored /\ n \in NodeIds \cup {NoNode}
    BY PlanAssumption, ZenonT(30) DEF TypeInv, AttemptInv, AttemptTypes, AttemptRecords
  <1>3. \A m \in NodeIds : status[m] \in NodeStatuses \cup {"Absent"}
                           /\ declared[m] \in Authored \cup {"Absent"}
                           /\ parent[m] \in NodeIds \cup {NoNode}
    BY Zenon DEF TypeInv, StateTypes, ShapeTypes, Trees
  <1>4. st \in Trees
    BY <1>2, <1>3, OutcomeTypes, ZenonT(30) DEF Trees, NodeStatuses
  <1>. HIDE DEF n, new, at, ls, st
  <1>5. declared' \in [NodeIds -> Authored \cup {"Absent"}]
    BY <1>1, <1>2, <1>3, Zenon
  <1>6. parent' \in [NodeIds -> NodeIds \cup {NoNode}]
    BY <1>1, <1>2, <1>3, ZenonT(30)
  <1>7. nextNode' \in 1..(MaxNodes + 1) /\ deps' \in [NodeIds -> SUBSET NodeIds]
    <2>1. nextNode + k \in 1..(MaxNodes + 1) /\ deps' \in [NodeIds -> SUBSET NodeIds]
      BY <1>1, AddedTypes, Zenon DEF new
    <2>. QED BY <1>1, <2>1, Zenon
  <1>8. status' \in Trees /\ phase' \in Phases
    <2>1. phase \in Phases
      BY DEF TypeInv, StateTypes
    <2>. QED BY <1>1, <1>4, <2>1, RefreshedTypes, ZenonT(30)
  <1>9. StateTypes'
    BY <1>1, <1>8, ZenonT(30) DEF TypeInv, StateTypes
  <1>10. ShapeTypes'
    BY <1>1, <1>5, <1>6, <1>7, SMTT(20) DEF TypeInv, ShapeTypes
  <1>. QED BY <1>1, <1>9, <1>10, GateStays, LinksStay, SMTT(20) DEF TypeInv

LEMMA AttemptStepTypes ==
    ASSUME TypeInv, AttemptInv', AttemptSteps
    PROVE  TypeInv'
  <1>1. PICK a \in AttemptIds :
          \/ \E n \in ReadyNodes, e \in Executors, leased \in BOOLEAN : StartAttempt(a, n, e, leased)
          \/ RecordRuntimeEffect(a) \/ DeliverQueuedDirectives(a)
          \/ \E x \in DirectiveIds : IssueDirective(x, a)
          \/ \E acked, applied : ReportProgress(a, acked, applied)
          \/ CancelAttempt(a)
          \/ \E outcome \in Reportable, d \in Declared, k \in Nat : \E chain, acked, applied :
                ReportAttempt(a, outcome, k, d, chain, acked, applied)
    <2>1. ASSUME NEW outcome, NEW k \in IF outcome = "Decomposed" THEN ChildCounts ELSE {0}
          PROVE  k \in Nat
      BY PlanAssumption
    <2>. QED BY <2>1 DEF AttemptSteps
  <1>2. status \in Trees /\ phase \in Phases /\ sched \in SchedulerStatuses
    BY Zenon DEF TypeInv, StateTypes
  <1>3. ASSUME NEW n, NEW e, NEW leased, StartAttempt(a, n, e, leased) PROVE TypeInv'
    <2>1. /\ UNCHANGED <<planNo, phase, sched>> /\ UNCHANGED treeVars /\ UNCHANGED gateVars
          /\ UNCHANGED linkVars /\ status' = [status EXCEPT ![n] = "InProgress"]
      BY <1>3, Zenon DEF StartAttempt
    <2>2. status' \in Trees
      BY <1>2, <2>1, ZenonT(30) DEF Trees, NodeStatuses, Authored
    <2>. QED BY <1>2, <2>1, <2>2, StatusTypes, ZenonT(30)
  <1>4. ASSUME \/ RecordRuntimeEffect(a) \/ DeliverQueuedDirectives(a)
               \/ \E x \in DirectiveIds : IssueDirective(x, a)
               \/ \E acked, applied : ReportProgress(a, acked, applied)
        PROVE  TypeInv'
    <2>1. /\ UNCHANGED <<planNo, phase, sched, status>> /\ UNCHANGED treeVars /\ UNCHANGED gateVars
          /\ UNCHANGED linkVars
      BY <1>4, ZenonT(30) DEF RecordRuntimeEffect, DeliverQueuedDirectives, IssueDirective, ReportProgress
    <2>. QED BY <1>2, <2>1, StatusTypes
  <1>5. CASE CancelAttempt(a)
    <2>1. /\ UNCHANGED <<planNo, sched>> /\ UNCHANGED treeVars /\ UNCHANGED gateVars
          /\ UNCHANGED linkVars /\ status' = [status EXCEPT ![attempts[a].node] = "Blocked"]
          /\ \E at : phase' = SettleDraining(phase, sched, at)
      BY <1>5, ZenonT(30) DEF CancelAttempt
    <2>2. status' \in Trees
      BY <1>2, <2>1, Zenon DEF Trees, NodeStatuses
    <2>3. phase' \in Phases
      BY <1>2, <2>1, Zenon DEF SettleDraining, Phases
    <2>. QED BY <1>2, <2>1, <2>2, <2>3, StatusTypes, SMTT(20)
  <1>. QED BY <1>1, <1>3, <1>4, <1>5, ReportTypes, ZenonT(30)

LEMMA ExpiryTypes ==
    ASSUME TypeInv, AttemptInv', NEW late, InterruptExpiredLeases(late)
    PROVE  TypeInv'
  <1>. DEFINE at == [a \in AttemptIds |->
                  IF a \in late THEN Closed(attempts[a], "Interrupted") ELSE attempts[a]]
             ls == [a \in AttemptIds |-> IF a \in late THEN "Expired" ELSE leases[a]]
             st == [n \in NodeIds |->
                  IF \E a \in late : attempts[a].node = n
                  THEN IF \A a \in late : attempts[a].node = n => CanRetry(a)
                       THEN "Pending" ELSE "Blocked"
                  ELSE status[n]]
  <1>1. /\ planNo' = planNo /\ sched' = sched /\ UNCHANGED treeVars /\ UNCHANGED gateVars
        /\ UNCHANGED linkVars /\ RefreshedAndSettled(st, parent, phase, at, ls, links)
    BY Zenon DEF InterruptExpiredLeases
  <1>2. st \in Trees /\ phase \in Phases /\ sched \in SchedulerStatuses
    BY DEF TypeInv, StateTypes, Trees, NodeStatuses, Authored
  <1>. HIDE DEF at, ls, st
  <1>3. status' \in Trees /\ phase' \in Phases
    BY <1>1, <1>2, RefreshedTypes, ZenonT(30)
  <1>. QED BY <1>1, <1>2, <1>3, StatusTypes

LEMMA RestartTypes ==
    ASSUME TypeInv, AttemptInv', Restart
    PROVE  TypeInv'
  <1>. DEFINE st == RefreshParentStates(status, parent, phase, sched, attempts, leases, links)
             ph == RefreshTerminalPhase(st, phase)
             open == LiveAttempts(attempts)
             cut == ActiveLinks(links)
             at == [a \in AttemptIds |->
                  IF a \in open THEN Closed(attempts[a], "Interrupted") ELSE attempts[a]]
             ls == [a \in AttemptIds |->
                  IF a \in open /\ leases[a] = "Live" THEN "Expired" ELSE leases[a]]
             ended(l) == [links[l] EXCEPT !.status = "Cancelled"]
             lk == [l \in LinkIds |-> IF l \in cut THEN ended(l) ELSE links[l]]
             stopped == {attempts[a].node : a \in open} \cup {links[l].node : l \in cut}
             halted == [n \in NodeIds |-> IF n \in stopped THEN "Blocked" ELSE st[n]]
  <1>1. /\ planNo' = planNo /\ sched' = sched /\ UNCHANGED treeVars /\ UNCHANGED gateVars
        /\ links' = lk /\ running' = {}
        /\ (status' = st /\ phase' = ph) \/ Refreshed(halted, ph, at, ls, lk)
    BY Zenon DEF Restart
  <1>2. status \in Trees /\ phase \in Phases /\ sched \in SchedulerStatuses
    BY Zenon DEF TypeInv, StateTypes
  <1>3. lk \in [LinkIds -> LinkRecords]
    <2>1. ASSUME NEW l \in LinkIds PROVE links[l] \in LinkRecords /\ ended(l) \in LinkRecords
      <3>1. links[l] \in LinkRecords
        BY LinkedNode, Zenon
      <3>. QED BY <3>1, Zenon DEF LinkRecords, LinkStatuses, LinkEnds
    <2>. HIDE DEF cut, ended
    <2>. QED BY <2>1, Zenon
  <1>4. st \in Trees
    BY <1>2, RefreshTypes, ZenonT(30)
  <1>5. ph \in Phases
    BY <1>2, PhaseTypes, ZenonT(30)
  <1>6. halted \in Trees
    <2>. HIDE DEF st, stopped
    <2>. QED BY <1>4 DEF Trees, NodeStatuses
  <1>. HIDE DEF st, ph, at, ls, lk, halted
  <1>7. status' \in Trees /\ phase' \in Phases
    BY <1>1, <1>4, <1>5, <1>6, RefreshedTypes, ZenonT(30)
  <1>8. StateTypes'
    BY <1>1, <1>2, <1>7 DEF TypeInv, StateTypes
  <1>9. LinkTypes'
    BY <1>1, <1>3, ZenonT(30) DEF LinkTypes
  <1>. QED BY <1>1, <1>8, <1>9, ShapeStays, GateStays, SMTT(20) DEF TypeInv

LEMMA TypeStep ==
    ASSUME TypeInv, [Next]_vars
    PROVE  TypeInv'
  <1>1. AttemptInv'
    BY AttemptStep, Zenon DEF TypeInv
  <1>2. CASE UNCHANGED vars
    <2>1. /\ UNCHANGED <<planNo, phase, sched, status>> /\ UNCHANGED treeVars /\ UNCHANGED gateVars
          /\ UNCHANGED linkVars
      BY <1>2, Zenon DEF vars
    <2>. QED BY <1>1, <2>1, StatusTypes, SMTT(20) DEF TypeInv, StateTypes
  <1>. QED BY <1>1, <1>2, CoordinatorTypes, SubagentTypes, ControlTypes, LinkStepTypes,
              AttemptStepTypes, RestartTypes, ExpiryTypes, SMTT(20) DEF Next

LEMMA TypeInit == Init => TypeInv
  <1> SUFFICES ASSUME Init PROVE TypeInv
    OBVIOUS
  <1>1. StateTypes
    BY PlanAssumption DEF Init, StateTypes, BlankTree, Trees, Phases, SchedulerStatuses
  <1>2. ShapeTypes
    BY PlanAssumption DEF Init, ShapeTypes, BlankTree, BlankParents, BlankDeps, Envelopes
  <1>3. GateTypes
    BY Zenon DEF Init, GateTypes
  <1>4. LinkTypes
    <2>1. NoLink \in LinkRecords
      BY PlanAssumption DEF NoLink, LinkRecords
    <2>. QED BY <2>1, Zenon DEF Init, LinkTypes
  <1>. QED BY <1>1, <1>2, <1>3, <1>4, AttemptInit, SMTT(20) DEF TypeInv

LEMMA TypeInvariance == Spec => []TypeInv
  <1>1. TypeInv /\ [Next]_vars => TypeInv'
    BY TypeStep
  <1>. QED BY <1>1, TypeInit, PTL DEF Spec

\* Every variable of the controller's plan holds a value of its kind: no edit,
\* decomposition or rebuild takes an id that the plan has no room for, and no
\* refresh, projection or recovery writes a status that is not one.
THEOREM TypeCorrect == Spec => []TypeOK
  <1>1. TypeInv => TypeOK
    BY TypeInvMeansTypeOK, Zenon
  <1>. QED BY <1>1, TypeInvariance, PTL
-----------------------------------------------------------------------------
(***************************************************************************)
(* The root is closed by work.                                             *)
(***************************************************************************)

LEMMA MannedInit == Init => MannedInv
  <1> SUFFICES ASSUME Init PROVE MannedInv
    OBVIOUS
  <1>1. \A l \in LinkIds : links[l].plan = 0 /\ links[l].node = NoNode
    BY Zenon DEF Init, NoLink
  <1>2. \A a \in AttemptIds : attempts[a].outcome = "Free" /\ attempts[a].node = NoNode
    BY Zenon DEF Init, BlankAttempts, NoAttempt
  <1>3. planNo = 0 /\ \A n \in NodeIds : status[n] = "Absent"
    BY DEF Init, BlankTree
  <1>. QED BY <1>1, <1>2, <1>3, TypeInit DEF MannedInv, Manned

\* The root of a plan is completed when all its live children are, when an executor
\* of the root itself reports completion, or when its author declares it: no
\* cancellation, expiry, rebinding, edit or restart closes it on the way.
THEOREM RootIsClosedByWork == Spec => CompletionEarned
  <1>1. MannedInv /\ [Next]_vars => MannedInv'
    BY MannedStep, TypeStep DEF MannedInv
  <1>2. MannedInv /\ [Next]_vars =>
          [root # NoNode /\ root' = root /\ status[root] # "Completed" /\ status'[root] = "Completed" =>
             \/ declared'[root] = "Completed"
             \/ /\ Children(status', parent', root) # {}
                /\ \A c \in Children(status', parent', root) : status'[c] = "Completed"
             \/ \E a \in AttemptIds : attempts'[a].node = root /\ attempts'[a].outcome = "Completed"
             \/ \E l \in LinkIds : /\ links'[l].plan = planNo /\ links'[l].node = root
                                   /\ links'[l].status = "Completed"]_vars
    <2> SUFFICES ASSUME MannedInv, [Next]_vars PROVE ClosedByWork
      BY Zenon DEF ClosedByWork, Earned
    <2>. QED BY MannedStep, TypeStep, Zenon DEF MannedInv
  <1>. QED BY <1>1, <1>2, MannedInit, PTL DEF Spec, CompletionEarned
-----------------------------------------------------------------------------
(***************************************************************************)
(* Reports and scopes within one plan.  Binding ids start again with every *)
(* plan, which is what OwnReportOnly fails on; in one plan they are unique.*)
(***************************************************************************)
Reported == {"Completed", "Failed", "Blocked"}

\* A report ends the link of its own subagent, or that of a later plan
\* (update_subagent_link).
ReportsOwn ==
    \A l \in LinkIds : links[l].status = "Active" /\ links'[l].status \in Reported =>
        \E m \in running \ running' : m = l \/ links[m].plan < links[l].plan
ReportsStayInPlan == [][ReportsOwn]_vars

\* A subagent edits the plan only while its own link is active: not after its
\* report, its replacement or a new plan (validate_subagent_scope).
ScopeEndsWithLink ==
    \A l \in LinkIds : InScope(l) => links[l].status = "Active" /\ ~links[l].replaced

BindingInv ==
    /\ \A l \in LinkIds : links[l].plan <= planNo /\ (links[l].plan = 0 => links[l].node = NoNode)
    /\ \A l, m \in LinkIds :
          links[l].plan = links[m].plan /\ links[l].plan # 0 /\ links[l].binding = links[m].binding
              => l = m

\* No link is bound or reported; some may lose their node or be cut off.
LinksKept ==
    /\ planNo <= planNo'
    /\ \A l \in LinkIds :
          /\ links'[l].plan = links[l].plan /\ links'[l].binding = links[l].binding
          /\ links'[l].node \in {links[l].node, NoNode}
          /\ links'[l].status \in {links[l].status, "Cancelled"}

LEMMA KeptBindings ==
    ASSUME TypeInv, TypeInv', BindingInv, LinksKept
    PROVE  BindingInv' /\ ReportsOwn
  <1>1. /\ planNo \in Int /\ planNo' \in Int
        /\ \A l \in LinkIds : links[l].plan \in Int
    BY PlanAssumption, SMTT(20) DEF TypeInv, StateTypes, LinkTypes, LinkRecords
  <1>2. \A l \in LinkIds : links'[l].plan <= planNo' /\ (links'[l].plan = 0 => links'[l].node = NoNode)
    BY <1>1, SMTT(20) DEF BindingInv, LinksKept
  <1>3. ReportsOwn
    BY Zenon DEF LinksKept, ReportsOwn, Reported
  <1>4. \A l, m \in LinkIds :
          links'[l].plan = links'[m].plan /\ links'[l].plan # 0 /\ links'[l].binding = links'[m].binding
              => l = m
    BY Zenon DEF BindingInv, LinksKept
  <1>. QED BY <1>2, <1>3, <1>4, Zenon DEF BindingInv

LEMMA SameLinksKept ==
    ASSUME TypeInv, links' = links, planNo' \in {planNo, planNo + 1}
    PROVE  LinksKept
  <1>1. planNo <= planNo'
    BY PlanAssumption DEF TypeInv, StateTypes
  <1>. QED BY <1>1, Zenon DEF LinksKept

LEMMA BuildKeepsLinks ==
    ASSUME TypeInv, NEW st, NEW top, NEW up, NEW below, NEW new, NEW d, NEW inherit, NEW chain,
           Build(st, top, up, below, new, d, inherit, chain), planNo' = planNo
    PROVE  LinksKept
  <1>1. \A l \in LinkIds : links[l] \in LinkRecords
    BY Zenon DEF TypeInv, LinkTypes
  <1>2. \A l \in LinkIds : links'[l] \in {links[l], [links[l] EXCEPT !.node = NoNode]}
    BY Zenon DEF Build
  <1>3. ASSUME NEW r \in LinkRecords
        PROVE  LET e == [r EXCEPT !.node = NoNode]
               IN  e.plan = r.plan /\ e.binding = r.binding /\ e.status = r.status /\ e.node = NoNode
    BY DEF LinkRecords
  <1>4. planNo <= planNo'
    BY PlanAssumption DEF TypeInv, StateTypes
  <1>5. ASSUME NEW l \in LinkIds
        PROVE  /\ links'[l].plan = links[l].plan /\ links'[l].binding = links[l].binding
               /\ links'[l].node \in {links[l].node, NoNode}
               /\ links'[l].status \in {links[l].status, "Cancelled"}
    <2>1. CASE links'[l] = links[l]
      BY <2>1, Zenon
    <2>2. CASE links'[l] = [links[l] EXCEPT !.node = NoNode]
      BY <1>1, <1>3, <2>2, Zenon
    <2>. QED BY <1>2, <2>1, <2>2, Zenon
  <1>. QED BY <1>4, <1>5, Zenon DEF LinksKept

LEMMA CoordinatorKeepsLinks ==
    ASSUME TypeInv, CoordinatorEdits
    PROVE  LinksKept
  <1>1. CASE BeginPlan
    BY <1>1, SameLinksKept, Zenon DEF BeginPlan, linkVars
  <1>2. ASSUME NEW k, NEW d, NEW chain, NEW cp, NEW i, DefineNewPlan(k, d, chain, cp, i)
        PROVE  LinksKept
    BY <1>2, SameLinksKept, Zenon DEF DefineNewPlan, linkVars
  <1>3. ASSUME NEW r, NEW reused, NEW k, NEW d, NEW inherit, NEW chain, NEW cp, NEW reworded,
               NEW i, DefinePlan(r, reused, k, d, inherit, chain, cp, reworded, i)
        PROVE  LinksKept
    <2>. DEFINE kept == [n \in NodeIds |-> IF n \in LiveNodes(status) THEN "Superseded" ELSE "Absent"]
    <2>1. /\ Build(kept, r, NoNode, ({r} \cup reused \cup NewNodes(k)) \ {r}, NewNodes(k), d, inherit, chain)
          /\ planNo' = planNo
      BY <1>3, Zenon DEF DefinePlan
    <2>. HIDE DEF kept
    <2>. QED BY <2>1, BuildKeepsLinks, Zenon
  <1>4. ASSUME NEW t, NEW reused, NEW k, NEW d, NEW inherit, NEW chain, NEW reworded,
               NEW i, ReplaceSubtree(t, reused, k, d, inherit, chain, reworded, i)
        PROVE  LinksKept
    <2>. DEFINE omitted == LiveSubtree(status, parent, t) \ ({t} \cup reused)
               kept == [n \in NodeIds |-> IF n \in omitted THEN "Superseded" ELSE status[n]]
    <2>1. /\ Build(kept, t, parent[t], reused \cup NewNodes(k), NewNodes(k), d, inherit, chain)
          /\ planNo' = planNo
      BY <1>4, Zenon DEF ReplaceSubtree
    <2>. HIDE DEF kept
    <2>. QED BY <2>1, BuildKeepsLinks, Zenon
  <1>5. ASSUME NEW i, UseCurrentPlan(i) PROVE LinksKept
    BY <1>5, SameLinksKept, Zenon DEF UseCurrentPlan, linkVars
  <1>. QED BY <1>1, <1>2, <1>3, <1>4, <1>5, ZenonT(30) DEF CoordinatorEdits

LEMMA QuietLinks ==
    ASSUME SubagentEdits \/ UserControls \/ AttemptSteps
             \/ \E late \in SUBSET AttemptIds : InterruptExpiredLeases(late)
    PROVE  links' = links /\ planNo' = planNo
  <1>. DEFINE Untouched == links' = links /\ planNo' = planNo
  <1>1. CASE SubagentEdits
    <2>1. ASSUME NEW l, NEW k, NEW d, NEW chain, DefineScopedChildren(l, k, d, chain) PROVE Untouched
      BY <2>1, Zenon DEF DefineScopedChildren, linkVars
    <2>2. ASSUME NEW l, NEW t, NEW k, NEW d, NEW chain, ReplaceScopedSubtree(l, t, k, d, chain)
          PROVE  Untouched
      BY <2>2, Zenon DEF ReplaceScopedSubtree, linkVars
    <2>. QED BY <1>1, <2>1, <2>2, Zenon DEF SubagentEdits
  <1>2. CASE UserControls
    BY <1>2, ZenonT(30) DEF UserControls, Approve, AuthorizeExecution, PauseScheduling, ResumeScheduling,
         ChangeSchedulerStatus, Revise, RequestCancellation, RetryInterruptedNode, linkVars
  <1>3. CASE AttemptSteps
    <2>1. ASSUME NEW a, NEW n, NEW e, NEW leased, StartAttempt(a, n, e, leased) PROVE Untouched
      BY <2>1, Zenon DEF StartAttempt, linkVars
    <2>2. ASSUME NEW a, RecordRuntimeEffect(a) \/ CancelAttempt(a) \/ DeliverQueuedDirectives(a)
          PROVE  Untouched
      BY <2>2, Zenon DEF RecordRuntimeEffect, CancelAttempt, DeliverQueuedDirectives, linkVars
    <2>3. ASSUME NEW x, NEW a, IssueDirective(x, a) PROVE Untouched
      BY <2>3, Zenon DEF IssueDirective, linkVars
    <2>4. ASSUME NEW a, NEW acked, NEW applied, ReportProgress(a, acked, applied) PROVE Untouched
      BY <2>4, Zenon DEF ReportProgress, linkVars
    <2>5. ASSUME NEW a, NEW outcome, NEW k, NEW d, NEW chain, NEW acked, NEW applied,
                 ReportAttempt(a, outcome, k, d, chain, acked, applied)
          PROVE  Untouched
      BY <2>5, Zenon DEF ReportAttempt, linkVars
    <2>6. PICK a \in AttemptIds :
            \/ \E n \in ReadyNodes, e \in Executors, leased \in BOOLEAN : StartAttempt(a, n, e, leased)
            \/ RecordRuntimeEffect(a) \/ CancelAttempt(a) \/ DeliverQueuedDirectives(a)
            \/ \E x \in DirectiveIds : IssueDirective(x, a)
            \/ \E acked, applied : ReportProgress(a, acked, applied)
            \/ \E acked, applied, outcome, d, k, chain :
                  ReportAttempt(a, outcome, k, d, chain, acked, applied)
      BY <1>3, ZenonT(30) DEF AttemptSteps
    <2>. QED BY <2>1, <2>2, <2>3, <2>4, <2>5, <2>6, Zenon
  <1>4. ASSUME NEW late, InterruptExpiredLeases(late) PROVE Untouched
    BY <1>4, Zenon DEF InterruptExpiredLeases, linkVars
  <1>. QED BY <1>1, <1>2, <1>3, <1>4, Zenon

LEMMA RestartKeepsLinks ==
    ASSUME TypeInv, Restart
    PROVE  LinksKept
  <1>1. \A l \in LinkIds : links[l] \in LinkRecords
    BY Zenon DEF TypeInv, LinkTypes
  <1>2. \A l \in LinkIds : links'[l] \in {links[l], [links[l] EXCEPT !.status = "Cancelled"]}
    BY Zenon DEF Restart
  <1>3. ASSUME NEW r \in LinkRecords
        PROVE  LET e == [r EXCEPT !.status = "Cancelled"]
               IN  e.plan = r.plan /\ e.binding = r.binding /\ e.node = r.node /\ e.status = "Cancelled"
    BY DEF LinkRecords
  <1>4. planNo <= planNo'
    BY PlanAssumption DEF TypeInv, StateTypes, Restart
  <1>5. ASSUME NEW l \in LinkIds
        PROVE  /\ links'[l].plan = links[l].plan /\ links'[l].binding = links[l].binding
               /\ links'[l].node \in {links[l].node, NoNode}
               /\ links'[l].status \in {links[l].status, "Cancelled"}
    <2>1. CASE links'[l] = links[l]
      BY <2>1, Zenon
    <2>2. CASE links'[l] = [links[l] EXCEPT !.status = "Cancelled"]
      <3>1. links[l] \in LinkRecords
        BY <1>1, Zenon
      <3>. QED BY <1>3, <2>2, <3>1, SMTT(20)
    <2>. QED BY <1>2, <2>1, <2>2, Zenon
  <1>. QED BY <1>4, <1>5, Zenon DEF LinksKept

\* The binding is later than every one of the plan.
LEMMA BindBindings ==
    ASSUME TypeInv, BindingInv, NEW l \in LinkIds, NEW n \in NodeIds, NEW b \in 1..MaxBinding,
           BindSubagent(l, n, b)
    PROVE  BindingInv' /\ ReportsOwn
  <1>1. /\ planNo' = planNo /\ planNo # 0
        /\ \A m \in LinkIds : links[m].plan = planNo => links[m].binding < b
        /\ links'[l].plan = planNo /\ links'[l].binding = b /\ links'[l].status = "Active"
    BY Zenon DEF BindSubagent
  <1>2. \A m \in LinkIds \ {l} :
          links'[m] \in {links[m], [links[m] EXCEPT !.status = "Superseded", !.replaced = TRUE]}
    BY Zenon DEF BindSubagent
  <1>3. ASSUME NEW r \in LinkRecords
        PROVE  LET e == [r EXCEPT !.status = "Superseded", !.replaced = TRUE]
               IN  e.plan = r.plan /\ e.binding = r.binding /\ e.node = r.node /\ e.status = "Superseded"
    BY DEF LinkRecords
  <1>4. ASSUME NEW m \in LinkIds \ {l}
        PROVE  /\ links'[m].plan = links[m].plan /\ links'[m].binding = links[m].binding
               /\ links'[m].node = links[m].node
               /\ links'[m].status \in {links[m].status, "Superseded"}
    <2>1. links[m] \in LinkRecords
      BY Zenon DEF TypeInv, LinkTypes
    <2>2. CASE links'[m] = links[m]
      BY <2>2, Zenon
    <2>3. CASE links'[m] = [links[m] EXCEPT !.status = "Superseded", !.replaced = TRUE]
      BY <1>3, <2>1, <2>3, Zenon
    <2>. QED BY <1>2, <2>2, <2>3, Zenon
  <1>5. /\ planNo \in Int /\ b \in Int
        /\ \A m \in LinkIds : links[m].plan \in Int /\ links[m].binding \in Int
    BY PlanAssumption, SMTT(20) DEF TypeInv, StateTypes, LinkTypes, LinkRecords
  <1>6. \A m \in LinkIds : links'[m].plan <= planNo' /\ (links'[m].plan = 0 => links'[m].node = NoNode)
    BY <1>1, <1>4, <1>5, SMTT(20) DEF BindingInv
  <1>7. \A m \in LinkIds : links[m].plan = planNo => links[m].binding # b
    BY <1>1, <1>5
  <1>8. ASSUME NEW m \in LinkIds, NEW k \in LinkIds,
               links'[m].plan = links'[k].plan, links'[m].plan # 0, links'[m].binding = links'[k].binding
        PROVE  m = k
    <2>1. CASE m # l /\ k # l
      BY <1>4, <1>8, <2>1, Zenon DEF BindingInv
    <2>2. CASE m = l /\ k # l
      BY <1>1, <1>4, <1>7, <1>8, <2>2, Zenon
    <2>3. CASE m # l /\ k = l
      BY <1>1, <1>4, <1>7, <1>8, <2>3, Zenon
    <2>. QED BY <2>1, <2>2, <2>3, Zenon
  <1>9. ReportsOwn
    BY <1>1, <1>4, Zenon DEF ReportsOwn, Reported
  <1>. QED BY <1>6, <1>8, <1>9, Zenon DEF BindingInv

\* Among the links of the active plan the binding finds the reporter's own.
LEMMA ReportBindings ==
    ASSUME TypeInv, BindingInv, NEW l \in LinkIds, NEW end \in LinkEnds, UpdateSubagentLink(l, end)
    PROVE  BindingInv' /\ ReportsOwn
  <1>1. PICK m \in LinkIds :
          /\ links[m].plan = planNo /\ links[m].binding = links[l].binding
          /\ links' = [links EXCEPT ![m].status = end]
    BY Zenon DEF UpdateSubagentLink, LinkOfBinding
  <1>2. /\ planNo' = planNo /\ planNo # 0 /\ l \in running /\ running' = running \ {l}
    BY Zenon DEF UpdateSubagentLink
  <1>3. /\ planNo \in Int /\ \A k \in LinkIds : links[k].plan \in Int
    BY PlanAssumption, SMTT(20) DEF TypeInv, StateTypes, LinkTypes, LinkRecords
  <1>4. \A k \in LinkIds : /\ links'[k].plan = links[k].plan /\ links'[k].binding = links[k].binding
                           /\ links'[k].node = links[k].node
                           /\ k # m => links'[k].status = links[k].status
    BY <1>1, SMTT(20) DEF TypeInv, LinkTypes, LinkRecords
  <1>5. BindingInv'
    <2>1. \A k \in LinkIds : links'[k].plan <= planNo' /\ (links'[k].plan = 0 => links'[k].node = NoNode)
      BY <1>2, <1>4, Zenon DEF BindingInv
    <2>2. \A j, k \in LinkIds :
            links'[j].plan = links'[k].plan /\ links'[j].plan # 0 /\ links'[j].binding = links'[k].binding
                => j = k
      <3> SUFFICES ASSUME NEW j \in LinkIds, NEW k \in LinkIds, links'[j].plan = links'[k].plan,
                          links'[j].plan # 0, links'[j].binding = links'[k].binding
                   PROVE  j = k
        BY Zenon
      <3>1. links[j].plan = links[k].plan /\ links[j].plan # 0 /\ links[j].binding = links[k].binding
        BY <1>4, Zenon
      <3>. QED BY <3>1, Zenon DEF BindingInv
    <2>. QED BY <2>1, <2>2, Zenon DEF BindingInv
  <1>6. m = l \/ links[l].plan < links[m].plan
    <2>1. CASE links[l].plan = planNo
      BY <1>1, <1>2, <2>1, Zenon DEF BindingInv
    <2>2. CASE links[l].plan # planNo
      <3>1. links[l].plan <= planNo
        BY Zenon DEF BindingInv
      <3>. QED BY <1>1, <1>3, <2>2, <3>1
    <2>. QED BY <2>1, <2>2, Zenon
  <1>7. ReportsOwn
    <2> SUFFICES ASSUME NEW k \in LinkIds, links[k].status = "Active", links'[k].status \in Reported
                 PROVE  \E j \in running \ running' : j = k \/ links[j].plan < links[k].plan
      BY Zenon DEF ReportsOwn
    <2>1. k = m
      BY <1>4, Zenon DEF Reported
    <2>2. l \in running \ running'
      BY <1>2, Zenon
    <2>. QED BY <1>6, <2>1, <2>2, Zenon
  <1>. QED BY <1>5, <1>7, Zenon

LEMMA BindingStep ==
    ASSUME TypeInv, BindingInv, [Next]_vars
    PROVE  BindingInv' /\ ReportsOwn
  <1>1. TypeInv'
    BY TypeStep, Zenon
  <1>2. CASE LinkSteps
    <2>1. ASSUME NEW l, LinkUpdateFails(l) PROVE LinksKept
      BY <2>1, SameLinksKept, Zenon DEF LinkUpdateFails
    <2>. QED BY <1>1, <1>2, <2>1, BindBindings, ReportBindings, KeptBindings, ZenonT(30) DEF LinkSteps
  <1>3. CASE UNCHANGED vars
    <2>1. links' = links /\ planNo' = planNo
      BY <1>3, Zenon DEF vars, linkVars
    <2>. QED BY <1>1, <2>1, SameLinksKept, KeptBindings, Zenon
  <1>4. CASE CoordinatorEdits \/ Restart
    BY <1>1, <1>4, CoordinatorKeepsLinks, RestartKeepsLinks, KeptBindings, Zenon
  <1>5. CASE SubagentEdits \/ UserControls \/ AttemptSteps
               \/ \E late \in SUBSET AttemptIds : InterruptExpiredLeases(late)
    BY <1>1, <1>5, QuietLinks, SameLinksKept, KeptBindings, Zenon
  <1>. QED BY <1>2, <1>3, <1>4, <1>5, ZenonT(30) DEF Next

LEMMA BindingInvariance == Spec => [](TypeInv /\ BindingInv)
  <1>1. Init => BindingInv
    <2>1. Init => planNo = 0 /\ \A l \in LinkIds : links[l].plan = 0 /\ links[l].node = NoNode
      BY SMTT(20) DEF Init, NoLink
    <2>. QED BY <2>1, SMTT(20) DEF BindingInv
  <1>2. TypeInv /\ BindingInv /\ [Next]_vars => (TypeInv /\ BindingInv)'
    BY TypeStep, BindingStep, Zenon
  <1>. QED BY <1>1, <1>2, TypeInit, PTL DEF Spec

\* Among the subagents of one plan a report ends no link but the reporter's own:
\* what OwnReportOnly asks for is broken only by the subagents of earlier plans.
THEOREM PlanHearsItsOwn == Spec => ReportsStayInPlan
  <1>1. TypeInv /\ BindingInv /\ [Next]_vars => [ReportsOwn]_vars
    BY BindingStep, Zenon
  <1>. QED BY <1>1, BindingInvariance, PTL DEF Spec, ReportsStayInPlan

\* Once its link has ended or was replaced, or another plan is active, a
\* subagent that is still running can edit no node of the plan.
THEOREM ScopeIsRevoked == Spec => []ScopeEndsWithLink
  <1>1. TypeInv /\ BindingInv => ScopeEndsWithLink
    <2> SUFFICES ASSUME BindingInv, NEW l \in LinkIds, InScope(l)
                 PROVE  links[l].status = "Active" /\ ~links[l].replaced
      BY Zenon DEF ScopeEndsWithLink
    <2>1. PICK m \in LinkIds :
            /\ links[m].plan = planNo /\ links[m].binding = links[l].binding /\ links[m].node # NoNode
            /\ links[m].status = "Active" /\ ~links[m].replaced
      BY Zenon DEF InScope
    <2>2. links[l].plan = planNo
      BY Zenon DEF InScope
    <2>3. m = l
      BY <2>1, <2>2, Zenon DEF BindingInv
    <2>. QED BY <2>1, <2>3, Zenon
  <1>. QED BY <1>1, BindingInvariance, PTL
=============================================================================
