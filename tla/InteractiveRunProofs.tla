------------------------ MODULE InteractiveRunProofs ------------------------
(***************************************************************************)
(* For any number of inputs, commands, batches and places of the result    *)
(* channel, and however often the output channel is full: the variables    *)
(* keep their types and the queue its inputs, a bridge batch the producer  *)
(* waits for is never lost on its way to the host, the host is told Ok     *)
(* only for results that were recorded, suspended inputs run only when     *)
(* asked for, and a run that waits has nothing left to run.                *)
(***************************************************************************)
EXTENDS InteractiveRun, Integers, TLAPS

Reading == hostOp \in {"message", "event"}

\* The producer's side of the output channel and the host's: batches are
\* numbered in order, a host that reads holds nothing, and when the epoch has
\* moved under its read there is an event before the batch in the channel.
ChannelInv ==
    /\ {batch, held, unread} \subseteq Nat /\ moved \in BOOLEAN
    /\ out \in Seq(Nat) /\ \A n \in 1..Len(out) : out[n] <= batch
    /\ pc = "bridge" => batch # 0
    /\ Reading => held = 0 /\ unread = 0
    /\ Reading /\ moved /\ pc = "bridge" /\ ~phaseCancelled =>
         out # <<>> /\ out[1] # batch
    /\ HandoffNotLost

\* At most one submission is awaited, and it is for the batch the host holds.
AnswerInv ==
    /\ results \in Seq([batch : Nat, live : BOOLEAN])
    /\ \A n \in 1..Len(results) :
         results[n].live => hostOp = "submitting" /\ results[n].batch = held
    /\ \A m, n \in 1..Len(results) : results[m].live /\ results[n].live => m = n

-----------------------------------------------------------------------------
(***************************************************************************)
(* The output channel.                                                     *)
(***************************************************************************)

\* p is o with more events behind, none of a batch after b.
Grows(o, p, b) ==
    /\ p \in Seq(Nat) /\ Len(o) <= Len(p)
    /\ \A n \in 1..Len(o) : p[n] = o[n]
    /\ \A n \in 1..Len(p) : p[n] <= b

LEMMA GrowsKeeps ==
    ASSUME NEW b \in Nat, NEW o \in Seq(Nat), \A n \in 1..Len(o) : o[n] <= b
    PROVE  Grows(o, o, b)
  BY DEF Grows

LEMMA AppendFacts ==
    ASSUME NEW o \in Seq(Nat), NEW e \in Nat
    PROVE  /\ Append(o, e) \in Seq(Nat) /\ Len(o) \in Nat /\ Len(Append(o, e)) = Len(o) + 1
           /\ \A n \in 1..Len(o) : Append(o, e)[n] = o[n]
           /\ Append(o, e)[Len(o) + 1] = e
           /\ Append(o, e) # <<>>
  <1>1. Append(o, e) \in Seq(Nat) /\ Len(o) \in Nat /\ Len(Append(o, e)) = Len(o) + 1
    OBVIOUS
  <1>2. \A n \in 1..Len(o) : Append(o, e)[n] = o[n]
    OBVIOUS
  <1>3. Append(o, e)[Len(o) + 1] = e
    OBVIOUS
  <1>4. Append(o, e) # <<>>
    OBVIOUS
  <1>. QED BY <1>1, <1>2, <1>3, <1>4, Zenon

LEMMA EventGrows ==
    ASSUME NEW b \in Nat, NEW a \in Seq(Nat), NEW o \in Seq(Nat), Grows(a, o, b)
    PROVE  /\ Grows(a, Append(o, Event), b) /\ Append(o, Event) # <<>>
           /\ Append(o, Event) \in Seq(Nat)
  <1>. DEFINE p == Append(o, 0)
  <1>1. Append(o, Event) = p
    BY Zenon DEF Event
  <1>2. /\ p \in Seq(Nat) /\ Len(o) \in Nat /\ Len(p) = Len(o) + 1 /\ p # <<>>
        /\ \A n \in 1..Len(o) : p[n] = o[n]
        /\ p[Len(o) + 1] = 0
    BY AppendFacts
  <1>. HIDE DEF p
  <1>3. Len(a) \in Nat
    OBVIOUS
  <1>4. Len(a) <= Len(o) /\ \A n \in 1..Len(a) : o[n] = a[n]
    BY Zenon DEF Grows
  <1>5. ASSUME NEW n \in 1..Len(p) PROVE p[n] <= b
    <2>1. CASE n \in 1..Len(o)
      BY <1>2, <2>1, Zenon DEF Grows
    <2>2. CASE n = Len(o) + 1
      BY <1>2, <2>2
    <2>. QED BY <1>2, <2>1, <2>2
  <1>6. Len(a) <= Len(p) /\ \A n \in 1..Len(a) : p[n] = a[n]
    BY <1>2, <1>3, <1>4
  <1>. QED BY <1>1, <1>2, <1>5, <1>6, Zenon DEF Grows

LEMMA EmitGrows ==
    ASSUME NEW b \in Nat, NEW a \in Seq(Nat), NEW o \in Seq(Nat), Grows(a, o, b),
           NEW p \in Emit(o)
    PROVE  Grows(a, p, b) /\ p # <<>> /\ p \in Seq(Nat)
  <1>. DEFINE sent == IF o # <<>> /\ o[Len(o)] = Event THEN o ELSE Append(o, Event)
  <1>1. Grows(a, sent, b) /\ sent # <<>> /\ sent \in Seq(Nat)
    <2>1. CASE o # <<>> /\ o[Len(o)] = Event
      BY <2>1, Zenon
    <2>2. CASE ~(o # <<>> /\ o[Len(o)] = Event)
      BY <2>2, EventGrows, Zenon
    <2>. QED BY <2>1, <2>2, Zenon
  <1>2. p = sent \/ p = Append(sent, Event)
    BY Zenon DEF Emit
  <1>. HIDE DEF sent
  <1>. QED BY <1>1, <1>2, EventGrows, Zenon

LEMMA HandOffGrows ==
    ASSUME NEW b \in Nat, NEW a \in Seq(Nat), NEW o \in Seq(Nat), Grows(a, o, b),
           NEW e \in Emit(o), NEW p, p = Append(e, b + 1)
    PROVE  /\ Grows(a, p, b + 1) /\ p # <<>> /\ p[1] # b + 1
           /\ \E n \in 1..Len(p) : p[n] = b + 1
  <1>1. e \in Seq(Nat) /\ Grows(a, e, b) /\ e # <<>>
    BY EmitGrows, Zenon
  <1>2. p = Append(e, b + 1)
    BY Zenon
  <1>3. /\ p \in Seq(Nat) /\ Len(e) \in Nat /\ Len(p) = Len(e) + 1 /\ p # <<>>
        /\ \A n \in 1..Len(e) : p[n] = e[n]
        /\ p[Len(e) + 1] = b + 1
    <2>1. b + 1 \in Nat
      OBVIOUS
    <2>. DEFINE q == Append(e, b + 1)
    <2>2. /\ q \in Seq(Nat) /\ Len(e) \in Nat /\ Len(q) = Len(e) + 1 /\ q # <<>>
          /\ \A n \in 1..Len(e) : q[n] = e[n]
          /\ q[Len(e) + 1] = b + 1
      BY <1>1, <2>1, AppendFacts, Zenon
    <2>3. p = q
      BY <1>2, Zenon
    <2>. HIDE DEF q
    <2>. QED BY <2>2, <2>3, Zenon
  <1>4. \A n \in 1..Len(e) : e[n] \in Nat /\ e[n] <= b
    BY <1>1 DEF Grows
  <1>5. Len(e) >= 1 /\ Len(a) \in Nat
    BY <1>1
  <1>6. p[1] # b + 1
    BY <1>3, <1>4, <1>5
  <1>7. Grows(a, p, b + 1)
    <2>1. Len(a) <= Len(e) /\ \A n \in 1..Len(a) : e[n] = a[n]
      BY <1>1, Zenon DEF Grows
    <2>. QED BY <1>3, <1>4, <1>5, <2>1 DEF Grows
  <1>8. Len(p) \in 1..Len(p) /\ p[Len(p)] = b + 1
    BY <1>3
  <1>. QED BY <1>3, <1>6, <1>7, <1>8, Zenon

\* A step of the producer that hands nothing off.
LEMMA ChannelMoves ==
    ASSUME ChannelInv, batch' = batch, Grows(out, out', batch), UNCHANGED unread,
           held' \in {held, 0}, hostOp' \in {hostOp, "idle"}, moved' \in BOOLEAN,
           pc' = "bridge" => pc = "bridge",
           pc' = "bridge" /\ ~phaseCancelled' =>
             pc = "bridge" /\ ~phaseCancelled /\ moved' = moved /\ held' = held
    PROVE  ChannelInv'
  <1>1. /\ out \in Seq(Nat) /\ out' \in Seq(Nat) /\ Len(out) <= Len(out')
        /\ Len(out) \in Nat /\ Len(out') \in Nat
        /\ \A n \in 1..Len(out) : out'[n] = out[n]
        /\ \A n \in 1..Len(out') : out'[n] <= batch'
    BY DEF ChannelInv, Grows
  <1>2. out # <<>> => out' # <<>> /\ out'[1] = out[1]
    BY <1>1
  <1>3. Members(out) \subseteq Members(out')
    <2>1. DOMAIN out = 1..Len(out) /\ DOMAIN out' = 1..Len(out')
      BY <1>1
    <2>2. ASSUME NEW x \in Members(out) PROVE x \in Members(out')
      <3>1. PICK n \in 1..Len(out) : out[n] = x
        BY <2>1, Zenon DEF Members
      <3>2. n \in 1..Len(out') /\ out'[n] = x
        BY <1>1, <3>1
      <3>. QED BY <2>1, <3>2, Zenon DEF Members
    <2>. QED BY <2>2, Zenon
  <1>4. Reading' => Reading
    BY Zenon DEF Reading
  <1>5. {batch', held', unread'} \subseteq Nat
    BY DEF ChannelInv
  <1>6. Reading' => held' = 0 /\ unread' = 0
    BY <1>4, Zenon DEF ChannelInv
  <1>7. Reading' /\ moved' /\ pc' = "bridge" /\ ~phaseCancelled' =>
          out' # <<>> /\ out'[1] # batch'
    BY <1>2, <1>4, Zenon DEF ChannelInv
  <1>8. HandoffNotLost'
    BY <1>3, Zenon DEF ChannelInv, HandoffNotLost
  <1>9. pc' = "bridge" => batch' # 0
    BY Zenon DEF ChannelInv
  <1>. QED BY <1>1, <1>5, <1>6, <1>7, <1>8, <1>9, Zenon DEF ChannelInv

\* The producer hands a batch off.
LEMMA ChannelHandsOff ==
    ASSUME ChannelInv, batch' = batch + 1, Grows(out, out', batch + 1), UNCHANGED unread,
           out' # <<>>, out'[1] # batch + 1, \E n \in 1..Len(out') : out'[n] = batch + 1,
           held' \in {held, 0}, hostOp' \in {hostOp, "idle"}, moved' \in BOOLEAN
    PROVE  ChannelInv'
  <1>1. out' \in Seq(Nat) /\ \A n \in 1..Len(out') : out'[n] <= batch'
    BY Zenon DEF Grows
  <1>2. Reading' => Reading
    BY Zenon DEF Reading
  <1>3. {batch', held', unread'} \subseteq Nat /\ batch' # 0
    BY DEF ChannelInv
  <1>4. Reading' => held' = 0 /\ unread' = 0
    BY <1>2, Zenon DEF ChannelInv
  <1>5. batch' \in Members(out')
    BY <1>1 DEF Members
  <1>6. HandoffNotLost'
    BY <1>5, Zenon DEF HandoffNotLost
  <1>. QED BY <1>1, <1>3, <1>4, <1>6, Zenon DEF ChannelInv

LEMMA OutTypes ==
    ASSUME ChannelInv
    PROVE  /\ batch \in Nat /\ out \in Seq(Nat) /\ moved \in BOOLEAN
           /\ Grows(out, out, batch)
           /\ \A o \in Emit(out) : Grows(out, o, batch)
  <1>1. batch \in Nat /\ out \in Seq(Nat) /\ moved \in BOOLEAN /\ \A n \in 1..Len(out) : out[n] <= batch
    BY Zenon DEF ChannelInv
  <1>2. Grows(out, out, batch)
    BY <1>1, GrowsKeeps, Zenon
  <1>. QED BY <1>1, <1>2, EmitGrows, Zenon

\* The next wave of a batch, or the boundary after one of `outs` was sent.
LEMMA NextWaveChannel ==
    ASSUME ChannelInv, NEW waves, NEW cont, NEW outs, NEW bumped \in BOOLEAN,
           \A o \in outs : Grows(out, o, batch), NextWave(waves, cont, outs, bumped),
           UNCHANGED unread, held' \in {held, 0}, hostOp' \in {hostOp, "idle"}
    PROVE  ChannelInv' /\ pc' \in {"boundary", "tool", "bridge"}
  <1>1. moved' = (moved \/ bumped)
    BY Zenon DEF NextWave, HandOff
  <1>2. moved' \in BOOLEAN
    BY <1>1, Zenon
  <1>3. CASE ToBoundary(cont, outs) \/ StartRuntimeWave
    <2>1. /\ batch' = batch /\ pc' \in {"boundary", "tool"} /\ pc' # "bridge"
          /\ out' \in outs \/ out' \in Emit(out)
      BY <1>3, Zenon DEF ToBoundary, StartRuntimeWave
    <2>2. Grows(out, out', batch)
      BY <2>1, OutTypes, Zenon
    <2>. QED BY <1>2, <2>1, <2>2, ChannelMoves, Zenon
  <1>4. CASE HandOff(bumped)
    <2>1. batch' = batch + 1 /\ pc' = "bridge"
      BY <1>4, Zenon DEF HandOff
    <2>2. PICK e \in Emit(out) : out' = Append(e, batch + 1)
      BY <1>4, Zenon DEF HandOff
    <2>3. /\ Grows(out, out', batch + 1) /\ out' # <<>> /\ out'[1] # batch + 1
          /\ \E n \in 1..Len(out') : out'[n] = batch + 1
      <3>1. batch \in Nat /\ out \in Seq(Nat) /\ Grows(out, out, batch)
        BY OutTypes, Zenon
      <3>. DEFINE q == Append(e, batch + 1)
      <3>2. q = Append(e, batch + 1)
        BY Zenon
      <3>3. out' = q
        BY <2>2, Zenon
      <3>. HIDE DEF q
      <3>4. /\ Grows(out, q, batch + 1) /\ q # <<>> /\ q[1] # batch + 1
            /\ \E n \in 1..Len(q) : q[n] = batch + 1
        BY <2>2, <3>1, <3>2, HandOffGrows, ZenonT(30)
      <3>. QED BY <3>3, <3>4, Zenon
    <2>. QED BY <1>2, <2>1, <2>3, ChannelHandsOff, Zenon
  <1>. QED BY <1>3, <1>4, Zenon DEF NextWave

\* A step that hands nothing off and leaves the host alone.
Quiet ==
    /\ batch' = batch /\ out' \in {out} \cup Emit(out) /\ UNCHANGED <<held, unread, hostOp, moved>>
    /\ \/ pc' # "bridge"
       \/ pc' = pc /\ phaseCancelled' = phaseCancelled
       \/ pc' = pc /\ phaseCancelled' = TRUE

LEMMA QuietChannel ==
    ASSUME ChannelInv, Quiet
    PROVE  ChannelInv'
  <1>1. Grows(out, out', batch) /\ moved \in BOOLEAN
    BY OutTypes, Zenon DEF Quiet
  <1>2. /\ pc' = "bridge" => pc = "bridge"
        /\ pc' = "bridge" /\ ~phaseCancelled' => pc = "bridge" /\ ~phaseCancelled
    BY DEF Quiet
  <1>. QED BY <1>1, <1>2, ChannelMoves, Zenon DEF Quiet

LEMMA StepEndsChannel ==
    ASSUME ChannelInv, StepEnds
    PROVE  ChannelInv'
  <1>1. UNCHANGED <<held, unread, hostOp>>
    BY Zenon DEF StepEnds
  <1>2. CASE UNCHANGED moved /\ \E c, outs : ToBoundary(c, outs) /\ outs \in {{out}, Emit(out)}
    BY <1>1, <1>2, QuietChannel, Zenon DEF ToBoundary, Quiet
  <1>3. CASE NextWave(pending, TRUE, {out}, FALSE)
    BY <1>1, <1>3, OutTypes, NextWaveChannel, Zenon
  <1>. QED BY <1>2, <1>3, Zenon DEF StepEnds, FinalOutput

LEMMA ToolDoneChannel ==
    ASSUME ChannelInv, ToolDone
    PROVE  ChannelInv'
  <1>1. UNCHANGED <<held, unread, hostOp>>
    BY Zenon DEF ToolDone
  <1>2. CASE UNCHANGED moved /\ ToBoundary(FALSE, Emit(out))
    BY <1>1, <1>2, QuietChannel, Zenon DEF ToBoundary, Quiet
  <1>3. ASSUME NEW cont, NextWave(Tail(pending), cont, Emit(out), FALSE) PROVE ChannelInv'
    BY <1>1, <1>3, OutTypes, NextWaveChannel, Zenon
  <1>. QED BY <1>2, <1>3, Zenon DEF ToolDone

LEMMA SettleEndsChannel ==
    ASSUME ChannelInv, SettleEnds
    PROVE  ChannelInv'
  <1>1. UNCHANGED <<held, unread, hostOp>>
    BY Zenon DEF SettleEnds
  <1>2. CASE moved' = TRUE /\ ToBoundary(FALSE, {out})
    <2>1. batch' = batch /\ out' = out /\ pc' # "bridge" /\ moved' \in BOOLEAN
      BY <1>2, Zenon DEF ToBoundary
    <2>. QED BY <1>1, <2>1, OutTypes, ChannelMoves, Zenon
  <1>3. ASSUME NEW cont, NextWave(pending, cont, {out}, TRUE) PROVE ChannelInv'
    BY <1>1, <1>3, OutTypes, NextWaveChannel, Zenon
  <1>. QED BY <1>2, <1>3, Zenon DEF SettleEnds

LEMMA BridgeResultChannel ==
    ASSUME ChannelInv, BridgeResult
    PROVE  ChannelInv'
  <1>. DEFINE command == Head(results)
  <1>1. UNCHANGED unread
    BY Zenon DEF BridgeResult
  <1>2. ASSUME NEW releases, Answer(command, releases)
        PROVE  /\ held' \in {held, 0} /\ hostOp' \in {hostOp, "idle"}
               /\ ~releases => held' = held
    BY <1>2, Zenon DEF Answer
  <1>3. ASSUME NEW cont, Answer(command, TRUE),
               NextWave(Tail(pending), cont, Emit(out), TRUE)
        PROVE  ChannelInv'
    BY <1>1, <1>2, <1>3, OutTypes, NextWaveChannel, Zenon
  <1>4. CASE Answer(command, FALSE) /\ UNCHANGED <<phaseVars, moved, out>>
    <2>1. /\ UNCHANGED <<pc, phaseCancelled, batch, moved, out>>
          /\ held' = held /\ hostOp' \in {hostOp, "idle"}
      BY <1>2, <1>4, Zenon DEF phaseVars
    <2>2. Grows(out, out', batch) /\ moved \in BOOLEAN
      BY <2>1, OutTypes, Zenon
    <2>. QED BY <1>1, <2>1, <2>2, ChannelMoves, Zenon
  <1>5. CASE Answer(command, TRUE) /\ ToSettle("Rejected")
    <2>1. /\ UNCHANGED <<batch, moved, out>> /\ pc' # "bridge"
          /\ held' \in {held, 0} /\ hostOp' \in {hostOp, "idle"}
      BY <1>2, <1>5, Zenon DEF ToSettle
    <2>2. Grows(out, out', batch) /\ moved \in BOOLEAN
      BY <2>1, OutTypes, Zenon
    <2>. QED BY <1>1, <2>1, <2>2, ChannelMoves, Zenon
  <1>. QED BY <1>3, <1>4, <1>5, Zenon DEF BridgeResult

LEMMA BoundaryChannel ==
    ASSUME ChannelInv, Boundary
    PROVE  ChannelInv'
  <1>1. batch' = batch /\ out' \in Emit(out) /\ pc' \in {"model", "waiting", "closed"}
    BY Zenon DEF Boundary, BackToWaiting, RunContinuation, RunAccepted, StartModel
  <1>2. UNCHANGED <<held, unread, hostOp, moved>>
    BY Zenon DEF Boundary, hostVars
  <1>. QED BY <1>1, <1>2, QuietChannel, Zenon DEF Quiet

LEMMA InterruptChannel ==
    ASSUME ChannelInv, Interrupt
    PROVE  ChannelInv'
  <1>1. /\ UNCHANGED <<pc, batch, held, unread, hostOp>> /\ out' \in Emit(out)
        /\ moved' = (moved \/ pc = "bridge") /\ (pc = "bridge" => phaseCancelled')
    BY Zenon DEF Interrupt
  <1>2. moved' \in BOOLEAN
    BY <1>1, Zenon
  <1>3. Grows(out, out', batch)
    BY <1>1, OutTypes, Zenon
  <1>. QED BY <1>1, <1>2, <1>3, ChannelMoves, Zenon

LEMMA UserChannel ==
    ASSUME ChannelInv, UserStep
    PROVE  ChannelInv'
  <1>1. CASE Interrupt
    BY <1>1, InterruptChannel, Zenon
  <1>2. CASE \E i \in Inputs : SubmitNext(i) \/ Enqueue(i) \/ Remove(i)
    <2>1. ASSUME NEW i \in Inputs, SubmitNext(i) PROVE Quiet
      BY <2>1, Zenon DEF SubmitNext, RunAccepted, StartModel, phaseVars, hostVars, Quiet
    <2>2. ASSUME NEW i \in Inputs, Enqueue(i) PROVE Quiet
      BY <2>2, Zenon DEF Enqueue, RunAccepted, StartModel, phaseVars, hostVars, Quiet
    <2>3. ASSUME NEW i \in Inputs, Remove(i) PROVE Quiet
      BY <2>3, Zenon DEF Remove, Handled, BackToWaiting, hostVars, Quiet
    <2>. QED BY <1>2, <2>1, <2>2, <2>3, QuietChannel, Zenon
  <1>3. CASE \E lane \in Lanes : ReplacePendingOrder(lane)
    BY <1>3, QuietChannel, Zenon DEF ReplacePendingOrder, Handled, BackToWaiting, hostVars, Quiet
  <1>4. CASE ResumeSuspended
    BY <1>4, QuietChannel, Zenon
    DEF ResumeSuspended, RunAccepted, StartModel, Handled, BackToWaiting, hostVars, Quiet
  <1>5. CASE DiscardSuspended
    BY <1>5, QuietChannel, Zenon DEF DiscardSuspended, Handled, BackToWaiting, hostVars, Quiet
  <1>6. CASE Close
    <2>1. CASE pc = "bridge"
      <3>1. pc' = pc /\ phaseCancelled' = TRUE
        <4>1. pc' = pc /\ phaseCancelled' = (pc # "boundary")
          BY <1>6, <2>1, Zenon DEF Close
        <4>. QED BY <2>1, <4>1, Zenon
      <3>. QED BY <1>6, <3>1, QuietChannel, Zenon DEF Close, hostVars, Quiet
    <2>2. CASE pc # "bridge"
      BY <1>6, <2>2, QuietChannel, Zenon DEF Close, hostVars, Quiet
    <2>. QED BY <2>1, <2>2, Zenon
  <1>7. CASE RequestCancel
    <2>1. pc' # "bridge" \/ (pc' = pc /\ phaseCancelled' = TRUE)
      <3>1. CASE pc = "bridge"
        <4>1. pc \in Phases
          BY <3>1, Zenon DEF Phases
        <4>. QED BY <1>7, <3>1, <4>1, Zenon DEF RequestCancel
      <3>2. CASE pc # "bridge"
        BY <1>7, <3>2, Zenon DEF RequestCancel
      <3>. QED BY <3>1, <3>2, Zenon
    <2>. QED BY <1>7, <2>1, QuietChannel, Zenon DEF RequestCancel, hostVars, Quiet
  <1>8. CASE ApprovePlan \/ NoticeWakes
    BY <1>8, QuietChannel, Zenon
    DEF ApprovePlan, NoticeWakes, RunContinuation, StartModel, hostVars, Quiet
  <1>9. CASE PlanEvent \/ SubagentCompletes
    BY <1>9, QuietChannel, Zenon
    DEF PlanEvent, SubagentCompletes, RunContinuation, StartModel, phaseVars, hostVars, Quiet
  <1>. QED BY <1>1, <1>2, <1>3, <1>4, <1>5, <1>6, <1>7, <1>8, <1>9, Zenon DEF UserStep

\* What a read leaves in the channel.
LEMMA TailFacts ==
    ASSUME NEW o \in Seq(Nat), o # <<>>, NEW b \in Nat, \A n \in 1..Len(o) : o[n] <= b
    PROVE  /\ Tail(o) \in Seq(Nat) /\ \A n \in 1..Len(Tail(o)) : Tail(o)[n] <= b
           /\ Head(o) = o[1] /\ Head(o) \in Nat
           /\ b \in Members(o) => Head(o) = b \/ b \in Members(Tail(o))
  <1>. DEFINE t == Tail(o)
  <1>1. /\ t \in Seq(Nat) /\ Len(o) \in Nat /\ Len(o) >= 1 /\ Len(t) = Len(o) - 1
        /\ \A n \in 1..Len(t) : t[n] = o[n + 1]
        /\ Head(o) = o[1] /\ Head(o) \in Nat
        /\ DOMAIN o = 1..Len(o) /\ DOMAIN t = 1..Len(t)
    OBVIOUS
  <1>. HIDE DEF t
  <1>2. ASSUME NEW n \in 1..Len(t) PROVE t[n] <= b
    <2>1. n + 1 \in 1..Len(o) /\ t[n] = o[n + 1]
      BY <1>1
    <2>. QED BY <2>1, Zenon
  <1>3. ASSUME NEW n \in 1..Len(o), n # 1 PROVE n - 1 \in 1..Len(t) /\ t[n - 1] = o[n]
    <2>1. n - 1 \in 1..Len(t) /\ (n - 1) + 1 = n
      BY <1>1, <1>3
    <2>. QED BY <1>1, <2>1, Zenon
  <1>4. ASSUME b \in Members(o), Head(o) # b PROVE b \in Members(t)
    <2>1. PICK n \in 1..Len(o) : o[n] = b
      BY <1>1, <1>4, Zenon DEF Members
    <2>2. n - 1 \in DOMAIN t /\ t[n - 1] = b
      BY <1>1, <1>3, <1>4, <2>1, Zenon
    <2>. QED BY <2>2, Zenon DEF Members
  <1>. QED BY <1>1, <1>2, <1>4, Zenon DEF t

LEMMA ReceivedChannel ==
    ASSUME ChannelInv, out # <<>>, NEW op \in {"message", "event"}, Received(op, 0, 0),
           UNCHANGED <<pc, phaseCancelled, batch>>, moved' \in BOOLEAN,
           pc = "bridge" /\ ~phaseCancelled =>
             batch \in Members(out) /\ (moved' => Head(out) # batch)
    PROVE  ChannelInv'
  <1>1. /\ batch \in Nat /\ out \in Seq(Nat) /\ \A n \in 1..Len(out) : out[n] <= batch
        /\ pc = "bridge" => batch # 0
    BY Zenon DEF ChannelInv
  <1>2. /\ Tail(out) \in Seq(Nat) /\ \A n \in 1..Len(Tail(out)) : Tail(out)[n] <= batch
        /\ Head(out) \in Nat
        /\ batch \in Members(out) => Head(out) = batch \/ batch \in Members(Tail(out))
    BY <1>1, TailFacts, Zenon
  <1>3. /\ out' = Tail(out) /\ hostOp' = "idle"
        /\ held' \in {0, Head(out)} /\ unread' \in {0, Head(out)}
        /\ Head(out) # 0 => Head(out) \in {held', unread'}
    BY Zenon DEF Received, Event
  <1>4. HandoffNotLost'
    BY <1>1, <1>2, <1>3, Zenon DEF HandoffNotLost
  <1>5. ~Reading'
    BY <1>3, Zenon DEF Reading
  <1>. QED BY <1>1, <1>2, <1>3, <1>4, <1>5 DEF ChannelInv

LEMMA HostChannel ==
    ASSUME ChannelInv, HostStep
    PROVE  ChannelInv'
  <1>1. ASSUME NEW op \in {"message", "event"}, BeginRead(op) PROVE ChannelInv'
    <2>1. /\ UNCHANGED <<pc, phaseCancelled, batch>> /\ moved' = FALSE
          /\ held = 0 \/ moved
      BY <1>1, Zenon DEF BeginRead, phaseVars
    <2>2. CASE unread = 0 \/ moved
      <3>1. pc = "bridge" /\ ~phaseCancelled => batch \in Members(out)
        BY <2>1, <2>2, Zenon DEF ChannelInv, HandoffNotLost
      <3>2. CASE out # <<>> /\ Received(op, 0, 0)
        BY <2>1, <3>1, <3>2, ReceivedChannel, Zenon
      <3>3. CASE out = <<>> /\ hostOp' = op /\ held' = 0 /\ unread' = 0 /\ UNCHANGED out
        <4>1. ~(pc = "bridge" /\ ~phaseCancelled)
          BY <3>1, <3>3 DEF Members
        <4>2. HandoffNotLost'
          BY <2>1, <4>1, Zenon DEF HandoffNotLost
        <4>3. moved' \in BOOLEAN /\ ~moved'
          BY <2>1, Zenon
        <4>. QED BY <2>1, <3>3, <4>2, <4>3 DEF ChannelInv
      <3>. QED BY <1>1, <2>2, <3>2, <3>3, Zenon DEF BeginRead
    <2>3. CASE ~(unread = 0 \/ moved)
      <3>1. held' = unread /\ unread' = 0 /\ UNCHANGED <<hostOp, out>> /\ hostOp = "idle"
        BY <1>1, <2>3, Zenon DEF BeginRead
      <3>2. ~Reading'
        BY <3>1, Zenon DEF Reading
      <3>3. HandoffNotLost'
        BY <2>1, <2>3, <3>1, Zenon DEF ChannelInv, HandoffNotLost
      <3>4. moved' \in BOOLEAN /\ ~moved'
        BY <2>1, Zenon
      <3>. QED BY <2>1, <3>1, <3>2, <3>3, <3>4 DEF ChannelInv
    <2>. QED BY <2>2, <2>3, Zenon
  <1>2. CASE Receive
    <2>1. /\ UNCHANGED <<pc, phaseCancelled, batch, moved>> /\ out # <<>>
          /\ hostOp \in {"message", "event"} /\ Received(hostOp, held, unread)
      BY <1>2, Zenon DEF Receive, phaseVars
    <2>2. /\ held = 0 /\ unread = 0 /\ moved \in BOOLEAN /\ out \in Seq(Nat)
          /\ moved /\ pc = "bridge" /\ ~phaseCancelled => out[1] # batch
          /\ pc = "bridge" => batch # 0
      BY <2>1, Zenon DEF ChannelInv, Reading
    <2>3. pc = "bridge" /\ ~phaseCancelled => batch \in Members(out)
      BY <2>2, Zenon DEF ChannelInv, HandoffNotLost
    <2>4. Head(out) = out[1]
      BY <2>1, <2>2
    <2>5. Received(hostOp, 0, 0)
      BY <2>1, <2>2, Zenon
    <2>. QED BY <2>1, <2>2, <2>3, <2>4, <2>5, ReceivedChannel, Zenon
  <1>3. CASE Submit \/ GiveUp
    <2>1. UNCHANGED <<pc, phaseCancelled, batch, moved, held, unread, out>> /\ ~Reading'
      BY <1>3, Zenon DEF Submit, GiveUp, phaseVars, Reading
    <2>2. HandoffNotLost'
      BY <2>1, Zenon DEF ChannelInv, HandoffNotLost
    <2>. QED BY <2>1, <2>2, Zenon DEF ChannelInv
  <1>. QED BY <1>1, <1>2, <1>3, Zenon DEF HostStep

LEMMA ChannelStep ==
    ASSUME ChannelInv, [Next]_vars
    PROVE  ChannelInv'
  <1>1. CASE ModelStep
    BY <1>1, QuietChannel, Zenon DEF ModelStep, hostVars, Quiet
  <1>2. CASE UNCHANGED vars
    BY <1>2, QuietChannel, Zenon DEF vars, hostVars, phaseVars, Quiet
  <1>3. CASE BridgeCancelled \/ Settle
    BY <1>3, QuietChannel, Zenon DEF BridgeCancelled, ToSettle, Settle, hostVars, Quiet
  <1>. QED BY <1>1, <1>2, <1>3, StepEndsChannel, ToolDoneChannel, SettleEndsChannel,
              BoundaryChannel, BridgeResultChannel, UserChannel, HostChannel, Zenon
           DEF Next, ProducerStep

-----------------------------------------------------------------------------
(***************************************************************************)
(* The result channel.                                                     *)
(***************************************************************************)

Commands == [batch : Nat, live : BOOLEAN]

RecordsNow == pending' = Tail(pending)
SettlesNext == pc' = "settling" /\ pending' = pending

LEMMA NoneLive ==
    ASSUME AnswerInv, hostOp # "submitting"
    PROVE  \A n \in 1..Len(results) : ~results[n].live
  BY Zenon DEF AnswerInv

LEMMA BridgeResultAnswers ==
    ASSUME ChannelInv, AnswerInv, BridgeResult
    PROVE  /\ AnswerInv'
           /\ held # 0 /\ held' = 0 =>
                pc = "bridge" /\ batch = held /\ (RecordsNow \/ SettlesNext)
  <1>. DEFINE t == Tail(results)
             command == Head(results)
  <1>1. /\ results \in Seq(Commands) /\ results # <<>> /\ results' = t
        /\ pc = "bridge"
    BY Zenon DEF AnswerInv, BridgeResult, Commands
  <1>2. /\ t \in Seq(Commands) /\ Len(results) \in Nat /\ Len(results) >= 1
        /\ Len(t) = Len(results) - 1
        /\ \A n \in 1..Len(t) : t[n] = results[n + 1]
        /\ command = results[1] /\ command \in Commands
    BY <1>1
  <1>3. /\ \A n \in 1..Len(results) :
             results[n].live => hostOp = "submitting" /\ results[n].batch = held
        /\ \A m, n \in 1..Len(results) : results[m].live /\ results[n].live => m = n
    BY Zenon DEF AnswerInv
  <1>4. /\ ~command.live => hostOp' = hostOp /\ held' = held
        /\ held' = held \/ (/\ held' = 0 /\ command.live /\ Matches(command.batch)
                            /\ RecordsNow \/ SettlesNext)
    BY Zenon DEF BridgeResult, Answer, ToSettle, RecordsNow, SettlesNext
  <1>. HIDE DEF t, command
  <1>5. 1 \in 1..Len(results)
    BY <1>2
  <1>6. \A n \in 1..Len(t) : n + 1 \in 1..Len(results) /\ n + 1 # 1
    BY <1>2
  <1>7. command.live => \A n \in 1..Len(t) : ~t[n].live
    BY <1>2, <1>3, <1>5, <1>6, Zenon
  <1>8. \A n \in 1..Len(t) : t[n].live => hostOp' = "submitting" /\ t[n].batch = held'
    BY <1>2, <1>3, <1>4, <1>6, <1>7, Zenon
  <1>9. \A m, n \in 1..Len(t) : t[m].live /\ t[n].live => m = n
    <2>. SUFFICES ASSUME NEW m \in 1..Len(t), NEW n \in 1..Len(t), t[m].live, t[n].live
                  PROVE  m = n
      BY Zenon
    <2>1. m + 1 = n + 1
      BY <1>2, <1>3, <1>6, Zenon
    <2>. QED BY <1>2, <2>1
  <1>10. AnswerInv'
    BY <1>1, <1>2, <1>8, <1>9, Zenon DEF AnswerInv, Commands
  <1>11. command.live => command.batch = held
    BY <1>2, <1>3, <1>5, Zenon
  <1>. QED BY <1>1, <1>4, <1>10, <1>11, Zenon DEF Matches

LEMMA SubmitAnswers ==
    ASSUME ChannelInv, AnswerInv, Submit
    PROVE  AnswerInv'
  <1>. DEFINE c == [batch |-> held, live |-> TRUE]
             r == Append(results, c)
  <1>1. held \in Nat /\ results \in Seq(Commands)
    BY Zenon DEF ChannelInv, AnswerInv, Commands
  <1>2. c \in Commands /\ c.live /\ c.batch = held
    BY <1>1, Zenon DEF Commands
  <1>3. results' = r /\ hostOp' = "submitting" /\ held' = held /\ hostOp = "idle"
    BY Zenon DEF Submit
  <1>. HIDE DEF c
  <1>4. /\ r \in Seq(Commands) /\ Len(results) \in Nat /\ Len(r) = Len(results) + 1
        /\ \A n \in 1..Len(results) : r[n] = results[n]
        /\ r[Len(results) + 1] = c
    BY <1>1, <1>2
  <1>. HIDE DEF r
  <1>5. \A n \in 1..Len(results) : ~r[n].live
    BY <1>3, <1>4, NoneLive, Zenon
  <1>6. \A n \in 1..Len(r) : r[n].live => n = Len(results) + 1
    BY <1>4, <1>5
  <1>. QED BY <1>2, <1>3, <1>4, <1>6, Zenon DEF AnswerInv, Commands

LEMMA GiveUpAnswers ==
    ASSUME AnswerInv, GiveUp
    PROVE  AnswerInv'
  <1>. DEFINE r == [n \in DOMAIN results |-> [results[n] EXCEPT !.live = FALSE]]
  <1>1. results \in Seq(Commands)
    BY Zenon DEF AnswerInv, Commands
  <1>2. \A n \in DOMAIN results : [results[n] EXCEPT !.live = FALSE] \in Commands
                                  /\ ~[results[n] EXCEPT !.live = FALSE].live
    <2>1. ASSUME NEW c \in Commands
          PROVE  [c EXCEPT !.live = FALSE] \in Commands /\ ~[c EXCEPT !.live = FALSE].live
      BY Zenon DEF Commands
    <2>2. \A n \in DOMAIN results : results[n] \in Commands
      BY <1>1
    <2>. QED BY <2>1, <2>2, Zenon
  <1>3. r \in Seq(Commands) /\ Len(r) = Len(results) /\ \A n \in 1..Len(r) : ~r[n].live
    BY <1>1, <1>2
  <1>4. results' = r
    BY Zenon DEF GiveUp
  <1>. HIDE DEF r
  <1>. QED BY <1>3, <1>4, Zenon DEF AnswerInv, Commands

\* Every other step leaves the answers alone, or finds no submission awaited.
LEMMA OtherAnswers ==
    ASSUME AnswerInv, UNCHANGED results,
           UNCHANGED <<held, hostOp>> \/ hostOp # "submitting"
    PROVE  AnswerInv'
  <1>1. CASE UNCHANGED <<held, hostOp>>
    BY <1>1, Zenon DEF AnswerInv
  <1>2. CASE hostOp # "submitting"
    <2>1. \A n \in 1..Len(results) : ~results[n].live
      BY <1>2, NoneLive, Zenon
    <2>2. results \in Seq([batch : Nat, live : BOOLEAN])
      BY Zenon DEF AnswerInv
    <2>. QED BY <2>1, <2>2, Zenon DEF AnswerInv
  <1>. QED BY <1>1, <1>2, Zenon

LEMMA AnswerStep ==
    ASSUME ChannelInv, AnswerInv, [Next]_vars
    PROVE  /\ AnswerInv'
           /\ hostOp = "submitting" /\ held # 0 /\ held' = 0 =>
                pc = "bridge" /\ batch = held /\ (RecordsNow \/ SettlesNext)
  <1>1. CASE ProducerStep
    <2>1. UNCHANGED <<held, hostOp, results>>
      BY <1>1, Zenon DEF ProducerStep, ModelStep, StepEnds, ToolDone, BridgeCancelled, Settle,
                         SettleEnds, Boundary, hostVars
    <2>. QED BY <2>1, OtherAnswers, Zenon
  <1>2. CASE UserStep
    <2>1. UNCHANGED <<held, hostOp, results>>
      BY <1>2, Zenon DEF UserStep, SubmitNext, Enqueue, Remove, ReplacePendingOrder, ResumeSuspended,
                  DiscardSuspended, Interrupt, Close, RequestCancel, ApprovePlan, PlanEvent,
                  SubagentCompletes, NoticeWakes, hostVars
    <2>. QED BY <2>1, OtherAnswers
  <1>3. CASE BridgeResult
    BY <1>3, BridgeResultAnswers, Zenon
  <1>4. CASE Receive \/ \E op \in {"message", "event"} : BeginRead(op)
    BY <1>4, OtherAnswers, Zenon DEF Receive, BeginRead
  <1>5. CASE Submit
    BY <1>5, SubmitAnswers, Zenon DEF Submit
  <1>6. CASE GiveUp
    BY <1>6, GiveUpAnswers, Zenon DEF GiveUp
  <1>7. CASE UNCHANGED vars
    BY <1>7, OtherAnswers, Zenon DEF vars, hostVars
  <1>. QED BY <1>1, <1>2, <1>3, <1>4, <1>5, <1>6, <1>7, Zenon DEF Next, HostStep

LEMMA ChannelInit ==
    ASSUME Init
    PROVE  ChannelInv /\ AnswerInv
  <1>1. out = <<0>> /\ batch = 0 /\ held = 0 /\ unread = 0 /\ hostOp = "idle"
    BY Zenon DEF Init, Event
  <1>2. moved \in BOOLEAN /\ pc # "bridge"
    BY Zenon DEF Init
  <1>3. ~Reading /\ HandoffNotLost
    BY <1>1, <1>2, Zenon DEF Reading, HandoffNotLost
  <1>4. ChannelInv
    BY <1>1, <1>2, <1>3 DEF ChannelInv
  <1>5. AnswerInv
    BY DEF Init, AnswerInv
  <1>. QED BY <1>4, <1>5, Zenon

\* The batch the producer waits for is on its way to the host, or held by it and
\* safe from its next read, for any number of batches, interruptions and
\* abandoned calls.
THEOREM HandoffIsNeverLost == Spec => []HandoffNotLost
  <1>1. Init => ChannelInv
    BY ChannelInit, Zenon
  <1>2. ChannelInv /\ [Next]_vars => ChannelInv'
    BY ChannelStep, Zenon
  <1>3. ChannelInv => HandoffNotLost
    BY Zenon DEF ChannelInv
  <1>. QED BY <1>1, <1>2, <1>3, PTL DEF Spec

\* The host lets a submitted batch go only on an answer of the producer that
\* waits for this very batch, which records the results in the same step or has
\* the settlement of the calls as its next step.
THEOREM OkIsForThisBatch == Spec => OkMeansRecorded
  <1>1. Init => ChannelInv /\ AnswerInv
    BY ChannelInit, Zenon
  <1>2. ChannelInv /\ AnswerInv /\ [Next]_vars => (ChannelInv /\ AnswerInv)'
    BY ChannelStep, AnswerStep, Zenon
  <1>3. ChannelInv /\ AnswerInv /\ [Next]_vars =>
          [hostOp = "submitting" /\ held # 0 /\ held' = 0 =>
             /\ pc = "bridge" /\ batch = held
             /\ pending' = Tail(pending) \/ (pc' = "settling" /\ pending' = pending)]_vars
    BY AnswerStep, Zenon DEF RecordsNow, SettlesNext
  <1>. QED BY <1>1, <1>2, <1>3, PTL DEF Spec, OkMeansRecorded

-----------------------------------------------------------------------------
(***************************************************************************)
(* The lanes of the input queue, as sequences without repetition.          *)
(***************************************************************************)

Distinct(s) == \A m, n \in DOMAIN s : s[m] = s[n] => m = n

LEMMA EmptyLane ==
    ASSUME NEW S
    PROVE  <<>> \in Seq(S) /\ Distinct(<<>>) /\ Members(<<>>) = {}
  BY DEF Distinct, Members

LEMMA AppendLane ==
    ASSUME NEW S, NEW s \in Seq(S), NEW e \in S, Distinct(s), e \notin Members(s)
    PROVE  /\ Append(s, e) \in Seq(S) /\ Distinct(Append(s, e))
           /\ Members(Append(s, e)) = Members(s) \cup {e}
  <1>. DEFINE t == Append(s, e)
  <1>1. /\ t \in Seq(S) /\ Len(s) \in Nat
        /\ DOMAIN s = 1..Len(s) /\ DOMAIN t = 1..(Len(s) + 1)
        /\ \A n \in 1..Len(s) : t[n] = s[n]
        /\ t[Len(s) + 1] = e
    OBVIOUS
  <1>. HIDE DEF t
  <1>2. \A n \in 1..(Len(s) + 1) : n \in 1..Len(s) \/ n = Len(s) + 1
    BY <1>1
  <1>3. \A n \in 1..Len(s) : n \in 1..(Len(s) + 1)
    BY <1>1
  <1>4. Len(s) + 1 \in 1..(Len(s) + 1)
    BY <1>1
  <1>5. \A n \in 1..Len(s) : s[n] # e
    BY <1>1, Zenon DEF Members
  <1>6. Distinct(t)
    BY <1>1, <1>2, <1>5, Zenon DEF Distinct
  <1>7. Members(t) = Members(s) \cup {e}
    BY <1>1, <1>2, <1>3, <1>4, Zenon DEF Members
  <1>. QED BY <1>1, <1>6, <1>7, Zenon DEF t

LEMMA TailLane ==
    ASSUME NEW S, NEW s \in Seq(S), s # <<>>, Distinct(s)
    PROVE  /\ Tail(s) \in Seq(S) /\ Distinct(Tail(s)) /\ Head(s) \in Members(s)
           /\ Members(Tail(s)) = Members(s) \ {Head(s)}
  <1>. DEFINE t == Tail(s)
  <1>1. /\ t \in Seq(S) /\ Len(s) \in Nat /\ Len(s) >= 1
        /\ DOMAIN s = 1..Len(s) /\ DOMAIN t = 1..(Len(s) - 1)
        /\ \A n \in 1..(Len(s) - 1) : t[n] = s[n + 1]
        /\ Head(s) = s[1]
    OBVIOUS
  <1>. HIDE DEF t
  <1>2. ASSUME NEW n \in 1..(Len(s) - 1) PROVE n + 1 \in 1..Len(s) /\ n + 1 # 1 /\ n \in Int
    BY <1>1
  <1>3. ASSUME NEW n \in 1..Len(s), n # 1 PROVE n - 1 \in 1..(Len(s) - 1) /\ (n - 1) + 1 = n
    BY <1>1, <1>3
  <1>4. 1 \in 1..Len(s)
    BY <1>1
  <1>5. Distinct(t)
    <2>. SUFFICES ASSUME NEW m \in 1..(Len(s) - 1), NEW n \in 1..(Len(s) - 1), t[m] = t[n]
                  PROVE  m = n
      BY <1>1, Zenon DEF Distinct
    <2>1. m + 1 = n + 1
      BY <1>1, <1>2 DEF Distinct
    <2>. QED BY <1>2, <2>1
  <1>6. ASSUME NEW x \in Members(t) PROVE x \in Members(s) \ {Head(s)}
    <2>1. PICK n \in 1..(Len(s) - 1) : x = s[n + 1]
      BY <1>1, <1>6, Zenon DEF Members
    <2>. QED BY <1>1, <1>2, <1>4, <2>1, Zenon DEF Members, Distinct
  <1>7. ASSUME NEW x \in Members(s), x # Head(s) PROVE x \in Members(t)
    <2>1. PICK n \in 1..Len(s) : x = s[n]
      BY <1>1, <1>7, Zenon DEF Members
    <2>2. n - 1 \in DOMAIN t /\ t[n - 1] = x
      BY <1>1, <1>3, <1>7, <2>1, Zenon
    <2>. QED BY <2>2, Zenon DEF Members
  <1>8. Head(s) \in Members(s)
    BY <1>1, <1>4, Zenon DEF Members
  <1>. QED BY <1>1, <1>5, <1>6, <1>7, <1>8, Zenon DEF t

LEMMA ConcatLane ==
    ASSUME NEW S, NEW s \in Seq(S), NEW u \in Seq(S), Distinct(s), Distinct(u),
           Members(s) \cap Members(u) = {}
    PROVE  /\ s \o u \in Seq(S) /\ Distinct(s \o u)
           /\ Members(s \o u) = Members(s) \cup Members(u)
  <1>. DEFINE t == s \o u
  <1>1. /\ t \in Seq(S) /\ Len(s) \in Nat /\ Len(u) \in Nat
        /\ DOMAIN s = 1..Len(s) /\ DOMAIN u = 1..Len(u) /\ DOMAIN t = 1..(Len(s) + Len(u))
        /\ \A n \in 1..Len(s) : t[n] = s[n]
        /\ \A n \in 1..(Len(s) + Len(u)) : n > Len(s) => t[n] = u[n - Len(s)]
    OBVIOUS
  <1>. HIDE DEF t
  <1>2. ASSUME NEW n \in DOMAIN t, n \notin DOMAIN s
        PROVE  n - Len(s) \in DOMAIN u /\ t[n] = u[n - Len(s)] /\ n \in Int
    BY <1>1, <1>2
  <1>3. ASSUME NEW n \in DOMAIN s PROVE n \in DOMAIN t /\ t[n] = s[n]
    BY <1>1
  <1>4. ASSUME NEW n \in DOMAIN u PROVE n + Len(s) \in DOMAIN t /\ t[n + Len(s)] = u[n]
    BY <1>1
  <1>5. \A m \in DOMAIN s, n \in DOMAIN u : s[m] # u[n]
    BY Zenon DEF Members
  <1>6. ASSUME NEW m \in DOMAIN t, NEW n \in DOMAIN t, t[m] = t[n] PROVE m = n
    <2>1. CASE m \in DOMAIN s /\ n \in DOMAIN s
      BY <1>3, <1>6, <2>1, Zenon DEF Distinct
    <2>2. CASE m \notin DOMAIN s /\ n \notin DOMAIN s
      <3>1. m - Len(s) = n - Len(s)
        BY <1>2, <1>6, <2>2, Zenon DEF Distinct
      <3>. QED BY <1>1, <1>2, <2>2, <3>1
    <2>3. CASE (m \in DOMAIN s /\ n \notin DOMAIN s) \/ (m \notin DOMAIN s /\ n \in DOMAIN s)
      BY <1>2, <1>3, <1>5, <1>6, <2>3, Zenon
    <2>. QED BY <2>1, <2>2, <2>3, Zenon
  <1>7. Members(t) \subseteq Members(s) \cup Members(u)
    BY <1>2, <1>3, Zenon DEF Members
  <1>8. Members(s) \cup Members(u) \subseteq Members(t)
    BY <1>3, <1>4, Zenon DEF Members
  <1>9. Distinct(t)
    BY <1>6, Zenon DEF Distinct
  <1>. QED BY <1>1, <1>7, <1>8, <1>9, Zenon DEF t

LEMMA RemoveLane ==
    ASSUME NEW S, NEW s \in Seq(S), NEW i \in Members(s), Distinct(s)
    PROVE  /\ remove_id(s, i) \in Seq(S) /\ Distinct(remove_id(s, i))
           /\ Members(remove_id(s, i)) = Members(s) \ {i}
  <1>. DEFINE index == CHOOSE n \in DOMAIN s :
                          s[n] = i /\ \A m \in DOMAIN s : s[m] = i => n <= m
             r == [k \in 1 .. Len(s) - 1 |-> IF k < index THEN s[k] ELSE s[k + 1]]
  <1>1. Len(s) \in Nat /\ DOMAIN s = 1..Len(s) /\ \A n \in DOMAIN s : s[n] \in S /\ n \in Int
    OBVIOUS
  <1>2. index \in DOMAIN s /\ s[index] = i
    <2>1. PICK k \in DOMAIN s : s[k] = i
      BY Zenon DEF Members
    <2>2. \A m \in DOMAIN s : s[m] = i => k <= m
      BY <1>1, <2>1 DEF Distinct
    <2>. QED BY <2>1, <2>2, Zenon
  <1>3. remove_id(s, i) = r
    BY Zenon DEF remove_id
  <1>. HIDE DEF index
  <1>4. ASSUME NEW k \in 1..(Len(s) - 1)
        PROVE  /\ k \in DOMAIN s /\ k + 1 \in DOMAIN s /\ k \in Int
               /\ k < index => r[k] = s[k]
               /\ ~(k < index) => r[k] = s[k + 1]
               /\ r[k] \in S
    BY <1>1, <1>2
  <1>5. r \in Seq(S) /\ DOMAIN r = 1..(Len(s) - 1)
    BY <1>1, <1>4
  <1>. HIDE DEF r
  <1>6. index \in Int /\ index >= 1 /\ index <= Len(s)
    BY <1>1, <1>2
  <1>7. ASSUME NEW m \in DOMAIN r, NEW n \in DOMAIN r, r[m] = r[n] PROVE m = n
    <2>1. /\ m \in DOMAIN s /\ m + 1 \in DOMAIN s /\ n \in DOMAIN s /\ n + 1 \in DOMAIN s
          /\ m \in Int /\ n \in Int
      BY <1>4, <1>5, Zenon
    <2>2. CASE m < index /\ n < index
      BY <1>4, <1>5, <1>7, <2>1, <2>2, Zenon DEF Distinct
    <2>3. CASE ~(m < index) /\ ~(n < index)
      <3>1. m + 1 = n + 1
        BY <1>4, <1>5, <1>7, <2>1, <2>3, Zenon DEF Distinct
      <3>. QED BY <2>1, <3>1
    <2>4. CASE m < index /\ ~(n < index)
      <3>1. m = n + 1
        BY <1>4, <1>5, <1>7, <2>1, <2>4, Zenon DEF Distinct
      <3>. QED BY <1>6, <2>1, <2>4, <3>1
    <2>5. CASE ~(m < index) /\ n < index
      <3>1. m + 1 = n
        BY <1>4, <1>5, <1>7, <2>1, <2>5, Zenon DEF Distinct
      <3>. QED BY <1>6, <2>1, <2>5, <3>1
    <2>. QED BY <2>2, <2>3, <2>4, <2>5, Zenon
  <1>8. ASSUME NEW x \in Members(r) PROVE x \in Members(s) \ {i}
    <2>1. PICK k \in DOMAIN r : x = r[k]
      BY Zenon DEF Members
    <2>2. k \in DOMAIN s /\ k + 1 \in DOMAIN s /\ k \in Int
      BY <1>4, <1>5, Zenon
    <2>3. CASE k < index
      <3>1. x = s[k] /\ k # index
        BY <1>4, <1>5, <1>6, <2>1, <2>2, <2>3
      <3>. QED BY <1>2, <2>2, <3>1, Zenon DEF Members, Distinct
    <2>4. CASE ~(k < index)
      <3>1. x = s[k + 1] /\ k + 1 # index
        BY <1>4, <1>5, <1>6, <2>1, <2>2, <2>4
      <3>. QED BY <1>2, <2>2, <3>1, Zenon DEF Members, Distinct
    <2>. QED BY <2>3, <2>4, Zenon
  <1>9. ASSUME NEW x \in Members(s), x # i PROVE x \in Members(r)
    <2>1. PICK k \in DOMAIN s : x = s[k]
      BY Zenon DEF Members
    <2>2. k # index /\ k \in Int /\ k >= 1 /\ k <= Len(s)
      BY <1>1, <1>2, <1>9, <2>1
    <2>3. CASE k < index
      <3>1. k \in 1..(Len(s) - 1)
        BY <1>1, <1>6, <2>2, <2>3
      <3>2. k \in DOMAIN r /\ r[k] = x
        BY <1>4, <1>5, <2>1, <2>3, <3>1, Zenon
      <3>. QED BY <3>2, Zenon DEF Members
    <2>4. CASE ~(k < index)
      <3>1. k - 1 \in 1..(Len(s) - 1) /\ ~(k - 1 < index) /\ (k - 1) + 1 = k
        BY <1>1, <1>6, <2>2, <2>4
      <3>2. k - 1 \in DOMAIN r /\ r[k - 1] = x
        BY <1>4, <1>5, <2>1, <3>1, Zenon
      <3>. QED BY <3>2, Zenon DEF Members
    <2>. QED BY <2>3, <2>4, Zenon
  <1>10. Distinct(r)
    BY <1>7, Zenon DEF Distinct
  <1>. QED BY <1>3, <1>5, <1>8, <1>9, <1>10, Zenon

LEMMA SwapLane ==
    ASSUME NEW S, NEW s \in Seq(S), Distinct(s), NEW m \in DOMAIN s, NEW n \in DOMAIN s, m # n
    PROVE  LET o == [s EXCEPT ![m] = s[n], ![n] = s[m]] IN o \in Seq(S) /\ Distinct(o)
  <1>. DEFINE o == [s EXCEPT ![m] = s[n], ![n] = s[m]]
  <1>1. Len(s) \in Nat /\ DOMAIN s = 1..Len(s) /\ \A k \in DOMAIN s : s[k] \in S
    OBVIOUS
  <1>2. /\ DOMAIN o = DOMAIN s /\ o = [k \in DOMAIN s |-> o[k]]
        /\ o[m] = s[n] /\ o[n] = s[m]
        /\ \A k \in DOMAIN s : k # m /\ k # n => o[k] = s[k]
    BY Zenon
  <1>. HIDE DEF o
  <1>3. \A k \in DOMAIN s : o[k] \in S
    BY <1>1, <1>2, Zenon
  <1>4. o \in Seq(S)
    BY <1>1, <1>2, <1>3
  <1>5. Distinct(o)
    BY <1>2 DEF Distinct
  <1>. QED BY <1>4, <1>5, Zenon DEF o

-----------------------------------------------------------------------------
(***************************************************************************)
(* The input queue.                                                        *)
(***************************************************************************)

Items == [state : {"New", "Pending", "Accepted", "Removed"}, lane : Lanes]
Stands(it, l) == it.state = "Pending" /\ it.lane = l

\* The lanes hold every waiting input once, where its item says, and no other.
Agree(ls, its) ==
    /\ ls \in [Lanes -> Seq(Inputs)] /\ its \in [Inputs -> Items]
    /\ \A l \in Lanes : Distinct(ls[l])
    /\ \A l \in Lanes, i \in Inputs : i \in Members(ls[l]) <=> Stands(its[i], l)

LEMMA MembersAreInputs ==
    ASSUME NEW ls, NEW its, Agree(ls, its), NEW l \in Lanes
    PROVE  Members(ls[l]) \subseteq Inputs
  BY DEF Agree, Members

\* The inputs of ids left the lane, and nothing else changed.
Left(ls, its, lane, ids, ls2, its2) ==
    /\ lane \in Lanes /\ ids \subseteq Members(ls[lane])
    /\ ls2 \in [Lanes -> Seq(Inputs)] /\ Distinct(ls2[lane])
    /\ Members(ls2[lane]) = Members(ls[lane]) \ ids
    /\ \A l \in Lanes : l # lane => ls2[l] = ls[l]
    /\ its2 \in [Inputs -> Items]
    /\ \A i \in ids : its2[i].state # "Pending"
    /\ \A i \in Inputs : i \notin ids => its2[i] = its[i]

LEMMA LeaveAgrees ==
    ASSUME NEW ls, NEW its, NEW lane, NEW ids, NEW ls2, NEW its2,
           Agree(ls, its), Left(ls, its, lane, ids, ls2, its2)
    PROVE  Agree(ls2, its2)
  <1>1. /\ lane \in Lanes /\ ids \subseteq Members(ls[lane])
        /\ ls2 \in [Lanes -> Seq(Inputs)] /\ Distinct(ls2[lane])
        /\ Members(ls2[lane]) = Members(ls[lane]) \ ids
        /\ \A l \in Lanes : l # lane => ls2[l] = ls[l]
        /\ its2 \in [Inputs -> Items]
        /\ \A i \in ids : its2[i].state # "Pending"
        /\ \A i \in Inputs : i \notin ids => its2[i] = its[i]
    BY Zenon DEF Left
  <1>2. \A l \in Lanes : Distinct(ls2[l])
    BY <1>1, Zenon DEF Agree
  <1>3. ASSUME NEW l \in Lanes, NEW i \in Inputs
        PROVE  i \in Members(ls2[l]) <=> Stands(its2[i], l)
    <2>1. i \in Members(ls[l]) <=> Stands(its[i], l)
      BY Zenon DEF Agree
    <2>2. CASE l = lane
      <3>1. i \in Members(ls2[l]) <=> i \in Members(ls[l]) /\ i \notin ids
        BY <1>1, <2>2, Zenon
      <3>. QED BY <1>1, <2>1, <3>1, Zenon DEF Stands
    <2>3. CASE l # lane
      <3>1. ls2[l] = ls[l]
        BY <1>1, <2>3, Zenon
      <3>2. i \in ids => its[i].lane = lane
        BY <1>1, Zenon DEF Agree, Stands
      <3>. QED BY <1>1, <2>1, <2>3, <3>1, <3>2, Zenon DEF Stands
    <2>. QED BY <2>2, <2>3, Zenon
  <1>. QED BY <1>1, <1>2, <1>3, Zenon DEF Agree

\* The inputs of ids are taken from the lane, and rest is what stays in it.
Takes(ls, its, lane, rest, ids) ==
    /\ Agree(ls, its) /\ lane \in Lanes
    /\ rest \in Seq(Inputs) /\ Distinct(rest)
    /\ ids \in SUBSET Inputs /\ Members(rest) = Members(ls[lane]) \ ids
    /\ ids \subseteq Members(ls[lane]) /\ Take(ls, its, lane, rest, ids)

LEMMA TakeAgrees ==
    ASSUME NEW ls, NEW its, NEW lane, NEW rest, NEW ids, Takes(ls, its, lane, rest, ids)
    PROVE  /\ Agree(lanes', item')
           /\ \A i \in Inputs : i \notin ids => item'[i] = its[i]
  <1>0. /\ Agree(ls, its) /\ lane \in Lanes
        /\ rest \in Seq(Inputs) /\ Distinct(rest)
        /\ ids \in SUBSET Inputs /\ Members(rest) = Members(ls[lane]) \ ids
        /\ ids \subseteq Members(ls[lane]) /\ Take(ls, its, lane, rest, ids)
    BY Zenon DEF Takes
  <1>. DEFINE ls2 == [ls EXCEPT ![lane] = rest]
             its2 == [i \in Inputs |->
                       IF i \in ids THEN [state |-> "Accepted", lane |-> "Next"] ELSE its[i]]
  <1>1. lanes' = ls2 /\ item' = its2
    BY <1>0, Zenon DEF Take
  <1>2. its2 \in [Inputs -> Items]
    BY <1>0, Zenon DEF Agree, Items, Lanes
  <1>3. /\ \A i \in ids : its2[i].state # "Pending"
        /\ \A i \in Inputs : i \notin ids => its2[i] = its[i]
    BY <1>0, Zenon
  <1>4. /\ ls2 \in [Lanes -> Seq(Inputs)] /\ ls2[lane] = rest
        /\ \A l \in Lanes : l # lane => ls2[l] = ls[l]
    BY <1>0, Zenon DEF Agree
  <1>. HIDE DEF ls2, its2
  <1>5. Left(ls, its, lane, ids, ls2, its2)
    BY <1>0, <1>2, <1>3, <1>4, Zenon DEF Left
  <1>6. Agree(ls2, its2)
    BY <1>0, <1>5, LeaveAgrees, Zenon
  <1>. QED BY <1>1, <1>3, <1>6, Zenon

LEMMA BurstAgrees ==
    ASSUME NEW ls, NEW its, Agree(ls, its), NEW lane \in Lanes, AcceptBurst(ls, its, lane)
    PROVE  /\ Agree(lanes', item')
           /\ \A i \in Inputs : i \notin Members(ls[lane]) => item'[i] = its[i]
  <1>1. Members(ls[lane]) \subseteq Inputs
    BY MembersAreInputs, Zenon
  <1>2. <<>> \in Seq(Inputs) /\ Distinct(<<>>) /\ Members(<<>>) = {}
    BY EmptyLane, Zenon
  <1>. DEFINE rest == <<>>
             ids == Members(ls[lane])
  <1>3. rest \in Seq(Inputs) /\ Distinct(rest) /\ Members(rest) = Members(ls[lane]) \ ids
    BY <1>2, Zenon
  <1>4. ids \in SUBSET Inputs /\ ids \subseteq Members(ls[lane]) /\ Take(ls, its, lane, rest, ids)
    BY <1>1, Zenon DEF AcceptBurst
  <1>. HIDE DEF rest, ids
  <1>5. Agree(lanes', item') /\ \A i \in Inputs : i \notin ids => item'[i] = its[i]
    <2>1. Takes(ls, its, lane, rest, ids)
      BY <1>3, <1>4, Zenon DEF Takes
    <2>. QED BY <2>1, TakeAgrees, Zenon
  <1>. QED BY <1>5, Zenon DEF ids

LEMMA OneAgrees ==
    ASSUME NEW ls, NEW its, Agree(ls, its), ls.Backlog # <<>>, AcceptOne(ls, its)
    PROVE  /\ Agree(lanes', item')
           /\ \A i \in Inputs : i \notin Members(ls.Backlog) => item'[i] = its[i]
  <1>1. "Backlog" \in Lanes /\ ls.Backlog = ls["Backlog"]
    BY Zenon DEF Lanes
  <1>2. ls.Backlog \in Seq(Inputs) /\ Distinct(ls.Backlog)
    BY <1>1, Zenon DEF Agree
  <1>3. /\ Tail(ls.Backlog) \in Seq(Inputs) /\ Distinct(Tail(ls.Backlog))
        /\ Head(ls.Backlog) \in Members(ls.Backlog)
        /\ Members(Tail(ls.Backlog)) = Members(ls.Backlog) \ {Head(ls.Backlog)}
    BY <1>2, TailLane, Zenon
  <1>4. {Head(ls.Backlog)} \subseteq Members(ls.Backlog) /\ {Head(ls.Backlog)} \in SUBSET Inputs
    BY <1>1, <1>3, MembersAreInputs, Zenon
  <1>. DEFINE rest == Tail(ls.Backlog)
             ids == {Head(ls.Backlog)}
             lane == "Backlog"
  <1>5. /\ rest \in Seq(Inputs) /\ Distinct(rest) /\ Members(rest) = Members(ls[lane]) \ ids
        /\ lane \in Lanes
    BY <1>1, <1>3, Zenon
  <1>6. ids \in SUBSET Inputs /\ ids \subseteq Members(ls[lane]) /\ Take(ls, its, lane, rest, ids)
    BY <1>1, <1>4, Zenon DEF AcceptOne
  <1>7. ids \subseteq Members(ls.Backlog)
    BY <1>4, Zenon
  <1>. HIDE DEF rest, ids, lane
  <1>8. Agree(lanes', item') /\ \A i \in Inputs : i \notin ids => item'[i] = its[i]
    <2>1. Takes(ls, its, lane, rest, ids)
      BY <1>5, <1>6, Zenon DEF Takes
    <2>. QED BY <2>1, TakeAgrees, Zenon
  <1>. QED BY <1>7, <1>8, Zenon

LEMMA PushAgrees ==
    ASSUME Agree(lanes, item), NEW lane \in Lanes, NEW i \in Inputs, item[i].state = "New"
    PROVE  /\ Agree(PushedLanes(lane, i), PushedItem(lane, i))
           /\ PushedLanes(lane, i)[lane] # <<>>
           /\ \A j \in Inputs : j # i => PushedItem(lane, i)[j] = item[j]
           /\ PushedItem(lane, i)[i] = [state |-> "Pending", lane |-> lane]
           /\ \A l \in Lanes : l # lane => PushedLanes(lane, i)[l] = lanes[l]
  <1>. DEFINE ls2 == PushedLanes(lane, i)
             its2 == PushedItem(lane, i)
             s == lanes[lane]
             t == Append(s, i)
  <1>1. s \in Seq(Inputs) /\ Distinct(s) /\ i \notin Members(s)
    BY Zenon DEF Agree, Stands
  <1>2. t \in Seq(Inputs) /\ Distinct(t) /\ Members(t) = Members(s) \cup {i} /\ t # <<>>
    BY <1>1, AppendLane
  <1>3. ls2 = [lanes EXCEPT ![lane] = t]
    BY Zenon DEF PushedLanes
  <1>. HIDE DEF s, t
  <1>4. /\ ls2 \in [Lanes -> Seq(Inputs)] /\ ls2[lane] = t
        /\ \A l \in Lanes : l # lane => ls2[l] = lanes[l]
    BY <1>2, <1>3, Zenon DEF Agree
  <1>5. /\ its2 \in [Inputs -> Items] /\ its2[i] = [state |-> "Pending", lane |-> lane]
        /\ \A j \in Inputs : j # i => its2[j] = item[j]
    BY Zenon DEF PushedItem, Agree, Items
  <1>. HIDE DEF ls2, its2
  <1>6. Stands(its2[i], lane) /\ \A l \in Lanes : l # lane => ~Stands(its2[i], l) /\ ~Stands(item[i], l)
    BY <1>5 DEF Stands
  <1>7. ASSUME NEW l \in Lanes, NEW j \in Inputs
        PROVE  j \in Members(ls2[l]) <=> Stands(its2[j], l)
    <2>1. j \in Members(lanes[l]) <=> Stands(item[j], l)
      BY Zenon DEF Agree
    <2>2. CASE l = lane
      <3>1. j \in Members(ls2[l]) <=> j \in Members(lanes[l]) \/ j = i
        BY <1>2, <1>4, <2>2, Zenon DEF s
      <3>. QED BY <1>5, <1>6, <2>1, <2>2, <3>1, Zenon
    <2>3. CASE l # lane
      BY <1>4, <1>5, <1>6, <2>1, <2>3, Zenon
    <2>. QED BY <2>2, <2>3, Zenon
  <1>8. \A l \in Lanes : Distinct(ls2[l])
    BY <1>2, <1>4, Zenon DEF Agree
  <1>9. Agree(ls2, its2)
    BY <1>4, <1>5, <1>7, <1>8, Zenon DEF Agree
  <1>. QED BY <1>2, <1>4, <1>5, <1>9, Zenon DEF ls2, its2

LEMMA RemoveAgrees ==
    ASSUME Agree(lanes, item), NEW i \in Inputs, RemoveItem(i)
    PROVE  /\ Agree(lanes', item')
           /\ \A l \in Lanes : lanes[l] = <<>> => lanes'[l] = <<>>
           /\ \A j \in Inputs : item'[j] = item[j] \/ item'[j].state = "Removed"
  <1>. DEFINE lane == item[i].lane
             s == lanes[lane]
             r == remove_id(s, i)
  <1>1. lane \in Lanes /\ s \in Seq(Inputs) /\ Distinct(s) /\ i \in Members(s)
    BY Zenon DEF Agree, Items, RemoveItem
  <1>2. r \in Seq(Inputs) /\ Distinct(r) /\ Members(r) = Members(s) \ {i}
    BY <1>1, RemoveLane, Zenon
  <1>3. lanes' = [lanes EXCEPT ![lane] = r]
    BY Zenon DEF RemoveItem
  <1>4. s # <<>>
    BY <1>1, EmptyLane, Zenon
  <1>. HIDE DEF r
  <1>5. /\ lanes' \in [Lanes -> Seq(Inputs)] /\ lanes'[lane] = r
        /\ \A l \in Lanes : l # lane => lanes'[l] = lanes[l]
    BY <1>1, <1>2, <1>3, Zenon DEF Agree
  <1>6. /\ item' \in [Inputs -> Items] /\ item'[i].state = "Removed"
        /\ \A j \in Inputs : j # i => item'[j] = item[j]
    BY Zenon DEF RemoveItem, Agree, Items, Lanes
  <1>7. Left(lanes, item, lane, {i}, lanes', item')
    BY <1>1, <1>2, <1>5, <1>6, Zenon DEF Left
  <1>8. Agree(lanes', item')
    BY <1>7, LeaveAgrees, Zenon
  <1>. QED BY <1>4, <1>5, <1>6, <1>8, Zenon

LEMMA ReplaceAgrees ==
    ASSUME Agree(lanes, item), NEW lane \in Lanes,
           NEW m \in DOMAIN lanes[lane], NEW n \in DOMAIN lanes[lane], m # n,
           ReplaceOrder(lane, [lanes[lane] EXCEPT ![m] = lanes[lane][n],
                                                  ![n] = lanes[lane][m]])
    PROVE  /\ Agree(lanes', item') /\ item' = item
           /\ \A l \in Lanes : lanes[l] = <<>> => lanes'[l] = <<>>
  <1>. DEFINE s == lanes[lane]
             o == [s EXCEPT ![m] = s[n], ![n] = s[m]]
  <1>1. s \in Seq(Inputs) /\ Distinct(s) /\ s # <<>>
    BY DEF Agree
  <1>2. o \in Seq(Inputs) /\ Distinct(o)
    BY <1>1, SwapLane, Zenon
  <1>3. lanes' = [lanes EXCEPT ![lane] = o] /\ item' = item /\ Members(o) = Members(s)
    BY Zenon DEF ReplaceOrder
  <1>. HIDE DEF o
  <1>4. /\ lanes' \in [Lanes -> Seq(Inputs)] /\ lanes'[lane] = o
        /\ \A l \in Lanes : l # lane => lanes'[l] = lanes[l]
    BY <1>2, <1>3, Zenon DEF Agree
  <1>5. \A l \in Lanes : Distinct(lanes'[l]) /\ Members(lanes'[l]) = Members(lanes[l])
    BY <1>2, <1>3, <1>4, Zenon DEF Agree
  <1>6. Agree(lanes', item')
    BY <1>3, <1>4, <1>5, Zenon DEF Agree
  <1>. QED BY <1>1, <1>3, <1>4, <1>6, Zenon

LEMMA SuspendAgrees ==
    ASSUME Agree(lanes, item), suspend_next
    PROVE  /\ Agree(lanes', item')
           /\ \A j \in Inputs : item'[j].state = item[j].state
  <1>. DEFINE a == lanes["Next"]
             b == lanes["Suspended"]
             t == b \o a
  <1>1. /\ a \in Seq(Inputs) /\ Distinct(a) /\ b \in Seq(Inputs) /\ Distinct(b)
        /\ {"Next", "Suspended"} \subseteq Lanes
    BY Zenon DEF Agree, Lanes
  <1>2. Members(a) \subseteq Inputs
    BY <1>1, MembersAreInputs, Zenon
  <1>3. Members(b) \cap Members(a) = {}
    BY <1>1, <1>2, Zenon DEF Agree, Stands
  <1>4. t \in Seq(Inputs) /\ Distinct(t) /\ Members(t) = Members(b) \cup Members(a)
    BY <1>1, <1>3, ConcatLane
  <1>5. lanes' = [lanes EXCEPT !["Next"] = <<>>, !["Suspended"] = t]
    BY Zenon DEF suspend_next
  <1>. HIDE DEF t
  <1>6. <<>> \in Seq(Inputs) /\ Distinct(<<>>) /\ Members(<<>>) = {}
    BY EmptyLane, Zenon
  <1>7. /\ lanes' \in [Lanes -> Seq(Inputs)] /\ lanes'["Next"] = <<>> /\ lanes'["Suspended"] = t
        /\ \A l \in Lanes : l \notin {"Next", "Suspended"} => lanes'[l] = lanes[l]
    BY <1>1, <1>4, <1>5, <1>6, Zenon DEF Agree
  <1>8. item' = [i \in Inputs |-> IF i \in Members(a) THEN [item[i] EXCEPT !.lane = "Suspended"]
                                  ELSE item[i]]
    BY Zenon DEF suspend_next
  <1>9. ASSUME NEW it \in Items
        PROVE  /\ [it EXCEPT !.lane = "Suspended"] \in Items
               /\ [it EXCEPT !.lane = "Suspended"].state = it.state
               /\ [it EXCEPT !.lane = "Suspended"].lane = "Suspended"
    BY Zenon DEF Items, Lanes
  <1>10. \A i \in Inputs : item[i] \in Items
    BY Zenon DEF Agree
  <1>11. /\ item' \in [Inputs -> Items]
         /\ \A i \in Inputs : item'[i].state = item[i].state
         /\ \A i \in Members(a) : item'[i].lane = "Suspended"
         /\ \A i \in Inputs : i \notin Members(a) => item'[i] = item[i]
    BY <1>2, <1>8, <1>9, <1>10, Zenon
  <1>12. \A l \in Lanes : Distinct(lanes'[l])
    BY <1>4, <1>6, <1>7, Zenon DEF Agree
  <1>13. ASSUME NEW l \in Lanes, NEW i \in Inputs
         PROVE  i \in Members(lanes'[l]) <=> Stands(item'[i], l)
    <2>1. \A k \in Lanes : i \in Members(lanes[k]) <=> Stands(item[i], k)
      BY Zenon DEF Agree
    <2>2. CASE l = "Next"
      BY <1>1, <1>6, <1>7, <1>11, <2>1, <2>2, Zenon DEF Stands
    <2>3. CASE l = "Suspended"
      <3>1. i \in Members(lanes'[l]) <=> i \in Members(b) \/ i \in Members(a)
        BY <1>4, <1>7, <2>3, Zenon
      <3>. QED BY <1>1, <1>11, <2>1, <2>3, <3>1, Zenon DEF Stands
    <2>4. CASE l \notin {"Next", "Suspended"}
      <3>1. lanes'[l] = lanes[l]
        BY <1>7, <2>4, Zenon
      <3>2. CASE i \in Members(a)
        <4>1. Stands(item[i], "Next") /\ item'[i].lane = "Suspended"
          BY <1>1, <1>11, <2>1, <3>2, Zenon
        <4>2. ~Stands(item[i], l) /\ ~Stands(item'[i], l)
          BY <2>4, <4>1, Zenon DEF Stands
        <4>. QED BY <2>1, <3>1, <4>2, Zenon
      <3>3. CASE i \notin Members(a)
        BY <1>11, <2>1, <3>1, <3>3, Zenon
      <3>. QED BY <3>2, <3>3, Zenon
    <2>. QED BY <2>2, <2>3, <2>4, Zenon
  <1>. QED BY <1>7, <1>11, <1>12, <1>13, Zenon DEF Agree

LEMMA DiscardAgrees ==
    ASSUME Agree(lanes, item), discard_suspended
    PROVE  /\ Agree(lanes', item')
           /\ \A l \in Lanes : lanes[l] = <<>> => lanes'[l] = <<>>
           /\ \A j \in Inputs : item'[j] = item[j] \/ item'[j].state = "Removed"
  <1>. DEFINE lane == "Suspended"
             ids == Members(lanes[lane])
  <1>1. lane \in Lanes
    BY Zenon DEF Lanes
  <1>2. ids \subseteq Inputs
    BY <1>1, MembersAreInputs, Zenon
  <1>3. <<>> \in Seq(Inputs) /\ Distinct(<<>>) /\ Members(<<>>) = {}
    BY EmptyLane
  <1>4. /\ lanes' \in [Lanes -> Seq(Inputs)] /\ lanes'[lane] = <<>>
        /\ \A l \in Lanes : l # lane => lanes'[l] = lanes[l]
    BY <1>1, <1>3, Zenon DEF Agree, discard_suspended
  <1>5. item' = [i \in Inputs |-> IF i \in ids THEN [state |-> "Removed", lane |-> "Next"] ELSE item[i]]
    BY Zenon DEF discard_suspended
  <1>6. Members(lanes'[lane]) = Members(lanes[lane]) \ ids /\ Distinct(lanes'[lane])
    BY <1>3, <1>4, Zenon
  <1>7. ids \subseteq Members(lanes[lane])
    BY Zenon
  <1>. HIDE DEF lane, ids
  <1>8. /\ item' \in [Inputs -> Items]
        /\ \A i \in Inputs : i \in ids => item'[i].state = "Removed"
        /\ \A i \in Inputs : i \notin ids => item'[i] = item[i]
    BY <1>5, Zenon DEF Agree, Items, Lanes
  <1>9. Left(lanes, item, lane, ids, lanes', item')
    BY <1>1, <1>2, <1>4, <1>6, <1>7, <1>8, Zenon DEF Left
  <1>10. Agree(lanes', item')
    BY <1>9, LeaveAgrees, Zenon
  <1>. QED BY <1>4, <1>8, <1>10, Zenon

\* A request to resume that is still open was made for what is suspended now.
AskedInv == suspended_resume_requested /\ lanes["Suspended"] # <<>> => asked
QueueInv == Agree(lanes, item) /\ AskedInv /\ WaitingMeansDrained
Held == [state |-> "Pending", lane |-> "Suspended"]
StaysStep ==
    \A i \in Inputs :
        item[i] = Held
          /\ item'[i].state = "Accepted" => asked'

LEMMA HeldIsPending == Held.state = "Pending"
  BY Zenon DEF Held

\* A step that leaves the queue alone.
LEMMA QueueStill ==
    ASSUME QueueInv, UNCHANGED queueVars,
           suspended_resume_requested' =>
             \/ suspended_resume_requested /\ asked' = asked
             \/ lanes["Suspended"] # <<>> => asked',
           pc' = "waiting" /\ ~interrupted' =>
             \/ pc = "waiting" /\ ~interrupted
             \/ lanes.Next = <<>> /\ lanes.Backlog = <<>>
    PROVE  QueueInv' /\ StaysStep
  <1>1. lanes' = lanes /\ item' = item
    BY Zenon DEF queueVars
  <1>2. Agree(lanes', item') /\ StaysStep
    BY <1>1, HeldIsPending, Zenon DEF QueueInv, StaysStep
  <1>3. AskedInv'
    BY <1>1, Zenon DEF QueueInv, AskedInv
  <1>4. WaitingMeansDrained'
    BY <1>1, Zenon DEF QueueInv, WaitingMeansDrained
  <1>. QED BY <1>2, <1>3, <1>4, Zenon DEF QueueInv

\* A step that takes inputs out of the queue without running them.
LEMMA QueueShrinks ==
    ASSUME QueueInv, Agree(lanes', item'),
           \A l \in Lanes : lanes[l] = <<>> => lanes'[l] = <<>>,
           \A j \in Inputs : item'[j] = item[j] \/ item'[j].state = "Removed",
           suspended_resume_requested' => suspended_resume_requested /\ asked' = asked,
           pc' = "waiting" /\ ~interrupted' => pc = "waiting" /\ ~interrupted
    PROVE  QueueInv' /\ StaysStep
  <1>1. Lanes = {"Next", "Suspended", "Backlog"}
    BY Zenon DEF Lanes
  <1>2. StaysStep
    BY HeldIsPending, Zenon DEF StaysStep
  <1>3. AskedInv'
    BY <1>1, Zenon DEF QueueInv, AskedInv
  <1>4. WaitingMeansDrained'
    BY <1>1, Zenon DEF QueueInv, WaitingMeansDrained
  <1>. QED BY <1>2, <1>3, <1>4, Zenon DEF QueueInv

\* A step that starts a model phase, or puts an input into the queue of a run
\* that does not wait.
LEMMA QueueRuns ==
    ASSUME QueueInv, Agree(lanes', item'), pc' # "waiting", StaysStep,
           suspended_resume_requested' =>
             /\ suspended_resume_requested /\ asked' = asked
             /\ lanes'["Suspended"] = lanes["Suspended"]
    PROVE  QueueInv' /\ StaysStep
  <1>1. AskedInv'
    BY Zenon DEF QueueInv, AskedInv
  <1>2. WaitingMeansDrained'
    BY Zenon DEF WaitingMeansDrained
  <1>. QED BY <1>1, <1>2, Zenon DEF QueueInv

LEMMA StandingSuspended ==
    ASSUME NEW ls, NEW its, Agree(ls, its), NEW i \in Inputs,
           its[i] = Held
    PROVE  i \notin Members(ls["Next"]) /\ i \notin Members(ls["Backlog"])
  <1>1. ~Stands(its[i], "Next") /\ ~Stands(its[i], "Backlog")
    BY DEF Held, Stands
  <1>2. "Next" \in Lanes /\ "Backlog" \in Lanes
    BY Zenon DEF Lanes
  <1>. QED BY <1>1, <1>2, Zenon DEF Agree

\* What a burst or a backlog input leaves of the suspended ones.
Accepts(ls, its) ==
    \/ AcceptBurst(ls, its, "Next")
    \/ ls.Backlog # <<>> /\ AcceptOne(ls, its)
Stay(ls, its) ==
    /\ lanes'["Suspended"] = ls["Suspended"]
    /\ \A i \in Inputs : its[i] = Held => item'[i] = its[i]

LEMMA StaySuspended ==
    ASSUME Stay(lanes, item)
    PROVE  StaysStep
  <1>1. Held.state # "Accepted"
    BY Zenon DEF Held
  <1>. QED BY <1>1, Zenon DEF Stay, StaysStep

LEMMA AcceptStays ==
    ASSUME NEW ls, NEW its, Agree(ls, its), Accepts(ls, its)
    PROVE  Agree(lanes', item') /\ Stay(ls, its)
  <1>1. "Next" \in Lanes /\ "Suspended" \in Lanes /\ "Backlog" \in Lanes
    BY Zenon DEF Lanes
  <1>2. CASE AcceptBurst(ls, its, "Next")
    <2>1. /\ Agree(lanes', item')
          /\ \A i \in Inputs : i \notin Members(ls["Next"]) => item'[i] = its[i]
      BY <1>1, <1>2, BurstAgrees, Zenon
    <2>2. lanes'["Suspended"] = ls["Suspended"]
      BY <1>1, <1>2, Zenon DEF AcceptBurst, Take, Agree
    <2>. QED BY <2>1, <2>2, StandingSuspended, Zenon DEF Stay
  <1>3. CASE ls.Backlog # <<>> /\ AcceptOne(ls, its)
    <2>1. /\ Agree(lanes', item')
          /\ \A i \in Inputs : i \notin Members(ls["Backlog"]) => item'[i] = its[i]
      BY <1>3, OneAgrees, Zenon
    <2>2. lanes'["Suspended"] = ls["Suspended"]
      BY <1>1, <1>3, Zenon DEF AcceptOne, Take, Agree
    <2>. QED BY <2>1, <2>2, StandingSuspended, Zenon DEF Stay
  <1>. QED BY <1>2, <1>3, Zenon DEF Accepts

LEMMA BoundaryQueue ==
    ASSUME QueueInv, Boundary
    PROVE  QueueInv' /\ StaysStep
  <1>1. Agree(lanes, item) /\ asked' = asked /\ "Suspended" \in Lanes
    BY Zenon DEF QueueInv, Boundary, Lanes
  <1>2. CASE UNCHANGED queueVars
    <2>1. suspended_resume_requested' => suspended_resume_requested
      BY <1>2, Zenon DEF Boundary
    <2>2. pc' = "waiting" /\ ~interrupted' => lanes.Next = <<>> /\ lanes.Backlog = <<>>
      <3>1. RunContinuation \/ RunAccepted => pc' # "waiting"
        BY Zenon DEF RunContinuation, RunAccepted, StartModel
      <3>2. \/ RunContinuation \/ RunAccepted
            \/ interrupted /\ interrupted' = interrupted
            \/ lanes.Next = <<>> /\ lanes.Backlog = <<>>
        BY Zenon DEF Boundary
      <3>. QED BY <3>1, <3>2
    <2>. QED BY <1>1, <1>2, <2>1, <2>2, QueueStill, Zenon
  <1>3. CASE AcceptBurst(lanes, item, "Next") /\ RunAccepted
             /\ UNCHANGED suspended_resume_requested
    <2>1. pc' # "waiting" /\ suspended_resume_requested' = suspended_resume_requested
      BY <1>3, Zenon DEF RunAccepted, StartModel
    <2>2. /\ Agree(lanes', item') /\ lanes'["Suspended"] = lanes["Suspended"]
          /\ StaysStep
      <3>1. Accepts(lanes, item)
        BY <1>3, Zenon DEF Accepts
      <3>2. Agree(lanes', item') /\ Stay(lanes, item)
        BY <1>1, <3>1, AcceptStays, Zenon
      <3>. QED BY <3>2, StaySuspended, Zenon DEF Stay
    <2>. QED BY <1>1, <2>1, <2>2, QueueRuns, Zenon
  <1>4. CASE suspended_resume_requested /\ lanes.Suspended # <<>>
             /\ AcceptBurst(lanes, item, "Suspended") /\ RunAccepted
             /\ suspended_resume_requested' = FALSE
    <2>1. pc' # "waiting" /\ ~suspended_resume_requested'
      BY <1>4, Zenon DEF RunAccepted, StartModel
    <2>2. Agree(lanes', item')
      BY <1>1, <1>4, BurstAgrees, Zenon
    <2>3. asked'
      BY <1>1, <1>4, Zenon DEF QueueInv, AskedInv
    <2>. QED BY <2>1, <2>2, <2>3, QueueRuns, Zenon DEF StaysStep
  <1>5. CASE lanes.Backlog # <<>> /\ AcceptOne(lanes, item) /\ RunAccepted
             /\ suspended_resume_requested' = FALSE
    <2>1. pc' # "waiting" /\ ~suspended_resume_requested'
      BY <1>5, Zenon DEF RunAccepted, StartModel
    <2>2. Agree(lanes', item') /\ StaysStep
      <3>1. Accepts(lanes, item)
        BY <1>5, Zenon DEF Accepts
      <3>2. Agree(lanes', item') /\ Stay(lanes, item)
        BY <1>1, <3>1, AcceptStays
      <3>. QED BY <3>2, StaySuspended, Zenon
    <2>. QED BY <2>1, <2>2, QueueRuns, Zenon
  <1>. QED BY <1>2, <1>3, <1>4, <1>5, Zenon DEF Boundary

LEMMA PushedQueue ==
    ASSUME QueueInv, NEW lane \in {"Next", "Backlog"}, NEW i \in Inputs, IsNextId(i),
           pc' # "waiting", UNCHANGED <<suspended_resume_requested, asked>>,
           \/ Push(lane, i)
           \/ lane = "Next" /\ AcceptBurst(PushedLanes("Next", i), PushedItem("Next", i), "Next")
           \/ lane = "Backlog" /\ AcceptOne(PushedLanes("Backlog", i), PushedItem("Backlog", i))
    PROVE  QueueInv' /\ StaysStep
  <1>. DEFINE ls == PushedLanes(lane, i)
             its == PushedItem(lane, i)
  <1>1. Agree(lanes, item) /\ item[i].state = "New" /\ lane \in Lanes /\ "Suspended" \in Lanes
    BY Zenon DEF QueueInv, IsNextId, Lanes
  <1>2. /\ Agree(ls, its) /\ ls[lane] # <<>> /\ its[i] = [state |-> "Pending", lane |-> lane]
        /\ \A j \in Inputs : j # i => its[j] = item[j]
        /\ ls["Suspended"] = lanes["Suspended"]
    <2>1. /\ Agree(ls, its)
          /\ ls[lane] # <<>>
          /\ \A j \in Inputs : j # i => its[j] = item[j]
          /\ its[i] = [state |-> "Pending", lane |-> lane]
          /\ \A l \in Lanes : l # lane => ls[l] = lanes[l]
      BY <1>1, PushAgrees, ZenonT(30)
    <2>2. "Suspended" # lane
      BY Zenon
    <2>. HIDE DEF ls, its
    <2>. QED BY <1>1, <2>1, <2>2, Zenon
  <1>3. ASSUME NEW j \in Inputs, item[j] = Held PROVE its[j] = item[j]
    <2>1. j # i
      BY <1>1, <1>3, HeldIsPending, Zenon
    <2>. HIDE DEF ls, its
    <2>. QED BY <1>2, <2>1, Zenon
  <1>4. (lanes' = ls /\ item' = its) \/ Accepts(ls, its)
    BY <1>2, Zenon DEF Push, Accepts
  <1>. HIDE DEF ls, its
  <1>5. Agree(lanes', item') /\ Stay(ls, its)
    <2>1. CASE lanes' = ls /\ item' = its
      BY <1>2, <2>1, Zenon DEF Stay
    <2>2. CASE Accepts(ls, its)
      BY <1>2, <2>2, AcceptStays, Zenon
    <2>. QED BY <1>4, <2>1, <2>2, Zenon
  <1>6. Stay(lanes, item)
    BY <1>2, <1>3, <1>5, Zenon DEF Stay
  <1>7. StaysStep /\ lanes'["Suspended"] = lanes["Suspended"]
    BY <1>6, StaySuspended, Zenon DEF Stay
  <1>. QED BY <1>5, <1>7, QueueRuns, Zenon

LEMMA ResumeQueue ==
    ASSUME QueueInv, ResumeSuspended
    PROVE  QueueInv' /\ StaysStep
  <1>1. Agree(lanes, item) /\ "Suspended" \in Lanes
    BY Zenon DEF QueueInv, Lanes
  <1>2. asked' = (lanes["Suspended"] # <<>>)
    BY Zenon DEF ResumeSuspended
  <1>3. CASE lanes.Suspended # <<>> /\ AcceptBurst(lanes, item, "Suspended") /\ RunAccepted
             /\ suspended_resume_requested' = FALSE
    <2>1. pc' # "waiting" /\ ~suspended_resume_requested'
      BY <1>3, Zenon DEF RunAccepted, StartModel
    <2>2. Agree(lanes', item')
      BY <1>1, <1>3, BurstAgrees, Zenon
    <2>3. asked'
      BY <1>2, <1>3, Zenon
    <2>4. StaysStep
      BY <2>3, Zenon DEF StaysStep
    <2>. QED BY <2>1, <2>2, <2>4, QueueRuns, Zenon
  <1>4. CASE UNCHANGED queueVars
    <2>1. CASE pc = "waiting" /\ lanes.Suspended # <<>> /\ RunAccepted
               /\ suspended_resume_requested' = FALSE
      <3>1. pc' # "waiting" /\ ~suspended_resume_requested'
        BY <2>1, Zenon DEF RunAccepted, StartModel
      <3>. QED BY <1>4, <3>1, QueueStill, Zenon
    <2>2. CASE UNCHANGED interrupted /\ Handled
      <3>1. pc' = "waiting" => pc = "waiting"
        BY <2>2, Zenon DEF Handled, Running, Phases
      <3>2. lanes["Suspended"] # <<>> => asked'
        BY <1>2, Zenon
      <3>. QED BY <1>4, <2>2, <3>1, <3>2, QueueStill, Zenon
    <2>. QED BY <1>4, <2>1, <2>2, Zenon DEF ResumeSuspended
  <1>. QED BY <1>3, <1>4, Zenon DEF ResumeSuspended, queueVars

LEMMA InterruptQueue ==
    ASSUME QueueInv, Interrupt
    PROVE  QueueInv' /\ StaysStep
  <1>1. Agree(lanes', item') /\ \A j \in Inputs : item'[j].state = item[j].state
    BY SuspendAgrees, Zenon DEF QueueInv, Interrupt
  <1>2. StaysStep
    BY <1>1, HeldIsPending, Zenon DEF StaysStep
  <1>3. pc' # "waiting" /\ ~suspended_resume_requested'
    BY Zenon DEF Interrupt, Running, Phases
  <1>. QED BY <1>1, <1>2, <1>3, QueueRuns, Zenon

LEMMA UserQueue ==
    ASSUME QueueInv, UserStep
    PROVE  QueueInv' /\ StaysStep
  <1>1. ASSUME NEW i \in Inputs, SubmitNext(i) PROVE QueueInv' /\ StaysStep
    <2>1. pc' # "waiting" /\ UNCHANGED <<suspended_resume_requested, asked>> /\ IsNextId(i)
      BY <1>1, Zenon DEF SubmitNext, RunAccepted, StartModel, phaseVars, Running, Phases
    <2>2. \/ Push("Next", i)
          \/ AcceptBurst(PushedLanes("Next", i), PushedItem("Next", i), "Next")
      BY <1>1, Zenon DEF SubmitNext
    <2>. QED BY <2>1, <2>2, PushedQueue, Zenon
  <1>2. ASSUME NEW i \in Inputs, Enqueue(i) PROVE QueueInv' /\ StaysStep
    <2>1. pc' # "waiting" /\ UNCHANGED <<suspended_resume_requested, asked>> /\ IsNextId(i)
      BY <1>2, Zenon DEF Enqueue, RunAccepted, StartModel, phaseVars, Running, Phases
    <2>2. \/ Push("Backlog", i)
          \/ AcceptOne(PushedLanes("Backlog", i), PushedItem("Backlog", i))
      BY <1>2, Zenon DEF Enqueue
    <2>. QED BY <2>1, <2>2, PushedQueue, Zenon
  <1>3. ASSUME NEW i \in Inputs, Remove(i) PROVE QueueInv' /\ StaysStep
    <2>1. /\ UNCHANGED <<suspended_resume_requested, asked, interrupted>> /\ RemoveItem(i)
          /\ pc' = "waiting" => pc = "waiting"
      BY <1>3, Zenon DEF Remove, flagVars, Handled, Running, Phases
    <2>2. Agree(lanes, item)
      BY Zenon DEF QueueInv
    <2>. QED BY <2>1, <2>2, RemoveAgrees, QueueShrinks, Zenon
  <1>4. ASSUME NEW lane \in Lanes, ReplacePendingOrder(lane) PROVE QueueInv' /\ StaysStep
    <2>1. /\ UNCHANGED <<suspended_resume_requested, asked, interrupted>>
          /\ pc' = "waiting" => pc = "waiting"
      BY <1>4, Zenon DEF ReplacePendingOrder, flagVars, Handled, Running, Phases
    <2>2. Agree(lanes, item)
      BY DEF QueueInv
    <2>3. PICK m \in DOMAIN lanes[lane], n \in DOMAIN lanes[lane] :
             m < n /\ ReplaceOrder(lane, [lanes[lane] EXCEPT ![m] = lanes[lane][n],
                                                             ![n] = lanes[lane][m]])
      BY <1>4, Zenon DEF ReplacePendingOrder
    <2>4. m # n
      <3>1. lanes[lane] \in Seq(Inputs)
        BY <2>2, Zenon DEF Agree
      <3>2. m \in Nat /\ n \in Nat
        BY <3>1
      <3>. QED BY <2>3, <3>2
    <2>5. /\ Agree(lanes', item') /\ item' = item
          /\ \A l \in Lanes : lanes[l] = <<>> => lanes'[l] = <<>>
      BY <2>2, <2>3, <2>4, ReplaceAgrees, Zenon
    <2>. QED BY <2>1, <2>5, QueueShrinks, Zenon
  <1>5. CASE DiscardSuspended
    <2>1. /\ ~suspended_resume_requested' /\ UNCHANGED interrupted /\ discard_suspended
          /\ pc' = "waiting" => pc = "waiting"
      BY <1>5, Zenon DEF DiscardSuspended, Handled, Running, Phases
    <2>2. Agree(lanes, item)
      BY Zenon DEF QueueInv
    <2>. QED BY <2>1, <2>2, DiscardAgrees, QueueShrinks, Zenon
  <1>6. CASE Close \/ RequestCancel \/ ApprovePlan \/ PlanEvent \/ SubagentCompletes \/ NoticeWakes
    <2>1. UNCHANGED <<queueVars, suspended_resume_requested, asked>>
      BY <1>6, Zenon DEF Close, RequestCancel, ApprovePlan, PlanEvent, SubagentCompletes, NoticeWakes,
                  flagVars
    <2>2. pc' = "waiting" => pc = "waiting" /\ interrupted' = interrupted
      BY <1>6, Zenon DEF Close, RequestCancel, ApprovePlan, PlanEvent, SubagentCompletes, NoticeWakes,
                  flagVars, phaseVars, RunContinuation, StartModel, Running, Phases
    <2>. QED BY <2>1, <2>2, QueueStill
  <1>. QED BY <1>1, <1>2, <1>3, <1>4, <1>5, <1>6, ResumeQueue, InterruptQueue, Zenon DEF UserStep

LEMMA QueueStep ==
    ASSUME QueueInv, [Next]_vars
    PROVE  QueueInv' /\ StaysStep
  <1>1. CASE \/ ModelStep \/ StepEnds \/ ToolDone \/ BridgeCancelled \/ BridgeResult
             \/ Settle \/ SettleEnds
    <2>1. UNCHANGED <<queueVars, suspended_resume_requested, asked>>
      BY <1>1, Zenon DEF ModelStep, StepEnds, ToolDone, BridgeCancelled, BridgeResult, Settle,
                         SettleEnds, flagVars
    <2>2. pc' # "waiting"
      BY <1>1, Zenon DEF ModelStep, StepEnds, ToolDone, BridgeCancelled, BridgeResult, Settle,
                  SettleEnds, ToSettle, FinalOutput, NextWave, ToBoundary, StartRuntimeWave, HandOff, phaseVars
    <2>. QED BY <2>1, <2>2, QueueStill, Zenon
  <1>2. CASE HostStep \/ UNCHANGED vars
    <2>1. UNCHANGED <<queueVars, suspended_resume_requested, asked, pc, interrupted>>
      BY <1>2, Zenon DEF HostStep, BeginRead, Receive, Submit, GiveUp, flagVars, phaseVars, vars
    <2>. QED BY <2>1, QueueStill, Zenon
  <1>. QED BY <1>1, <1>2, BoundaryQueue, UserQueue, Zenon DEF Next, ProducerStep

LEMMA QueueInit ==
    ASSUME Init
    PROVE  QueueInv
  <1>1. <<>> \in Seq(Inputs) /\ Distinct(<<>>) /\ Members(<<>>) = {}
    BY EmptyLane, Zenon
  <1>2. lanes = [l \in Lanes |-> <<>>]
        /\ item = [i \in Inputs |-> [state |-> "New", lane |-> "Next"]]
    BY Zenon DEF Init
  <1>3. lanes \in [Lanes -> Seq(Inputs)] /\ item \in [Inputs -> Items]
    BY <1>1, <1>2, Zenon DEF Items, Lanes
  <1>4. \A l \in Lanes, i \in Inputs : i \in Members(lanes[l]) <=> Stands(item[i], l)
    BY <1>1, <1>2, Zenon DEF Stands
  <1>5. Agree(lanes, item)
    BY <1>1, <1>2, <1>3, <1>4, Zenon DEF Agree
  <1>6. ~suspended_resume_requested
    BY Zenon DEF Init
  <1>7. lanes.Next = <<>> /\ lanes.Backlog = <<>>
    BY <1>2, Zenon DEF Lanes
  <1>. QED BY <1>5, <1>6, <1>7, Zenon DEF QueueInv, AskedInv, WaitingMeansDrained

LEMMA QueueInvAgrees == QueueInv => QueueAgrees
  <1>1. ASSUME NEW it \in Items, NEW l \in Lanes
        PROVE  Stands(it, l) <=> it = [state |-> "Pending", lane |-> l]
    BY DEF Stands, Items
  <1>. QED BY <1>1, Zenon DEF QueueInv, Agree, QueueAgrees, Distinct

\* Every input that waits stands exactly once in the lane its item names, and
\* one that was accepted or removed in none, for any number of inputs.
THEOREM QueueKeepsEveryInput == Spec => []QueueAgrees
  <1>1. Init => QueueInv
    BY QueueInit, Zenon
  <1>2. QueueInv /\ [Next]_vars => QueueInv'
    BY QueueStep, Zenon
  <1>3. QueueInv => QueueAgrees
    BY QueueInvAgrees, Zenon
  <1>. QED BY <1>1, <1>2, <1>3, PTL DEF Spec

\* A suspended input is run only when the user asked for it since the last
\* interruption.
THEOREM SuspendedRunsOnRequest == Spec => SuspendedStays
  <1>1. Init => QueueInv
    BY QueueInit
  <1>2. QueueInv /\ [Next]_vars => QueueInv'
    BY QueueStep
  <1>3. QueueInv /\ [Next]_vars =>
          [\A i \in Inputs :
              item[i] = [state |-> "Pending", lane |-> "Suspended"]
                /\ item'[i].state = "Accepted" => asked']_vars
    BY QueueStep, Zenon DEF StaysStep, Held
  <1>. QED BY <1>1, <1>2, <1>3, PTL DEF Spec, SuspendedStays

\* A run that waits and was not interrupted has nothing left to run.
THEOREM WaitingIsDrained == Spec => []WaitingMeansDrained
  <1>1. Init => QueueInv
    BY QueueInit
  <1>2. QueueInv /\ [Next]_vars => QueueInv'
    BY QueueStep
  <1>3. QueueInv => WaitingMeansDrained
    BY Zenon DEF QueueInv
  <1>. QED BY <1>1, <1>2, <1>3, PTL DEF Spec

-----------------------------------------------------------------------------
(***************************************************************************)
(* Type correctness.                                                       *)
(***************************************************************************)
Places == Busy \cup {"waiting", "closed"}
Outcomes == {"none", "Completed", "Stopped", "ToolResultRecorded", "Pending",
             "Rejected", "Cancelled"}

RunFlags ==
    /\ continuing \in BOOLEAN /\ interrupted \in BOOLEAN /\ phaseCancelled \in BOOLEAN
    /\ loopCancelled \in BOOLEAN /\ notices \in BOOLEAN
RequestFlags ==
    /\ suspended_resume_requested \in BOOLEAN /\ asked \in BOOLEAN
    /\ coordinator_continuation_requested \in BOOLEAN
    /\ subagent_continuation_requested \in BOOLEAN

TypeInv ==
    /\ pc \in Places /\ outcome \in Outcomes
    /\ RunFlags /\ RequestFlags
    /\ held <= batch /\ unread <= batch

LEMMA NextWaveTypes ==
    ASSUME RunFlags, NEW waves, NEW cont \in BOOLEAN, NEW o, NEW bumped,
           NextWave(waves, cont, o, bumped)
    PROVE  /\ pc' \in Places /\ outcome' \in Outcomes
           /\ continuing' \in BOOLEAN /\ phaseCancelled' \in BOOLEAN
  <1>1. pc' \in Places /\ outcome' \in Outcomes
    BY Zenon DEF NextWave, ToBoundary, StartRuntimeWave, HandOff, Places, Busy, Running, Phases, Outcomes
  <1>2. continuing' \in {cont, FALSE} /\ phaseCancelled' \in {loopCancelled, FALSE}
    BY Zenon DEF NextWave, ToBoundary, StartRuntimeWave, HandOff
  <1>. QED BY <1>1, <1>2, Zenon DEF RunFlags

LEMMA ToBoundaryTypes ==
    ASSUME NEW cont \in BOOLEAN, NEW o, ToBoundary(cont, o)
    PROVE  /\ pc' \in Places /\ outcome' \in Outcomes
           /\ continuing' \in BOOLEAN /\ phaseCancelled' \in BOOLEAN
  BY Zenon DEF ToBoundary, Places, Busy, Running, Phases, Outcomes

\* The producer's places, results and flags.
LEMMA ProducerTypes ==
    ASSUME TypeInv, ProducerStep \/ BridgeResult
    PROVE  /\ pc' \in Places /\ outcome' \in Outcomes /\ RunFlags' /\ RequestFlags'
  <1>. USE DEF TypeInv
  <1>1. CASE ModelStep
    <2>1. pc' \in Places /\ outcome' \in Outcomes
      BY <1>1, Zenon DEF ModelStep, Places, Busy, Running, Phases, Outcomes
    <2>2. RunFlags' /\ RequestFlags'
      BY <1>1, Zenon DEF ModelStep, flagVars, RunFlags, RequestFlags
    <2>. QED BY <2>1, <2>2, Zenon
  <1>2. CASE StepEnds
    <2>1. UNCHANGED <<interrupted, suspended_resume_requested, coordinator_continuation_requested,
                      notices, asked, loopCancelled>>
          /\ subagent_continuation_requested' \in {notices, subagent_continuation_requested}
      BY <1>2, Zenon DEF StepEnds
    <2>2. RequestFlags' /\ interrupted' \in BOOLEAN /\ notices' \in BOOLEAN /\ loopCancelled' \in BOOLEAN
      BY <2>1, Zenon DEF RunFlags, RequestFlags
    <2>3. \/ NextWave(pending, TRUE, {out}, FALSE)
          \/ \E o : \E cont \in BOOLEAN : ToBoundary(cont, o)
      <3>1. (outcome = "ToolResultRecorded" /\ ~interrupted) \in BOOLEAN
        BY Zenon
      <3>. QED BY <1>2, <3>1, Zenon DEF StepEnds, FinalOutput
    <2>4. /\ pc' \in Places /\ outcome' \in Outcomes
          /\ continuing' \in BOOLEAN /\ phaseCancelled' \in BOOLEAN
      BY <2>3, NextWaveTypes, ToBoundaryTypes, Zenon
    <2>. QED BY <2>2, <2>4, Zenon DEF RunFlags
  <1>3. CASE ToolDone
    <2>1. UNCHANGED <<suspended_resume_requested, coordinator_continuation_requested,
                      subagent_continuation_requested, notices, asked, loopCancelled>>
          /\ interrupted' \in {interrupted, TRUE}
      BY <1>3, Zenon DEF ToolDone
    <2>2. RequestFlags' /\ interrupted' \in BOOLEAN /\ notices' \in BOOLEAN /\ loopCancelled' \in BOOLEAN
      BY <2>1, Zenon DEF RunFlags, RequestFlags
    <2>3. \/ \E cont \in BOOLEAN : NextWave(Tail(pending), cont, Emit(out), FALSE)
          \/ ToBoundary(FALSE, Emit(out))
      <3>1. \A planWaits : (~interrupted /\ ~planWaits) \in BOOLEAN
        BY Zenon
      <3>. QED BY <1>3, <3>1, Zenon DEF ToolDone
    <2>4. /\ pc' \in Places /\ outcome' \in Outcomes
          /\ continuing' \in BOOLEAN /\ phaseCancelled' \in BOOLEAN
      BY <2>3, NextWaveTypes, ToBoundaryTypes, Zenon
    <2>. QED BY <2>2, <2>4 DEF RunFlags
  <1>4. CASE BridgeCancelled \/ Settle
    <2>1. /\ UNCHANGED <<flagVars, continuing, asked, loopCancelled>>
          /\ phaseCancelled' \in {phaseCancelled, FALSE}
      BY <1>4, Zenon DEF BridgeCancelled, Settle, ToSettle
    <2>2. pc' \in Places /\ outcome' \in Outcomes
      BY <1>4, Zenon
      DEF BridgeCancelled, Settle, ToSettle, Places, Busy, Running, Phases, Outcomes
    <2>. QED BY <2>1, <2>2, Zenon DEF RunFlags, RequestFlags, flagVars
  <1>7. CASE SettleEnds
    <2>1. UNCHANGED <<suspended_resume_requested, coordinator_continuation_requested,
                      subagent_continuation_requested, notices, asked, loopCancelled>>
          /\ interrupted' \in {interrupted, TRUE}
      BY <1>7, Zenon DEF SettleEnds
    <2>2. RequestFlags' /\ interrupted' \in BOOLEAN /\ notices' \in BOOLEAN /\ loopCancelled' \in BOOLEAN
      BY <2>1, Zenon DEF RunFlags, RequestFlags
    <2>3. \/ \E cont \in BOOLEAN : NextWave(pending, cont, {out}, TRUE)
          \/ ToBoundary(FALSE, {out})
      <3>1. \A planWaits : (~interrupted /\ ~planWaits) \in BOOLEAN
        BY Zenon
      <3>. QED BY <1>7, <3>1, Zenon DEF SettleEnds
    <2>4. /\ pc' \in Places /\ outcome' \in Outcomes
          /\ continuing' \in BOOLEAN /\ phaseCancelled' \in BOOLEAN
      BY <2>3, NextWaveTypes, ToBoundaryTypes, Zenon
    <2>. QED BY <2>2, <2>4 DEF RunFlags
  <1>5. CASE Boundary
    <2>. DEFINE subagent == subagent_continuation_requested \/ notices
    <2>1. /\ UNCHANGED <<asked, loopCancelled>>
          /\ interrupted' \in {interrupted, FALSE} /\ notices' \in {notices, FALSE}
          /\ suspended_resume_requested' \in {suspended_resume_requested, FALSE}
          /\ coordinator_continuation_requested' \in {coordinator_continuation_requested, FALSE}
      BY <1>5, Zenon DEF Boundary, RunContinuation, RunAccepted, StartModel
    <2>2. subagent_continuation_requested' \in {subagent_continuation_requested, FALSE, subagent}
      BY <1>5, Zenon DEF Boundary
    <2>3. subagent \in BOOLEAN
      BY Zenon
    <2>4. /\ pc' \in {"model", "waiting", "closed"} /\ outcome' = "none" /\ continuing' = FALSE
          /\ phaseCancelled' \in {loopCancelled, FALSE}
      BY <1>5, Zenon DEF Boundary, RunContinuation, RunAccepted, StartModel, BackToWaiting
    <2>. HIDE DEF subagent
    <2>5. subagent_continuation_requested' \in BOOLEAN
      BY <2>2, <2>3, Zenon DEF RequestFlags
    <2>6. RequestFlags'
      BY <2>1, <2>5, Zenon DEF RequestFlags
    <2>7. RunFlags'
      BY <2>1, <2>4, Zenon DEF RunFlags
    <2>8. pc' \in Places /\ outcome' \in Outcomes
      BY <2>4, Zenon DEF Places, Busy, Running, Phases, Outcomes
    <2>. QED BY <2>6, <2>7, <2>8, Zenon
  <1>6. CASE BridgeResult
    <2>1. UNCHANGED <<flagVars, asked, loopCancelled>>
      BY <1>6, Zenon DEF BridgeResult
    <2>2. RequestFlags' /\ interrupted' \in BOOLEAN /\ notices' \in BOOLEAN /\ loopCancelled' \in BOOLEAN
      BY <2>1, Zenon DEF RunFlags, RequestFlags, flagVars
    <2>3. \/ \E cont \in BOOLEAN : NextWave(Tail(pending), cont, Emit(out), TRUE)
          \/ UNCHANGED phaseVars
          \/ ToSettle("Rejected")
      <3>1. \A planWaits : (~interrupted /\ ~planWaits) \in BOOLEAN
        BY Zenon
      <3>. QED BY <1>6, <3>1, Zenon DEF BridgeResult
    <2>4. /\ pc' \in Places /\ outcome' \in Outcomes
          /\ continuing' \in BOOLEAN /\ phaseCancelled' \in BOOLEAN
      <3>1. CASE UNCHANGED phaseVars
        BY <3>1, Zenon DEF phaseVars, RunFlags
      <3>2. CASE ToSettle("Rejected")
        BY <3>2, Zenon DEF ToSettle, RunFlags, Places, Busy, Outcomes
      <3>. QED BY <2>3, <3>1, <3>2, NextWaveTypes, Zenon
    <2>. QED BY <2>2, <2>4 DEF RunFlags
  <1>. QED BY <1>1, <1>2, <1>3, <1>4, <1>5, <1>6, <1>7, Zenon DEF ProducerStep

\* A command starts a model phase, goes back to the select, or changes nothing
\* about the producer but its cancellation.
Turns ==
    \/ /\ pc' \in {"model", "waiting", "closed"} /\ outcome' = "none" /\ continuing' = FALSE
       /\ phaseCancelled' \in {loopCancelled, FALSE}
    \/ UNCHANGED <<pc, outcome, continuing>> /\ phaseCancelled' \in {phaseCancelled, TRUE, FALSE}
    \/ /\ pc' = "closed" /\ UNCHANGED <<outcome, continuing>>
       /\ phaseCancelled' \in {phaseCancelled, TRUE, FALSE}

LEMMA TurnsTypes ==
    ASSUME TypeInv, Turns
    PROVE  /\ pc' \in Places /\ outcome' \in Outcomes
           /\ continuing' \in BOOLEAN /\ phaseCancelled' \in BOOLEAN
  BY Zenon DEF TypeInv, Turns, RunFlags, Places, Busy, Running, Phases, Outcomes

LEMMA UserTypes ==
    ASSUME TypeInv, UserStep
    PROVE  /\ pc' \in Places /\ outcome' \in Outcomes /\ RunFlags' /\ RequestFlags'
  <1>. USE DEF TypeInv
  <1>1. \A place : (pc # place) \in BOOLEAN /\ (lanes.Suspended # <<>>) \in BOOLEAN
    BY Zenon
  <1>2. \A b \in BOOLEAN : b \in {TRUE, FALSE}
    BY Zenon
  <1>3. CASE \/ \E i \in Inputs : SubmitNext(i) \/ Enqueue(i) \/ Remove(i)
             \/ \E lane \in Lanes : ReplacePendingOrder(lane)
    <2>1. Turns
      BY <1>3, Zenon DEF SubmitNext, Enqueue, Remove, ReplacePendingOrder, RunAccepted, StartModel,
         Handled, BackToWaiting, phaseVars, Turns
    <2>2. /\ UNCHANGED <<suspended_resume_requested, coordinator_continuation_requested,
                         subagent_continuation_requested, notices, asked, loopCancelled>>
          /\ interrupted' \in {interrupted, FALSE}
      BY <1>3, Zenon DEF SubmitNext, Enqueue, Remove, ReplacePendingOrder, RunAccepted, flagVars
    <2>. QED BY <2>1, <2>2, TurnsTypes, Zenon DEF RunFlags, RequestFlags
  <1>4. CASE ResumeSuspended \/ DiscardSuspended
    <2>1. Turns
      BY <1>4, Zenon DEF ResumeSuspended, DiscardSuspended, RunAccepted, StartModel,
         Handled, BackToWaiting, Turns
    <2>2. /\ UNCHANGED <<coordinator_continuation_requested, subagent_continuation_requested,
                         notices, loopCancelled>>
          /\ interrupted' \in {interrupted, FALSE} /\ suspended_resume_requested' \in {TRUE, FALSE}
      BY <1>4, Zenon DEF ResumeSuspended, DiscardSuspended, RunAccepted
    <2>3. asked' \in BOOLEAN
      BY <1>1, <1>4, Zenon DEF ResumeSuspended, DiscardSuspended
    <2>. QED BY <2>1, <2>2, <2>3, TurnsTypes, Zenon DEF RunFlags, RequestFlags
  <1>5. CASE Interrupt
    <2>1. phaseCancelled' \in {TRUE, FALSE}
      BY <1>1, <1>2, <1>5, Zenon DEF Interrupt
    <2>2. /\ UNCHANGED <<pc, outcome, continuing, coordinator_continuation_requested,
                         subagent_continuation_requested, notices, loopCancelled>>
          /\ interrupted' = TRUE /\ suspended_resume_requested' = FALSE /\ asked' = FALSE
      BY <1>5, Zenon DEF Interrupt
    <2>3. Turns
      BY <2>1, <2>2, Zenon DEF Turns
    <2>. QED BY <2>2, <2>3, TurnsTypes, Zenon DEF RunFlags, RequestFlags
  <1>6. CASE Close \/ RequestCancel
    <2>1. phaseCancelled' \in {phaseCancelled, TRUE, FALSE}
      <3>1. \/ phaseCancelled' = phaseCancelled \/ phaseCancelled' = (pc # "boundary")
            \/ phaseCancelled' = (pc \in Phases)
        BY <1>6, Zenon DEF Close, RequestCancel
      <3>2. (pc \in Phases) = TRUE \/ (pc \in Phases) = FALSE
        OBVIOUS
      <3>. QED BY <1>1, <1>2, <3>1, <3>2, Zenon
    <2>2. /\ UNCHANGED <<outcome, continuing, flagVars, asked>>
          /\ loopCancelled' \in {loopCancelled, TRUE}
          /\ pc' = pc \/ pc' = "closed"
      BY <1>6, Zenon DEF Close, RequestCancel
    <2>3. Turns
      BY <2>1, <2>2, Zenon DEF Turns
    <2>. QED BY <2>2, <2>3, TurnsTypes, Zenon DEF RunFlags, RequestFlags, flagVars
  <1>7. CASE ApprovePlan \/ NoticeWakes \/ PlanEvent \/ SubagentCompletes
    <2>1. Turns
      BY <1>7, Zenon DEF ApprovePlan, NoticeWakes, PlanEvent, SubagentCompletes, RunContinuation,
         StartModel, phaseVars, Turns
    <2>2. /\ UNCHANGED <<interrupted, suspended_resume_requested, asked, loopCancelled,
                         subagent_continuation_requested>>
          /\ notices' \in {notices, TRUE, FALSE}
          /\ coordinator_continuation_requested' \in
               {coordinator_continuation_requested, TRUE, FALSE}
      BY <1>7, Zenon DEF ApprovePlan, NoticeWakes, PlanEvent, SubagentCompletes, RunContinuation
    <2>. QED BY <2>1, <2>2, TurnsTypes, Zenon DEF RunFlags, RequestFlags
  <1>. QED BY <1>3, <1>4, <1>5, <1>6, <1>7, Zenon DEF UserStep

\* The batches at the host have been handed off.
LEMMA HostBatches ==
    ASSUME ChannelInv, TypeInv, [Next]_vars
    PROVE  held' <= batch' /\ unread' <= batch'
  <1>1. /\ batch \in Nat /\ held \in Nat /\ unread \in Nat /\ held <= batch /\ unread <= batch
        /\ out \in Seq(Nat) /\ \A n \in 1..Len(out) : out[n] <= batch
    BY Zenon DEF ChannelInv, TypeInv
  <1>2. out # <<>> => Head(out) \in Nat /\ Head(out) <= batch
    BY <1>1
  <1>3. CASE ProducerStep \/ BridgeResult
    <2>1. held' \in {held, 0} /\ unread' = unread
      BY <1>3, Zenon DEF ProducerStep, ModelStep, StepEnds, ToolDone, BridgeCancelled, Settle,
         SettleEnds, Boundary, BridgeResult, Answer, hostVars
    <2>2. batch' \in {batch, batch + 1}
      BY <1>3, Zenon DEF ProducerStep, ModelStep, StepEnds, ToolDone, BridgeCancelled, Settle,
         SettleEnds, Boundary, BridgeResult, ToSettle, FinalOutput, NextWave, ToBoundary, StartRuntimeWave, HandOff,
         RunContinuation, RunAccepted, StartModel, phaseVars
    <2>. QED BY <1>1, <2>1, <2>2
  <1>4. CASE UserStep \/ UNCHANGED vars
    <2>1. UNCHANGED <<held, unread, batch>>
      BY <1>4, Zenon DEF UserStep, SubmitNext, Enqueue, Remove, ReplacePendingOrder, ResumeSuspended,
         DiscardSuspended, Interrupt, Close, RequestCancel, ApprovePlan, PlanEvent,
         SubagentCompletes, NoticeWakes, RunAccepted, RunContinuation, StartModel, Handled,
         phaseVars, hostVars, vars
    <2>. QED BY <1>1, <2>1, Zenon
  <1>5. CASE HostStep
    <2>1. batch' = batch
      BY <1>5, Zenon DEF HostStep, BeginRead, Receive, Submit, GiveUp, phaseVars
    <2>2. /\ held' \in {0, held, unread} \/ (out # <<>> /\ held' = Head(out))
          /\ unread' \in {0, unread} \/ (out # <<>> /\ unread' = Head(out))
      BY <1>5, Zenon DEF HostStep, BeginRead, Receive, Submit, GiveUp, Received
    <2>. QED BY <1>1, <1>2, <2>1, <2>2
  <1>. QED BY <1>3, <1>4, <1>5, Zenon DEF Next

LEMMA TypeStep ==
    ASSUME ChannelInv, TypeInv, [Next]_vars
    PROVE  TypeInv'
  <1>1. CASE HostStep \/ UNCHANGED vars
    <2>1. UNCHANGED <<pc, outcome, continuing, phaseCancelled, flagVars, asked, loopCancelled>>
      BY <1>1, Zenon DEF HostStep, BeginRead, Receive, Submit, GiveUp, phaseVars, vars
    <2>2. pc' \in Places /\ outcome' \in Outcomes /\ RunFlags' /\ RequestFlags'
      BY <2>1, Zenon DEF TypeInv, RunFlags, RequestFlags, flagVars
    <2>. QED BY <2>2, HostBatches, Zenon DEF TypeInv
  <1>2. CASE ProducerStep \/ BridgeResult
    BY <1>2, ProducerTypes, HostBatches, Zenon DEF TypeInv
  <1>3. CASE UserStep
    BY <1>3, UserTypes, HostBatches, Zenon DEF TypeInv
  <1>. QED BY <1>1, <1>2, <1>3, Zenon DEF Next

LEMMA TypeInit ==
    ASSUME Init
    PROVE  TypeInv
  <1>1. RunFlags /\ RequestFlags
    BY Zenon DEF Init, RunFlags, RequestFlags
  <1>2. pc \in Places /\ outcome \in Outcomes /\ held <= batch /\ unread <= batch
    BY DEF Init, Places, Outcomes
  <1>. QED BY <1>1, <1>2, Zenon DEF TypeInv

\* The run's variables keep their types, its queue's lanes and items agree, and
\* no batch is on its way to the host or held by it that was not handed off, for
\* any number of inputs, commands, batches and places of the result channel.
THEOREM TypeCorrect == Spec => []TypeOK
  <1>1. Init => ChannelInv /\ TypeInv /\ QueueInv
    BY ChannelInit, TypeInit, QueueInit, Zenon
  <1>2. ChannelInv /\ TypeInv /\ QueueInv /\ [Next]_vars => (ChannelInv /\ TypeInv /\ QueueInv)'
    BY ChannelStep, TypeStep, QueueStep, Zenon
  <1>3. ChannelInv /\ TypeInv /\ QueueInv => TypeOK
    <2> SUFFICES ASSUME ChannelInv, TypeInv, QueueInv PROVE TypeOK
      BY Zenon
    <2>1. {held, unread} \cup Members(out) \subseteq 0 .. batch /\ batch \in Nat
      <3>1. /\ batch \in Nat /\ held \in Nat /\ unread \in Nat /\ held <= batch /\ unread <= batch
            /\ out \in Seq(Nat) /\ \A n \in 1..Len(out) : out[n] <= batch
        BY Zenon DEF ChannelInv, TypeInv
      <3>2. \A x \in Members(out) : x \in 0 .. batch
        BY <3>1 DEF Members
      <3>. QED BY <3>1, <3>2
    <2>2. moved \in BOOLEAN
      BY Zenon DEF ChannelInv
    <2>3. QueueAgrees
      BY QueueInvAgrees, Zenon
    <2>. QED BY <2>1, <2>2, <2>3 DEF TypeOK, TypeInv, RunFlags, RequestFlags, Places, Outcomes
  <1>. QED BY <1>1, <1>2, <1>3, PTL DEF Spec
=============================================================================
