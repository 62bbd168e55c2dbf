------------------------- MODULE TurnAndToolProofs -------------------------
(***************************************************************************)
(* The two halves of a step of the agent loop, for every number of         *)
(* attempts, every size of the channel, batches of any size and kind,      *)
(* every limit and every set of review modes.                              *)
(*                                                                         *)
(* The model turn: the events of a step show one attempt of the retrying   *)
(* provider.  The argument is about the order of the channel: what an      *)
(* attempt sent comes before what a later one sends, and an attempt that   *)
(* showed a rate and was given up has its reset behind everything else it  *)
(* sent.                                                                   *)
(*                                                                         *)
(* The tool calls: an effect of a tool starts only when it may, and every  *)
(* recorded result is published.  The argument follows the group that      *)
(* executes: an execution in progress belongs to the first group of what   *)
(* is left of the batch, and events wait to be published only inside a     *)
(* wave of the runtime's own calls.                                        *)
(***************************************************************************)
EXTENDS AgentLoopProofs, FiniteSetTheorems

Kinds == {"progress", "text", "call", "stop", "calls", "bad", "halt", "error", "reset"}
Events == [kind : Kinds, from : Nat]
AttemptStates ==
    [n : Nat, at : {"none", "streaming", "backoff", "done"},
     committed : BOOLEAN, progress : BOOLEAN]

\* An attempt that was given up, or is about to be.
GivenUp(a) == a < attempt.n \/ attempt.at = "backoff"

StreamTypes ==
    /\ attempt \in AttemptStates /\ channel \in Seq(Events)
    /\ screen \in [text : Nat, rate : Nat]
    /\ pc # "stream" => attempt = NoAttempt /\ channel = <<>> /\ screen = Blank

\* The channel holds the events of the attempts in their order.
InOrder ==
    /\ \A j \in 1..Len(channel) : channel[j].from <= attempt.n
    /\ \A j, k \in 1..Len(channel) : j < k => channel[j].from <= channel[k].from

\* Text is output: the attempt that sent it is the last one.
TextIsLast ==
    /\ attempt.at = "backoff" => ~attempt.committed
    /\ \A j \in 1..Len(channel) :
         channel[j].kind = "text" => channel[j].from = attempt.n /\ attempt.committed
    /\ screen.text # 0 => /\ screen.text = attempt.n /\ attempt.committed
                          /\ \A j \in 1..Len(channel) : channel[j].from = attempt.n

\* A rate of an attempt that was given up has its reset still to come.
RatesAreReset ==
    /\ screen.rate <= attempt.n
    /\ screen.rate # 0 /\ screen.rate = attempt.n => attempt.progress
    /\ \A j \in 1..Len(channel) :
         channel[j].kind = "progress" /\ channel[j].from = attempt.n => attempt.progress
    /\ screen.rate # 0 /\ GivenUp(screen.rate) =>
         \E r \in 1..Len(channel) : channel[r].kind = "reset" /\ channel[r].from = screen.rate
    /\ \A j \in 1..Len(channel) :
         channel[j].kind = "progress" /\ GivenUp(channel[j].from) =>
           \E r \in 1..Len(channel) :
             j < r /\ channel[r].kind = "reset" /\ channel[r].from = channel[j].from
    /\ screen.text # 0 /\ screen.rate # 0 => screen.rate = screen.text

AttemptInv == StreamTypes /\ InOrder /\ TextIsLast /\ RatesAreReset

-----------------------------------------------------------------------------
(***************************************************************************)
(* The channel.                                                            *)
(***************************************************************************)
LEMMA SendFacts ==
    ASSUME StreamTypes, NEW kind \in Kinds, Send(kind)
    PROVE  /\ channel' \in Seq(Events) /\ Len(channel) \in Nat
           /\ Len(channel') = Len(channel) + 1
           /\ \A j \in 1..Len(channel) : channel'[j] = channel[j]
           /\ channel'[Len(channel) + 1].kind = kind
           /\ channel'[Len(channel) + 1].from = attempt.n
  <1>. DEFINE event == [kind |-> kind, from |-> attempt.n]
  <1>1. event \in Events /\ event.kind = kind /\ event.from = attempt.n
    BY Zenon DEF StreamTypes, AttemptStates, Events
  <1>2. channel' = Append(channel, event) /\ channel \in Seq(Events)
    BY Zenon DEF Send, StreamTypes
  <1>. HIDE DEF event
  <1>3. channel'[Len(channel) + 1] = event
    BY <1>1, <1>2
  <1>. QED BY <1>1, <1>2, <1>3

LEMMA TakeFacts ==
    ASSUME StreamTypes, channel # <<>>, channel' = Tail(channel)
    PROVE  /\ channel' \in Seq(Events) /\ Len(channel) \in Nat /\ Len(channel) >= 1
           /\ Len(channel') = Len(channel) - 1
           /\ \A j \in 1..Len(channel') : channel'[j] = channel[j + 1]
           /\ Head(channel) = channel[1] /\ channel[1] \in Events
  BY DEF StreamTypes

\* An attempt that is streaming sends an event.
LEMMA SendInv ==
    ASSUME AttemptInv, NEW kind \in Kinds, Send(kind),
           attempt.at = "streaming", attempt' \in AttemptStates, attempt'.n = attempt.n,
           UNCHANGED <<screen, pc>>,
           attempt.committed => attempt'.committed,
           attempt.progress => attempt'.progress,
           kind = "text" => attempt'.committed,
           kind = "progress" => attempt'.progress,
           attempt'.at = "backoff" => ~attempt'.committed /\ kind = "reset"
    PROVE  AttemptInv'
  <1>. DEFINE last == Len(channel) + 1
  <1>1. /\ channel' \in Seq(Events) /\ Len(channel) \in Nat /\ Len(channel') = last
        /\ \A j \in 1..Len(channel) : channel'[j] = channel[j]
        /\ channel'[last].kind = kind /\ channel'[last].from = attempt.n
    BY SendFacts, Zenon DEF AttemptInv
  <1>2. /\ attempt.n \in Nat /\ screen.text \in Nat /\ screen.rate \in Nat
        /\ \A j \in 1..Len(channel) : channel[j].from \in Nat
    <2>1. attempt.n \in Nat /\ screen.text \in Nat /\ screen.rate \in Nat
      BY Zenon DEF AttemptInv, StreamTypes, AttemptStates
    <2>2. ASSUME NEW j \in 1..Len(channel) PROVE channel[j].from \in Nat
      <3>1. channel[j] \in Events
        BY <1>1, <2>2 DEF AttemptInv, StreamTypes
      <3>. QED BY <3>1, Zenon DEF Events
    <2>. QED BY <2>1, <2>2, Zenon
  <1>3. \A j \in 1..Len(channel') : j \in 1..Len(channel) \/ j = last
    BY <1>1
  <1>4. StreamTypes'
    <2>1. pc = "stream"
      BY DEF AttemptInv, StreamTypes, NoAttempt
    <2>. QED BY <1>1, <2>1, Zenon DEF AttemptInv, StreamTypes
  <1>5. InOrder'
    <2>1. \A j \in 1..Len(channel') : channel'[j].from <= attempt'.n
      BY <1>1, <1>2, <1>3 DEF AttemptInv, InOrder
    <2>2. ASSUME NEW j \in 1..Len(channel'), NEW k \in 1..Len(channel'), j < k
          PROVE  channel'[j].from <= channel'[k].from
      <3>1. j \in 1..Len(channel)
        BY <1>1, <2>2
      <3>2. CASE k = last
        BY <1>1, <1>2, <3>1, <3>2, Zenon DEF AttemptInv, InOrder
      <3>3. CASE k \in 1..Len(channel)
        BY <1>1, <2>2, <3>1, <3>3, Zenon DEF AttemptInv, InOrder
      <3>. QED BY <1>3, <3>2, <3>3, Zenon
    <2>. QED BY <2>1, <2>2, Zenon DEF InOrder
  <1>6. TextIsLast'
    <2>1. ASSUME NEW j \in 1..Len(channel'), channel'[j].kind = "text"
          PROVE  channel'[j].from = attempt'.n /\ attempt'.committed
      BY <1>1, <1>3, <2>1, Zenon DEF AttemptInv, TextIsLast
    <2>2. ASSUME screen'.text # 0
          PROVE  /\ screen'.text = attempt'.n /\ attempt'.committed
                 /\ \A j \in 1..Len(channel') : channel'[j].from = attempt'.n
      BY <1>1, <1>3, <2>2 DEF AttemptInv, TextIsLast
    <2>. QED BY <2>1, <2>2, Zenon DEF TextIsLast
  <1>7. RatesAreReset'
    <2>1. screen'.rate <= attempt'.n
      BY Zenon DEF AttemptInv, RatesAreReset
    <2>2. screen'.rate # 0 /\ screen'.rate = attempt'.n => attempt'.progress
      BY Zenon DEF AttemptInv, RatesAreReset
    <2>3. ASSUME NEW j \in 1..Len(channel'), channel'[j].kind = "progress",
                 channel'[j].from = attempt'.n
          PROVE  attempt'.progress
      BY <1>1, <1>3, <2>3 DEF AttemptInv, RatesAreReset
    <2>4. ASSUME NEW a \in Nat, GivenUp(a)', a <= attempt.n
          PROVE  a < attempt.n \/ (a = attempt.n /\ kind = "reset")
      BY <1>2, <2>4 DEF GivenUp
    <2>5. ASSUME screen'.rate # 0, GivenUp(screen.rate)'
          PROVE  \E r \in 1..Len(channel') :
                    channel'[r].kind = "reset" /\ channel'[r].from = screen'.rate
      <3>1. CASE screen.rate < attempt.n
        <4>1. PICK r \in 1..Len(channel) : channel[r].kind = "reset" /\ channel[r].from = screen.rate
          BY <2>5, <3>1, Zenon DEF AttemptInv, RatesAreReset, GivenUp
        <4>. QED BY <1>1, <4>1
      <3>2. CASE screen.rate = attempt.n /\ kind = "reset"
        <4>1. last \in 1..Len(channel')
          BY <1>1
        <4>. QED BY <1>1, <3>2, <4>1, Zenon
      <3>. QED BY <1>2, <2>4, <2>5, <3>1, <3>2, Zenon DEF AttemptInv, RatesAreReset
    <2>6. ASSUME NEW j \in 1..Len(channel'), channel'[j].kind = "progress",
                 GivenUp(channel[j].from)'
          PROVE  \E r \in 1..Len(channel') :
                    j < r /\ channel'[r].kind = "reset" /\ channel'[r].from = channel'[j].from
      <3>1. channel'[j].from <= attempt.n /\ channel'[j].from \in Nat
        BY <1>1, <1>2, <1>3 DEF AttemptInv, InOrder
      <3>2. channel'[j].from < attempt.n \/ (channel'[j].from = attempt.n /\ kind = "reset")
        BY <1>2, <2>6, <3>1 DEF GivenUp
      <3>3. j \in 1..Len(channel) /\ channel'[j] = channel[j]
        BY <1>1, <1>2, <1>3, <2>6, <3>2, SMTT(20)
      <3>4. CASE channel[j].from < attempt.n
        <4>1. PICK r \in 1..Len(channel) :
                 j < r /\ channel[r].kind = "reset" /\ channel[r].from = channel[j].from
          BY <2>6, <3>3, <3>4, Zenon DEF AttemptInv, RatesAreReset, GivenUp
        <4>. QED BY <1>1, <3>3, <4>1
      <3>5. CASE channel[j].from = attempt.n /\ kind = "reset"
        <4>1. last \in 1..Len(channel') /\ j < last
          BY <1>1, <3>3
        <4>. QED BY <1>1, <3>3, <3>5, <4>1, ZenonT(30)
      <3>. QED BY <3>2, <3>3, <3>4, <3>5, Zenon
    <2>7. screen'.text # 0 /\ screen'.rate # 0 => screen'.rate = screen'.text
      BY Zenon DEF AttemptInv, RatesAreReset
    <2>. QED BY <2>1, <2>2, <2>3, <2>5, <2>6, <2>7, Zenon DEF RatesAreReset
  <1>. QED BY <1>4, <1>5, <1>6, <1>7, Zenon DEF AttemptInv

\* What OneAttemptShown says of a step.
Shown ==
    /\ screen.text # 0 /\ screen'.text # 0 => screen'.text = screen.text
    /\ screen'.text # 0 /\ screen'.rate # 0 => screen'.rate = screen'.text

\* Events taken from the channel are those left, and the older ones are first.
LEMMA TakeKeeps ==
    ASSUME AttemptInv, channel # <<>>, channel' = Tail(channel), attempt' = attempt
    PROVE  /\ InOrder'
           /\ \A j \in 1..Len(channel') :
                /\ channel'[j].kind = "text" => channel'[j].from = attempt.n /\ attempt.committed
                /\ channel'[j].kind = "progress" /\ channel'[j].from = attempt.n => attempt.progress
                /\ channel'[j].kind = "progress" /\ GivenUp(channel[j].from)' =>
                     \E r \in 1..Len(channel') :
                       j < r /\ channel'[r].kind = "reset" /\ channel'[r].from = channel'[j].from
  <1>1. /\ Len(channel) \in Nat /\ Len(channel') = Len(channel) - 1
        /\ \A j \in 1..Len(channel') : channel'[j] = channel[j + 1] /\ j + 1 \in 1..Len(channel)
    BY TakeFacts DEF AttemptInv
  <1>2. InOrder'
    BY <1>1 DEF AttemptInv, InOrder
  <1>3. ASSUME NEW j \in 1..Len(channel')
        PROVE  /\ channel'[j].kind = "text" => channel'[j].from = attempt.n /\ attempt.committed
               /\ channel'[j].kind = "progress" /\ channel'[j].from = attempt.n => attempt.progress
    BY <1>1 DEF AttemptInv, TextIsLast, RatesAreReset
  <1>4. ASSUME NEW j \in 1..Len(channel'), channel'[j].kind = "progress", GivenUp(channel[j].from)'
        PROVE  \E r \in 1..Len(channel') :
                  j < r /\ channel'[r].kind = "reset" /\ channel'[r].from = channel'[j].from
    <2>1. channel[j + 1].kind = "progress" /\ GivenUp(channel[j + 1].from)
      BY <1>1, <1>4, Zenon DEF GivenUp
    <2>2. PICK r \in 1..Len(channel) :
             j + 1 < r /\ channel[r].kind = "reset" /\ channel[r].from = channel[j + 1].from
      BY <1>1, <1>4, <2>1, Zenon DEF AttemptInv, RatesAreReset
    <2>3. r - 1 \in 1..Len(channel') /\ j < r - 1 /\ (r - 1) + 1 = r
      BY <1>1, <1>4, <2>2
    <2>. QED BY <1>1, <1>4, <2>2, <2>3, ZenonT(30)
  <1>. QED BY <1>2, <1>3, <1>4, Zenon

\* The consumer shows an event that does not end the stream.
LEMMA ShowsInv ==
    ASSUME AttemptInv, pc = "stream", channel # <<>>, channel' = Tail(channel),
           NEW text, NEW rate, Shows(text, rate),
           \/ /\ Head(channel).kind = "progress" /\ text = screen.text
              /\ rate = Head(channel).from \/ rate = screen.rate
           \/ Head(channel).kind = "reset" /\ text = screen.text /\ rate = 0
           \/ Head(channel).kind = "text" /\ text = Head(channel).from /\ rate = screen.rate
           \/ Head(channel).kind = "call" /\ text = screen.text /\ rate = screen.rate
    PROVE  AttemptInv' /\ Shown
  <1>. DEFINE first == channel[1]
  <1>1. /\ Len(channel) \in Nat /\ Len(channel) >= 1 /\ Len(channel') = Len(channel) - 1
        /\ \A j \in 1..Len(channel') : channel'[j] = channel[j + 1] /\ j + 1 \in 1..Len(channel)
        /\ Head(channel) = first /\ first \in Events /\ channel' \in Seq(Events)
    BY TakeFacts DEF AttemptInv
  <1>2. /\ attempt' = attempt /\ pc' = pc
        /\ screen' = [text |-> text, rate |-> rate] /\ screen'.text = text /\ screen'.rate = rate
    BY Zenon DEF Shows
  <1>3. first.from \in Nat /\ screen.text \in Nat /\ screen.rate \in Nat /\ attempt.n \in Nat
    BY <1>1, Zenon DEF AttemptInv, StreamTypes, AttemptStates, Events
  <1>4. text \in Nat /\ rate \in Nat
    BY <1>1, <1>3
  <1>5. StreamTypes'
    BY <1>1, <1>2, <1>4, Zenon DEF AttemptInv, StreamTypes
  <1>6. first.from <= attempt.n
        /\ \A k \in 1..Len(channel) : first.from <= channel[k].from /\ channel[k].from <= attempt.n
    BY <1>1, <1>3 DEF AttemptInv, InOrder
  <1>7. text # 0 =>
          /\ text = attempt.n /\ attempt.committed
          /\ \A j \in 1..Len(channel) : channel[j].from = attempt.n
    <2>1. CASE text = screen.text
      BY <2>1, Zenon DEF AttemptInv, TextIsLast
    <2>2. CASE first.kind = "text" /\ text = first.from
      <3>1. first.from = attempt.n /\ attempt.committed
        BY <1>1, <2>2 DEF AttemptInv, TextIsLast
      <3>2. \A k \in 1..Len(channel) : channel[k] \in Events
        BY <1>1 DEF AttemptInv, StreamTypes
      <3>3. \A k \in 1..Len(channel) : channel[k].from \in Nat
        BY <3>2, ZenonT(30) DEF Events
      <3>. QED BY <1>3, <1>6, <2>2, <3>1, <3>3, SMTT(20)
    <2>. QED BY <1>1, <2>1, <2>2, Zenon
  <1>8. TextIsLast'
    BY <1>1, <1>2, <1>7, TakeKeeps DEF TextIsLast, AttemptInv
  <1>9. rate # 0 /\ GivenUp(rate) =>
          \E r \in 1..Len(channel) : 1 < r /\ channel[r].kind = "reset" /\ channel[r].from = rate
    <2>. SUFFICES ASSUME rate # 0, GivenUp(rate)
                  PROVE  \E r \in 1..Len(channel) :
                            1 < r /\ channel[r].kind = "reset" /\ channel[r].from = rate
      BY Zenon
    <2>1. CASE first.kind = "progress" /\ rate = first.from
      BY <1>1, <2>1 DEF AttemptInv, RatesAreReset
    <2>2. CASE first.kind # "reset" /\ rate = screen.rate
      <3>1. PICK r \in 1..Len(channel) : channel[r].kind = "reset" /\ channel[r].from = rate
        BY <2>2, Zenon DEF AttemptInv, RatesAreReset
      <3>. QED BY <1>1, <2>2, <3>1
    <2>. QED BY <1>1, <2>1, <2>2, Zenon
  <1>10. text # 0 /\ rate # 0 => rate = text
    <2>. SUFFICES ASSUME text # 0, rate # 0 PROVE rate = text
      BY Zenon
    <2>1. rate <= attempt.n
      BY <1>1, <1>6 DEF AttemptInv, RatesAreReset
    <2>2. ~(rate < attempt.n)
      BY <1>3, <1>4, <1>7, <1>9 DEF GivenUp
    <2>. QED BY <1>3, <1>4, <1>7, <2>1, <2>2
  <1>11. RatesAreReset'
    <2>1. rate <= attempt.n
      BY <1>1, <1>3, <1>6 DEF AttemptInv, RatesAreReset
    <2>2. rate # 0 /\ rate = attempt.n => attempt.progress
      BY <1>1 DEF AttemptInv, RatesAreReset
    <2>3. rate # 0 /\ GivenUp(rate) =>
            \E r \in 1..Len(channel') : channel'[r].kind = "reset" /\ channel'[r].from = rate
      <3>. SUFFICES ASSUME rate # 0, GivenUp(rate)
                    PROVE  \E r \in 1..Len(channel') :
                              channel'[r].kind = "reset" /\ channel'[r].from = rate
        BY Zenon
      <3>1. PICK r \in 1..Len(channel) :
               1 < r /\ channel[r].kind = "reset" /\ channel[r].from = rate
        BY <1>9, Zenon
      <3>2. r - 1 \in 1..Len(channel') /\ (r - 1) + 1 = r
        BY <1>1, <3>1
      <3>. QED BY <1>1, <3>1, <3>2, Zenon
    <2>4. GivenUp(screen.rate)' <=> GivenUp(rate)
      BY <1>2, Zenon DEF GivenUp
    <2>5. /\ screen'.rate <= attempt'.n
          /\ screen'.rate # 0 /\ screen'.rate = attempt'.n => attempt'.progress
          /\ screen'.text # 0 /\ screen'.rate # 0 => screen'.rate = screen'.text
      BY <1>2, <1>10, <2>1, <2>2, ZenonT(30)
    <2>6. screen'.rate # 0 /\ GivenUp(screen.rate)' =>
            \E r \in 1..Len(channel') : channel'[r].kind = "reset" /\ channel'[r].from = screen'.rate
      BY <1>2, <2>3, <2>4, Zenon
    <2>7. \A j \in 1..Len(channel') :
            channel'[j].kind = "progress" /\ channel'[j].from = attempt'.n => attempt'.progress
      BY <1>2, TakeKeeps, Zenon
    <2>8. \A j \in 1..Len(channel') :
            channel'[j].kind = "progress" /\ GivenUp(channel[j].from)' =>
                 \E r \in 1..Len(channel') :
                   j < r /\ channel'[r].kind = "reset" /\ channel'[r].from = channel'[j].from
      BY <1>2, TakeKeeps, Zenon
    <2>. QED BY <2>5, <2>6, <2>7, <2>8, ZenonT(30) DEF RatesAreReset
  <1>12. Shown
    <2>1. screen.text # 0 => screen.text = attempt.n
      BY Zenon DEF AttemptInv, TextIsLast
    <2>. QED BY <1>2, <1>7, <1>10, <2>1, Zenon DEF Shown
  <1>13. InOrder'
    BY <1>2, TakeKeeps
  <1>. QED BY <1>5, <1>8, <1>11, <1>12, <1>13, Zenon DEF AttemptInv

-----------------------------------------------------------------------------
(***************************************************************************)
(* The steps.                                                              *)
(***************************************************************************)

\* A stream that is closed, or has not begun, shows nothing.
LEMMA ClosedInv ==
    ASSUME StreamClosed
    PROVE  AttemptInv' /\ Shown
  <1>1. /\ attempt' = NoAttempt /\ channel' = <<>> /\ screen' = Blank
        /\ screen'.text = 0 /\ screen'.rate = 0 /\ attempt'.n = 0 /\ attempt'.at = "none"
    BY Zenon DEF StreamClosed, NoAttempt, Blank
  <1>2. NoAttempt \in AttemptStates /\ Blank \in [text : Nat, rate : Nat]
    BY Zenon DEF NoAttempt, AttemptStates, Blank
  <1>3. channel' \in Seq(Events) /\ Len(channel') = 0 /\ 1..Len(channel') = {}
    BY <1>1
  <1>4. StreamTypes'
    BY <1>1, <1>2, <1>3, Zenon DEF StreamTypes
  <1>5. InOrder' /\ TextIsLast' /\ RatesAreReset'
    BY <1>1, <1>3 DEF InOrder, TextIsLast, RatesAreReset
  <1>. QED BY <1>1, <1>4, <1>5, Zenon DEF AttemptInv, Shown

\* A step that leaves the stream alone does not enter or leave it.
LEMMA KeepInv ==
    ASSUME AttemptInv, UNCHANGED <<attempt, channel, screen>>,
           pc = "stream" => pc' = "stream"
    PROVE  AttemptInv' /\ Shown
  <1>1. StreamTypes'
    BY Zenon DEF AttemptInv, StreamTypes
  <1>2. InOrder' /\ TextIsLast'
    BY Zenon DEF AttemptInv, InOrder, TextIsLast
  <1>3. RatesAreReset'
    BY DEF AttemptInv, RatesAreReset, GivenUp
  <1>4. Shown
    BY Zenon DEF AttemptInv, RatesAreReset, Shown
  <1>. QED BY <1>1, <1>2, <1>3, <1>4, Zenon DEF AttemptInv

LEMMA RecordInputInv ==
    ASSUME AttemptInv, RecordInput
    PROVE  AttemptInv' /\ Shown
  <1>1. CASE StepCancels \/ StepFails
    BY <1>1, ClosedInv, Zenon DEF StepCancels, StepFails
  <1>2. CASE /\ attempt' = [NoAttempt EXCEPT !.n = 1, !.at = "streaming"]
             /\ pc' = "stream" /\ UNCHANGED <<channel, screen>>
    <2>1. channel' = <<>> /\ screen' = Blank /\ screen = Blank
      BY <1>2, Zenon DEF RecordInput, AttemptInv, StreamTypes
    <2>2. attempt' \in AttemptStates /\ attempt'.n = 1 /\ attempt'.at = "streaming"
      BY <1>2, Zenon DEF NoAttempt, AttemptStates
    <2>3. screen'.text = 0 /\ screen'.rate = 0 /\ Blank \in [text : Nat, rate : Nat]
      BY <2>1, Zenon DEF Blank
    <2>4. channel' \in Seq(Events) /\ 1..Len(channel') = {}
      BY <2>1
    <2>5. StreamTypes'
      BY <1>2, <2>1, <2>2, <2>3, <2>4, ZenonT(30) DEF StreamTypes
    <2>6. InOrder' /\ TextIsLast' /\ RatesAreReset' /\ Shown
      BY <2>2, <2>3, <2>4 DEF InOrder, TextIsLast, RatesAreReset, Shown
    <2>. QED BY <2>5, <2>6, Zenon DEF AttemptInv
  <1>. QED BY <1>1, <1>2, Zenon DEF RecordInput

LEMMA StreamNumbers ==
    ASSUME AttemptInv
    PROVE  /\ attempt.n \in Nat /\ screen.text \in Nat /\ screen.rate \in Nat
           /\ \A j \in 1..Len(channel) : channel[j].from \in Nat
  <1>1. attempt.n \in Nat /\ screen.text \in Nat /\ screen.rate \in Nat
    BY Zenon DEF AttemptInv, StreamTypes, AttemptStates
  <1>2. ASSUME NEW j \in 1..Len(channel) PROVE channel[j].from \in Nat
    <2>1. channel[j] \in Events
      BY <1>2 DEF AttemptInv, StreamTypes
    <2>. QED BY <2>1, Zenon DEF Events
  <1>. QED BY <1>1, <1>2, Zenon

LEMMA AttemptEventInv ==
    ASSUME AttemptInv, AttemptEvent
    PROVE  AttemptInv' /\ Shown
  <1>1. PICK kind \in {"progress", "text", "call", "stop", "calls", "bad", "halt"} :
          /\ Send(kind)
          /\ attempt' = [attempt EXCEPT
                !.committed = attempt.committed \/ CommitsOutput(kind),
                !.progress = attempt.progress \/ kind = "progress",
                !.at = IF kind \in {"stop", "calls", "bad", "halt"} THEN "done" ELSE @]
    BY Zenon DEF AttemptEvent
  <1>2. attempt \in AttemptStates /\ attempt.at = "streaming" /\ UNCHANGED <<screen, pc>>
    BY Zenon DEF AttemptInv, StreamTypes, AttemptEvent, AttemptOnly
  <1>. DEFINE c == attempt.committed \/ CommitsOutput(kind)
              p == attempt.progress \/ kind = "progress"
              a1 == [attempt EXCEPT !.committed = c]
              a2 == [a1 EXCEPT !.progress = p]
              a3 == [a2 EXCEPT !.at = IF kind \in {"stop", "calls", "bad", "halt"}
                                        THEN "done" ELSE @]
  <1>3. attempt' = a3
    BY <1>1, Zenon
  <1>4. /\ c \in BOOLEAN /\ p \in BOOLEAN
        /\ attempt.committed => c
        /\ attempt.progress => p
        /\ kind = "progress" => p
        /\ kind = "text" => c
    BY Zenon DEF CommitsOutput
  <1>. HIDE DEF c, p
  <1>5. a1 \in AttemptStates /\ a1.n = attempt.n /\ a1.at = "streaming" /\ a1.committed = c
    BY <1>2, <1>4, Zenon DEF AttemptStates
  <1>. HIDE DEF a1
  <1>6. /\ a2 \in AttemptStates /\ a2.n = attempt.n /\ a2.at = "streaming"
        /\ a2.committed = c /\ a2.progress = p
    BY <1>4, <1>5, Zenon DEF AttemptStates
  <1>. HIDE DEF a2
  <1>7. /\ a3 \in AttemptStates /\ a3.n = attempt.n /\ a3.at # "backoff"
        /\ a3.committed = c /\ a3.progress = p
    BY <1>6, Zenon DEF AttemptStates
  <1>. HIDE DEF a3
  <1>8. AttemptInv'
    BY <1>1, <1>2, <1>3, <1>4, <1>7, SendInv, Zenon DEF Kinds
  <1>9. Shown
    BY <1>2, Zenon DEF AttemptInv, RatesAreReset, Shown
  <1>. QED BY <1>8, <1>9, Zenon

LEMMA AttemptFailsInv ==
    ASSUME AttemptInv, AttemptFails
    PROVE  AttemptInv' /\ Shown
  <1>1. attempt \in AttemptStates /\ attempt.at = "streaming" /\ UNCHANGED <<screen, pc>>
    BY Zenon DEF AttemptInv, StreamTypes, AttemptFails, AttemptOnly
  <1>2. Shown
    BY <1>1, Zenon DEF AttemptInv, RatesAreReset, Shown
  <1>3. CASE Send("error") /\ attempt' = [attempt EXCEPT !.at = "done"]
    <2>1. /\ attempt' \in AttemptStates /\ attempt'.n = attempt.n /\ attempt'.at = "done"
          /\ attempt'.committed = attempt.committed /\ attempt'.progress = attempt.progress
      BY <1>1, <1>3, Zenon DEF AttemptStates
    <2>. QED BY <1>1, <1>3, <1>2, <2>1, SendInv, ZenonT(30) DEF Kinds
  <1>4. CASE /\ ~attempt.committed /\ attempt' = [attempt EXCEPT !.at = "backoff"]
             /\ attempt.progress /\ Send("reset")
    <2>1. /\ attempt' \in AttemptStates /\ attempt'.n = attempt.n
          /\ attempt'.committed = attempt.committed /\ attempt'.progress = attempt.progress
      BY <1>1, <1>4, Zenon DEF AttemptStates
    <2>. QED BY <1>1, <1>4, <1>2, <2>1, SendInv, ZenonT(30) DEF Kinds
  <1>5. CASE /\ ~attempt.committed /\ attempt' = [attempt EXCEPT !.at = "backoff"]
             /\ ~attempt.progress /\ UNCHANGED channel
    <2>1. /\ attempt' \in AttemptStates /\ attempt'.n = attempt.n /\ attempt'.at = "backoff"
          /\ attempt'.committed = attempt.committed /\ attempt'.progress = attempt.progress
      BY <1>1, <1>5, Zenon DEF AttemptStates
    <2>2. pc = "stream"
      BY <1>1 DEF AttemptInv, StreamTypes, NoAttempt
    <2>3. StreamTypes'
      BY <1>1, <1>5, <2>1, <2>2, Zenon DEF AttemptInv, StreamTypes
    <2>4. InOrder' /\ TextIsLast'
      BY <1>1, <1>5, <2>1, ZenonT(30) DEF AttemptInv, InOrder, TextIsLast
    <2>5. RatesAreReset'
      <3>1. RatesAreReset /\ InOrder /\ UNCHANGED <<screen, channel>>
        BY <1>1, <1>5, Zenon DEF AttemptInv
      <3>2. /\ screen.rate # 0 => screen.rate < attempt.n
            /\ \A j \in 1..Len(channel) : channel[j].kind = "progress" => channel[j].from < attempt.n
        BY <1>5, <3>1, StreamNumbers DEF RatesAreReset, InOrder
      <3>3. /\ screen.rate # 0 =>
                 \E r \in 1..Len(channel) : channel[r].kind = "reset" /\ channel[r].from = screen.rate
            /\ \A j \in 1..Len(channel) : channel[j].kind = "progress" =>
                 \E r \in 1..Len(channel) :
                   j < r /\ channel[r].kind = "reset" /\ channel[r].from = channel[j].from
        BY <3>1, <3>2, Zenon DEF RatesAreReset, GivenUp
      <3>. QED BY <2>1, <3>1, <3>3 DEF RatesAreReset
    <2>. QED BY <1>2, <2>3, <2>4, <2>5, Zenon DEF AttemptInv
  <1>. QED BY <1>3, <1>4, <1>5, Zenon DEF AttemptFails, MayRetry

LEMMA NextAttemptInv ==
    ASSUME AttemptInv, NextAttempt
    PROVE  AttemptInv' /\ Shown
  <1>1. attempt \in AttemptStates /\ attempt.at = "backoff" /\ UNCHANGED <<screen, pc, channel>>
    BY Zenon DEF AttemptInv, StreamTypes, NextAttempt, AttemptOnly
  <1>2. /\ attempt' \in AttemptStates /\ attempt'.n = attempt.n + 1 /\ attempt'.at = "streaming"
        /\ attempt.n \in Nat
    <2>. DEFINE a1 == [NoAttempt EXCEPT !.n = attempt.n + 1]
    <2>1. attempt.n \in Nat
      BY StreamNumbers, Zenon
    <2>2. a1 \in AttemptStates /\ a1.n = attempt.n + 1
      <3>1. NoAttempt \in AttemptStates
        BY Zenon DEF NoAttempt, AttemptStates
      <3>. QED BY <2>1, <3>1 DEF AttemptStates
    <2>3. attempt' = [a1 EXCEPT !.at = "streaming"]
      BY Zenon DEF NextAttempt
    <2>. HIDE DEF a1
    <2>. QED BY <2>1, <2>2, <2>3, Zenon DEF AttemptStates
  <1>3. screen.text = 0 /\ \A j \in 1..Len(channel) : channel[j].kind # "text"
    BY <1>1, Zenon DEF AttemptInv, TextIsLast
  <1>4. pc = "stream"
    BY <1>1 DEF AttemptInv, StreamTypes, NoAttempt
  <1>5. screen.rate \in Nat /\ \A j \in 1..Len(channel) : channel[j].from \in Nat
    BY StreamNumbers, Zenon
  <1>6. StreamTypes'
    BY <1>1, <1>2, <1>4, ZenonT(30) DEF AttemptInv, StreamTypes
  <1>7. InOrder' /\ TextIsLast'
    BY <1>1, <1>2, <1>3, <1>5, SMTT(20) DEF AttemptInv, InOrder, TextIsLast
  <1>8. RatesAreReset'
    <2>1. RatesAreReset /\ InOrder
      BY Zenon DEF AttemptInv
    <2>2. /\ screen.rate # 0 =>
               \E r \in 1..Len(channel) : channel[r].kind = "reset" /\ channel[r].from = screen.rate
          /\ \A j \in 1..Len(channel) : channel[j].kind = "progress" =>
               \E r \in 1..Len(channel) :
                 j < r /\ channel[r].kind = "reset" /\ channel[r].from = channel[j].from
      BY <1>1, <2>1, Zenon DEF RatesAreReset, GivenUp
    <2>3. /\ screen.rate < attempt.n + 1
          /\ \A j \in 1..Len(channel) : channel[j].from < attempt.n + 1
      BY <1>2, <1>5, <2>1 DEF RatesAreReset, InOrder
    <2>4. /\ screen.rate <= attempt'.n /\ screen.rate # attempt'.n
          /\ \A j \in 1..Len(channel) : channel[j].from # attempt'.n
      BY <1>2, <1>5, <2>3
    <2>. QED BY <1>1, <1>3, <2>2, <2>4 DEF RatesAreReset
  <1>9. Shown
    BY <1>1, <1>3, Zenon DEF Shown
  <1>. QED BY <1>6, <1>7, <1>8, <1>9, Zenon DEF AttemptInv

LEMMA ConsumeEventInv ==
    ASSUME AttemptInv, ConsumeEvent
    PROVE  AttemptInv' /\ Shown
  <1>. DEFINE kind == Head(channel).kind
              from == Head(channel).from
  <1>1. pc = "stream" /\ channel # <<>>
    BY Zenon DEF ConsumeEvent
  <1>2. \/ StreamClosed
        \/ /\ channel' = Tail(channel)
           /\ \/ /\ kind = "progress"
                 /\ Shows(screen.text, from) \/ Shows(screen.text, screen.rate)
              \/ kind = "reset" /\ Shows(screen.text, 0)
              \/ kind = "text" /\ Shows(from, screen.rate)
              \/ kind = "call" /\ Shows(screen.text, screen.rate)
    BY Zenon DEF ConsumeEvent, StepFails, StepCancels, RecordAnswer, RecordCalls, StreamClosed
  <1>3. CASE StreamClosed
    BY <1>3, ClosedInv, Zenon
  <1>4. CASE channel' = Tail(channel) /\ kind = "progress" /\ Shows(screen.text, from)
    BY <1>1, <1>4, ShowsInv, Zenon
  <1>5. CASE /\ channel' = Tail(channel) /\ kind \in {"progress", "call"}
             /\ Shows(screen.text, screen.rate)
    BY <1>1, <1>5, ShowsInv, Zenon
  <1>6. CASE channel' = Tail(channel) /\ kind = "reset" /\ Shows(screen.text, 0)
    BY <1>1, <1>6, ShowsInv, ZenonT(30)
  <1>7. CASE channel' = Tail(channel) /\ kind = "text" /\ Shows(from, screen.rate)
    BY <1>1, <1>7, ShowsInv, ZenonT(30)
  <1>. QED BY <1>2, <1>3, <1>4, <1>5, <1>6, <1>7, ZenonT(30)

LEMMA TurnStepInv ==
    ASSUME AttemptInv, TurnStep
    PROVE  AttemptInv' /\ Shown
  <1>1. CASE StartStep
    BY <1>1, ClosedInv, KeepInv, ZenonT(30) DEF StartStep, StepCancels, StepFails, turnVars
  <1>2. CASE PrepareRequest
    BY <1>2, ClosedInv, KeepInv DEF PrepareRequest, StepCancels, StepFails, turnVars
  <1>3. CASE BeginTurn
    BY <1>3, ClosedInv, KeepInv, ZenonT(30) DEF BeginTurn, StepCancels, StepFails, turnVars
  <1>4. CASE RecordInput
    BY <1>4, RecordInputInv, Zenon
  <1>5. CASE Attempts
    BY <1>5, AttemptEventInv, AttemptFailsInv, NextAttemptInv, ZenonT(30) DEF Attempts
  <1>6. CASE ConsumeEvent
    BY <1>6, ConsumeEventInv, Zenon
  <1>7. CASE ConsumeCancelled
    BY <1>7, ClosedInv, Zenon DEF ConsumeCancelled, StepCancels
  <1>8. CASE AnnounceCalls
    BY <1>8, KeepInv DEF AnnounceCalls
  <1>. QED BY <1>1, <1>2, <1>3, <1>4, <1>5, <1>6, <1>7, <1>8, SMTT(20) DEF TurnStep

LEMMA StepShows ==
    ASSUME Inv, AttemptInv, [Next]_vars
    PROVE  AttemptInv' /\ Shown
  <1>1. CASE LoopStep
    <2>1. UNCHANGED <<attempt, channel, screen>>
      BY <1>1, Zenon DEF LoopStep, LoopTop, OnStepEnded, OnCompleted, OnToolResultRecorded,
             OnFinalOutput, OnCalls, GroupEnds, OfferBridge, TakeBridgeResult, CancelBridge,
             SettleBridge, OutcomeOnly, NotLoop, turnVars
    <2>2. pc # "stream"
      BY <1>1, LoopStepSound, Zenon DEF LoopPlaces
    <2>. QED BY <2>1, <2>2, KeepInv, Zenon
  <1>2. CASE TurnStep
    BY <1>2, TurnStepInv, Zenon
  <1>3. CASE ReductionStep /\ UNCHANGED turnVars
    <2>1. pc = "stream" => pc' = "stream"
      BY <1>3, ReductionStepSound, Zenon DEF ReductionPlaces
    <2>. QED BY <1>3, <2>1, KeepInv, Zenon DEF turnVars
  <1>4. CASE DropRun
    BY <1>4, ClosedInv, Zenon DEF DropRun
  <1>5. ASSUME UNCHANGED <<attempt, channel, screen>>, pc' = pc \/ pc = "idle"
        PROVE  AttemptInv' /\ Shown
    BY <1>5, KeepInv, Zenon
  <1>6. CASE StartRun \/ Cancel \/ RaiseNotice \/ SettleCalls \/ HostSubmits
    BY <1>5, <1>6, Zenon DEF StartRun, Cancel, RaiseNotice, SettleCalls, HostSubmits, PermitFree,
                      NotLoop, turnVars
  <1>7. CASE ToolStep /\ UNCHANGED <<reductionVars, turnVars>>
    BY <1>5, <1>7, ToolStepSound, ZenonT(30) DEF turnVars
  <1>8. CASE CompactContext /\ UNCHANGED turnVars
    BY <1>5, <1>8, Zenon DEF CompactContext, PermitFree, turnVars
  <1>9. CASE HostAnswers /\ UNCHANGED turnVars
    BY <1>5, <1>9, Zenon DEF HostAnswers, ToolFrame, turnVars
  <1>10. CASE UNCHANGED vars
    BY <1>5, <1>10, Zenon DEF vars, turnVars
  <1>. QED BY <1>1, <1>2, <1>3, <1>4, <1>6, <1>7, <1>8, <1>9, <1>10, SMTT(20) DEF Next, System, Host

\* Whatever the provider sends and however its attempts fail, a step shows the
\* text of one attempt, and beside it no rate of another (OneAttemptShown).
THEOREM StepShowsOneAttempt == Spec => OneAttemptShown
  <1>1. Init => AttemptInv
    <2>. SUFFICES ASSUME Init PROVE AttemptInv
      BY Zenon
    <2>1. /\ attempt = NoAttempt /\ channel = <<>> /\ screen = Blank
          /\ screen.text = 0 /\ screen.rate = 0 /\ attempt.n = 0 /\ attempt.at = "none"
      BY Zenon DEF Init, TurnInit, NoAttempt, Blank
    <2>2. NoAttempt \in AttemptStates /\ Blank \in [text : Nat, rate : Nat]
      BY DEF NoAttempt, AttemptStates, Blank
    <2>3. channel \in Seq(Events) /\ 1..Len(channel) = {}
      BY <2>1
    <2>4. StreamTypes
      BY <2>1, <2>2, <2>3, Zenon DEF StreamTypes
    <2>5. \A j \in 1..Len(channel) : FALSE
      BY <2>3, Zenon
    <2>6. InOrder
      BY <2>5, Zenon DEF InOrder
    <2>7. TextIsLast
      BY <2>1, <2>5, Zenon DEF TextIsLast
    <2>8. screen.rate <= attempt.n
      BY <2>1
    <2>9. RatesAreReset
      BY <2>1, <2>5, <2>8, Zenon DEF RatesAreReset
    <2>. QED BY <2>4, <2>6, <2>7, <2>9, ZenonT(30) DEF AttemptInv
  <1>2. Inv /\ AttemptInv /\ [Next]_vars => AttemptInv'
    BY StepShows, Zenon
  <1>3. Inv /\ AttemptInv /\ [Next]_vars =>
          [/\ screen.text # 0 /\ screen'.text # 0 => screen'.text = screen.text
           /\ screen'.text # 0 /\ screen'.rate # 0 => screen'.rate = screen'.text]_screen
    BY StepShows, Zenon DEF Shown
  <1>. QED BY Invariant, <1>1, <1>2, <1>3, PTL DEF Spec, OneAttemptShown

-----------------------------------------------------------------------------
(***************************************************************************)
(* The tool calls of a turn.                                               *)
(***************************************************************************)

Running == {i \in DOMAIN exec : exec[i] \in Active}

CallsInv ==
    /\ "answer" \in DOMAIN review
    /\ pc # "tools" => events = {} /\ bridge = "none" /\ exec = <<>>
    /\ pc = "tools" =>
         /\ todo \subseteq DOMAIN exec /\ todo \subseteq 1..MaxBatch
         /\ pending \subseteq todo
         /\ \A i \in todo : exec[i] = "ok" => i \notin pending
         /\ \A i \in todo : ~IsBridge(i) /\ exec[i] # "ok" => i \in pending
         /\ \A i \in Running : i \in Group /\ ~IsBridge(i)
         /\ Cardinality(Running) <= MaxParallel
         /\ bridge # "none" => BridgeWave
         /\ BridgeWave => events = {}

-----------------------------------------------------------------------------
(***************************************************************************)
(* Waves and groups.                                                       *)
(***************************************************************************)
LEMMA GroupFacts ==
    /\ Group \subseteq Wave /\ Wave \subseteq todo
    /\ todo \subseteq Nat =>
         /\ \A i, j \in Wave : IsBridge(i) <=> IsBridge(j)
         /\ \A i, j \in Group : i # j => ParallelSafe(i) /\ ParallelSafe(j)
  <1>1. Group \subseteq Wave /\ Wave \subseteq todo
    BY Zenon DEF Group, Wave
  <1>2. ASSUME todo \subseteq Nat, NEW i \in Wave, NEW j \in Wave
        PROVE  IsBridge(i) <=> IsBridge(j)
    <2>1. i \in Nat /\ j \in Nat /\ i \in todo /\ j \in todo
      BY <1>1, <1>2, Zenon
    <2>2. i <= j \/ j <= i
      BY <2>1
    <2>. QED BY <2>1, <2>2, Zenon DEF Wave
  <1>3. ASSUME todo \subseteq Nat, NEW i \in Group, NEW j \in Group, i # j
        PROVE  ParallelSafe(i) /\ ParallelSafe(j)
    <2>1. i \in Nat /\ j \in Nat /\ i \in todo /\ j \in todo
      BY <1>1, <1>3, Zenon
    <2>2. i < j \/ j < i
      BY <1>3, <2>1
    <2>. QED BY <2>1, <2>2, Zenon DEF Group
  <1>. QED BY <1>1, <1>2, <1>3, Zenon

\* A bridge wave has no call of the runtime.
LEMMA RuntimeWave ==
    ASSUME todo \subseteq Nat, NEW i \in Group, ~IsBridge(i)
    PROVE  ~BridgeWave
  BY GroupFacts, Zenon DEF BridgeWave

\* What is left after a group that is not the whole wave is more of that wave.
LEMMA WaveGoesOn ==
    ASSUME todo \subseteq Nat, Group # Wave, ~BridgeWave,
           todo' = todo \ Group, batch' = batch
    PROVE  ~BridgeWave'
  <1>1. PICK w \in Wave : w \notin Group
    BY GroupFacts, Zenon
  <1>2. w \in todo' /\ w \in Nat /\ ~IsBridge(w)
    BY <1>1, GroupFacts, Zenon DEF BridgeWave
  <1>3. ASSUME NEW i \in Wave', IsBridge(i)' PROVE FALSE
    <2>1. /\ i \in todo' /\ i \in todo /\ i \in Nat /\ IsBridge(i)
          /\ \A j \in todo' : j <= i => (IsBridge(j)' <=> IsBridge(i)')
      BY <1>3, Zenon DEF Wave, IsBridge
    <2>2. i <= w \/ w <= i
      BY <1>2, <2>1
    <2>3. ~(w <= i)
      BY <1>2, <2>1, Zenon DEF IsBridge
    <2>4. ~(i <= w)
      BY <1>1, <1>2, <2>1, ZenonT(30) DEF Wave
    <2>. QED BY <2>2, <2>3, <2>4, Zenon
  <1>. QED BY <1>3, Zenon DEF BridgeWave

-----------------------------------------------------------------------------
(***************************************************************************)
(* Steps of one call.                                                      *)
(***************************************************************************)

LEMMA RunningIsFinite ==
    ASSUME CallsInv, pc = "tools"
    PROVE  IsFiniteSet(Running) /\ Cardinality(Running) \in Nat /\ MaxParallel \in Nat \ {0}
  <1>1. Running \subseteq 1..MaxBatch
    BY GroupFacts, Zenon DEF CallsInv
  <1>2. IsFiniteSet(1..MaxBatch)
    BY LoopAssumption, FS_Interval
  <1>3. IsFiniteSet(Running)
    BY <1>1, <1>2, FS_Subset, ZenonT(30)
  <1>. QED BY <1>3, FS_CardinalityType, ToolAssumption, ZenonT(30)

\* The call is being executed, or may be.
InHand(i) == exec[i] \in Active \/ MayStart(i)

\* What holds of a call whose effect starts, but for the token and the review.
MayAct(i) ==
    /\ i \in pending
    /\ \A j \in pending : j < i => ParallelSafe(j) /\ ParallelSafe(i)
    /\ \A j \in DOMAIN exec \ {i} : exec[j] \in Active => ParallelSafe(i) /\ ParallelSafe(j)
    /\ Cardinality({j \in DOMAIN exec : exec'[j] \in Active}) <= MaxParallel

LEMMA InHandFacts ==
    ASSUME CallsInv, pc = "tools", NEW i \in todo, InHand(i)
    PROVE  /\ i \in Group /\ ~IsBridge(i) /\ exec[i] # "ok" /\ i \in pending
           /\ todo \subseteq Nat /\ ~BridgeWave /\ bridge = "none"
  <1>1. i \in Group /\ ~IsBridge(i) /\ exec[i] # "ok"
    BY Zenon DEF CallsInv, InHand, MayStart, Running, Active
  <1>2. i \in pending /\ todo \subseteq Nat
    BY <1>1 DEF CallsInv
  <1>3. ~BridgeWave
    BY <1>1, <1>2, RuntimeWave, Zenon
  <1>. QED BY <1>1, <1>2, <1>3, Zenon DEF CallsInv

LEMMA RunningBounded ==
    ASSUME CallsInv, pc = "tools", NEW i \in todo, InHand(i), NEW stage,
           exec' = [exec EXCEPT ![i] = stage]
    PROVE  Cardinality(Running') <= MaxParallel
  <1>1. DOMAIN exec' = DOMAIN exec /\ i \in DOMAIN exec
    BY Zenon DEF CallsInv
  <1>2. Running' \subseteq Running \cup {i}
    BY <1>1, Zenon DEF Running
  <1>3. /\ IsFiniteSet(Running) /\ Cardinality(Running) \in Nat /\ MaxParallel \in Nat
        /\ Cardinality(Running) <= MaxParallel
    BY RunningIsFinite, Zenon DEF CallsInv
  <1>4. CASE exec[i] \in Active
    <2>1. Running' \subseteq Running
      BY <1>1, <1>2, <1>4, ZenonT(30) DEF Running
    <2>. QED BY <1>3, <2>1, FS_Subset, FS_CardinalityType, SMTT(20)
  <1>5. CASE MayStart(i)
    <2>. DEFINE busy == {j \in Group : Started(j) /\ ~Done(j)}
    <2>1. Running \subseteq busy
      BY Zenon DEF CallsInv, Running, Active, Started, Done
    <2>2. busy \subseteq 1..MaxBatch
      BY GroupFacts, Zenon DEF CallsInv
    <2>3. IsFiniteSet(busy)
      <3>1. IsFiniteSet(1..MaxBatch)
        BY LoopAssumption, FS_Interval
      <3>. HIDE DEF busy
      <3>. QED BY <2>2, <3>1, FS_Subset, ZenonT(30)
    <2>4. Cardinality(busy) < MaxParallel
      BY <1>5, Zenon DEF MayStart
    <2>. HIDE DEF busy
    <2>5. Cardinality(Running) <= Cardinality(busy) /\ Cardinality(busy) \in Nat
      BY <2>1, <2>3, FS_Subset, FS_CardinalityType, Zenon
    <2>6. IsFiniteSet(Running \cup {i}) /\ Cardinality(Running \cup {i}) <= Cardinality(Running) + 1
      <3>1. IsFiniteSet(Running \cup {i})
        BY <1>3, FS_AddElement, Zenon
      <3>2. Cardinality(Running \cup {i}) = IF i \in Running THEN Cardinality(Running)
                                            ELSE Cardinality(Running) + 1
        BY <1>3, FS_AddElement, Zenon
      <3>. QED BY <1>3, <3>1, <3>2
    <2>7. Cardinality(Running') <= Cardinality(Running \cup {i})
          /\ Cardinality(Running') \in Nat /\ Cardinality(Running \cup {i}) \in Nat
      BY <1>2, <2>6, FS_Subset, FS_CardinalityType
    <2>. QED BY <1>3, <2>4, <2>5, <2>6, <2>7, SMTT(20)
  <1>. QED BY <1>4, <1>5, Zenon DEF InHand

\* The future of a call goes on, or resolves the call.
LEMMA CallMoves ==
    ASSUME CallsInv, pc = "tools", NEW i \in todo, InHand(i), NEW stage,
           exec' = [exec EXCEPT ![i] = stage], UNCHANGED <<pc, todo, batch, bridge>>,
           "answer" \in DOMAIN review',
           \/ stage # "ok" /\ UNCHANGED <<pending, events>>
           \/ stage = "ok" /\ pending' = pending \ {i} /\ events' = events \cup {i}
    PROVE  CallsInv' /\ MayAct(i)
  <1>1. /\ i \in Group /\ ~IsBridge(i) /\ exec[i] # "ok" /\ i \in pending
        /\ todo \subseteq Nat /\ ~BridgeWave /\ bridge = "none"
    BY InHandFacts, Zenon
  <1>2. DOMAIN exec' = DOMAIN exec /\ i \in DOMAIN exec
    BY Zenon DEF CallsInv
  <1>3. /\ exec'[i] = stage /\ \A j \in DOMAIN exec : j # i => exec'[j] = exec[j]
    BY <1>2, Zenon
  <1>4. Group' = Group /\ Wave' = Wave /\ BridgeWave' = BridgeWave
        /\ \A j : IsBridge(j)' <=> IsBridge(j)
    BY Zenon DEF Group, Wave, BridgeWave, IsBridge, ParallelSafe
  <1>5. \A j \in Running' : j \in Group' /\ ~IsBridge(j)'
    BY <1>1, <1>2, <1>3, <1>4, ZenonT(30) DEF CallsInv, Running
  <1>6. Cardinality(Running') <= MaxParallel
    BY RunningBounded, ZenonT(30)
  <1>7. \A j \in todo' : /\ exec'[j] = "ok" => j \notin pending'
                         /\ ~IsBridge(j)' /\ exec'[j] # "ok" => j \in pending'
    BY <1>1, <1>2, <1>3, <1>4, Zenon DEF CallsInv
  <1>8. CallsInv'
    BY <1>1, <1>2, <1>4, <1>5, <1>6, <1>7 DEF CallsInv
  <1>9. \A j \in pending : j < i => ParallelSafe(j) /\ ParallelSafe(i)
    BY <1>1, Zenon DEF CallsInv, Group
  <1>10. \A j \in DOMAIN exec \ {i} : exec[j] \in Active => ParallelSafe(i) /\ ParallelSafe(j)
    BY <1>1, GroupFacts, ZenonT(30) DEF CallsInv, Running
  <1>11. Running' = {j \in DOMAIN exec : exec'[j] \in Active}
    BY <1>2, Zenon DEF Running
  <1>. QED BY <1>1, <1>6, <1>8, <1>9, <1>10, <1>11, ZenonT(30) DEF MayAct

-----------------------------------------------------------------------------
(***************************************************************************)
(* The steps of the tools.                                                 *)
(***************************************************************************)

\* The review that lets the effect of a call start.
Reviewed(i) ==
    batch[i] = "process" => review'.by \in {"trusted", "grant"} \/ review'.answer = "allow"

\* What a step of the call of a batch does.
Moves(i) ==
    /\ InHand(i) /\ "answer" \in DOMAIN review'
    /\ \E stage :
         /\ exec' = [exec EXCEPT ![i] = stage]
         /\ stage = "running" /\ exec[i] # "running" => ~cancelled /\ Reviewed(i)
         /\ \/ stage # "ok" /\ UNCHANGED <<batch, pending, events>>
            \/ stage = "ok" /\ batch' = batch /\ pending' = pending \ {i}
               /\ events' = events \cup {i}

LEMMA ToolStepMoves ==
    ASSUME CallsInv, ToolStep
    PROVE  \E i \in todo : Moves(i)
  <1>1. "answer" \in DOMAIN review
    BY Zenon DEF CallsInv
  <1>2. PICK i \in todo :
            \/ StartCall(i) \/ ProposalReturns(i) \/ ReuseGrant(i)
            \/ ModelReviews(i) \/ TakeAnswer(i) \/ EffectReturns(i) \/ RecordOutcome(i)
    BY Zenon DEF ToolStep
  <1>3. ASSUME InHand(i), "answer" \in DOMAIN review', Resolve(i) PROVE Moves(i)
    BY <1>3, Zenon DEF Moves, Resolve, Record
  <1>4. ASSUME InHand(i), "answer" \in DOMAIN review', NEW stage, stage \notin {"ok", "running"},
               Stage(i, stage)
        PROVE  Moves(i)
    BY <1>4, Zenon DEF Moves, Stage, NoResult, sessionVars
  <1>5. ASSUME InHand(i), "answer" \in DOMAIN review', ~cancelled, Reviewed(i),
               Stage(i, "running")
        PROVE  Moves(i)
    <2>1. /\ exec' = [exec EXCEPT ![i] = "running"] /\ UNCHANGED <<batch, pending, events>>
      BY <1>5, Zenon DEF Stage, NoResult, sessionVars
    <2>2. "running" # "ok"
      BY Zenon
    <2>. QED BY <1>5, <2>1, <2>2, ZenonT(30) DEF Moves
  <1>6. "answer" \in DOMAIN NoReview /\ \A b : "answer" \in DOMAIN [NoReview EXCEPT !.by = b]
    BY Zenon DEF NoReview
  <1>7. CASE StartCall(i)
    <2>1. InHand(i) /\ "answer" \in DOMAIN review'
      BY <1>1, <1>7, ZenonT(30) DEF StartCall, InHand
    <2>. QED BY <1>3, <1>4, <1>5, <1>7, <2>1, ZenonT(30) DEF StartCall, Reviewed
  <1>8. CASE ProposalReturns(i)
    <2>1. InHand(i)
      BY <1>8 DEF ProposalReturns, InHand, Active
    <2>2. CASE ~cancelled /\ ReviewProcess(i)
      <3>1. \/ Stage(i, "running") /\ review' = [NoReview EXCEPT !.by = "trusted"]
            \/ Resolve(i) /\ review' = review
            \/ \E b : /\ Stage(i, "host") \/ Stage(i, "model")
                      /\ review' = [NoReview EXCEPT !.by = b]
        BY <2>2, Zenon DEF ReviewProcess
      <3>2. "answer" \in DOMAIN review'
        BY <1>1, <1>6, <3>1, ZenonT(30)
      <3>3. ASSUME review' = [NoReview EXCEPT !.by = "trusted"] PROVE Reviewed(i)
        BY <3>3 DEF NoReview, Reviewed
      <3>. QED BY <1>3, <1>4, <1>5, <2>1, <2>2, <3>1, <3>2, <3>3, SMTT(20)
    <2>3. CASE UNCHANGED review
      <3>1. "answer" \in DOMAIN review'
        BY <1>1, <2>3, Zenon
      <3>2. \/ Stage(i, "cancelled") \/ Resolve(i) \/ Stage(i, "error")
            \/ ~cancelled /\ batch[i] # "process" /\ Stage(i, "running")
            \/ ~cancelled /\ ReviewProcess(i)
        BY <1>8, Zenon DEF ProposalReturns
      <3>. QED BY <1>3, <1>4, <1>5, <2>1, <2>2, <3>1, <3>2, SMTT(20) DEF Reviewed
    <2>. QED BY <1>8, <2>2, <2>3, ZenonT(30) DEF ProposalReturns
  <1>9. CASE ReuseGrant(i)
    <2>1. InHand(i) /\ ~cancelled /\ Stage(i, "running")
          /\ review' = [NoReview EXCEPT !.by = "grant"]
      BY <1>9, Zenon DEF ReuseGrant, InHand, Active
    <2>2. Reviewed(i)
      BY <2>1 DEF Reviewed, NoReview
    <2>. QED BY <1>5, <1>6, <2>1, <2>2, SMTT(20)
  <1>10. CASE ModelReviews(i)
    <2>1. InHand(i)
      BY <1>10, Zenon DEF ModelReviews, InHand, Active
    <2>2. \/ Stage(i, "cancelled") /\ review' = NoReview
          \/ ~cancelled /\ Stage(i, "running") /\ review' = [review EXCEPT !.answer = "allow"]
          \/ Stage(i, "host") /\ review' = [NoReview EXCEPT !.by = "host"]
          \/ Resolve(i) /\ review' = NoReview
      BY <1>10, Zenon DEF ModelReviews
    <2>3. ASSUME review' = [review EXCEPT !.answer = "allow"]
          PROVE  Reviewed(i) /\ "answer" \in DOMAIN review'
      BY <1>1, <2>3 DEF Reviewed
    <2>. QED BY <1>3, <1>4, <1>5, <1>6, <2>1, <2>2, <2>3, SMTT(20)
  <1>11. CASE TakeAnswer(i)
    <2>1. InHand(i)
      BY <1>11, Zenon DEF TakeAnswer, InHand, Active
    <2>2. \/ Stage(i, "cancelled") /\ review' = NoReview
          \/ ~cancelled /\ Stage(i, "running") /\ review' = review /\ review.answer = "allow"
          \/ Resolve(i) /\ review' = NoReview
      BY <1>11, Zenon DEF TakeAnswer
    <2>3. ASSUME review' = review, review.answer = "allow"
          PROVE  Reviewed(i) /\ "answer" \in DOMAIN review'
      BY <1>1, <2>3, ZenonT(30) DEF Reviewed
    <2>. QED BY <1>3, <1>4, <1>5, <1>6, <2>1, <2>2, <2>3, SMTT(20)
  <1>12. CASE EffectReturns(i)
    <2>1. InHand(i) /\ "answer" \in DOMAIN review'
      BY <1>1, <1>12 DEF EffectReturns, InHand, Active
    <2>. QED BY <1>4, <1>12, <2>1, ZenonT(30) DEF EffectReturns
  <1>13. CASE RecordOutcome(i)
    <2>1. InHand(i) /\ "answer" \in DOMAIN review'
      BY <1>6, <1>13 DEF RecordOutcome, InHand, Active
    <2>. QED BY <1>3, <1>4, <1>13, <2>1, ZenonT(30) DEF RecordOutcome
  <1>. QED BY <1>2, <1>7, <1>8, <1>9, <1>10, <1>11, <1>12, <1>13, SMTT(20)

\* What EffectAuthorized says of one step.
Authorized ==
    \A i \in DOMAIN exec \cap DOMAIN exec' : EffectStarts(i) =>
      ~cancelled /\ MayAct(i) /\ Reviewed(i)

LEMMA ToolStepKeeps ==
    ASSUME CallsInv, ToolStep, UNCHANGED bridge
    PROVE  CallsInv' /\ Authorized
  <1>1. pc = "tools" /\ UNCHANGED <<pc, todo>>
    BY Zenon DEF ToolStep, StartCall, ProposalReturns, ReuseGrant, ModelReviews, TakeAnswer,
           EffectReturns, RecordOutcome, ToolFrame
  <1>2. PICK i \in todo : Moves(i)
    BY ToolStepMoves, Zenon
  <1>3. PICK stage :
         /\ exec' = [exec EXCEPT ![i] = stage]
         /\ stage = "running" /\ exec[i] # "running" => ~cancelled /\ Reviewed(i)
         /\ \/ stage # "ok" /\ UNCHANGED <<batch, pending, events>>
            \/ stage = "ok" /\ batch' = batch /\ pending' = pending \ {i}
               /\ events' = events \cup {i}
    BY <1>2, Zenon DEF Moves
  <1>4. CallsInv' /\ MayAct(i)
    BY <1>1, <1>2, <1>3, CallMoves, Zenon DEF Moves
  <1>5. ASSUME NEW k \in DOMAIN exec, EffectStarts(k)
        PROVE  k = i /\ stage = "running" /\ exec[i] # "running"
    BY <1>3, <1>5, Zenon DEF EffectStarts
  <1>. QED BY <1>3, <1>4, <1>5, ZenonT(30) DEF Authorized

-----------------------------------------------------------------------------
(***************************************************************************)
(* The steps of the loop, and the others.                                  *)
(***************************************************************************)

\* No call executes before and after the step, or none moves.
Quiet == exec' = exec \/ exec = <<>> \/ exec' = <<>>

LEMMA QuietAuthorized ==
    ASSUME Quiet, exec' # exec
    PROVE  Authorized
  BY DEF Quiet, Authorized

\* The step is outside a batch, or ends it with nothing left to publish.
LEMMA Elsewhere ==
    ASSUME pc' # "tools", exec' = <<>>, events' = {}, bridge' = "none",
           "answer" \in DOMAIN review'
    PROVE  CallsInv' /\ Quiet
  BY Zenon DEF CallsInv, Quiet

LEMMA Outside ==
    ASSUME CallsInv, pc # "tools", pc' # "tools", UNCHANGED <<exec, events, bridge, review>>
    PROVE  CallsInv' /\ Quiet
  BY Zenon DEF CallsInv, Quiet

\* The step is inside a batch and leaves it alone.
LEMMA Inside ==
    ASSUME CallsInv, UNCHANGED <<pc, todo, exec, events, bridge, batch, pending>>,
           "answer" \in DOMAIN review'
    PROVE  CallsInv' /\ Quiet
  <1>1. UNCHANGED <<Running, BridgeWave, Group>> /\ \A j : IsBridge(j)' <=> IsBridge(j)
    BY Zenon DEF Running, Group, Wave, BridgeWave, IsBridge, ParallelSafe
  <1>. QED BY <1>1, Zenon DEF CallsInv, Quiet

LEMMA FinishKeeps ==
    ASSUME NEW status, Finish(status), events' = {}
    PROVE  CallsInv' /\ Quiet
  <1>1. "answer" \in DOMAIN NoReview
    BY Zenon DEF NoReview
  <1>. QED BY <1>1, Elsewhere, Zenon DEF Finish

LEMMA OnCallsKeeps ==
    ASSUME Inv, CallsInv, OnCalls
    PROVE  CallsInv' /\ Quiet
  <1>1. /\ pc = "classify" /\ exec = <<>> /\ events = {} /\ bridge = "none"
        /\ events' = events /\ UNCHANGED <<batch, pending>> /\ "answer" \in DOMAIN review
        /\ pending \subseteq 1..MaxBatch
    BY DEF OnCalls, OutcomeOnly, sessionVars, CallsInv, Inv, SessionInv
  <1>2. CASE Finish("Blocked")
    BY <1>1, <1>2, FinishKeeps, ZenonT(30)
  <1>3. CASE /\ pc' = "tools" /\ todo' = pending /\ exec' = [i \in pending |-> "wait"]
             /\ UNCHANGED <<review, bridge>>
    <2>1. DOMAIN exec' = pending /\ \A i \in pending : exec'[i] = "wait"
      BY <1>3, Zenon
    <2>2. Running' = {}
      BY <2>1, Zenon DEF Running, Active
    <2>3. Cardinality(Running') <= MaxParallel
      BY <2>2, FS_EmptySet, ToolAssumption
    <2>4. CallsInv'
      BY <1>1, <1>3, <2>1, <2>2, <2>3, ZenonT(30) DEF CallsInv
    <2>. QED BY <1>1, <2>4 DEF Quiet
  <1>. QED BY <1>2, <1>3, ZenonT(30) DEF OnCalls

\* The calls of a group or of a wave that are resolved leave the batch.
LEMMA AfterCallsKeeps ==
    ASSUME CallsInv, pc = "tools", NEW done, AfterCalls(done),
           Running = {}, bridge' = "none", batch' = batch,
           pending' \subseteq pending \ done, review' = review,
           \A i \in todo \ done : i \in pending => i \in pending',
           ~(todo \subseteq done) => (BridgeWave' => events' = {}),
           todo \subseteq done => events' = {}
    PROVE  CallsInv' /\ Quiet
  <1>1. "answer" \in DOMAIN review'
    BY DEF CallsInv
  <1>2. CASE todo \subseteq done
    BY <1>1, <1>2, Elsewhere, ZenonT(30) DEF AfterCalls, Continue
  <1>3. CASE ~(todo \subseteq done)
    <2>1. UNCHANGED <<pc, exec>> /\ todo' = todo \ done
      BY <1>3, Zenon DEF AfterCalls
    <2>2. Running' = {}
      BY <2>1, Zenon DEF Running
    <2>3. Cardinality(Running') <= MaxParallel
      BY <2>2, FS_EmptySet, ToolAssumption, SMTT(20)
    <2>4. \A j : IsBridge(j)' <=> IsBridge(j)
      BY Zenon DEF IsBridge
    <2>5. CallsInv'
      BY <1>1, <1>3, <2>1, <2>2, <2>3, <2>4, ZenonT(30) DEF CallsInv
    <2>. QED BY <2>1, <2>5, Zenon DEF Quiet
  <1>. QED BY <1>2, <1>3, Zenon

LEMMA GroupEndsKeeps ==
    ASSUME CallsInv, GroupEnds
    PROVE  CallsInv' /\ Quiet
  <1>1. /\ pc = "tools" /\ ~BridgeWave /\ bridge = "none" /\ UNCHANGED <<batch, pending>>
        /\ todo \subseteq Nat /\ pending \subseteq todo
    BY DEF GroupEnds, CallsInv, sessionVars
  <1>2. Running = {}
    BY <1>1, ZenonT(30) DEF GroupEnds, CallsInv, Running, Active, Done
  <1>3. CASE \A i \in Group : exec[i] = "ok"
    <2>1. /\ AfterCalls(Group) /\ UNCHANGED <<review, bridge>>
          /\ events' = IF Group = Wave THEN {} ELSE events
      BY <1>3, Zenon DEF GroupEnds
    <2>2. pending' \subseteq pending \ Group
      BY <1>1, <1>3, GroupFacts, SMTT(20) DEF CallsInv
    <2>3. todo \subseteq Group => events' = {}
      BY <2>1, GroupFacts
    <2>4. ~(todo \subseteq Group) => (BridgeWave' => events' = {})
      BY <1>1, <2>1, WaveGoesOn, ZenonT(30) DEF AfterCalls
    <2>. QED BY <1>1, <1>2, <2>1, <2>2, <2>3, <2>4, AfterCallsKeeps, SMTT(20)
  <1>4. CASE ~\A i \in Group : exec[i] = "ok"
    BY <1>4, FinishKeeps, ZenonT(30) DEF GroupEnds
  <1>. QED BY <1>3, <1>4, ZenonT(30)

\* While a wave of bridge calls is with the host nothing executes.
LEMMA BridgeFacts ==
    ASSUME CallsInv, pc = "tools", bridge # "none"
    PROVE  BridgeWave /\ events = {} /\ Running = {} /\ pending \subseteq todo
  BY RuntimeWave DEF CallsInv

LEMMA BridgeMoves ==
    ASSUME CallsInv, pc = "tools", BridgeWave, UNCHANGED <<pc, todo, exec, events, batch, review>>,
           pending' \subseteq pending, \A i \in pending \ pending' : IsBridge(i)
    PROVE  CallsInv' /\ Quiet
  <1>1. UNCHANGED <<Running, BridgeWave, Group>> /\ \A j : IsBridge(j)' <=> IsBridge(j)
    BY Zenon DEF Running, Group, Wave, BridgeWave, IsBridge, ParallelSafe
  <1>. QED BY <1>1, Zenon DEF CallsInv, Quiet

LEMMA TakeBridgeResultKeeps ==
    ASSUME CallsInv, TakeBridgeResult
    PROVE  CallsInv' /\ Quiet
  <1>1. /\ pc = "tools" /\ bridge # "none" /\ UNCHANGED <<review, events>>
        /\ "answer" \in DOMAIN review
    BY Zenon DEF TakeBridgeResult, CallsInv
  <1>2. BridgeWave /\ events = {} /\ Running = {} /\ pending \subseteq todo
    BY <1>1, BridgeFacts, ZenonT(30)
  <1>3. CASE Record(Wave) /\ AfterCalls(Wave) /\ bridge' = "none"
    BY <1>1, <1>2, <1>3, AfterCallsKeeps, SMTT(20) DEF Record
  <1>4. CASE UNCHANGED <<sessionVars, run, pc, ended, todo, exec>>
    BY <1>1, <1>2, <1>4, BridgeMoves, ZenonT(30) DEF sessionVars
  <1>. QED BY <1>3, <1>4, ZenonT(30) DEF TakeBridgeResult

LEMMA SettleBridgeKeeps ==
    ASSUME CallsInv, SettleBridge
    PROVE  CallsInv' /\ Quiet
  <1>1. /\ pc = "tools" /\ bridge # "none" /\ UNCHANGED events /\ "answer" \in DOMAIN review
    BY Zenon DEF SettleBridge, CallsInv
  <1>2. BridgeWave /\ events = {} /\ Running = {} /\ pending \subseteq todo
    BY <1>1, BridgeFacts
  <1>. DEFINE open == Wave \cap pending
  <1>3. CASE (\E i \in open : Record({i})) /\ UNCHANGED <<pc, todo, exec, review, bridge>>
    <2>1. PICK i \in open : Record({i})
      BY <1>3
    <2>2. IsBridge(i)
      <3>1. todo \subseteq Nat
        BY <1>1 DEF CallsInv
      <3>. QED BY <1>2, <2>1, <3>1, GroupFacts, ZenonT(30) DEF BridgeWave
    <2>. QED BY <1>1, <1>2, <1>3, <2>1, <2>2, BridgeMoves, SMTT(20) DEF Record
  <1>4. CASE open = {} /\ AfterCalls(Wave) /\ bridge' = "none" /\ UNCHANGED <<sessionVars, review>>
    BY <1>1, <1>2, <1>4, AfterCallsKeeps, ZenonT(30) DEF sessionVars
  <1>5. CASE Finish("Cancelled")
    BY <1>1, <1>2, <1>5, FinishKeeps, ZenonT(30)
  <1>. QED BY <1>3, <1>4, <1>5, Zenon DEF SettleBridge

LEMMA LoopStepKeeps ==
    ASSUME Inv, CallsInv, LoopStep
    PROVE  CallsInv' /\ Quiet
  <1>1. ASSUME pc # "tools" PROVE events = {} /\ "answer" \in DOMAIN review
    BY <1>1, Zenon DEF CallsInv
  <1>2. ASSUME pc # "tools", pc' # "tools", NoTools PROVE CallsInv' /\ Quiet
    BY <1>2, Outside, Zenon DEF NoTools
  <1>3. ASSUME pc # "tools", UNCHANGED events, NEW status, Finish(status) PROVE CallsInv' /\ Quiet
    BY <1>1, <1>3, FinishKeeps
  <1>4. CASE LoopTop
    BY <1>2, <1>3, <1>4, ZenonT(30) DEF LoopTop
  <1>5. CASE OnStepEnded
    BY <1>3, <1>5 DEF OnStepEnded, OutcomeOnly
  <1>6. CASE OnCompleted
    BY <1>2, <1>3, <1>6, ZenonT(30) DEF OnCompleted, OutcomeOnly, Continue
  <1>7. CASE OnToolResultRecorded
    BY <1>2, <1>3, <1>7, SMTT(20) DEF OnToolResultRecorded, OutcomeOnly, Continue
  <1>8. CASE OnFinalOutput
    BY <1>2, <1>3, <1>8, ZenonT(30) DEF OnFinalOutput, Continue
  <1>9. CASE OfferBridge \/ CancelBridge
    <2>1. /\ pc = "tools" /\ BridgeWave
          /\ UNCHANGED <<pc, todo, exec, events, batch, review, pending>>
      BY <1>9, BridgeFacts, ZenonT(30) DEF OfferBridge, CancelBridge, toolVars, sessionVars
    <2>. QED BY <2>1, BridgeMoves
  <1>. QED BY <1>4, <1>5, <1>6, <1>7, <1>8, <1>9, OnCallsKeeps, GroupEndsKeeps,
              TakeBridgeResultKeeps, SettleBridgeKeeps, SMTT(20) DEF LoopStep

LEMMA HostKeeps ==
    ASSUME CallsInv, Host
    PROVE  CallsInv' /\ Quiet
  <1>1. CASE StartRun
    BY <1>1, Outside, ZenonT(30) DEF StartRun, PermitFree, NoTools
  <1>2. CASE Cancel \/ RaiseNotice
    <2>1. UNCHANGED <<pc, todo, exec, events, bridge, batch, pending, review>>
      BY <1>2, Zenon DEF Cancel, RaiseNotice, toolVars, loopVars, sessionVars
    <2>. QED BY <2>1, Inside DEF CallsInv
  <1>3. CASE DropRun
    BY <1>3, FinishKeeps DEF DropRun
  <1>4. CASE SettleCalls
    BY <1>4, Outside, ZenonT(30) DEF SettleCalls, PermitFree, toolVars, loopVars
  <1>5. CASE HostSubmits
    <2>1. /\ pc = "tools" /\ BridgeWave
          /\ UNCHANGED <<pc, todo, exec, events, batch, review, pending>>
      BY <1>5, BridgeFacts, ZenonT(30) DEF HostSubmits, toolVars, sessionVars, CallsInv
    <2>. QED BY <2>1, BridgeMoves
  <1>. QED BY <1>1, <1>2, <1>3, <1>4, <1>5, SMTT(20) DEF Host

LEMMA OtherKeeps ==
    ASSUME Inv, CallsInv, UNCHANGED <<toolVars, loopVars>>, TurnStep \/ ReductionStep \/ CompactContext
    PROVE  CallsInv' /\ Quiet
  <1>1. UNCHANGED <<todo, exec, events, bridge, review>> /\ "answer" \in DOMAIN review
    BY Zenon DEF toolVars, loopVars, CallsInv
  <1>2. CASE TurnStep
    <2>1. CASE Attempts
      <3>1. UNCHANGED <<pc, batch, pending>>
        BY <2>1 DEF Attempts, AttemptEvent, AttemptFails, NextAttempt, AttemptOnly, StepOnly,
                    sessionVars
      <3>. QED BY <1>1, <3>1, Inside, ZenonT(30)
    <2>2. CASE ~Attempts
      <3>1. pc # "tools"
        BY <1>2, <2>2, ZenonT(30) DEF TurnStep, StartStep, PrepareRequest, BeginTurn, RecordInput,
                          ConsumeEvent, ConsumeCancelled, AnnounceCalls
      <3>2. pc' # "tools"
        BY <1>2, <3>1, TurnStepSound, ZenonT(30)
      <3>. QED BY <1>1, <3>1, <3>2, Outside, SMTT(20)
    <2>. QED BY <2>1, <2>2
  <1>3. CASE ReductionStep
    <2>1. pc # "tools"
      BY <1>3 DEF ReductionStep, CommitTask, StageBundle, RevalidateStaged, CommitStaged,
                  CommitInMemory, PrepareWindow, FitRequest, ShrinkRequest, GenerateCandidate,
                  PrepareInstall, AwaitCommit, MeasureAgain, Inv, CommitInv
    <2>2. pc' # "tools"
      BY <1>3, <2>1, ReductionStepSound, ZenonT(30) DEF ReductionMove, ReductionPlaces
    <2>. QED BY <1>1, <2>1, <2>2, Outside
  <1>4. CASE CompactContext
    <2>1. pc = "idle" /\ pc' # "tools"
      BY <1>4, CompactContextSound, ZenonT(30) DEF CompactContext, PermitFree, ReductionPlaces
    <2>. QED BY <1>1, <2>1, Outside, SMTT(20)
  <1>. QED BY <1>2, <1>3, <1>4

LEMMA HostAnswersKeeps ==
    ASSUME CallsInv, HostAnswers, UNCHANGED loopVars
    PROVE  CallsInv' /\ Quiet
  <1>1. UNCHANGED <<pc, todo, exec, events, bridge, batch, pending>>
    BY Zenon DEF HostAnswers, NoResult, ToolFrame, loopVars, sessionVars
  <1>2. "answer" \in DOMAIN review'
    BY DEF HostAnswers, CallsInv
  <1>. QED BY <1>1, <1>2, Inside, ZenonT(30)

LEMMA StepKeeps ==
    ASSUME Inv, CallsInv, [Next]_vars
    PROVE  CallsInv' /\ (exec' = exec \/ Authorized)
  <1>1. ASSUME CallsInv' /\ Quiet PROVE CallsInv' /\ (exec' = exec \/ Authorized)
    BY <1>1, QuietAuthorized
  <1>2. CASE LoopStep
    BY <1>1, <1>2, LoopStepKeeps, ZenonT(30)
  <1>3. CASE ToolStep /\ UNCHANGED loopVars
    BY <1>3, ToolStepKeeps DEF loopVars
  <1>4. CASE (TurnStep \/ ReductionStep \/ CompactContext) /\ UNCHANGED <<toolVars, loopVars>>
    BY <1>1, <1>4, OtherKeeps, Zenon
  <1>5. CASE Host
    BY <1>1, <1>5, HostKeeps
  <1>6. CASE HostAnswers /\ UNCHANGED loopVars
    BY <1>1, <1>6, HostAnswersKeeps, ZenonT(30)
  <1>7. CASE UNCHANGED vars
    <2>1. UNCHANGED <<pc, todo, exec, events, bridge, batch, pending, review>>
      BY <1>7, ZenonT(30) DEF vars, toolVars, loopVars, sessionVars
    <2>. QED BY <1>1, <2>1, Inside DEF CallsInv
  <1>. QED BY <1>2, <1>3, <1>4, <1>5, <1>6, <1>7, SMTT(20) DEF Next, System

LEMMA InitCalls == Init => CallsInv
  BY DEF Init, ToolInit, NoReview, CallsInv

\* The executions in progress belong to the group whose turn it is, and what
\* waits to be published belongs to a wave of the runtime's own calls.
THEOREM CallsInvariant == Spec => []CallsInv
  <1>1. Inv /\ CallsInv /\ [Next]_vars => CallsInv'
    BY StepKeeps
  <1>. QED BY InitCalls, Invariant, <1>1, PTL DEF Spec

\* Whatever ends a batch, every result it recorded was published
\* (RecordedIsPublished).
THEOREM ResultsArePublished == Spec => []RecordedIsPublished
  <1>1. CallsInv => RecordedIsPublished
    BY DEF CallsInv, RecordedIsPublished
  <1>. QED BY CallsInvariant, <1>1, PTL

\* An effect starts only uncancelled, in turn, within the limit and beside
\* parallel-safe calls, and a reviewed process only as allowed
\* (EffectAuthorized).
THEOREM EffectsAreAuthorized == Spec => EffectAuthorized
  <1>1. Inv /\ CallsInv /\ [Next]_vars =>
        [\A i \in DOMAIN exec \cap DOMAIN exec' : EffectStarts(i) =>
           /\ ~cancelled /\ i \in pending
           /\ \A j \in pending : j < i => ParallelSafe(j) /\ ParallelSafe(i)
           /\ \A j \in DOMAIN exec \ {i} : exec[j] \in Active => ParallelSafe(i) /\ ParallelSafe(j)
           /\ Cardinality({j \in DOMAIN exec : exec'[j] \in Active}) <= MaxParallel
           /\ batch[i] = "process" =>
                review'.by \in {"trusted", "grant"} \/ review'.answer = "allow"]_exec
    <2>1. ASSUME Authorized
          PROVE  \A i \in DOMAIN exec \cap DOMAIN exec' : EffectStarts(i) =>
           /\ ~cancelled /\ i \in pending
           /\ \A j \in pending : j < i => ParallelSafe(j) /\ ParallelSafe(i)
           /\ \A j \in DOMAIN exec \ {i} : exec[j] \in Active => ParallelSafe(i) /\ ParallelSafe(j)
           /\ Cardinality({j \in DOMAIN exec : exec'[j] \in Active}) <= MaxParallel
           /\ batch[i] = "process" =>
                review'.by \in {"trusted", "grant"} \/ review'.answer = "allow"
      BY <2>1, Zenon DEF Authorized, MayAct, Reviewed
    <2>. QED BY StepKeeps, <2>1
  <1>. QED BY Invariant, CallsInvariant, <1>1, PTL DEF Spec, EffectAuthorized
=============================================================================
