-------------------------- MODULE MarketDataProofs --------------------------
(***************************************************************************)
(* Theorems about MarketData for any subscribers, events and capacities:   *)
(* the drop-oldest queue loses nothing it does not count, and every        *)
(* subscriber sees a LossyStream.                                          *)
(***************************************************************************)
EXTENDS MarketData, SequenceTheorems, TLAPS

WriterStates == {"absent", "ready", "waiting", "writing", "failed", "ended"}

\* The types of channel, map, queues and writers.
TypeInv ==
    /\ channel \in Seq(Events)
    /\ pushing \subseteq Subscribers
    /\ pushing # {} => current \in Events
    /\ subs \subseteq Subscribers
    /\ items \in [Subscribers -> Seq(Events)]
    /\ dropped \in [Subscribers -> Nat]
    /\ writer \in [Subscribers -> WriterStates]
    /\ seq \in [Subscribers -> Nat]
    /\ DOMAIN inHand = Subscribers
    /\ offered \in [Subscribers -> Seq(Events)]
    /\ received \in [Subscribers -> Seq([seq : Nat, event : Events])]

\* A queue is what follows the first k of a stream.
Window(queue, stream, k) ==
    /\ k + Len(queue) = Len(stream)
    /\ \A i \in 1 .. Len(queue) : queue[i] = stream[k + i]

\* Accounted for one subscriber, element by element.
Tracks(s) ==
    /\ Window(items[s], offered[s], seq[s] + dropped[s])
    /\ Len(items[s]) <= QueueCap
    /\ writer[s] = "writing" => seq[s] > 0 /\ inHand[s] = offered[s][seq[s]]

\* Numbers written only go up, and the one being written is new.
Numbered(s) ==
    /\ Feeds!LastSeq(s) \in Nat
    /\ Feeds!LastSeq(s) <= seq[s]
    /\ writer[s] = "writing" => Feeds!LastSeq(s) < seq[s]

IInv == TypeInv /\ \A s \in Subscribers : Tracks(s) /\ Numbered(s)

-----------------------------------------------------------------------------
(* Windows *)

LEMMA WindowAppend ==
    ASSUME NEW queue \in Seq(Events), NEW stream \in Seq(Events), NEW k \in Nat,
           NEW e \in Events, Window(queue, stream, k)
    PROVE  Window(Append(queue, e), Append(stream, e), k)
BY DEF Window

LEMMA WindowTail ==
    ASSUME NEW queue \in Seq(Events), NEW stream \in Seq(Events), NEW k \in Nat,
           queue # << >>, Window(queue, stream, k)
    PROVE  /\ Window(Tail(queue), stream, k + 1)
           /\ Head(queue) = stream[k + 1]
           /\ k + 1 \in 1 .. Len(stream)
<1>1. /\ Len(queue) \in Nat \ {0} /\ Len(Tail(queue)) = Len(queue) - 1
      /\ Head(queue) = queue[1] /\ Len(stream) \in Nat
      /\ \A i \in 1 .. Len(queue) - 1 : Tail(queue)[i] = queue[i + 1]
  OBVIOUS
<1>2. ASSUME NEW i \in 1 .. Len(Tail(queue)) PROVE Tail(queue)[i] = stream[(k + 1) + i]
  <2>1. i + 1 \in 1 .. Len(queue) /\ k + (i + 1) = (k + 1) + i
    BY <1>1
  <2>. QED BY <1>1, <2>1 DEF Window
<1>. QED BY <1>1, <1>2 DEF Window

LEMMA WindowSubSeq ==
    ASSUME NEW queue \in Seq(Events), NEW stream \in Seq(Events), NEW k \in Nat,
           Window(queue, stream, k)
    PROVE  queue = SubSeq(stream, k + 1, Len(stream))
<1>1. /\ SubSeq(stream, k + 1, Len(stream)) \in Seq(Events)
      /\ Len(SubSeq(stream, k + 1, Len(stream))) = Len(queue)
  BY DEF Window
<1>2. \A i \in 1 .. Len(queue) : SubSeq(stream, k + 1, Len(stream))[i] = queue[i]
  BY DEF Window
<1>. QED BY <1>1, <1>2, SeqEqual

LEMMA Between ==
    ASSUME NEW a \in Nat, NEW b \in Nat, NEW c \in Nat, NEW d \in Nat, a + b + c = d, a > 0
    PROVE  a \in 1 .. d
OBVIOUS

-----------------------------------------------------------------------------
(* Initial states *)

LEMMA InitIInv == Init => IInv
<1> SUFFICES ASSUME Init PROVE IInv
  OBVIOUS
<1>1. TypeInv
  BY DEF Init, TypeInv, WriterStates
<1>2. ASSUME NEW s \in Subscribers PROVE Tracks(s) /\ Numbered(s)
  BY MarketDataAssumption DEF Init, Tracks, Window, Numbered, Feeds!LastSeq
<1>. QED BY <1>1, <1>2 DEF IInv

-----------------------------------------------------------------------------
(* One lemma per kind of step *)

\* A subscriber whose own state did not change keeps its invariant.
LEMMA Bystander ==
    ASSUME NEW t \in Subscribers, Tracks(t), Numbered(t),
           seq'[t] = seq[t], dropped'[t] = dropped[t], items'[t] = items[t],
           offered'[t] = offered[t], received'[t] = received[t], inHand'[t] = inHand[t],
           writer'[t] = writer[t] \/ writer'[t] # "writing"
    PROVE  Tracks(t)' /\ Numbered(t)'
BY DEF Tracks, Numbered, Feeds!LastSeq

LEMMA PublishKeeps ==
    ASSUME IInv, NEW e \in Events, Publish(e)
    PROVE  IInv'
<1>1. TypeInv'
  <2>1. channel' \in Seq(Events)
    BY DEF IInv, TypeInv, Publish
  <2>2. UNCHANGED <<pushing, current, subs, items, dropped, writer, seq, inHand, offered, received>>
    BY DEF Publish, queueVars
  <2>. QED BY <2>1, <2>2 DEF IInv, TypeInv
<1>2. ASSUME NEW s \in Subscribers PROVE Tracks(s)' /\ Numbered(s)'
  <2>1. UNCHANGED <<seq, dropped, items, offered, received, inHand, writer>>
    BY DEF Publish, queueVars
  <2>. QED BY <2>1, Bystander DEF IInv
<1>. QED BY <1>1, <1>2 DEF IInv

LEMMA FanOutKeeps ==
    ASSUME IInv, FanOut
    PROVE  IInv'
<1>0. Head(channel) \in Events /\ Tail(channel) \in Seq(Events)
  BY DEF IInv, TypeInv, FanOut
<1>1. TypeInv'
  BY <1>0 DEF IInv, TypeInv, FanOut, queueVars
<1>2. \A s \in Subscribers : Tracks(s)' /\ Numbered(s)'
  BY Bystander DEF IInv, FanOut, queueVars
<1>. QED BY <1>1, <1>2 DEF IInv

\* Subscribing, waiting, a failed write and leaving touch the writer and the map.
Quiet(s) == Subscribe(s) \/ Wait(s) \/ WriteFails(s) \/ Unsubscribe(s)

LEMMA QuietKeeps ==
    ASSUME IInv, NEW s \in Subscribers, Quiet(s)
    PROVE  IInv'
<1>1. /\ UNCHANGED <<seq, dropped, items, offered, received, inHand, channel, pushing, current>>
      /\ \E to \in WriterStates \ {"writing"} : writer' = [writer EXCEPT ![s] = to]
      /\ subs' \subseteq Subscribers
  BY DEF IInv, TypeInv, Quiet, Subscribe, Wait, WriteFails, Unsubscribe, WriterStates
<1>2. TypeInv'
  BY <1>1 DEF IInv, TypeInv, WriterStates
<1>3. ASSUME NEW t \in Subscribers PROVE Tracks(t)' /\ Numbered(t)'
  <2>1. writer'[t] = writer[t] \/ writer'[t] # "writing"
    BY <1>1 DEF IInv, TypeInv
  <2>. QED BY <1>1, <2>1, Bystander DEF IInv
<1>. QED BY <1>2, <1>3 DEF IInv

\* A push appends to what was offered and to the queue; when it is full the
\* oldest goes and is counted.
LEMMA PushKeeps ==
    ASSUME IInv, NEW s \in Subscribers, Push(s)
    PROVE  IInv'
<1> DEFINE full == Len(items[s]) >= QueueCap
           kept == IF full THEN Tail(items[s]) ELSE items[s]
           lost == IF full THEN dropped[s] + 1 ELSE dropped[s]
           woken == IF writer[s] = "waiting" THEN "ready" ELSE writer[s]
<1>0. current \in Events /\ QueueCap \in Nat \ {0}
  BY MarketDataAssumption DEF IInv, TypeInv, Push
<1>1. /\ items[s] \in Seq(Events) /\ offered[s] \in Seq(Events)
      /\ dropped[s] \in Nat /\ seq[s] \in Nat /\ writer[s] \in WriterStates
  BY DEF IInv, TypeInv
<1>2. /\ items' = [items EXCEPT ![s] = Append(kept, current)]
      /\ dropped' = [dropped EXCEPT ![s] = lost]
      /\ offered' = [offered EXCEPT ![s] = Append(offered[s], current)]
      /\ writer' = [writer EXCEPT ![s] = woken]
      /\ pushing' \subseteq pushing
      /\ UNCHANGED <<channel, current, subs, seq, inHand, received>>
  BY DEF IInv, TypeInv, Push
<1>3. /\ items'[s] = Append(kept, current) /\ dropped'[s] = lost
      /\ offered'[s] = Append(offered[s], current) /\ writer'[s] = woken
  BY <1>2 DEF IInv, TypeInv
<1>4. kept \in Seq(Events) /\ Len(kept) < QueueCap /\ lost \in Nat
      /\ woken \in WriterStates /\ (woken = "writing" => writer[s] = "writing")
  <2>1. Len(items[s]) \in Nat /\ Len(items[s]) <= QueueCap
    BY <1>1 DEF IInv, Tracks
  <2>2. CASE full
    <3>1. items[s] # << >>
      BY <1>0, <2>1, <2>2
    <3>2. Tail(items[s]) \in Seq(Events) /\ Len(Tail(items[s])) = Len(items[s]) - 1
      BY <1>1, <3>1
    <3>. QED BY <1>0, <1>1, <2>1, <2>2, <3>2 DEF WriterStates
  <2>3. CASE ~full
    BY <1>0, <1>1, <2>1, <2>3 DEF WriterStates
  <2>. QED BY <2>2, <2>3
<1>5. Window(kept, offered[s], seq[s] + lost)
  <2>1. Window(items[s], offered[s], seq[s] + dropped[s])
    BY DEF IInv, Tracks
  <2>2. CASE full
    <3>1. items[s] # << >>
      BY <1>0, <1>1, <2>2
    <3>2. seq[s] + dropped[s] \in Nat /\ (seq[s] + dropped[s]) + 1 = seq[s] + lost
      BY <1>1, <2>2
    <3>3. Window(Tail(items[s]), offered[s], (seq[s] + dropped[s]) + 1)
      BY <1>1, <2>1, <3>1, <3>2, WindowTail
    <3>. QED BY <2>2, <3>2, <3>3
  <2>3. CASE ~full
    BY <2>1, <2>3
  <2>. QED BY <2>2, <2>3
<1> HIDE DEF full, kept, lost, woken
<1>6. Append(kept, current) \in Seq(Events) /\ Append(offered[s], current) \in Seq(Events)
  BY <1>0, <1>1, <1>4
<1>7. TypeInv'
  <2>1. current' \in Events /\ pushing' \subseteq Subscribers
    BY <1>0, <1>2 DEF IInv, TypeInv
  <2>. QED BY <1>2, <1>4, <1>6, <2>1 DEF IInv, TypeInv
<1>8. Tracks(s)'
  <2>1. seq[s] + lost \in Nat
    BY <1>1, <1>4
  <2>2. Window(Append(kept, current), Append(offered[s], current), seq[s] + lost)
    BY <1>0, <1>1, <1>4, <1>5, <2>1, WindowAppend
  <2>3. Len(Append(kept, current)) <= QueueCap
    BY <1>0, <1>4
  <2>4. woken = "writing" =>
          /\ seq[s] > 0 /\ seq[s] \in 1 .. Len(offered[s])
          /\ inHand[s] = Append(offered[s], current)[seq[s]]
    <3>1. Tracks(s)
      BY DEF IInv
    <3>2. Len(offered[s]) \in Nat /\ Len(items[s]) \in Nat
      BY <1>1
    <3>3. woken = "writing" => seq[s] \in 1 .. Len(offered[s])
      BY <1>1, <1>4, <3>1, <3>2 DEF Tracks, Window
    <3>. QED BY <1>0, <1>1, <1>4, <3>1, <3>3 DEF Tracks
  <2>. QED BY <1>2, <1>3, <2>2, <2>3, <2>4 DEF Tracks, Window
<1>9. Numbered(s)'
  BY <1>2, <1>3, <1>4 DEF IInv, Numbered, Feeds!LastSeq
<1>10. ASSUME NEW t \in Subscribers \ {s} PROVE Tracks(t)' /\ Numbered(t)'
  BY <1>2, Bystander DEF IInv, TypeInv
<1>. QED BY <1>7, <1>8, <1>9, <1>10 DEF IInv

\* A pop takes the oldest of the queue; its number skips what was dropped.
LEMMA PopKeeps ==
    ASSUME IInv, NEW s \in Subscribers, Pop(s)
    PROVE  IInv'
<1> DEFINE k == seq[s] + dropped[s]
<1>1. /\ items[s] \in Seq(Events) /\ offered[s] \in Seq(Events)
      /\ dropped[s] \in Nat /\ seq[s] \in Nat /\ items[s] # << >>
  BY DEF IInv, TypeInv, Pop
<1>2. k \in Nat /\ seq[s] + 1 + dropped[s] = k + 1 /\ k + 1 > 0 /\ k + 1 > seq[s] /\ k + 1 \in Nat
  BY <1>1
<1>3. Window(items[s], offered[s], k)
  BY DEF IInv, Tracks
<1> HIDE DEF k
<1>4. /\ items' = [items EXCEPT ![s] = Tail(items[s])]
      /\ dropped' = [dropped EXCEPT ![s] = 0]
      /\ seq' = [seq EXCEPT ![s] = k + 1]
      /\ inHand' = [inHand EXCEPT ![s] = Head(items[s])]
      /\ writer' = [writer EXCEPT ![s] = "writing"]
      /\ UNCHANGED <<channel, pushing, current, subs, offered, received>>
  BY <1>2 DEF IInv, TypeInv, Pop
<1>5. /\ items'[s] = Tail(items[s]) /\ dropped'[s] = 0 /\ seq'[s] = k + 1
      /\ inHand'[s] = Head(items[s]) /\ writer'[s] = "writing"
  BY <1>4 DEF IInv, TypeInv
<1>6. /\ Window(Tail(items[s]), offered[s], k + 1)
      /\ Head(items[s]) = offered[s][k + 1]
  BY <1>1, <1>2, <1>3, WindowTail
<1>7. Tail(items[s]) \in Seq(Events) /\ Len(Tail(items[s])) <= QueueCap
  <2>1. Len(items[s]) \in Nat /\ Len(items[s]) <= QueueCap /\ QueueCap \in Nat
    BY <1>1, MarketDataAssumption DEF IInv, Tracks
  <2>2. Tail(items[s]) \in Seq(Events) /\ Len(Tail(items[s])) = Len(items[s]) - 1
    BY <1>1
  <2>. QED BY <2>1, <2>2
<1>8. TypeInv'
  BY <1>2, <1>4, <1>7 DEF IInv, TypeInv, WriterStates
<1>9. Tracks(s)'
  <2>1. seq'[s] + dropped'[s] = k + 1
    BY <1>2, <1>5
  <2>2. offered'[s] = offered[s]
    BY <1>4
  <2>. QED BY <1>2, <1>5, <1>6, <1>7, <2>1, <2>2 DEF Tracks, Window
<1>10. Numbered(s)'
  <2>1. received'[s] = received[s] /\ Numbered(s)
    BY <1>4 DEF IInv
  <2>. QED BY <1>1, <1>2, <1>5, <2>1 DEF Numbered, Feeds!LastSeq
<1>11. ASSUME NEW t \in Subscribers \ {s} PROVE Tracks(t)' /\ Numbered(t)'
  BY <1>4, Bystander DEF IInv, TypeInv
<1>. QED BY <1>8, <1>9, <1>10, <1>11 DEF IInv

\* A write passes the event in hand on under its number.
LEMMA WriteKeeps ==
    ASSUME IInv, NEW s \in Subscribers, Write(s)
    PROVE  IInv'
<1> DEFINE entry == [seq |-> seq[s], event |-> inHand[s]]
<1>1. /\ offered[s] \in Seq(Events) /\ seq[s] \in Nat /\ writer[s] = "writing"
      /\ items[s] \in Seq(Events) /\ dropped[s] \in Nat
      /\ received[s] \in Seq([seq : Nat, event : Events])
  BY DEF IInv, TypeInv, Write
<1>2. seq[s] \in 1 .. Len(offered[s]) /\ inHand[s] = offered[s][seq[s]]
  <2>1. Len(offered[s]) \in Nat /\ Len(items[s]) \in Nat /\ Tracks(s)
    BY <1>1 DEF IInv
  <2>2. seq[s] + dropped[s] + Len(items[s]) = Len(offered[s]) /\ seq[s] > 0
    BY <1>1, <2>1 DEF Tracks, Window
  <2>3. seq[s] \in 1 .. Len(offered[s])
    BY <1>1, <2>1, <2>2, Between
  <2>. QED BY <1>1, <2>1, <2>3 DEF Tracks
<1>3. entry \in [seq : Nat, event : Events]
  BY <1>1, <1>2
<1>4. Append(received[s], entry) \in Seq([seq : Nat, event : Events])
  BY <1>1, <1>3
<1>5. TypeInv'
  BY <1>4 DEF IInv, TypeInv, Write, WriterStates
<1>6. /\ received'[s] = Append(received[s], entry)
      /\ writer'[s] = "ready"
      /\ UNCHANGED <<seq, dropped, items, offered, inHand>>
  BY DEF IInv, TypeInv, Write
<1>7. Tracks(s)'
  BY <1>6 DEF IInv, Tracks, Window
<1>8. Numbered(s)'
  <2>1. received'[s] # << >> /\ received'[s][Len(received'[s])] = entry
    BY <1>1, <1>3, <1>6
  <2>. QED BY <1>1, <1>6, <2>1 DEF Numbered, Feeds!LastSeq
<1>9. ASSUME NEW t \in Subscribers \ {s} PROVE Tracks(t)' /\ Numbered(t)'
  BY <1>9, Bystander DEF IInv, TypeInv, Write
<1>. QED BY <1>5, <1>7, <1>8, <1>9 DEF IInv

-----------------------------------------------------------------------------
(* Theorems *)

LEMMA NextIInv == IInv /\ [Next]_vars => IInv'
<1> SUFFICES ASSUME IInv, [Next]_vars PROVE IInv'
  OBVIOUS
<1>1. CASE \E e \in Events : Publish(e)
  BY <1>1, PublishKeeps
<1>2. CASE FanOut
  BY <1>2, FanOutKeeps
<1>3. ASSUME NEW s \in Subscribers, Push(s) PROVE IInv'
  BY <1>3, PushKeeps
<1>4. ASSUME NEW s \in Subscribers, Quiet(s) PROVE IInv'
  BY <1>4, QuietKeeps
<1>5. ASSUME NEW s \in Subscribers, Pop(s) PROVE IInv'
  BY <1>5, PopKeeps
<1>6. ASSUME NEW s \in Subscribers, Write(s) PROVE IInv'
  BY <1>6, WriteKeeps
<1>7. CASE UNCHANGED vars
  <2>1. TypeInv'
    BY <1>7 DEF IInv, TypeInv, vars
  <2>2. \A s \in Subscribers : Tracks(s)' /\ Numbered(s)'
    BY <1>7, Bystander DEF IInv, vars
  <2>. QED BY <2>1, <2>2 DEF IInv
<1>. QED BY <1>1, <1>2, <1>3, <1>4, <1>5, <1>6, <1>7 DEF Next, FanOutRuns, WriterRuns, Quiet

LEMMA IInvAccounted == IInv => Accounted
<1> SUFFICES ASSUME IInv, NEW s \in Subscribers
             PROVE  /\ seq[s] + dropped[s] + Len(items[s]) = Len(offered[s])
                    /\ items[s] = SubSeq(offered[s], seq[s] + dropped[s] + 1, Len(offered[s]))
                    /\ Len(items[s]) <= QueueCap
                    /\ writer[s] = "writing" => seq[s] > 0 /\ inHand[s] = offered[s][seq[s]]
  BY DEF Accounted
<1>1. /\ items[s] \in Seq(Events) /\ offered[s] \in Seq(Events)
      /\ seq[s] \in Nat /\ dropped[s] \in Nat /\ Tracks(s)
  BY DEF IInv, TypeInv
<1>2. seq[s] + dropped[s] \in Nat
  BY <1>1
<1>3. items[s] = SubSeq(offered[s], seq[s] + dropped[s] + 1, Len(offered[s]))
  BY <1>1, <1>2, WindowSubSeq DEF Tracks
<1>. QED BY <1>1, <1>3 DEF Tracks, Window

\* For every capacity and number of subscribers: what a subscriber was sent,
\* what drop-oldest counted as dropped and what is queued add up to everything
\* pushed, and the queue is the newest part of it.
THEOREM QueuesAccounted == Spec => []Accounted
<1>. QED BY InitIInv, NextIInv, IInvAccounted, PTL DEF Spec

\* A step of a queue or a writer is a step of the stream its client is promised,
\* or none.
LEMMA StepStreams == IInv /\ [Next]_vars => [Feeds!LNext]_<<offered, received>>
<1> SUFFICES ASSUME IInv, [Next]_vars,
                    ~UNCHANGED <<offered, received>>
             PROVE  Feeds!LNext
  OBVIOUS
<1>1. \/ \E s \in Subscribers : Push(s)
      \/ \E s \in Subscribers : Write(s)
  BY DEF Next, FanOutRuns, WriterRuns, Publish, FanOut, Subscribe, Wait, Pop, WriteFails, Unsubscribe, vars
<1>2. ASSUME NEW s \in Subscribers, Push(s) PROVE Feeds!Offer(s)
  <2>1. current \in Events
    BY <1>2 DEF IInv, TypeInv, Push
  <2>. QED BY <1>2, <2>1 DEF Push, Feeds!Offer
<1>3. ASSUME NEW s \in Subscribers, Write(s) PROVE Feeds!Receive(s)
  <2>1. /\ seq[s] \in Nat /\ offered[s] \in Seq(Events) /\ writer[s] = "writing"
        /\ items[s] \in Seq(Events) /\ dropped[s] \in Nat
    BY <1>3 DEF IInv, TypeInv, Write
  <2>2. /\ seq[s] \in Feeds!LastSeq(s) + 1 .. Len(offered[s])
        /\ inHand[s] = offered[s][seq[s]]
    <3>1. Tracks(s) /\ Numbered(s) /\ Len(items[s]) \in Nat /\ Len(offered[s]) \in Nat
      BY <2>1 DEF IInv
    <3>2. seq[s] \in 1 .. Len(offered[s]) /\ inHand[s] = offered[s][seq[s]]
      <4>1. seq[s] + dropped[s] + Len(items[s]) = Len(offered[s]) /\ seq[s] > 0
        BY <2>1, <3>1 DEF Tracks, Window
      <4>2. seq[s] \in 1 .. Len(offered[s])
        BY <2>1, <3>1, <4>1, Between
      <4>. QED BY <2>1, <3>1, <4>2 DEF Tracks
    <3>3. Feeds!LastSeq(s) \in Nat /\ Feeds!LastSeq(s) < seq[s]
      BY <2>1, <3>1 DEF Numbered
    <3>. QED BY <3>2, <3>3
  <2>. QED BY <1>3, <2>2 DEF Write, Feeds!Receive
<1>. QED BY <1>1, <1>2, <1>3 DEF Feeds!LNext

\* Every subscriber sees a LossyStream, for every capacity: the numbers on the
\* wire are positions in what was pushed to it, so each gap is a loss of that
\* many events.
THEOREM SubscribersSeeLosses == Spec => GapsShowLosses
<1>1. Init => Feeds!LInit
  BY DEF Init, Feeds!LInit
<1>. QED BY <1>1, InitIInv, NextIInv, StepStreams, PTL DEF Spec, GapsShowLosses, Feeds!LSpec
=============================================================================
