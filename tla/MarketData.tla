----------------------------- MODULE MarketData -----------------------------
(***************************************************************************)
(* Market data: the matching thread's try_send, the fan-out thread, one    *)
(* drop-oldest queue and one writer thread per subscriber.  The fan-out    *)
(* holds the mutex of the subscriber map while it goes from queue to       *)
(* queue; accepting a subscriber and forgetting one need the same mutex.   *)
(* A writer with nothing to write waits on the condition variable of its   *)
(* queue, and a write takes as long as its client likes.                   *)
(*                                                                         *)
(* A definition marked "Slip" is a plausible mistake in the definition     *)
(* after it; nothing here uses it.                                         *)
(***************************************************************************)
EXTENDS Integers, Sequences, FiniteSets

CONSTANTS Subscribers,  \* subscribers
          Events,       \* Trade and BookUpdate events
          ChannelCap,   \* MARKET_DATA_CHANNEL_CAPACITY
          QueueCap,     \* SUBSCRIBER_QUEUE_CAPACITY
          MaxEvents     \* bound: events the matching thread emits

ASSUME MarketDataAssumption ==
    /\ ChannelCap \in Nat \ {0} /\ QueueCap \in Nat \ {0} /\ MaxEvents \in Nat

VARIABLES emitted,      \* how many events the matching thread has emitted
          channel,      \* the market-data channel
          pushing,      \* the fan-out: subscribers still to get `current'
          current,      \* the event it hands out
          subs,         \* keys of the subscriber map
          items,        \* items[s]: State::items of the queue
          dropped,      \* dropped[s]: State::dropped_since_last_pop
          writer,       \* writer[s]: "absent", "ready", "waiting", "writing", "failed" or "ended"
          seq,          \* seq[s]: the writer's seq
          inHand,       \* inHand[s]: the event it writes
          offered,      \* offered[s]: all that was pushed to s
          received      \* received[s]: all that was written to s

queueVars == <<items, dropped, writer, seq, inHand>>
vars == <<emitted, channel, pushing, current, subs, items, dropped, writer, seq, inHand,
          offered, received>>

NoEvent == "no event"

\* The fan-out holds the mutex of the map.
MapLocked == pushing # {}

\* try_send by the matching thread: an event that finds the channel full is
\* lost for every subscriber.
Publish(e) ==
    /\ emitted < MaxEvents
    /\ emitted' = emitted + 1
    /\ channel' = IF Len(channel) < ChannelCap THEN Append(channel, e) ELSE channel
    /\ UNCHANGED <<pushing, current, subs, queueVars, offered, received>>

\* Slip: a subscriber whose writer is busy is passed over.
FanOutToIdle ==
    /\ ~MapLocked
    /\ channel # << >>
    /\ channel' = Tail(channel)
    /\ current' = Head(channel)
    /\ pushing' = {s \in subs : writer[s] # "writing"}
    /\ UNCHANGED <<emitted, subs, queueVars, offered, received>>

\* run_fan_out: the next event, with the map locked.
FanOut ==
    /\ ~MapLocked
    /\ channel # << >>
    /\ channel' = Tail(channel)
    /\ current' = Head(channel)
    /\ pushing' = subs
    /\ UNCHANGED <<emitted, subs, queueVars, offered, received>>

\* Slip: the newest event is dropped, and not counted.
PushOrDrop(s) ==
    /\ s \in pushing
    /\ pushing' = pushing \ {s}
    /\ items' = [items EXCEPT ![s] = IF Len(@) >= QueueCap THEN @ ELSE Append(@, current)]
    /\ writer' = [writer EXCEPT ![s] = IF @ = "waiting" THEN "ready" ELSE @]
    /\ offered' = [offered EXCEPT ![s] = Append(@, current)]
    /\ UNCHANGED <<emitted, channel, current, subs, dropped, seq, inHand, received>>

\* Slip: nobody is woken.
PushQuietly(s) ==
    /\ s \in pushing
    /\ pushing' = pushing \ {s}
    /\ LET full == Len(items[s]) >= QueueCap
       IN  /\ items' = [items EXCEPT ![s] = Append(IF full THEN Tail(@) ELSE @, current)]
           /\ dropped' = [dropped EXCEPT ![s] = IF full THEN @ + 1 ELSE @]
    /\ offered' = [offered EXCEPT ![s] = Append(@, current)]
    /\ UNCHANGED <<emitted, channel, current, subs, writer, seq, inHand, received>>

\* Slip: a push waits for room.
PushWhenRoom(s) ==
    /\ s \in pushing
    /\ Len(items[s]) < QueueCap
    /\ pushing' = pushing \ {s}
    /\ items' = [items EXCEPT ![s] = Append(@, current)]
    /\ writer' = [writer EXCEPT ![s] = IF @ = "waiting" THEN "ready" ELSE @]
    /\ offered' = [offered EXCEPT ![s] = Append(@, current)]
    /\ UNCHANGED <<emitted, channel, current, subs, dropped, seq, inHand, received>>

\* DropOldestQueue::push; the values of the map are visited in any order.
Push(s) ==
    /\ s \in pushing
    /\ pushing' = pushing \ {s}
    /\ LET full == Len(items[s]) >= QueueCap
       IN  /\ items' = [items EXCEPT ![s] = Append(IF full THEN Tail(@) ELSE @, current)]
           /\ dropped' = [dropped EXCEPT ![s] = IF full THEN @ + 1 ELSE @]
    /\ writer' = [writer EXCEPT ![s] = IF @ = "waiting" THEN "ready" ELSE @]
    /\ offered' = [offered EXCEPT ![s] = Append(@, current)]
    /\ UNCHANGED <<emitted, channel, current, subs, seq, inHand, received>>

\* run_market_data: a subscriber connects and gets a queue and a writer.
Subscribe(s) ==
    /\ writer[s] = "absent"
    /\ ~MapLocked
    /\ subs' = subs \cup {s}
    /\ writer' = [writer EXCEPT ![s] = "ready"]
    /\ UNCHANGED <<emitted, channel, pushing, current, items, dropped, seq, inHand, offered, received>>

\* pop_blocking on an empty queue.
Wait(s) ==
    /\ writer[s] = "ready"
    /\ items[s] = << >>
    /\ writer' = [writer EXCEPT ![s] = "waiting"]
    /\ UNCHANGED <<emitted, channel, pushing, current, subs, items, dropped, seq, inHand, offered, received>>

\* Slip: the number counts what this subscriber receives.
PopUncounted(s) ==
    /\ writer[s] = "ready"
    /\ items[s] # << >>
    /\ writer' = [writer EXCEPT ![s] = "writing"]
    /\ inHand' = [inHand EXCEPT ![s] = Head(items[s])]
    /\ seq' = [seq EXCEPT ![s] = @ + 1]
    /\ items' = [items EXCEPT ![s] = Tail(@)]
    /\ dropped' = [dropped EXCEPT ![s] = 0]
    /\ UNCHANGED <<emitted, channel, pushing, current, subs, offered, received>>

\* pop_blocking on a queue with items, and the number of the event.
Pop(s) ==
    /\ writer[s] = "ready"
    /\ items[s] # << >>
    /\ writer' = [writer EXCEPT ![s] = "writing"]
    /\ inHand' = [inHand EXCEPT ![s] = Head(items[s])]
    /\ seq' = [seq EXCEPT ![s] = @ + 1 + dropped[s]]
    /\ items' = [items EXCEPT ![s] = Tail(@)]
    /\ dropped' = [dropped EXCEPT ![s] = 0]
    /\ UNCHANGED <<emitted, channel, pushing, current, subs, offered, received>>

Write(s) ==
    /\ writer[s] = "writing"
    /\ writer' = [writer EXCEPT ![s] = "ready"]
    /\ received' = [received EXCEPT ![s] = Append(@, [seq |-> seq[s], event |-> inHand[s]])]
    /\ UNCHANGED <<emitted, channel, pushing, current, subs, items, dropped, seq, inHand, offered>>

\* The client has gone.
WriteFails(s) ==
    /\ writer[s] = "writing"
    /\ writer' = [writer EXCEPT ![s] = "failed"]
    /\ UNCHANGED <<emitted, channel, pushing, current, subs, items, dropped, seq, inHand, offered, received>>

\* The subscriber leaves the map, which is not locked.
Unsubscribe(s) ==
    /\ writer[s] = "failed"
    /\ ~MapLocked
    /\ subs' = subs \ {s}
    /\ writer' = [writer EXCEPT ![s] = "ended"]
    /\ UNCHANGED <<emitted, channel, pushing, current, items, dropped, seq, inHand, offered, received>>

\* The writer's steps that need nobody else.
WriterRuns(s) == Wait(s) \/ Pop(s) \/ Unsubscribe(s)

FanOutRuns == FanOut \/ \E s \in Subscribers : Push(s)

Init ==
    /\ emitted = 0
    /\ channel = << >>
    /\ pushing = {}
    /\ current = NoEvent
    /\ subs = {}
    /\ items = [s \in Subscribers |-> << >>]
    /\ dropped = [s \in Subscribers |-> 0]
    /\ writer = [s \in Subscribers |-> "absent"]
    /\ seq = [s \in Subscribers |-> 0]
    /\ inHand = [s \in Subscribers |-> NoEvent]
    /\ offered = [s \in Subscribers |-> << >>]
    /\ received = [s \in Subscribers |-> << >>]

Next ==
    \/ \E e \in Events : Publish(e)
    \/ FanOutRuns
    \/ \E s \in Subscribers : Subscribe(s) \/ WriterRuns(s) \/ Write(s) \/ WriteFails(s)

\* The threads run whenever they can; a client may never read again, so
\* nothing is assumed of Write.
Spec ==
    /\ Init /\ [][Next]_vars
    /\ WF_vars(FanOutRuns)
    /\ \A s \in Subscribers : WF_vars(WriterRuns(s))

-----------------------------------------------------------------------------
(* Properties *)

\* Inductive.  The number of the last event popped, what was dropped since and
\* what is queued account for everything pushed, and the queue is the end of
\* that: the oldest were dropped, and the newest is never lost.
Accounted ==
    \A s \in Subscribers :
        /\ seq[s] + dropped[s] + Len(items[s]) = Len(offered[s])
        /\ items[s] = SubSeq(offered[s], seq[s] + dropped[s] + 1, Len(offered[s]))
        /\ Len(items[s]) <= QueueCap
        /\ writer[s] = "writing" => seq[s] > 0 /\ inHand[s] = offered[s][seq[s]]

Feeds == INSTANCE LossyStream WITH Readers <- Subscribers

\* Each subscriber sees a LossyStream of what was pushed to it: the StreamSeq
\* of an event is its position, so a gap is exactly what drop-oldest dropped,
\* whatever the interleaving of the fan-out with its pops and writes.
GapsShowLosses == Feeds!LSpec

\* A subscriber is offered every event from its subscription on, in the order
\* all others see: while the map is locked for one event nobody joins or leaves
\* half way, so of two subscribers one feed ends with the other.
SameFeed ==
    pushing = {} => \A s, t \in subs :
        \/ \E k \in 0 .. Len(offered[t]) : offered[s] = SubSeq(offered[t], k + 1, Len(offered[t]))
        \/ \E k \in 0 .. Len(offered[s]) : offered[t] = SubSeq(offered[s], k + 1, Len(offered[s]))

\* No subscriber can hold up the fan-out, and so the channel, by not reading.
FanOutNeverStalls == []<>(channel = << >> /\ pushing = {})

\* A subscriber that reads, or goes away, ends up with the newest event it was
\* offered: its writer never sleeps through a push, and is forgotten when the
\* client has gone.
NewestArrives ==
    \A s \in Subscribers : WF_vars(Write(s) \/ WriteFails(s)) =>
        <>[](\/ writer[s] \in {"absent", "ended"}
             \/ offered[s] = << >>
             \/ received[s] # << >> /\ received[s][Len(received[s])].seq = Len(offered[s]))
=============================================================================
