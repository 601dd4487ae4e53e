-------------------------------- MODULE Bench --------------------------------
(***************************************************************************)
(* The latency benchmark: a sender thread that keeps to a schedule, a      *)
(* reader thread that pairs replies with the messages they answer by the   *)
(* key (account, order) alone, and the pool of resting orders they share.  *)
(*                                                                         *)
(* Message i is the i-th slot of the schedule, and stands for its intended *)
(* time.  The server is MatchingEngine behind OrderEntry, abstracted to    *)
(* what the benchmark sees: it answers in the order of the commands, and   *)
(* an order that crosses touches makers on the way; which ones, and how    *)
(* much of them, is left open (there are no prices or quantities here).    *)
(* Every event carries, in "of", the message it is the answer to (0:       *)
(* none); the program does not see it.                                     *)
(*                                                                         *)
(* A definition marked "Slip" is a plausible mistake in the definition     *)
(* after it; nothing here uses it.                                         *)
(***************************************************************************)
EXTENDS Integers, Sequences, SequencesExt, FiniteSets, FiniteSetsExt

CONSTANTS Messages,     \* config.messages
          AccountPool,  \* ACCOUNT_POOL
          Mix,          \* percentages [new, cancel, cross]
          SocketCap     \* commands the socket to the server holds

\* Mix::validate.
ASSUME BenchAssumption == Mix.new + Mix.cancel + Mix.cross = 100

VARIABLES sender,       \* "choose", "insert", "write" or "done"
          slot,         \* messages scheduled so far
          chosen,       \* the command in the sender's hands
          nextId,       \* next_order_id
          pool,         \* resting_pool
          pending,      \* pending[key]: a message, or 0
          reader,       \* "read", "match" or "ended"
          hand,         \* the event in the reader's hands
          samples,      \* matched replies: the message taken, and the event's "of"
          cancels,      \* messages that are cancels
          wire,         \* commands on their way
          replies,      \* events on their way
          book,         \* resting orders of the server
          open          \* the connection

senderVars == <<sender, slot, chosen, nextId, cancels>>
readerVars == <<reader, hand, samples>>
serverVars == <<wire, replies, book, open>>
vars == <<senderVars, readerVars, serverVars, pool, pending>>

Sides == {"Buy", "Sell"}
None  == [kind |-> "none"]
Keys  == 1 .. Messages

\* fresh_account: round robin, so an order id determines its account.
Account(key) == key % AccountPool

KindForRoll(roll) ==
    CASE roll < Mix.new -> "New"
      [] roll >= Mix.new /\ roll < Mix.new + Mix.cancel -> "Cancel"
      [] OTHER -> IF 2 * (roll - Mix.new - Mix.cancel) < Mix.cross
                  THEN "CrossMarket" ELSE "CrossLimitSweep"

\* What some value of the generator leads to.
Kinds == {KindForRoll(roll) : roll \in 0 .. 99}

-----------------------------------------------------------------------------
(* The sender *)

\* A new order under a fresh id, of either side.
NewOrder(kind) ==
    /\ \E side \in Sides :
          chosen' = [kind |-> kind, key |-> nextId, side |-> side, of |-> slot + 1]
    /\ nextId' = nextId + 1
    /\ UNCHANGED <<pool, cancels>>

\* Cancels the order that has been in the pool longest.
CancelOldest ==
    /\ chosen' = [kind |-> "Cancel", key |-> Head(pool), of |-> slot + 1]
    /\ pool' = Tail(pool)
    /\ cancels' = cancels \cup {slot + 1}
    /\ UNCHANGED nextId

\* Slip: new_order_fallback uses the last id again.
NextCommandReusing ==
    \E kind \in Kinds :
        IF kind # "Cancel" THEN NewOrder(kind)
        ELSE IF pool # << >> THEN CancelOldest
        ELSE /\ \E side \in Sides :
                   chosen' = [kind |-> "New", key |-> IF nextId = 1 THEN 1 ELSE nextId - 1,
                              side |-> side, of |-> slot + 1]
             /\ UNCHANGED <<nextId, pool, cancels>>

\* next_command; with nothing to cancel it is a new order.
NextCommand ==
    \E kind \in Kinds :
        IF kind # "Cancel" THEN NewOrder(kind)
        ELSE IF pool # << >> THEN CancelOldest
        ELSE NewOrder("New")

Choose ==
    /\ sender = "choose"
    /\ slot < Messages
    /\ NextCommand
    /\ slot' = slot + 1
    /\ sender' = "insert"
    /\ UNCHANGED <<readerVars, serverVars, pending>>

\* An entry already there is overwritten.
Insert ==
    /\ sender = "insert"
    /\ pending' = [pending EXCEPT ![chosen.key] = slot]
    /\ sender' = "write"
    /\ UNCHANGED <<slot, chosen, nextId, cancels, readerVars, serverVars, pool>>

\* write_all waits for room; a failure is ignored.
Write ==
    /\ sender = "write"
    /\ open => Len(wire) < SocketCap
    /\ wire' = IF open THEN Append(wire, chosen) ELSE wire
    /\ chosen' = None
    /\ sender' = "choose"
    /\ UNCHANGED <<slot, nextId, cancels, readerVars, replies, book, open, pool, pending>>

SenderEnds ==
    /\ sender = "choose"
    /\ slot = Messages
    /\ sender' = "done"
    /\ UNCHANGED <<slot, chosen, nextId, cancels, readerVars, serverVars, pool, pending>>

-----------------------------------------------------------------------------
(* The reader *)

Without(seq, key) == SelectSeq(seq, LAMBDA k : k # key)

\* Slip: an order that was filled stays in the pool.
ObservedNotFilled(event) ==
    CASE event.type = "Accepted" /\ event.rests -> Append(pool, event.key)
      [] event.type = "Cancelled" -> Without(pool, event.key)
      [] OTHER -> pool

\* Workload::observe.
Observed(event) ==
    CASE event.type = "Accepted" /\ event.rests -> Append(pool, event.key)
      [] event.type = "Cancelled" \/ (event.type = "Filled" /\ ~event.rests)
             -> Without(pool, event.key)
      [] OTHER -> pool

\* The pool is unlocked before the event is looked up in pending.
Observe ==
    /\ reader = "read"
    /\ replies # << >>
    /\ pool' = Observed(Head(replies))
    /\ hand' = Head(replies)
    /\ replies' = Tail(replies)
    /\ reader' = "match"
    /\ UNCHANGED <<senderVars, samples, wire, book, open, pending>>

\* pending.remove(&id).
Settled(key) == [pending EXCEPT ![key] = 0]

Match ==
    /\ reader = "match"
    /\ samples' = IF pending[hand.key] = 0 THEN samples
                  ELSE Append(samples, [message |-> pending[hand.key], key |-> hand.key, of |-> hand.of])
    /\ pending' = Settled(hand.key)
    /\ hand' = None
    /\ reader' = "read"
    /\ UNCHANGED <<senderVars, serverVars, pool>>

\* All matched; or the connection is closed and read to its end; or no match
\* for IDLE_TIMEOUT although the sender is done, which without a clock may come
\* as soon as the sender is.
AllMatched == sender = "done" /\ Len(samples) >= Messages
Closed     == ~open /\ replies = << >>

\* Slip: without the timeout.
GivesUpNever == FALSE

GivesUp == sender = "done"

ReaderEnds ==
    /\ reader = "read"
    /\ AllMatched \/ Closed \/ GivesUp
    /\ reader' = "ended"
    /\ UNCHANGED <<senderVars, hand, samples, serverVars, pool, pending>>

-----------------------------------------------------------------------------
(* The server *)

Event(type, key, rests, of) == [type |-> type, key |-> key, rests |-> rests, of |-> of]

\* The makers a command meets, in some order: of the same account they are
\* cancelled, others are filled; only the last may be filled in part.
Meetings(command) ==
    LET opposite == {o \in book : o.side # command.side}
    IN  UNION {SetToSeqs(makers) : makers \in SUBSET opposite}

\* The fills of a sweep, the taker's before the maker's; left: some of the
\* command is left after them.
MeetingEvents(command, makers, partly, left) ==
    FlattenSeq([i \in DOMAIN makers |->
        IF Account(makers[i].key) = Account(command.key)
        THEN <<Event("Cancelled", makers[i].key, FALSE, 0)>>
        ELSE <<Event("Filled", command.key, left \/ i < Len(makers), command.of),
               Event("Filled", makers[i].key, partly /\ i = Len(makers), 0)>>])

\* Refused by the gate; or swept, the sweep ending in a fill when nothing is left
\* of the order, and with what is left at rest unless it is a market order (the
\* others are GTC).
ServeNewOrder(command) ==
    \/ /\ replies' = Append(replies, Event("Rejected", command.key, FALSE, command.of))
       /\ UNCHANGED book
    \/ \E makers \in Meetings(command), partly, left \in BOOLEAN :
          LET gone  == ToSet(IF partly THEN Front(makers) ELSE makers)
              rests == left /\ command.kind # "CrossMarket"
          IN  /\ partly => ~left
              /\ ~left => makers # << >> /\ Account(Last(makers).key) # Account(command.key)
              /\ replies' = replies \o MeetingEvents(command, makers, partly, left)
                                    \o <<Event("Accepted", command.key, rests, command.of)>>
              /\ book' = (book \ gone)
                            \cup (IF rests THEN {[key |-> command.key, side |-> command.side]} ELSE {})

ServeCancel(command) ==
    LET order == {o \in book : o.key = command.key}
    IN  /\ replies' = Append(replies, Event(IF order = {} THEN "Rejected" ELSE "Cancelled",
                                            command.key, FALSE, command.of))
        /\ book' = book \ order

Serve ==
    /\ open
    /\ wire # << >>
    /\ LET command == Head(wire)
       IN  IF command.kind = "Cancel" THEN ServeCancel(command) ELSE ServeNewOrder(command)
    /\ wire' = Tail(wire)
    /\ UNCHANGED <<senderVars, readerVars, open, pool, pending>>

\* The daemon goes away.
ServerCloses ==
    /\ open
    /\ open' = FALSE
    /\ wire' = << >>
    /\ UNCHANGED <<senderVars, readerVars, replies, book, pool, pending>>

-----------------------------------------------------------------------------

Init ==
    /\ sender = "choose"
    /\ slot = 0
    /\ chosen = None
    /\ nextId = 1
    /\ pool = << >>
    /\ pending = [key \in Keys |-> 0]
    /\ reader = "read"
    /\ hand = None
    /\ samples = << >>
    /\ cancels = {}
    /\ wire = << >>
    /\ replies = << >>
    /\ book = {}
    /\ open = TRUE

Sender == Choose \/ Insert \/ Write \/ SenderEnds
Reader == Observe \/ Match \/ ReaderEnds

Next == Sender \/ Reader \/ Serve \/ ServerCloses

\* The threads run, and a server that is there answers.  That the timeout
\* comes is part of the reader's fairness.
Spec == Init /\ [][Next]_vars /\ WF_vars(Sender) /\ WF_vars(Reader) /\ WF_vars(Serve)

-----------------------------------------------------------------------------
(* Properties *)

Sampled == {samples[i].message : i \in DOMAIN samples}

\* A latency is measured with the reply to the message it is taken for, except
\* that a cancel may be measured with an earlier event of the order it cancels:
\* a fill on the way, or the reply to the order that is still being matched.
\* No message is sampled twice, so unmatched() and histogram_samples() never
\* go below zero, and a run that reports every message as matched has a sample
\* for each: a lossy run does not look like a clean one.
SamplesExplained ==
    /\ \A i \in DOMAIN samples :
          \/ samples[i].of = samples[i].message
          \/ samples[i].message \in cancels /\ samples[i].of < samples[i].message
    /\ Cardinality(Sampled) = Len(samples)
    /\ Sampled \subseteq 1 .. slot

\* Once every command is answered and every reply read, the pool that cancels
\* are drawn from is what rests in the book, although the two threads change it
\* and orders leave the book before the pool hears of it.
PoolIsBook ==
    (sender \in {"choose", "done"} /\ reader = "read" /\ open /\ wire = << >> /\ replies = << >>)
        => /\ ToSet(pool) = {o.key : o \in book}
           /\ Len(pool) = Cardinality(book)

\* A run ends, even when a reply was taken for another message and the count of
\* matches can no longer reach the number sent.
RunEnds == <>(reader = "ended" /\ sender = "done")
=============================================================================
