----------------------------- MODULE OrderEntry -----------------------------
(***************************************************************************)
(* Order entry: the accept loop, a reader thread per connection, the       *)
(* command channel, the matching thread, the return channel and the        *)
(* dispatcher that writes to every socket.  Both channels are bounded and  *)
(* a send to a full one blocks; so does a write to a socket whose client   *)
(* does not read, and the dispatcher then holds the writers mutex, which   *)
(* the accept loop needs.                                                  *)
(*                                                                         *)
(* What a command does is left to MatchingEngine and MatchingThread: here  *)
(* it causes some reports, each for a connection that was accepted, the    *)
(* sender or another.  A socket holds a number of messages.                *)
(*                                                                         *)
(* A definition marked "Slip" is a plausible mistake in the definition     *)
(* after it; nothing here uses it.                                         *)
(***************************************************************************)
EXTENDS Integers, Sequences

CONSTANTS Conns,        \* connections
          CommandCap,   \* COMMAND_CHANNEL_CAPACITY
          ReturnCap,    \* RETURN_CHANNEL_CAPACITY
          SocketCap,    \* messages a socket holds before a write blocks
          Frames,       \* bound: Frames[c] is how many frames client c sends
          MaxReports    \* bound: reports one command causes

ASSUME OrderEntryAssumption ==
    /\ CommandCap \in Nat \ {0} /\ ReturnCap \in Nat \ {0} /\ SocketCap \in Nat \ {0}
    /\ Frames \in [Conns -> Nat] /\ MaxReports \in Nat

VARIABLES peer,         \* peer[c]: "absent", "open", or "gone" when the client closed
          frame,        \* frame[c]: what the reader of c has decoded and is to pass on
          count,        \* count[c]: frames the reader of c has decoded
          commands,     \* the command channel
          busy,         \* the command the matching thread works on, << >> or <<command>>
          engineSeq,    \* engine_seq
          returns,      \* the return channel
          held,         \* what the dispatcher writes with the mutex held, << >> or <<report>>
          writers,      \* keys of the writers map
          seqs,         \* the dispatcher's seqs; 0 is no entry
          stream,       \* stream[c]: all that was written to the socket of c
          unread        \* unread[c]: how much of it the client has not read

serverVars == <<frame, count, commands, busy, engineSeq, returns, held, writers, seqs>>
vars == <<peer, frame, count, commands, busy, engineSeq, returns, held, writers, seqs, stream, unread>>

FrameKinds == {"command", "malformed", "unknown"}

\* The sentinel WIRE_LEVEL_REJECT_ENGINE_SEQ.
WireReject == 0

\* A report: where it goes, the frame that caused it, the engine_seq it carries.
Report(to, from, n, engine) == [to |-> to, from |-> from, n |-> n, engine |-> engine]

-----------------------------------------------------------------------------
(* run_order_entry *)

\* A connection is accepted; its write half goes into the map.
Accept(c) ==
    /\ peer[c] = "absent"
    /\ held = << >>
    /\ peer' = [peer EXCEPT ![c] = "open"]
    /\ writers' = writers \cup {c}
    /\ frame' = [frame EXCEPT ![c] = "none"]
    /\ UNCHANGED <<count, commands, busy, engineSeq, returns, held, seqs, stream, unread>>

\* try_clone fails: the connection is dropped, its id is used up.
AcceptDrops(c) ==
    /\ peer[c] = "absent"
    /\ peer' = [peer EXCEPT ![c] = "gone"]
    /\ UNCHANGED <<serverVars, stream, unread>>

-----------------------------------------------------------------------------
(* run_reader *)

\* The next frame of the client, which may have left since.  At a frame with the
\* tag of an event decode_command panics: the reader ends and nothing is sent.
ReaderTake(c) ==
    /\ frame[c] = "none"
    /\ count[c] < Frames[c]
    /\ \E kind \in FrameKinds \cup {"ended"} : frame' = [frame EXCEPT ![c] = kind]
    /\ count' = [count EXCEPT ![c] = @ + 1]
    /\ UNCHANGED <<peer, commands, busy, engineSeq, returns, held, writers, seqs, stream, unread>>

\* The connection is closed.  The write half stays in the map.
ReaderEnd(c) ==
    /\ frame[c] = "none"
    /\ peer[c] = "gone"
    /\ frame' = [frame EXCEPT ![c] = "ended"]
    /\ UNCHANGED <<peer, count, commands, busy, engineSeq, returns, held, writers, seqs, stream, unread>>

\* A command goes to the command channel.
SendCommand(c) ==
    /\ frame[c] = "command"
    /\ Len(commands) < CommandCap
    /\ commands' = Append(commands, [conn |-> c, n |-> count[c]])
    /\ frame' = [frame EXCEPT ![c] = "none"]
    /\ UNCHANGED <<peer, count, busy, engineSeq, returns, held, writers, seqs, stream, unread>>

\* A reject goes to the return channel; an unknown tag also ends the reader.
SendReject(c) ==
    /\ frame[c] \in {"malformed", "unknown"}
    /\ Len(returns) < ReturnCap
    /\ returns' = Append(returns, Report(c, c, count[c], WireReject))
    /\ frame' = [frame EXCEPT ![c] = IF @ = "unknown" THEN "ended" ELSE "none"]
    /\ UNCHANGED <<peer, count, commands, busy, engineSeq, held, writers, seqs, stream, unread>>

-----------------------------------------------------------------------------
(* run_matching_thread *)

\* Slip: the newest command first, as Vec::pop would give.
TakeNewest ==
    /\ busy = << >>
    /\ commands # << >>
    /\ engineSeq' = engineSeq + 1
    /\ \E left \in 0 .. MaxReports :
          LET last == commands[Len(commands)]
          IN  busy' = IF left = 0 THEN << >> ELSE <<[conn |-> last.conn, n |-> last.n, left |-> left]>>
    /\ commands' = SubSeq(commands, 1, Len(commands) - 1)
    /\ UNCHANGED <<peer, frame, count, returns, held, writers, seqs, stream, unread>>

\* process_command numbers the command before it does anything else.
TakeCommand ==
    /\ busy = << >>
    /\ commands # << >>
    /\ engineSeq' = engineSeq + 1
    /\ \E left \in 0 .. MaxReports :
          busy' = IF left = 0 THEN << >>
                  ELSE <<[conn |-> Head(commands).conn, n |-> Head(commands).n, left |-> left]>>
    /\ commands' = Tail(commands)
    /\ UNCHANGED <<peer, frame, count, returns, held, writers, seqs, stream, unread>>

\* Slip: the report carries the number of the frame on its own connection.
EmitFrameNumber ==
    /\ busy # << >>
    /\ Len(returns) < ReturnCap
    /\ \E c \in {d \in Conns : frame[d] # "absent"} :
          returns' = Append(returns, Report(c, busy[1].conn, busy[1].n, busy[1].n))
    /\ busy' = IF busy[1].left = 1 THEN << >> ELSE <<[busy[1] EXCEPT !.left = @ - 1]>>
    /\ UNCHANGED <<peer, frame, count, commands, engineSeq, held, writers, seqs, stream, unread>>

\* A report for the sender, or for a connection the table names, which may be
\* closed by now.
Emit ==
    /\ busy # << >>
    /\ Len(returns) < ReturnCap
    /\ \E c \in {d \in Conns : frame[d] # "absent"} :
          returns' = Append(returns, Report(c, busy[1].conn, busy[1].n, engineSeq))
    /\ busy' = IF busy[1].left = 1 THEN << >> ELSE <<[busy[1] EXCEPT !.left = @ - 1]>>
    /\ UNCHANGED <<peer, frame, count, commands, engineSeq, held, writers, seqs, stream, unread>>

-----------------------------------------------------------------------------
(* run_return_dispatcher *)

\* Slip: one counter for all connections.
DispatchShared ==
    /\ held = << >>
    /\ returns # << >>
    /\ held' = <<Head(returns)>>
    /\ seqs' = [c \in Conns |-> seqs[c] + 1]
    /\ returns' = Tail(returns)
    /\ UNCHANGED <<peer, frame, count, commands, busy, engineSeq, writers, stream, unread>>

\* The next report is numbered and the mutex taken.
Dispatch ==
    /\ held = << >>
    /\ returns # << >>
    /\ held' = <<Head(returns)>>
    /\ seqs' = [seqs EXCEPT ![Head(returns).to] = @ + 1]
    /\ returns' = Tail(returns)
    /\ UNCHANGED <<peer, frame, count, commands, busy, engineSeq, writers, stream, unread>>

Stamped(report) ==
    [seq |-> seqs[report.to], engine |-> report.engine, from |-> report.from, n |-> report.n]

\* write_all to a client that is there and has room for the message.
Write ==
    /\ held # << >>
    /\ LET c == held[1].to
       IN  /\ c \in writers
           /\ peer[c] = "open"
           /\ unread[c] < SocketCap
           /\ stream' = [stream EXCEPT ![c] = Append(@, Stamped(held[1]))]
           /\ unread' = [unread EXCEPT ![c] = @ + 1]
    /\ held' = << >>
    /\ UNCHANGED <<peer, frame, count, commands, busy, engineSeq, returns, writers, seqs>>

\* Slip: a write that failed is tried again.
WriteRetries ==
    /\ held # << >>
    /\ LET c == held[1].to
       IN  c \notin writers \/ peer[c] = "gone"
    /\ UNCHANGED vars

\* No entry, or the client has closed: the connection is forgotten.
WriteFails ==
    /\ held # << >>
    /\ LET c == held[1].to
       IN  /\ c \notin writers \/ peer[c] = "gone"
           /\ writers' = writers \ {c}
           /\ seqs' = [seqs EXCEPT ![c] = 0]
    /\ held' = << >>
    /\ UNCHANGED <<peer, frame, count, commands, busy, engineSeq, returns, stream, unread>>

-----------------------------------------------------------------------------
(* Clients *)

ClientReads(c) ==
    /\ peer[c] = "open"
    /\ unread[c] > 0
    /\ unread' = [unread EXCEPT ![c] = @ - 1]
    /\ UNCHANGED <<peer, serverVars, stream>>

ClientCloses(c) ==
    /\ peer[c] = "open"
    /\ peer' = [peer EXCEPT ![c] = "gone"]
    /\ UNCHANGED <<serverVars, stream, unread>>

Init ==
    /\ peer = [c \in Conns |-> "absent"]
    /\ frame = [c \in Conns |-> "absent"]
    /\ count = [c \in Conns |-> 0]
    /\ commands = << >>
    /\ busy = << >>
    /\ engineSeq = 0
    /\ returns = << >>
    /\ held = << >>
    /\ writers = {}
    /\ seqs = [c \in Conns |-> 0]
    /\ stream = [c \in Conns |-> << >>]
    /\ unread = [c \in Conns |-> 0]

ReaderSends(c) == SendCommand(c) \/ SendReject(c) \/ ReaderEnd(c)
Matching       == TakeCommand \/ Emit
Dispatcher     == Dispatch \/ Write \/ WriteFails

Next ==
    \/ \E c \in Conns :
          \/ Accept(c) \/ AcceptDrops(c) \/ ReaderTake(c) \/ ReaderSends(c)
          \/ ClientReads(c) \/ ClientCloses(c)
    \/ Matching
    \/ Dispatcher

\* The threads of the server run whenever they can.
ServerFairness ==
    /\ \A c \in Conns : WF_vars(ReaderSends(c))
    /\ WF_vars(Matching)
    /\ WF_vars(Dispatcher)

Spec == Init /\ [][Next]_vars /\ ServerFairness

\* Clients that stay connected go on reading.
ReadingSpec == Spec /\ \A c \in Conns : WF_vars(ClientReads(c))

-----------------------------------------------------------------------------
(* Properties *)

\* The messages on a connection are numbered 1, 2, 3, ... without a gap, also
\* when other connections fail, and when this one's entry in seqs is dropped
\* no message follows with a number that was used.  run_return_dispatcher
\* numbers before it knows whether the write succeeds.
StreamNumbered ==
    \A c \in Conns : \A i \in DOMAIN stream[c] : stream[c][i].seq = i

\* On each connection the engine numbers never go back: reports of an earlier
\* command, its own or another client's, are not overtaken by those of a later
\* one on the way through the return channel.  Rejects of the reader carry 0.
EngineOrderKept ==
    \A c \in Conns : \A i, j \in DOMAIN stream[c] :
        i < j /\ stream[c][i].engine # WireReject /\ stream[c][j].engine # WireReject
            => stream[c][i].engine <= stream[c][j].engine

\* The answers to a client's own frames come in the order of the frames, with
\* one exception: the reader sends a reject past the command channel, so it may
\* overtake the reports of commands sent before.  It overtakes no other reject,
\* and nothing overtakes it: it is never late.
OwnAnswersOrdered ==
    \A c \in Conns : \A i, j \in DOMAIN stream[c] :
        i < j /\ stream[c][i].from = c /\ stream[c][j].from = c
            => \/ stream[c][i].n <= stream[c][j].n
               \/ stream[c][i].engine = WireReject /\ stream[c][j].engine # WireReject

\* When clients read, everything that was sent comes through: no reader, nor
\* the matching thread, nor the dispatcher is left waiting on another, whoever
\* closes and whatever the channels' capacities.
AllServed ==
    <>[](/\ \A c \in Conns : frame[c] \notin FrameKinds
         /\ commands = << >> /\ busy = << >> /\ returns = << >> /\ held = << >>)

\* "a slow subscriber or a slow reader never stalls the matching thread"
\* (order_entry.rs:15): the matching thread always gets back to receive.
MatchingNeverStalls == []<>(busy = << >>)
=============================================================================
