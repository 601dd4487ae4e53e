------------------------------ MODULE Framing ------------------------------
(***************************************************************************)
(* One direction of one connection: a peer writes whole frames, the        *)
(* transport delivers their bytes in pieces of any size, and a reader      *)
(* recovers the messages with Framer and a decoder.  The reader is the     *)
(* reader thread of the gateway for commands, and the reader thread of the *)
(* measuring client for events.                                            *)
(*                                                                         *)
(* A definition marked "Slip" is a plausible mistake in the definition     *)
(* after it; nothing here uses it.                                         *)
(***************************************************************************)
EXTENDS Wire, FiniteSets

CONSTANTS Inbound,      \* streams of frames a client may send, each frame with
          Outbound,     \* what it stands for; streams the engine may send
          MaxRead       \* bound: bytes one read returns

VARIABLES direction,    \* "in" or "out"
          frames,       \* the frames the peer sends, [frame, means] each
          at,           \* how many bytes have been read
          buf,          \* Framer::buf
          results,      \* what the frames decoded to, in order
          status        \* "open", "closed" (the loop has ended) or "panicked"

vars == <<direction, frames, at, buf, results, status>>

Stream == FlattenSeq([i \in DOMAIN frames |-> frames[i].frame])

\* Slip: a frame that ends where the buffer ends has to wait.
DrainLate(bytes) ==
    LET drain[p \in 1 .. Len(bytes) + 1] ==
            LET left == Len(bytes) - p + 1
                stop(bad) == [whole |-> << >>, rest |-> SubSeq(bytes, p, Len(bytes)), unknown |-> bad]
            IN  IF left = 0 THEN stop(FALSE)
                ELSE IF ~KnownTag(bytes[p]) THEN stop(TRUE)
                ELSE LET len == MessageLen(bytes[p])
                     IN  IF left <= len THEN stop(FALSE)
                         ELSE [drain[p + len] EXCEPT !.whole = <<SubSeq(bytes, p, p + len - 1)>> \o @]
    IN  drain[1]

\* drain_frames: the whole frames, the bytes retained, and whether it stopped
\* at an unknown tag.
Drain(bytes) ==
    LET drain[p \in 1 .. Len(bytes) + 1] ==
            LET left == Len(bytes) - p + 1
                stop(bad) == [whole |-> << >>, rest |-> SubSeq(bytes, p, Len(bytes)), unknown |-> bad]
            IN  IF left = 0 THEN stop(FALSE)
                ELSE IF ~KnownTag(bytes[p]) THEN stop(TRUE)
                ELSE LET len == MessageLen(bytes[p])
                     IN  IF left < len THEN stop(FALSE)
                         ELSE [drain[p + len] EXCEPT !.whole = <<SubSeq(bytes, p, p + len - 1)>> \o @]
    IN  drain[1]

\* The frames up to the first one that panics.
BeforePanic(decoded) ==
    LET panics == {i \in DOMAIN decoded : decoded[i] = Panic}
    IN  IF panics = {} THEN decoded
        ELSE SubSeq(decoded, 1, (CHOOSE i \in panics : \A j \in panics : i <= j) - 1)

\* Slip: the frames before an unknown tag are lost with it.
ReadCommandsOrFail(n) ==
    LET drained == Drain(buf \o SubSeq(Stream, at + 1, at + n))
        decoded == [i \in DOMAIN drained.whole |-> DecodeCommand(drained.whole[i])]
        sent    == BeforePanic(decoded)
    IN  /\ direction = "in"
        /\ buf' = drained.rest
        /\ IF sent # decoded THEN results' = results \o sent /\ status' = "panicked"
           ELSE IF drained.unknown
           THEN results' = Append(results, Err("UnknownMessageType")) /\ status' = "closed"
           ELSE results' = results \o sent /\ UNCHANGED status

\* One turn of run_reader: a read of n bytes, all frames they complete, and
\* the reject with which an unknown tag ends the connection.
ReadCommands(n) ==
    LET drained == Drain(buf \o SubSeq(Stream, at + 1, at + n))
        decoded == [i \in DOMAIN drained.whole |-> DecodeCommand(drained.whole[i])]
        sent    == BeforePanic(decoded)
    IN  /\ direction = "in"
        /\ buf' = drained.rest
        /\ IF sent # decoded THEN results' = results \o sent /\ status' = "panicked"
           ELSE IF drained.unknown
           THEN results' = results \o sent \o <<Err("UnknownMessageType")>> /\ status' = "closed"
           ELSE results' = results \o sent /\ UNCHANGED status

\* One turn of the measuring client's reader; it skips what does not decode, but
\* decode_event panics at a command.
ReadEvents(n) ==
    LET drained == Drain(buf \o SubSeq(Stream, at + 1, at + n))
        decoded == [i \in DOMAIN drained.whole |-> DecodeEvent(drained.whole[i])]
        passed  == BeforePanic(decoded)
    IN  /\ direction = "out"
        /\ buf' = drained.rest
        /\ results' = results \o SelectSeq(passed, LAMBDA r : r.status = "ok")
        /\ status' = IF passed # decoded THEN "panicked" ELSE status

\* A read that returns the next n bytes.
Read(n) ==
    /\ status = "open"
    /\ at + n <= Len(Stream)
    /\ at' = at + n
    /\ ReadCommands(n) \/ ReadEvents(n)
    /\ UNCHANGED <<direction, frames>>

\* The peer goes away, in the middle of a frame perhaps: the read returns 0
\* or fails and the loop ends.
Hangup ==
    /\ status = "open"
    /\ status' = "closed"
    /\ UNCHANGED <<direction, frames, at, buf, results>>

Init ==
    /\ \/ direction = "in" /\ frames \in Inbound
       \/ direction = "out" /\ frames \in Outbound
    /\ at = 0
    /\ buf = << >>
    /\ results = << >>
    /\ status = "open"

Next == (\E n \in 1 .. MaxRead : Read(n)) \/ Hangup

Spec == Init /\ [][Next]_vars

-----------------------------------------------------------------------------
(* Properties *)

\* Bytes of the first k frames.
Extent(k) == Len(FlattenSeq([i \in 1 .. k |-> frames[i].frame]))

\* How many frames have arrived whole.
Arrived == Cardinality({k \in DOMAIN frames : Extent(k) <= at})

Meanings == [i \in DOMAIN frames |-> frames[i].means]

\* Wherever the reads cut the stream, as long as the loop runs the reader has
\* exactly the messages that arrived whole, with the values the peer encoded
\* and in order; a message is not held back until the next read and nothing of
\* an incomplete one is lost.  drain_frames, decode_command, decode_event.  As
\* the decoder normalises nothing, the encoding that the recorder writes of a
\* command is the frame the client sent.
MessagesRecovered ==
    status = "open" =>
        /\ results = SubSeq(Meanings, 1, Arrived)
        /\ buf = SubSeq(Stream, Extent(Arrived) + 1, at)

\* However the loop ends (the peer goes away, an unknown tag), the frames before
\* the end have all been passed on, a frame that does not decode as its reason
\* code, and nothing after the end is: no frame is skipped to find the next one.
NothingLostAtTheEnd ==
    status # "open" => \E k \in 0 .. Arrived :
        /\ results = SubSeq(Meanings, 1, k)
        /\ k = Arrived \/ (k > 0 /\ Meanings[k] = Err("UnknownMessageType"))
        /\ \A i \in 1 .. k - 1 : Meanings[i] # Err("UnknownMessageType")

\* No stream of frames makes a decoder panic: message_len has "already rejected
\* any tag not handled above" (unreachable! at the end of decode_command), and
\* "malformed input rejects with a specific reason code" (SPEC.md).  The code does
\* not keep this: message_len knows the tags of both directions.
NeverPanics == status # "panicked"
=============================================================================
