-------------------------------- MODULE Wire --------------------------------
(***************************************************************************)
(* The wire format: tags, lengths, the layout of every message, and the    *)
(* checks of decode_command.  A message is a record with its type and its  *)
(* fields, a frame is a sequence of bytes.                                 *)
(*                                                                         *)
(* What a message writes and what it is read back from are two tables, as  *)
(* they are two functions in the code.  An entry is <<field, offset, type>>*)
(* in the order of the code; offsets count from 0.                         *)
(*                                                                         *)
(* A definition marked "Slip" is a plausible mistake in the definition     *)
(* after it; nothing here uses it.                                         *)
(***************************************************************************)
EXTENDS Integers, Sequences, SequencesExt

-----------------------------------------------------------------------------
(* tag.rs *)

Tag == [NewOrder |-> 1, CancelOrder |-> 2, CancelReplace |-> 3, MassCancel |-> 4,
        KillSwitch |-> 5, Snapshot |-> 6,
        Accepted |-> 10, Rejected |-> 11, Filled |-> 12, Cancelled |-> 13, Replaced |-> 14,
        Trade |-> 15, BookUpdate |-> 16,
        SnapshotLevel |-> 17, SnapshotAccount |-> 18, SnapshotSummary |-> 19]

Lengths == [NewOrder |-> 44, CancelOrder |-> 17, CancelReplace |-> 33, MassCancel |-> 9,
            KillSwitch |-> 2, Snapshot |-> 1,
            Accepted |-> 41, Rejected |-> 34, Filled |-> 59, Cancelled |-> 33, Replaced |-> 42,
            Trade |-> 26, BookUpdate |-> 43,
            SnapshotLevel |-> 34, SnapshotAccount |-> 41, SnapshotSummary |-> 68]

CommandTypes == {"NewOrder", "CancelOrder", "CancelReplace", "MassCancel", "KillSwitch", "Snapshot"}
ReportTypes  == {"Accepted", "Rejected", "Filled", "Cancelled", "Replaced"}

KnownTag(tag) == \E type \in DOMAIN Tag : Tag[type] = tag
TypeOf(tag)   == CHOOSE type \in DOMAIN Tag : Tag[type] = tag

\* message_len of a known tag.
MessageLen(tag) == Lengths[TypeOf(tag)]

-----------------------------------------------------------------------------
(* codec.rs *)

\* One-byte fields: byte b stands for the (b + 1)-st value.
Enum == [bool   |-> <<FALSE, TRUE>>,
         side   |-> <<"Buy", "Sell">>,
         kind   |-> <<"Limit", "Market">>,
         tif    |-> <<"Gtc", "Ioc", "Fok", "PostOnly">>,
         state  |-> <<"PartiallyFilled", "Filled">>,
         reason |-> <<"MalformedMessage", "UnknownMessageType", "DuplicateOrderId",
                      "UnknownOrderId", "ZeroQuantity", "WouldCross", "NotFullyFillable",
                      "KillSwitchActive", "MaxOpenOrders", "MaxNotional",
                      "PriceBandViolation", "ZeroPrice">>]

EnumByte(type, value) == (CHOOSE i \in DOMAIN Enum[type] : Enum[type][i] = value) - 1

\* to_le_bytes and from_le_bytes.
LittleEndian(n, width) ==
    LET rest[k \in 0 .. width] == IF k = 0 THEN n ELSE rest[k - 1] \div 256
    IN  [k \in 1 .. width |-> rest[k - 1] % 256]

FromLittleEndian(bytes) == FoldRight(LAMBDA byte, n : n * 256 + byte, bytes, 0)

\* Option<(Price, Qty)> and Option<Price> are << >> for None.  They are written
\* as a presence byte and their words, which are zero for None.
Words(value, count) == IF value = << >> THEN [k \in 1 .. count |-> 0] ELSE value

\* The bytes of a field.
Bytes(type, value) ==
    CASE type = "u64"   -> LittleEndian(value, 8)
      [] type = "u128"  -> LittleEndian(value, 16)
      [] type = "touch" -> <<EnumByte("bool", value # << >>)>>
                           \o LittleEndian(Words(value, 2)[1], 8) \o LittleEndian(Words(value, 2)[2], 8)
      [] type = "price" -> <<EnumByte("bool", value # << >>)>> \o LittleEndian(Words(value, 1)[1], 8)
      [] OTHER          -> <<EnumByte(type, value)>>

U64At(frame, offset) == FromLittleEndian(SubSeq(frame, offset + 1, offset + 8))

\* Whether read_bool and the ..._from_u8 functions accept the byte of a field.
WellFormed(frame, field) ==
    LET byte == frame[field[2] + 1]
    IN  CASE field[3] \in {"u64", "u128"}    -> TRUE
          [] field[3] \in {"touch", "price"} -> byte \in {0, 1}
          [] OTHER                           -> byte < Len(Enum[field[3]])

\* The value of a well formed field.
Value(frame, field) ==
    LET at == field[2]
    IN  CASE field[3] = "u64"   -> U64At(frame, at)
          [] field[3] = "u128"  -> FromLittleEndian(SubSeq(frame, at + 1, at + 16))
          [] field[3] = "touch" -> IF frame[at + 1] = 0 THEN << >>
                                   ELSE <<U64At(frame, at + 1), U64At(frame, at + 9)>>
          [] field[3] = "price" -> IF frame[at + 1] = 0 THEN << >> ELSE <<U64At(frame, at + 1)>>
          [] OTHER              -> Enum[field[3]][frame[at + 1] + 1]

\* A write into the buffer.
WriteAt(frame, offset, bytes) ==
    [i \in DOMAIN frame |-> IF i - offset \in DOMAIN bytes THEN bytes[i - offset] ELSE frame[i]]

\* The message as the writes of a table leave it in a zeroed buffer.
Encode(message, fields) ==
    LET blank == [i \in 1 .. Lengths[message.type] |-> IF i = 1 THEN Tag[message.type] ELSE 0]
    IN  FoldLeft(LAMBDA frame, f : WriteAt(frame, f[2], Bytes(f[3], message[f[1]])), blank, fields)

\* The record a table of reads gives.
Decode(frame, type, fields) ==
    [name \in {"type"} \cup {fields[i][1] : i \in DOMAIN fields} |->
        IF name = "type" THEN type
        ELSE Value(frame, fields[CHOOSE i \in DOMAIN fields : fields[i][1] = name])]

-----------------------------------------------------------------------------
(* inbound.rs *)

Ids == <<<<"id", 1, "u64">>, <<"account", 9, "u64">>>>

\* encode_command
CommandWrites ==
    [NewOrder      |-> Ids \o <<<<"side", 17, "side">>, <<"price", 18, "u64">>, <<"qty", 26, "u64">>,
                                <<"kind", 34, "kind">>, <<"tif", 35, "tif">>, <<"ts", 36, "u64">>>>,
     CancelOrder   |-> Ids,
     CancelReplace |-> Ids \o <<<<"price", 17, "u64">>, <<"qty", 25, "u64">>>>,
     MassCancel    |-> <<<<"account", 1, "u64">>>>,
     KillSwitch    |-> <<<<"engaged", 1, "bool">>>>,
     Snapshot      |-> << >>]

EncodeCommand(command) == Encode(command, CommandWrites[command.type])

\* The fields decode_command reads.
CommandReads ==
    [NewOrder      |-> <<<<"kind", 34, "kind">>, <<"price", 18, "u64">>, <<"qty", 26, "u64">>>> \o Ids
                       \o <<<<"side", 17, "side">>, <<"tif", 35, "tif">>, <<"ts", 36, "u64">>>>,
     CancelOrder   |-> Ids,
     CancelReplace |-> <<<<"qty", 25, "u64">>>> \o Ids \o <<<<"price", 17, "u64">>>>,
     MassCancel    |-> <<<<"account", 1, "u64">>>>,
     KillSwitch    |-> <<<<"engaged", 1, "bool">>>>,
     Snapshot      |-> << >>]

Ok(message) == [status |-> "ok", message |-> message]
Err(reason) == [status |-> "err", reason |-> reason]
Panic       == [status |-> "panic"]

Malformed(frame, fields) == \E i \in DOMAIN fields : ~WellFormed(frame, fields[i])

\* The match of decode_command for the tag of a command: the kind is read
\* first, side and tif after the checks of quantity and price.
ReadCommand(frame, type) ==
    LET fields  == CommandReads[type]
        qty     == U64At(frame, IF type = "NewOrder" THEN 26 ELSE 25)
        price   == U64At(frame, 18)
    IN  IF type = "NewOrder" /\ ~WellFormed(frame, fields[1]) THEN Err("MalformedMessage")
        ELSE IF type \in {"NewOrder", "CancelReplace"} /\ qty = 0 THEN Err("ZeroQuantity")
        ELSE IF type = "NewOrder" /\ Value(frame, fields[1]) = "Limit" /\ price = 0 THEN Err("ZeroPrice")
        ELSE IF Malformed(frame, fields) THEN Err("MalformedMessage")
        ELSE Ok(Decode(frame, type, fields))

\* The checks both decoders make before they look at the type.
FrameError(frame) ==
    IF frame = << >> THEN "MalformedMessage"
    ELSE IF ~KnownTag(frame[1]) THEN "UnknownMessageType"
    ELSE IF Len(frame) # MessageLen(frame[1]) THEN "MalformedMessage"
    ELSE "none"

\* A tag of the other direction ends in the arm marked unreachable.
DecodeCommand(frame) ==
    IF FrameError(frame) # "none" THEN Err(FrameError(frame))
    ELSE IF TypeOf(frame[1]) \in CommandTypes THEN ReadCommand(frame, TypeOf(frame[1]))
    ELSE Panic

-----------------------------------------------------------------------------
(* outbound.rs *)

\* stream_seq, engine_seq, account and order of an execution report.
ReportHead == <<<<"seq", 1, "u64">>, <<"engineSeq", 9, "u64">>,
                <<"account", 17, "u64">>, <<"id", 25, "u64">>>>
StreamHead == <<<<"seq", 1, "u64">>>>

\* encode_event, execution reports
ReportWrites ==
    [Accepted  |-> ReportHead \o <<<<"resting", 33, "u64">>>>,
     Rejected  |-> ReportHead \o <<<<"reason", 33, "reason">>>>,
     Filled    |-> ReportHead \o <<<<"side", 33, "side">>, <<"price", 34, "u64">>, <<"qty", 42, "u64">>,
                                   <<"resting", 50, "u64">>, <<"state", 58, "state">>>>,
     Cancelled |-> ReportHead,
     Replaced  |-> ReportHead \o <<<<"qty", 33, "u64">>, <<"retained", 41, "bool">>>>]

\* encode_event, market data and snapshots
StreamWrites ==
    [Trade           |-> StreamHead \o <<<<"price", 9, "u64">>, <<"qty", 17, "u64">>, <<"takerSide", 25, "side">>>>,
     BookUpdate      |-> StreamHead \o <<<<"bid", 9, "touch">>, <<"ask", 26, "touch">>>>,
     SnapshotLevel   |-> StreamHead \o <<<<"side", 9, "side">>, <<"price", 10, "u64">>,
                                         <<"qty", 18, "u64">>, <<"count", 26, "u64">>>>,
     SnapshotAccount |-> StreamHead \o <<<<"account", 9, "u64">>, <<"count", 17, "u64">>,
                                         <<"notional", 25, "u128">>>>,
     SnapshotSummary |-> StreamHead \o <<<<"bid", 9, "touch">>, <<"ask", 26, "touch">>,
                                         <<"lastTrade", 43, "price">>, <<"levels", 52, "u64">>,
                                         <<"accounts", 60, "u64">>>>]

EncodeEvent(event) ==
    Encode(event, IF event.type \in ReportTypes THEN ReportWrites[event.type] ELSE StreamWrites[event.type])

\* decode_event, execution reports
ReportReads ==
    [Accepted  |-> ReportHead \o <<<<"resting", 33, "u64">>>>,
     Rejected  |-> ReportHead \o <<<<"reason", 33, "reason">>>>,
     Filled    |-> ReportHead \o <<<<"side", 33, "side">>, <<"price", 34, "u64">>, <<"qty", 42, "u64">>,
                                   <<"resting", 50, "u64">>, <<"state", 58, "state">>>>,
     Cancelled |-> ReportHead,
     Replaced  |-> ReportHead \o <<<<"qty", 33, "u64">>, <<"retained", 41, "bool">>>>]

\* decode_event, market data and snapshots
StreamReads ==
    [Trade           |-> StreamHead \o <<<<"price", 9, "u64">>, <<"qty", 17, "u64">>, <<"takerSide", 25, "side">>>>,
     BookUpdate      |-> StreamHead \o <<<<"bid", 9, "touch">>, <<"ask", 26, "touch">>>>,
     SnapshotLevel   |-> StreamHead \o <<<<"side", 9, "side">>, <<"price", 10, "u64">>,
                                         <<"qty", 18, "u64">>, <<"count", 26, "u64">>>>,
     SnapshotAccount |-> StreamHead \o <<<<"account", 9, "u64">>, <<"count", 17, "u64">>,
                                         <<"notional", 25, "u128">>>>,
     SnapshotSummary |-> StreamHead \o <<<<"bid", 9, "touch">>, <<"ask", 26, "touch">>,
                                         <<"lastTrade", 43, "price">>, <<"levels", 52, "u64">>,
                                         <<"accounts", 60, "u64">>>>]

DecodeEvent(frame) ==
    IF FrameError(frame) # "none" THEN Err(FrameError(frame))
    ELSE LET type   == TypeOf(frame[1])
             fields == IF type \in ReportTypes THEN ReportReads[type] ELSE StreamReads[type]
         IN  IF type \in CommandTypes THEN Panic
             ELSE IF Malformed(frame, fields) THEN Err("MalformedMessage")
             ELSE Ok(Decode(frame, type, fields))
=============================================================================
