----------------------------- MODULE MCFraming -----------------------------
(* Framing with messages of every type.  The fields of a message have values *)
(* of different lengths, so that no two offsets can be confused.             *)
EXTENDS Framing

Orders ==
    {[type |-> "NewOrder", id |-> 258, account |-> 16909060, side |-> "Sell", price |-> 65537,
      qty |-> 7, kind |-> "Limit", tif |-> "PostOnly", ts |-> 2147483647],
     [type |-> "NewOrder", id |-> 3, account |-> 10, side |-> "Buy", price |-> 12,
      qty |-> 255, kind |-> "Market", tif |-> "Ioc", ts |-> 0]}

Others ==
    {[type |-> "CancelOrder", id |-> 513, account |-> 9],
     [type |-> "CancelReplace", id |-> 4, account |-> 256, price |-> 0, qty |-> 77],
     [type |-> "MassCancel", account |-> 1027],
     [type |-> "KillSwitch", engaged |-> TRUE],
     [type |-> "Snapshot"]}

Commands == Orders \cup Others

\* A frame with one byte or word overwritten.
Spoilt(type, offset, bytes, reason) ==
    LET command == CHOOSE c \in Commands : c.type = type /\ (type = "NewOrder" => c.kind = "Limit")
    IN  [frame |-> WriteAt(EncodeCommand(command), offset, bytes), means |-> Err(reason)]

Zero == LittleEndian(0, 8)

Faulty ==
    {Spoilt("NewOrder", 17, <<2>>, "MalformedMessage"),
     Spoilt("NewOrder", 34, <<9>>, "MalformedMessage"),
     Spoilt("NewOrder", 18, Zero, "ZeroPrice"),
     Spoilt("NewOrder", 26, Zero, "ZeroQuantity"),
     Spoilt("CancelReplace", 25, Zero, "ZeroQuantity"),
     Spoilt("KillSwitch", 1, <<2>>, "MalformedMessage"),
     [frame |-> <<7>>, means |-> Err("UnknownMessageType")]}

Events ==
    {[type |-> "Accepted", seq |-> 1, engineSeq |-> 258, account |-> 3, id |-> 260, resting |-> 5],
     [type |-> "Rejected", seq |-> 2, engineSeq |-> 0, account |-> 0, id |-> 0, reason |-> "ZeroPrice"],
     [type |-> "Filled", seq |-> 3, engineSeq |-> 9, account |-> 12, id |-> 65538, side |-> "Sell",
      price |-> 10, qty |-> 4, resting |-> 0, state |-> "Filled"],
     [type |-> "Filled", seq |-> 3, engineSeq |-> 9, account |-> 12, id |-> 65538, side |-> "Sell",
      price |-> 10, qty |-> 4, resting |-> 2, state |-> "PartiallyFilled"],
     [type |-> "Cancelled", seq |-> 256, engineSeq |-> 11, account |-> 19, id |-> 1],
     [type |-> "Replaced", seq |-> 6, engineSeq |-> 13, account |-> 2, id |-> 15, qty |-> 511, retained |-> FALSE],
     [type |-> "Trade", seq |-> 7, price |-> 16, qty |-> 300, takerSide |-> "Buy"],
     [type |-> "BookUpdate", seq |-> 8, bid |-> <<17, 1>>, ask |-> << >>],
     [type |-> "BookUpdate", seq |-> 8, bid |-> << >>, ask |-> <<18, 10>>],
     [type |-> "SnapshotLevel", seq |-> 9, side |-> "Buy", price |-> 16, qty |-> 15, count |-> 3],
     [type |-> "SnapshotAccount", seq |-> 16, account |-> 257, count |-> 2, notional |-> 16777216],
     [type |-> "SnapshotSummary", seq |-> 18, bid |-> <<1, 2>>, ask |-> <<3, 4>>, lastTrade |-> <<5>>,
      levels |-> 6, accounts |-> 7],
     [type |-> "SnapshotSummary", seq |-> 18, bid |-> << >>, ask |-> << >>, lastTrade |-> << >>,
      levels |-> 0, accounts |-> 0]}

Sent(command) == [frame |-> EncodeCommand(command), means |-> Ok(command)]
Reported(event) == [frame |-> EncodeEvent(event), means |-> Ok(event)]

Frames == {Sent(c) : c \in Commands} \cup Faulty

\* Any two frames, and between short ones a long one, so that one read can end
\* one frame, hold another and begin a third.
MCInbound ==
    {<<f, g>> : f \in Frames, g \in Frames}
    \cup {<<Sent([type |-> "Snapshot"]), f, Sent([type |-> "KillSwitch", engaged |-> TRUE])>> : f \in Frames}

MCOutbound == {<<Reported(e), Reported(f)>> : e \in Events, f \in Events}

\* A frame of the other direction comes second.
MCMisdirected ==
    {<<f, [frame |-> EncodeEvent(e), means |-> Panic]>> : f \in Frames, e \in {g \in Events : g.type = "Trade"}}
=============================================================================
