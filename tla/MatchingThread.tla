--------------------------- MODULE MatchingThread ---------------------------
(***************************************************************************)
(* The loop of the matching thread around the engine: a command comes from *)
(* a connection, and each execution report it causes goes to the           *)
(* connection the order it is about belongs to, which is looked up in      *)
(* resting_conn, a table the thread keeps up to date from the same         *)
(* reports.  An account may use several connections, and any of them may   *)
(* amend or cancel its orders.                                             *)
(*                                                                         *)
(* A definition marked "Slip" is a plausible mistake in the definition     *)
(* after it; nothing here uses it.                                         *)
(***************************************************************************)
EXTENDS MatchingEngine, SequencesExt

CONSTANT Conns          \* connection ids

VARIABLES restingConn,  \* resting_conn: the connection filed for a key
          conn,         \* conn_id of the command in progress
          selfId,       \* command_self_id of that command
          sent,         \* the reports the last step put on the return channel
          home          \* the connection that last placed or amended an order

threadVars == <<book, lastTrade, killSwitch, task, before, out,
                restingConn, conn, selfId, sent, home>>

NoConn == "no conn"       \* no entry, no connection
NoId   == << >>           \* the command is about no single order
Keys   == Accounts \X OrderIds

IsMarketData(e) == e.type \in {"Trade", "BookUpdate"}

EventId(e) == <<e.account, e.id>>

\* Slip: every report answers the sender of the command.
RouteToSender(table, e, c, self) == c

\* A report about the order of the command answers its sender, one about
\* another order goes to the connection filed for it.
Route(table, e, c, self) ==
    IF EventId(e) = self \/ table[EventId(e)] = NoConn THEN c ELSE table[EventId(e)]

\* Slip: only Accepted files an order, and an amend that trades sends none.
FiledOnAccept(table, e, route) ==
    CASE e.type = "Accepted" /\ e.resting > 0   -> route
      [] e.type = "Filled" /\ e.resting = 0     -> NoConn
      [] e.type \in {"Cancelled", "Replaced"}   -> NoConn
      [] OTHER                                  -> table[EventId(e)]

\* Slip: a fill files the order even when nothing of it is left.
FiledWhenFilled(table, e, route) ==
    CASE e.type = "Accepted" /\ e.resting > 0   -> route
      [] e.type \in {"Filled", "Replaced"}      -> route
      [] e.type = "Cancelled"                   -> NoConn
      [] OTHER                                  -> table[EventId(e)]

\* The entry of an order after a report about it.  Accepted with nothing
\* resting matches no arm.
Filed(table, e, route) ==
    CASE e.type \in {"Accepted", "Filled"} /\ e.resting > 0 -> route
      [] e.type = "Filled" /\ e.resting = 0                 -> NoConn
      [] e.type = "Cancelled"                               -> NoConn
      [] e.type = "Replaced"                                -> route
      [] OTHER                                              -> table[EventId(e)]

\* The emit closure: market data goes another way, a report is routed, the
\* table updated, the report sent.
Emit(state, e, c, self) ==
    IF IsMarketData(e) THEN state
    ELSE LET route == Route(state.table, e, c, self)
         IN  [table |-> [state.table EXCEPT ![EventId(e)] = Filed(state.table, e, route)],
              sent  |-> Append(state.sent, [conn |-> route, event |-> e])]

\* The events of a step go through the closure one after the other.
Dispatch(c, self) ==
    LET end == FoldLeft(LAMBDA state, e : Emit(state, e, c, self),
                        [table |-> restingConn, sent |-> << >>], out')
    IN  restingConn' = end.table /\ sent' = end.sent

\* An order belongs to the connection that had it admitted or amended it last.
Owned(c, self) ==
    LET placed == \/ task = Idle /\ task'.op \in Tifs
                  \/ \E i \in DOMAIN out' : out'[i].type = "Replaced"
        open(k) == Resting(k[1], k[2])' \/ (InFlight' /\ k = self)
    IN  home' = [k \in Keys |-> IF ~open(k) THEN NoConn
                                ELSE IF placed /\ k = self THEN c ELSE home[k]]

\* A step of the command self from connection c; the loop forgets both when
\* it goes back to receive.
Step(c, self) ==
    /\ conn'   = IF Waiting' THEN NoConn ELSE c
    /\ selfId' = IF Waiting' THEN NoId ELSE self
    /\ Dispatch(c, self)
    /\ Owned(c, self)

TakeCommand ==
    \E c \in Conns :
        \/ OtherCommand /\ Step(c, NoId)
        \/ \E k \in Keys : OrderCommand(k[1], k[2]) /\ Step(c, k)

GoOn == Continue /\ Step(conn, selfId)

ThreadInit ==
    /\ Init
    /\ restingConn = [k \in Keys |-> NoConn]
    /\ conn = NoConn
    /\ selfId = NoId
    /\ sent = << >>
    /\ home = [k \in Keys |-> NoConn]

ThreadNext == TakeCommand \/ GoOn

ThreadSpec == ThreadInit /\ [][ThreadNext]_threadVars

-----------------------------------------------------------------------------
(* Properties *)

\* Every resting order is filed under the connection it belongs to, between two
\* commands and at every step of one, so that the fallback of the lookup is
\* never taken for it: the order may have been partly filled by others, amended
\* from a second connection, or had its id used before.
RestingFiled ==
    \A a \in Accounts, o \in OrderIds : Resting(a, o) =>
        restingConn[<<a, o>>] = home[<<a, o>>] /\ home[<<a, o>>] # NoConn

\* Each report reaches the connection it is meant for: the sender of the
\* command for its own order, the connection the order belongs to for a
\* maker filled, cancelled by self-trade prevention or by a mass cancel.
ReportsReachOwner ==
    [][\A i \in DOMAIN sent' :
          sent'[i].conn = IF EventId(sent'[i].event) = selfId' THEN conn'
                          ELSE home[EventId(sent'[i].event)]]_threadVars

\* The table shrinks with the book ("updated as orders rest and stop resting",
\* matching.rs): an order that stops resting is forgotten, unless it is being
\* amended, and a GTC or amended order that came to be filed by its fills is
\* forgotten when nothing of it rests.  An IOC or market order partly filled is
\* not: its entry stays until the id is used again.
TableForgets ==
    [][\A a \in Accounts, o \in OrderIds :
        (\/ Resting(a, o) /\ ~(task'.op = "Amend" /\ selfId' = <<a, o>>)
         \/ task.op \in {"Gtc", "Fok", "Amend"} /\ task' = Idle /\ selfId = <<a, o>>)
        => restingConn'[<<a, o>>] = NoConn \/ Resting(a, o)']_threadVars
=============================================================================
