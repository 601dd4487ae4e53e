---------------------------- MODULE LevelQueues ----------------------------
(***************************************************************************)
(* What the order book promises, whatever its representation: every price  *)
(* level is a first-in first-out queue.  An order enters at the back of    *)
(* one level, leaves from wherever it stands, and while it stands there    *)
(* its quantity only goes down.  One order moves at a time and no key is   *)
(* in the book twice.                                                      *)
(*                                                                         *)
(* MatchingEngine (the commands) and BookIndex (the linked nodes and       *)
(* indexes) both implement this specification.                             *)
(***************************************************************************)
EXTENDS Integers, Sequences

CONSTANTS Accounts, OrderIds, Prices, MaxQty

VARIABLE queues    \* queues[side][price]: the orders at rest, oldest first

QSides == {"Buy", "Sell"}

QOrder == [account : Accounts, id : OrderIds, qty : 1 .. MaxQty]

Queued(order) ==
    \E side \in QSides, p \in Prices : \E i \in DOMAIN queues[side][p] :
        /\ queues[side][p][i].account = order.account
        /\ queues[side][p][i].id = order.id

QInit == queues = [side \in QSides |-> [p \in Prices |-> << >>]]

\* Book::rest.  The first conjunct follows from the second; it spares a checker
\* the comparison of whole books.
Enqueue(side, p, order) ==
    /\ queues'[side][p] = Append(queues[side][p], order)
    /\ queues' = [queues EXCEPT ![side][p] = Append(@, order)]
    /\ ~Queued(order)

\* Book::unlink
Leave(side, p, i) ==
    queues' = [queues EXCEPT ![side][p] = SubSeq(@, 1, i - 1) \o SubSeq(@, i + 1, Len(@))]

Shrunk(level, i, qty) == [level EXCEPT ![i] = [@ EXCEPT !.qty = qty]]

\* Book::reduce_resting_qty, and the in-place amend of Book::modify
Shrink(side, p, i, qty) ==
    /\ queues' = [queues EXCEPT ![side][p] = Shrunk(@, i, qty)]
    /\ qty < queues[side][p][i].qty

QNext ==
    \E side \in QSides, p \in Prices :
        \/ \E i \in DOMAIN queues[side][p] :
              \/ Leave(side, p, i)
              \/ \E qty \in 1 .. MaxQty : Shrink(side, p, i, qty)
        \/ \E order \in QOrder : Enqueue(side, p, order)

QSpec == QInit /\ [][QNext]_queues
=============================================================================
