--------------------------- MODULE MatchingEngine ---------------------------
(***************************************************************************)
(* The matching core and the risk gate in front of it, as the matching     *)
(* thread runs them: one command at a time through pre_apply_check, then   *)
(* Engine::apply on the book.                                              *)
(*                                                                         *)
(* A price level is a FIFO sequence of resting orders.  The pointer-level  *)
(* book (arena, links, indexes) is module BookIndex, which implements the  *)
(* same queues.  A command that walks the opposite side takes one step per *)
(* maker it meets, because the code emits the events of that maker, each   *)
(* one a send that may block, before it looks at the next one.  No other   *)
(* command starts before the current one has ended.                        *)
(*                                                                         *)
(* A definition marked "Slip" is a plausible mistake in the definition     *)
(* after it; nothing here uses it.  It shows which property would notice.  *)
(***************************************************************************)
EXTENDS Integers, Sequences, FiniteSets, FiniteSetsExt

CONSTANTS Accounts,         \* account ids
          OrderIds,         \* order ids, unique per account only
          LimitPrices,      \* prices a limit NewOrder may carry
          AmendPrices,      \* prices a CancelReplace may carry
          Qtys,             \* quantities a command may carry
          MaxOpenOrders,    \* RiskConfig.max_open_orders
          MaxNotional,      \* RiskConfig.max_notional
          PriceBandPct,     \* RiskConfig.price_band_pct
          U64Max            \* the largest u64

\* The decoder rejects a zero quantity, and a zero price of a limit order
\* but not of an amend.
ASSUME ConstantsAssumption ==
    /\ IsFiniteSet(OrderIds)
    /\ U64Max \in Nat
    /\ LimitPrices \subseteq 1 .. U64Max
    /\ AmendPrices \subseteq 0 .. U64Max
    /\ Qtys \subseteq 1 .. U64Max
    /\ MaxOpenOrders \in Nat
    /\ MaxNotional \in Nat
    /\ PriceBandPct \in 0 .. 100

Sides   == {"Buy", "Sell"}
Prices  == LimitPrices \cup AmendPrices
NoPrice == -1                       \* Option<Price>::None
Tifs    == {"Gtc", "Ioc", "Fok", "PostOnly", "Market"}

VARIABLES book,        \* book[side][price]: FIFO of resting orders
          lastTrade,   \* Book::last_trade
          killSwitch,  \* RiskState::kill_switch_engaged
          task,        \* the command in progress
          before,      \* the touch when that command began
          out          \* the events the last step emitted

vars == <<book, lastTrade, killSwitch, task, before, out>>

\* Release-build arithmetic wraps.
Wrap64(n)  == n % (U64Max + 1)
Wrap128(n) == n % ((U64Max + 1) * (U64Max + 1))

Opposite(side) == IF side = "Buy" THEN "Sell" ELSE "Buy"

-----------------------------------------------------------------------------
(* Reading the book *)

Occupied(side) == {p \in Prices : book[side][p] # << >>}

\* The highest bid or the lowest ask.
Best(side) ==
    IF Occupied(side) = {} THEN NoPrice
    ELSE CHOOSE p \in Occupied(side) :
            \A q \in Occupied(side) : IF side = "Buy" THEN q <= p ELSE p <= q

IsAt(a, o, side, p, i) ==
    book[side][p][i].account = a /\ book[side][p][i].id = o

\* order_index.contains_key
Resting(a, o) ==
    \E side \in Sides, p \in Prices : \E i \in DOMAIN book[side][p] : IsAt(a, o, side, p, i)

OpenOrderCount(a) == Cardinality({o \in OrderIds : Resting(a, o)})

\* Where orders rest, as <<side, price, position>>.
Places ==
    UNION {{<<side, p, i>> : i \in DOMAIN book[side][p]} : side \in Sides, p \in Prices}

OrderAt(l) == book[l[1]][l[2]][l[3]]
QtyAt(l)   == OrderAt(l).qty

\* An account's cached notional is a u128.
AccountNotional(a) ==
    Wrap128(MapThenSumSet(LAMBDA l : l[2] * QtyAt(l),
                          {l \in Places : OrderAt(l).account = a}))

\* A level's cached total_qty is a u64.
LevelQty(level) == Wrap64(MapThenSumSet(LAMBDA i : level[i].qty, DOMAIN level))

NoTouch == << >>

Touch(side) ==
    IF Occupied(side) = {} THEN NoTouch ELSE <<Best(side), LevelQty(book[side][Best(side)])>>

TopOfBook == <<Touch("Buy"), Touch("Sell")>>

\* Slip: an order at the same price does not cross, it locks the book.
CrossesStrictly(side, limit, level) == IF side = "Buy" THEN level < limit ELSE level > limit

\* Price equality crosses.
Crosses(side, limit, level) == IF side = "Buy" THEN level <= limit ELSE level >= limit

\* The level an aggressor meets next, if it crosses.
CrossingLevel(side, limit) ==
    LET best == Best(Opposite(side))
    IN  IF best # NoPrice /\ Crosses(side, limit, best) THEN best ELSE NoPrice

\* Slip: the precheck counts the account's own orders too.
IsFillableByAll(a, side, limit, qty) ==
    qty <= MapThenSumSet(QtyAt,
              {l \in Places : l[1] = Opposite(side) /\ Crosses(side, limit, l[2])})

\* The FOK precheck counts only what other accounts rest.
IsFillable(a, side, limit, qty) ==
    qty <= MapThenSumSet(QtyAt,
              {l \in Places : /\ l[1] = Opposite(side)
                              /\ Crosses(side, limit, l[2])
                              /\ OrderAt(l).account # a})

-----------------------------------------------------------------------------
(* Events *)

Accepted(a, o, resting)  == [type |-> "Accepted", account |-> a, id |-> o, resting |-> resting]
Rejected(a, o, reason)   == [type |-> "Rejected", account |-> a, id |-> o, reason |-> reason]
Cancelled(a, o)          == [type |-> "Cancelled", account |-> a, id |-> o]
Replaced(a, o, newQty, retained) ==
    [type |-> "Replaced", account |-> a, id |-> o, newQty |-> newQty, retained |-> retained]
Filled(a, o, side, price, qty, resting) ==
    [type |-> "Filled", account |-> a, id |-> o, side |-> side, price |-> price,
     qty |-> qty, resting |-> resting]
Trade(price, qty, takerSide) ==
    [type |-> "Trade", price |-> price, qty |-> qty, takerSide |-> takerSide]

\* Slip: only a new best price counts as a move of the touch.
BookUpdateOnPrice(touch) ==
    LET price(t) == IF t = NoTouch THEN NoPrice ELSE t[1]
    IN  IF \A k \in 1 .. 2 : price(TopOfBook'[k]) = price(touch[k]) THEN << >>
        ELSE <<[type |-> "BookUpdate", touch |-> TopOfBook']>>

\* Engine::apply emits BookUpdate last, when the touch has moved.
BookUpdateSince(touch) ==
    IF TopOfBook' = touch THEN << >> ELSE <<[type |-> "BookUpdate", touch |-> TopOfBook']>>

-----------------------------------------------------------------------------
(* The risk gate *)

MarketReferencePrice(side) ==
    IF lastTrade # NoPrice THEN lastTrade ELSE Best(Opposite(side))

\* The sum of the two prices is a u64.
PriceBandReference ==
    IF lastTrade # NoPrice THEN lastTrade
    ELSE IF Best("Buy") # NoPrice /\ Best("Sell") # NoPrice
         THEN Wrap64(Best("Buy") + Best("Sell")) \div 2
         ELSE NoPrice

OutsideBand(price, reference) ==
    /\ reference # NoPrice
    /\ \/ price < (reference * (100 - PriceBandPct)) \div 100
       \/ price > (reference * (100 + PriceBandPct)) \div 100

\* Slip: one order more than the cap is let through.
NewOrderCheckOffByOne(a, side, price, qty, tif) ==
    LET reference == IF tif = "Market" THEN MarketReferencePrice(side) ELSE price
    IN  IF tif \in {"Gtc", "PostOnly"} /\ OpenOrderCount(a) > MaxOpenOrders
          THEN "MaxOpenOrders"
        ELSE IF reference = NoPrice THEN "NotFullyFillable"
        ELSE IF Wrap128(AccountNotional(a) + reference * qty) > MaxNotional THEN "MaxNotional"
        ELSE IF tif # "Market" /\ OutsideBand(price, PriceBandReference)
          THEN "PriceBandViolation"
        ELSE "None"

\* Slip: only what rests already counts towards the notional.
NewOrderCheckRested(a, side, price, qty, tif) ==
    LET reference == IF tif = "Market" THEN MarketReferencePrice(side) ELSE price
    IN  IF tif \in {"Gtc", "PostOnly"} /\ OpenOrderCount(a) >= MaxOpenOrders
          THEN "MaxOpenOrders"
        ELSE IF reference = NoPrice THEN "NotFullyFillable"
        ELSE IF AccountNotional(a) > MaxNotional THEN "MaxNotional"
        ELSE IF tif # "Market" /\ OutsideBand(price, PriceBandReference)
          THEN "PriceBandViolation"
        ELSE "None"

\* The reason a NewOrder is refused, or "None".
NewOrderCheck(a, side, price, qty, tif) ==
    LET reference == IF tif = "Market" THEN MarketReferencePrice(side) ELSE price
    IN  IF tif \in {"Gtc", "PostOnly"} /\ OpenOrderCount(a) >= MaxOpenOrders
          THEN "MaxOpenOrders"
        ELSE IF reference = NoPrice THEN "NotFullyFillable"
        ELSE IF Wrap128(AccountNotional(a) + reference * qty) > MaxNotional THEN "MaxNotional"
        ELSE IF tif # "Market" /\ OutsideBand(price, PriceBandReference)
          THEN "PriceBandViolation"
        ELSE "None"

\* Slip: only a new price is a new commitment.
DrainBlocksReprice(oldPrice, oldQty, newPrice, newQty) ==
    killSwitch /\ newPrice # oldPrice

\* Drain: an amend of a resting order must not add exposure.
DrainBlocksAmend(oldPrice, oldQty, newPrice, newQty) ==
    killSwitch /\ (newPrice # oldPrice \/ newQty > oldQty)

-----------------------------------------------------------------------------
(* Commands.  Idle is the matching thread between two commands. *)

Idle == [op |-> "Idle"]

\* recv returns the next command once the events of the last are sent.
Waiting == task = Idle /\ out = << >>

Sweepers == {"Gtc", "Ioc", "Fok", "Market", "Amend"}

\* An order looking for counterparties: a submit of that time in force, or an
\* amend that lost its place in the queue.
Aggress(op, a, o, side, limit, qty) ==
    /\ task' = [op |-> op, account |-> a, id |-> o, side |-> side, limit |-> limit,
                remaining |-> qty]
    /\ before' = TopOfBook

\* The command is over; its last events report a touch that moved.
Finish(events) ==
    /\ task' = Idle
    /\ before' = NoTouch
    /\ out' = events \o BookUpdateSince(before)

\* Slip: the order is linked in at the head of its level.
RestAtHead(a, o, side, price, qty) ==
    book' = [book EXCEPT ![side][price] =
                <<[account |-> a, id |-> o, qty |-> qty]>> \o @]

Rest(a, o, side, price, qty) ==
    book' = [book EXCEPT ![side][price] =
                Append(@, [account |-> a, id |-> o, qty |-> qty])]

Without(level, i) == SubSeq(level, 1, i - 1) \o SubSeq(level, i + 1, Len(level))

Unlink(side, price, i) == book' = [book EXCEPT ![side][price] = Without(@, i)]

WithQty(level, i, qty) == [level EXCEPT ![i] = [@ EXCEPT !.qty = qty]]

\* Slip: the order goes to the back of its level.
SetQtyRequeued(side, price, i, qty) ==
    book' = [book EXCEPT ![side][price] = Append(Without(@, i), WithQty(@, i, qty)[i])]

SetQty(side, price, i, qty) == book' = [book EXCEPT ![side][price] = WithQty(@, i, qty)]

Reject(a, o, reason) ==
    /\ out' = <<Rejected(a, o, reason)>>
    /\ UNCHANGED <<book, lastTrade, killSwitch, task, before>>

\* The bound a sweep works to: a market order's is unlimited.
SweepBound(side, price, tif) ==
    IF tif # "Market" THEN price ELSE IF side = "Buy" THEN U64Max ELSE 0

\* pre_apply_check, then the early returns of the submit function.
NewOrderVerdict(a, o, side, price, qty, tif) ==
    LET risk == IF killSwitch THEN "KillSwitchActive"
                ELSE NewOrderCheck(a, side, price, qty, tif)
    IN  IF risk # "None" THEN risk
        ELSE IF Resting(a, o) THEN "DuplicateOrderId"
        ELSE IF tif = "Fok" /\ ~IsFillable(a, side, price, qty) THEN "NotFullyFillable"
        ELSE "None"

NewOrder(a, o, side, price, qty, tif) ==
    /\ Waiting
    /\ LET reason == NewOrderVerdict(a, o, side, price, qty, tif)
       IN  \/ /\ reason # "None"
              /\ Reject(a, o, reason)
           \/ /\ reason = "None"
              /\ Aggress(tif, a, o, side, SweepBound(side, price, tif), qty)
              /\ out' = << >>
              /\ UNCHANGED <<book, lastTrade, killSwitch>>

\* Cancel or amend of a key the index does not hold: another account's order
\* and one that never existed look alike.
RejectUnknown(a, o) ==
    /\ Waiting
    /\ ~Resting(a, o)
    /\ Reject(a, o, "UnknownOrderId")

CancelOrder(a, o) ==
    /\ Waiting
    /\ \E side \in Sides, p \in Prices : \E i \in DOMAIN book[side][p] :
          /\ IsAt(a, o, side, p, i)
          /\ Unlink(side, p, i)
    /\ out' = <<Cancelled(a, o)>> \o BookUpdateSince(TopOfBook)
    /\ UNCHANGED <<lastTrade, killSwitch, task, before>>

\* An amend down at the same price keeps its place; any other one gives it up
\* and comes back as an aggressor.
AmendAt(a, o, side, p, i, newPrice, newQty) ==
    LET blocked == DrainBlocksAmend(p, book[side][p][i].qty, newPrice, newQty)
        keeps   == newPrice = p /\ newQty <= book[side][p][i].qty
    IN  \/ /\ blocked
           /\ Reject(a, o, "KillSwitchActive")
        \/ /\ ~blocked /\ keeps
           /\ SetQty(side, p, i, newQty)
           /\ out' = <<Replaced(a, o, newQty, TRUE)>> \o BookUpdateSince(TopOfBook)
           /\ UNCHANGED <<lastTrade, killSwitch, task, before>>
        \/ /\ ~blocked /\ ~keeps
           /\ Unlink(side, p, i)
           /\ Aggress("Amend", a, o, side, newPrice, newQty)
           /\ out' = <<Replaced(a, o, newQty, FALSE)>>
           /\ UNCHANGED <<lastTrade, killSwitch>>

CancelReplace(a, o, newPrice, newQty) ==
    /\ Waiting
    /\ \E side \in Sides, p \in Prices : \E i \in DOMAIN book[side][p] :
          /\ IsAt(a, o, side, p, i)
          /\ AmendAt(a, o, side, p, i, newPrice, newQty)

MassCancel(a) ==
    /\ Waiting
    /\ task' = [op |-> "MassCancel", account |-> a]
    /\ before' = TopOfBook
    /\ out' = << >>
    /\ UNCHANGED <<book, lastTrade, killSwitch>>

KillSwitch(engaged) ==
    /\ Waiting
    /\ killSwitch' = engaged
    /\ out' = << >>
    /\ UNCHANGED <<book, lastTrade, task, before>>

-----------------------------------------------------------------------------
(* Steps of the command in progress *)

\* Slip: a PostOnly order does not look at the other side.
MeetsNotPostOnly ==
    IF task.op \in Sweepers /\ task.remaining > 0
    THEN CrossingLevel(task.side, task.limit) ELSE NoPrice

\* Slip: the sweep does not stop when the order is filled.
MeetsWhenFilled ==
    IF task.op \in Sweepers \cup {"PostOnly"}
    THEN CrossingLevel(task.side, task.limit) ELSE NoPrice

\* The price of the level the order in progress meets, NoPrice when it meets
\* none.  stp_clear_crossing_self_orders looks at the same levels as sweep.
Meets ==
    IF task.op \in Sweepers \cup {"PostOnly"} /\ task.remaining > 0
    THEN CrossingLevel(task.side, task.limit) ELSE NoPrice

Maker == Head(book[Opposite(task.side)][Meets])

\* Slip: the owner is not told.
CancelOwnMakerSilently ==
    /\ Meets # NoPrice
    /\ Maker.account = task.account
    /\ Unlink(Opposite(task.side), Meets, 1)
    /\ out' = << >>
    /\ UNCHANGED <<lastTrade, killSwitch, task, before>>

\* Slip: self-trade prevention takes the quantity out of the incoming order too.
CancelOwnMakerDecrements ==
    /\ Meets # NoPrice
    /\ Maker.account = task.account
    /\ Unlink(Opposite(task.side), Meets, 1)
    /\ task' = [task EXCEPT !.remaining = @ - Min({task.remaining, Maker.qty})]
    /\ out' = <<Cancelled(Maker.account, Maker.id)>>
    /\ UNCHANGED <<lastTrade, killSwitch, before>>

\* Self-trade prevention: the account's own maker is cancelled, the order in
\* progress keeps all its quantity.
CancelOwnMaker ==
    /\ Meets # NoPrice
    /\ Maker.account = task.account
    /\ Unlink(Opposite(task.side), Meets, 1)
    /\ out' = <<Cancelled(Maker.account, Maker.id)>>
    /\ UNCHANGED <<lastTrade, killSwitch, task, before>>

FillMaker ==
    /\ task.op \in Sweepers
    /\ Meets # NoPrice
    /\ Maker.account # task.account
    /\ LET fill == Min({task.remaining, Maker.qty})
           opp  == Opposite(task.side)
       IN  /\ task' = [task EXCEPT !.remaining = @ - fill]
           /\ lastTrade' = Meets
           /\ IF fill = Maker.qty THEN Unlink(opp, Meets, 1)
                                 ELSE SetQty(opp, Meets, 1, Maker.qty - fill)
           /\ out' = <<Filled(task.account, task.id, task.side, Meets, fill, task.remaining - fill),
                       Filled(Maker.account, Maker.id, opp, Meets, fill, Maker.qty - fill),
                       Trade(Meets, fill, task.side)>>
    /\ UNCHANGED <<killSwitch, before>>

\* After the sweep: GTC and amend rest what is left, the others discard it.
\* An amend has already been answered by Replaced.
EndSweep ==
    /\ task.op \in Sweepers
    /\ Meets = NoPrice
    /\ LET left == IF task.op \in {"Gtc", "Amend"} THEN task.remaining ELSE 0
       IN  /\ IF left > 0 THEN Rest(task.account, task.id, task.side, task.limit, left)
                          ELSE UNCHANGED book
           /\ Finish(IF task.op = "Amend" THEN << >>
                     ELSE <<Accepted(task.account, task.id, left)>>)
    /\ UNCHANGED <<lastTrade, killSwitch>>

\* A foreign order in the way: reject, the own orders cancelled so far stay
\* cancelled.
RejectPostOnly ==
    /\ task.op = "PostOnly"
    /\ Meets # NoPrice
    /\ Maker.account # task.account
    /\ UNCHANGED <<book, lastTrade, killSwitch>>
    /\ Finish(<<Rejected(task.account, task.id, "WouldCross")>>)

RestPostOnly ==
    /\ task.op = "PostOnly"
    /\ Meets = NoPrice
    /\ Rest(task.account, task.id, task.side, task.limit, task.remaining)
    /\ Finish(<<Accepted(task.account, task.id, task.remaining)>>)
    /\ UNCHANGED <<lastTrade, killSwitch>>

\* The order in which the account's orders go is that of its slot array
\* (BookIndex); here it is left open.
CancelNext ==
    /\ task.op = "MassCancel"
    /\ \E side \in Sides, p \in Prices : \E i \in DOMAIN book[side][p] :
          /\ book[side][p][i].account = task.account
          /\ Unlink(side, p, i)
          /\ out' = <<Cancelled(task.account, book[side][p][i].id)>>
    /\ UNCHANGED <<lastTrade, killSwitch, task, before>>

EndMassCancel ==
    /\ task.op = "MassCancel"
    /\ \A o \in OrderIds : ~Resting(task.account, o)
    /\ UNCHANGED <<book, lastTrade, killSwitch>>
    /\ Finish(<< >>)

\* The events of the command are sent, the thread goes back to recv.
Return ==
    /\ task = Idle
    /\ out # << >>
    /\ out' = << >>
    /\ UNCHANGED <<book, lastTrade, killSwitch, task, before>>

-----------------------------------------------------------------------------
Init ==
    /\ book = [side \in Sides |-> [p \in Prices |-> << >>]]
    /\ lastTrade = NoPrice
    /\ killSwitch = FALSE
    /\ task = Idle
    /\ before = NoTouch
    /\ out = << >>

\* A command about one order.
OrderCommand(a, o) ==
    \/ \E side \in Sides, qty \in Qtys :
          \/ \E p \in LimitPrices, tif \in Tifs \ {"Market"} : NewOrder(a, o, side, p, qty, tif)
          \/ NewOrder(a, o, side, 0, qty, "Market")
    \/ CancelOrder(a, o)
    \/ \E p \in AmendPrices, qty \in Qtys : CancelReplace(a, o, p, qty)
    \/ RejectUnknown(a, o)

\* A command about no single order.
OtherCommand ==
    \/ \E a \in Accounts : MassCancel(a)
    \/ \E engaged \in BOOLEAN : KillSwitch(engaged)

\* One command leaves the command channel.
Receive == OtherCommand \/ \E a \in Accounts, o \in OrderIds : OrderCommand(a, o)

\* The command in progress goes on.
Continue ==
    \/ CancelOwnMaker
    \/ FillMaker
    \/ EndSweep
    \/ RejectPostOnly
    \/ RestPostOnly
    \/ CancelNext
    \/ EndMassCancel
    \/ Return

Next == Receive \/ Continue

\* The matching thread runs a command it has taken to its end, and its sends
\* return.
Spec == Init /\ [][Next]_vars /\ WF_vars(Continue)

-----------------------------------------------------------------------------
(* Properties *)

Order == [account : Accounts, id : OrderIds, qty : 1 .. U64Max]

\* An order that may come to rest carries a price the book can file it under.
Aggressor ==
    {t \in [op : Sweepers \cup {"PostOnly"}, account : Accounts, id : OrderIds, side : Sides,
            limit : 0 .. U64Max, remaining : 0 .. U64Max] :
        /\ t.op # "Market" => t.limit \in Prices
        /\ t.op = "PostOnly" => t.remaining > 0}

\* The types of the book and of the command in progress; no resting order has
\* zero quantity (assert_invariants).
TypeOK ==
    /\ book \in [Sides -> [Prices -> Seq(Order)]]
    /\ lastTrade \in Prices \cup {NoPrice}
    /\ killSwitch \in BOOLEAN
    /\ task \in {Idle} \cup Aggressor \cup [op : {"MassCancel"}, account : Accounts]

\* The book is neither crossed nor locked, between two commands and at every
\* step of one.
NotCrossed ==
    \A bid \in Occupied("Buy"), ask \in Occupied("Sell") : bid < ask

InFlight == task.op \in Sweepers \cup {"PostOnly"}

KeysDistinct ==
    \A s1 \in Sides, s2 \in Sides, p1 \in Prices, p2 \in Prices :
        \A i \in DOMAIN book[s1][p1], j \in DOMAIN book[s2][p2] :
            IsAt(book[s1][p1][i].account, book[s1][p1][i].id, s2, p2, j)
                => s1 = s2 /\ p1 = p2 /\ i = j

InFlightKeyFree == InFlight => ~Resting(task.account, task.id)

\* At most one resting order per (account, order id), the key of order_index,
\* and none with the key of the order in progress, whose remainder the code
\* rests without looking the key up again.
UniqueKeys == KeysDistinct /\ InFlightKeyFree

\* No account ever has more than max_open_orders at rest, although the risk
\* gate checks only NewOrder, and amends re-enter the book behind it.
OpenOrdersWithinCap == \A a \in Accounts : OpenOrderCount(a) <= MaxOpenOrders

\* An order that may come to rest still has room under the cap, for the whole
\* of its sweep: the gate saw the room, or the amend made it.
RoomToRest ==
    \A a \in Accounts :
        task.op \in {"Gtc", "PostOnly", "Amend"} /\ task.account = a => OpenOrderCount(a) < MaxOpenOrders

\* With the switch engaged no order is looking for counterparties.
DrainQuiet == killSwitch => ~InFlight

\* The inductive invariant behind TypeOK, NotCrossed, UniqueKeys and
\* OpenOrdersWithinCap.
IndInv ==
    /\ TypeOK
    /\ NotCrossed
    /\ UniqueKeys
    /\ OpenOrdersWithinCap
    /\ RoomToRest
    /\ DrainQuiet

\* A FOK that passed its precheck always finds the quantity it needs, in spite
\* of the own orders self-trade prevention takes out on the way (the
\* debug_assert of submit_fok).
FokAlwaysFills == task.op = "Fok" /\ Meets = NoPrice => task.remaining = 0

\* While the kill switch is engaged the book only drains: every order at rest
\* after a step was there before it, at that price and with at least that
\* quantity, and nothing trades.
DrainOnlyRemoves ==
    [][killSwitch =>
        /\ lastTrade' = lastTrade
        /\ \A side \in Sides, p \in Prices : \A i \in DOMAIN book'[side][p] :
              \E j \in DOMAIN book[side][p] :
                 /\ IsAt(book'[side][p][i].account, book'[side][p][i].id, side, p, j)
                 /\ book'[side][p][i].qty <= book[side][p][j].qty]_vars

\* An amend that only raises the quantity cannot trade: the sweep it goes
\* through meets nothing (the comment in modify).
AmendUpMeetsNothing ==
    [][(/\ task = Idle
        /\ task'.op = "Amend"
        /\ \E i \in DOMAIN book[task'.side][task'.limit] :
              IsAt(task'.account, task'.id, task'.side, task'.limit, i))
       => Meets' = NoPrice]_vars

\* The levels are FIFO queues: a step appends one order at the back of a level,
\* removes one, or lowers the quantity of one where it stands.  In particular
\* no amend gains quantity and keeps its place.
Queues == INSTANCE LevelQueues WITH queues <- book, MaxQty <- U64Max
FifoLevels == Queues!QSpec

\* Every command ends: sweep, self-trade prevention and mass cancel
\* terminate and the thread comes back for the next command.
CommandsEnd == []<>Waiting

-----------------------------------------------------------------------------
(* A statement of the repository's documents that the code does not keep *)

\* SPEC section 6: "no zero-price orders".  The decoder lets a CancelReplace
\* with price zero through and modify rests it.
NoZeroPrice == 0 \notin Occupied("Buy") \cup Occupied("Sell")
=============================================================================
