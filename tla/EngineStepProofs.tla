-------------------------- MODULE EngineStepProofs --------------------------
(***************************************************************************)
(* What a step of MatchingEngine may never do, for all values of its       *)
(* constants: the FIFO discipline (MatchingEngine implements LevelQueues), *)
(* the drain of the kill switch and the amend that cannot trade.           *)
(***************************************************************************)
EXTENDS MatchingEngineProofs

-----------------------------------------------------------------------------
(* Every step is one of four kinds *)

Removes == \E side \in Sides, p \in Prices : \E i \in DOMAIN book[side][p] : Unlink(side, p, i)

Lowers ==
    \E side \in Sides, p \in Prices : \E i \in DOMAIN book[side][p] : \E qty \in 1 .. U64Max :
        SetQty(side, p, i, qty) /\ qty <= book[side][p][i].qty

Adds ==
    \E a \in Accounts, o \in OrderIds, side \in Sides, p \in Prices, qty \in 1 .. U64Max :
        ~Resting(a, o) /\ Rest(a, o, side, p, qty)

\* rest puts the order of the command at the tail of one level.
LEMMA RestAdds ==
    ASSUME BookInv, TaskInv, InFlight, task.limit \in Prices, task.remaining > 0,
           Rest(task.account, task.id, task.side, task.limit, task.remaining)
    PROVE  Adds
<1>1. /\ task.account \in Accounts /\ task.id \in OrderIds /\ task.side \in Sides
      /\ task.remaining \in 0 .. U64Max
  BY AggressorTask DEF TaskInv, InFlight
<1>2. task.remaining \in 1 .. U64Max
  BY <1>1, ConstantsAssumption
<1>3. ~Resting(task.account, task.id)
  BY DEF TaskInv, InFlightKeyFree
<1>. QED BY <1>1, <1>2, <1>3 DEF Adds

\* A fill unlinks the maker or lowers its quantity.
LEMMA FillRemovesOrLowers == BookInv /\ TaskInv /\ FillMaker => Removes \/ Lowers
<1> SUFFICES ASSUME BookInv, TaskInv, FillMaker PROVE Removes \/ Lowers
  OBVIOUS
<1> DEFINE opp == Opposite(task.side)
           fill == Min({task.remaining, Maker.qty})
<1>1. /\ opp \in Sides /\ Meets \in Prices /\ 1 \in DOMAIN book[opp][Meets]
      /\ Maker = book[opp][Meets][1] /\ Maker \in Order
      /\ task.op \in Sweepers /\ task.remaining > 0
  BY MeetsFacts DEF FillMaker, TaskInv
<1>2. task.remaining \in 0 .. U64Max /\ Maker.qty \in 1 .. U64Max /\ U64Max \in Nat
  BY <1>1, AggressorTask, ConstantsAssumption DEF TaskInv, Order
<1>3. fill \in {task.remaining, Maker.qty} /\ fill <= Maker.qty
  <2>1. \E x \in {task.remaining, Maker.qty} : \A y \in {task.remaining, Maker.qty} : x <= y
    BY <1>2
  <2>. QED BY <2>1 DEF Min
<1>4. /\ fill = Maker.qty => Unlink(opp, Meets, 1)
      /\ fill # Maker.qty => SetQty(opp, Meets, 1, Maker.qty - fill)
  BY DEF FillMaker
<1> HIDE DEF fill, opp
<1>5. CASE fill = Maker.qty
  BY <1>1, <1>4, <1>5 DEF Removes
<1>6. CASE fill # Maker.qty
  <2>1. Maker.qty - fill \in 1 .. U64Max /\ Maker.qty - fill <= Maker.qty
    BY <1>1, <1>2, <1>3, <1>6
  <2>. QED BY <2>1, <1>1, <1>4, <1>6 DEF Lowers
<1>. QED BY <1>5, <1>6

\* An amend lowers a quantity in place, unlinks the order, or is refused.
LEMMA AmendKinds ==
    ASSUME BookInv, NEW a, NEW o, NEW newPrice, NEW newQty \in Qtys,
           CancelReplace(a, o, newPrice, newQty)
    PROVE  UNCHANGED book \/ Removes \/ Lowers
<1>1. PICK side \in Sides, p \in Prices : \E i \in DOMAIN book[side][p] :
             AmendAt(a, o, side, p, i, newPrice, newQty)
  BY DEF CancelReplace
<1>2. PICK i \in DOMAIN book[side][p] : AmendAt(a, o, side, p, i, newPrice, newQty)
  BY <1>1
<1>3. newQty \in 1 .. U64Max
  BY ConstantsAssumption
<1>4. \/ UNCHANGED book
      \/ SetQty(side, p, i, newQty) /\ newQty <= book[side][p][i].qty
      \/ Unlink(side, p, i)
  BY <1>2, Zenon DEF AmendAt, Reject
<1>. QED BY <1>3, <1>4 DEF Removes, Lowers

\* A step leaves the book alone, removes one order, lowers the quantity of one,
\* or, for an order in flight only, adds one.
LEMMA StepKinds ==
    ASSUME IndInv, [Next]_vars
    PROVE  UNCHANGED book \/ Removes \/ Lowers \/ (InFlight /\ Adds)
<1>1. BookInv /\ TaskInv
  BY IndInvSplits
<1>2. ASSUME NEW a, NEW o, NEW side, NEW p, NEW qty, NEW tif, NewOrder(a, o, side, p, qty, tif)
      PROVE  UNCHANGED book
  BY <1>2 DEF NewOrder, Reject
<1>3. ASSUME NEW a, NEW o, CancelOrder(a, o) \/ RejectUnknown(a, o) PROVE UNCHANGED book \/ Removes
  BY <1>3 DEF CancelOrder, RejectUnknown, Reject, Removes
<1>4. ASSUME NEW a, MassCancel(a) \/ KillSwitch(a) PROVE UNCHANGED book
  BY <1>4 DEF MassCancel, KillSwitch
<1>5. CASE CancelOwnMaker
  <2>1. /\ Opposite(task.side) \in Sides /\ Meets \in Prices
        /\ 1 \in DOMAIN book[Opposite(task.side)][Meets]
    BY <1>1, <1>5, MeetsFacts DEF CancelOwnMaker, TaskInv
  <2>. QED BY <1>5, <2>1 DEF CancelOwnMaker, Removes
<1>6. CASE FillMaker
  BY <1>1, <1>6, FillRemovesOrLowers
<1>7. CASE EndSweep
  <2>1. CASE task.op \in {"Gtc", "Amend"} /\ task.remaining > 0
    <3>1. Rest(task.account, task.id, task.side, task.limit, task.remaining)
      BY <1>7, <2>1 DEF EndSweep
    <3>2. InFlight /\ task.limit \in Prices
      BY <1>1, <2>1, AggressorTask DEF TaskInv, InFlight, Sweepers
    <3>. QED BY <1>1, <2>1, <3>1, <3>2, RestAdds
  <2>2. CASE ~(task.op \in {"Gtc", "Amend"} /\ task.remaining > 0)
    BY <1>7, <2>2 DEF EndSweep
  <2>. QED BY <2>1, <2>2
<1>8. CASE RestPostOnly
  <2>1. /\ task.op = "PostOnly"
        /\ Rest(task.account, task.id, task.side, task.limit, task.remaining)
    BY <1>8 DEF RestPostOnly
  <2>2. InFlight /\ task.limit \in Prices /\ task.remaining > 0
    BY <1>1, <2>1, AggressorTask DEF TaskInv, InFlight
  <2>. QED BY <1>1, <2>1, <2>2, RestAdds
<1>9. CASE CancelNext
  BY <1>9 DEF CancelNext, Removes
<1>10. CASE RejectPostOnly \/ EndMassCancel \/ Return \/ UNCHANGED vars
  BY <1>10 DEF RejectPostOnly, EndMassCancel, Return, vars
<1>. QED BY <1>1, <1>2, <1>3, <1>4, <1>5, <1>6, <1>7, <1>8, <1>9, <1>10, AmendKinds
     DEF Next, Receive, OrderCommand, OtherCommand, Continue

-----------------------------------------------------------------------------
(* FIFO levels *)

\* An order leaving a level is a Leave of the abstract queues.
LEMMA RemovesIsLeave == Removes => Queues!QNext
<1> SUFFICES ASSUME Removes PROVE Queues!QNext
  OBVIOUS
<1>1. PICK side \in Sides, p \in Prices : \E i \in DOMAIN book[side][p] : Unlink(side, p, i)
  BY DEF Removes
<1>2. PICK i \in DOMAIN book[side][p] : Unlink(side, p, i)
  BY <1>1
<1>3. Queues!Leave(side, p, i)
  BY <1>2 DEF Unlink, Without, Queues!Leave
<1>4. side \in Queues!QSides
  BY DEF Queues!QSides, Sides
<1>. QED BY <1>3, <1>4 DEF Queues!QNext

\* A lowered quantity is a Shrink of the abstract queues, or no change at all when an
\* amend states the quantity the order has.
LEMMA LowersIsShrink == BookInv /\ Lowers => Queues!QNext \/ UNCHANGED book
<1> SUFFICES ASSUME BookInv, Lowers PROVE Queues!QNext \/ UNCHANGED book
  OBVIOUS
<1>1. PICK side \in Sides, p \in Prices :
             \E i \in DOMAIN book[side][p] : \E qty \in 1 .. U64Max :
                 SetQty(side, p, i, qty) /\ qty <= book[side][p][i].qty
  BY DEF Lowers
<1>2. PICK i \in DOMAIN book[side][p], qty \in 1 .. U64Max :
             SetQty(side, p, i, qty) /\ qty <= book[side][p][i].qty
  BY <1>1
<1>3. book[side][p] \in Seq(Order) /\ book[side][p][i] \in Order /\ book[side][p][i].qty \in Int
  <2>1. book[side][p] \in Seq(Order)
    BY DEF BookInv, Books
  <2>2. book[side][p][i] \in Order
    BY <2>1, SeqFacts
  <2>. QED BY <2>1, <2>2, ConstantsAssumption DEF Order
<1>4. CASE qty < book[side][p][i].qty
  <2>0. WithQty(book[side][p], i, qty) = Queues!Shrunk(book[side][p], i, qty)
    BY DEF WithQty, Queues!Shrunk
  <2>1. Queues!Shrink(side, p, i, qty)
    BY <2>0, <1>2, <1>4 DEF SetQty, Queues!Shrink
  <2>2. side \in Queues!QSides
    BY DEF Queues!QSides, Sides
  <2>. QED BY <2>1, <2>2 DEF Queues!QNext
<1>5. CASE qty = book[side][p][i].qty
  <2>1. WithQty(book[side][p], i, qty) = book[side][p]
    <3>1. [book[side][p][i] EXCEPT !.qty = qty] = book[side][p][i]
      BY <1>3, <1>5 DEF Order
    <3>. QED BY <1>3, <3>1, SMTT(30) DEF WithQty
  <2>2. book' = [book EXCEPT ![side][p] = WithQty(book[side][p], i, qty)]
    BY <1>2 DEF SetQty
  <2>. QED BY <2>1, <2>2 DEF BookInv, Books
<1>. QED BY <1>2, <1>3, <1>4, <1>5

\* An order that comes to rest is an Enqueue of the abstract queues.
LEMMA AddsIsEnqueue == BookInv /\ Adds => Queues!QNext
<1> SUFFICES ASSUME BookInv, Adds PROVE Queues!QNext
  OBVIOUS
<1>1. PICK a \in Accounts, o \in OrderIds, side \in Sides, p \in Prices, qty \in 1 .. U64Max :
             ~Resting(a, o) /\ Rest(a, o, side, p, qty)
  BY DEF Adds
<1> DEFINE order == [account |-> a, id |-> o, qty |-> qty]
<1>2. order \in Queues!QOrder /\ order.account = a /\ order.id = o
  BY DEF Queues!QOrder
<1>3. book' = [book EXCEPT ![side][p] = Append(@, order)]
  BY <1>1 DEF Rest
<1> HIDE DEF order
<1>4. ~Queues!Queued(order)
  BY <1>1, <1>2 DEF Queues!Queued, Queues!QSides, Resting, IsAt, Sides
<1>5. book'[side][p] = Append(book[side][p], order)
  BY <1>1, <1>3 DEF BookInv, Books
<1>7. Queues!Enqueue(side, p, order)
  BY <1>3, <1>4, <1>5 DEF Queues!Enqueue
<1>6. side \in Queues!QSides
  BY DEF Queues!QSides, Sides
<1>. QED BY <1>2, <1>6, <1>7 DEF Queues!QNext

\* MatchingEngine implements LevelQueues: whatever commands arrive, the book
\* behaves as FIFO queues in which an order keeps its place only while its
\* quantity does not rise.
THEOREM ImplementsLevelQueues == Spec => FifoLevels
<1>1. Init => Queues!QInit
  BY DEF Init, Queues!QInit, Sides, Queues!QSides
<1>2. IndInv /\ [Next]_vars => [Queues!QNext]_book
  <2> SUFFICES ASSUME IndInv, [Next]_vars PROVE [Queues!QNext]_book
    OBVIOUS
  <2>1. BookInv
    BY IndInvSplits
  <2>. QED BY <2>1, StepKinds, RemovesIsLeave, LowersIsShrink, AddsIsEnqueue
<1>. QED BY <1>1, <1>2, Invariance, PTL DEF Spec, FifoLevels, Queues!QSpec

-----------------------------------------------------------------------------
(* Drain *)

\* Each order at rest after the step was there before, with no less quantity.
Within ==
    \A side \in Sides, p \in Prices : \A i \in DOMAIN book'[side][p] :
        \E j \in DOMAIN book[side][p] :
            /\ IsAt(book'[side][p][i].account, book'[side][p][i].id, side, p, j)
            /\ book'[side][p][i].qty <= book[side][p][j].qty

\* Quantities on the book are integers.
LEMMA QtyIsInt ==
    ASSUME BookInv
    PROVE  \A side \in Sides, p \in Prices : \A i \in DOMAIN book[side][p] :
               /\ i \in Int /\ book[side][p] \in Seq(Order)
               /\ book[side][p][i] \in Order /\ book[side][p][i].qty \in Int
<1> SUFFICES ASSUME NEW side \in Sides, NEW p \in Prices, NEW i \in DOMAIN book[side][p]
             PROVE  /\ i \in Int /\ book[side][p] \in Seq(Order)
                    /\ book[side][p][i] \in Order /\ book[side][p][i].qty \in Int
  OBVIOUS
<1>1. book[side][p] \in Seq(Order)
  BY DEF BookInv, Books
<1>2. i \in Int /\ book[side][p][i] \in Order
  BY <1>1, SeqFacts, SMTT(30)
<1>. QED BY <1>1, <1>2, ConstantsAssumption DEF Order

\* A step that leaves the book alone keeps every order within what it was.
LEMMA SameWithin == BookInv /\ UNCHANGED book => Within
  BY QtyIsInt DEF Within, IsAt

\* After an order has left, the others have the quantities they had.
LEMMA RemovesWithin == BookInv /\ Removes => Within
<1> SUFFICES ASSUME BookInv, Removes PROVE Within
  OBVIOUS
<1>1. PICK side \in Sides, p \in Prices : \E i \in DOMAIN book[side][p] : Unlink(side, p, i)
  BY DEF Removes
<1>2. PICK i \in DOMAIN book[side][p] : Unlink(side, p, i)
  BY <1>1
<1> DEFINE level == book[side][p]
<1>3. level \in Seq(Order) /\ i \in 1 .. Len(level) /\ Len(level) \in Nat
  BY QtyIsInt, SeqFacts
<1>4. /\ Without(level, i) \in Seq(Order)
      /\ Len(Without(level, i)) = Len(level) - 1
      /\ \A j \in 1 .. Len(level) - 1 :
            Without(level, i)[j] = IF j < i THEN level[j] ELSE level[j + 1]
  BY <1>3, WithoutFacts, Zenon
<1>5. /\ book'[side][p] = Without(level, i)
      /\ \A s \in Sides, q \in Prices : s # side \/ q # p => book'[s][q] = book[s][q]
  BY <1>2 DEF Unlink, BookInv, Books
<1>6. ASSUME NEW s \in Sides, NEW q \in Prices, NEW j \in DOMAIN book'[s][q]
      PROVE  \E k \in DOMAIN book[s][q] : book'[s][q][j] = book[s][q][k]
  <2>1. CASE s = side /\ q = p
    <3>1. j \in 1 .. Len(level) - 1
      BY <2>1, <1>4, <1>5
    <3>2. j \in DOMAIN level /\ j + 1 \in DOMAIN level
      BY <3>1, <1>3, SMTT(30)
    <3>3. book'[s][q][j] = level[j] \/ book'[s][q][j] = level[j + 1]
      BY <2>1, <3>1, <1>4, <1>5, SMTT(30)
    <3>. QED BY <2>1, <3>2, <3>3
  <2>2. CASE ~(s = side /\ q = p)
    BY <2>2, <1>5
  <2>. QED BY <2>1, <2>2
<1>7. ASSUME NEW s \in Sides, NEW q \in Prices, NEW j \in DOMAIN book'[s][q]
      PROVE  \E k \in DOMAIN book[s][q] :
                /\ IsAt(book'[s][q][j].account, book'[s][q][j].id, s, q, k)
                /\ book'[s][q][j].qty <= book[s][q][k].qty
  <2>1. PICK k \in DOMAIN book[s][q] : book'[s][q][j] = book[s][q][k]
    BY <1>6
  <2>2. book[s][q][k].qty \in Int
    BY QtyIsInt
  <2>. QED BY <2>1, <2>2 DEF IsAt
<1>. QED BY <1>7 DEF Within

\* After a quantity was lowered, no order has more than it had.
LEMMA LowersWithin == BookInv /\ Lowers => Within
<1> SUFFICES ASSUME BookInv, Lowers PROVE Within
  OBVIOUS
<1>1. PICK side \in Sides, p \in Prices :
             \E i \in DOMAIN book[side][p] : \E qty \in 1 .. U64Max :
                 SetQty(side, p, i, qty) /\ qty <= book[side][p][i].qty
  BY DEF Lowers
<1>2. PICK i \in DOMAIN book[side][p], qty \in 1 .. U64Max :
             SetQty(side, p, i, qty) /\ qty <= book[side][p][i].qty
  BY <1>1
<1> DEFINE level == book[side][p]
           newLevel == WithQty(level, i, qty)
<1>3. /\ book'[side][p] = newLevel
      /\ \A s \in Sides, q \in Prices : s # side \/ q # p => book'[s][q] = book[s][q]
  <2>1. book' = [book EXCEPT ![side][p] = newLevel]
    BY <1>2 DEF SetQty
  <2> HIDE DEF newLevel
  <2>. QED BY <2>1 DEF BookInv, Books
<1>4. level \in Seq(Order) /\ i \in DOMAIN level /\ level[i] \in Order
  BY QtyIsInt
<1>5. /\ DOMAIN newLevel = DOMAIN level
      /\ \A j \in DOMAIN level : j # i => newLevel[j] = level[j]
      /\ newLevel[i] = [level[i] EXCEPT !.qty = qty]
  BY <1>4 DEF WithQty
<1>6. newLevel[i].account = level[i].account /\ newLevel[i].id = level[i].id /\ newLevel[i].qty = qty
  BY <1>4, <1>5, SMTT(30) DEF Order
<1> HIDE DEF newLevel
<1>7. ASSUME NEW s \in Sides, NEW q \in Prices, NEW j \in DOMAIN book'[s][q]
      PROVE  /\ j \in DOMAIN book[s][q]
             /\ book'[s][q][j].account = book[s][q][j].account
             /\ book'[s][q][j].id = book[s][q][j].id
             /\ book'[s][q][j].qty <= book[s][q][j].qty
  <2>1. CASE s = side /\ q = p /\ j = i
    BY <2>1, <1>2, <1>3, <1>4, <1>6, SMTT(30)
  <2>2. CASE s = side /\ q = p /\ j # i
    BY <2>2, <1>3, <1>5, QtyIsInt, SMTT(30)
  <2>3. CASE ~(s = side /\ q = p)
    BY <2>3, <1>3, QtyIsInt
  <2>. QED BY <2>1, <2>2, <2>3, SMTT(30)
<1>. QED BY <1>7 DEF Within, IsAt

\* With the kill switch engaged no step adds an order or quantity to the book
\* and none trades, because no order that was admitted earlier is still in
\* flight when the switch is thrown.
THEOREM DrainHolds == Spec => DrainOnlyRemoves
<1>1. IndInv /\ [Next]_vars => [killSwitch => lastTrade' = lastTrade /\ Within]_vars
  <2> SUFFICES ASSUME IndInv, [Next]_vars, killSwitch PROVE lastTrade' = lastTrade /\ Within
    OBVIOUS
  <2>1. BookInv /\ ~InFlight
    BY IndInvSplits DEF TaskInv, DrainQuiet
  <2>2. lastTrade' = lastTrade
    BY <2>1, TradeFrame, Zenon DEF FillMaker, InFlight
  <2>3. Within
    BY <2>1, StepKinds, SameWithin, RemovesWithin, LowersWithin
  <2>. QED BY <2>2, <2>3
<1>. QED BY <1>1, Invariance, PTL DEF Spec, DrainOnlyRemoves, Within

-----------------------------------------------------------------------------
(* Amends *)

\* What an order in flight meets is an occupied level that crosses its limit.
LEMMA MeetsCrosses ==
    BookInv /\ task \in TaskTypes /\ Meets # NoPrice =>
        Meets \in Occupied(Opposite(task.side)) /\ Crosses(task.side, task.limit, Meets)
<1> SUFFICES ASSUME BookInv, task \in TaskTypes, Meets # NoPrice
             PROVE  Meets \in Occupied(Opposite(task.side)) /\ Crosses(task.side, task.limit, Meets)
  OBVIOUS
<1>1. task.op \in Sweepers \cup {"PostOnly"} /\ Meets = CrossingLevel(task.side, task.limit)
  BY DEF Meets
<1>2. task.side \in Sides /\ task.limit \in 0 .. U64Max
  BY <1>1, AggressorTask
<1>3. Meets \in Occupied(Opposite(task.side))
  BY <1>1, <1>2, CrossingFacts
<1>4. Crosses(task.side, task.limit, Meets)
  BY <1>1 DEF CrossingLevel
<1>. QED BY <1>3, <1>4

\* modify starts an amend by taking the order out of its own side: the levels
\* of the other side are what they were.
LEMMA AmendStart ==
    BookInv /\ task = Idle /\ [Next]_vars /\ task'.op = "Amend" =>
        /\ task'.side \in Sides
        /\ book'[Opposite(task'.side)] = book[Opposite(task'.side)]
<1> SUFFICES ASSUME BookInv, task = Idle, [Next]_vars, task'.op = "Amend"
             PROVE  /\ task'.side \in Sides
                    /\ book'[Opposite(task'.side)] = book[Opposite(task'.side)]
  OBVIOUS
<1>1. task' # task
  BY DEF Idle
<1>2. ASSUME NEW a, NEW o, NEW side, NEW p, NEW qty, NEW tif \in Tifs, NewOrder(a, o, side, p, qty, tif)
      PROVE  FALSE
  BY <1>1, <1>2 DEF NewOrder, Reject, Aggress, Tifs
<1>3. ASSUME NEW a, NEW o, CancelOrder(a, o) \/ RejectUnknown(a, o) PROVE FALSE
  BY <1>1, <1>3 DEF CancelOrder, RejectUnknown, Reject
<1>4. ASSUME NEW a, MassCancel(a) \/ KillSwitch(a) PROVE FALSE
  BY <1>1, <1>4 DEF MassCancel, KillSwitch
<1>5. ~Continue
  <2>1. task.op = "Idle"
    BY DEF Idle
  <2>2. ~(task.op \in Sweepers \cup {"PostOnly", "MassCancel"})
    BY <2>1 DEF Sweepers
  <2>3. Meets = NoPrice
    BY <2>2 DEF Meets
  <2>. QED BY <1>1, <2>2, <2>3 DEF Continue, CancelOwnMaker, FillMaker, EndSweep, RejectPostOnly,
         RestPostOnly, CancelNext, EndMassCancel, Return
<1>6. PICK a \in Accounts, o \in OrderIds, newPrice \in AmendPrices, newQty \in Qtys :
             CancelReplace(a, o, newPrice, newQty)
  BY <1>1, <1>2, <1>3, <1>4, <1>5, SMTT(30) DEF Next, Receive, OrderCommand, OtherCommand, vars, Tifs
<1>7. PICK side \in Sides, p \in Prices : \E i \in DOMAIN book[side][p] :
             AmendAt(a, o, side, p, i, newPrice, newQty)
  BY <1>6 DEF CancelReplace
<1>8. PICK i \in DOMAIN book[side][p] : AmendAt(a, o, side, p, i, newPrice, newQty)
  BY <1>7
<1>9. Unlink(side, p, i) /\ task'.side = side
  <2>1. task' = task \/ (Unlink(side, p, i) /\ Aggress("Amend", a, o, side, newPrice, newQty))
    BY <1>8, Zenon DEF AmendAt, Reject
  <2>. QED BY <1>1, <2>1 DEF Aggress
<1>10. Opposite(side) # side
  BY DEF Opposite, Sides
<1>. QED BY <1>9, <1>10 DEF Unlink, BookInv, Books

\* An amend that keeps its price meets nothing when it re-enters matching: the
\* book was not crossed, and the level the order left was on its own side.
THEOREM AmendUpQuiet == Spec => AmendUpMeetsNothing
<1> DEFINE Stood == \E i \in DOMAIN book[task'.side][task'.limit] :
                       IsAt(task'.account, task'.id, task'.side, task'.limit, i)
<1>1. (BookInv /\ task \in TaskTypes /\ Meets # NoPrice =>
         Meets \in Occupied(Opposite(task.side)) /\ Crosses(task.side, task.limit, Meets))'
  BY MeetsCrosses, PTL
<1>2. IndInv /\ [Next]_vars => (task = Idle /\ task'.op = "Amend" /\ Stood => Meets' = NoPrice)
  <2> SUFFICES ASSUME IndInv, [Next]_vars, task = Idle, task'.op = "Amend", Stood, Meets' # NoPrice
               PROVE  FALSE
    OBVIOUS
  <2>1. BookInv /\ IndInv' /\ BookInv' /\ task' \in TaskTypes
    BY NextInv, IndInvSplits DEF IndInv, TypeOK, TaskTypes, BookInv, Books, UniqueKeys
  <2> DEFINE side == task'.side
             q    == Meets'
  <2>2. side \in Sides /\ book'[Opposite(side)] = book[Opposite(side)]
    BY <2>1, AmendStart, SMTT(30)
  <2>3. q \in Occupied(Opposite(task.side))' /\ Crosses(task.side, task.limit, Meets)'
    BY <2>1, <1>1
  <2>4. q \in Prices /\ book[Opposite(side)][q] # << >>
    BY <2>2, <2>3 DEF Occupied
  <2>5. task'.limit \in Prices
    BY <2>1 DEF TaskTypes, Aggressor, Idle, Sweepers
  <2>6. book[side][task'.limit] # << >>
    <3>1. book[side][task'.limit] \in Seq(Order)
      BY <2>1, <2>2, <2>5 DEF BookInv, Books
    <3>. QED BY <3>1
  <2>7. NotCrossed
    BY DEF IndInv
  <2>8. Crosses(side, task'.limit, q)
    BY <2>3 DEF Crosses
  <2>9. q \in Int /\ task'.limit \in Int
    BY <2>4, <2>5, PricesBounded
  <2> HIDE DEF side, q
  <2>10. CASE side = "Buy"
    <3>1. task'.limit \in Occupied("Buy") /\ q \in Occupied("Sell")
      BY <2>10, <2>4, <2>5, <2>6 DEF Occupied, Opposite
    <3>. QED BY <3>1, <2>7, <2>8, <2>9, <2>10 DEF NotCrossed, Crosses
  <2>11. CASE side = "Sell"
    <3>1. task'.limit \in Occupied("Sell") /\ q \in Occupied("Buy")
      BY <2>11, <2>4, <2>5, <2>6 DEF Occupied, Opposite
    <3>. QED BY <3>1, <2>7, <2>8, <2>9, <2>11 DEF NotCrossed, Crosses
  <2>. QED BY <2>2, <2>10, <2>11 DEF Sides
<1>. QED BY <1>2, Invariance, PTL DEF Spec, AmendUpMeetsNothing
=============================================================================
