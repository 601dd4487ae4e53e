----------------------------- MODULE BookIndex -----------------------------
(***************************************************************************)
(* The representation of the order book: the arena of nodes with its free  *)
(* list, the two price maps whose levels are doubly linked through the     *)
(* arena, the order index and the per-account slot arrays.                 *)
(*                                                                         *)
(* Every operation of Book comes down to four changes of this state: rest, *)
(* unlink, reduce_resting_qty and the in-place amend.  The actions are     *)
(* these changes as the operations reach them, a maker through the head of *)
(* the best level, a cancel or amend through the order index, a mass       *)
(* cancel through its snapshot of the account's slots.                     *)
(*                                                                         *)
(* Slots and positions in slot arrays count from 1, NULL is 0.             *)
(*                                                                         *)
(* A definition marked "Slip" is a plausible mistake in the definition     *)
(* after it; nothing here uses it.  It shows which property would notice.  *)
(***************************************************************************)
EXTENDS Integers, Sequences, FiniteSets, FiniteSetsExt, SequencesExt

CONSTANTS Accounts,     \* account ids
          OrderIds,     \* order ids, unique per account only
          Prices,       \* prices an order may rest at
          U64Max,       \* the largest u64
          MaxQty,       \* bound: largest quantity of an order
          MaxSlots      \* bound: size the arena may grow to

ASSUME IndexAssumption ==
    /\ U64Max \in Nat
    /\ Prices \subseteq 0 .. U64Max
    /\ MaxQty \in 1 .. U64Max
    /\ MaxSlots \in Nat

NULL    == 0
NoNode  == [live |-> FALSE]      \* Option<Node>::None
Sides   == {"Buy", "Sell"}

VARIABLES slots,        \* Arena::slots
          free,         \* Arena::free, a stack
          levels,       \* levels[side]: price -> Level (Book::bids, Book::asks)
          orderIndex,   \* Book::order_index: <<account, id>> -> slot
          accounts,     \* Book::accounts; an account never seen has the default entry
          scratch       \* what mass_cancel_scratch still holds for the call in progress

vars == <<slots, free, levels, orderIndex, accounts, scratch>>

Opposite(side) == IF side = "Buy" THEN "Sell" ELSE "Buy"

Wrap64(n)  == n % (U64Max + 1)
Wrap128(n) == n % ((U64Max + 1) * (U64Max + 1))

\* Maps: insert and remove of a key.
Put(f, k, v) == [x \in DOMAIN f \cup {k} |-> IF x = k THEN v ELSE f[x]]
Drop(f, k)   == [x \in DOMAIN f \ {k} |-> f[x]]

-----------------------------------------------------------------------------
(* Arena *)

Live(s) == s \in DOMAIN slots /\ slots[s] # NoNode

\* Slip: an insert takes the slot freed first, while the stack is popped at the
\* other end.
NextSlotFromBottom == IF free = << >> THEN Len(slots) + 1 ELSE free[1]

\* Where the next insert goes: the slot freed last, or a new one.
NextSlot == IF free = << >> THEN Len(slots) + 1 ELSE free[Len(free)]

Placed(node) ==
    IF free = << >> THEN Append(slots, node) ELSE [slots EXCEPT ![NextSlot] = node]

-----------------------------------------------------------------------------
(* The four changes *)

EmptyLevel == [head |-> NULL, tail |-> NULL, totalQty |-> 0, count |-> 0]

LevelAt(side, p) == IF p \in DOMAIN levels[side] THEN levels[side][p] ELSE EmptyLevel

\* New node at the back of its level, of its account's slots and in the index.
Rest(a, o, side, p, qty) ==
    LET slot  == NextSlot
        level == LevelAt(side, p)
        node  == [id |-> o, account |-> a, price |-> p, qty |-> qty, side |-> side,
                  prev |-> level.tail, next |-> NULL, acctIdx |-> Len(accounts[a].slots) + 1]
    IN  /\ slots' = IF level.tail = NULL THEN Placed(node)
                    ELSE [Placed(node) EXCEPT ![level.tail].next = slot]
        /\ free' = IF free = << >> THEN free ELSE SubSeq(free, 1, Len(free) - 1)
        /\ accounts' = [accounts EXCEPT
                ![a] = [slots    |-> Append(@.slots, slot),
                        notional |-> Wrap128(@.notional + p * qty)]]
        /\ orderIndex' = Put(orderIndex, <<a, o>>, slot)
        /\ levels' = [levels EXCEPT ![side] = Put(@, p,
                [head     |-> IF level.tail = NULL THEN slot ELSE level.head,
                 tail     |-> slot,
                 totalQty |-> Wrap64(level.totalQty + qty),
                 count    |-> level.count + 1])]

\* Vec::swap_remove: the last element takes the place of the removed one.
SwapRemove(seq, i) == SubSeq([seq EXCEPT ![i] = seq[Len(seq)]], 1, Len(seq) - 1)

\* Slip: the back link of the next node is forgotten.
BypassedForward(node) ==
    [s \in DOMAIN slots |->
        IF s = node.prev THEN [slots[s] EXCEPT !.next = node.next] ELSE slots[s]]

\* The neighbours of a node that leaves point at each other.
Bypassed(node) ==
    [s \in DOMAIN slots |->
        IF s = node.prev THEN [slots[s] EXCEPT !.next = node.next]
        ELSE IF s = node.next THEN [slots[s] EXCEPT !.prev = node.prev]
        ELSE slots[s]]

\* Slip: the node that swap_remove moved keeps its old position.
NotReseated(arena, remaining, i) == arena

\* The node that swap_remove moved learns its new position.
Reseated(arena, remaining, i) ==
    IF i \in DOMAIN remaining THEN [arena EXCEPT ![remaining[i]].acctIdx = i] ELSE arena

\* The level without a node; a level that becomes empty leaves the map.
LevelLess(map, slot, node) ==
    LET level == map[node.price]
    IN  IF level.count = 1 THEN Drop(map, node.price)
        ELSE Put(map, node.price,
                 [head     |-> IF level.head = slot THEN node.next ELSE level.head,
                  tail     |-> IF level.tail = slot THEN node.prev ELSE level.tail,
                  totalQty |-> Wrap64(level.totalQty - node.qty),
                  count    |-> level.count - 1])

Unlink(slot) ==
    LET node      == slots[slot]
        remaining == SwapRemove(accounts[node.account].slots, node.acctIdx)
    IN  /\ slots' = [Reseated(Bypassed(node), remaining, node.acctIdx) EXCEPT ![slot] = NoNode]
        /\ free' = Append(free, slot)
        /\ levels' = [levels EXCEPT ![node.side] = LevelLess(@, slot, node)]
        /\ orderIndex' = Drop(orderIndex, <<node.account, node.id>>)
        /\ accounts' = [accounts EXCEPT
                ![node.account] = [slots    |-> remaining,
                                   notional |-> Wrap128(@.notional - node.price * node.qty)]]

\* Slip: the account's notional is left alone.
SetQtyOnly(slot, qty) ==
    LET node == slots[slot]
    IN  /\ slots' = [slots EXCEPT ![slot].qty = qty]
        /\ levels' = [levels EXCEPT ![node.side][node.price].totalQty = Wrap64(@ - (node.qty - qty))]
        /\ UNCHANGED <<free, orderIndex, accounts>>

\* A lower quantity where the order stands; only the cached sums follow.
SetQty(slot, qty) ==
    LET node == slots[slot]
        less == node.qty - qty
    IN  /\ slots' = [slots EXCEPT ![slot].qty = qty]
        /\ levels' = [levels EXCEPT ![node.side][node.price].totalQty = Wrap64(@ - less)]
        /\ accounts' = [accounts EXCEPT
                ![node.account].notional = Wrap128(@ - node.price * less)]
        /\ UNCHANGED <<free, orderIndex>>

-----------------------------------------------------------------------------
(* How the operations of Book reach them *)

NoMassCancel == scratch = << >>

\* best_bid, best_ask; the side is not empty.
BestPrice(side) ==
    CHOOSE p \in DOMAIN levels[side] : \A q \in DOMAIN levels[side] :
        IF side = "Buy" THEN q <= p ELSE p <= q

BestHead(side) == levels[side][BestPrice(side)].head

\* What is left after the sweep, or a PostOnly order: the key is not in the
\* index and nothing on the other side crosses.
RestOrder(a, o, side, p, qty) ==
    /\ NoMassCancel
    /\ <<a, o>> \notin DOMAIN orderIndex
    /\ \A q \in DOMAIN levels[Opposite(side)] : IF side = "Buy" THEN p < q ELSE q < p
    /\ NextSlot <= MaxSlots
    /\ Rest(a, o, side, p, qty)
    /\ UNCHANGED scratch

\* sweep and stp_clear_crossing_self_orders: the maker at the head is filled
\* in full, or cancelled.
TakeMaker(side) ==
    /\ NoMassCancel
    /\ DOMAIN levels[side] # {}
    /\ Unlink(BestHead(side))
    /\ UNCHANGED scratch

\* sweep: the maker at the head is filled in part.
ReduceMaker(side, left) ==
    /\ NoMassCancel
    /\ DOMAIN levels[side] # {}
    /\ left < slots[BestHead(side)].qty
    /\ SetQty(BestHead(side), left)
    /\ UNCHANGED scratch

\* cancel, and modify of an order that loses its place.
UnlinkOrder(a, o) ==
    /\ NoMassCancel
    /\ <<a, o>> \in DOMAIN orderIndex
    /\ Unlink(orderIndex[<<a, o>>])
    /\ UNCHANGED scratch

\* modify at the same price without a rise in quantity.
AmendInPlace(a, o, qty) ==
    /\ NoMassCancel
    /\ <<a, o>> \in DOMAIN orderIndex
    /\ qty <= slots[orderIndex[<<a, o>>]].qty
    /\ SetQty(orderIndex[<<a, o>>], qty)
    /\ UNCHANGED scratch

MassCancel(a) ==
    /\ NoMassCancel
    /\ scratch' = accounts[a].slots
    /\ UNCHANGED <<slots, free, levels, orderIndex, accounts>>

\* Slip: the walk goes on in the account's own array, from the second place.
MassCancelStepLive ==
    LET live == accounts'[slots[Head(scratch)].account].slots
    IN  /\ ~NoMassCancel
        /\ Unlink(Head(scratch))
        /\ scratch' = SubSeq(live, 2, Len(live))

\* One order of the snapshot; its Cancelled event is sent before the next.
MassCancelStep ==
    /\ ~NoMassCancel
    /\ Unlink(Head(scratch))
    /\ scratch' = Tail(scratch)

-----------------------------------------------------------------------------
(* Snapshot, which changes nothing *)

NextOf(s) == IF Live(s) THEN slots[s].next ELSE NULL

\* The slots of a level from head to tail.
Chain(side, p) ==
    LET level == LevelAt(side, p)
        chain[k \in 1 .. level.count] == IF k = 1 THEN level.head ELSE NextOf(chain[k - 1])
    IN  chain

\* The levels of a side by rising price, as the maps are walked.
Ascending(side) == SetToSortSeq(DOMAIN levels[side], <)

SnapshotLevels ==
    LET Level(side, p) == [side |-> side, price |-> p, qty |-> levels[side][p].totalQty,
                           orderCount |-> levels[side][p].count]
        OfSide(side)   == [i \in DOMAIN Ascending(side) |-> Level(side, Ascending(side)[i])]
    IN  OfSide("Buy") \o OfSide("Sell")

\* Owners of the orders in the order the walk comes to them.
Owners ==
    LET OfLevel(side, p) == [k \in DOMAIN Chain(side, p) |-> slots[Chain(side, p)[k]].account]
        OfSide(side) == FlattenSeq([i \in DOMAIN Ascending(side) |-> OfLevel(side, Ascending(side)[i])])
    IN  OfSide("Buy") \o OfSide("Sell")

\* Slip: an account is only compared with the one before.
SeenAdjacent(owners) ==
    FoldLeft(LAMBDA seen, a : IF seen # << >> /\ Last(seen) = a THEN seen ELSE Append(seen, a),
             << >>, owners)

\* accounts_seen and accounts_order: each account where it comes first.
Seen(owners) ==
    FoldLeft(LAMBDA seen, a : IF a \in Range(seen) THEN seen ELSE Append(seen, a), << >>, owners)

SnapshotAccounts ==
    LET order == Seen(Owners)
    IN  [i \in DOMAIN order |-> [account        |-> order[i],
                                 openOrderCount |-> Len(accounts[order[i]].slots),
                                 notional       |-> accounts[order[i]].notional]]

\* top_of_book: price and quantity, or nothing.
TouchOf(side) ==
    IF levels[side] = << >> THEN << >>
    ELSE <<BestPrice(side), levels[side][BestPrice(side)].totalQty>>

\* last_trade is no part of this state: MatchingEngine keeps it.
SnapshotSummary(lastTrade) ==
    [bestBid      |-> TouchOf("Buy"),
     bestAsk      |-> TouchOf("Sell"),
     lastTrade    |-> lastTrade,
     levelCount   |-> Len(SnapshotLevels),
     accountCount |-> Len(SnapshotAccounts)]

-----------------------------------------------------------------------------

Init ==
    /\ slots = << >>
    /\ free = << >>
    /\ levels = [side \in Sides |-> << >>]
    /\ orderIndex = << >>
    /\ accounts = [a \in Accounts |-> [slots |-> << >>, notional |-> 0]]
    /\ scratch = << >>

Next ==
    \/ \E a \in Accounts, o \in OrderIds :
          \/ \E side \in Sides, p \in Prices, qty \in 1 .. MaxQty : RestOrder(a, o, side, p, qty)
          \/ UnlinkOrder(a, o)
          \/ \E qty \in 1 .. MaxQty : AmendInPlace(a, o, qty)
    \/ \E side \in Sides :
          \/ TakeMaker(side)
          \/ \E left \in 1 .. MaxQty : ReduceMaker(side, left)
    \/ \E a \in Accounts : MassCancel(a)
    \/ MassCancelStep

Spec == Init /\ [][Next]_vars

-----------------------------------------------------------------------------
(* Properties *)

\* walk_level: links agree in both directions and end at the cached tail after
\* count nodes, nodes are filed where they say, with a quantity and a price, and
\* the cached total is the sum.
WalksClean(side, p) ==
    LET level == levels[side][p]
        chain == Chain(side, p)
    IN  /\ level.count > 0
        /\ \A k \in DOMAIN chain :
              /\ Live(chain[k])
              /\ slots[chain[k]].prev = IF k = 1 THEN NULL ELSE chain[k - 1]
              /\ slots[chain[k]].price = p
              /\ slots[chain[k]].side = side
              /\ slots[chain[k]].qty # 0
              /\ slots[chain[k]].price # 0
        /\ chain[level.count] = level.tail
        /\ NextOf(level.tail) = NULL
        /\ level.totalQty = Wrap64(MapThenSumSet(LAMBDA k : slots[chain[k]].qty, DOMAIN chain))

\* No level of either map is empty or fails the walk that Snapshot performs on
\* the matching thread with its assertions switched on.  A level at price zero,
\* which only an amend can make (NoZeroPrice of MatchingEngine), does fail it.
LevelsWalk == \A side \in Sides : \A p \in DOMAIN levels[side] \ {0} : WalksClean(side, p)

LiveSlots == {s \in DOMAIN slots : Live(s)}

InLevels == {<<side, p, k>> \in Sides \X Prices \X (1 .. Len(slots)) : k \in DOMAIN Chain(side, p)}

\* Every live node is in one level, once, and the index finds each of them by
\* its key and nothing else; every other slot is on the free list, once.
NodesIndexed ==
    /\ LiveSlots = {Chain(l[1], l[2])[l[3]] : l \in InLevels}
    /\ Cardinality(InLevels) = Cardinality(LiveSlots)
    /\ DOMAIN orderIndex = {<<slots[s].account, slots[s].id>> : s \in LiveSlots}
    /\ \A s \in LiveSlots : orderIndex[<<slots[s].account, slots[s].id>>] = s
    /\ Range(free) = DOMAIN slots \ LiveSlots
    /\ Cardinality(Range(free)) = Len(free)

Mine(a) == {s \in LiveSlots : slots[s].account = a}

\* The account entries agree with the nodes: the slot array holds the
\* account's orders once each, and acct_idx points back into it whatever
\* swap_remove has moved.
AccountsIndexed ==
    \A a \in Accounts :
        /\ Range(accounts[a].slots) = Mine(a)
        /\ Len(accounts[a].slots) = Cardinality(Mine(a))
        /\ \A i \in DOMAIN accounts[a].slots : slots[accounts[a].slots[i]].acctIdx = i

\* The notional the risk gate reads does not drift: after any sequence of
\* fills, amends and cancels it is the sum over the account's orders.
NotionalExact ==
    \A a \in Accounts :
        accounts[a].notional =
            Wrap128(MapThenSumSet(LAMBDA s : slots[s].price * slots[s].qty, Mine(a)))

\* What mass_cancel has left of its snapshot is what the account has left in
\* the book, although each unlink reorders the account's slots under it: every
\* slot it comes to is live and the account's, and none is left behind.
SnapshotCoversAccount ==
    scratch # << >> => \E a \in Accounts :
        /\ Range(scratch) = Range(accounts[a].slots)
        /\ Len(scratch) = Len(accounts[a].slots)

\* A snapshot is of one book: the open orders it gives for the accounts, read
\* from their entries, are the orders it counts in the levels; every account
\* with an order is listed, once; and the touch of the summary is the best level
\* it listed, with that level's quantity.
SnapshotConsistent ==
    LET lv == SnapshotLevels
        ac == SnapshotAccounts
        Of(side) == {lv[i] : i \in {j \in DOMAIN lv : lv[j].side = side}}
        IsBest(touch, side) ==
            \E l \in Of(side) :
                /\ touch = <<l.price, l.qty>>
                /\ \A m \in Of(side) : IF side = "Buy" THEN m.price <= l.price ELSE m.price >= l.price
    IN  /\ MapThenSumSet(LAMBDA i : lv[i].orderCount, DOMAIN lv)
              = MapThenSumSet(LAMBDA i : ac[i].openOrderCount, DOMAIN ac)
        /\ {ac[i].account : i \in DOMAIN ac} = {slots[s].account : s \in LiveSlots}
        /\ \A side \in Sides :
              LET touch == SnapshotSummary(NULL)[IF side = "Buy" THEN "bestBid" ELSE "bestAsk"]
              IN  IF Of(side) = {} THEN touch = << >> ELSE IsBest(touch, side)

\* The chains are the FIFO queues of LevelQueues.
Chained ==
    LET AsOrder(node) == [account |-> node.account, id |-> node.id, qty |-> node.qty]
        Orders(chain) == [k \in DOMAIN chain |-> AsOrder(slots[chain[k]])]
    IN  [side \in Sides |-> [p \in Prices |-> Orders(Chain(side, p))]]

Queues == INSTANCE LevelQueues WITH queues <- Chained, MaxQty <- U64Max

\* The linked book implements the FIFO queues that MatchingEngine works on:
\* rest appends, unlink takes out one order from any place, and a change of
\* quantity moves nobody.
FifoChains == Queues!QSpec
=============================================================================
