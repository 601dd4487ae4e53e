------------------------ MODULE MatchingEngineProofs ------------------------
(***************************************************************************)
(* Theorems about MatchingEngine, for all values of its constants.         *)
(***************************************************************************)
EXTENDS MatchingEngine, FiniteSetTheorems, WellFoundedInduction, TLAPS

-----------------------------------------------------------------------------
(* Sequences and bounded sets of numbers *)

\* What is left of a FIFO level once the order at position i is unlinked.
LEMMA WithoutFacts ==
    ASSUME NEW S, NEW q \in Seq(S), NEW i \in DOMAIN q
    PROVE  /\ Without(q, i) \in Seq(S)
           /\ Len(Without(q, i)) = Len(q) - 1
           /\ \A j \in 1 .. Len(q) - 1 :
                Without(q, i)[j] = IF j < i THEN q[j] ELSE q[j + 1]
<1> DEFINE a == SubSeq(q, 1, i - 1)
           b == SubSeq(q, i + 1, Len(q))
<1>1. i \in 1 .. Len(q) /\ Len(q) \in Nat
  OBVIOUS
<1>2. /\ a \in Seq(S) /\ Len(a) = i - 1
      /\ \A j \in 1 .. i - 1 : a[j] = q[j]
  BY <1>1
<1>3. /\ b \in Seq(S) /\ Len(b) = Len(q) - i
      /\ \A j \in 1 .. Len(q) - i : b[j] = q[i + j]
  BY <1>1
<1>4. Without(q, i) = a \o b
  BY DEF Without
<1> HIDE DEF a, b
<1>5. /\ a \o b \in Seq(S) /\ Len(a \o b) = Len(q) - 1
      /\ \A j \in 1 .. Len(q) - 1 : (a \o b)[j] = IF j < i THEN a[j] ELSE b[j - (i - 1)]
  <2>1. /\ a \o b \in Seq(S)
        /\ Len(a \o b) = Len(a) + Len(b)
        /\ \A j \in 1 .. Len(a) + Len(b) :
             (a \o b)[j] = IF j <= Len(a) THEN a[j] ELSE b[j - Len(a)]
    <3>. a \in Seq(S) /\ b \in Seq(S)
      BY <1>2, <1>3
    <3>. QED OBVIOUS
  <2>2. Len(a) + Len(b) = Len(q) - 1
    BY <1>1, <1>2, <1>3
  <2>3. \A j \in 1 .. Len(q) - 1 : (j <= Len(a) <=> j < i)
    BY <1>1, <1>2
  <2>. QED BY <2>1, <2>2, <2>3, <1>2
<1>6. ASSUME NEW j \in 1 .. Len(q) - 1
      PROVE  (a \o b)[j] = IF j < i THEN q[j] ELSE q[j + 1]
  <2>1. CASE j < i
    BY <2>1, <1>1, <1>2, <1>5
  <2>2. CASE ~(j < i)
    <3>1. j - (i - 1) \in 1 .. Len(q) - i /\ i + (j - (i - 1)) = j + 1
      BY <2>2, <1>1
    <3>2. b[j - (i - 1)] = q[j + 1]
      BY <3>1, <1>3
    <3>. QED BY <2>2, <3>2, <1>5
  <2>. QED BY <2>1, <2>2, Zenon
<1>. QED BY <1>4, <1>5, <1>6

\* A level is empty exactly when it has no position.
LEMMA SeqFacts ==
    ASSUME NEW S, NEW q \in Seq(S)
    PROVE  /\ DOMAIN q = 1 .. Len(q) /\ Len(q) \in Nat
           /\ q = << >> <=> DOMAIN q = {}
           /\ \A i \in DOMAIN q : i \in Int /\ q[i] \in S
<1>1. DOMAIN q = 1 .. Len(q) /\ Len(q) \in Nat
  OBVIOUS
<1>2. ASSUME DOMAIN q = {} PROVE q = << >>
  <2>1. Len(q) = 0
    BY <1>1, <1>2, SMT
  <2>. QED BY <2>1
<1>. QED BY <1>1, <1>2

\* The lowest ask of a side with depth exists.
LEMMA LeastExists ==
    ASSUME NEW T \in SUBSET Nat, T # {}
    PROVE  \E x \in T : \A y \in T : x <= y
<1> DEFINE R == {z \in Nat \X Nat : z[1] < z[2]}
<1>1. IsWellFoundedOn(R, Nat)
  <2>1. R = OpToRel(<, Nat)
    BY DEF OpToRel
  <2>. QED BY <2>1, NatLessThanWellFounded, Zenon
<1>2. \E x \in T : \A y \in T : ~(<<y, x>> \in R)
  BY <1>1, WFMin, Zenon
<1>3. PICK x \in T : \A y \in T : ~(<<y, x>> \in R)
  BY <1>2
<1>4. ASSUME NEW y \in T PROVE x <= y
  <2>1. ~(y < x)
    BY <1>3, Zenon
  <2>. QED BY <2>1
<1>. QED BY <1>4

\* The highest bid of a side with depth exists.
LEMMA GreatestExists ==
    ASSUME NEW n \in Nat, NEW T \in SUBSET (0 .. n), T # {}
    PROVE  \E x \in T : \A y \in T : y <= x
<1> DEFINE M == {n - t : t \in T}
<1>0. \A t \in T : n - t \in Nat
  OBVIOUS
<1>1. M \in SUBSET Nat /\ M # {}
  BY <1>0, Zenon
<1>2. PICK m \in M : \A k \in M : m <= k
  BY <1>1, LeastExists, Zenon
<1>3. PICK x \in T : m = n - x
  OBVIOUS
<1>4. ASSUME NEW y \in T PROVE y <= x
  <2>1. n - y \in M
    OBVIOUS
  <2>2. n - x <= n - y
    BY <2>1, <1>2, <1>3
  <2>. QED BY <2>2
<1>. QED BY <1>4

-----------------------------------------------------------------------------
(* The best level and the level an aggressor meets *)

\* Every price the commands can carry fits the u64 of Price.
LEMMA PricesBounded == Prices \subseteq 0 .. U64Max /\ U64Max \in Nat
  BY ConstantsAssumption DEF Prices

\* bids and asks have levels at prices of commands only.
LEMMA OccupiedPrices == \A side : Occupied(side) \subseteq Prices
  BY Zenon DEF Occupied

\* best_bid and best_ask return the touch of a side that has depth.
LEMMA BestFacts ==
    ASSUME NEW side \in Sides, Occupied(side) # {}
    PROVE  /\ Best(side) \in Occupied(side)
           /\ Best(side) \in Prices
           /\ Best(side) # NoPrice
           /\ \A q \in Occupied(side) : IF side = "Buy" THEN q <= Best(side) ELSE Best(side) <= q
<1>1. Occupied(side) \in SUBSET (0 .. U64Max) /\ Occupied(side) \in SUBSET Nat
  <2>1. Occupied(side) \subseteq 0 .. U64Max
    BY PricesBounded, Zenon DEF Occupied
  <2>. QED BY <2>1, PricesBounded
<1>2. \E p \in Occupied(side) :
         \A q \in Occupied(side) : IF side = "Buy" THEN q <= p ELSE p <= q
  <2>1. CASE side = "Buy"
    BY <2>1, <1>1, GreatestExists, PricesBounded, Zenon
  <2>2. CASE side # "Buy"
    BY <2>2, <1>1, LeastExists
  <2>. QED BY <2>1, <2>2
<1>3. /\ Best(side) \in Occupied(side)
      /\ \A q \in Occupied(side) : IF side = "Buy" THEN q <= Best(side) ELSE Best(side) <= q
  BY <1>2 DEF Best
<1>4. Best(side) \in Prices /\ Best(side) # NoPrice
  BY <1>3, PricesBounded DEF Occupied, NoPrice
<1>. QED BY <1>3, <1>4

\* An aggressor that meets no level has nothing left to cross on the other
\* side; one that meets a level meets an occupied one.
LEMMA CrossingFacts ==
    ASSUME NEW side \in Sides, NEW limit \in 0 .. U64Max
    PROVE  /\ CrossingLevel(side, limit) = NoPrice =>
                 \A q \in Occupied(Opposite(side)) : ~Crosses(side, limit, q)
           /\ CrossingLevel(side, limit) # NoPrice =>
                 CrossingLevel(side, limit) \in Occupied(Opposite(side))
<1>1. Opposite(side) \in Sides
  BY DEF Opposite, Sides
<1>2. CASE Occupied(Opposite(side)) = {}
  BY <1>2 DEF CrossingLevel, Best
<1>3. CASE Occupied(Opposite(side)) # {}
  <2> DEFINE best == Best(Opposite(side))
  <2>1. /\ best \in Occupied(Opposite(side)) /\ best # NoPrice /\ best \in Prices
        /\ \A q \in Occupied(Opposite(side)) : IF Opposite(side) = "Buy" THEN q <= best ELSE best <= q
    BY <1>1, <1>3, BestFacts
  <2>2. CASE Crosses(side, limit, best)
    BY <2>1, <2>2 DEF CrossingLevel
  <2>3. CASE ~Crosses(side, limit, best)
    <3>1. CrossingLevel(side, limit) = NoPrice
      BY <2>3 DEF CrossingLevel
    <3>2. ASSUME NEW q \in Occupied(Opposite(side)) PROVE ~Crosses(side, limit, q)
      <4>1. q \in Int /\ best \in Int /\ limit \in Int
        <5>1. q \in Prices
          BY Zenon DEF Occupied
        <5>. HIDE DEF best
        <5>. QED BY <2>1, <5>1, PricesBounded
      <4>2. IF Opposite(side) = "Buy" THEN q <= best ELSE best <= q
        BY <2>1
      <4>. HIDE DEF best
      <4>3. CASE side = "Buy"
        BY <4>1, <4>2, <4>3, <2>3 DEF Crosses, Opposite
      <4>4. CASE side = "Sell"
        BY <4>1, <4>2, <4>4, <2>3 DEF Crosses, Opposite
      <4>. QED BY <4>3, <4>4 DEF Sides
    <3>. QED BY <3>1, <3>2
  <2>. QED BY <2>2, <2>3
<1>. QED BY <1>2, <1>3

-----------------------------------------------------------------------------
(* The three ways a step changes the book *)

Books == [Sides -> [Prices -> Seq(Order)]]

\* Book::unlink takes one order out and moves no other.
LEMMA UnlinkFacts ==
    ASSUME book \in Books, KeysDistinct,
           NEW side \in Sides, NEW p \in Prices, NEW i \in DOMAIN book[side][p],
           Unlink(side, p, i)
    PROVE  /\ book' \in Books
           /\ \A s \in Sides : Occupied(s)' \subseteq Occupied(s)
           /\ KeysDistinct'
           /\ \A a, o : Resting(a, o)' <=> Resting(a, o) /\ ~IsAt(a, o, side, p, i)
<1> DEFINE level == book[side][p]
           From(s, q, j) == IF s = side /\ q = p /\ j >= i THEN j + 1 ELSE j
<1>1. level \in Seq(Order) /\ i \in DOMAIN level
  BY DEF Books
<1>2. /\ Without(level, i) \in Seq(Order)
      /\ Len(Without(level, i)) = Len(level) - 1
      /\ \A j \in 1 .. Len(level) - 1 :
            Without(level, i)[j] = IF j < i THEN level[j] ELSE level[j + 1]
  BY <1>1, WithoutFacts, SMTT(30)
<1>3. /\ book' \in Books
      /\ book'[side][p] = Without(level, i)
      /\ \A s \in Sides, q \in Prices : s # side \/ q # p => book'[s][q] = book[s][q]
  BY <1>2 DEF Unlink, Books
<1>4. ASSUME NEW s \in Sides, NEW q \in Prices, NEW j \in DOMAIN book'[s][q]
      PROVE  /\ From(s, q, j) \in DOMAIN book[s][q]
             /\ book'[s][q][j] = book[s][q][From(s, q, j)]
             /\ ~(s = side /\ q = p /\ From(s, q, j) = i)
  <2>1. CASE s = side /\ q = p
    <3>1. j \in 1 .. Len(level) - 1 /\ Len(level) \in Nat /\ i \in 1 .. Len(level)
      BY <2>1, <1>1, <1>2, <1>3
    <3>2. j + 1 \in 1 .. Len(level) /\ j \in 1 .. Len(level)
      BY <3>1
    <3>. QED BY <2>1, <3>1, <3>2, <1>1, <1>2, <1>3
  <2>2. CASE ~(s = side /\ q = p)
    BY <2>2, <1>3
  <2>. QED BY <2>1, <2>2
<1>5. ASSUME NEW s \in Sides, NEW q \in Prices, NEW k \in DOMAIN book[s][q],
             ~(s = side /\ q = p /\ k = i)
      PROVE  \E j \in DOMAIN book'[s][q] : book'[s][q][j] = book[s][q][k]
  <2>1. CASE s = side /\ q = p
    <3>1. k \in 1 .. Len(level) /\ k # i /\ Len(level) \in Nat /\ i \in 1 .. Len(level)
      BY <2>1, <1>1, <1>5
    <3>2. CASE k < i
      <4>1. k \in 1 .. Len(level) - 1
        BY <3>1, <3>2
      <4>. QED BY <4>1, <3>2, <2>1, <1>2, <1>3
    <3>3. CASE k > i
      <4>1. k - 1 \in 1 .. Len(level) - 1 /\ ~(k - 1 < i) /\ (k - 1) + 1 = k
        BY <3>1, <3>3
      <4>2. k - 1 \in DOMAIN book'[s][q]
        BY <4>1, <2>1, <1>2, <1>3
      <4>3. book'[s][q][k - 1] = book[s][q][k]
        BY <4>1, <2>1, <1>2, <1>3, ZenonT(40)
      <4>. QED BY <4>2, <4>3
    <3>. QED BY <3>1, <3>2, <3>3
  <2>2. CASE ~(s = side /\ q = p)
    BY <2>2, <1>3
  <2>. QED BY <2>1, <2>2
<1>6. ASSUME NEW s \in Sides PROVE Occupied(s)' \subseteq Occupied(s)
  <2>1. ASSUME NEW q \in Prices, book[s][q] = << >> PROVE book'[s][q] = << >>
    <3>1. DOMAIN book[s][q] = {}
      BY <2>1
    <3>2. DOMAIN book'[s][q] = {}
      BY <3>1, <1>4
    <3>3. book'[s][q] \in Seq(Order)
      BY <1>3 DEF Books
    <3>. QED BY <3>2, <3>3, SeqFacts
  <2>. QED BY <2>1 DEF Occupied
<1>7. KeysDistinct'
  <2>1. SUFFICES ASSUME NEW s1 \in Sides, NEW s2 \in Sides, NEW p1 \in Prices, NEW p2 \in Prices,
                        NEW k \in DOMAIN book'[s1][p1], NEW m \in DOMAIN book'[s2][p2],
                        book'[s2][p2][m].account = book'[s1][p1][k].account,
                        book'[s2][p2][m].id = book'[s1][p1][k].id
                 PROVE  s1 = s2 /\ p1 = p2 /\ k = m
    BY SMTT(30) DEF KeysDistinct, IsAt
  <2>2. s1 = s2 /\ p1 = p2 /\ From(s1, p1, k) = From(s2, p2, m)
    <3>1. /\ From(s1, p1, k) \in DOMAIN book[s1][p1]
          /\ From(s2, p2, m) \in DOMAIN book[s2][p2]
          /\ book'[s1][p1][k] = book[s1][p1][From(s1, p1, k)]
          /\ book'[s2][p2][m] = book[s2][p2][From(s2, p2, m)]
      BY <1>4
    <3>. HIDE DEF From
    <3>. QED BY <2>1, <3>1 DEF KeysDistinct, IsAt
  <2>3. k \in Int /\ m \in Int /\ i \in Int
    <3>1. book'[s1][p1] \in Seq(Order) /\ book'[s2][p2] \in Seq(Order)
      BY <1>3 DEF Books
    <3>. QED BY <1>1, <3>1, SeqFacts
  <2>. QED BY <2>2, <2>3
<1>8. ASSUME NEW a, NEW o
      PROVE  Resting(a, o)' <=> Resting(a, o) /\ ~IsAt(a, o, side, p, i)
  <2>1. ASSUME Resting(a, o)' PROVE Resting(a, o) /\ ~IsAt(a, o, side, p, i)
    <3>0. PICK s \in Sides, q \in Prices : \E j \in DOMAIN book'[s][q] :
                 book'[s][q][j].account = a /\ book'[s][q][j].id = o
      BY <2>1 DEF Resting, IsAt
    <3>1. PICK j \in DOMAIN book'[s][q] : book'[s][q][j].account = a /\ book'[s][q][j].id = o
      BY <3>0
    <3>2. /\ From(s, q, j) \in DOMAIN book[s][q]
          /\ book'[s][q][j] = book[s][q][From(s, q, j)]
          /\ ~(s = side /\ q = p /\ From(s, q, j) = i)
      BY <1>4
    <3>. HIDE DEF From
    <3>3. Resting(a, o)
      BY <3>1, <3>2, SMTT(30) DEF Resting, IsAt
    <3>4. ~IsAt(a, o, side, p, i)
      BY <3>1, <3>2 DEF KeysDistinct, IsAt
    <3>. QED BY <3>3, <3>4
  <2>2. ASSUME Resting(a, o), ~IsAt(a, o, side, p, i) PROVE Resting(a, o)'
    <3>0. PICK s \in Sides, q \in Prices : \E k \in DOMAIN book[s][q] : IsAt(a, o, s, q, k)
      BY <2>2 DEF Resting
    <3>1. PICK k \in DOMAIN book[s][q] : IsAt(a, o, s, q, k)
      BY <3>0
    <3>2. ~(s = side /\ q = p /\ k = i)
      BY <2>2, <3>1
    <3>3. PICK j \in DOMAIN book'[s][q] : book'[s][q][j] = book[s][q][k]
      BY <3>2, <1>5
    <3>. QED BY <3>1, <3>3 DEF Resting, IsAt
  <2>. QED BY <2>1, <2>2
<1>. QED BY <1>3, <1>6, <1>7, <1>8

\* reduce_resting_qty and the in-place amend change a quantity and nothing else.
LEMMA SetQtyFacts ==
    ASSUME book \in Books, KeysDistinct,
           NEW side \in Sides, NEW p \in Prices, NEW i \in DOMAIN book[side][p],
           NEW qty \in 1 .. U64Max,
           SetQty(side, p, i, qty)
    PROVE  /\ book' \in Books
           /\ \A s \in Sides : Occupied(s)' = Occupied(s)
           /\ KeysDistinct'
           /\ \A a, o : Resting(a, o)' <=> Resting(a, o)
<1> DEFINE level == book[side][p]
           newLevel == WithQty(level, i, qty)
<1>1. level \in Seq(Order) /\ i \in DOMAIN level /\ level[i] \in Order
  BY DEF Books
<1>2. /\ newLevel \in Seq(Order)
      /\ DOMAIN newLevel = DOMAIN level
      /\ \A j \in DOMAIN level : /\ newLevel[j].account = level[j].account
                                 /\ newLevel[j].id = level[j].id
  <2>1. [level[i] EXCEPT !.qty = qty] \in Order
    BY <1>1, SMTT(30) DEF Order
  <2>2. newLevel \in Seq(Order) /\ DOMAIN newLevel = DOMAIN level
    BY <1>1, <2>1 DEF WithQty
  <2>. QED BY <1>1, <2>2 DEF Order, WithQty
<1>3. /\ book' \in Books
      /\ book'[side][p] = newLevel
      /\ \A s \in Sides, q \in Prices : s # side \/ q # p => book'[s][q] = book[s][q]
  <2>1. book' = [book EXCEPT ![side][p] = newLevel]
    BY DEF SetQty
  <2>2. newLevel \in Seq(Order)
    BY <1>2
  <2>. HIDE DEF newLevel
  <2>. QED BY <2>1, <2>2 DEF Books
<1>4. ASSUME NEW s \in Sides, NEW q \in Prices
      PROVE  /\ DOMAIN book'[s][q] = DOMAIN book[s][q]
             /\ \A j \in DOMAIN book[s][q] : /\ book'[s][q][j].account = book[s][q][j].account
                                             /\ book'[s][q][j].id = book[s][q][j].id
  <2>. HIDE DEF newLevel
  <2>1. CASE s = side /\ q = p
    BY <2>1, <1>2, <1>3
  <2>2. CASE ~(s = side /\ q = p)
    BY <2>2, <1>3
  <2>. QED BY <2>1, <2>2
<1>5. ASSUME NEW s \in Sides PROVE Occupied(s)' = Occupied(s)
  <2>1. \A q \in Prices : book[s][q] \in Seq(Order) /\ book'[s][q] \in Seq(Order)
    BY <1>3 DEF Books
  <2>2. \A q \in Prices : book[s][q] = << >> <=> book'[s][q] = << >>
    BY <2>1, <1>4, SeqFacts, SMTT(30)
  <2>. QED BY <2>2 DEF Occupied
<1>6. KeysDistinct'
  BY <1>4 DEF KeysDistinct, IsAt
<1>7. \A a, o : Resting(a, o)' <=> Resting(a, o)
  BY <1>4, SMTT(30) DEF Resting, IsAt
<1>. QED BY <1>3, <1>5, <1>6, <1>7

\* Book::rest appends an order whose key the caller knows to be free.
LEMMA RestFacts ==
    ASSUME book \in Books, KeysDistinct,
           NEW a \in Accounts, NEW o \in OrderIds, NEW side \in Sides, NEW p \in Prices,
           NEW qty \in 1 .. U64Max,
           ~Resting(a, o),
           Rest(a, o, side, p, qty)
    PROVE  /\ book' \in Books
           /\ \A s \in Sides : Occupied(s)' = IF s = side THEN Occupied(s) \cup {p} ELSE Occupied(s)
           /\ KeysDistinct'
           /\ \A b, n : Resting(b, n)' <=> Resting(b, n) \/ (b = a /\ n = o)
<1> DEFINE level == book[side][p]
           order == [account |-> a, id |-> o, qty |-> qty]
           back == Len(level) + 1
<1>1. level \in Seq(Order) /\ order \in Order
  BY Zenon DEF Books, Order
<1>2. /\ Append(level, order) \in Seq(Order)
      /\ DOMAIN Append(level, order) = DOMAIN level \cup {back}
      /\ back \notin DOMAIN level
      /\ \A j \in DOMAIN level : Append(level, order)[j] = level[j]
      /\ Append(level, order)[back] = order
  <2>. HIDE DEF order
  <2>. QED BY <1>1, SMTT(30)
<1>3. /\ book' \in Books
      /\ book'[side][p] = Append(level, order)
      /\ \A s \in Sides, q \in Prices : s # side \/ q # p => book'[s][q] = book[s][q]
  BY <1>2 DEF Rest, Books
<1>4. order.account = a /\ order.id = o
  OBVIOUS
<1> HIDE DEF order, back
<1>5. ASSUME NEW s \in Sides, NEW q \in Prices, NEW j \in DOMAIN book'[s][q]
      PROVE  \/ j \in DOMAIN book[s][q] /\ book'[s][q][j] = book[s][q][j]
             \/ s = side /\ q = p /\ j = back /\ book'[s][q][j] = order
  <2>1. CASE s = side /\ q = p
    BY <2>1, <1>2, <1>3
  <2>2. CASE ~(s = side /\ q = p)
    BY <2>2, <1>3
  <2>. QED BY <2>1, <2>2, SMTT(30)
<1>6. ASSUME NEW s \in Sides, NEW q \in Prices, NEW j \in DOMAIN book[s][q]
      PROVE  j \in DOMAIN book'[s][q] /\ book'[s][q][j] = book[s][q][j]
  <2>1. CASE s = side /\ q = p
    BY <2>1, <1>2, <1>3
  <2>2. CASE ~(s = side /\ q = p)
    BY <2>2, <1>3
  <2>. QED BY <2>1, <2>2, SMTT(30)
<1>7. ASSUME NEW s \in Sides
      PROVE  Occupied(s)' = IF s = side THEN Occupied(s) \cup {p} ELSE Occupied(s)
  <2>1. book'[side][p] # << >>
    BY <1>2, <1>3, SeqFacts
  <2>. QED BY <2>1, <1>3 DEF Occupied
<1>8. KeysDistinct'
  <2>1. SUFFICES ASSUME NEW s1 \in Sides, NEW s2 \in Sides, NEW p1 \in Prices, NEW p2 \in Prices,
                        NEW k \in DOMAIN book'[s1][p1], NEW m \in DOMAIN book'[s2][p2],
                        book'[s2][p2][m].account = book'[s1][p1][k].account,
                        book'[s2][p2][m].id = book'[s1][p1][k].id
                 PROVE  s1 = s2 /\ p1 = p2 /\ k = m
    BY DEF KeysDistinct, IsAt
  <2>2. \A s \in Sides, q \in Prices : \A j \in DOMAIN book[s][q] :
           ~(book[s][q][j].account = a /\ book[s][q][j].id = o)
    BY SMTT(30) DEF Resting, IsAt
  <2>3. CASE k \in DOMAIN book[s1][p1] /\ m \in DOMAIN book[s2][p2]
    BY <2>1, <2>3, <1>6, SMTT(30) DEF KeysDistinct, IsAt
  <2>4. CASE k \notin DOMAIN book[s1][p1]
    BY <2>1, <2>2, <2>4, <1>4, <1>5
  <2>5. CASE m \notin DOMAIN book[s2][p2]
    BY <2>1, <2>2, <2>5, <1>4, <1>5, SMTT(30)
  <2>. QED BY <2>3, <2>4, <2>5, SMTT(30)
<1>9. ASSUME NEW b, NEW n PROVE Resting(b, n)' <=> Resting(b, n) \/ (b = a /\ n = o)
  <2>1. back \in DOMAIN book'[side][p] /\ book'[side][p][back] = order
    BY <1>2, <1>3
  <2>. QED BY <2>1, <1>4, <1>5, <1>6, SMTT(30) DEF Resting, IsAt
<1>. QED BY <1>3, <1>7, <1>8, <1>9

-----------------------------------------------------------------------------
(* Counting an account's open orders *)

\* An account's open-order count is a natural number: it has finitely many ids.
LEMMA CountType ==
    ASSUME NEW a
    PROVE  /\ IsFiniteSet({o \in OrderIds : Resting(a, o)})
           /\ OpenOrderCount(a) \in Nat
  BY ConstantsAssumption, FS_Subset, FS_CardinalityType DEF OpenOrderCount

\* Orders that only leave lower the count.
LEMMA CountShrinks ==
    ASSUME NEW a, \A o \in OrderIds : Resting(a, o)' => Resting(a, o)
    PROVE  OpenOrderCount(a)' \in Nat /\ OpenOrderCount(a)' <= OpenOrderCount(a)
<1> DEFINE S == {o \in OrderIds : Resting(a, o)}
           T == {o \in OrderIds : Resting(a, o)'}
<1>1. IsFiniteSet(S) /\ T \in SUBSET S
  BY CountType
<1>2. IsFiniteSet(T) /\ Cardinality(T) <= Cardinality(S)
  BY <1>1, FS_Subset
<1>3. OpenOrderCount(a) = Cardinality(S) /\ OpenOrderCount(a)' = Cardinality(T)
  BY DEF OpenOrderCount
<1>4. Cardinality(T) \in Nat
  BY <1>2, FS_CardinalityType
<1>. QED BY <1>2, <1>3, <1>4

\* A new key raises it by one.
LEMMA CountGrows ==
    ASSUME NEW a, NEW n \in OrderIds, ~Resting(a, n),
           \A o \in OrderIds : Resting(a, o)' <=> Resting(a, o) \/ o = n
    PROVE  OpenOrderCount(a)' = OpenOrderCount(a) + 1
<1> DEFINE S == {o \in OrderIds : Resting(a, o)}
           T == {o \in OrderIds : Resting(a, o)'}
<1>1. IsFiniteSet(S) /\ n \notin S /\ T = S \cup {n}
  BY CountType
<1>2. Cardinality(T) = Cardinality(S) + 1
  BY <1>1, FS_AddElement
<1>3. OpenOrderCount(a) = Cardinality(S) /\ OpenOrderCount(a)' = Cardinality(T)
  BY DEF OpenOrderCount
<1>. QED BY <1>2, <1>3

\* A key that leaves lowers it by one.
LEMMA CountDrops ==
    ASSUME NEW a, NEW n \in OrderIds, Resting(a, n),
           \A o \in OrderIds : Resting(a, o)' <=> Resting(a, o) /\ o # n
    PROVE  OpenOrderCount(a)' = OpenOrderCount(a) - 1
<1> DEFINE S == {o \in OrderIds : Resting(a, o)}
           T == {o \in OrderIds : Resting(a, o)'}
<1>1. IsFiniteSet(S) /\ n \in S /\ T = S \ {n}
  BY CountType
<1>2. Cardinality(T) = Cardinality(S) - 1
  BY <1>1, FS_RemoveElement
<1>3. OpenOrderCount(a) = Cardinality(S) /\ OpenOrderCount(a)' = Cardinality(T)
  BY DEF OpenOrderCount
<1>. QED BY <1>2, <1>3

-----------------------------------------------------------------------------
(* The part of the invariant that speaks of the book alone *)

BookInv == book \in Books /\ NotCrossed /\ KeysDistinct /\ OpenOrdersWithinCap

\* What a step that adds no order keeps: nothing comes to rest, no level is
\* opened, and so neither the key of the order in progress is taken nor the
\* room it was promised.
Drained ==
    /\ BookInv'
    /\ \A a, o : Resting(a, o)' => Resting(a, o)
    /\ \A a \in Accounts : OpenOrderCount(a)' \in Nat /\ OpenOrderCount(a)' <= OpenOrderCount(a)

\* A book whose orders and occupied levels were all there before has drained.
LEMMA DrainedFrom ==
    ASSUME BookInv, book' \in Books, KeysDistinct',
           \A s \in Sides : Occupied(s)' \subseteq Occupied(s),
           \A a, o : Resting(a, o)' => Resting(a, o)
    PROVE  Drained
<1>1. NotCrossed'
  BY DEF BookInv, NotCrossed, Sides
<1>2. \A a \in Accounts : OpenOrderCount(a)' \in Nat /\ OpenOrderCount(a)' <= OpenOrderCount(a)
  BY CountShrinks
<1>3. OpenOrdersWithinCap'
  <2>1. \A a \in Accounts : OpenOrderCount(a) \in Nat /\ OpenOrderCount(a) <= MaxOpenOrders
    BY CountType, Zenon DEF BookInv, OpenOrdersWithinCap
  <2>. QED BY <1>2, <2>1, ConstantsAssumption DEF OpenOrdersWithinCap
<1>. QED BY <1>1, <1>2, <1>3 DEF Drained, BookInv

\* A step that leaves the book alone drains it trivially.
LEMMA SameBookDrained == BookInv /\ UNCHANGED book => Drained
<1> SUFFICES ASSUME BookInv, UNCHANGED book PROVE Drained
  OBVIOUS
<1>1. book' \in Books /\ KeysDistinct'
  BY DEF BookInv, KeysDistinct, IsAt
<1>2. \A s \in Sides : Occupied(s)' \subseteq Occupied(s)
  BY DEF Occupied
<1>3. \A a, o : Resting(a, o)' => Resting(a, o)
  BY DEF Resting, IsAt
<1>. QED BY <1>1, <1>2, <1>3, DrainedFrom

\* Unlinking an order (unlink) drains the book.
LEMMA UnlinkDrained ==
    ASSUME BookInv, NEW side \in Sides, NEW p \in Prices, NEW i \in DOMAIN book[side][p],
           Unlink(side, p, i)
    PROVE  Drained
  BY UnlinkFacts, DrainedFrom DEF BookInv

\* A new quantity for a resting order (reduce_resting_qty) drains the book.
LEMMA SetQtyDrained ==
    ASSUME BookInv, NEW side \in Sides, NEW p \in Prices, NEW i \in DOMAIN book[side][p],
           NEW qty \in 1 .. U64Max, SetQty(side, p, i, qty)
    PROVE  Drained
  BY SetQtyFacts, DrainedFrom DEF BookInv

\* Resting an order with a free key and room under the cap, at a price that
\* crosses no level of the other side, keeps the book well formed.
LEMMA RestKeepsBook ==
    ASSUME BookInv,
           NEW a \in Accounts, NEW o \in OrderIds, NEW side \in Sides, NEW p \in Prices,
           NEW qty \in 1 .. U64Max,
           ~Resting(a, o), OpenOrderCount(a) < MaxOpenOrders,
           \A q \in Occupied(Opposite(side)) : ~Crosses(side, p, q),
           Rest(a, o, side, p, qty)
    PROVE  BookInv'
<1>1. /\ book' \in Books
      /\ \A s \in Sides : Occupied(s)' = IF s = side THEN Occupied(s) \cup {p} ELSE Occupied(s)
      /\ KeysDistinct'
      /\ \A b, n : Resting(b, n)' <=> Resting(b, n) \/ (b = a /\ n = o)
  BY RestFacts DEF BookInv
<1>2. NotCrossed'
  <2>1. SUFFICES ASSUME NEW bid \in Occupied("Buy")', NEW ask \in Occupied("Sell")'
                 PROVE  bid < ask
    BY DEF NotCrossed
  <2>2. \A s : Occupied(s) \subseteq Int
    <3>1. Prices \subseteq Int
      BY PricesBounded
    <3>. QED BY <3>1, OccupiedPrices, Zenon
  <2>3. p \in Int
    BY PricesBounded
  <2>4. bid \in Occupied("Buy") /\ ask \in Occupied("Sell") => bid < ask
    BY DEF BookInv, NotCrossed
  <2>5. CASE side = "Buy"
    <3>1. bid \in Occupied("Buy") \cup {p} /\ ask \in Occupied("Sell")
      BY <2>5, <1>1 DEF Sides
    <3>2. ~(ask <= p)
      BY <3>1, <2>5 DEF Opposite, Crosses
    <3>. QED BY <3>1, <3>2, <2>2, <2>3, <2>4, SMTT(30)
  <2>6. CASE side = "Sell"
    <3>1. bid \in Occupied("Buy") /\ ask \in Occupied("Sell") \cup {p}
      BY <2>6, <1>1 DEF Sides
    <3>2. ~(bid >= p)
      BY <3>1, <2>6 DEF Opposite, Crosses
    <3>. QED BY <3>1, <3>2, <2>2, <2>3, <2>4
  <2>. QED BY <2>5, <2>6 DEF Sides
<1>3. ASSUME NEW b \in Accounts PROVE OpenOrderCount(b)' <= MaxOpenOrders
  <2>1. OpenOrderCount(b) \in Nat /\ OpenOrderCount(b) <= MaxOpenOrders
    BY CountType, Zenon DEF BookInv, OpenOrdersWithinCap
  <2>2. CASE b = a
    <3>1. OpenOrderCount(b)' = OpenOrderCount(b) + 1
      BY <2>2, <1>1, CountGrows
    <3>. QED BY <3>1, <2>1, <2>2, ConstantsAssumption
  <2>3. CASE b # a
    <3>1. OpenOrderCount(b)' \in Nat /\ OpenOrderCount(b)' <= OpenOrderCount(b)
      BY <2>3, <1>1, CountShrinks
    <3>. QED BY <3>1, <2>1, ConstantsAssumption
  <2>. QED BY <2>2, <2>3
<1>. QED BY <1>1, <1>2, <1>3 DEF BookInv, OpenOrdersWithinCap

-----------------------------------------------------------------------------
(* The steps of a command *)

TaskTypes == {Idle} \cup Aggressor \cup [op : {"MassCancel"}, account : Accounts]

\* What the invariant says of the command in progress.
TaskInv == task \in TaskTypes /\ InFlightKeyFree /\ RoomToRest /\ DrainQuiet

\* The inductive invariant is its part about the book and its part about the command.
LEMMA IndInvSplits ==
    IndInv <=> BookInv /\ TaskInv /\ lastTrade \in Prices \cup {NoPrice} /\ killSwitch \in BOOLEAN
  BY DEF IndInv, BookInv, TaskInv, TaskTypes, TypeOK, UniqueKeys, Books

\* Between two commands nothing is owed to an order in flight.
LEMMA IdleTask == task' = Idle => TaskInv'
  BY DEF Idle, TaskTypes, TaskInv, InFlightKeyFree, InFlight, RoomToRest, DrainQuiet, Sweepers

\* A task that is in flight is an aggressor.
LEMMA AggressorTask ==
    ASSUME task \in TaskTypes, task.op \in Sweepers \cup {"PostOnly"}
    PROVE  /\ task \in Aggressor
           /\ task.account \in Accounts /\ task.id \in OrderIds /\ task.side \in Sides
           /\ task.limit \in 0 .. U64Max /\ task.remaining \in 0 .. U64Max
           /\ task.op # "Market" => task.limit \in Prices
           /\ task.op = "PostOnly" => task.remaining > 0
<1>1. task \in Aggressor
  BY DEF TaskTypes, Idle, Sweepers
<1>. QED BY <1>1 DEF Aggressor

\* The room an order was promised does not shrink while orders only leave.
LEMMA RoomKept ==
    ASSUME RoomToRest, Drained, task'.op = task.op, task'.account = task.account
    PROVE  RoomToRest'
<1>1. ASSUME NEW a \in Accounts, OpenOrderCount(a) < MaxOpenOrders
      PROVE  OpenOrderCount(a)' < MaxOpenOrders
  <2>1. OpenOrderCount(a)' \in Nat /\ OpenOrderCount(a)' <= OpenOrderCount(a)
    BY DEF Drained
  <2>2. OpenOrderCount(a) \in Nat
    BY CountType, Zenon
  <2>. QED BY <1>1, <2>1, <2>2, ConstantsAssumption
<1>. QED BY <1>1 DEF RoomToRest

\* A step that leaves the command in progress alone and adds no order to the
\* book keeps what is promised to that command.
LEMMA TaskKept ==
    ASSUME TaskInv, Drained, UNCHANGED <<killSwitch, task>>
    PROVE  TaskInv'
<1>1. InFlightKeyFree' /\ DrainQuiet' /\ task' \in TaskTypes
  BY DEF TaskInv, Drained, InFlightKeyFree, InFlight, DrainQuiet
<1>2. RoomToRest'
  BY RoomKept DEF TaskInv
<1>. QED BY <1>1, <1>2 DEF TaskInv

\* The level an order in progress meets is occupied and has a maker at its
\* head; when it meets none, no level of the other side crosses its limit.
LEMMA MeetsFacts ==
    ASSUME BookInv, task \in TaskTypes
    PROVE  /\ Meets # NoPrice =>
                 /\ task.op \in Sweepers \cup {"PostOnly"}
                 /\ task.remaining > 0
                 /\ Opposite(task.side) \in Sides
                 /\ Meets \in Prices
                 /\ 1 \in DOMAIN book[Opposite(task.side)][Meets]
                 /\ Maker = book[Opposite(task.side)][Meets][1]
                 /\ Maker \in Order
           /\ (task.op \in Sweepers \cup {"PostOnly"} /\ task.remaining > 0 /\ Meets = NoPrice) =>
                 \A q \in Occupied(Opposite(task.side)) : ~Crosses(task.side, task.limit, q)
<1>1. ASSUME Meets # NoPrice
      PROVE  /\ task.op \in Sweepers \cup {"PostOnly"}
             /\ task.remaining > 0
             /\ Opposite(task.side) \in Sides
             /\ Meets \in Prices
             /\ 1 \in DOMAIN book[Opposite(task.side)][Meets]
             /\ Maker = book[Opposite(task.side)][Meets][1]
             /\ Maker \in Order
  <2>1. /\ task.op \in Sweepers \cup {"PostOnly"} /\ task.remaining > 0
        /\ Meets = CrossingLevel(task.side, task.limit)
    BY <1>1 DEF Meets
  <2>2. task.side \in Sides /\ task.limit \in 0 .. U64Max /\ Opposite(task.side) \in Sides
    BY <2>1, AggressorTask DEF Opposite, Sides
  <2>3. Meets \in Occupied(Opposite(task.side))
    BY <1>1, <2>1, <2>2, CrossingFacts
  <2>4. Meets \in Prices /\ book[Opposite(task.side)][Meets] # << >>
    BY <2>3 DEF Occupied
  <2> DEFINE level == book[Opposite(task.side)][Meets]
  <2>5. level \in Seq(Order) /\ level # << >>
    BY <2>2, <2>4 DEF BookInv, Books
  <2>6. Maker = Head(level)
    BY DEF Maker
  <2> HIDE DEF level
  <2>7. 1 \in DOMAIN level /\ Head(level) = level[1] /\ level[1] \in Order
    BY <2>5
  <2>. QED BY <2>1, <2>2, <2>4, <2>6, <2>7 DEF level
<1>2. ASSUME task.op \in Sweepers \cup {"PostOnly"}, task.remaining > 0, Meets = NoPrice
      PROVE  \A q \in Occupied(Opposite(task.side)) : ~Crosses(task.side, task.limit, q)
  <2>1. CrossingLevel(task.side, task.limit) = NoPrice
    BY <1>2 DEF Meets
  <2>2. task.side \in Sides /\ task.limit \in 0 .. U64Max
    BY <1>2, AggressorTask
  <2>. QED BY <2>1, <2>2, CrossingFacts
<1>. QED BY <1>1, <1>2

\* A self-trade-prevention cancel in a sweep preserves the invariant.
LEMMA CancelOwnMakerInv == BookInv /\ TaskInv /\ CancelOwnMaker => BookInv' /\ TaskInv'
<1> SUFFICES ASSUME BookInv, TaskInv, CancelOwnMaker PROVE BookInv' /\ TaskInv'
  OBVIOUS
<1>1. Drained
  <2>1. /\ Opposite(task.side) \in Sides /\ Meets \in Prices
        /\ 1 \in DOMAIN book[Opposite(task.side)][Meets]
    BY MeetsFacts DEF CancelOwnMaker, TaskInv
  <2>2. Unlink(Opposite(task.side), Meets, 1)
    BY DEF CancelOwnMaker
  <2>. QED BY <2>1, <2>2, UnlinkDrained, SMTT(30)
<1>2. TaskInv'
  BY <1>1, TaskKept DEF CancelOwnMaker
<1>. QED BY <1>1, <1>2 DEF Drained

\* A fill takes the head of the level the order meets, or part of it.
LEMMA FillMakerInv ==
    BookInv /\ TaskInv /\ FillMaker => BookInv' /\ TaskInv' /\ lastTrade' \in Prices
<1> SUFFICES ASSUME BookInv, TaskInv, FillMaker
             PROVE  BookInv' /\ TaskInv' /\ lastTrade' \in Prices
  OBVIOUS
<1> DEFINE opp == Opposite(task.side)
           fill == Min({task.remaining, Maker.qty})
<1>1. /\ opp \in Sides /\ Meets \in Prices /\ 1 \in DOMAIN book[opp][Meets]
      /\ task.remaining > 0 /\ Maker \in Order /\ task.op \in Sweepers
  BY MeetsFacts DEF FillMaker, TaskInv
<1>2. task \in Aggressor /\ task.remaining \in 0 .. U64Max
  BY <1>1, AggressorTask DEF TaskInv
<1>3. Maker.qty \in 1 .. U64Max /\ U64Max \in Nat
  BY <1>1, ConstantsAssumption DEF Order
<1>4. fill \in 1 .. U64Max /\ fill <= task.remaining /\ fill <= Maker.qty
  <2>1. \E x \in {task.remaining, Maker.qty} : \A y \in {task.remaining, Maker.qty} : x <= y
    BY <1>2, <1>3
  <2>2. fill \in {task.remaining, Maker.qty} /\ \A y \in {task.remaining, Maker.qty} : fill <= y
    BY <2>1 DEF Min
  <2>. HIDE DEF fill
  <2>. QED BY <2>2, <1>1, <1>2, <1>3
<1>5. /\ task' = [task EXCEPT !.remaining = task.remaining - fill]
      /\ lastTrade' = Meets
      /\ fill = Maker.qty => Unlink(opp, Meets, 1)
      /\ fill # Maker.qty => SetQty(opp, Meets, 1, Maker.qty - fill)
      /\ UNCHANGED killSwitch
  BY DEF FillMaker
<1> HIDE DEF fill, opp
<1>6. Drained
  <2>1. CASE fill = Maker.qty
    BY <2>1, <1>1, <1>5, UnlinkDrained
  <2>2. CASE fill # Maker.qty
    <3>1. Maker.qty - fill \in 1 .. U64Max
      BY <2>2, <1>3, <1>4
    <3>. QED BY <2>2, <3>1, <1>1, <1>5, SetQtyDrained
  <2>. QED BY <2>1, <2>2
<1>7. /\ task' \in Aggressor /\ task'.op = task.op
      /\ task'.account = task.account /\ task'.id = task.id
  <2>1. task.remaining - fill \in 0 .. U64Max
    BY <1>2, <1>3, <1>4
  <2>2. task.op # "PostOnly"
    BY <1>1 DEF Sweepers
  <2>. QED BY <2>1, <2>2, <1>2, <1>5 DEF Aggressor
<1>8. task' \in TaskTypes
  BY <1>7 DEF TaskTypes
<1>9. InFlightKeyFree' /\ DrainQuiet'
  BY <1>5, <1>6, <1>7 DEF TaskInv, Drained, InFlightKeyFree, InFlight, DrainQuiet
<1>10. RoomToRest'
  BY <1>6, <1>7, RoomKept DEF TaskInv
<1>. QED BY <1>1, <1>5, <1>6, <1>8, <1>9, <1>10 DEF TaskInv, Drained

\* The remainder of a sweep is rested where nothing crosses it any more.
LEMMA EndSweepInv == BookInv /\ TaskInv /\ EndSweep => BookInv' /\ TaskInv'
<1> SUFFICES ASSUME BookInv, TaskInv, EndSweep PROVE BookInv' /\ TaskInv'
  OBVIOUS
<1>1. TaskInv'
  BY IdleTask DEF EndSweep, Finish
<1>2. CASE task.op \in {"Gtc", "Amend"} /\ task.remaining > 0
  <2>1. Rest(task.account, task.id, task.side, task.limit, task.remaining)
    BY <1>2 DEF EndSweep
  <2>2. /\ task.account \in Accounts /\ task.id \in OrderIds /\ task.side \in Sides
        /\ task.limit \in Prices /\ task.remaining \in 0 .. U64Max
    BY <1>2, AggressorTask DEF TaskInv, Sweepers
  <2>3. task.remaining \in 1 .. U64Max
    BY <1>2, <2>2, ConstantsAssumption
  <2>4. ~Resting(task.account, task.id) /\ OpenOrderCount(task.account) < MaxOpenOrders
    BY <1>2, <2>2, SMTT(30) DEF TaskInv, InFlightKeyFree, InFlight, RoomToRest, Sweepers
  <2>5. \A q \in Occupied(Opposite(task.side)) : ~Crosses(task.side, task.limit, q)
    BY <1>2, MeetsFacts DEF EndSweep, TaskInv
  <2>6. ASSUME NEW a \in Accounts, NEW o \in OrderIds, NEW side \in Sides, NEW p \in Prices,
               NEW qty \in 1 .. U64Max,
               a = task.account, o = task.id, side = task.side, p = task.limit,
               qty = task.remaining
        PROVE  BookInv'
    <3>1. ~Resting(a, o) /\ OpenOrderCount(a) < MaxOpenOrders /\ Rest(a, o, side, p, qty)
      BY <2>1, <2>4, <2>6
    <3>2. \A q \in Occupied(Opposite(side)) : ~Crosses(side, p, q)
      BY <2>5, <2>6
    <3>. QED BY <3>1, <3>2, RestKeepsBook
  <2>. QED BY <2>2, <2>3, <2>6, <1>1
<1>3. CASE ~(task.op \in {"Gtc", "Amend"} /\ task.remaining > 0)
  <2>1. UNCHANGED book
    BY <1>3 DEF EndSweep
  <2>. QED BY <2>1, <1>1, SameBookDrained DEF Drained
<1>. QED BY <1>2, <1>3

\* Resting a PostOnly order that crosses nothing preserves the invariant.
LEMMA RestPostOnlyInv == BookInv /\ TaskInv /\ RestPostOnly => BookInv' /\ TaskInv'
<1> SUFFICES ASSUME BookInv, TaskInv, RestPostOnly PROVE BookInv' /\ TaskInv'
  OBVIOUS
<1>1. TaskInv'
  BY IdleTask DEF RestPostOnly, Finish
<1>2. task.op = "PostOnly" /\ Meets = NoPrice
      /\ Rest(task.account, task.id, task.side, task.limit, task.remaining)
  BY DEF RestPostOnly
<1>3. /\ task.account \in Accounts /\ task.id \in OrderIds /\ task.side \in Sides
      /\ task.limit \in Prices /\ task.remaining \in 0 .. U64Max /\ task.remaining > 0
  BY <1>2, AggressorTask DEF TaskInv
<1>4. task.remaining \in 1 .. U64Max
  BY <1>3, ConstantsAssumption
<1>5. ~Resting(task.account, task.id) /\ OpenOrderCount(task.account) < MaxOpenOrders
  BY <1>2, <1>3 DEF TaskInv, InFlightKeyFree, InFlight, RoomToRest
<1>6. \A q \in Occupied(Opposite(task.side)) : ~Crosses(task.side, task.limit, q)
  BY <1>2, <1>3, MeetsFacts DEF TaskInv
<1>7. ASSUME NEW a \in Accounts, NEW o \in OrderIds, NEW side \in Sides, NEW p \in Prices,
             NEW qty \in 1 .. U64Max,
             a = task.account, o = task.id, side = task.side, p = task.limit,
             qty = task.remaining
      PROVE  BookInv'
  <2>1. ~Resting(a, o) /\ OpenOrderCount(a) < MaxOpenOrders /\ Rest(a, o, side, p, qty)
    BY <1>2, <1>5, <1>7
  <2>2. \A q \in Occupied(Opposite(side)) : ~Crosses(side, p, q)
    BY <1>6, <1>7
  <2>. QED BY <2>1, <2>2, RestKeepsBook
<1>. QED BY <1>1, <1>3, <1>4, <1>7

\* One cancel of a mass cancel preserves the invariant.
LEMMA CancelNextInv == BookInv /\ TaskInv /\ CancelNext => BookInv' /\ TaskInv'
<1> SUFFICES ASSUME BookInv, TaskInv, CancelNext PROVE BookInv' /\ TaskInv'
  OBVIOUS
<1>1. PICK side \in Sides, p \in Prices : \E i \in DOMAIN book[side][p] : Unlink(side, p, i)
  BY DEF CancelNext
<1>2. PICK i \in DOMAIN book[side][p] : Unlink(side, p, i)
  BY <1>1
<1>3. Drained
  BY <1>2, UnlinkDrained
<1>4. TaskInv'
  BY <1>3, TaskKept DEF CancelNext
<1>. QED BY <1>3, <1>4, SMTT(30) DEF Drained

\* The steps that end a command without touching the book.
LEMMA QuietEndInv ==
    BookInv /\ TaskInv /\ (RejectPostOnly \/ EndMassCancel \/ Return) => BookInv' /\ TaskInv'
<1> SUFFICES ASSUME BookInv, TaskInv, RejectPostOnly \/ EndMassCancel \/ Return
             PROVE  BookInv' /\ TaskInv'
  OBVIOUS
<1>1. UNCHANGED book /\ task' = Idle
  BY DEF RejectPostOnly, EndMassCancel, Return, Finish
<1>. QED BY <1>1, IdleTask, SameBookDrained DEF Drained

-----------------------------------------------------------------------------
(* Commands *)

\* A rejection changes nothing.
LEMMA RejectInv ==
    ASSUME BookInv, TaskInv, NEW a, NEW o, NEW reason, Reject(a, o, reason)
    PROVE  BookInv' /\ TaskInv'
  BY SameBookDrained, TaskKept DEF Reject, Drained

\* The order that starts: its key is free, and if it may rest it has room.
LEMMA AggressInv ==
    ASSUME BookInv', ~killSwitch',
           NEW op \in Sweepers \cup {"PostOnly"}, NEW a \in Accounts, NEW o \in OrderIds,
           NEW side \in Sides, NEW limit \in 0 .. U64Max, NEW qty \in 1 .. U64Max,
           op # "Market" => limit \in Prices,
           ~Resting(a, o)',
           op \in {"Gtc", "PostOnly", "Amend"} => OpenOrderCount(a)' < MaxOpenOrders,
           Aggress(op, a, o, side, limit, qty)
    PROVE  TaskInv'
<1>1. task' = [op |-> op, account |-> a, id |-> o, side |-> side, limit |-> limit,
               remaining |-> qty]
  BY DEF Aggress
<1>2. task' \in Aggressor
  <2>1. qty \in 0 .. U64Max /\ qty > 0
    BY ConstantsAssumption
  <2>. QED BY <1>1, <2>1 DEF Aggressor
<1>3. task'.op = op /\ task'.account = a /\ task'.id = o
  BY <1>1
<1>4. task' \in TaskTypes
  BY <1>2 DEF TaskTypes
<1>5. InFlightKeyFree'
  BY <1>3 DEF InFlightKeyFree
<1>6. RoomToRest'
  BY <1>3 DEF RoomToRest
<1>7. DrainQuiet'
  BY DEF DrainQuiet
<1>. QED BY <1>4, <1>5, <1>6, <1>7 DEF TaskInv

\* What a NewOrder that is not refused has going for it.
LEMMA VerdictFacts ==
    ASSUME NEW a \in Accounts, NEW o, NEW side, NEW price, NEW qty, NEW tif,
           NewOrderVerdict(a, o, side, price, qty, tif) = "None"
    PROVE  /\ ~killSwitch
           /\ ~Resting(a, o)
           /\ tif \in {"Gtc", "PostOnly"} => OpenOrderCount(a) < MaxOpenOrders
<1>1. ~killSwitch
  BY DEF NewOrderVerdict
<1>2. ~Resting(a, o) /\ NewOrderCheck(a, side, price, qty, tif) = "None"
  BY <1>1 DEF NewOrderVerdict
<1>3. tif \in {"Gtc", "PostOnly"} => ~(OpenOrderCount(a) >= MaxOpenOrders)
  BY <1>2 DEF NewOrderCheck
<1>4. OpenOrderCount(a) \in Nat /\ MaxOpenOrders \in Nat
  BY CountType, ConstantsAssumption, Zenon
<1>. QED BY <1>1, <1>2, <1>3, <1>4

\* Admitting or refusing a new order preserves the invariant.
LEMMA NewOrderInv ==
    ASSUME BookInv, TaskInv,
           NEW a \in Accounts, NEW o \in OrderIds, NEW side \in Sides, NEW qty \in Qtys,
           NEW price, NEW tif \in Tifs,
           tif # "Market" => price \in LimitPrices,
           NewOrder(a, o, side, price, qty, tif)
    PROVE  BookInv' /\ TaskInv'
<1> DEFINE reason == NewOrderVerdict(a, o, side, price, qty, tif)
<1>1. CASE reason # "None"
  BY <1>1, RejectInv DEF NewOrder
<1>2. CASE reason = "None"
  <2> DEFINE limit == SweepBound(side, price, tif)
  <2>1. Aggress(tif, a, o, side, limit, qty) /\ UNCHANGED <<book, killSwitch>>
    BY <1>2 DEF NewOrder
  <2>2. /\ ~killSwitch /\ ~Resting(a, o)
        /\ tif \in {"Gtc", "PostOnly"} => OpenOrderCount(a) < MaxOpenOrders
    BY <1>2, VerdictFacts
  <2>3. limit \in 0 .. U64Max /\ (tif # "Market" => limit \in Prices)
    <3>1. CASE tif # "Market"
      <4>1. limit = price /\ price \in Prices
        BY <3>1 DEF SweepBound, Prices
      <4>. HIDE DEF limit
      <4>. QED BY <4>1, PricesBounded
    <3>2. CASE tif = "Market"
      <4>1. limit \in {0, U64Max}
        BY <3>2 DEF SweepBound
      <4>. HIDE DEF limit
      <4>. QED BY <4>1, <3>2, PricesBounded
    <3>. QED BY <3>1, <3>2
  <2>4. qty \in 1 .. U64Max /\ tif \in Sweepers \cup {"PostOnly"} /\ tif # "Amend"
    BY ConstantsAssumption DEF Tifs, Sweepers
  <2>5. Drained
    BY <2>1, SameBookDrained
  <2>6. BookInv' /\ ~Resting(a, o)' /\ ~killSwitch'
    BY <2>1, <2>2, <2>5 DEF Drained
  <2>7. tif \in {"Gtc", "PostOnly", "Amend"} => OpenOrderCount(a)' < MaxOpenOrders
    <3>1. /\ OpenOrderCount(a) \in Nat
          /\ OpenOrderCount(a)' \in Nat /\ OpenOrderCount(a)' <= OpenOrderCount(a)
      BY <2>5, CountType, Zenon DEF Drained
    <3>. QED BY <3>1, <2>2, <2>4, ConstantsAssumption
  <2> HIDE DEF limit
  <2>8. TaskInv'
    BY <2>1, <2>3, <2>4, <2>6, <2>7, AggressInv
  <2>. QED BY <2>6, <2>8
<1>. QED BY <1>1, <1>2

\* Cancelling an order by id preserves the invariant.
LEMMA CancelOrderInv ==
    ASSUME BookInv, TaskInv, NEW a, NEW o, CancelOrder(a, o)
    PROVE  BookInv' /\ TaskInv'
<1>1. PICK side \in Sides, p \in Prices : \E i \in DOMAIN book[side][p] : Unlink(side, p, i)
  BY DEF CancelOrder
<1>2. PICK i \in DOMAIN book[side][p] : Unlink(side, p, i)
  BY <1>1
<1>3. Drained
  BY <1>2, UnlinkDrained
<1>4. TaskInv'
  BY <1>3, TaskKept, SMTT(30) DEF CancelOrder
<1>. QED BY <1>3, <1>4 DEF Drained

\* An amend that loses its place gives up its key and its slot under the cap
\* before it takes them again.
LEMMA CancelReplaceInv ==
    ASSUME BookInv, TaskInv,
           NEW a \in Accounts, NEW o \in OrderIds, NEW newPrice \in AmendPrices, NEW newQty \in Qtys,
           CancelReplace(a, o, newPrice, newQty)
    PROVE  BookInv' /\ TaskInv'
<1>1. PICK side \in Sides, p \in Prices : \E i \in DOMAIN book[side][p] :
             IsAt(a, o, side, p, i) /\ AmendAt(a, o, side, p, i, newPrice, newQty)
  BY DEF CancelReplace
<1>2. PICK i \in DOMAIN book[side][p] :
             IsAt(a, o, side, p, i) /\ AmendAt(a, o, side, p, i, newPrice, newQty)
  BY <1>1
<1>3. newQty \in 1 .. U64Max /\ newPrice \in Prices /\ newPrice \in 0 .. U64Max
  BY ConstantsAssumption DEF Prices
<1>4. CASE Reject(a, o, "KillSwitchActive")
  BY <1>4, RejectInv, SMTT(30)
<1>5. CASE SetQty(side, p, i, newQty) /\ UNCHANGED <<killSwitch, task>>
  BY <1>3, <1>5, SetQtyDrained, TaskKept DEF Drained
<1>6. CASE /\ ~DrainBlocksAmend(p, book[side][p][i].qty, newPrice, newQty)
           /\ ~(newPrice = p /\ newQty <= book[side][p][i].qty)
           /\ Unlink(side, p, i)
           /\ Aggress("Amend", a, o, side, newPrice, newQty)
           /\ UNCHANGED killSwitch
  <2>1. ~killSwitch'
    <3>1. book[side][p][i].qty \in Nat /\ newQty \in Nat
      <4>1. book[side][p] \in Seq(Order)
        BY DEF BookInv, Books
      <4>2. book[side][p][i] \in Order
        BY <4>1, SeqFacts, SMTT(30)
      <4>. QED BY <4>2, <1>3, ConstantsAssumption DEF Order
    <3>2. newPrice # p \/ newQty > book[side][p][i].qty
      BY <3>1, <1>6, SMTT(30)
    <3>3. ~killSwitch
      BY <3>2, <1>6, SMTT(30) DEF DrainBlocksAmend
    <3>. QED BY <3>3, <1>6, SMTT(30)
  <2>2. /\ IsAt(a, o, side, p, i)
        /\ \A b, n : Resting(b, n)' <=> Resting(b, n) /\ ~IsAt(b, n, side, p, i)
    BY <1>2, <1>6, UnlinkFacts, ZenonT(40) DEF BookInv
  <2>3. Drained
    BY <1>6, UnlinkDrained
  <2>4. ~Resting(a, o)'
    BY <2>2
  <2>5. OpenOrderCount(a)' < MaxOpenOrders
    <3>1. Resting(a, o)
      BY <2>2 DEF Resting
    <3>2. \A n \in OrderIds : Resting(a, n)' <=> Resting(a, n) /\ n # o
      BY <2>2 DEF IsAt
    <3>3. OpenOrderCount(a)' = OpenOrderCount(a) - 1
      BY <3>1, <3>2, CountDrops
    <3>4. OpenOrderCount(a) \in Nat /\ OpenOrderCount(a) <= MaxOpenOrders
      BY CountType, Zenon DEF BookInv, OpenOrdersWithinCap
    <3>. QED BY <3>3, <3>4, ConstantsAssumption, SMTT(30)
  <2>6. BookInv'
    BY <2>3 DEF Drained
  <2>7. TaskInv'
    BY <1>3, <1>6, <2>1, <2>4, <2>5, <2>6, AggressInv DEF Sweepers
  <2>. QED BY <2>6, <2>7, SMTT(30)
<1>. QED BY <1>2, <1>4, <1>5, <1>6, Zenon DEF AmendAt

\* Refusing an unknown order, starting a mass cancel and the kill switch preserve the
\* invariant.
LEMMA OtherCommandsInv ==
    ASSUME BookInv, TaskInv,
           \/ \E a \in Accounts, o \in OrderIds : RejectUnknown(a, o)
           \/ \E a \in Accounts : MassCancel(a)
           \/ \E engaged \in BOOLEAN : KillSwitch(engaged)
    PROVE  BookInv' /\ TaskInv'
<1>1. ASSUME NEW a \in Accounts, NEW o \in OrderIds, RejectUnknown(a, o)
      PROVE  BookInv' /\ TaskInv'
  BY <1>1, RejectInv DEF RejectUnknown
<1>2. ASSUME NEW a \in Accounts, MassCancel(a) PROVE BookInv' /\ TaskInv'
  <2>1. task' = [op |-> "MassCancel", account |-> a] /\ UNCHANGED book
    BY <1>2 DEF MassCancel
  <2>2. BookInv'
    BY <2>1, SameBookDrained DEF Drained
  <2>3. task' \in TaskTypes /\ task'.op = "MassCancel"
    BY <2>1 DEF TaskTypes
  <2>4. TaskInv'
    BY <2>3 DEF TaskInv, InFlightKeyFree, InFlight, RoomToRest, DrainQuiet, Sweepers
  <2>. QED BY <2>2, <2>4
<1>3. ASSUME NEW engaged \in BOOLEAN, KillSwitch(engaged) PROVE BookInv' /\ TaskInv'
  <2>1. task' = Idle /\ UNCHANGED book
    BY <1>3 DEF KillSwitch, Waiting
  <2>. QED BY <2>1, IdleTask, SameBookDrained DEF Drained
<1>. QED BY <1>1, <1>2, <1>3

-----------------------------------------------------------------------------
(* The inductive invariant *)

\* The invariant holds of the empty book the engine starts with.
LEMMA InitInv == Init => IndInv
<1> SUFFICES ASSUME Init PROVE IndInv
  OBVIOUS
<1>1. book \in Books /\ \A side \in Sides, p \in Prices : book[side][p] = << >>
  BY DEF Init, Books
<1>2. \A side \in Sides, p \in Prices : DOMAIN book[side][p] = {}
  BY <1>1
<1>3. NotCrossed
  BY <1>1 DEF NotCrossed, Occupied, Sides
<1>4. KeysDistinct /\ \A a, o : ~Resting(a, o)
  BY <1>2 DEF KeysDistinct, Resting
<1>5. OpenOrdersWithinCap
  <2>1. \A a \in Accounts : {o \in OrderIds : Resting(a, o)} = {}
    BY <1>4
  <2>2. \A a \in Accounts : OpenOrderCount(a) = 0
    BY <2>1, FS_EmptySet DEF OpenOrderCount
  <2>. QED BY <2>2, ConstantsAssumption DEF OpenOrdersWithinCap
<1>6. TaskInv
  BY DEF Init, Idle, TaskInv, TaskTypes, InFlightKeyFree, InFlight, RoomToRest, DrainQuiet, Sweepers
<1>7. lastTrade \in Prices \cup {NoPrice} /\ killSwitch \in BOOLEAN
  BY Zenon DEF Init
<1>. QED BY <1>1, <1>3, <1>4, <1>5, <1>6, <1>7, IndInvSplits DEF BookInv

\* Only a fill moves the last trade price.
LEMMA TradeFrame == [Next]_vars => FillMaker \/ UNCHANGED lastTrade
<1>1. ASSUME NEW a, NEW o, NEW side, NEW p, NEW qty, NEW tif, NewOrder(a, o, side, p, qty, tif)
      PROVE  UNCHANGED lastTrade
  BY <1>1 DEF NewOrder, Reject
<1>2. ASSUME NEW a, NEW o, NEW p, NEW qty, CancelReplace(a, o, p, qty) PROVE UNCHANGED lastTrade
  BY <1>2, ZenonT(40) DEF CancelReplace, AmendAt, Reject
<1>3. ASSUME NEW a, NEW o, CancelOrder(a, o) \/ RejectUnknown(a, o) PROVE UNCHANGED lastTrade
  BY <1>3 DEF CancelOrder, RejectUnknown, Reject
<1>4. ASSUME NEW a, MassCancel(a) \/ KillSwitch(a) PROVE UNCHANGED lastTrade
  BY <1>4 DEF MassCancel, KillSwitch
<1>5. Continue => FillMaker \/ UNCHANGED lastTrade
  BY DEF Continue, CancelOwnMaker, EndSweep, RejectPostOnly, RestPostOnly, CancelNext,
     EndMassCancel, Return
<1>6. UNCHANGED vars => UNCHANGED lastTrade
  BY DEF vars
<1>. QED BY <1>1, <1>2, <1>3, <1>4, <1>5, <1>6 DEF Next, Receive, OrderCommand, OtherCommand

\* Only the KillSwitch command moves the switch.
LEMMA SwitchFrame == [Next]_vars => killSwitch' \in BOOLEAN \/ UNCHANGED killSwitch
<1>1. ASSUME NEW a, NEW o, NEW side, NEW p, NEW qty, NEW tif, NewOrder(a, o, side, p, qty, tif)
      PROVE  UNCHANGED killSwitch
  BY <1>1, SMTT(30) DEF NewOrder, Reject
<1>2. ASSUME NEW a, NEW o, NEW p, NEW qty, CancelReplace(a, o, p, qty) PROVE UNCHANGED killSwitch
  BY <1>2, ZenonT(40) DEF CancelReplace, AmendAt, Reject
<1>3. ASSUME NEW a, NEW o, CancelOrder(a, o) \/ RejectUnknown(a, o) PROVE UNCHANGED killSwitch
  BY <1>3 DEF CancelOrder, RejectUnknown, Reject
<1>4. ASSUME NEW a, MassCancel(a) PROVE UNCHANGED killSwitch
  BY <1>4 DEF MassCancel
<1>5. ASSUME NEW engaged \in BOOLEAN, KillSwitch(engaged) PROVE killSwitch' \in BOOLEAN
  BY <1>5 DEF KillSwitch
<1>6. Continue => UNCHANGED killSwitch
  BY DEF Continue, CancelOwnMaker, FillMaker, EndSweep, RejectPostOnly, RestPostOnly, CancelNext,
     EndMassCancel, Return
<1>7. UNCHANGED vars => UNCHANGED killSwitch
  BY DEF vars
<1>. QED BY <1>1, <1>2, <1>3, <1>4, <1>5, <1>6, <1>7 DEF Next, Receive, OrderCommand, OtherCommand

\* Every step of the matching thread preserves the invariant.
LEMMA NextInv == IndInv /\ [Next]_vars => IndInv'
<1> SUFFICES ASSUME IndInv, [Next]_vars PROVE IndInv'
  OBVIOUS
<1>1. BookInv /\ TaskInv /\ lastTrade \in Prices \cup {NoPrice} /\ killSwitch \in BOOLEAN
  BY IndInvSplits
<1>2. BookInv' /\ TaskInv'
  <2>1. CASE \E a \in Accounts, o \in OrderIds, side \in Sides, qty \in Qtys :
                \/ \E p \in LimitPrices, tif \in Tifs \ {"Market"} : NewOrder(a, o, side, p, qty, tif)
                \/ NewOrder(a, o, side, 0, qty, "Market")
    <3>1. "Market" \in Tifs
      BY DEF Tifs
    <3>. QED BY <1>1, <2>1, <3>1, NewOrderInv
  <2>2. CASE \E a \in Accounts, o \in OrderIds : CancelOrder(a, o)
    BY <1>1, <2>2, CancelOrderInv
  <2>3. CASE \E a \in Accounts, o \in OrderIds, p \in AmendPrices, qty \in Qtys :
                CancelReplace(a, o, p, qty)
    BY <1>1, <2>3, CancelReplaceInv
  <2>4. CASE \/ \E a \in Accounts, o \in OrderIds : RejectUnknown(a, o)
             \/ \E a \in Accounts : MassCancel(a)
             \/ \E engaged \in BOOLEAN : KillSwitch(engaged)
    BY <1>1, <2>4, OtherCommandsInv
  <2>5. CASE Continue
    BY <1>1, <2>5, CancelOwnMakerInv, FillMakerInv, EndSweepInv, RestPostOnlyInv, CancelNextInv,
       QuietEndInv, SMTT(30) DEF Continue
  <2>6. CASE UNCHANGED vars
    <3>1. UNCHANGED book /\ UNCHANGED <<killSwitch, task>>
      BY <2>6 DEF vars
    <3>. QED BY <1>1, <3>1, SameBookDrained, TaskKept DEF Drained
  <2>. QED BY <2>1, <2>2, <2>3, <2>4, <2>5, <2>6, SMTT(30) DEF Next, Receive, OrderCommand, OtherCommand
<1>3. lastTrade' \in Prices \cup {NoPrice}
  BY <1>1, FillMakerInv, TradeFrame
<1>4. killSwitch' \in BOOLEAN
  BY <1>1, SwitchFrame
<1>5. BookInv' /\ TaskInv' /\ lastTrade' \in Prices \cup {NoPrice} /\ killSwitch' \in BOOLEAN => IndInv'
  BY DEF IndInv, BookInv, TaskInv, TaskTypes, TypeOK, UniqueKeys, Books
<1>. QED BY <1>2, <1>3, <1>4, <1>5

\* The inductive invariant holds in every state the matching thread reaches, for every
\* sequence of commands.
THEOREM Invariance == Spec => []IndInv
  BY InitInv, NextInv, PTL DEF Spec

\* The book and the command in progress keep their types; no resting order ever
\* has zero quantity.
THEOREM TypeCorrect == Spec => []TypeOK
<1>1. IndInv => TypeOK
  BY DEF IndInv
<1>. QED BY <1>1, Invariance, PTL

\* The book is never crossed or locked, at any step of any command.
THEOREM NeverCrossed == Spec => []NotCrossed
<1>1. IndInv => NotCrossed
  BY DEF IndInv
<1>. QED BY <1>1, Invariance, PTL

\* No (account, order id) is ever at rest twice, and Book::rest never meets a
\* key that is taken.
THEOREM KeysUnique == Spec => []UniqueKeys
<1>1. IndInv => UniqueKeys
  BY DEF IndInv
<1>. QED BY <1>1, Invariance, PTL

\* max_open_orders bounds the resting orders of every account.
THEOREM CapHolds == Spec => []OpenOrdersWithinCap
<1>1. IndInv => OpenOrdersWithinCap
  BY DEF IndInv
<1>. QED BY <1>1, Invariance, PTL
=============================================================================
