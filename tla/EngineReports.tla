--------------------------- MODULE EngineReports ---------------------------
(***************************************************************************)
(* What a listener can rebuild from the events of the matching engine.     *)
(* The variables are folded over the events each step emits, the way a     *)
(* client keeps its open orders from its execution reports and a           *)
(* subscriber keeps the touch from market data; they never influence the   *)
(* engine.                                                                 *)
(***************************************************************************)
EXTENDS MatchingEngine, SequencesExt

VARIABLES reported,    \* quantity at rest according to the resting_qty fields
          owed,        \* quantity still open according to the fill quantities
          published,   \* the touch according to BookUpdate
          line         \* line[side][price]: who stands in which order, according to
                       \* the reports and the side and price each order was sent with

reportVars == <<book, lastTrade, killSwitch, task, before, out, reported, owed, published, line>>

ByRestingQty(open, e) ==
    CASE e.type \in {"Accepted", "Filled"} -> [open EXCEPT ![e.account][e.id] = e.resting]
      [] e.type = "Replaced"               -> [open EXCEPT ![e.account][e.id] = e.newQty]
      [] e.type = "Cancelled"              -> [open EXCEPT ![e.account][e.id] = 0]
      [] OTHER                             -> open

\* An order's last report, Accepted with nothing resting or a rejection after
\* admission, writes off what is left of it.
ByFillQty(open, e) ==
    CASE e.type = "Filled"    -> [open EXCEPT ![e.account][e.id] = @ - e.qty]
      [] e.type = "Replaced"  -> [open EXCEPT ![e.account][e.id] = e.newQty]
      [] e.type = "Cancelled" -> [open EXCEPT ![e.account][e.id] = 0]
      [] e.type = "Accepted" /\ e.resting = 0 -> [open EXCEPT ![e.account][e.id] = 0]
      [] e.type = "Rejected" /\ e.reason = "WouldCross" -> [open EXCEPT ![e.account][e.id] = 0]
      [] OTHER -> open

ByBookUpdate(touch, e) == IF e.type = "BookUpdate" THEN e.touch ELSE touch

Key(e) == <<e.account, e.id>>

LeaveLine(queues, key) ==
    [side \in Sides |-> [p \in Prices |-> SelectSeq(queues[side][p], LAMBDA k : k # key)]]

\* An order joins the line when it is accepted to rest, and again when an amend
\* is reported not to retain its priority; t is the command that does it.
ByPriority(queues, e, t) ==
    CASE e.type = "Accepted" /\ e.resting > 0 -> [queues EXCEPT ![t.side][t.limit] = Append(@, Key(e))]
      [] e.type = "Replaced" /\ ~e.retained
             -> [LeaveLine(queues, Key(e)) EXCEPT ![t.side][t.limit] = Append(@, Key(e))]
      [] e.type = "Cancelled" \/ (e.type = "Filled" /\ e.resting = 0) -> LeaveLine(queues, Key(e))
      [] OTHER -> queues

Admitted == task = Idle /\ task'.op \in Tifs

NoneOpen == [a \in Accounts |-> [o \in OrderIds |-> 0]]

ReportsInit ==
    /\ Init
    /\ reported = NoneOpen
    /\ owed = NoneOpen
    /\ published = TopOfBook
    /\ line = [side \in Sides |-> [p \in Prices |-> << >>]]

ReportsNext ==
    /\ Next
    /\ reported' = FoldLeft(ByRestingQty, reported, out')
    /\ owed' = IF Admitted THEN [owed EXCEPT ![task'.account][task'.id] = task'.remaining]
               ELSE FoldLeft(ByFillQty, owed, out')
    /\ published' = FoldLeft(ByBookUpdate, published, out')
    /\ LET t == IF task = Idle THEN task' ELSE task
       IN  line' = FoldLeft(LAMBDA queues, e : ByPriority(queues, e, t), line, out')

ReportsSpec == ReportsInit /\ [][ReportsNext]_reportVars

RestingQty(a, o) ==
    MapThenSumSet(QtyAt, {l \in Places : OrderAt(l).account = a /\ OrderAt(l).id = o})

\* After every command, the resting_qty fields of the execution reports give
\* each account exactly the orders and quantities it has in the book: those of
\* makers filled by others, of orders self-trade prevention cancelled, of
\* partly filled orders whose remainder was discarded.
ReportsExact ==
    task = Idle => \A a \in Accounts, o \in OrderIds : reported[a][o] = RestingQty(a, o)

\* Quantity is conserved order by order: what was submitted or amended to, less
\* the quantities of its Filled reports, is what rests or is still looking for
\* a counterparty, at every step of a sweep.
FillsAddUp ==
    \A a \in Accounts, o \in OrderIds :
        owed[a][o] = IF InFlight /\ task.account = a /\ task.id = o
                     THEN task.remaining ELSE RestingQty(a, o)

\* Comparing the touch before and after each command loses no change: between
\* commands the last BookUpdate is the top of the book.
TouchPublished == task = Idle => published = TopOfBook

\* Price-time priority, as the reports promise it: a maker that is filled has
\* stood longest at its price, and nobody stands at a better one.  An order
\* partly filled, or amended with its priority retained, keeps its place, any
\* other amend goes to the back; the aggressor's own orders were taken out, and
\* reported, before the fill.
PriceTimePriority ==
    [][\A i \in DOMAIN out' :
          LET e == out'[i]
              Better(q) == IF e.side = "Buy" THEN q > e.price ELSE q < e.price
          IN  e.type = "Filled" /\ Key(e) # <<task.account, task.id>> =>
                  /\ line[e.side][e.price] # << >> /\ Head(line[e.side][e.price]) = Key(e)
                  /\ \A q \in Prices : Better(q) => line[e.side][q] = << >>]_reportVars

\* What an account has at rest, and what is in flight and may come to rest, as
\* an exact sum.
Exposure(a) ==
    MapThenSumSet(LAMBDA l : l[2] * QtyAt(l), {l \in Places : OrderAt(l).account = a})
        + IF task.op \in {"Gtc", "PostOnly", "Amend"} /\ task.account = a
          THEN task.limit * task.remaining ELSE 0

\* An account that is within max_notional leaves it only by an amend, which the
\* gate does not check: what a new order may rest was counted when it was
\* checked, and until it rests the account's other orders only shrink.  This
\* takes max_notional <= 2 * U64Max (2^65 - 2).  Above it, or once an amend has
\* taken the account near 2^128, the u128 sum of new_order_check can wrap, and a
\* new order then passes whatever its size.
WithinCapUntilAmended ==
    [][\A a \in Accounts :
          Exposure(a)' > MaxNotional =>
              \/ Exposure(a) > MaxNotional
              \/ task = Idle /\ task'.op = "Amend" /\ task'.account = a]_<<book, task>>
=============================================================================
