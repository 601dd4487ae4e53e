# Verification of the matching engine

TLA+ specifications of the single-symbol matching engine, the TLC runs that
check them on small instances, and TLAPS proofs of the main results for every
instance. Paths are relative to the repository.

## 1. The system

| Part | Source | State | Operations |
|---|---|---|---|
| Order book, commands | `crates/core/src/book.rs`, `engine.rs` | price levels, last trade | five submits (GTC, IOC, FOK, PostOnly, Market), cancel, amend (`modify`), mass cancel, snapshot |
| Order book, representation | `arena.rs`, `level.rs`, `account.rs`, `book.rs` | arena and free list, linked levels, order index, account slot arrays, cached totals, mass-cancel scratch | `rest`, `unlink`, `reduce_resting_qty`, in-place amend |
| Risk gate | `crates/risk/src/lib.rs` | kill switch | `pre_apply_check`, `new_order_check`, `kill_switch_check` |
| Matching thread | `crates/gateway/src/matching.rs` | routing table `resting_conn`, `EngineSeq`, recorder | take a command, record it, route its events |
| Order entry | `crates/gateway/src/order_entry.rs`, `transport.rs` | writers map, per-connection `StreamSeq` | accept, read, dispatch |
| Market data | `crates/marketdata/src/` | one drop-oldest queue per subscriber | fan-out, subscriber writer |
| Wire format | `crates/wire/src/` | framer buffer | frame, decode, encode |
| Recording, replay, start-up | `matching.rs`, `crates/bin/src/`, `risk/src/config.rs` | recording file, socket files | start, record, stop, replay |
| Latency benchmark | `crates/bench/src/` | pool of resting orders, pending messages | send on schedule, pair replies |

How they interact: a reader thread per connection frames and decodes commands
and puts them on one bounded channel. The matching thread is the only consumer.
It takes one command, records it, runs it through the risk gate and the book, and
sends each event as it is produced: trades and touch changes to market data
without blocking, everything else to the return channel, which one dispatcher
thread writes to the sockets. A fan-out thread copies market data into the queue
of each subscriber, and a thread per subscriber writes it.

What is hard about it:

- one command is a long walk: a sweep fills, cancels and unlinks maker after
  maker, and checks made before the walk must still hold after it;
- amends leave the book and re-enter it behind the risk gate;
- five structures (levels, links, index, account arrays, cached sums) describe
  the same orders, slots are reused at once, and `swap_remove` moves orders that
  were not touched;
- release-build arithmetic wraps;
- threads joined by bounded channels, of which some block and some drop;
  blocking socket writes under a mutex; clients that leave at any point;
- a buffered recorder whose errors are ignored, and a process that may be killed;
- messages cut anywhere by the transport.

`PROJECT.json` lists these hazards at the lines where they bite, with the
properties that would notice.

## 2. Modules

| Module | Models |
|---|---|
| `LevelQueues` | What the book promises: every level is a FIFO queue, one order moves at a time. |
| `MatchingEngine` | Risk gate and book commands, one command at a time, one step per maker. |
| `EngineReports` | `MatchingEngine` with a listener that folds the emitted events; what rests, what is owed, the touch, and who stands where in each line. |
| `MatchingThread` | `MatchingEngine` inside the loop of the matching thread: connections and the table that routes reports. |
| `BookIndex` | The representation of the book, and the snapshot read from it. |
| `OrderEntry` | Accept loop, readers, command and return channels, dispatcher, clients. |
| `LossyStream` | What market data promises each subscriber: some of the events pushed to it, with numbers that show which are missing. |
| `MarketData` | `try_send`, fan-out, drop-oldest queues, writers, subscribers. |
| `Wire` | Tags, lengths and layouts of the sixteen messages, encoders and decoders. |
| `Framing` | One direction of a connection: reads of any size through `Framer` and a decoder. |
| `Daemon` | Start-up, socket files, recording, the ways the process stops, replay. |
| `Bench` | Sender and reader of the latency benchmark. |
| `MC...` | Small instances for TLC. |
| `MatchingEngineProofs`, `EngineStepProofs`, `MarketDataProofs`, `OrderEntryProofs` | Theorems. |

Three refinements tie them together. `MatchingEngine` (`FifoLevels`) and
`BookIndex` (`FifoChains`) both implement `LevelQueues`, which is what lets
`MatchingEngine` work on sequences of orders and leave links and indexes to
`BookIndex`. `MarketData` implements `LossyStream` (`GapsShowLosses`).

Definitions marked *Slip* are plausible mistakes (an index not corrected, an
off-by-one in a limit). They are not used by any specification. Put in place of
the definition that comes after them, each makes a property fail; `PROJECT.json`
pairs them.

### MatchingEngine

`book[side][price]` is the FIFO of orders at a level; `lastTrade` and
`killSwitch` are the fields of those names; `task` is the command in progress;
`before` is the touch `Engine::apply` stored on entry; `out` is what the last
step emitted.

- `NewOrder` is the risk gate and the early returns of the submit functions. It
  either rejects or makes the order the task.
- `CancelOwnMaker`, `FillMaker`, `EndSweep` are the turns of `sweep` and what
  each caller does with the remainder. `RejectPostOnly` and `RestPostOnly` are
  the ends of `stp_clear_crossing_self_orders`, which shares `CancelOwnMaker`.
- `CancelOrder`, `RejectUnknown`, `CancelReplace` (through `AmendAt`),
  `MassCancel` with `CancelNext` and `EndMassCancel`, and `KillSwitch` are the
  other commands. `Return` is the loop of the matching thread going back to
  receive.
- `BookUpdateSince` ends every command that reaches `Engine::apply` and moved
  the touch.

The inputs are what `decode_command` lets through: quantities are positive,
limit prices are positive, amend prices may be zero. Integers have the widths of
the code: `Wrap64` for prices and level totals, `Wrap128` for notional. The order
in which mass cancel takes the orders is left open here; `BookIndex` has it.

Left out: `client_ts`, `Filled.state` (a function of `resting_qty`), and
`Snapshot`, which changes nothing and is in `BookIndex`.

### MatchingThread

`restingConn` is the table `resting_conn`, `conn` and `selfId` are the connection
and the `command_self_id` of the command in progress, `sent` is what the last
step put on the return channel. `home` is not in the code: it is the connection
that last had an order admitted or amended, which the table is compared with.
`TakeCommand` receives, `GoOn` continues; each passes the events of the engine's
step through `Emit`, the closure of the code, one after the other. Blocking sends
and `engine_seq` are in `OrderEntry`, the recorder is in `Daemon`.

### BookIndex

The variables are the fields of `Book` and `Arena`. Slots count from 1 and `NULL`
is 0; an account never seen has the default entry, which no operation can tell
from none. `Rest`, `Unlink` and `SetQty` are the changes of state; the actions are
the ways the operations reach them: through the head of the best level
(`TakeMaker`, `ReduceMaker`), the order index (`UnlinkOrder`, `AmendInPlace`), the
mass-cancel snapshot (`MassCancelStep`), or at the end of a sweep (`RestOrder`,
with the conditions that then hold: the key is free and nothing crosses).
`SnapshotLevels`, `SnapshotAccounts` and `SnapshotSummary` are what `snapshot`
reports of a state; the last trade, which it also reports, is kept by
`MatchingEngine`. `WalksClean` is `walk_level` with all its assertions. A level at
price zero fails it and is left out of `LevelsWalk`: that one can exist is what
`zero_price` shows.

`LevelsWalk`, `NodesIndexed`, `AccountsIndexed` and `NotionalExact`, with
`NotCrossed` of `MatchingEngine`, are what `Book::assert_invariants` asserts in
the tests, here over every sequence of operations of the instance and with sums
that wrap.

### OrderEntry

`frame[c]` is what the reader of connection `c` has decoded and is about to pass
on, `commands` and `returns` are the two channels, `busy` is the command in work,
`held` is the report the dispatcher writes with the writers mutex held. Each
channel send and each socket write is a step of its own and waits for room.
`AcceptDrops` is the failing `try_clone`; `WriteFails` is both ways in which the
dispatcher forgets a connection. What a command does is abstracted to the number
of its reports and their destinations, any accepted connection: `MatchingThread`
says which. A client that was never accepted gets nothing. A frame may also make
the decoder panic (see `Framing`): the reader then ends without a reject.

### MarketData

`pushing` is non-empty while the fan-out holds the mutex of the subscriber map,
which `Subscribe` and `Unsubscribe` need. The queue's own mutex is held only for
one push or one pop, so those are atomic; waiting and being woken are explicit.
`offered` and `received` record what was pushed to and written to a subscriber.

### Wire and Framing

A message type is a table of (field, offset, encoding); writes and reads have
tables of their own, as encoder and decoder list the offsets separately. Bytes are
modelled because the properties are about them. The 64-bit and 128-bit fields of
the instance stay below 2^31, TLC's integers; offsets and lengths are those of the
code. `ReadCommands` is a turn of `run_reader`, `ReadEvents` one of the
benchmark's reader. A frame with the tag of an outbound message has a known
length and reaches the arm of `decode_command` marked unreachable, which panics;
`decode_event` has the same arm for commands. `misdirected` sends such frames,
`framing` all others.

### Daemon

`bin::run` is a program counter with a failing exit at every step that has one;
`Crash` may happen at each. Binding a socket is three steps, `Look`, `RemoveFile`
and `Bind`, and `Bind` needs a free path: `path` remembers what earlier lives left
there. A recorded frame is two pieces, so that a partial
write can tear it. `Buffered`, `Flushed` and `FlushFails` are `BufWriter`
(external), used through `let _ = writer.write_all(..)`. `MatchingEnds` is the
recorder being dropped after order entry has stopped accepting and the last
connection has closed. `Replay` computes what `replay_file` would give for the
file as it is now and `risk.toml` as it is now.

### Bench

`Choose`, `Insert`, `Write` are the sender's turn; `Observe`, `Match` the
reader's, with the pool unlocked between them as in the code. Message `i` stands
for its intended send time. The server is the engine reduced to what the benchmark
sees: it answers in order, a new order is refused or meets any makers of the
other side, cancelled or filled, and what is left of it rests unless it is a
market order. Its events carry the message they answer, which the program does
not see.

## 3. Runs

| Run | Shows |
|---|---|
| `engine` | over every command sequence of the instance: `NotCrossed`, `FokAlwaysFills`, `DrainOnlyRemoves`, `AmendUpMeetsNothing`, `WithinCapUntilAmended`, and of its events `ReportsExact`, `FillsAddUp`, `TouchPublished`, `PriceTimePriority` |
| `engine_limits` | the inductive invariant `IndInv` of the proofs (types, `UniqueKeys` and `OpenOrdersWithinCap` are among its conjuncts), `FifoLevels`, `CommandsEnd` |
| `book_index` | `LevelsWalk`, `NodesIndexed`, `AccountsIndexed`, `NotionalExact`, `SnapshotCoversAccount`, `SnapshotConsistent`, `FifoChains` |
| `thread` | `RestingFiled`, `ReportsReachOwner`, `TableForgets` with two accounts that trade, amends included |
| `order_entry` | `StreamNumbered`, `EngineOrderKept`, `OwnAnswersOrdered`, `AllServed` |
| `market_data` | `Accounted`, `GapsShowLosses`, `SameFeed`, `FanOutNeverStalls`, `NewestArrives` |
| `framing` | `MessagesRecovered`, `NothingLostAtTheEnd` |
| `daemon` | `RecordingFaithful`, `ReplayAgrees`, `PathFreeAtBind` |
| `bench` | `SamplesExplained`, `PoolIsBook`, `RunEnds` |
| `zero_price`, `slow_client`, `misdirected` | counterexamples to three statements of the repository |

### Bounds

**Engine.** Two accounts suffice to tell own from foreign orders, two order ids
per account give levels of up to four orders and sweeps of several makers, two
prices give a best and a worse level on each side, and two quantities give full
and partial fills either way. In `engine` prices and quantities are 1 and 3 with
`U64Max = 3`: the notional of an order reaches 9 and the sum of the risk gate
18, which wraps at 16, so that orders the cap should refuse are admitted for an
account that an amend took over it; level totals and `bid + ask` wrap too.
`MaxNotional = 3` is small enough to be hit and large enough for two orders. New
orders have both prices, amends only the higher one: an amended bid then crosses,
an amended ask retreats. `engine_limits` has prices and quantities 1 and 2, so
that amends go either way, and level totals that wrap to zero; it allows fewer
open orders than there are ids, so that the cap bites, and a band of 50 %, so
that it rejects.

**Book index.** Three ids and an arena of three slots: the shortest in which an
order leaves from the middle of a chain and of a slot array, and in which the
free list holds several slots. `U64Max = 2` makes level totals wrap, to zero as
well, and notional wrap too.

**Routing.** Connections multiply the states, so `thread` has one open order per
account, a single price for new orders and two for amends, so that amends trade:
makers and takers are filled fully and partly, and a second order id gives
self-trade prevention its case. Two connections are enough to tell the right one
from another. Every event passes through `Emit` on its own and reads and writes
the table at its own key, so a command that cancels several orders is as many
independent updates.

**Order entry.** Two connections with two frames and one, a command channel of
two, a return channel and sockets of one, up to two reports per command: every
channel fills, a command's reports do not fit at once, and the dispatcher can be
blocked on one client while the other waits.

**Market data.** Two subscribers, two events, four of them emitted, a channel of
one and queues of two: the channel overflows, a queue overflows twice in a row
with a write in progress, and subscribers join between events.

**Framing.** Every ordered pair of frames, every frame between two short ones, and
reads of up to 24 bytes, which end inside every field and span several short
frames. The values of the fields differ in length, so that no two offsets are
confused.

**Daemon.** Two starts, up to four commands each, a buffer of two frames: flushes
succeed, fail and tear a frame, and a second life overwrites or leaves the
recording of the first. **Bench.** Four messages of two accounts, which is enough
for an order, its fill by another, and a cancel that races with it.

Account, order and connection ids of the engine are only compared for equality,
so its runs without liveness use symmetry. Runs of bounded inputs
(`order_entry`, `market_data`, `framing`, `daemon`, `bench`) end when the inputs
are used up, so deadlock is not checked there; that nobody waits for ever is what
`AllServed`, `FanOutNeverStalls`, `NewestArrives` and `RunEnds` say.

### Fairness

- `MatchingEngine`: weak fairness of `Continue`; the matching thread keeps
  running the command it has taken. That its sends return is the subject of
  `OrderEntry`.
- `OrderEntry`: weak fairness of each reader's sends, of the matching thread and
  of the dispatcher: server threads run when they can. With several senders on a
  full channel, weak fairness is enough in the instance because every client
  sends finitely many frames. `ReadingSpec`, used for `AllServed`, adds that
  connected clients go on reading; `MatchingNeverStalls` is checked without it,
  as the statement it quotes is about slow readers.
- `MarketData`: weak fairness of the fan-out and of each writer's own steps.
  Nothing is assumed of socket writes, except, in `NewestArrives`, for the
  subscriber it speaks of.
- `Bench`: weak fairness of sender, reader (its idle timeout included) and server.

Nothing is assumed about commands or events arriving.

### What the counterexamples show

1. `NoZeroPrice` (`SPEC.md:686`): an amend to price zero is decoded and rests. The
   next snapshot then fails an assertion on the matching thread.
2. `MatchingNeverStalls` (`order_entry.rs:15`): the matching thread never touches a
   socket, but the dispatcher does. A client that stays connected and does not
   read fills its socket; the dispatcher blocks in `write_all`, the return channel
   fills, and the matching thread blocks in `send`. With clients that read
   everything is served (`AllServed`).
3. `NeverPanics` (`inbound.rs:148`, `SPEC.md:342`): `message_len` knows the tags of
   both directions. A client's frame with the tag of an event is framed, and
   `decode_command` panics at it: the reader thread ends, the client gets no
   reason code, and its connection stays open with nobody reading it.

### What the passing runs say about edges of the code

- Band and notional are tested on `NewOrder` only. An account within
  `max_notional` leaves it by an amend and in no other way
  (`WithinCapUntilAmended`). This takes `max_notional <= 2^65 - 2`, as the sum of
  an admitted account and one order must not wrap. For an account that is already
  over the cap there is no such bound: the sum in `new_order_check` can wrap and a
  new order then passes, whatever its size.
- A market order is priced at the touch for the notional test and may be refused
  although there is depth; a unit test expects this.
- `bid + ask` is a sum that wraps, so the reference of the band can be far from
  both when prices are near the word size. With `price_band_pct` above 100 the
  lower bound wraps instead, and all limit orders are refused once there is a
  reference; `ConstantsAssumption` takes the percentage to be at most 100.
- An order that is partly filled and then discarded (IOC, Market) stays in the
  routing table although it never rests, so the table can grow without orders
  resting. No report goes wrong for it, and orders that did rest are forgotten
  (`TableForgets`, which says nothing of orders that never rested).
- Rejects of the reader go past the command channel and may arrive before the
  reports of earlier commands. They are the only answers out of order, and in
  order among themselves (`OwnAnswersOrdered`).
- An event dropped by `try_send` is lost for all subscribers alike and leaves no
  gap in the numbers; one dropped by a queue always does (`GapsShowLosses`).
- A command whose recording failed shifts the `EngineSeq` of all later ones in a
  replay; `ReplayAgrees` therefore speaks of the commands before it. That the
  two "cannot drift" (`replay.rs:90`, `SPEC.md:55`) is so as far as they process
  the same commands.
- A daemon that stops leaves its market-data socket file, and its order-entry file
  unless the accept loop ended, although `SPEC.md:250` says socket files are
  "cleaned up on shutdown". No later start trips over them (`PathFreeAtBind`).
- The benchmark pairs replies by key alone, so a cancel may be measured with an
  earlier event of its order. Each message is measured at most once
  (`SamplesExplained`).

## 4. Proofs

| Theorem | Statement |
|---|---|
| `Invariance` | `Spec => []IndInv` of `MatchingEngine` |
| `TypeCorrect`, `NeverCrossed`, `KeysUnique`, `CapHolds` | its conjuncts `TypeOK`, `NotCrossed`, `UniqueKeys`, `OpenOrdersWithinCap` |
| `ImplementsLevelQueues` | `Spec => FifoLevels` |
| `DrainHolds` | `Spec => DrainOnlyRemoves` |
| `AmendUpQuiet` | `Spec => AmendUpMeetsNothing` |
| `QueuesAccounted` | `Spec => []Accounted` of `MarketData` |
| `SubscribersSeeLosses` | `Spec => GapsShowLosses` |
| `StreamsNumbered`, `EngineNumbersOrdered`, `OwnAnswersInOrder` | `Spec => []` of `StreamNumbered`, `EngineOrderKept`, `OwnAnswersOrdered` of `OrderEntry` |

**Assumptions.** For the engine: any set of accounts, any finite set of order ids,
any prices and quantities within the word size and any limits
(`ConstantsAssumption`). For order entry and market data: any connections,
subscribers and events, any positive capacities, any bounds on the inputs
(`OrderEntryAssumption`, `MarketDataAssumption`).

**Engine.** `NotCrossed` is not inductive alone: an order rests at the end of a
sweep because nothing crosses its limit any more, and for that the task must be
well formed. `UniqueKeys` needs the key of the order in flight to stay free for
the whole sweep, which is its second conjunct. The cap needs `RoomToRest`: the
gate saw room for the order, or the amend made it by unlinking, and while the
order is in flight orders of its account only leave. Drain needs `DrainQuiet`:
the switch is thrown only between commands, so no order admitted earlier is in
flight while it is engaged. `IndInv` is the conjunction.

The proof splits it into `BookInv`, about the book, and `TaskInv`, about the
command in progress. Lemmas say what `Unlink`, `SetQty` and `Rest` do to a book
(`UnlinkFacts`, `SetQtyFacts`, `RestFacts`) and to the open-order counts; most
steps then only need that the book drained (`Drained`). There is one lemma per
action and `NextInv` collects them.

`EngineStepProofs` first shows that a step leaves the book alone, removes one
order, lowers one quantity, or, with an order in flight, adds one (`StepKinds`).
The refinement and the drain theorem follow by cases. `AmendUpQuiet` uses that
the level an amend leaves was occupied, so `NotCrossed` keeps the other side away
from its price.

**Market data.** The invariant is that, for each subscriber, the queue is a window
at the end of what was offered, which begins after the last number given plus the
events dropped since, and that the numbers received are increasing and end at the
writer's. Lemmas say that a window stays one when something is pushed, with and
without its oldest element dropped, and when it is popped. Each step is then a `LossyStream` step of one subscriber or changes
nothing it can see.

**Order entry.** The order of answers is a property of four places at once: what
was written, what the dispatcher holds, what is in the return channel, and what
is still to come. `PipeInv` says the first three together are in order, `PastInv`
that nothing still to be reported belongs before something reported, `QueueInv`
that commands wait in the order of their frames and the number of the one in work
is not that of a reject, and `NumInv` that the
dispatcher's number for a connection is that of the last message written to it,
unless the connection is lost for good. One lemma per action.

**Only model-checked.** Liveness (`CommandsEnd`, `AllServed`,
`FanOutNeverStalls`, `NewestArrives`, `RunEnds`), which is out of the prover's
reach; `FokAlwaysFills` and the properties of `EngineReports`
(sums over the book and folds over the events, which need induction over data); the routing
properties of `MatchingThread` (a fold over the events of a step); `SameFeed`;
and everything about `BookIndex`, `Framing`, `Daemon` and `Bench`.

## 5. Not modelled

- Pinning of threads to cores, clocks, histograms and time itself. The
  benchmark's schedule is its order; timeouts may happen when the code can reach
  them.
- Splitting a line of `risk.toml` into key and value, and the widths of its three
  numbers: a value parses or does not.
- Command lines (daemon, replay, benchmark), printing, and the demonstration
  script: no state to check.
- Two daemons on the same paths at once. `path.exists()` and `remove_file` do not
  ask whether anybody listens, so a second start takes the paths of a first that
  still runs, and a transport that is dropped removes whatever file is at its path.
- Several symbols or several matching threads: the program has one of each.
- Overflow of the 64-bit counters (`EngineSeq`, `StreamSeq`, connection ids),
  which no run of the program reaches.
- The components are composed pairwise, where they share state
  (`MatchingEngine` with `MatchingThread` and `EngineReports`), and otherwise by
  abstraction: `OrderEntry` allows any reports, `MarketData` any events, `Daemon`
  any effects of a command, so that their properties hold whatever the engine
  does.
