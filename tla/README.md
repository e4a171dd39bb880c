# exg: TLA+ models, checks and proofs

This directory models exg, a Rust exchange for perpetual contracts: its trading
core, and the services around it. It holds TLA+ modules translated from the
source, TLC runs over small instances of them, and TLAPS proofs. Paths such as
`buffer.rs:182` are below `src/crates/`; `PROJECT.json` maps every definition to
its lines, lists the hazards the properties are for, and names every run, mutant
and theorem.

Contents: [the system](#the-system), [modules](#modules), [runs](#runs),
[fairness](#fairness), [proofs](#proofs), [findings](#findings),
[divergences](#divergences), [abstractions](#abstractions),
[not modelled](#not-modelled), [what is left](#what-is-left).

## The system

One process serves one symbol. What happens to an order:

    HTTP handlers (many tasks, two servers: main and admin port)
        | token, token buckets, snowflake id
        | Postgres: INSERT of (user, clientOrderId) ON CONFLICT DO NOTHING
        | Mutex<Producer>::try_push; a full ring answers 429, success 200
        v
    SPSC ring buffer (shared memory, 32-bit length header per slot)
        | Consumer::try_pop
        v
    matching thread (one OS thread, spins)
        | MatchingEngine::process_command  -> engine events
        | PostTradeProcessor::consume      -> settlement facts
        v
    write-ahead log: one record per event, engine events first
        | flush + fsync every flush_every_n records, at rotation, at shutdown
        v
    boot: open the log (cut off a torn tail), replay every record through
          apply_event, verify the ledger, start the thread, bind the servers

A 200 answer means that the command is in the ring, not that it was executed
or logged. Graceful shutdown stops the admin server, then the main server, then
raises the flag the matching thread reads when it finds the ring empty, then
joins the thread. Release builds abort on panic, so a panic anywhere is a crash.

Beside the server stand libraries that no binary calls yet: the order service and
the market data service, which would read the engine's events; the clearing
service with the risk engine, a ledger of margins; the wallet service. They keep all
state in memory behind `&mut self`. Their hard part is the protocol: calls
that come twice, late, in another order, or stop half-way. Their modules say
what caller is assumed.

### Inventory

| Component | State | Operations | What is hard | What makes it correct |
|---|---|---|---|---|
| ring buffer (`exg-ringbuffer`) | head, tail (wrapping u64), slots | try_push, push, try_push_batch, try_pop, pop, peek, try_pop_batch | two threads, cursors that wrap, full and empty told apart by subtraction | no slot used from both sides; bounded FIFO queue; nothing stranded |
| order book (`orderbook.rs`) | orders, levels, per-user index, level totals | insert, remove, cancel-all, update_qty, fill-or-kill totals | three redundant copies of the same facts | the copies agree |
| matcher (`matcher.rs`) | - | match_order | order of levels and queues, four times in force | priority; fill-or-kill is all or nothing (icebergs apart); post-only takes nothing |
| matching engine (`engine.rs`) | book, stop orders, mark, index, expiry heap | eight commands, expiry sweep, snapshot | triggers that trade, trailing peaks, replace versus in-place amendment, icebergs | book uncrossed; quantity conserved; triggers complete |
| engine replay (`replay.rs`) | the engine, seen ids | apply_event | rebuilds by events what matching did by commands | the replica equals the live engine |
| server (`exg-server`) | phase, flag, thread | boot, matching loop, shutdown | handlers, thread and shutdown race; crash anywhere | log follows the queue; shutdown ends and loses nothing logged |
| gateway (`exg-api-gateway`, `exg-user-service` repo and tokens) | users, clientOrderId table, token buckets | register, login, order and admin handlers | an await between effects; retries; the clock | one effect per clientOrderId; rates hold |
| identifiers (`ids.rs`) | one atomic: millisecond and sequence | next_id | clock standing still or set back, sequence used up, compare-and-swap lost | ids increase within a boot |
| write-ahead log (`exg-wal`) | segments, buffered writer, sequence, snapshot files | append, flush, rotate, open, read; save and load snapshots | torn tail, corruption, gaps, what fsync covers | flushed records stay; what opens is whole; a boot reads what was found |
| post-trade (`post_trade.rs`, `position.rs`) | positions, ledger, counters | consume, handle_admin_credit, apply_event | capped settlement, idempotency, funding over all positions | money conserved; replay equals live |
| ledger (`exg-ledger`) | accounts, journal, keys | deposit, withdraw, transfer, freeze, positions, settlements, verify | idempotency keys, negative balances | journal sums to balances; a key moves money once |
| clearing, risk monitor, risk engine | positions with margins, ledger, insurance fund | process_trade, cancel, funding, scan, liquidate, ADL, withdraw | several ledger steps per call, any of which is refused | the two books agree; no money from nothing; ADL by rank |
| order service | orders, active lists, client ids, completed ring | create, apply_event, cancel-symbol, snapshot | events late, twice, after a restart | the view is the engine's |
| market data | bars, ticker window, depth and increments, mark price | on_trade, on_depth_update, snapshot, prices | period boundaries, clock set back | every trade in one bar; increments rebuild depth |
| wallet service | addresses, deposits, withdrawals | derive, record, confirm, reorg, credit; submit, review, process | reports in any order, workers that overlap and die | paid once and rightly; sent once and reviewed |
| decimal (`decimal.rs`) | - | checked arithmetic, text | 256-bit products by half words, bitwise division, sign, overflow | exact, truncated, refused when too big |
| admin service, configuration, protocol types, WAL dump tool, web front ends, deployment | - | - | - | see [not modelled](#not-modelled) |

## Modules

| Module | Models | Notes |
|---|---|---|
| `BoundedFifo` | what the ring promises: a queue of bounded length and the history of what left it | abstract; used by `RingBuffer` (refinement) and `Server` (composition) |
| `RingBuffer` | `buffer.rs`, one step per access to shared memory | header and payload are separate accesses; cursors are counters modulo `Wrap` |
| `OrderBook`, `Matcher` | `orderbook.rs`, `matcher.rs` | operators on a book record; asks and bids are one definition |
| `MatchingEngine` | `engine.rs` | extends `Matcher`; one action per command, the whole handler |
| `Replay` | `replay.rs`, the engine's snapshot | extends `MatchingEngine`; a replica applies each event the engine emits |
| `Server` | `exg-server/src/lib.rs`, `handlers.rs`, `admin.rs`, `writer.rs` | instantiates `BoundedFifo` for the ring |
| `Gateway` | `handlers.rs`, `middleware.rs`, `rate_limiter.rs`, `ids.rs`, `repo.rs`, tokens | several handlers, one step per lock, atomic or query |
| `Wal` | `exg-wal`: writer, reader, segments, snapshots | three places a record can be in: buffer, page cache, platter |
| `Ledger` | `exg-ledger/src/operations.rs` | operators on a ledger record |
| `PostTrade` | `post_trade.rs`, `position.rs`, the boot's replay of them | extends `Ledger`; a crash keeps any prefix of the log |
| `Risk` | `exg-risk-engine`, `risk_monitor.rs` | pure operators |
| `Clearing` | `clearing.rs`, `position.rs` | extends `Ledger` and `Risk` |
| `OrderService`, `MarketData` | the two read models | operators on a service record |
| `ReadModels` | the engine's log on its way to both | extends both; delivery, restart, feeds |
| `Wallet` | `exg-wallet-service` | extends `Ledger` |
| `Decimal` | `decimal.rs` | width and scale are parameters |
| `RequestPathProofs` | theorems about `RingBuffer`, `Gateway` and `Wal` | see [proofs](#proofs) |
| `ServerProofs`, `PostTradeProofs`, `MatchingProofs` | theorems about the module they are named after | |
| `MatchingStepProofs` | theorems about the steps of `MatchingEngine` | extends `MatchingProofs` |
| `WalletClearingProofs` | theorems about `Wallet` and `Clearing` | the two services over `Ledger` |
| `LedgerProofs` | lemmas: the types of a ledger, its sums, its keys | used by the two modules of proofs above it |
| `CollectionLaws` | lemmas: folds, flattened sequences, finite sums | used by the proofs above |
| `MC*` | small instances | constants, and for `MCMatching` three menus of commands |

**RingBuffer.** `head` and `tail` are the shared atomics; `hdr` and `body` the two
parts of a slot; `ppc`, `pTail`, `batch` and `count` the producer's program counter
and locals, `cpc` and its companions the consumer's. `PushCheck` is the pair of
loads and the comparison of try_push, `WriteHeader` and `WritePayload` the two
copies, `Publish` the release store; `PopCheck`, `ReadHeader`, `ReadPayload` and
`Pop` are their counterparts. Publication is release/acquire on both cursors, so
a side that sees the other's cursor sees the writes before it: plain interleaving
is what the memory order gives. `published` and `delivered` are histories.

**MatchingEngine.** `engine` is the struct, `out` the events of the last
command. A handler is an operator from an engine to the engine it leaves and the
events it returns. Order ids are drawn fresh (the gateway's snowflake), time is
the command counter. `owed` is a history: what each order was accepted for and
has not yet been executed. Prices and quantities are naturals; `MaxPrice` stands
for Decimal128::MAX.

**Replay.** `replica` is the engine that a boot at this moment would rebuild:
the fold of `ApplyEvent` over all events so far, or over those since the last
`TakeSnapshot`. Comparing it with the live engine after every command compares it
for every prefix of the log that ends with a command. `inPlace` and `shuffled`
remember the orders that two known divergences are about.

**Server.** `status` is where each request's handler stands or how it was
answered; `clientIds` the Postgres table, which survives crashes; `phase` the
step of `ServerHandle::shutdown` or the way the process ended; `mpc` the place in
the matching loop, with the look at the ring (`SeeEmpty`) and the load of the flag
(`ExitThread`, `KeepSpinning`) as separate steps, as in the code. `file` is the
log, `durable` the number of records that an fsync covers, `base` the records
found at boot. `AppendEvent` is all of `WalWriter::append`, with a rotation that may
come first. `Crash` keeps any prefix of the log not shorter than `durable` and perhaps
a torn record behind it; `Boot` cuts the torn record off.

**Gateway.** `step` is where a handler stands: it arrives with a request, takes the
limiter's lock (`ChargeBuckets`, with the clock it read before), loads and swaps
the generator's state (`LoadState`, `SwapState`), and inserts or selects a user. `Charge`
consumes from every bucket of the request whatever the others answer, as the code
does. `Tick`, `StepBack` and `Restart` are the environment; a restart forgets
generator, buckets and tokens in flight, not the users.

**Wal.** A segment holds its records, how many of them left the BufWriter (`written`)
and how many an fsync covered (`synced`), and what follows them (`tail`: nothing, a
record cut short, one whose CRC fails). `Kill` loses the buffer, `PowerFailure` also what
was not synced. `Open` is open() with recover_state over all segments: it truncates,
drops, numbers on, or refuses. `ReadFrom` is the reader's own scan. A save of a snapshot is
`BeginSave`, `RenameSnapshot`, `SyncDirectory` and `CleanUp`, with faults in between.

**PostTrade.** `post` is the struct, its maps being functions on the users that have an
entry; `log` the events in the order the thread appends them: the engine's first, then
the facts. Each of `Trade`, `UpdateMark`, `ComputeFunding` and `AdminCredit` is one
command of the matching loop: the engine events it stands for, all of `consume` over them,
and the append. `ComputeFunding` tries every order of the positions, as the map promises
none. `Reboot` keeps a prefix of the log of any length, so it may cut a command in two,
and folds `ApplyEvent` over it. Idempotency keys are tuples of a kind, a number and a
user; `SettleCapped` uses its key up even when it moves nothing, as the code does.

**Ledger** and **Clearing.** An operation of the ledger returns the ledger it leaves and
an error. A call of the clearing service is a chain of position changes and ledger
operations that stops at the first error and keeps what was done before. `astray`
remembers the users whose step was refused or skipped: for all others the two books,
positions and wallets, have to agree. `halted` is a failed `expect`.

**ReadModels.** The engine is reduced to what it writes and what it leaves open: any orders of
the other side may be swept, in the quantities the matcher takes; what becomes of a taker's rest
(rests, canceled, dropped) and of an amendment (replaced, replaced and refused, in place, refused)
is decided as the handlers do, from order type, time in force, price and quantity. `position` is how
far the order service has read; `DeliverAgain` hands it an event a second time, `Restart` takes it
back to a snapshot, after which events come again and commands do not. Two histories say what no
reader of the log can know: `dropped` are the orders the engine gave up without an event,
`astray` those of which the view was told something that is not so.

**Wallet.** A crediting worker is three steps: it takes a confirmed deposit, updates the ledger,
marks the deposit; it may die between them and another may have taken the same deposit.
The scanner reports counts that rise and fall, and reorgs, at any time. An address is the
sequence of digits the code formats, with no separator between user and index.

**Decimal.** One call at a time; the long division is a machine with one step per bit.
The code is the instance of 64-bit half words, base 10 and 18 digits.

## Runs

| Run | Instance | What it shows |
|---|---|---|
| `ring_buffer` | 2 slots, cursors modulo 4, 6 messages, batches of 1 and 3 | no slot is used from both sides, no message is torn, the ring implements `BoundedFifo`, every message is delivered |
| `matching` | 2 users, 4 orders; 8 plain orders and 4 amendments in 6 commands; or stops, take-profits, a trailing stop and an iceberg under 3 mark prices in 5; or icebergs, good till a date and fill-or-kill among them, and 4 amendments in 5 | the book's copies agree, the book is uncrossed, quantity is conserved, priority and places are kept, times in force are honoured, no triggered order stays behind |
| `replay` | 3 orders in 5 commands, triggers, amendments, expiries, 1 snapshot | if replay succeeds, resting orders, priorities, stops, peaks, prices and expiries are those of the live engine |
| `server` | a client's request and its retry, an operator's request, 1 ring slot, commands with 0 or 2 events, flush every 3 records, 2 boots | one effect per clientOrderId, log follows queue and a graceful shutdown leaves all of it on disk, flushed records stay, torn record only at the end, queued commands are processed, shutdown ends |
| `settlement` | 3 users, 3 sweeps that open, average, reduce, flip and trade with oneself, 2 rates, 2 credits, 5 commands, 1 reboot at any point of the log | the ledger's own checks never fail, a boot rebuilds positions, balances, journal and counters, no settlement is swallowed by a used key, positions are the net of fills, the journal explains balances |
| `wal` | payloads 2, 24 and 30 in segments of 40, flush every 2, 4 records, 2 faults, 2 snapshots | flushed records survive rotations, kills and power failures, open() refuses only a log that lost data, reads find every record, the newest snapshot is the one to use |
| `clearing` | 3 users with a purse of 7, leverage 2 to 5, 3 prices, 4 calls after an opening trade | no money appears or vanishes, keys book once, margins agree between the books, the journal tells every change, ADL follows the ranking |
| `read_models` | 3 of 5 orders, market, post-only, fill-or-kill and immediate ones among them, 4 amendments; 6 or 7 events with a cancel-all, an amendment or a refused request, or 6 with a restart; or 6 feeds of trades, levels and prices | the view shows the engine's open orders and those it dropped silently, no others; bars, ticker and depth account for what was fed |
| `wallet` | users 1 and 11, 2 transfers of one transaction, 2 workers, 3 reports, 2 kinds of withdrawal | a deposit is paid once, after its confirmations, to a holder of its address; a withdrawal is sent once and reviewed |
| `gateway` | 2 handlers, 2 ids per millisecond, bucket of 2, a clock that ticks and is set back; 5 requests, or 3 and a restart | ids increase within a boot, no bucket admits more than capacity and refill |
| `decimal` | 8-bit words, base 3, 2 digits of fraction: every pair of operands, every value's text | results exact, truncated towards zero, refused exactly when they do not fit; texts read back |
| `replay_fails` | as `replay`, no snapshot | a violation, see [findings](#findings) |

### Why the bounds are enough to be interesting

* `ring_buffer`: with 2 slots and cursors modulo 4, six pushes go around the
  slots three times and wrap the cursors; the batch of three is longer than
  the ring, so it stops half-way. The proofs cover every size.
* `matching`: four orders give two levels, two orders in one level, a taker that
  sweeps both levels and rests, and a command against each of them; or two triggered
  orders and the two orders they trade with; or two icebergs that eat into each other, and
  an amendment of either. The mark moves up and down, so a
  trailing stop first follows and then triggers.
* `replay`: three orders are a taker and the two makers it sweeps, or a trigger,
  the order it waits for and one more.
* `server`: the ring of one slot makes the second command find it full; two events
  per command and a flush at the third record put a flush between the events
  of one command; two boots give a crash, a recovery and a second run.
* `settlement`: five commands are a credit, a trade, a mark price and a funding tick that
  moves money, and after the reboot a tick whose keys could collide. Credits of 1 and 3
  make some losses and payments covered, some capped, some impossible.
* `wal`: a record of 30 fills a segment by itself and one of 2 shares it, so a rotation
  comes at every place relative to a flush; the second fault hits a log that
  the first one damaged and open() repaired.
* `clearing`: at leverage 4 and 5 the prices 1, 2 and 6 ruin either side; the purse is
  too small for the insurance fund to be paid out of, so ADL happens, with two
  counterparties to rank.
* `read_models`: a market stop over two makers, with depth for all, some or none of it; a
  fill-or-kill stop that is rejected; amendments that sweep, that the match refuses (post-only), that
  reduce to one and to nothing; requests of either user. A history of one completed order (so
  eviction happens at the second), trades on both sides of a boundary of either bar width.
* `wallet`: ten strangers lie between index 1 and index 11, so that users 1 and 11 may get
  the same address; three reports let a count rise, fall and rise.
* `gateway`: a tick refills half a request, so that fractions add up; two ids exhaust a
  millisecond.
* `decimal`: every pair of the narrow width, so every carry, sign and overflow.

Deadlock is not checked except for `decimal`: the bounds on orders, commands, messages
and boots end every run of a model, and a stopped server really stops. That nobody
waits for ever is stated as liveness (`EveryMessageDelivered`, `AckedIsProcessed`,
`ShutdownTerminates`).

Every property is paired with a mutant of the code, kept in the module beside the
definition it replaces and marked as such, under which TLC finds the property
violated.

## Fairness

* `RingBuffer`: weak fairness of the producer's steps once it is inside a push and of
  the consumer's steps, and strong fairness of the pop proper, because a
  consumer may choose to peek for a while. Nothing obliges the producer to start.
* `Server`: weak fairness of the matching thread (it owns a core and spins), of every
  handler that has arrived (its task is scheduled; its query is answered or
  fails), and of `shutdown()` (it awaits and joins). Nothing makes a client send, an
  operator start or stop the server, or the server crash.

The other modules have no liveness: a command or a call is one step or a few that
their caller need not finish, and nothing in the code obliges the caller.

## Proofs

All theorems hold for every value of the constants that satisfies the module's named
assumption.

`RequestPathProofs`, about the ring buffer (`SlotsAssumption`: the slot count divides the cursor range and is
smaller than it, powers of two in the code with 2^64 for the range;
`MessagesAssumption`: the shape of the constants):

* `TypeCorrect`: the type invariant;
* `SlotRaceFreedom`: producer and consumer are never inside the same slot;
* `MessagesWhole`: what a pop or a peek returns is one message, whole;
* `RingBufferIsFifo`: `RingBuffer` implements `BoundedFifo`.

The safety properties are not inductive, because after a wrap-around the cursors
alone say nothing about how many messages are in the ring. The inductive invariant ties
each cursor to the length of a history modulo the range (tail to `published`, head to
`delivered`), bounds the difference of those lengths by the slot count, and says that
each slot between them holds its message. Lemmas on remainders show that the wrapped
subtraction gives that difference and that positions less than a ring apart use
distinct slots; then a slot under writing is not one that is being read.

`ServerProofs` (`ServerAssumption`: sizes are positive, operators' requests carry no
clientOrderId):

* `TypeCorrect`: the type invariant, the bounds of the ring and of the batch in it;
* `ClientIdTakenOnce`: at most one request of a clientOrderId passes the INSERT, over any
  number of crashes and boots;
* `TornTailCut`: a record cut short is only ever the last one of a log nobody has
  open;
* `FlushedForGood`: records that an fsync covered stay a prefix of the log;
* `NothingPushedAfterSignal`: once the flag is up the ring only shrinks.

The invariant `Inv` has one part per place a command can be in. `LogInv`: while the
process runs no record of the log is torn, and a process that ended leaves at most the
last one torn, which is why `Boot` may append after cutting one record. `PendingInv`: what
waits to be appended belongs to a command that was popped. `GateInv`: a command found in
the ring, among the popped or in the log has a request that passed the gate, its id is
in the table, and no second request of that id passed; without the places behind the
handler the property would not survive a crash, which forgets the handlers, the ring and
the batch but neither the table nor the log. `StopInv`: when the thread may see the flag,
no handler is running. Each theorem follows from `Inv`, two of them as properties of a
step taken from it.

`RequestPathProofs`, about the gateway (`GatewayAssumption`: numbers are naturals):

* `IdsAlwaysIncrease`: the ids of a boot strictly increase in the order of the
  successful compare-and-swaps. The generator's state is the last id issued and no
  id lies above it (`GeneratorInv`). A handler whose swap succeeds has read that very
  state, and `NextId` goes up from it whatever the clock said.
* `AdmissionAlwaysBounded`: what a bucket has admitted costs no more than its capacity and
  the refill of the time since its first use. The invariant (`Paid`) adds what is left in
  the bucket to the left side and counts time up to the last refill only. It needs
  `TimesPassed`: no handler holds a time the clock never showed. Without it a bucket could be
  refilled from the future.

`RequestPathProofs`, about the log (`WalAssumption`: a segment, the flush interval and the number of
snapshots kept are positive, the other numbers naturals):

* `RecordsKept`: `FlushedRecordsKept`, a log that opens is numbered without a gap up to
  `next_sequence` and holds every record a flush returned for, over any number of rotations,
  kills, power failures and boots;
* `RefusedOverLoss`: `RefusedOnlyOverLoss`, `open()` refuses only data that is gone;
* `BootReadsAll`: `BootReadsTheWholeLog`, the reader's own scan, from any start, delivers what the
  writer's scan found, and the newest snapshot is no older than one whose save returned.

None of the three is inductive: they speak of a log just opened, and it is the fault before that
which decides. `WalInv` says what holds in every phase. `Tight`: all files but the last are whole
on the platter, sequences run on from file to file, and what was promised ends within what the last
file has synced; so whatever a fault takes is at the end of the last file, where `recover_state`
cuts it. It is what rotation after a flush gives, and what an `open()` that begins a new file behind an
unsynced one takes away (`loose`). `Behind`, loose or not: the records of a file lie below the
name of every later one, which is why the reader may begin with the last file named at or below its start.
`IsOpen`: a log that is open is numbered up to `next` in what the page cache holds and the
buffer adds. Of the snapshots, one whose sequence is at least `saved` is both listed and in the synced
directory, through renames, clean-ups and faults in between. What of the files a fault leaves, and
what a read delivers, are folds; `CollectionLaws` turns both into a sequence of intermediate values.

`WalletClearingProofs`, about the wallet service (`WalletAssumption`: amounts are positive):

* `DepositsAlwaysPaidOnce`: `DepositsPaidOnce` for any number of workers that overlap and
  die. What a worker has read may be out of date. `WorkerInv` says what it may still
  rely on: its deposit was confirmed once (`Due`), so it never is Pending again, and its
  user and amount never change. `LedgerInv` says that the ledger's used keys are exactly those
  of its entries, each of one entry; this is where amounts must be positive, as a
  deposit of nothing would use a key and leave no entry. `PaidInv` ties every entry to its
  deposit, `AddressInv` a deposit's user to a holder of the address even when two users
  have the same one.
* `WithdrawalsAlwaysReviewed`: a withdrawal that passed its first state without a review is
  below the threshold, and it was sent exactly if it is Processing or later (`Fine`).

`WalletClearingProofs`, about the clearing service (`ClearingAssumption`: the traders are
finitely many and SYSTEM is none of them; sizes, prices, leverages and the purse are positive,
fees are not negative, funding rates and settlements any integers):

* `BookedOnce`: `KeysBookedOnce`. What a call books is under its key or that key with one
  word more (`Family`), and families of different keys share nothing, because the first part of a
  key says how long it is. So the entries of a fresh key are fresh, whatever was booked before.
* `MoneyAccounted`: `MoneyAccountedFor`. Every operation of the ledger, in each of its branches,
  moves money between two places or notes what came from outside (`Passed`), and an operation that
  is refused leaves the ledger as it was. The profit or loss that `close_position_settled` notes
  against the escrow and never takes from it is what `Owed` leaves out.
* `MarginsBacked`: `MarginBacked`. Each step of a call moves the margin of one user by what the
  position's margin changes by (`SettledKeeps`), and the user goes astray where it does not. A
  position closed in full releases exactly the margin it has, although the share of a part is
  rounded.
* `JournalTells`: `JournalTellsAll`. The invariant says of a call in progress that what the balances
  have more than the journal tells (`Untold`) has not changed since the call began. Only the funding of
  an overdrawn user changes it, and only that user's: each user pays once per period
  (`DuesInOrder`), so whether one was overdrawn can be read off the ledger before the call.
* `DeleveragesByRank`: `AdlByRank`. After any number of turns (`Ranked`) whoever lost something has
  only users behind who lost everything, and without an error what is left to cover is the deficit less
  the sizes taken at the mark price; as long as that is a unit or more, all who had their turn have nothing
  left. A refused reduction ends the call with its position already moved, so the last part
  of the property is about calls that hit nobody who is astray afterwards.

The inductive invariant (`IInv`) is that the ledger is `Sound` (typed, balanced, with distinct keys of
families already used), that the positions are typed, and that the one backs the other
(`Backed`). A call that trades, funds or deleverages is a chain of such steps, and
`CallFrom` and `FundingFrom` are what holds after any number of them; induction over the
chain gives the fold. Any call may be handed in any number of times, with `MaxCalls` of any value.

`ServerProofs` also has

* `LogHoldsWhatWasPopped`: `LogFollowsQueue`, the log of a boot is what left the ring in that
  boot, in its order and without a gap. `WrittenInv` says that the log and what waits in
  `pending` make up the events of all that was popped, and that a last flush that
  succeeded covers all of it; `PushedOnceInv` that no command is pushed twice or changes the
  number of its events after it was popped.

`CollectionLaws` has what the other proofs need about data of any size: that a fold is the
last of a sequence of intermediate values, each obtained from the one before; what a
flattened sequence holds, how it grows and what comes before what in it; how a sum over a
finite set changes with one element, and that the sums over the parts of a set make up the
sum over the whole. The provers cannot instantiate the library's induction theorems, which take an
operator; induction is had from the well-foundedness of the natural numbers, which the
library states for a relation, a set. The operator that is folded is a constant of the
module, and a proof about a definition that folds says, for example,
`Fill == INSTANCE CollectionLaws WITH op <- FillAgainst`.

`PostTradeProofs` (`PostTradeAssumption`: the users are finitely many and SYSTEM is none of them;
amounts, quantities and prices are positive). The types of a ledger, of its journal and accounts, and
how its sums change with one balance or one entry are in `LedgerProofs`. The first half here is about the operations: for
every operation that post-trade processing uses, which balances it moves and by how much,
what it writes, which key it uses, and that `Books` holds after it if it did before: nobody is
overdrawn, the money of users and SYSTEM is what came from outside, and the journal explains
every balance. The sums range over accounts that come into being with their first use. On it
rest:

* `LedgerAlwaysVerifies`, `JournalAlwaysExplains`: the ledger's own checks never fail, and the
  journal adds up to the balances, although a settlement may be capped and so move less than
  was asked for;
* `ReplayAlwaysEqualsLive`: what a boot rebuilds from the log is what the matching thread had;
* `PositionsAlwaysProjectFills`: a position is the net of its user's fills in the log;
* `AlwaysSettledInFull`: no settlement of the live processor meets a key already used.

The invariant has one part per pair of copies: the ledger's balances and its journal
(`Books`), the processor and the fold of `ApplyEvent` over its log (`Follows`, by a lemma per
event that the live handler and `ApplyEvent` agree), positions and fills. Replay uses
fewer keys up than the live processor does and opens fewer empty accounts, so the two ledgers
are compared by journal, SYSTEM and what each user has (`Agrees`). Keys carry numbers, and the invariant
says of each kind that the keys used have numbers already given out (`GivenOut`); therefore
the next one is fresh, also after a boot from any prefix of the log.

`MatchingProofs` (`EngineAssumption`: sides, types and numbers have the form the gateway's
conversion gives them; `PriceAssumption`: `None` is no price, prices have a largest value):

* `BookAlwaysConsistent`, `BookAlwaysUncrossed`, `QuantityAlwaysConserved`: the three invariants
  of the run `matching`, for any number of orders, users, levels and commands.

None of the three invariants is inductive alone: that a match finds every maker within the
limit depends on the copies agreeing (levels are found by price, makers through the
level), and that quantities are conserved depends on ids being fresh and on no order
being both a stop and on the book. The inductive invariant `EngineOK` joins them: the engine is
typed; the book is good (`GoodBook`: queues, user lists and orders name the same ids once,
totals are sums), uncrossed, and owes what it shows and hides; the stops are conditional orders,
each once, none on the book, owing what they ask for; ids not yet given out are nowhere. TLC
checked it on the run `matching` first. The proof goes from the bottom up: one lemma per
operation of the book; one maker's turn; the whole match, by induction over the makers,
which takes from them what it gives the taker and leaves no maker within the limit when the taker
has a rest; one lemma per handler.

`MatchingStepProofs` walks the same road once more, on that invariant, for the four action
properties of the run:

* `NoStopLeftBehind`: `AllTriggered`, although the loop removes elements of the vector
  it walks. Among all answers only that of a mark price begins with `Mark`, and `ScanOne`,
  turn by turn, leaves no chosen stop behind the place it has reached.
* `AlwaysInPriceTimeOrder`: `PriceTimePriority`. The makers of a sweep come in the order of
  `HasPriority` (`MakersInTurn`: best level first, each queue from its front), and the sweep
  goes on to the next only after it has taken the last off the book (`TurnsKept`). One command
  may match many times, when a mark price triggers several stops; each match sees the book the one
  before it left, so the order must be shown to survive the matches in between.
* `PlaceAlwaysKept`: `PlaceKept`. Every operation of the book keeps the relative order of those
  that stay in a queue (`KeepsPlaces`), and a new arrival is behind all of them. An order that
  is taken off and put back loses its place, so every handler that does that
  is followed to the event that names it.
* `TimeInForceAlwaysHonoured`: `TimeInForceHonoured`. What the events say a taker took is what is
  off its quantity after the match (`TakenIs`). A fill-or-kill order is decided by the cached
  totals of the levels: their sum is the sum of what the makers within the limit show
  (`LevelsHold`), and a sweep that leaves the taker a rest has emptied all of these
  (`SweepTakes`), so the rest is nothing (`FillOrKill`).

Only model-checked, and why:

* liveness, which needs fairness and is beyond the proof system, as is ENABLED;
* `Replay`, `ReadModels` and `Decimal`: their invariants follow scans over data
  (`Decimal` bit by bit, with the overflow of each step), and no
  inductive invariant for them has been worked out yet.

`TypeCorrect` and `NothingPushedAfterSignal` are proved and have no run: they say too little
to deserve one.

## Findings

`replay_fails`: all legs of a sweep carry the taker's final remainder. Replay gives a
resting taker that remainder with the first leg and refuses the second as an overfill
(`replay.rs:144`), so with sells of 1 and 2 and a buy of 4 the next boot aborts.
`docs/architecture.md:37` says that all state can be reconstructed from the log.

## Divergences

Other places where code and words differ, or where the models showed behaviour a
maintainer should know of. None is the subject of a run; where a property
stands next to one, it says what holds in spite of it.

*Server.*
* The thread sees the ring empty, then loads the flag (`exg-server/src/lib.rs:485`). A push,
  its 200 answer, both server stops and the store of the flag may fall in between, and
  the thread exits with a command in the ring; the comment at line 479 says it "will not exit
  until every such command has been popped and WAL-appended".
* Nothing reads `flush_interval_us` (`writer.rs:118`): the records of a server that falls idle
  below `flush_every_n` stay unflushed. The stage 0 design, line 59, promises an fsync
  when either limit is reached.

*Matching engine and replay.*
* A cancel by the wrong user removes the order and puts it back at the end of its level
  (`engine.rs:502`; `architecture.md:75` promises FIFO). `PlaceKept` exempts it.
* A triggered market order that finds nothing to trade with disappears without an event
  (`engine.rs:817`), so a reboot brings it back as a stop.
* An amendment in place is logged as a second OrderAccepted, which replay refuses. That of
  an iceberg announces the new visible quantity; what it hides is still owed (`engine.rs:674`).
* Fill-or-kill compares the depth with what an iceberg shows (`matcher.rs:60`), and the match
  executes that slice only; the next slice is shown and canceled (`engine.rs:431`,
  `engine.rs:456`, where a comment says "Should not reach here"; `architecture.md:103` promises
  "fill entirely or reject entirely"). `TimeInForceHonoured` exempts icebergs.
* A triggered stop-limit or take-profit-limit rests whatever its time in force
  (`engine.rs:789`), and so does what is left of an amended order; `TimeInForceHonoured`
  is about new orders.
* An engine snapshot keeps orders in the order of a hash map (`engine.rs:1053`), so a restore
  loses time priority inside a level; and the set of seen ids is not part of it, so a stop
  that is triggered after a snapshot and filled in two legs fails the replay with
  UnknownOrder. Nothing but tests takes engine snapshots.

*Write-ahead log.*
* open() over a last file that is full begins a new one without syncing the old one. A later
  flush() then answers for records it never synced; after a power failure the log is
  shorter, or the boot refuses it (`loose` in `Wal`).
* `save_snapshot` does not flush the log first, and has no caller outside tests.

*Ledger and clearing.*
* `architecture.md:389` calls failed operations retryable. The key of a call that ends with
  AccountNotFound stays used, so its retry is a success that did nothing.
* `process_trade` handed in again after a failure applies to the positions again; the ledger's
  keys protect the money only. A side that fails leaves the other side booked.
* The liquidation key is the same for every liquidation of a user in a symbol: the
  ledger skips the second. If the insurance fund is short the position is gone and
  its margin stays in the wallet. A position of margin 0 is removed and not settled.
* A PnL settled against the escrow is journaled and not taken from the escrow's balance.
  An overdrawn user who pays funding has the debt made up for without an entry.
* `liquidate` panics if a surplus exceeds the escrow.

*Wallet.*
* Addresses are user number and index run together: user 1 with index 11 and user 11
  with index 1 share one, and the later owner gets the earlier one's deposits.
  `DepositsPaidOnce` therefore asks for *a* holder of the address.
* A deposit Confirmed once is credited although its count has fallen since, and a
  reorganisation between the ledger's update and the mark leaves the money paid.

*Read models.*
* The engine answers a refused cancel or amendment with OrderRejected of the live order's id: to
  a stranger, to the owner who amends a waiting stop (`engine.rs:558`) or reduces an order to
  nothing (`engine.rs:666`). The order service retires that order, and for a stranger may leave
  an entry in a list and drops the stranger's mapping of the same client id.
* A triggered stop that the match rejects, or what a triggered market order has left, is gone
  without an event (`engine.rs:817`). The order service shows it as active until a cancel-all,
  or a request for it that the engine refuses, takes it off.
* Every leg of a sweep says that none is left, so a taker of several makers is completed
  at its first fill. An amendment (Canceled, then Accepted) brings the order back as a
  minimal record of a Buy with quantity 0.
* `cancel_user_symbol_orders` finishes orders before the engine has.
* The 24-hour ticker forgets old trades only when a new one comes.

*Gateway and identifiers.*
* Buckets are never evicted. A clientOrderId is used up when the body's conversion fails
  after the INSERT. Ids are drawn before the push, so ids in the ring need not
  increase. A token that expired is valid again if the clock is set back.
* After a restart with a clock not past the last millisecond used, ids may repeat;
  `ids.rs:143` claims uniqueness without that restriction.

*Decimal.*
* The text of the smallest value does not parse back; a sign inside the fraction is
  accepted (`1.-5` reads as 0.5). The carry at the middle of the wide product and the
  overflow branch of the division cannot be reached by i128 operands. `+`, `-`, `neg` and `abs`
  panic in debug builds and wrap in release builds.

## Abstractions

* Message bytes are one value per part of a slot; sizes and the MessageTooLarge check
  are left out: no writer of the ring sends a message longer than a slot.
* Fees, symbols (one per engine), client order ids and reduce_only are carried by
  the engine and never read by it: left out. Funding keeps the premium, not its clamp.
* `BookUncrossed` exempts icebergs: a refilled slice is put on the book without being
  matched. The gateway passes no visible quantity and no trailing delta on
  (`conversion.rs:146`), so neither kind reaches the engine over HTTP; `MCReplay` has no
  icebergs.
* The expiry sweep (`check_expirations`) has no caller in the server; it is an action
  of `MatchingEngine` because it is part of the engine's interface.
* actix's graceful stop is external: a server whose stop was called accepts nothing
  (`Accepts`), and stop(true) resolves when no handler runs (`Idle`). A handler
  that exceeds the stop's timeout is dropped at its await, which is `AbandonInsert`.
* `Boot` in `Server` assumes that replay succeeds; `Replay` is about when it does not. The
  log of `Server` is a sequence; segments, garbled records and refused boots are in `Wal`.
* The disk of `Wal`: a new file's directory entry is durable with its first sync, no call
  fails, and a failed write leaves nothing in the middle of a file.
* Decimals are integers everywhere but in `Decimal`: an average entry price is rounded down
  to a unit, as Decimal128 rounds it to its last digit. Rates and ratios are in hundredths.
* `ReplayEqualsLive` leaves out the funding period: a tick that moves no money advances it
  live and leaves no fact, so a boot restores a smaller number. `SettledInFull` shows that
  no key is used twice for all that. The set of used keys and empty accounts differ
  likewise.
* A crash between a fill and its RealizedPnl leaves the fill in the log and the money
  where it was; the properties say that the books balance, not that the fill is settled.
* A user has one position in `Clearing` (one symbol), and market data has one symbol.
* Password hashing, signing of tokens and of transactions are abstracted to whether they
  succeed.

## Not modelled

* The admin service: registries and counters, each method one assignment or one sum.
* Configuration, protocol types, the WAL dump tool: validation of constants, message
  definitions, a read-only tool. Web front ends and deployment: no state of the core.
* Code with no caller but its own tests: the in-memory `AuthService`, `RateLimiter::check`,
  `validate_timestamp`, `ApiKeyAuth`, the websocket `SubscriptionManager`, `hot_wallet.rs`,
  pre-trade checks and impact prices of the risk engine, `settle_funding_checked`.
* Conversion of request bodies field by field, saturating forms and serde wrappers of
  Decimal128.
* I/O errors in a running process, apart from the flush before the thread's exit.

## What is left

In the order of what they would add:

1. `RestingRebuilt` and `WaitingRebuilt` of `Replay`, by a lemma per event that the replica
   follows the live engine.
2. A proof that the log of `Server` is what `Wal` implements. `WalInv` is the invariant it would
   start from; the two differ in the garbled records and the refused boots, which `Server` does not have.
3. A thread that dies of an I/O error while handlers still push.
