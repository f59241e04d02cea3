# TLA+ specifications of the event-driven trading system

This directory holds TLA+ models of the trading engine in `src/`, the TLC
configurations that check them on small instances, and theorems about them
checked by TLAPS. The models are translated from the code; line numbers below
and in `PROJECT.json` refer to it.

    tlc -config MCOrderBook.cfg MCOrderBook.tla      # one run
    tlapm OrderBook_proofs.tla                       # the proofs of one module

## 1. The system

Events (new order, cancel, modify, market update, trade) are replayed from a
file or a vector, pass a strategy that may drop them, reach the matching engine
of their symbol, and change that symbol's order book; trades and statistics are
published to a dashboard and can be written to PostgreSQL.

    ReplayController -> StrategyEngine -> MatchingEngine -> OrderBook
                                             |                 |
                                     PostgresWriter     SnapshotPublisher -> DashboardServer -> browser

| Component | State | Operations | Hard to test | Correct when |
|---|---|---|---|---|
| OrderBook (`engine/orderbook`) | map of orders, a total and a 16-slot FIFO per price level, cached best bid/ask | insert, cancel, modify, reduce | the same orders kept three times; rescans of the best price; full levels; failure half-way through modify | the copies agree after any sequence of calls; refused calls change nothing |
| FlatOrderMap | open-addressing table with tombstones, count | insert, find, erase | tombstones, load limit, capacity not a power of two | it behaves as a finite map with a load limit |
| MatchingEngine (`engine/matching`) | none between events; loop variables and a bounded MatchOutput | process_new_order, process_cancel, process_modify | a snapshot walked while the level changes; termination; give-up paths after partial fills; output full | price-time priority; it returns; every effect is reported |
| SPSCQueue (`engine/queues`) | ring buffer, two atomic indices | enqueue, dequeue, size_approx, empty | two threads, stale loads, full/empty boundary | bounded FIFO without slot races |
| SymbolRouter, StrategyEngine | pipeline per symbol; active strategy, counters | register, process; set_strategy | isolation; unregistered symbols; dropped events | events of one symbol touch only its book; counters add up |
| ReplayController (file, vector) | position, done flag, counters | next, reset, done | end-of-source protocol, reset in the middle | the two implementations agree with the interface |
| ObjectPool, StartupAllocator, StartupValidator | free-list stack; four pools | allocate, release; start; validate | exhaustion, any order of releases | a slot is never handed out twice |
| AllocationGuard | global flag and counter | construct, destruct, operator new | calls between load and increment; stale loads | no allocation while guarded goes uncounted |
| PostgresWriter | command queue, writer thread, connection | begin_run, write_trade, end_run, flush, destructor | flush/shutdown sentinels, lost connection | order kept; flush returns after what precedes it |
| SnapshotPublisher | one snapshot, one mutex | update_*, push_trade, get_snapshot | sections of different events in one snapshot | bounded trade list; never ahead of the engine |
| DashboardServer, dashboard main | running flag, event loop, broadcast and replay threads | run, stop, replay loop | stop before run, failed bind, deferred work, a handler that needs a lock its thread holds, an engine that hangs | run() waits for a stop, a stop ends the program, the last snapshot is right and shown |
| WsServer (built by no target) | client list, listening socket | start, stop, broadcast, handshake | descriptors closed more than once | each descriptor closed once |
| LatencyHistogram, PerformanceMetrics, BenchmarkRunner | buckets, total, maximum | record, percentile, run | percentile racing record; warm-up | percentiles bound the samples |
| TimestampProvider, ThreadAffinityManager | calibration | now; pin | platform dependent | outside the reach of a model |
| Event, PoolTypes | - | encode/decode | - | data layout only |
| Frontend, sha1/base64, dataset generator, scripts | - | - | socket reconnect | not modelled |

`PROJECT.json` lists the same components with their files, and under "hazards"
every place found so far where a mistake would escape tests, with the
properties that would catch it.

## 2. The modules

| Module | What it is |
|---|---|
| `OrderBook` | one book and its four operations |
| `MatchingEngine` | extends `OrderBook`; one event at a time is matched against the book |
| `PriceTimePriority` | abstract market: what `MatchingEngine` promises |
| `SPSCQueue` | the ring buffer at the granularity of memory accesses |
| `BoundedFIFO` | abstract queue: what `SPSCQueue` promises |
| `FlatOrderMap` | the open-addressing table under the book |
| `BoundedMap` | abstract map: what `FlatOrderMap` promises and `OrderBook` takes it for |
| `PostgresWriter` | callers, command queue, writer thread and a database that may refuse |
| `EngineMemory` | object pools, their start-up and validation, the figures published of them, the allocation guard |
| `Replay` | replay sources, strategy gate and the engine's answers, as operators on records |
| `Dashboard` | extends `Replay`; the dashboard program: replay thread, publisher, server, broadcast thread, signals |
| `LatencyHistogram` | the lock-free histogram, one memory access at a time |
| `MCOrderBook`, `MCMatching`, `MCEngineMemory`, `MCDashboard` | instances for TLC |
| `*_proofs` | the theorems about the module of that name (all but the abstract ones and `Replay`) |

Some definitions are preceded by a comment that begins with "Mutant": a
plausible mistake in the definition that follows. No specification uses them;
`PROJECT.json` says which property each one breaks when it takes the place of
the real definition.

### OrderBook

`book` is the object: `orders` is `orders_` seen as a finite map (`Absent` for
ids it does not hold), `level[side][index]` is a `PriceLevel` with its
`total_quantity` and the first `count` entries of `order_ids`, and `best` is
`best_bid_` / `best_ask_` with 0 and MAX_PRICE + 1 for "none". `result` is the
code the last call returned. Timestamps and the symbol id, which no operation
looks at, are left out.

Each operation is an operator from book to book, so that the matching engine
can chain several in one handler, and an action that applies it:

* `insert` = `Insert`: range check, duplicate check, the map's own refusal
  (`MapRefuses`: reserved key or load limit), then `Place`. `PriceLevel::push`
  may refuse (`Push` leaves the FIFO alone); `insert` does not look at the result.
* `cancel` = `Cancel` = `TakeOut`: total, FIFO, map, then the rescan `NextBest` if the level's
  total is 0 and it was the best. The two scanning loops are the maximum and
  the minimum of the prices they would stop at.
* `modify` = `Modify`: `TakeOut`, then `Insert` of the updated order.
* `reduce` = `Reduce`: `TakeOut` or `Lessen`.

Totals are taken modulo `Word` (2^64). `BookAssumption` names what the
constructor has to provide; its last part (every price has a level) is false in
the code for `tick_shift >= 7`.

### MatchingEngine

`process_new_order` is sequential, but whether it ends and what it has done
when it gives up is decided per iteration, so one iteration is one action:
`NewOrder` (entry), `TakeSnapshot` (the loop condition holds: best price and
copy of its FIFO), `FillResting` (one pass of the inner loop), `PreventSelfTrade`
(the early return), `LevelDone` (end of the inner loop), `InsertRemainder` (loop condition
false: insert what is left, return). `ProcessCancel` and `ProcessModify` are the
other two handlers. `pc` says where control is; the handler's local variables
are `aggressor`, `remaining`, `matchPrice`, `snap`, `pos`, and `out` is the MatchOutput.
`Emit` is `MatchOutput::push`, which drops an event that finds the array full.
The prefetch of the next entry has no effect on state and is left out. Events
are records of type, price and quantity; order ids of trades are always the
aggressor's and are left out.

### SPSCQueue

`enqueue` is `LoadHead`, `WriteSlot`, `StoreTail`; `dequeue` is `LoadTail`, `CopySlot`,
`StoreHead`. An acquire load returns any value between the one the thread read
last and the current one. Acquire/release makes everything written before the
loaded value was stored visible, so the slots need no per-thread copies as long
as the threads are never at the same slot, and that is a property
(`SlotsDisjoint`), not an assumption. Sequentially consistent execution is the case in
which every load returns the current value.

### FlatOrderMap

`key` and `value` are the two halves of `table_`, `ret` what the last call
returned. A probing loop is not a sequence of steps, for nothing can come
between them, but the slot at which it stops: `FirstSlot(k, stop, s)` says that `s`
is the first slot on the probe sequence of `k` whose key is in `stop`. `find` and
`erase` stop at an empty slot or the key (`FoundAt`), `insert` also at a tombstone
(`FreeSlots`). `Insert` has the lookup that `OrderBook::insert` and `modify` do before it
as its guard, `Update` is `OrderBook::reduce` writing through the pointer. The
capacity is a power of two, so that `& (cap_ - 1)` is `% Cap`.

### PostgresWriter

A caller's `begin_run`, `write_trade`, `end_run`, `flush` and the destructor each push a
command (`Enqueue`, under the mutex), notify after the unlock (`Notify`), and then
return, poll a flag (`FlushReturns`) or join the writer (`Join`). The writer thread
connects, which may fail (`Connect`), tests its predicate (`Take` or `Sleep`), may wake
for no reason, and works on one command at a time (`Execute`, `Acknowledge`, `Stop`).
`Execute` is all three `exec_` functions: without a connection, or when the statement
fails, the write is only noted in the history variable `lost`. A write is known by the
number of its push; `issued`, `settled`, `lost` and `db` say what became of it.
The database is external: it stores what it does not refuse, in the order in
which it is asked, and the UPDATE of `exec_end_run` has an effect only on a row that is there.
The destructor is called once and with no other call under way, as for every C++ object.

### EngineMemory

`size`, `list`, `top` and `exhausted` are the members of each `ObjectPool`; a pointer is
a triple of pool, generation (how often `start()` has run) and slot. `Allocate`, `Refuse` and
`Release` are the branches of `allocate()` and `release()`, `Start` is
`StartupAllocator::start`, `Validate` is `StartupValidator::validate`, of which only the pool
checks can fail here. `UpdateStartup` and `UpdatePools` are the publisher's two functions
about memory. `OpenReset`, `OpenRun` and `Close` are constructor and destructor of
`AllocationGuard`; `NewLoad` and `NewAdd` the two steps of `operator new` in
another thread. The load is relaxed: `stale` holds the threads that may still read TRUE after
the guard has closed, until they have read FALSE once (`NewMiss`). A call that has loaded the flag under one guard and counts
under the next is marked "earlier", so that the properties can tell the two apart.
The engine thread keeps the contract of the headers: it releases a
pointer once, starts again only with no pointer out, and does not nest guards.

### Replay and Dashboard

A source is a sequence of lines; a line is its first character (of what
class), the number of fields `sscanf` converts, and the event they make: type, time, the
kinds of event the matching engine answers with, and whether it `returns` at all, which after
finding 1 it need not. `Advanced` is `next()` of either
controller, `Done` its `done()`; they differ, as the code does. A strategy is the set of
types it forwards.

The replay thread takes one step per critical section of the publisher: `Fetch` or
`EndLoop` (the loop condition), `UpdateReplay`, `UpdateTimestamp`, `Process` (gate and engine),
`PushTrade` per answer, `UpdateOrderbook`, `UpdateMetrics`. After an event the engine does not
return from the thread stays where it is ("matching"). The order book section stands
for the number of events applied, a trade for its number.

`DashboardServer::run` is `EnterRun`, `GetLoop`, `Listen` (which may fail), `StartBroadcast`,
`LockQueue` and `RunDeferred` while the loop runs, `LoopReturns`, `JoinBroadcast`; main then joins the
replay thread. The broadcast thread is `CheckRunning`, `Copy`, `LockLoop`, `DeferPublish` and
finally `LockLoop`, `DeferClose`. A signal is `Signal` (`g_stop`), `Stop` (the exchange) and
`StopDefers`. The handler runs on the stack of the thread it interrupts, any of those there are:
while `interrupted` names a thread, that thread does nothing (`Free`).
`Defer`, `LockLoop`, `LockQueue` and `LoopReturns` are uWebSockets, modelled from how the server uses it: deferred work
waits in a queue under a `mutex` and runs on the loop's thread in order, the loop returns when neither
the listen socket nor a client is left, work deferred afterwards is never run. `StopDefers` needs
that mutex: if the interrupted thread holds it, the handler waits for ever.
`MaxDeferred` bounds the snapshots that wait in the queue, not the closing.

### LatencyHistogram

`record()` is `CountBucket`, `CountTotal`, `LoadMax` and then `NoLargerMax`, `SwapMax` or
`SwapFails` (a weak compare-and-swap may fail for no reason). `percentile()` is `LoadTotal` and
one `LoadBucket` per bucket. All accesses are relaxed: a read-modify-write acts on the current
value, a load returns any value between the one its thread saw last and the current
one, each location on its own (`maxes` holds what `max_` has been, `seen` what the reader
knows). `Shift` is `1ull << i`. `recorded` is a history, how often each sample has been
counted, and `Measured` the set of those measurements, each as often as it was made. `Join` is the reader joining the threads, which brings it up to date.

### The abstract specifications

`PriceTimePriority` has one queue per side and price and no map, totals, best
prices or snapshots. An incoming order trades with the head of the best queue
while its limit allows, then joins a queue or is rejected. `MatchingEngine`
implements it under the mapping in `Market`: `WaitingIn(book)` looks an entry's
quantity up in the map, `Incoming` gives the aggressor the quantity `remaining`, the
report is `out`. `NewOrder` is Arrive, `FillResting` Trade, `PreventSelfTrade`
StopSelfTrade, `InsertRemainder` Settle, `ProcessCancel` Cancel and `ProcessModify`
Modify; `TakeSnapshot`, `LevelDone` and the skipping of a vanished order are stutters.

`BoundedFIFO` puts and gets. `SPSCQueue` implements it with the ring's contents
from `head` to `tail`; `StoreTail` is Put, `StoreHead` is Get.

`BoundedMap` is a function from the stored keys to values that takes up to
`Limit` keys and refuses reserved ones. `FlatOrderMap` implements it with
the keys that are in the table, each with the value beside it; every call
returns what the abstract one returns.

## 3. The runs

| Run | Instance | Checks | Shows |
|---|---|---|---|
| `order_book` | 3 ids and a reserved one, 3 prices and one out of range, levels of 2, quantities 0-2, symmetry over the ids | `BookTypeOK`, `QueuedOrdersRest`, `TotalsAgree`, `BestPriceExact`, `RefusalLeavesBook`, `QueueOrderKept` | map, FIFOs, totals and best prices agree after any sequence of calls |
| `matching` | 4 ids (2 of one participant, 2 anonymous), 2 prices and one out of range, 3 resting orders, a level and an output hold 3, quantities 1 and 3 | `TypeOK`, `RestingOrdersQueued`, `SnapshotIsQueue`, `FillsAddUp`, `STPCancelReported` | one event is matched correctly, step by step |
| `price_time_priority` | 3 ids, 2 resting orders, all three event types | `RestsUncrossed`, `MatchingCompletes`, `ImplementsPriceTimePriority` | the engine is the abstract market and always returns |
| `spsc_queue` | capacity 4, up to 9 items of 2 values | `TypeOK`, `SlotsDisjoint`, `SizeInRange`, `ImplementsBoundedFIFO` | the ring is a bounded FIFO, and items are consumed |
| `order_map` | 8 slots, 7 keys: two reserved, two that share a slot with one in their way, two that share the last slot | `TypeOK`, `StoredKeysFound`, `ImplementsBoundedMap` | the table is the bounded map, whatever the history of tombstones |
| `persistence` | 2 callers, 3 writes, any number of flushes, a connection and statements that may fail | `TypeOK`, `FlushSettles`, `StoredInOrder`, `DrainedAtStop`, `CallsReturn` | order is kept, flush is a barrier, the destructor drains, every call returns |
| `memory` | 2 pools, a configuration that validates and one with an empty pool, 2 starts, one other thread | `TypeOK`, `SlotsPartitioned`, `ValidatedPoolsServe`, `GuardCountsItsOwn` | no slot is out twice, a validated pool serves, a guard counts what it should |
| `dashboard` | a file of 5 lines with 2 events, one whose event the engine does not return from, a vector of 1 event, a strategy, 1 client, 1 signal | `TypeOK`, `RecentTradesLast`, `SectionsWithinOneEvent`, `FinalSnapshotExact`, `RunBlocksUntilStop`, `StopEndsProgram`, `FinalSnapshotShown` | snapshots are consistent up to one event, the last one is exact and shown, run() waits for a stop, a stop ends the program but for two causes |
| `histogram` | 2 threads, samples 0, 1, 3 and 7, 3 buckets, 4 records, the 50th and 99th percentile | `MaxExact`, `PercentileRanked`, `AnswerNotTooLow` | the maximum is exact, no percentile is answered from too low a bucket, and the rank is exact once the threads are joined |
| `full_level` | a level holds 1 order | `MatchingCompletes` is violated | finding 1 |
| `full_output` | the output holds 1 event | `STPCancelReported` is violated | finding 2 |
| `documented_buckets` | 1 thread, samples 1 and 4 | `AnswerInBucketRange` is violated | finding 3 |

Bounds, and why they are enough:

* Prices 1..3 give a best, a next best and a gap between them, which is what a
  rescan can get wrong; MAX_PRICE + 1 stands for all prices out of range.
* A level of 2 with 3 resting orders can be full and over-full, in either
  order of arrival; removal from the head, the middle (`matching`, level of 3) and the tail occurs.
* Quantities up to 2 give partial and whole fills, one order filled by several and
  several by one; 0 is what modify accepts besides. 1 and 3 (`matching`) let
  one order sweep three.
* Totals stay below `Word` in every instance, so the wrap of the 64-bit total is
  in the model but in no run. It would hide a level whose total wrapped to 0.
* In `matching` a level holds as many orders as the map and an output as many
  events as one handler can emit, because `RestingOrdersQueued` and
  `STPCancelReported` are false of the code otherwise: that is what `full_level`
  and `full_output` show. Likewise in `price_time_priority`.
* `matching` has a map limit of 3 with 4 ids, so that the remainder of an order
  can be refused by a full map, by a duplicate id and by the range.
* Capacity 4 with 9 items wraps the ring twice; each thread may be a whole
  ring behind in what it has read. `MaxItems` stands for the last index before
  the 64-bit wrap.
* `order_map`: of five usable keys four fit under the load limit, so a full table, a chain
  of three with a tombstone at its head, in its middle and at its end, and a chain that wraps round all
  occur. Tombstones are never cleaned up, and the table may hold nothing else.
* `persistence`: with three writes one thread can begin a run and the
  other write to it and end it, while either flushes; each statement may fail. The
  queue is as long as the callers make it.
* `memory`: capacities 2, 1 and 0 give a stack with an order, one without, and
  none. Two starts build pools of two generations; guards that follow each other
  find calls that are late. `MaxExhausted` and `MaxNews` bound counters only.
* `dashboard`: the file has a header, a short line and one of an unknown type among its
  events, the second of which is late and dropped; the first is answered with two trades, where `MaxTrades`
  is 1, and a cancel between them. The strategy forwards one type the engine does not know, which is that of the
  vector. One signal, one client and one deferred snapshot
  at a time suffice for every order of stop, close, publish and disconnect, and for a signal
  on any thread at any statement. The invariants are theorems for any source and strategy; for the two
  liveness properties it matters of a replay only whether it ends.
* `histogram`: samples 0 and 1 share a bucket, 3 and 7 do not; four records let
  a percentile fall on the first, a middle and the last bucket, and two threads can lose
  a compare-and-swap to each other twice. `documented_buckets` needs one sample at the lower
  end of its range.

Fairness. `MatchingEngine!Spec` has weak fairness of the steps of the handler
only: a function that has been entered runs on, no step of it waits for
anything. Nothing makes events arrive. `SPSCQueue!Spec` has weak fairness of the
steps inside a call, and of the consumer's load of `tail` together with that
load seeing the current value: the consumer threads poll, and a released store
becomes visible in finite time. The producer is not obliged to enqueue.
`PostgresWriter!Spec` has weak fairness of the writer's steps and of the
steps that follow a caller's push: threads run, and the database answers. Nobody
has to call anything, and no spurious wake-up is relied on. `Dashboard!Spec` has weak
fairness of the replay thread, the main thread, the broadcast thread and the
signal handler, and of clients leaving. The last is an assumption about the
clients: `DashboardServer::run` closes the listen socket only, so a client that never
leaves keeps the loop, and the program, alive. The event loop's use of its queue (`LockQueue`) has strong
fairness: the broadcast thread takes the same mutex again and again, but sleeps between two calls, and
a mutex that is free again and again is had in the end. Nothing makes a signal arrive.
Fairness does not make the engine return or a handler get a mutex: `Process` leaves the
thread in "matching" for an endless event, and `StopDefers` is not enabled while the interrupted thread holds the mutex. So
`StopEndsProgram` names both, `EngineHangs` and `SelfLocked`: a stop that found the
server running ends the program unless finding 1 keeps the replay thread from being joined (`main.cpp:154`)
or the handler waits for a mutex of its own thread.

Deadlock is checked in every run but these: in `persistence` the writer and its
callers are gone after the destructor; in `dashboard` the program ends, or hangs as above.

### Findings

1. `OrderBook.cpp:30` ignores that `push` refused the id (a 17th order at one
   price). The order counts in the total and in the map but no FIFO names it.
   When the queued orders of the level are gone the level still looks
   populated, and `process_new_order` loops for ever over an empty snapshot
   (`full_level`). `MatchingEngine.hpp:56` promises a resting order; the phase 2
   document (lines 663-664) says such an insertion returns `OrderAlreadyExists`.
2. `MatchingEngine.hpp:41-43` drops the event that finds the output full, so the
   cancel of self-trade prevention (`MatchingEngine.hpp:57`) can be lost after 16
   fills (`full_output`).
3. `LatencyHistogram.hpp:77-84` puts a sample into the bucket of [2^i, 2^(i+1)), lines 88-93 answer with
   the mid-point of [2^(i-1), 2^i), the range lines 10 and 87 give: for a sample 4 the answer is 2, for 1000 it is 383
   where `test_benchmark.cpp:24` expects the bucket of 512 to 1023 (`documented_buckets`).

## 4. The proofs

TLAPS proves the following for every value of the constants that satisfies the
assumption its module names (`BookAssumption`, `MatchingAssumption`,
`QueueAssumption`, `MapAssumption`, `WriterAssumption`, `MemoryAssumption`,
`DashboardAssumption`, `HistogramAssumption`); TLC evaluates the assumptions in the runs.

`OrderBook_proofs`:

* `BookSound`: `BookInv` is invariant. It adds to the two invariants below what
  makes them inductive: no reserved id rests, and the map holds at most
  `MaxOrders` orders. One lemma per operation says what it does to a book
  (`PlaceEffect`, `TakeOutEffect`, `LessenEffect`), and one per operation and part of
  the invariant that the part survives. Underneath are lemmas on the helpers:
  what `RemoveFirst` returns (`RemoveFirstCases`), where the rescan can end
  (`NextBestInRange`, from the well-foundedness of < on the naturals).
* `BookTypeCorrect`: `[]BookTypeOK`. `QueuesNeverStale`: `[]QueuedOrdersRest`.
* `RefusalsAreClean`: the action property `RefusalLeavesBook`. modify takes the
  order out before inserting it again; the proof needs the invariant to see
  that the map then has a free slot and accepts the id.
* `TimePriorityKept`: the action property `QueueOrderKept`. A removal leaves the other
  ids of a FIFO where they are because no id is in it twice, an insertion because the id is not
  in it; modify is the two in a row (`KeptTwice`).
* `TotalsExact`: `[]TotalsAgree`, for any word size. A level's total is a sum over the
  set of orders at it, modulo `Word`; a removed order is subtracted from a total that
  may have wrapped, and `ModSum` says that this does no harm. `Sums`, the recursive
  function behind the sum, is shown to exist and to be unique, and to add what a new
  member adds, each by the smallest set for which it would not hold (`SmallestSubset`,
  `SumsExist`, `SumFirst`, `SumAny`, `SumAdd`).
* `BestPriceAlwaysExact`: `[]BestPriceExact`, given `TickSize = 1` and `[]TotalsFit` (the
  quantities at no level add up to `Word`). The rescan asks a level's total whether
  anybody rests there; by `TotalsExact` the answer is right unless the total has wrapped to 0, and
  the price it finds is the price of those orders unless prices share a level. Neither
  hypothesis can be dropped: either case makes the code's best price wrong.
  `TotalsNeverWrap` and `BestPriceExactWithinBounds` give the second from the
  constants: `MaxOrders` times the largest quantity is below `Word`. In the code, with its
  default of 65536 orders and 64-bit totals, quantities below 2^48 are enough; nothing limits them.
* `OrdersReachable`: `[]RestingOrdersQueued`, given `[]RoomForAll` (no level is asked
  to hold more orders than its FIFO takes). Without it finding 1 is a counterexample.

`MatchingEngine_proofs`:

* `EngineSound`: `EngineInv` is invariant: the types, the soundness of the book
  (by the lemmas on insert, cancel, modify and reduce above), and the agreement of the
  stack copy with the live FIFO. The three need each other: the id a fill is for
  is in the book because the copy agrees with the FIFO and the FIFO with the
  map (`AtHead`: the code's test for a vanished order never takes effect), and
  copy and FIFO agree after the fill because `RemoveFirst` of the head is the
  rest of the sequence (`DropHead`), or because nothing of the aggressor is left.
* `EngineTypeCorrect`: `[]TypeOK`. `SnapshotInStep`: `[]SnapshotIsQueue`.
  `QueuesSoundWhileMatching`: `[]QueuedOrdersRest`, between any two iterations.
* `TotalsExactWhileMatching`, `BestPriceExactWhileMatching`, `OrdersReachableWhileMatching`,
  `TotalsNeverWrapWhileMatching`: what is proved of a book alone, between any two iterations. `EngineCall`
  says that a step of the engine is one call of a book operation, or none, with a
  quantity of the event or what is left of it.
* `FillsReported` (`FillsAddUp`) and `PreventionReported` (`STPCancelReported`) hold whenever
  `OutputHasRoom`, from one invariant, `OutputInv`. A full output drops events, which is
  finding 2; `FillsNotInvented` says what remains true then: the trades reported never exceed what was taken.
* `NoEmptyOrderRests`: matching rests no order without quantity. It excludes modify events
  with quantity 0, which `modify` accepts.
* `RemainderMeetsNobody`: `RestsUncrossed`, given `TickSize = 1`, `[]TotalsFit` and
  `[]NoEmptyOrders`. The loop ended because the best price of the other side does not meet the limit; as that
  is the best price of everybody with quantity, nobody in the map does.
  `RemainderMeetsNobodyWithinBounds` has it from conditions on the constants.
* `EngineImplementsMarket`: `ImplementsPriceTimePriority`, given `TickSize = 1`,
  `[]TotalsFit`, `[]RoomForAll`, `[]NoEmptyOrders` and `[]RoomForEvent` (the output is not full
  when another order is met). `LevelIsBest` is the invariant the mapping needs: the level
  that is being filled is the best one with anybody waiting, so that its head is the
  market's `Counterparty`. There is a lemma for what each operation of the book
  does to the queues as the market sees them (`PlaceWaits`, `TakeOutWaits`, `HeadOutWaits`, `HeadLessened`), and one
  for each action (`MarketArrive`, `MarketTrade`, `MarketStops`, `MarketSettle`, `MarketCancel`,
  `MarketModify`, `MarketStill`). Each hypothesis excludes a case in which the code is not that
  market: a wrapped total or a shared level hides the best price, an order beyond a full FIFO is never met,
  one without quantity is passed over where the market would trade nothing with it, a full output does not report a trade.
* `EngineImplementsMarketSmallQuantities`: the same with `[]TotalsFit` and `[]NoEmptyOrders` taken from
  the constants: no modify asks for quantity 0, and `MaxOrders` times the largest quantity is
  below `Word`. The book of the default size with quantities below 2^48 is one of them. That no
  level and no output fills up depends on the orders that come and stays a hypothesis.

`SPSCQueue_proofs`:

* `TypeCorrect`, `NoSlotRace`, `SizeApproxInRange` from one inductive invariant: what the
  threads have read lies in `headSeen <= head <= tailSeen <= tail <= headSeen +
  Capacity` (with room for one more while the producer has loaded, and one to take while the
  consumer has), and every slot from `head` to `tail` holds an item.
* `QueueIsFifo`: initial states and steps of the ring map to those of
  `BoundedFIFO`. Its fairness is left to TLC.

`FlatOrderMap_proofs`:

* `TableSound`: between the slot where the probe sequence of a stored key starts
  and the slot that holds it there is no slot that was never used, and the count
  is the number of keys. An erasure keeps this because it leaves a
  tombstone, an insertion because it puts the key into the first slot of its
  sequence that is free. From it `TableTypeCorrect`, `NoKeyLost` and `CountCorrect`.
* `TableIsMap`: each operation is that of `BoundedMap`. The one case that needs an
  argument is an insertion below the load limit: with fewer keys than slots
  (`CountCorrect`) and a probe sequence that visits every slot, a free one is found.

`PostgresWriter_proofs`:

* `WriterSound`: every command carries the number of writes pushed up to it; these numbers
  continue each other along the queue, from what is settled and in
  hand to what is issued. A thread whose sentinel is in the queue is waiting for it, and
  nothing is behind a Shutdown.
* From it `WriterTypeCorrect`, `FlushIsBarrier`, `DatabaseInOrder`, `DestructorDrains`, and
  `RunsBeforeTrades`: a stored trade or end of a run has the row of its run before it in the
  database unless that INSERT failed, whichever threads made the calls.

`EngineMemory_proofs`:

* `MemorySound`: types; the partition of each pool's storage into free slots and pointers that
  are out; a passed validation speaks of pools with slots; the equation of the guard.
  Releasing needs the partition to know that the stack has room, and the types to know that
  the pointer is of this generation.
* From it `MemoryTypeCorrect`, `NoSlotTwice`, `ValidationHolds`, `StartupShownTrue`,
  `GuardCountsExact`.

`LatencyHistogram_proofs`:

* `HistogramSound`: a thread that is about to swap knows a value that `max_` has
  had, and every call that has not returned is counted in the history, so that a sample whose
  record() returned leaves `max_` at least as large. From it `MaximumExact`.
* `FiguresSound`: every bucket holds the measurements that belong to it, the total all but those
  whose record() is between the two, and a reader that has joined the threads has passed the
  buckets that do not reach its target with the sum of what was in them.
* `PercentileCorrect`: `[]PercentileRanked`. The buckets are in the order of their samples
  (`BucketsOrdered`), so the sum passes the target in the bucket of the measurement of that rank
  (`RankedBucket`). That `Shift` is a power of two is
  shown by the smallest index for which it would not be (`PowersExist`, `ShiftDoubles`).
* `ConcurrentAnswerNotTooLow`: `[]AnswerNotTooLow`. What a reader has added up so far is at
  most the number of measurements in the buckets it has passed, however old its loads (`SumInv`).

`Dashboard_proofs`:

* `MutexSound`: whoever has the mutex of the queue is at a statement that holds it, the loop
  only with work to run, and a thread is interrupted exactly while the handler is under way.
* `ServerSound`: the broadcast thread ends only once `running` is false, which only a
  signal makes it, and run() returns only after it. From it `RunReturnsStopped`, also for
  a port that was taken.
* `TradesSound`: the published snapshot, the copy the broadcast thread has, those
  deferred to the loop and the one shown each hold a window of the trades that ends at the
  trade they know last. From it `ShownTradesLast`.
* `ReplaySound`: at every statement of the replay loop, what controller, gate, engine and
  snapshot each have of the source: of the lines read (`Read`) or of those whose turn is over (`Over`).
* `CopiesSound`: every copy of the snapshot, at the broadcast thread, deferred or shown, is as coherent as
  the original was. `SnapCoherent` shows that the original is, statement by statement: its
  sections count the same lines, or those of one event more. From it `ShownWithinOneEvent` and, with
  what `ReplayInv` says of the last two statements, `FinalSnapshotCorrect`.
* `DashboardTypeCorrect`: `[]TypeOK`. The bound on the deferred work is the part that is not about
  types (`Backlog`): one close per signal, one by the broadcast thread, and the snapshots.

Every invariant and every action property that a passing run checks is a
theorem, some under the hypotheses named above. They are met where the runs check the same
properties: no total can wrap in any instance, and in `matching` and
`price_time_priority` the map is no larger than a level or an output.

Only model-checked: liveness (`MatchingCompletes`, `CallsReturn`, `StopEndsProgram`,
`FinalSnapshotShown`) and the fairness that `ImplementsBoundedFIFO` adds to `QueueIsFifo`, which
with ENABLED are out of the prover's reach; and what the violation runs
refute, which is false.

The library's induction theorems take an operator, which the provers used here cannot
instantiate. What a recursive function or a fold computes is proved by a smallest
counterexample instead: the set of arguments at which a statement fails, if it is not
empty, has a least member, and that one leads to a contradiction. No module here declares a RECURSIVE operator.

## 5. Plan

Done: the order book with its map, matching, the event queue, persistence,
memory, the dashboard program with replay and strategies, and the histogram; each with
theorems. Left, most important first:

1. Weaker hypotheses for the market: books with ticks larger than 1, which share a level among
   prices (a market of levels instead of prices), and an output that is full (a market that stops reporting).
2. `SymbolRouter` over several books; `ReplayController::reset` and the two passes of
   `BenchmarkRunner`; `StrategyEngine::set_strategy`.
3. `WsServer`, should it come back into the build.

## 6. Not modelled

* `SymbolRouter`: a table of pipelines that share nothing; a model would be one
  `MatchingEngine` per symbol and a choice.
* `WsServer`, with SHA-1 and Base64: built by no target.
* `BenchmarkRunner`: sequential; it drives what `Replay` and `MatchingEngine` model and
  measures into what `LatencyHistogram` models.
* `TimestampProvider`, `ThreadAffinityManager`, mlockall and NUMA: hardware and kernel.
* The dataset generator, the views of the frontend, build scripts, report and JSON
  formats, data layout: no state of their own that an interleaving or a
  sequence of calls could break. A frontend is a client that comes and goes.
* Misuse: a pointer released twice or to another pool, a second `start()` with pointers
  out, nested guards, calls on a writer that is being destroyed.
* Within modelled components: the read-only depth listings of the book, the counters
  of `PerformanceMetrics` other than the histogram, the latency and
  throughput figures of the snapshot.

Where the code and its comments differ in these parts, and no run is about it:

* `MatchingEngine.cpp:66-70` checks the price range only when the remainder is inserted, after
  the fills; `phase_1_instruction.md:383` says "Out-of-range orders must never modify live book state."
  The abstract market has it as in the code.
* `main.cpp:60` calls stop() from a signal handler, and `DashboardServer.cpp:85` calls `defer()`, which
  in uWebSockets v20.62.0 locks a mutex. If the interrupted thread holds it, the program never
  exits, although `main.cpp:147` says "Press Ctrl+C to exit" (`SelfLocked` in `StopEndsProgram`).
* `DashboardServer.cpp:82` makes a stop() that comes before run() return without effect, and `run()`
  (line 29) sets `running_` whatever came before. The handlers are installed first (`main.cpp:89`), so
  such a signal ends the replay but not the server; a second one does. `DashboardServer.hpp:30` calls stop()
  safe from any thread. `StopEndsProgram` asks only that a stop that found the server running ends the program.
* `VectorReplayController.hpp:32` is done with the last event handed out, before next() has returned
  false as `ReplayController.hpp:22` says; the snapshot says done before that event is processed.
  `FinalSnapshotExact` asks that done means complete of files only.
* `PostgresWriter.hpp:43` says flush waits until every write "has been committed"; it waits
  until every write was executed, with or without success (`FlushSettles` says what holds).
  `connected()` (`PostgresWriter.cpp:188`) reads a plain bool the writer thread sets, and is false until it has.
* `SnapshotPublisher.hpp:19` promises "a consistent copy"; it is a copy of one moment, whose
  sections may be one event apart (`SectionsWithinOneEvent`).
* `AllocationGuard.hpp:11` has it count "any call to operator new" and abort in debug
  builds; over-aligned `operator new` is not replaced, and nothing aborts.
* `LatencyHistogram.hpp:87` gives bucket i the mid-point 3 * 2^(i-2); the code rounds it down (and
  answers 1 for bucket 1). Asked while threads record, `percentile()` may run through to the last bucket.
