# A verification project for hermeneutic-cpp

hermeneutic-cpp aggregates the order books of several exchanges into one. Mock
exchanges replay NDJSON files over WebSockets; the aggregator's feeds turn the
frames into events; an engine keeps one limit order book per exchange, sums and
uncrosses them and publishes a view after every event; a gRPC service streams
the views to clients, which write best quotes, price bands and volume bands to
CSV files. This directory holds TLA+ modules for these parts, TLC
configurations that check them on small instances, and TLAPS proofs.

All source paths below are relative to `src/` (so the engine is
`src/src/aggregator/aggregator.cpp` from the root of this project).

## 1. Inventory

| Component | State | Operations | Talks to |
|---|---|---|---|
| Limit order book, `src/lob/order_book.cpp` | bid and ask maps, `orders_` by id, last sequence, exchange name, timestamps | `apply` (snapshot, new order, cancel), `best` | owned by the engine |
| Concurrent queue, `src/common/.../concurrent_queue.hpp` | deque, closed flag, mutex, condition variable | `push`, `try_pop`, `wait_pop`, `wait_pop_for`, `close` | joins every two threads below |
| Aggregation engine, threads, `src/aggregator/aggregator.cpp` | two queues, `running_`, subscribers, view, ready exchanges | `start`, `stop`, `push`, `subscribe`, `unsubscribe`, `setExpectedExchanges`; worker `run`, `publisherLoop` | feeds push, the gRPC service subscribes |
| Aggregation engine, consolidation, same file | books by exchange, remembered best ask, view | `consolidate`, `virtualUncross`, `validateAggregatedView` | books, clock, view |
| gRPC service, `src/aggregator/grpc_service.cpp` | per call: queue, `active`, subscription | `StreamBooks`, `authorize` | engine callbacks, client |
| Stream client, `services/common/book_stream_client.cpp` | `running_`, `active_context_`, thread | `start`, `stop`, `run`, `cancelActiveContext` | gRPC service, the publishers |
| aggregator_service, `services/aggregator_service` | configuration, hosts to wait for, engine, server, feeds, signal flag | load, wait for feed hosts, start, serve, shut down | all of the above |
| Exchange feed, `src/cex_type1/feed.cpp` | `running_`, WebSocket, thread | `start`, `stop`, `run`, `pump` | mock exchange, engine |
| Mock exchange, `services/cex_type1_service/main.cpp` | server, file position, `past_threshold_`, `g_running` | `main`, `next`, `reopen`, `createRequestHandler`, `handleRequest`, signal | feed |
| Conversions, `services/common/grpc_helpers.hpp` | none | `FromDomain`, `ToDomain` | service, client |
| Price bands, `src/price_bands` | cached best bid and ask | `compute` | client callback, CSV |
| Volume bands, `src/volume_bands` | none | `compute` | client callback, CSV |
| BBO publisher, `src/bbo` | none | `publish` | client callback, CSV |
| CSV files, `services/common/csv_utils.cpp` | the file | `ensureCsvHasHeader`, append | file system |
| Decimal, `src/common/.../decimal.hpp` | none | arithmetic, `fromString`, `toString` | everywhere |
| Configuration, `aggregator.cpp:394`, `config.hpp` | none | `loadAggregatorConfig` | aggregator_service |
| Enumerations, events, assertions | none | names | everywhere |
| Lock-free ring, `lockfree-waitfree/lfqueue-.../lfring_cas1.h` | head, tail, threshold, array of entries | `lfring_enqueue`, `lfring_dequeue` | nobody yet: vendored for queues to come |

What is hard, and what makes each part correct:

* **Order book.** Levels are kept by deltas, orders by id; a replaced id is
  withdrawn before the crossing rule is applied; the feed takes a sign on prices
  and quantities. Every level must hold what the snapshot and the resting orders
  put there, no order may cross the book, no numbered event may be applied twice
  or after a later one.
* **Queue.** Notifications come after the unlock, `close` races everybody. It
  must be a FIFO channel, and no consumer may sleep beside an element.
* **Engine threads.** Consolidation under the lock, publication outside it,
  callbacks without it, two joins in `stop`. Subscribers must see contiguous
  pieces of one log of views, gated at start-up; `stop` must return and drain.
* **Consolidation.** The sum of books may be crossed; matching must end at the
  right outcome, and the view must be one that the engine's own assertions pass.
* **Streaming.** Calls break and are made anew, `stop` and server shutdown race
  registrations and polls, and a copied callback may run after its handler is
  gone. Views must never repeat, go back, or, within a call,
  be skipped; both ends must be able to stop.
* **aggregator_service.** The wait for hosts retries for ever and returns alike
  when complete and when interrupted. No feed may start before its host is
  known, a signal must end the program from wherever it is, and the engine must
  outlive the handlers that refer to it.
* **Feed.** Lines are taken from the file before they are sent, the position is
  shared by connections, the file wraps around. Nothing may be applied twice,
  gaps must coincide with broken connections.
* **Publishers.** Prices and quantities are cut to eight decimals on the wire;
  quotes are cached. No assertion may fail, bands must nest, cached quotes must
  come from one view.
* **CSV.** The file is truncated before it is rewritten; processes and machines
  die. One header, no NULs, no lost rows beyond those the crash took.
* **Decimal.** Products exceed the width of `Int128`; callers must widen first.
* **Lock-free ring.** Threads overtake each other between a ticket and its slot.
  No index may be lost, repeated or hidden, and the calls must end once no new
  ones come in between.

Every hazard is listed in `PROJECT.json` at the line where it bites.

## 2. Modules

```
 FifoChannel    <== ConcurrentQueue            ("<==" is implemented by)
 PublicationLog <== AggregationEngine
 LimitOrderBook --- OrderBook
                 |- Aggregator --- VirtualUncross
                 \- ExchangeFeed
 AggregatorService --- BookStream
 Decimal --- BandPublishers      CsvFile       ScqRing

 Proofs:  OrderBook_proofs, Aggregator_proofs, ExchangeFeed_proofs,
          AggregationEngine_proofs, BookStream_proofs, CsvFile_proofs,
          BandPublishers_proofs, Queues_proofs (ScqRing and ConcurrentQueue)
```

The flow of data is ExchangeFeed -> (ConcurrentQueue) -> AggregationEngine,
whose worker step is Aggregator, -> BookStream -> BandPublishers -> CsvFile. The
modules meet at small interfaces: the engine and the streams number the views
whose contents Aggregator computes, and take the queue for the FIFO channel that
ConcurrentQueue is shown to be. BookStream composes the program
aggregator_service with the handlers it serves and a client, sharing the
variables of AggregatorService. ScqRing stands apart, as its code does.

| Module | Models | State and code |
|---|---|---|
| `LimitOrderBook` | `LimitOrderBook::apply` as operators on a book record | `level` is `bids_`/`asks_` with 0 for no entry, `orders` is `orders_` |
| `OrderBook` | one book and every call a feed causes | `book`; `outcome` says how `apply` ended; `base` (the last snapshot), `spoiled` (where a negative quantity has rested since) and `numbers` (what was applied) are history |
| `ConcurrentQueue` | the queue with its mutex, condition variable, senders, a blocking and a timed receiver | a critical section is one step, notification is a step of its own, wake-ups may be spurious |
| `FifoChannel` | what the queue promises: accepted elements leave once, in order; end only when closed and empty | |
| `AggregationEngine` | the threads of the engine | a program counter per thread; a critical section under `mutex_` is a step; views count the events in them |
| `PublicationLog` | what the engine promises: one growing log of which each subscriber reads a contiguous piece | refinement: `log`, `delivered` |
| `VirtualUncross` | `virtualUncross`: `Match` is one iteration of its loop | `Cleared` is the reference: the outcome of a uniform-price auction, said without a loop |
| `Aggregator` | what the worker does with an event: book, sum, match by match, remembered ask, assertions | `books`, `level` (the summed book while it is matched), `lastAsk`, `view`; `status` is "matching" within `consolidate`, or names a failed assertion |
| `AggregatorService` | `loadAggregatorConfig`, `waitForFeedHosts`, and `main` from start to end | `main` is its program counter; a JSON object is a function on its well-typed members; the resolver is external |
| `BookStream` | the service above with `StreamBooks`, `authorize`, the engine's `publish`, and the client's `start`, `run` and `stop` | program counters `handler`, `run`, `owner`; `targets` are the callbacks `publish` has copied and not called; gRPC calls are external |
| `ExchangeFeed` | the mock's `main`, `PayloadCycler`, `handleRequest`, refusals; `run`, `pump`, and the book that receives the events | `server`, `position`, `past_threshold`, `handler`, `feed`; WebSockets are external |
| `Decimal` | `ScaledDecimalBase` with its back-ends `Int128` and `Wide` | a number is its raw integer in `Width` bits; text is a sign, a whole part, a fraction and its places |
| `BandPublishers` | conversion to eight decimals and back, price bands with cache, volume bands | raw `Decimal`s; the arithmetic of `DecimalWide` in the bands |
| `CsvFile` | `ensureCsvHasHeader` and the rows of each of the three client services; crash, power failure, restart | the file is a sequence of tokens; `program` is the service, which decides when a row is written and how many a view has |
| `ScqRing` | `lfring_enqueue`, `lfring_dequeue`, `__lfring_catchup`, atomic access by atomic access | `head`, `tail`, `threshold`, `array`; `ticket` and `entry` are the locals; `stored`, `before`, `emptied` are history |

A module `X_proofs` extends `X` with its inductive invariants, lemmas and
theorems; section 4 goes through them. `Queues_proofs` extends both queues, the
one with a mutex and the ring, which have neither a variable nor a thread in
common; that is why the definitions of `ConcurrentQueue` that every specification
has carry the prefix "Queue" (`QueueInit`, `QueueNext`, `QueueSpec`).

`PROJECT.json` maps each definition to the lines it stands for. Definitions
whose comment begins with "Fault:" model a plausible bug in the definition that
follows them; no specification uses them. Each of the properties below has been
seen to fail when one of them takes the place of the correct definition.

Modelling conventions:

* Assertions end the process. `HERMENEUTIC_ASSERT_DEBUG` is switched on in every
  build (`assert.hpp:15-18`).
* Prices and quantities of events are integers of either sign, as the feed's
  parser takes them; `BandPublishers` has the raw integers of `Decimal` for the
  levels of a view, which are never negative. Of several entries of a snapshot with one price, the last with a
  positive quantity counts, as in the code.
* A book has one timestamp; the code keeps a feed and a local one, and only the
  first is compared with anything that can differ. The clock `consolidate` reads is
  `system_clock`, which may be set back, so each reading is any time.
* The callback of a handler that has returned reads a frame that is gone
  (`grpc_service.cpp:45-52`). Of the outcomes of that undefined behaviour
  `CallBackLate` has three: none to be seen, a publisher that blocks for good on
  what was the queue's mutex (`blocked`), and the end of the process.
* Writes to a CSV file succeed: the code looks at the outcome of none of them
  (`csv_utils.cpp:34`, `:86-87`), and a full disk, which can leave half a header
  line in front of the next row, is not modelled.
* `AggregatorService`: a signal before its handler is installed kills the
  process. A failed `BuildAndStart` runs the destructors as part of the step.
* `ScqRing`: the atomics are sequentially consistent, a compare-exchange fails
  only where the values differ, 64-bit tickets do not wrap around, `nonempty` is
  false, and at most `Half` indices are in circulation, as the header demands. The
  10000 re-reads of an entry before it is marked are one later read.
* `setExpectedExchanges` is called before `start` only, as `main` does. The
  queues of a stopped engine stay closed, so an engine started again publishes
  nothing: the model has that restart.
* The `main`s of the three client services have the same frame, which `CsvFile`
  models once; `PROJECT.json` names the lines of one of them.
* Text is abstracted: a line is an event, garbled, too long or empty; a row of a
  CSV file is a token; environment values are compared in lower case.

## 3. Runs

| Run | Instance | Shows |
|---|---|---|
| `order_book` | 2 interchangeable exchanges, 2 prices and a negative one, a lot and a negative one, 2 ids and none, sequences 0 to 2 | levels balance, what can cross a book, numbered events apply once and in order |
| `concurrent_queue` | 2 senders, 2 receivers (one timed), 2 pushes each | refinement of `FifoChannel`, no lost wake-up, receiver loops end |
| `engine` | 2 exchanges, 2 subscribers, 1 event per exchange, 2 starts | gate, completeness of the log, refinement of `PublicationLog`, at most one late callback, `stop` returns and drains, queued views arrive |
| `aggregator` | 2 venues, 3 prices, 1 lot, a clock that shows the venues' time or less | the matching ends with the auction's outcome; only the stand-in ask can cross a view; quotes are backed; the ask side, once shown, stays |
| `book_stream` | 2 views, 2 calls, 6 documents (two that throw on a missing object, one on a feed, three that load: with one feed, with no feeds, and with other credentials, a host that two feeds share and a url without one), waiting on and off (397,000 states) | order of views across reconnects, delivery, `stop` is final, no feed before its host is resolved, the engine outlives the handlers, a signal ends the program |
| `exchange_feed` | 6 lines, one of each kind, 2 connections, 7 lines sent, 3 thresholds | gaps only between connections, nothing applied twice, feed and mock stop |
| `band_publishers` | 2 decimals of which 1 is sent, 16 bits, 4 prices (two equal on the wire), 2 quantities (one 0 on the wire), 3 views | assertions hold, cache from one view, bands nest, volume bands are depths, although the products do not fit the narrow width |
| `csv_file` | 3 services, 2 bands, 3 views, 2 crashes | one header and no NULs while running, flushed rows survive restarts |
| `scq_ring` | 2 enqueuers, 2 dequeuers, 4 slots for 2 indices, empty or full at first, 5 calls (782,000 states) | nothing lost or repeated, first in first out, an empty answer is justified, calls end once no new one begins |

In `order_book` the exchanges are symmetric: none of its properties is a liveness
property. `OrderBook`'s type invariant is part of its run. The configurations of the
others leave theirs out in favour of properties that say more; all of them are
proved, and held on the instances above before.

Three runs find a disagreement between the code and what it says of itself
(`PROJECT.json`, "findings"):

* `rejected_replacement`: a rejected order that reuses a resting id takes the
  resting one with it, although the log says it is ignored.
* `stand_in_ask`: with no ask left the previous best ask is published; when bids
  have come up to it meanwhile, the view fails the engine's own assertion.
* `client_stop_hangs`: `BookStreamClient::stop` cancels only a context that is
  registered at that moment. If `run` is between its test of `running_` and the
  registration, or between unregistering and `Finish`, nothing is cancelled, and
  `Finish` waits for a server that has no reason to end the call.

In the last run the trace is of the first of the two windows; with `Connect` and
`Register` in one step TLC finds the second.

What a negative quantity does is in the model and has no run of its own, as the
repository says nothing of it. An order of -5 rests without a level
(`order_book.cpp:36-47`), or takes 5 from the level it finds; an order opposite
then rests at its price or beyond, and when the first one is cancelled, +5 comes
to a level nobody offers (`:196-197`), which may cross the book and abort the
process on an order event (`:91`). A negative price fails the assertion of line
23, 62 or 75. `LevelsBalance` and `CrossingsHaveCause` say how far that reaches:
to the place where the negative quantity rested, until the next snapshot, and to
crossings one side of which is such a place.

More divergences were met and have no run yet. The mock never resets
`past_threshold_`, so from the second pass over the file the lines below
`start_sequence` are sent, unlike `README.md:163`. A replayed snapshot has an old
sequence number and is dropped, unlike `README.md:271`: `NoLineTwice` shows that
a replay changes nothing at all. When matching uses up all asks before one was
ever shown, the view has no ask while venues offer some, unlike
`instructions/data_fix_plan.txt:9`; `AskSideStays` starts with the first ask. A
feed timestamp ahead of the local clock fails the assertion of
`aggregator.cpp:351`; `Aggregator` has that outcome.

The ring has a limit that its header does not state. A dequeuer lowers the
threshold some time after its try has failed (`lfring_cas1.h:257`, `:262`), and
an enqueue that resets the threshold in between does not know of it. With three
dequeuers and a ring for one index (`Half = 1`) TLC finds 28 steps after which
an enqueued index is in the ring, nobody is in a call, the threshold is used up,
and `lfring_dequeue` answers `LFRING_EMPTY` until another enqueue resets it.
With two dequeuers, and one or two indices, `EmptyIsEmpty` holds. `NothingTwice`
and `FirstInFirstOut` are proved for any number.

### Why the bounds are enough

* Order book: two prices are enough for a crossed and an uncrossed book, two ids
  for reuse with another order resting; a negative quantity of one lot is enough
  to take a level away and to add one; a sequence may repeat, recede, or be
  absent. Levels accumulate through repeated snapshots and orders; the proofs
  remove the bounds.
* Queue: two receivers of different kinds are what it takes for a wake-up to go
  to the wrong one, two elements for an order to be seen.
* Engine: two events are enough for a view to be skipped or published late and
  for one callback to be pending while the next view arrives. A bound of two
  events per exchange with one subscriber (361,000 states) was checked as well.
* Consolidation: with three prices a level of one venue is matched against
  several of the other, and two venues at one price make two lots, which leave
  remainders on either side. A reading of the clock is ahead of the venues' time or
  is not. Quantities are positive here: `OrderBook` has the others, and the proofs
  cover them.
* Streams and feed: a second call is what it takes to mix calls up, and views or
  lines before, between and after them. Two views have an order; a longer queue
  has no state a handler or the client tells apart. `MaxTaken` exceeds the
  number of lines a pass over the file sends, so the replay wraps around.
* Publishers: the cache needs a live view, one that is not live and another.
* Decimal: 16 bits are to two decimals what 128 are to eighteen: numbers fit,
  products do not.
* CSV: a crash, and one during the repair of its damage.
* Ring: four slots and five calls let a ticket lap the ring, a dequeuer overtake
  an enqueuer, and two threads meet at one slot.

### Fairness

Threads that run are scheduled: weak fairness of each thread's next step. The
calls that depend on the outside get none: nobody has to push, publish,
subscribe, break a link, start or stop a client or interrupt a server, so no
liveness property relies on them. Details:

* `ConcurrentQueue`: a receiver that is not asleep goes on, a timeout expires,
  and a notification follows the unlock that it comes after. Nothing makes
  anybody push or close: `LoopsEnd` says what follows once the queue is closed.
* `AggregationEngine`: worker, publisher, callbacks that return, and a `stop`
  that has begun. `Call` needs no fairness per subscriber as the list of
  targets shrinks.
* `Aggregator`: the worker goes on with a consolidation it has begun.
* `BookStream`: the client's thread, a `stop` that has begun, the handlers (which
  poll every 100 ms), the callbacks `publish` has copied, and `main`. The resolver answers, but may answer "unknown"
  for ever.
* `ExchangeFeed`: the mock's `main` and its handlers, the feed's thread, strong
  fairness of `Connect` (among failing attempts one succeeds now and then, unless
  `stop` comes first) and of `SendFails` (a handler that keeps sending into a
  broken connection is told so, as TCP does). `StopReturns` rests on the
  five-second receive timeout alone.
* `ScqRing`: each thread goes on with a call it has begun; nobody has to call. The
  ring is lock-free and not wait-free: others that keep calling may hold up one
  call for ever, so `CallsEnd` says that all calls end if from some time on no new
  one begins.

`SignalEnds` assumes that the client has stopped: `Shutdown()` is called
without a deadline and waits for handlers that run as long as their clients
stay. It also makes an exception of a publisher that a late callback has blocked,
which `main` then waits for in the engine's `stop`. `MockStops` assumes a threshold that some line of the file reaches;
without one, `next` never leaves its loop.

## 4. Proofs

The runs check small instances; the theorems hold for every value of the
constants. Each proof has the same course: types and an inductive invariant,
which TLC checked on the instance of the run before it was proved; a lemma for
each action, or group of actions that touch the same variables; the temporal
step by PTL. The invariants are conjunctions of named parts, each with a comment
that says what it is for. `PROJECT.json` lists the theorems.

**Assumptions on the constants** are named in the modules and evaluated by TLC:
prices and quantities of events are integers, sequence numbers and bounds naturals;
`AggregatorAssumption` says that venues and prices are finite in number, which
they are in any run of the program, and that the clock has something to show;
`DocumentAssumption` says that the feeds of a document form an array;
`QueueAssumption` and `RingAssumption` say that the threads that sleep, notify or
dequeue are finitely many, as they are counted, that no thread is on both sides,
and that the ring has at least one index. Three concern the arithmetic of the
bands:

* `RangeAssumption`: prices times two, quantities and single notionals fit the
  storage of a `Decimal`. The products of raw integers, before the division by the
  scale, need not, and in the run they do not: that the code widens them is what
  the theorems are about. Beyond that range the code overflows by design.
* `PowerAssumption`: powers of ten and two are positive, and each power of two is
  twice the one before. That is arithmetic, true of any digits and width, but
  exponentiation is a symbol without meaning to the provers.
* `BandAssumption`: the wire has no more decimals than a `Decimal`, offsets lie
  between nothing and all of a price.

| Module | Theorem | Property |
|---|---|---|
| `OrderBook_proofs` | `TypeCorrect` | `TypeOK` |
| | `IdsStayUnique` | no id rests twice |
| | `LevelsStayBalanced` | `LevelsBalance` |
| | `OrdersNeverCross` | `CrossingsHaveCause` |
| | `EventsApplyOnce` | `AppliedOnceInOrder` |
| `Queues_proofs` | `TypeCorrect` | `QueueTypeOK` |
| | `WakeupsAreNotLost` | `NoLostWakeup` |
| | `QueueIsFifoChannel` | the queue's steps are steps of `FifoChannel`, or stutter |
| | `EndedLoopsLeaveNothing` | a receiver loop that ended left a closed, empty queue |
| | `RingIsSound` | the ring's invariant, with its types |
| | `NoIndexTwice` | `NothingTwice` |
| | `FirstComesOutFirst` | `FirstInFirstOut` |
| `AggregationEngine_proofs` | `TypeCorrect` | `TypeOK` |
| | `GateIsHeld` | `GateHolds` |
| | `UpdatesArePublished` | `EveryUpdatePublished` |
| | `LateCallsAreBounded` | `AtMostOneLateCall` |
| | `StopDrainsEverything` | `StopDrains` |
| | `EngineIsPublicationLog` | `ImplementsPublicationLog` |
| `Aggregator_proofs` | `TypeCorrect` | `TypeOK` |
| | `UncrossClears` | `UncrossIsClearing` |
| | `QuotesAreBacked` | `QuotesBacked` |
| | `AsksStay` | `AskSideStays` |
| | `StandInAlone` | `OnlyStandInCrosses` |
| `BookStream_proofs` | `TypeCorrect` | `TypeOK` |
| | `ViewsComeInOrder` | `ViewsInOrder` |
| | `StoppedForGood` | `StopIsFinal` |
| | `HandlersGoFirst` | `EngineOutlivesHandlers` |
| | `HostsBeforeFeeds` | `DialsResolvedHosts` |
| `ExchangeFeed_proofs` | `TypeCorrect` | `TypeOK` |
| | `LossOnlyBetweenCalls` | `GapsOnlyBetweenCalls` |
| | `LinesTakeEffectOnce` | `NoLineTwice` |
| `BandPublishers_proofs` | `Typing` | `TypeOK`: every band is a natural price |
| | `NoAssertionFails` | `AssertionsHold` |
| | `CachedTogether` | `CacheIsOneView` |
| | `Nesting` | `BandsNest` |
| | `Depth` | `VolumeIsDepth` |
| `CsvFile_proofs` | `TypeCorrect` | the file is a sequence of tokens |
| | `HeaderIsOnce` | `HeaderOnce` |
| | `FlushedRowsAreKept` | `RowsKept` |

### The inductive invariants, and why they are needed

* **Order book.** Types, unique ids, balance, a sound book while the process is
  alive, a cause for every crossing, and numbers in order up to the book's own.
  None of the parts is inductive alone. Balance needs unique ids, as a cancel
  removes every record of an id while it changes one level; it needs the types
  for the finite cardinalities of `Lots`; and as a resting order of negative
  quantity may owe its level at most what it did not find there, it says that a
  level and what is owed it never hold less than is due. The crossing rule needs a
  living process to start from an uncrossed book, so that only a level which an
  event raises can cross: a resting order's, which `Crosses` has tested, or that of
  a negative quantity, whose place is spoiled. That the order of the numbers is
  kept needs the book's own to be at least the last of them. What the operators of
  `apply` do to a level and to the sequence number are lemmas of their own.
* **Queue.** `NoLostWakeup` is inductive given the types: it counts the values in
  the deque against the receivers awake and the notifications under way, so each
  action's lemma is about cardinalities. The channel needs no more than the types,
  and `LoopsEndDrained` follows from what a receiver tests before it ends.
* **Lock-free ring.** A ticket is pending from when it can be drawn until its
  dequeuer has dealt with its slot. `Dequeuers` says that no two dequeuers share
  a ticket (`Tickets`), that a slot which has reached the cycle of a pending
  ticket holds its index, and the dequeuer that has seen it finds it again
  (`Spent`, `Seen`), that whatever is in the ring has its dequeuer still to come
  (`Awaited`), and that a slot still marked safe has not been passed by
  (`SafeSlots`): without that last part an enqueuer could fill a slot its
  dequeuer has left, and the index would be lost. `Enqueuers` says the same of
  what an enqueuer has seen but not yet exchanged: the slot is still vacant for
  it, or the exchange will fail (`Vacant`, `Granted`). `Contents` ties this to
  the history: each index is in one place, carried by an enqueuer or behind one
  ticket (`Carried`, `Placed`), and the tickets are in the order of the calls
  (`InOrder`). `NothingTwice` is then read off; for `FirstInFirstOut` each index
  that is overtaken has a ticket before that of the overtaker, so a dequeuer of
  its own under way: the overtaken are no more than the dequeuers. TLC checked
  the invariant with four slots (the instance of the run) and with two slots,
  where every other ticket laps the ring (4.3 million states).
* **Engine.** `Lifecycle` says which thread can be where while `start` and
  `stop` are; `Gate`, that a ready exchange has an event in the view and that
  nothing is published before the gate opens; `LogKeepsUp`, that the view under
  way and those queued for the publisher continue the log; `Reading`, that what
  a subscriber saw, and the call that is due, are a contiguous piece of it;
  `LateOnce`, that an unsubscribed callback is among the targets of at most one
  copy; `NothingInvented`, that no more is queued than was pushed. The
  refinement follows step by step: consolidation appends to the log, a callback
  reads from it, the rest stutters.
* **Consolidation.** `Clears` says that while the summed book is matched, its
  clearing stays that of the venues' sum: what is left to match leads to the
  same book. That rests on lemmas about sums over venues and prices, and about
  each kind of match (`MatchEffect`, `MatchLowersVolume`, `LeftOfLevel`,
  `UncrossedIsCleared`). `Backed` and `AsksRemembered` say of the view, and of
  the ask that is remembered for it, where their quantities come from. Nothing is
  assumed of the clock.
* **Streams.** `OneCall` ties an open call to the place `run` is at, `ServerFirst`
  the handlers to the server. `InFlight` says what is between a handler and
  its client: consecutive views that end, while the handler is subscribed, with
  the one it was given last (`Given`), which is the newest, or the one before it
  while its callback is among `targets`; `Continues`, that they go on where the
  callback left off. A late callback touches none of this.
  For the wait, `Awaited` says that each host is resolved or still on the list,
  and that the list is empty wherever `main` goes on to start a feed. That the
  list holds every host of any configuration is `HostsAreCollected`.
* **Feed.** `OneServed` says that one handler at most takes lines for a feed that
  still reads; `Ordered`, that the frames on the wire continue those received;
  `BookIsAhead`, that the book's sequence number is at least that of any line
  received that parses, from which nothing takes effect twice.
* **CSV.** `Headers` says what any crash can leave: nothing, a complete header
  line, or NULs somewhere; and never a header below the first token. `Flushes`
  says that a file that no power failure struck holds no NUL, that a rewrite of it
  finds nothing flushed, and that the flushed rows are in it. Appending is a
  homomorphism of `Keep`, which selects the rows, by `KeepConcat`.
* **Publishers.** `CacheIsSound` says that the cached quotes come from one view,
  are live, and fit; `BandsAreOfCache`, that the bands are what the arithmetic
  makes of them. The rest are lemmas without state: division that truncates is
  monotone, a text of eight decimals parses to the number cut off after them and
  keeps order (`Sent`), the wide product of numbers that fit loses nothing, so a
  factor below one does not raise a price and a greater one never lowers the
  band. A failed assertion would need an ask below its bid, or a cached one at
  it: the view of an uncrossed book can reach equality on the wire, and no more.
  For `VolumeIsDepth` the ladder is shown to exist and to stay in order on the
  wire, so that the levels down to a price are a prefix of it, and the
  accumulated notional of a prefix is its `Worth`.

### Induction over data

The library's induction theorems take an operator as a parameter, which the
provers here cannot instantiate. Where a recursive definition matters, the
proofs use well-founded induction in a form that speaks of sets instead: a set
of naturals that holds 0 and each successor is all of `Nat` (`AllNaturals`), a
set of finite sets closed under adding an element holds all (`AllSubsets`). With
these, `Aggregator_proofs` proves that sums over finite sets exist and unfold
(`SumsExist`, `SumUnfolds`, `SumIsDetermined`), `BookStream_proofs` what the
fold of `CollectFeedHosts` collects, `CsvFile_proofs` what `FlattenSeq` makes of
any sequence (`FlattenAppend`) and what `Keep` keeps of it, and
`BandPublishers_proofs` that a finite set of prices can be put in order and that
running totals of notionals exist and grow.

### Only model-checked

* Liveness, and the liveness in `FifoChannel`: fairness and ENABLED are beyond the
  provers. `ImplementsChannel` is checked with it and proved without.
* `ScqRing`: `EmptyIsEmpty`, that an answer "empty" is justified. It depends on
  the threshold, which counts failed tries against the distance a filled slot
  can have; the proof would bound, for each index in the ring, the tries still
  to come before the dequeuer that finds it. `RingInv` does not speak of it. The
  property is not one of every instance, either: it needs that there are no more
  dequeuers than indices, as in the run (see section 3).
* The three disagreements of section 3, which are counterexamples.

The models were written so that they can be reasoned about: `VirtualUncross` has
its sums in one operator of a function and a set (`SumOver`), `ExchangeFeed`
applies a stale line before it looks at the kinds of lines, `CsvFile` selects
tokens by a set (`Keep`) instead of a test, and `BandPublishers` names the order
of a ladder (`Better`) instead of sorting.

## 5. Not modelled

* Of the configuration: port, address and publish interval, which only name where
  the server listens.
* Of `Decimal`: the double back-end, whose rounding TLA+'s integers do not have,
  and the rejection of malformed text, which makes a feed's line "garbled" and
  occurs nowhere else.
* Of the wire: timestamps, which are copied.
* `maybeWarnOnStaleness`, formatting, logging, enumerations: no state.
* The other vendored rings: `lfring_cas2.h`, `lfring_naive.h`, `wfring_cas2.h`,
  and the queues of pointers built on them. The double-width and wait-free rings
  are algorithms of their own, and no target links any of them.
* The limit of ten queued connections of the mock, which two connections do not
  reach.
* HTTP, WebSocket, gRPC, DNS and file system are external and appear as the
  modules use them. `instructions/extension.h` is an excerpt of a foreign header
  that nothing includes.

## 6. Plan

The order is that of importance: what every event passes through comes first.
Done: everything in section 2 and the proofs of section 4.

What is left:

1. `ScqRing`: `EmptyIsEmpty`, from a bound on the threshold.
2. Several clients in `BookStream`, composed with `AggregationEngine`'s publisher
   instead of numbered views.
3. The double-width ring, if a target comes to use it.

## 7. Running

    tlc -config MCOrderBook.cfg MCOrderBook.tla
    tlapm OrderBook_proofs.tla

Each run takes at most about three minutes with two workers. The configurations
that switch deadlock checking off say why: the program may really stop there.
