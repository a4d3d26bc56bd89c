# TLA+ models of the HFT exchange simulator

Specifications of the order book and its container, the logger, the message
format, the client, and the three exchanges of this repository (bucketed,
networked, and the one of the tests), the TLC runs that check them on small
instances, and TLAPS proofs of their main properties for all values of the
constants.

Run a check with `tlc -config <cfg> <module>` and a proof with
`tlapm <module>.tla`; `PROJECT.json` lists every run, the source lines every
definition models, the findings, the hazards and the theorems.

## 1. The system and its parts

| Part | State | Operations | Interacts with |
|---|---|---|---|
| Order book (`orderbook.cpp`) | `bids_`, `asks_` (price to level), `order_id_lookup_` | `add`, `modify`, `cancel`, `execute` | hive (stores orders), logger (events) |
| Hive (`plf_hive.h`, vendored) | slots, free list of erased runs | `insert`, `erase`, `begin` | a level of the book owns one |
| Logger (`logger.cpp`) | concurrent queue, `running_`, file | `push`, worker `run`, destructor | all book threads push, one worker writes |
| Local exchange (`local_exchange.cpp`) | `bucketThreads_`, per bucket a queue, books, thread; `running_` | `start`, `add_symbol`, `on_msg_received`, `book_loop`, `stop`, destructor | clients enqueue, bucket threads apply to books |
| Order parser (`order_parser.cpp`) | none | `parse_message`, `convert_to_order` | called by the exchanges |
| Client feed (`client.cpp`) | `all_events` | read and encode, sort, send | drives the local exchange |
| Networked exchange (`exchange.cpp`) | `bookThreads_`, per symbol a queue, book, thread; `running_` | as the local exchange | sessions enqueue, book threads apply; owns the publisher's start and stop |
| Network server (`network_server.cpp`) | acceptor, sessions, `running_` | accept loop, `start_reading`, `stop` | calls `on_msg_received` |
| Market data publisher (`market_data_publisher.cpp`) | `updateQueue_`, thread, `running_` | `publish_...`, `run`, `start`, `stop` | started and stopped by the networked exchange |
| `exchange_no_net.h` | `books_`, a thread per symbol, `mutex_` | `add_order`, `stop_all` | used by `test_exchange.cpp` |

What is hard in it:

* **The book** keeps the same facts in three places (level, total, lookup
  table). `cancel` and `modify` trust the iterator in the lookup table
  unchecked, the hive reuses erased slots, and both functions read an order
  through a reference after erasing it.
* **The matching loop** must end although orders of quantity zero trade
  nothing, and must not stop at an emptied level.
* **The logger** can lose a notification between the worker's last look at the
  queue and its wait, and is destroyed with events still queued.
* **The local exchange** shares two `unordered_map`s between threads without a
  lock, and stops its threads with orders still queued. Only the call that
  creates a bucket starts its thread, and only a `stop()` that finds `running_`
  set joins threads, so that calls in an unusual order leave buckets without a
  thread or threads without a join.
* **Messages** have a length per type, encoded by one file and decoded by
  another, and pass through a TCP stream that the server reads in pieces of one
  fixed length.
* **The networked exchange** stops a publisher and all book threads while
  sessions go on enqueueing, and looks symbols up while others are added.

What makes each correct: the lookup table and the hives name each other, totals
are exact, no level is empty, matching takes the best prices and leaves no
crossed book; the log holds every event, in each producer's order, and gets it
without waiting for the next one; what the exchange is told is what the file or
the peer said; a client's orders reach their book once, in order; `stop()`
returns and leaves neither a thread nor an event to publish; a waiting peer is
accepted.

## 2. Modules

| Module | Models |
|---|---|
| `OrderTypes` | sides, results, orders (`types.h`, `orderbook.h`) |
| `Hive` | the hive's first block, as operators on a record |
| `OrderBook` | the book: one action per call and outcome, one step per iteration of `execute()` |
| `MatchingBook` | abstract specification: a map from ids to orders and best-price trades |
| `BookReplay` | a book and a reader that rebuilds it from the log events |
| `Logger` | producers, worker and destructor |
| `LocalExchange` | main thread, clients and bucket threads, called as the repository does |
| `ExchangeCalls` | the same exchange, under callers that keep to no order |
| `OrderParser` | the message format and the parser, as operators on byte sequences |
| `ClientFeed` | `client.cpp`, from the lines of the file to the orders of the exchange |
| `NetworkServer`, `MarketDataPublisher` | their actions, without a next-state relation of their own |
| `NetExchange` | the networked exchange, composed with these two |
| `ExchangeNoNet` | the exchange of `exchange_no_net.h` |
| `HiveProofs`, `OrderBookProofs`, `OrderBookRefinement`, `LoggerProofs`, `LocalExchangeProofs`, `ExchangeCallsProofs`, `NetExchangeProofs`, `ClientFeedProofs` | the theorems |
| `MC...` | symmetry, views, tickers, lines and layouts for TLC |

`OrderBook` extends `OrderTypes` and `Hive`, and instantiates `MatchingBook`;
`BookReplay` extends `OrderBook`; `ExchangeCalls` extends `LocalExchange`;
`ClientFeed` and `NetworkServer` extend `OrderParser`; `NetExchange` extends
`NetworkServer` and `MarketDataPublisher`.

### OrderBook and Hive

`levels[s]` is `bids_` or `asks_`, a function from prices to
`[orders |-> hive, total_qty |-> ...]`; `lookup` is `order_id_lookup_`, whose
iterators are triples of side, price and slot. `AddRejected`/`AddAccepted`,
`ModifyRejected`/`ModifyAccepted` and `CancelRejected`/`CancelAccepted` are the
early returns and the successful paths, `StartExecute`, `Match` and `EndExecute`
the call of `execute()`, an iteration, and its exit. `ret` is the result and
`logged` the event passed to the logger.

The hive keeps live elements by slot, the number of slots handed out, and the
free list: one node for each run of erased slots, in the run's first slot.
`insert` takes the head of the list; `erase` pushes, extends, moves or joins
runs. Only the first block is modelled. `BlockCapacity` bounds the slots of a
level; real blocks hold at least eight elements, and the runs stay below it, so
the bound is never what stops an action in them.

`StaleReads` is the set of orders that a reference into an erased slot can
yield: what was inserted there since, the order with its first bytes
overwritten by a free-list node (the model value `Garbled` as id), or the order
intact. When the level itself was destroyed the memory is the allocator's, and
the read is a choice among these. Memory reused for something other than an
order, and crashes, are not modelled.

Left out: timestamp, ticker, kind and status, which decide nothing inside the
book; a null logger; hash collisions (`operator==` is exact). `total_qty` is an
unbounded integer: `TotalsExact` shows it is never negative, and sums near 2^64
are out of scope. `modify(id, order)` is called with the order's own id by every
caller.

### Logger

The queue is a FIFO per producer, from which the worker takes the head of any.
It has a single consumer, so a failed `try_dequeue` always has a moment when all
FIFOs were empty and can be one step. Each critical section of the mutex is one
step, in particular the worker's test of `running_` up to the release of the
mutex inside `wait_for`. A dequeued event and its line are one step, since
nobody else sees the worker's local variable. The file is kept per producer,
because no order between producers is promised.
Nobody pushes once the destructor has begun: callers destroy the logger after
joining the threads that log.

### LocalExchange

`main` goes from construction through `start()`, `add_symbol()` for the
`Registered` symbols, the clients' time and `stop()`, as `client.cpp` and
`test_local_exchange.cpp` do. A client's `on_msg_received` is four steps
(receive, emplace the bucket, emplace the book, enqueue), an iteration of
`book_loop` three (test `running_`, dequeue, find and apply). A `find()` that
overlaps an insertion into the same map is a data race, modelled as a choice
between finding and missing the key; crashes are not modelled. Two clients
inside `bucketThreads_`, or inside the books of one bucket, one of them
inserting, is a race `MapsUnshared` looks for, and nothing past it is claimed:
the runs either have one client or have registered every symbol, where `emplace`
only looks up. Symbols are pairs of character codes, so that `get_bucket` is
modelled with its upper-casing and its ranges.

### ExchangeCalls

Every action of `LocalExchange`, and the calls its callers do not make:
`add_symbol()` before `start()`, among the clients, and after `stop()`; messages
before `start()`, while symbols are still being added, inside `stop()` and after
it; a `stop()` while symbols are missing or a client is inside
`on_msg_received()`; another `start()`; and the destructor. One thread makes all
calls but `on_msg_received()`, so no `add_symbol()` runs inside `stop()`, and
the destructor waits for the clients. An `add_symbol()` that overlaps a `find()`
in the same bucket is left out. `joinable` is the state of the buckets'
`std::thread`s. A bucket that a client inserts while `stop()` goes through
`bucketThreads_` may be missed by that loop (`escaping`, `JoinedSets`).
`idleBorn` and `retired` are history: buckets created while `running_` was
false, and buckets whose thread some `stop()` has joined. The properties name
exactly the cases in which the code leaves a bucket unserved or a thread
unjoined: the latter ends the program in the destructor (`Destroy`,
"terminated"), the former means that a restarted exchange accepts orders for its
old buckets and never applies them.

### OrderParser and ClientFeed

A message is a sequence of bytes, and `ParseMessage` and `Encode` are the two
sides of the format, with lengths per type, big-endian numbers and padded
fields. A line of the file is a record of the fields that `main()` looks at,
with `Null` for one that is missing or of another kind. Prices are integers in
cents; `Inexact` are those whose double times 100 is cut off below them, such
as 0.29. A line whose size is null and whose type the filter does not check ends
the program (`Throws`). `std::sort` is any permutation that is sorted by time.
Prices and sizes are those of a `uint32_t` (`Words`); `Htonl` and `Htonll` give
all their bytes, though TLC's own integers end at 2^31. Left out: the text of a
timestamp, a file that does not open, the measurements of time.

### NetworkServer, MarketDataPublisher and NetExchange

A connection is a sequence of messages, each with its place in the stream of
bytes (`at`), and the number of bytes read of it; a read returns any of
`ReadLengths`, and `Decode` is what the parser makes of the buffer: the message
that starts there, nothing if the buffer is too short for its type, or anything
(`Garbled`) if the buffer starts inside a message or the message is shorter than
its type wants and the next one's bytes are read for its fields. All handlers run
on one thread, so each is one step. `add_symbol()` is two steps, between which
a lookup may miss any symbol. A book thread's dequeue and the calls on its book
are one step, since nobody else sees the book.

Two places where the source had to be read as it must have been meant:
`start_reading()` says `exchange` for the member `exchange_`, and
`Exchange::network_` is null from the constructor on, so that whoever owns the
server starts and stops it. Nothing in the repository publishes market data or
runs the `io_context`; the environment does, and stops the latter before the
exchange is destroyed. `book_loop` logs each event a second time after the book
has; the log is not part of this module.

### ExchangeNoNet

Each caller of `add_order()` takes the mutex, inserts, releases it and looks its
book up; book threads poll their flag; `stop_all()` holds the mutex from the
flags to the last join. A lookup that overlaps an insertion, or two callers in
one book, is a data race with the outcomes "works" and "ends the program".

## 3. Runs

| Run | Shows | Bounds |
|---|---|---|
| `book` | types, lookup table, levels, totals; the log tells every resting order; the book implements `MatchingBook` | 3 ids, prices 1..3 with `MAX_PRICE` 2, quantities 1 and 2, one invalid side |
| `hive_and_execute` | exact free lists; an iteration of the matching loop always erases, and the loop ends | 4 orders at one price, quantity 0 |
| `logger` | a closed log is complete, events get flushed, the destructor returns | 2 producers, 4 events each |
| `exchange_registered` | nothing lost, doubled, reordered; no race; backlog worked off; `stop()` returns and leaves no thread | 2 clients, 2 orders each, 4 tickers in 2 buckets and none |
| `exchange_calls` | which threads stay unjoined and which buckets unserved; nothing is applied while stopped; `stop()` returns | 1 client, 3 orders, 3 tickers in 2 buckets, one of them added by `add_symbol()`; any number of restarts |
| `feed` | encoder and parser agree, nothing is lost, events arrive by time | all files of up to 3 lines out of 20, of every kind |
| `network` | framing, `stop()` and the quiet after it, the publisher, the accept loop | 1 peer, 2 messages of 2 lengths, 2 symbols, 1 accept error, 1 published event; any number of restarts |

Three order ids allow two orders in one level and one against them, so partial
fills, level removal and slot reuse meet; four in one level allow an erase that
joins the runs on both its sides while another order lives. The quantity there
is zero, the case in which the loop could spin; `MatchErases` is proved for all
quantities. Three orders of one client allow one before, one during and one
after a `stop()`. Two messages are what a slipped frame takes. The network run
adds one of its two symbols; that an order arriving while another symbol is
being added goes to no wrong book and overtakes none is shown by the theorem
only (`NetArrivedAsSent`). Ids are symmetric: no action tells one from another,
and symmetry is not used with liveness. The views leave out `ret` and `logged`,
which no action reads.

Runs that end in a violation, each of something the repository says of itself:

| Run | The code | The claim |
|---|---|---|
| `book_log` | `cancel()` logs through a reference to the erased slot; the id may be overwritten (`logs/test_orderbook.log`, lines 88 and 92, shows it). The "old" order of a modify event can be the new one (line 7) | "This logging provides traceability" (README.md:12) |
| `exchange_backlog` | `stop()` abandons queued orders | "Events processed" (`client.cpp:177`, README.md:17) |
| `feed_symbols` | tickers are cut to three characters, and instruments that agree in them share a book | "no cross-matching" (`test_local_exchange.cpp:125`) |
| `net_destructor` | a symbol added before `start()` or after `stop()` has a thread that no `stop()` joins, and the destructor ends the program with `std::terminate` | "Destructor - stops all threads and resources cleanly" (`exchange.h:40`) |
| `no_net` | `add_order()` uses `books_` without the mutex | "Concurrent add_order test completed without crash." (`test_exchange.cpp:261`) |

Clients whose messages create buckets and books themselves, without an
`add_symbol()` before, race on both maps: `MapsUnshared` fails as soon as clients
run with a symbol missing, which is its mutant (`Open_Early`). No caller in the
repository does so from two threads with messages that parse.
With a single client and symbols added on the fly, as `client.cpp` has it, the
race on a bucket's books remains: `find()` may miss and the order is dropped
(`FindOutcomes`). `NoOrderLost` therefore only holds when every symbol was added
first. README.md:10 speaks of a thread per ticker; the local exchange has one
per bucket of tickers, as `local_exchange.h` says.

Fairness. `OrderBook`: a thread inside `execute()` goes on. `Logger`: the worker
runs, `wait_for` times out, a destructor that has begun goes on; no producer is
obliged to push. With `MaxEvents` the load is finite: producers that never pause
would keep the worker from its explicit flush. `LocalExchange` and
`ExchangeCalls`: bucket threads run, `stop()` goes on when it can, and a client
inside `on_msg_received()` goes on; nobody is obliged to call anything.
`NetExchange`: book threads and the publisher's thread run, a call of the main
thread goes on, and a waiting connection is accepted; no peer and no caller is
obliged to act. In `ExchangeCalls` and `NetExchange` fairness ends with the
exchange (`Alive`): a destroyed exchange or a terminated program owes nothing,
and `PeersAccepted` excepts a peer that still waited then. `ClientFeed` and
`ExchangeNoNet` are checked for safety only. All are weak fairness of a thread
that the operating system schedules. `CHECK_DEADLOCK FALSE` is used where the
system really stops: after the logger is closed, after `stop()` or the
destructor, at the end of the file, and when the program has been terminated.

## 4. Proofs

* `HiveProofs`: `insert` uses a free slot, `insert` and `erase` keep the other
  elements in place and the free list exact, `begin` of a nonempty hive is live.
* `OrderBookProofs`: `Spec => []` of `TypeOK`, `LookupConsistent`,
  `LevelsConsistent` and `FreeListsExact`. None of them is inductive alone:
  erasing through a lookup entry is only safe if the entry is right, which needs
  that orders sit in the level of their side and price, which needs that
  `insert` never overwrites a live order, which needs an exact free list.
  `BookInv` is their conjunction, regrouped as `LevelsOK(levels)` and
  `Indexed(levels, lookup)`, so that the lemmas on inserting, erasing and filling
  one order apply to the intermediate states inside `modify()` and an iteration
  of `execute()`. `MatchErases` follows: what is stored is what the lookup table
  names, and an iteration takes at least one of its two orders out of the table.
  The step lemmas also say what each call does to the orders it
  does not name: nothing. `TotalsExact` says that a level's total is the number
  of the shares its orders hold, as a set of pairs (`Units`): inserting adds an
  order's pairs, erasing and filling remove as many as the code subtracts, and
  the subtraction is never of more than there is.
* `OrderBookRefinement`: `Spec => ImplementsMatchingBook`. Under `BookInv` the
  abstract map `BookOf` is determined by the levels, each accepted call changes
  it at one id, an iteration of `execute()` at the two it matches, and the best
  level's price is the best price of the abstract book. And
  `ReplaySpec => []RestingOrdersTraced`: each step that stores, changes or
  erases an order logs an event that the reader takes to the same effect on the
  orders that rest, whatever a stale reference makes of the event's other fields.
* `LoggerProofs`: `ClosedLogComplete` and `TypeOK`. The invariant says that the
  written and the queued events of a producer are its history, and that the
  worker leaves `run()` only with an empty queue and nobody pushing.
* `LocalExchangeProofs`: `StopQuiesces` (a thread belongs to a bucket that
  `stop()` visits, and clients move only while the exchange is open), `TypeOK`
  (a client past `get_bucket` has an order and a bucket), and `MapsUnshared`
  under the assumption `Registered = Symbols` (once clients run, every symbol
  with a bucket has its book, so that their `emplace` calls only look up, against
  each other and against the bucket's thread).
  Under the same assumption `NoOrderLost`: the positions in a bucket's line (what
  its thread has taken, and each client's FIFO behind it) at which a client's
  orders stand are in the order of the client's history (`LineOK`), and every
  step of the thread moves the boundary in that line without changing it.
* `ExchangeCallsProofs`: `UnjoinedAreIdleBorn`, `BucketsServed` and the action
  property `StoppedBooksUntouched`. The invariant ties `running_` to the main
  thread's place, keys of `bucketThreads_` to threads, and says that a stopped
  exchange has no thread inside an iteration: one started since finds `running_`
  false at its first test.
* `NetExchangeProofs`: `PublisherServed`, `PublishedDrained` and the action
  property `NetStoppedQuiet`. The invariant follows the publisher's thread through
  the main thread's `stop()`: it may leave its final drain only with an empty
  queue, and it is in that drain only after `running_` was cleared. A book thread
  that may run is one that `stop()` joins, so that none is inside an iteration when
  `stop()` has returned, and one started since goes into none. `ArrivedAsSent` has
  an invariant of its own: the messages of a stream lie one behind the other, a
  session of messages that all fill the buffer has always read up to where one
  starts or the stream ends (`InStep`), and every message at a book is from the
  part of the stream that has been read (`Genuine`). A buffer then holds a
  message that stands behind all that arrived before; a short read ends the
  session, which is what the step out of `InStep` takes.
* `ClientFeedProofs`: `OrdersAsFiled`, `FeedComplete` and `LifecycleInOrder`. The
  first rests on `ClientAndParserAgree`: for every line that `main()` sends, the
  parser's offsets are the client's, field by field, `Ntohl` undoes `Htonl`, and a
  message is rejected for a price or size of zero only. The invariant `FeedInv`
  says that events are in one-to-one correspondence with the lines read and not
  skipped, which any sort keeps (an injection of a finite set into itself is
  onto), and that the orders received are those of the events sent, by time.

Assumptions: prices, quantities and bounds are naturals, `BUY` and `SELL` are
side bytes, `Garbled` is not an id, registered symbols are symbols; ids, tickers
and messages are at least a byte long, and a read that falls short of a message
is shorter than the buffer. The fields of a line are naturals, 32-bit words and
sequences of bytes, as `main()` takes them from the JSON, or `Null`; a price cut
off below its cents is not zero. Sets of ids, producers, clients, peers, tickers
and lines, and the length of the file, are arbitrary.

Every invariant and every action property of a passing run is a theorem. Only
model-checked is liveness (`ExecuteReturns`, `EventuallyFlushed`, `CloseReturns`,
`BacklogCleared`, `StopReturns`, `ServedBacklogCleared`, `StopAlwaysReturns`,
`PeersAccepted`, `NetStopReturns`), which needs fairness and `ENABLED`, out of the
prover's reach. `MatchErases` is the part of `ExecuteReturns` that is not
fairness: every iteration makes the finite book smaller.

## 5. Not modelled

* `event_to_line` and the performance figures (formatting, timing), and the
  content of `order_t` that decides nothing.
* Further blocks of the hive, the concurrent queue, the hash maps, JSON and
  Boost.Asio themselves (third-party): their contracts are in the models that
  use them.
* In the client: the text of a timestamp, and a file that does not open.
* A network server restarted on its closed acceptor, and an `io_context` that
  outlives the exchange: no code of the repository does either, and both are
  listed as hazards.
* The IEX scripts (offline I/O) and `main.cpp` (empty).

What could still be added: a second peer in the network run, and for
`ExchangeNoNet` the safety of a single caller of `add_order()`.
