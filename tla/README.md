# A verification of the limit order book

TLA+ models of the matching engine, its data structures, the lock-free queue
that feeds it, the server around both and the programs that measure them; TLC
runs that check the models on small instances; and proofs, checked by TLAPS, that
hold for every size.

## 1. The system

| Component | Source | State | Operations |
|---|---|---|---|
| Matching engine | `OrderBook/book.cpp`, `book.hpp` | two price maps, an id map, an order pool | `addLimitOrder`, `marketOrder`, `cancelLimitOrder`, `modifyLimitOrder`, `reset`, two best-price getters, printing |
| Price level | `OrderBook/limit.cpp`, `order.cpp` | order count, volume, head and tail of a doubly linked list whose links are in the orders | `addOrder`, `removeOrder`, `fillVolume` |
| Price map | `OrderBook/flatmap.hpp` | array of optional levels, a bit per price packed in words, cached lowest and highest price | `begin`, `++`, `find`, `emplace`, `erase`, `at`, reverse iteration |
| Object pool | `OrderBook/pool.hpp` | block of slots, each a live object or a link of the free list; index of the first free slot | `construct`, `destroy`, `get`, `reset` |
| Ring buffer | `network/ringBuffer.hpp` | array of items, two atomic indices | `push` (gateway thread), `pop` (engine thread) |
| Exchange server | `network/main.cpp` | the ring, the book, a TCP connection, a UDP socket, two threads | accept, read loop, join; engine loop: pop, add the order, broadcast a market update |
| Gateway prototype | `network/gateway.cpp` | a ring nobody pops; not built by `CMakeLists.txt` | socket calls with error returns, read loop with warnings |
| Clients | `scripts/*.py` | orders sent, updates counted | send orders, listen to market updates, measure round trips |
| Benchmarks, simulator | `Benchmarking/*.cpp`, `OrderBook/benchmark_engine.cpp` | the test that runs, ids in use | lists of calls to one book |

How they interact. A book call runs on one thread: it walks the opposite price
map from its best level, walks each level's list, and for every order eaten up
changes the id map, the level and the pool, in that order; what is left rests
in the order's own map. A level and an order know each other by pool index, so
the pool, the level and the id map are three views of the same orders that must
never disagree. The map's iterators are used across the erasures the loop makes.
The gateway thread and the engine thread share the ring and nothing else. The
gateway's input is a TCP stream, which has no boundaries between orders; the
engine's output is one UDP datagram per order, which nobody acknowledges.

What is hard here:

- *Cursors under mutation.* The matching loops hold an iterator and an index
  into structures they take apart, and a destroyed order's memory is at once a
  free-list link.
- *Redundant state.* Level size and volume, the map's bits and cached edges,
  the id map: each repeats what another structure says.
- *Failures half way.* An exhausted pool, or a price beyond the map, throws after
  the order has traded, the second after a slot was taken. No caller catches.
- *Two threads without a lock.* The ring relies on two indices, on acquire and
  release, and on one slot that is never used.
- *A network that is not checked.* Short reads are dropped, the result of `push`
  is ignored, an update is sent once, a socket that fails stops one thread of two,
  and a client counts on getting everything.
- *Measurements that assume a state of the book.* Five tests share one book; each
  is meaningless if its orders trade, or do not, against its assumption.

What makes each component right:

- Pool: free list and live slots partition the block (`FreeListInv`).
- Level: a FIFO queue, linked both ways, whose counters agree (`QueueInv`, `VolumeInv`).
- Map: bits, array and edges agree; the scans find the neighbours; together an
  ordered map (`Coherent`, `ScansExact`, `ImplementsPriceMap`).
- Book: ids lead to orders (`IndexInv`); the cursors survive (`CursorInv`); the
  book is not crossed (`NotCrossed`); trades go by price, then time
  (`PriceTimePriority`); a modify always finds the slot its cancel
  freed (`ModifyKeepsASlot`), though a new price of `MAX_PRICE` or more makes `emplace`
  throw after the cancel and the order is lost, in the code as in the model; the
  loops get somewhere with each turn (`LoopsProgress`), so that calls end
  (`CallEnds`); a call half way has taken what priority gives it (`MidCallInv`), so
  that it is an atomic match in the end (`ImplementsPriceTimeBook`).
- Ring: no data race, never overwritten (`NoDataRace`, `NeverWrapsAround`), a
  FIFO queue (`ImplementsBoundedFIFO`) that delivers (`Delivery`).
- Server: orders come from the stream whole and in order, and only a full ring
  loses one (`FramedStream`); one update per order taken (`UpdatePerOrder`), with
  the true best prices (`QuotesTrue`); what was accepted is published
  (`AcceptedIsPublished`), unless the engine had no socket or the book threw; a full
  ring never holds up the gateway (`GatewayIsNotHeldUp`); the benchmark ends (`BenchmarkEnds`), and only when it
  measured everything (`EveryRoundTripCounted`).
- Prototype: every byte is in the ring or in a warning (`AllAccountedFor`); it reads
  to the end (`ReadsToTheEnd`) and ends (`EndsAfterClient`).
- Workloads: each test meets the book it assumes (`CallsTakeEffect`,
  `PassiveLoadsRest`, `AggressorsTakeAll`).

## 2. The modules

```
 ObjectPool   Limit   PriceMap          OrderedPriceMap <== FlatMap
       \        |      /  \____________/                      |
        \       |     /                                  FlatMapProofs
             Book  ------ BookProperties ------ MCBook
               |                 \_____________ BookProofs, ObjectPoolProofs
        BookRefinement ==> PriceTimeBook  (proved in BookProofs)
                             |       \_________ Workloads --- WorkloadProofs
                             |
                         Exchange ------------- ExchangeProperties
                         /      \                  |        \
                  Ingress     BoundedFIFO      MCExchange   ExchangeProofs
                         \      /    ^^
                     GatewayPrototype  SPSCRingBuffer ------ RingBufferProofs
                            |
                      GatewayProofs             NumberLemmas (for the proofs)

 (==> and ^^ : implements;  MC... : instances for TLC)
```

**ObjectPool** - `pool` and `head_free_index` as in `pool.hpp`. A slot holds an
object or a `[next_free_index]` record; an assumption says that the two can be
told apart, which is what the discipline of `construct` and `destroy` provides for
the union. The actions are the public methods; `Book` composes `allocate`,
`construct`, `deallocate` and `reset` into its own steps.

**Limit** - operators, no state: the level after a call and the pool after it,
one pair each for `addOrder` and `removeOrder`, one operator for `fillVolume`.

**PriceMap** - what `Book` assumes of a price map: which prices are in it, where an
iteration begins, what follows a price. **FlatMap** is the real one (bits in
words, edges, scans), and **OrderedPriceMap** the abstract machine over the
operators of `PriceMap` that `FlatMap` implements. So the engine is checked
against the contract and the map against the same contract.

**Book** - the engine. `pc` is where a call is: `"idle"` between calls, `"level"`
at the head of the loop over levels, `"order"` at the head of the loop over a
level's orders, `"threw"` after an exception.

| Action | Code (`book.cpp`) |
|---|---|
| `AddLimitOrder`, `MarketOrder` | entry of the calls: duplicate test, locals, `begin()` |
| `EnterLevel` | outer loop test and `getHeadOrder` |
| `FillPartly` | inner loop, resting order larger than what remains |
| `FillWholly` | inner loop, resting order eaten up: id map, level, pool, saved next index |
| `LeaveLevel` | `erase` if the level is empty, `++` otherwise |
| `Rest` | slot, `find` or `emplace`, `addOrder`, id map |
| `Finish` | nothing left, or the remainder of a market order dropped |
| `ThrowExhausted` | `construct` throws |
| `ThrowOutOfRange` | `emplace` throws, after `construct` |
| `CancelLimitOrder`, `ModifyToZero`, `ModifyInPlace`, `Reset` | the whole call; they have no loop over orders |
| `ModifyByReplace` | the cancel, and the entry of the add that follows |

The matching loops are in the code four times (buy and sell, limit and market)
and in the model once; `RestingSide` and `Crosses` hold what differs. The
variable `ahead` is a history variable: the slots that queued before a slot. It is
how arrival order is stated without looking at the links.

**PriceTimeBook** - the abstract book: a set of orders, of each of which it is known
which others queue before it at its price. A call is one step. What a resting order
gives up is computed at once, from the shares of the orders that outrank it
(`Given`): there is no loop, no list and no slot. **BookRefinement** adds two history
variables, the abstract book a running call has found and the shares it came with,
and states that `Book` implements it. What rests is read off the id map, the pool
and the order of arrival (`Resting`); that the links agree with the order of arrival
is `QueueInv`. The call takes effect when it returns. Not only is every step a step
of the abstract book or a stutter: each call has the effect of the abstract call
with the same name and arguments (`SameCall`), so that a modify cannot pass for a
cancel. `FlatMap` is held to its contract in the same way (`SameOperation`).

In the middle of a call the engine's book is neither the old nor the new one.
`MidCallInv` says what it is: the book the call found, less some shares taken from
orders the call may trade with, where an order has given up its first share only
after all that outrank it gave up their last, and what is left of the call's shares
was taken from nobody.

**SPSCRingBuffer** - both methods statement by statement. Each atomic is the
sequence of the values stored in it, and a load may return any value not older
than the last one the thread has seen, so stale indices are covered. Two ghost counters
record what an acquire load has made known of the other thread's copies; that is
how the absence of a data race is stated. An item has two words and is
copied one word at a step, so torn items would show. **BoundedFIFO** is what it
implements.

**Ingress** - what the two gateways share: a TCP connection that keeps the order
of the bytes and no boundaries. An order is `OrderLen` bytes and a byte is known by
its place in the stream, so an order that was read is the place of its first
byte, and it is a real one if and only if that is a multiple of `OrderLen`.

**Exchange** - `main.cpp` and a client. It is composed of `Ingress`, of the queue
`BoundedFIFO` that the ring is shown to implement (its items are places), and of
the book `PriceTimeBook` that the engine is shown to implement. `faults` is chosen
at the start and says what goes wrong: segments that split, a connection that
is reset, sockets that cannot be made, datagrams lost or doubled. `client` is the
benchmark, the bot, or anyone who sends what he likes.

| Action | Code |
|---|---|
| `ClientSends`, `ClientCloses`, `Hear` | `benchmark_netowork.py`, `bot.py`: `sendall`, `close` after the listener was joined, `recvfrom` |
| `Accept`, `GatewayReads`, `GatewayBreaks`, `Join` | `main`: `accept`, one `read` (a short one is dropped), the `break`, the join and return |
| `GatewayOffers`, `GatewayStores` | `order_queue.push`: test for room by what is known of the consumer, then the store |
| `EngineBoots`, `EnginePops` | `engine_loop`: socket or return; `pop` and the copy of the order |
| `EngineAdds` | `addLimitOrder`; an exception ends the process |
| `EnginePublishes` | the `MarketUpdate` and `sendto` |
| `ConnectionFails`, `Lose` | the network |

A misframed order reads as anything (`Garbled`), within the fields of the struct
(`NetworkOrder`). The two best-price getters read the front of the book (`Front`).
The properties are in **ExchangeProperties**.

**GatewayPrototype** - `gateway.cpp` over the same `Ingress` and queue, with each
socket call and its error return; nobody pops.

**Workloads** - each benchmark, each test of the harness and the simulator as the
list of calls it makes; `Step` makes the next call on `PriceTimeBook`, `NextTest`
resets the book between the tests of the harness.

## 3. The runs

| Run | Bounds | Shows |
|---|---|---|
| `object_pool` | 4 slots, 2 object values | `TypeOK`, `FreeListInv` |
| `book` | 3 slots, 4 ids, prices 0-3 of which 3 is out of range, 0-2 shares | the ten properties of the engine, on states and on steps |
| `book_live` | 2 slots, 3 ids, prices 0-2 of which 2 is out of range | `CallEnds` |
| `book_refinement` | as `book` | `MidCallInv`, `ImplementsPriceTimeBook` |
| `book_modify` | as `book_live` | a violation, see section 6 |
| `flat_map` | 6 prices, words of 2 bits, 2 values | `TypeOK`, `Coherent`, `ScansExact`, `ImplementsPriceMap` for both directions |
| `ring_buffer` | 4 slots, 9 items | `TypeOK`, `NoDataRace`, `NeverWrapsAround`, `ImplementsBoundedFIFO`, `Delivery` |
| `exchange` | orders of 2 bytes, at most 3 of them, 2 in the ring and 2 in the pool; benchmark of 2 orders, bot, and any of four orders; seven sets of faults | the eight properties of the server |
| `exchange_ticker` | the same without faults | a violation, see section 6 |
| `gateway` | 4 orders of 3 bytes, 2 in the ring | `AllAccountedFor`, `ReadsToTheEnd`, `EndsAfterClient` |
| `gateway_framing` | the same | a violation, see section 6 |
| `workloads` | the tests' own prices and sizes; counts scaled as below | `CallsTakeEffect`, `PassiveLoadsRest`, `AggressorsTakeAll` |

Why these are enough to be interesting. Three slots give a queue with a head, a
middle and a tail, two levels of which one holds two orders, and a pool that can
be exhausted; four ids leave one that cannot rest, for duplicates and reuse.
Shares 0-2 give the empty order, partial, exact and multiple fills. One
price beyond the map makes `emplace` throw. Nothing bounds the number of calls:
the state space is finite, so sequences of any length are covered. Words of two
bits have scans that stay in a word, reach the next or skip one, and, as
200000 is divisible by 64, a last word that is never used. Nine items take the
ring's indices more than twice round.

In `exchange` the ring is smaller than the number of orders and the pool too, so
both overflow; the benchmark's orders just fit into the ring, as its 1000 fit
into 1023 items; an order of two bytes can be split in its middle; the four free
orders trade, use an id twice, quote price 0 and lie beyond the price map. Faults
come one set at a time, with loss and duplication also together. In `workloads`
the loops that repeat with a period (prices modulo 1000, 100 or 50, sides modulo
2) run for more than two periods of the shorter ones (210 calls; 60 warm-up
pairs of a cycle of 50), the sweeps have 5 levels in place of 50, drawn prices are
the ends of their ranges, and the simulator makes three of its random
transactions. What these bounds do not reach is a pattern of 1000 prices that
starts again.

Ids are interchangeable and declared symmetric in the safety runs; the liveness
run has no symmetry. Deadlock is not checked where the system may stop: the book
after an exception, the ring after the last item, the
programs when they return.

Fairness. `book_live` assumes only that a running call goes on (weak fairness of
`Run`), not that anybody makes a call. `ring_buffer` assumes that the engine keeps
popping, which its `while (true)` does, that a push once begun is finished, and
that a spinning load returns the newest index in the end: the language promises that
a store becomes visible in finite time. Nothing is assumed of the client.
`exchange` assumes weak fairness of each thread, which the scheduler gives them; of
each datagram, which arrives unless it is lost; and of the benchmark, whose script
does not stop. The bot and the free client may stop anywhere, and the network is
never obliged to fail. `gateway` assumes fairness of the process only.

Every property is also run against a changed model, in which one operator has
a plausible slip: the comments `Mutant:` in the modules say which.

## 4. What is proved

For every capacity, map size, set of ids, prices and quantities that the named
assumptions allow (`PoolAssumption`, `BookAssumption`: sizes are positive naturals,
prices and quantities are naturals, the no-level marker is not a level):

`ObjectPoolProofs`: `PoolTyped` and `FreeListExact`, that is `TypeOK` and
`FreeListInv` of the pool. `FreeListInv` names a list of the free slots in link
order; taking a slot drops its head, giving one back puts it in front. An
auxiliary conjunct says that slots with links and live slots stay apart.

`BookProofs`: the inductive invariant (`BookInvariant`)

    BookInv == TypeOK /\ FreeListInv /\ IndexInv /\ QueueInv /\ CursorInv /\ NotCrossed

and from it `BookTyped`, `LevelsAreQueues`, `IdsLeadToOrders`, `BookKeepsFreeList`,
`CursorsSurvive`, `BookNeverCrossed`, `ModifyFindsASlot`, `VolumesAreSums` and the
action properties `TradesByPriority` and `LoopsNeverSpin`.

None of the parts is inductive alone, and this is the argument:

- That a fill takes the oldest order needs the cursor to be at a head
  (`CursorInv`), which after a fill needs the successor of a head to be the new
  head, which is `QueueInv`.
- `QueueInv` speaks of the live orders at a side and price. That a new slot
  is not among them is `FreeListInv`; that a cancelled order is at the level where
  it is looked for is `IndexInv`.
- `IndexInv` after `Rest` needs the id to be free still, although the loop has
  erased other ids: its last conjunct carries that through a call.
- `NotCrossed` after `Rest` needs the loop to have ended because the best opposite
  price was not acceptable: `CursorInv` at `"level"`.
- `ModifyKeepsASlot` at the end of a call needs only that a fill adds to the free
  list and never takes from it, and that the cancel put one slot there.
- `VolumeInv` is inductive relative to `BookInv`: which orders a level holds before and
  after a step is known from the queues, and then a sum gains a term, loses one
  or has one reduced (`VolumeWith`, `VolumeWithout`, `VolumeReduced`). That the
  volume is a sum of shares of which one is being subtracted is what keeps
  `fillVolume` from its catch.
- `LoopsProgress`: `TurnsLeft` counts live orders and levels. A fill frees one slot; a
  level that is left with shares remaining is empty by `CursorInv` and `QueueInv`,
  so it is erased and not merely passed.

There is one lemma per action (`...Keeps`), each with the conjuncts it can
disturb, and lemmas about queues (adding at the tail, removing anywhere), about the
first price of a set and about levels under update.

The facts about sums that these proofs need are in `NumberLemmas`. A sum is defined by
recursion over a set, and induction over sets cannot be instantiated here; each
fact is proved instead by taking, in a finite set, a smallest part for which it
fails (`LeastSubset`) and removing one element.

The second half of `BookProofs`, for the same constants, is about the refinement:
`MatchingByPriority`, that is `MidCallInv`, and `BookIsPriceTimeBook`, the refinement with every call's name and
arguments. The argument has three parts:

- Of `MatchedSoFar`, about books as mathematical objects: it holds when nothing was
  taken; it is kept when the first order of those left gives up some or all of its
  shares (`MatchedMore`); and when no share or no order is left it determines the
  book, which is then `Matched`, the one the abstract call computes
  (`MatchedAtTheEnd`). The middle fact of the last one is `GivenIsTaken`: a sum over
  the orders that outrank a given one is what they have given up, all of it.
- Of `Resting`, about the engine's representation: what it is after an order was
  reduced, removed or added (`RestingReduced`, `RestingWithout`, `RestingJoined`), that
  it is ranked (`RestingRanked`), and that it has as many orders as the pool has live
  slots, so that the pool is exhausted exactly when the abstract book is full
  (`RoomLeft`, `NoRoomLeft`). The slot that a fill recycles at once
  is no danger to the history because `ahead` and `Resting` speak of ids.
- One lemma for each action: the entry of a call establishes `MidCallInv`, a turn of
  the loops keeps it, and each end of a call is the abstract call (`FinishAnswers`,
  `RestAnswers`, `ThrowAnswers`, `CancelAnswers`, `ModifyAnswers`, `ResetAnswers`). That the
  loop took the right order next is `CurrentIsFirst`, from `CursorInv`
  and `QueueInv`; that nobody is left when it ends is `NobodyLeft`.

The invariant also has to remember how the call began (`CallStands`): a modify whose
new terms would have kept the order's place must not be in the loops, or its abstract
counterpart would be another branch.

`FlatMapProofs`, for every number of prices and word length (`FlatMapAssumption`):

    MapInv == TypeOK /\ Coherent /\ IteratorValid

gives `MapTyped`, `MapCoherent`, `MapScansExact` and `MapRefinement`. The scans are the
heart: that looking at the rest of a word and then at whole words finds the nearest
price is arithmetic of quotient and remainder (`NumberLemmas`), and that a cached
edge is still the least or greatest after an erase is a scan that found the
nearest. `IteratorValid` is what makes `erase` and `++` those of the ordered map.
The refinement is a step simulation, with one lemma for each operation, under
the mapping that forgets bits and edges.

`RingBufferProofs`, for every capacity and number of items (`RingAssumption`):

    RingInv == TypeOK /\ Indices /\ Views

gives `RingTyped`, `RingNeverWraps`, `RingHasNoDataRace`, and with an invariant about
the words of the slots `RingRefinement`. `Indices` says that each stored index is a
counter modulo the capacity; `Views`, that what a thread has acquired, however
old, is enough for the step it is in. The counters are never a whole capacity apart,
so two that are equal modulo the capacity are equal: that is why the slot written
is not one being read, and why the word read is the word stored.

`ExchangeProofs`, for every order length, ring, pool, client and set of faults
(`IngressAssumption`, `ExchangeAssumption`: orders have the fields of the struct, all
natural numbers): `ExchangeTyped`, `ExchangeFramed`, `ExchangeUpdates`,
`ExchangeRoundTrips` and `ExchangeQuotes`. The first invariant, `ExchangeInv`, adds to
the properties the order in hand, which lies behind all that were accepted, and
the order being processed, which is the one its bytes spell. The second,
`CountInv`, is a chain of counts: received and travelling updates are at most
the published ones, those at most the accepted orders, those at most the sent
ones; a benchmark that ends has received as many as it sent, so all are equal, no
order was refused, and the n-th update is about the n-th order. The third, `QuoteInv`,
is about the book between updates: the orders of a side are totally ranked
(`Sorted`) and no bid reaches an ask (`Uncrossed`), and the order being processed was
really sent. The abstract match keeps both: whoever is left after it was there
before (`MatchedLeaves`), and if the incoming order has shares left to rest, everyone
acceptable to it is gone (`JoinedIsUncrossed`). A ranked finite side has a front
(`FrontExists`), whose price is the one quoted (`BestIsTop`).

`GatewayProofs`: `GatewayAccounts` and `GatewayReads`, from the same facts and that
nothing is read before a client was accepted.

`WorkloadProofs`, for every number of orders, levels, warm-up pairs and random
transactions, and every set of prices and quantities to draw from, within
`WorkloadAssumption`. That assumption is what the programs are written for: no
program makes more calls than the pool has slots (10 000 000; the longest makes
1 010 000), there are at most 100 levels, which is as far as the cascade's crossing order at
10100 reaches (the source has 50), prices fit the price map, and the worst case
tests draw bids below asks, as the ranges 1-49000 and 51000-100000 do.
`CallsTakeEffectAlways`, `PassiveLoadsRestAlways` and `AggressorsTakeAllAlways` follow
from one invariant, `WorkCorrect`:

    WorkInv == Roomy /\ ScalingInv /\ SimulatorInv /\ WorstInv /\ TailInv /\ ScaleInv
               /\ PingPongInv /\ SweepInv /\ ChurnInv /\ CascadeInv /\ ThroughputInv

The properties are not inductive: they say that a book is empty, or how many shares are
left, at the end of a program, or which ids rest, and neither says at what prices. Each
part says for one program which orders rest after n calls, with how many shares, and from
which ranges bids and asks are; `Roomy` says for all of them that n calls leave at most n orders,
so that the pool is never full and no call fails. The argument:

- Of the atomic engine (`PriceTimeBook`): an order nobody accepts joins and changes nobody
  (`SubmitRests`); one that asks for at least what those who accept it have takes all of
  it (`MatchedWithAll`); one that the best of them can serve trades with that
  one only (`MatchedWithBest`); and whatever a call does, it leaves at most one order
  more and no exception (`SubmitIsFine`, `LessIsFine`).
- Two ranges of which every bid is below every ask never trade (`OrderRests`). So the worst
  case, tail latency and scale degradation tests, the warm-up and quotes of the market
  maker and the building of the sweep and the cascade only add.
- The market sweep asks for exactly the shares of `Levels` orders of 10, the crossing order
  of the cascade for those of `10 * Levels` orders of 100: sums over orders of one size
  (`SumConstant`). The passive bid at 9900 is on the crossing order's own side and
  stays. In the throughput test each second order meets exactly one.
- The market maker's order at the end finds its last bid at 9981, above every bid of the
  warm-up, which are at most 9949 (`InPlace`): that is why it takes the one remaining
  order and not an old one.
- The simulator's and the scaling benchmark's orders trade in any way; what is kept is that
  ids still to come are free.

Only model-checked:

- `CallEnds`, `Delivery`, `AcceptedIsPublished`, `GatewayIsNotHeldUp`, `BenchmarkEnds`,
  `EndsAfterClient`:
  liveness under fairness, out of the prover's reach. Of `CallEnds` the safety half is
  proved (`LoopsNeverSpin`): each turn lowers a natural number. What is left to the
  model checker is that a turn is always possible and that a running call
  takes it.
- The properties of section 6, which fail.

## 5. What is abstracted, and what is not modelled

- Share counts and prices are naturals. No share count grows once given and the
  64-bit volume holds the shares of all slots, so nothing in the code can wrap.
- The id map is a function, not a hash table. `std::unordered_map` may allocate;
  running out of memory is not modelled.
- An exception leaves `pc = "threw"` for ever: no caller in the repository catches it.
- `Limit` objects are in the map by value: `EraseIfEmpty` replaces one by `NoLimit`.
- `lastTradedPrice` and `tradeOccurred` are computed and never used; left out, as
  are the order's type (always `Limit` in the book), printing and error messages.
- The id of a market order is unused by the code and not in the model.
- A word of the price map is the set of its bits. The widths of the shifts by which
  `flatmap.hpp` makes its masks (`1ULL << (bit_idx + 1)` would be undefined at bit 63,
  which line 98 avoids) are outside the model; `ScansExact` is about what the masks
  select, at every bit of a word and at both ends of the map.
- The map's const iterators make the same walks as the others and change nothing.
- The exchange takes one connection, as `main` accepts one. Bytes are places, and
  what misframed bytes spell is any of a set. Clocks, statistics and printing are
  left out; so are the buffer limits of the kernel, beyond the loss of datagrams.
- The ticker has no state to model: it unpacks 12 bytes (`ticker.py:13,16`) and an
  update has 20 (`main.cpp:23-30`), so its test for the length (`ticker.py:15`) silently
  ignores every update.
- Workloads: prices are drawn from small sets, and how long a call takes, which is
  what these programs print, is not a property of their calls.

What the properties of the server do not promise. If the engine thread had no socket,
or the book threw, the orders still in the ring are lost (`main.cpp:46,70`): that is
what the code does, and `AcceptedIsPublished` says so. What is checked is that the rest
goes on as it should: `GatewayIsNotHeldUp`, and `UpdatePerOrder` for the order on which
the book threw. Where segments are split, `FramedStream` says only that orders do not
overlap and keep their order; the misframing itself is shown by `PerfectOrders`
(section 6). An update with 0 for a side may mean an empty side or an order at price 0
(`book.hpp:56-65`): `QuotesTrue` accepts either, as the code gives no way to tell.

Not modelled: time and cache behaviour; memory exhaustion; signals other than a
client's disconnection.

## 6. Findings

`book_modify`: a modify to the same price and the same size sends the order to
the back of its queue. The rules quoted in `book.cpp` (lines 207-220) and the
comment of the branch (line 265, "Price changed OR size increased") give two
reasons to lose the place, and this is neither. TLC's trace: one order
rests, another joins behind it, the first is modified to what it is.

`gateway_framing`: `gateway.cpp:74` says "We received a perfect binary order!" of
every read that returns 17 bytes. After one short read, whose bytes are dropped,
such a read holds the end of one order and the beginning of the next. The trace:
one byte is read, and the next full read is pushed misframed. `main.cpp` does the
same without saying so; its `FramedStream` promises whole orders only where
segments are never split.

`exchange_ticker`: `main.cpp:81` puts the incoming order's limit price into
`last_traded_price`, which `ticker.py:19` prints as "Last Traded". The trace: the first order
rests in an empty book and its price is published as traded.

## 7. Plan

1. *(done)* pool, level, book, its properties and proofs; price map; abstract
   book; ring buffer.
2. *(done)* the server, the prototype, the clients and the workloads.
3. *(done)* proofs of the ring, the map and the server, and two of the three
   refinements.
4. *(done)* sums and with them `VolumeInv`; the refinement of `PriceTimeBook` with the
   invariant of a call half way; the quotes; progress of the loops.
5. *(done)* the benchmarks for every number of orders and levels: every invariant
   of a passing run is now also a theorem.
6. The safety halves of the other liveness properties: that an item in the ring
   is popped by the next load that sees it, and that each step of an engine which has
   booted brings the order in hand closer to its update.
7. `Book` over `FlatMap` directly, or a slot allocator refined by `ObjectPool`, if it
   tells more than the contract between them does.
