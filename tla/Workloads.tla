----------------------------- MODULE Workloads -----------------------------
(***************************************************************************)
(* The programs that drive the matching engine in order to measure it:     *)
(* the benchmarks of Benchmarking/benchmark.cpp, the harness               *)
(* OrderBook/benchmark_engine.cpp, which runs five tests on one book, and  *)
(* Benchmarking/simulator.cpp.  A program is the list of the calls it      *)
(* makes; the book is the abstract one that Book implements.  What the     *)
(* programs assume about the state of the book is checked here, since a    *)
(* benchmark that assumes wrongly still prints a number.                   *)
(***************************************************************************)
EXTENDS Integers, Sequences

CONSTANTS
  numOrders,        \* orders of the tests that count through them
  numRandom,        \* orders of the tests that draw prices
  Levels,           \* 50 price levels to sweep
  WarmUp,           \* 1000 pairs of orders before the market maker's cycle
  INITIAL_ORDERS,   \* 10000, in the simulator
  NUM_TRANSACTIONS, \* 1000000
  BidDist, AskDist, \* prices drawn by the worst case tests
  PriceDist, QtyDist \* drawn by the simulator

VARIABLES
  program,        \* the benchmark or test that is running
  n,              \* number of calls it has made
  currentOrderId, \* the simulator's next id
  activeIds,      \* ids the simulator cancels and modifies, gone or not
  book, down      \* its Book, see PriceTimeBook

vars == <<program, n, currentOrderId, activeIds, book, down>>

Capacity == 10000000
MAX_PRICE == 200000

B == INSTANCE PriceTimeBook WITH Id <- {}, Price <- {}, Quantity <- {}

-----------------------------------------------------------------------------
Add(id, side, shares, price) ==
  [op |-> "add", id |-> id, side |-> side, shares |-> shares, price |-> price]
Market(side, shares) == [op |-> "market", side |-> side, shares |-> shares]
Cancel(id) == [op |-> "cancel", id |-> id]
Modify(id, shares, price) == [op |-> "modify", id |-> id, shares |-> shares, price |-> price]

Turn(i, first, second) == IF i % 2 = 0 THEN first ELSE second

\* BM_AddLimitOrders_Scaling
Scaling(i) ==
  Add(i, Turn(i, "Buy", "Sell"), 100 * ((i % 5) + 1), 10000 + (i % 1000) - 25)

\* BM_PingPong_Fills
PingPong ==
  <<Add(1, "Buy", 1000000, 10000), Add(2, "Sell", 1000000, 10001),
    Add(3, "Buy", 10, 10001), Add(4, "Sell", 10, 10000)>>

\* BM_MarketSweep
Sweep(i) ==
  IF i < Levels THEN Add(i + 1, "Sell", 10, 10000 + i) ELSE Market("Buy", 10 * Levels)

\* BM_MarketMakerChurn
Churn(i) ==
  LET cycleStartId == 2 * WarmUp + 1
      j == i - 2 * WarmUp
  IN  CASE j < 0 -> Turn(i, Add(i + 1, "Buy", 100, 9900 + ((i \div 2) % 50)),
                            Add(i + 1, "Sell", 100, 10100 - ((i \div 2) % 50)))
        [] j \in 0 .. 19 -> Add(cycleStartId + j, "Buy", 100, 10000 - j)
        [] j \in 20 .. 38 -> Cancel(cycleStartId + j - 20)
        [] OTHER -> Market("Sell", 100)

\* Mutant: bids and asks are drawn from one range, as before the comment "FIX".
WorstCaseUnsegregated(i) ==
  {Add(i + 1, Turn(i, "Buy", "Sell"), 100, p) : p \in BidDist \cup AskDist}

\* BM_WorstCaseCacheMiss, runWorstCaseLatencyTest
WorstCase(i) ==
  {Add(i + 1, Turn(i, "Buy", "Sell"), 100, p) : p \in Turn(i, BidDist, AskDist)}

\* runTailLatencyTest, whose loop starts with 1
TailLatency(i) ==
  Add(i, Turn(i, "Buy", "Sell"), 100, Turn(i, 10000 - (i % 100), 10100 + (i % 100)))

\* runScaleDegradationTest
Scale(i) == Add(i, "Buy", 10, IF i <= numOrders THEN 5000 - (i % 1000) ELSE 5001)

\* Mutant: the crossing order asks for the depth of one level less.
CascadeShort(i) ==
  CASE i <= 10 * Levels -> Add(i, "Sell", 100, 10000 + ((i - 1) \div 10))
    [] i = 10 * Levels + 1 -> Add(i, "Buy", 100, 9900)
    [] OTHER -> Add(i, "Buy", 1000 * (Levels - 1), 10100)

\* runPassiveVsAggressiveTest
Cascade(i) ==
  CASE i <= 10 * Levels -> Add(i, "Sell", 100, 10000 + ((i - 1) \div 10))
    [] i = 10 * Levels + 1 -> Add(i, "Buy", 100, 9900)
    [] OTHER -> Add(i, "Buy", 1000 * Levels, 10100)

\* runThroughputTest
Throughput(i) == Add(i, Turn(i, "Buy", "Sell"), 100, 10000)

\* The simulator's seeding, and then its mix of random actions.
Simulator ==
  LET Adds == {Add(currentOrderId, s, q, p) : s \in B!Side, q \in QtyDist, p \in PriceDist}
  IN  IF n < INITIAL_ORDERS THEN Adds
      ELSE Adds \cup {Cancel(id) : id \in activeIds}
             \cup {Modify(id, q, p) : id \in activeIds, q \in QtyDist, p \in PriceDist}
             \cup {Market(s, q) : s \in B!Side, q \in QtyDist}

\* How many calls a program makes, and which one may come next.
Length ==
  [scaling |-> numOrders, pingpong |-> 4, sweep |-> Levels + 1, churn |-> 2 * WarmUp + 40,
   worst |-> numRandom, tail |-> numOrders, scale |-> numOrders + 1,
   cascade |-> 10 * Levels + 2, throughput |-> numOrders,
   simulator |-> INITIAL_ORDERS + NUM_TRANSACTIONS]

\* No program makes more calls than the pool has slots, bids are drawn below
\* asks, and the crossing order's 10100 reaches every level of the cascade.
ASSUME WorkloadAssumption ==
  /\ {numOrders, numRandom, Levels, WarmUp, INITIAL_ORDERS, NUM_TRANSACTIONS} \subseteq Nat
  /\ \A p \in DOMAIN Length : Length[p] <= Capacity
  /\ Levels <= 100
  /\ BidDist \cup AskDist \cup PriceDist \subseteq 0 .. MAX_PRICE - 1
  /\ \A bid \in BidDist, ask \in AskDist : bid < ask
  /\ QtyDist \subseteq Nat

Calls ==
  CASE program = "scaling" -> {Scaling(n)}
    [] program = "pingpong" -> {PingPong[n + 1]}
    [] program = "sweep" -> {Sweep(n)}
    [] program = "churn" -> {Churn(n)}
    [] program = "worst" -> WorstCase(n)
    [] program = "tail" -> {TailLatency(n + 1)}
    [] program = "scale" -> {Scale(n + 1)}
    [] program = "cascade" -> {Cascade(n + 1)}
    [] program = "throughput" -> {Throughput(n + 1)}
    [] program = "simulator" -> Simulator

-----------------------------------------------------------------------------
\* Each benchmark of benchmark.cpp has a new Book; the harness begins with
\* the first of its tests.
Init ==
  /\ program \in {"scaling", "pingpong", "sweep", "churn", "worst", "tail", "simulator"}
  /\ n = 0 /\ currentOrderId = 1 /\ activeIds = {}
  /\ B!Init

\* A call for an id that is taken, or gone, changes nothing.
Execute(c) ==
  CASE c.op = "add" ->
         IF c.id \in B!Ids(book) THEN UNCHANGED <<book, down>>
         ELSE B!AddLimitOrder(c.id, c.side, c.shares, c.price)
    [] c.op = "market" -> B!MarketOrder(c.side, c.shares)
    [] c.op = "cancel" ->
         IF c.id \in B!Ids(book) THEN B!CancelLimitOrder(c.id) ELSE UNCHANGED <<book, down>>
    [] c.op = "modify" ->
         IF c.id \in B!Ids(book) THEN B!ModifyLimitOrder(c.id, c.shares, c.price)
         ELSE UNCHANGED <<book, down>>

\* Every order has an id of its own, a market order too, but only limit
\* orders are remembered for a cancel or a modify.
NextIds(c) ==
  /\ currentOrderId' = IF c.op \in {"add", "market"} THEN currentOrderId + 1 ELSE currentOrderId
  /\ activeIds' = IF c.op = "add" THEN activeIds \cup {c.id} ELSE activeIds

Step ==
  /\ ~down
  /\ n < Length[program]
  /\ n' = n + 1
  /\ \E c \in Calls :
       /\ Execute(c)
       /\ IF program = "simulator" THEN NextIds(c) ELSE UNCHANGED <<currentOrderId, activeIds>>
  /\ UNCHANGED program

\* The order of the tests in the harness.
Following == [tail |-> "scale", scale |-> "cascade", cascade |-> "throughput",
              throughput |-> "worst"]

\* Mutant: the next test starts with the book the last one left.
NextTestOnOldBook ==
  /\ ~down
  /\ n = Length[program] /\ program \in DOMAIN Following
  /\ program' = Following[program] /\ n' = 0
  /\ UNCHANGED <<currentOrderId, activeIds, book, down>>

NextTest ==
  /\ ~down
  /\ n = Length[program] /\ program \in DOMAIN Following
  /\ program' = Following[program] /\ n' = 0
  /\ B!Reset
  /\ UNCHANGED <<currentOrderId, activeIds>>

Next == Step \/ NextTest

Spec == Init /\ [][Next]_vars

-----------------------------------------------------------------------------
Done == n = Length[program]

\* No exception ends a program, and no add is refused for its id, although
\* the tests of the harness all count from 1; the market maker's cancels find
\* the orders they name.
CallsTakeEffect ==
  /\ ~down
  /\ ~Done => \A c \in Calls :
       /\ c.op = "add" => c.id \notin B!Ids(book)
       /\ c.op = "cancel" /\ program = "churn" => c.id \in B!Ids(book)

\* Tests that measure how orders are inserted never trade: what was sent
\* rests ("so they NEVER match"; "to force resting book placement").
PassiveLoadsRest ==
  program \in {"worst", "tail", "scale"} =>
    /\ B!Ids(book) = 1 .. n
    /\ \A i \in B!Ids(book) : book[i].shares = IF program = "scale" THEN 10 ELSE 100

\* Tests that measure matching find what they mean to trade with, all of it
\* and nothing else: two ping-pong fills; a market order that sweeps every
\* level and one that takes "the 1 remaining order"; a crossing order that
\* "wipes out the entire Ask profile" but not the passive bid; crossing orders
\* that never leave more than one behind.
AggressorsTakeAll ==
  LET Resting == B!Ids(book) IN
  /\ program = "pingpong" /\ Done =>
       /\ Resting = {1, 2}
       /\ \A i \in Resting : book[i].shares = 1000000 - 10
  /\ program = "sweep" /\ Done => Resting = {}
  /\ program = "churn" /\ Done =>
       /\ Resting = 1 .. 2 * WarmUp
       /\ \A i \in Resting : book[i].shares = 100
  /\ program = "cascade" /\ Done => Resting = {10 * Levels + 1}
  /\ program = "throughput" => Resting = IF n % 2 = 1 THEN {n} ELSE {}
=============================================================================
