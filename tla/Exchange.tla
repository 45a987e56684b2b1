------------------------------ MODULE Exchange ------------------------------
(***************************************************************************)
(* network/main.cpp with a client of scripts/: the gateway thread reads    *)
(* orders from a TCP connection into the ring buffer, the engine thread    *)
(* takes them out, adds them to the book and broadcasts a market update    *)
(* for each over UDP.                                                      *)
(*                                                                         *)
(* Ring and book are the abstract ones that SPSCRingBuffer and Book are    *)
(* shown to implement.  The world's faults are chosen once, in `faults`:   *)
(*   "split"   TCP segments end anywhere     "reset"  the connection fails *)
(*   "boot"    no UDP socket for the engine  "accept" no connection at all *)
(*   "loss"    datagrams are lost            "dup"    and duplicated       *)
(***************************************************************************)
EXTENDS Ingress

CONSTANTS
  Bound,        \* 1023 items fit in the ring
  PoolCapacity, \* 10000000
  MAX_PRICE,    \* 200000
  FaultSets,    \* the combinations of faults
  AnyOrder,     \* orders of a client that is not one of scripts/
  Garbled,      \* what the bytes of two orders may read as
  Expected      \* EXPECTED_ORDERS, 1000

\* What the fields of an order on the wire can hold.
NetworkOrder == [id : Nat, side : Nat, shares : Nat, price : Nat]

ASSUME ExchangeAssumption ==
  /\ Expected \in Nat
  /\ AnyOrder \subseteq NetworkOrder
  /\ Garbled \subseteq NetworkOrder

VARIABLES
  faults, client,             \* chosen in the beginning
  queue, delivered,           \* order_queue, see BoundedFIFO; items are
  known, refused,             \* the places of their first bytes
  pcGateway, pcEngine,        \* the threads
  pending,                    \* pending_order
  book, down,                 \* aapl_book, see PriceTimeBook
  updates,                    \* history: the market updates sent
  air,                        \* those of them still on their way
  received                    \* the benchmark's counter

ringVars == <<queue, delivered, known, refused>>
bookVars == <<book, down>>
clientVars == <<air, received>>
fixed == <<faults, client>>
vars == <<streamVars, fixed, ringVars, pcGateway, pcEngine, pending, bookVars,
          updates, clientVars>>

Ring == INSTANCE BoundedFIFO WITH Item <- Nat

AAPL == INSTANCE PriceTimeBook
  WITH Capacity <- PoolCapacity, Id <- {}, Price <- {}, Quantity <- {}

Init ==
  /\ StreamInit /\ Ring!Init /\ AAPL!Init
  /\ faults \in FaultSets
  /\ client \in {"benchmark", "bot", "other"}
  /\ pcGateway = "accept" /\ pcEngine = "boot"
  /\ pending = <<>>
  /\ updates = <<>> /\ air = {} /\ received = 0

-----------------------------------------------------------------------------
(* The clients *)

\* The k-th order of the benchmark, of the bot, and of anyone else.
NthOrder(k) ==
  CASE client = "benchmark" ->
         {[id |-> k, side |-> k % 2, shares |-> 100,
           price |-> IF k % 2 = 0 THEN 15000 ELSE 14900]}
    [] client = "bot" ->
         {[id |-> k, side |-> (k + 1) % 2, shares |-> 100,
           price |-> IF k % 2 = 1 THEN 14900 ELSE 15100]}
    [] client = "other" -> AnyOrder

ClientSends ==
  /\ client = "benchmark" => Len(sent) < Expected
  /\ \E order \in NthOrder(Len(sent) + 1) : Send(order)
  /\ UNCHANGED <<fixed, ringVars, pcGateway, pcEngine, pending, bookVars, updates, clientVars>>

\* The benchmark joins its listener before it closes; a bot is interrupted.
ClientCloses ==
  /\ client = "benchmark" => Len(sent) = Expected /\ received = Expected
  /\ Disconnect("closed")
  /\ UNCHANGED <<fixed, ringVars, pcGateway, pcEngine, pending, bookVars, updates, clientVars>>

ConnectionFails ==
  /\ "reset" \in faults
  /\ Disconnect("reset")
  /\ UNCHANGED <<fixed, ringVars, pcGateway, pcEngine, pending, bookVars, updates, clientVars>>

\* Mutant: the listener does not stop after Expected updates.
HearForever(n) ==
  /\ n \in air
  /\ client = "benchmark"
  /\ received' = received + (IF updates[n].order_id \in 1 .. Len(sent) THEN 1 ELSE 0)
  /\ \/ air' = air \ {n}
     \/ "dup" \in faults /\ air' = air
  /\ UNCHANGED <<streamVars, fixed, ringVars, pcGateway, pcEngine, pending, bookVars, updates>>

\* The n-th update arrives at the benchmark's listener, which counts it if it
\* knows the order; it stops listening after Expected of them.
Hear(n) ==
  /\ n \in air
  /\ client = "benchmark" /\ received < Expected
  /\ received' = received + (IF updates[n].order_id \in 1 .. Len(sent) THEN 1 ELSE 0)
  /\ \/ air' = air \ {n}
     \/ "dup" \in faults /\ air' = air
  /\ UNCHANGED <<streamVars, fixed, ringVars, pcGateway, pcEngine, pending, bookVars, updates>>

Lose(n) ==
  /\ "loss" \in faults
  /\ n \in air
  /\ air' = air \ {n}
  /\ UNCHANGED <<streamVars, fixed, ringVars, pcGateway, pcEngine, pending, bookVars,
                 updates, received>>

-----------------------------------------------------------------------------
(* main: the gateway thread.  When main returns, the process ends. *)

Alive == ~down /\ pcGateway # "returned"

GatewayUnchanged == UNCHANGED <<fixed, pcEngine, pending, bookVars, updates, clientVars>>

\* No result is checked: without a connection, read fails at once.
Accept ==
  /\ Alive /\ pcGateway = "accept"
  /\ pcGateway' = IF "accept" \in faults THEN "joining" ELSE "read"
  /\ UNCHANGED <<streamVars, ringVars>>
  /\ GatewayUnchanged

\* Mutant: what was read is pushed, whatever its length.
GatewayReadsAny(n) ==
  /\ Alive /\ pcGateway = "read"
  /\ Read(n, "split" \in faults)
  /\ pcGateway' = "push"
  /\ UNCHANGED ringVars
  /\ GatewayUnchanged

\* A short read is dropped.
GatewayReads(n) ==
  /\ Alive /\ pcGateway = "read"
  /\ Read(n, "split" \in faults)
  /\ pcGateway' = IF n = OrderLen THEN "push" ELSE "read"
  /\ UNCHANGED ringVars
  /\ GatewayUnchanged

\* Mutant: push waits for room.
GatewayOffersAndWaits ==
  /\ Alive /\ pcGateway = "push"
  /\ Ring!Learn /\ Ring!Room(known)' /\ pcGateway' = "store"
  /\ UNCHANGED streamVars
  /\ GatewayUnchanged

\* order_queue.push, up to the test for room; its result is ignored.
GatewayOffers ==
  /\ Alive /\ pcGateway = "push"
  /\ \/ Ring!Refuse /\ pcGateway' = "read"
     \/ Ring!Learn /\ Ring!Room(known)' /\ pcGateway' = "store"
  /\ UNCHANGED streamVars
  /\ GatewayUnchanged

GatewayStores ==
  /\ Alive /\ pcGateway = "store"
  /\ Ring!Push(Incoming)
  /\ pcGateway' = "read"
  /\ UNCHANGED streamVars
  /\ GatewayUnchanged

GatewayBreaks ==
  /\ Alive /\ pcGateway = "read"
  /\ ReadNothing
  /\ pcGateway' = "joining"
  /\ UNCHANGED ringVars
  /\ GatewayUnchanged

\* Mutant: main returns without waiting for the engine.
ReturnAtOnce ==
  /\ Alive /\ pcGateway = "joining"
  /\ pcGateway' = "returned"
  /\ UNCHANGED <<streamVars, ringVars>>
  /\ GatewayUnchanged

Join ==
  /\ Alive /\ pcGateway = "joining" /\ pcEngine = "returned"
  /\ pcGateway' = "returned"
  /\ UNCHANGED <<streamVars, ringVars>>
  /\ GatewayUnchanged

-----------------------------------------------------------------------------
(* engine_loop: the engine thread *)

EngineBoots ==
  /\ Alive /\ pcEngine = "boot"
  /\ pcEngine' = IF "boot" \in faults THEN "returned" ELSE "spin"
  /\ UNCHANGED <<streamVars, fixed, ringVars, pcGateway, pending, bookVars, updates, clientVars>>

\* The order whose first byte is `item`, if all its bytes are.
Decoded(item) == IF Framed(item) THEN {OrderAt(item)} ELSE Garbled

EnginePops ==
  /\ Alive /\ pcEngine = "spin"
  /\ Ring!Pop
  /\ pending' \in Decoded(Head(queue))
  /\ pcEngine' = "add"
  /\ UNCHANGED <<streamVars, fixed, pcGateway, bookVars, updates, clientVars>>

MappedSide(order) == IF order.side = 0 THEN "Buy" ELSE "Sell"

\* Mutant: nothing is published for an order the book did not take.
EngineAddsOrSkips ==
  /\ Alive /\ pcEngine = "add"
  /\ IF pending.id \in AAPL!Ids(book) THEN UNCHANGED bookVars /\ pcEngine' = "spin"
     ELSE /\ AAPL!AddLimitOrder(pending.id, MappedSide(pending), pending.shares, pending.price)
          /\ pcEngine' = "publish"
  /\ UNCHANGED <<streamVars, fixed, ringVars, pcGateway, pending, updates, clientVars>>

\* aapl_book.addLimitOrder; if it throws, the process is down.
EngineAdds ==
  /\ Alive /\ pcEngine = "add"
  /\ IF pending.id \in AAPL!Ids(book) THEN UNCHANGED bookVars
     ELSE AAPL!AddLimitOrder(pending.id, MappedSide(pending), pending.shares, pending.price)
  /\ pcEngine' = "publish"
  /\ UNCHANGED <<streamVars, fixed, ringVars, pcGateway, pending, updates, clientVars>>

\* The order of this side that goes before all others.
Front(side) ==
  LET Q == AAPL!Of(book, side)
  IN  CHOOSE i \in Q : \A j \in Q \ {i} : AAPL!Outranks(book, i, j)

\* Mutant: the far end of the queue is quoted, as get_last would.
WorstPrice(side) ==
  LET Q == AAPL!Of(book, side)
  IN  IF Q = {} THEN 0
      ELSE book[CHOOSE i \in Q : \A j \in Q \ {i} : AAPL!Outranks(book, j, i)].price

\* getBestBid, getBestAsk
BestPrice(side) == IF AAPL!Of(book, side) = {} THEN 0 ELSE book[Front(side)].price

MarketUpdate ==
  [order_id |-> pending.id, last_traded_price |-> pending.price,
   top_bid |-> BestPrice("Buy"), top_ask |-> BestPrice("Sell")]

\* Mutant: the engine may publish an update a second time.
EnginePublishesAgain ==
  /\ Alive /\ pcEngine = "publish"
  /\ updates' = Append(updates, MarketUpdate)
  /\ air' = air \cup {Len(updates')}
  /\ pcEngine' \in {"spin", "publish"} /\ Len(updates) < MaxOrders
  /\ UNCHANGED <<streamVars, fixed, ringVars, pcGateway, pending, bookVars, received>>

EnginePublishes ==
  /\ Alive /\ pcEngine = "publish"
  /\ updates' = Append(updates, MarketUpdate)
  /\ air' = air \cup {Len(updates')}
  /\ pcEngine' = "spin"
  /\ UNCHANGED <<streamVars, fixed, ringVars, pcGateway, pending, bookVars, received>>

-----------------------------------------------------------------------------
Client == ClientSends \/ ClientCloses

Gateway ==
  \/ Accept \/ GatewayOffers \/ GatewayStores \/ GatewayBreaks \/ Join
  \/ \E n \in 1 .. OrderLen : GatewayReads(n)

Engine == EngineBoots \/ EnginePops \/ EngineAdds \/ EnginePublishes

Next ==
  \/ Client \/ ConnectionFails \/ Gateway \/ Engine
  \/ \E n \in 1 .. MaxOrders : Hear(n) \/ Lose(n)

Spec == Init /\ [][Next]_vars

\* Both threads run, bytes and datagrams that are not lost arrive, and the
\* benchmark does what its script says; other clients may do nothing.
FairSpec ==
  /\ Spec
  /\ WF_vars(Gateway)
  /\ WF_vars(Engine)
  /\ WF_vars(client = "benchmark" /\ Client)
  /\ \A n \in 1 .. MaxOrders : WF_vars(Hear(n))
=============================================================================
