------------------------ MODULE ExchangeProperties -------------------------
(***************************************************************************)
(* What the exchange server of network/main.cpp and its clients can rely   *)
(* on, and what they cannot.                                               *)
(***************************************************************************)
EXTENDS Exchange

Accepted == delivered \o queue
InHand == IF pcGateway \in {"push", "store"} THEN 1 ELSE 0
BeingProcessed == IF pcEngine \in {"add", "publish"} THEN 1 ELSE 0

\* Every variable has its type; updates on their way are among those sent.
TypeOK ==
  /\ connection \in {"open", "closed", "reset"}
  /\ got \in 0 .. OrderLen * Len(sent)
  /\ queue \in Seq(Nat) /\ delivered \in Seq(Nat)
  /\ known \in 0 .. Len(delivered) /\ refused \in Nat
  /\ pcGateway \in {"accept", "read", "push", "store", "joining", "returned"}
  /\ pcEngine \in {"boot", "spin", "add", "publish", "returned"}
  /\ down \in BOOLEAN
  /\ air \subseteq DOMAIN updates
  /\ received \in 0 .. Expected

\* No byte the client sent goes into two orders, and orders keep the order
\* of the stream.  If segments are not split, the orders accepted are orders
\* the client sent, and those missing were refused by a full ring: nothing
\* else between read and push loses an order.
FramedStream ==
  /\ \A i, j \in DOMAIN Accepted : i < j => Accepted[i] + OrderLen <= Accepted[j]
  /\ \A i \in DOMAIN Accepted : Accepted[i] + OrderLen <= got
  /\ "split" \notin faults =>
       /\ \A i \in DOMAIN Accepted : Framed(Accepted[i])
       /\ got = OrderLen * (Len(Accepted) + refused + InHand)

\* One market update for each order the engine took, in order, also for an
\* order the book refused as a duplicate, and none for the order on which the
\* book threw and the process ended.
UpdatePerOrder ==
  /\ Len(updates) = Len(delivered) - BeingProcessed
  /\ \A n \in DOMAIN updates :
       Framed(delivered[n]) => updates[n].order_id = OrderAt(delivered[n]).id

\* p is what an update should quote for this side of the book: 0, or the
\* price of a resting order that no other one beats.
IsTop(side, p) ==
  LET Q == AAPL!Of(book, side) IN
  \/ Q = {} /\ p = 0
  \/ /\ \E i \in Q : book[i].price = p
     /\ \A i \in Q : ~AAPL!Before(side, book[i].price, p)

\* The quotes of the last update are those of the book until the next order
\* is processed, whatever is left on either side, and no update ever
\* quotes a bid at or above the ask; 0 is read as "nothing there".
QuotesTrue ==
  /\ pcEngine = "spin" /\ updates # <<>> =>
       /\ IsTop("Buy", updates[Len(updates)].top_bid)
       /\ IsTop("Sell", updates[Len(updates)].top_ask)
  /\ \A n \in DOMAIN updates :
       0 \notin {updates[n].top_bid, updates[n].top_ask} =>
         updates[n].top_bid < updates[n].top_ask

\* Unless datagrams are duplicated or orders misframed, a benchmark that
\* ends has measured every one of its orders once: none was refused by the
\* ring, and no update was lost.
EveryRoundTripCounted ==
  client = "benchmark" /\ connection = "closed" /\ faults \cap {"split", "dup"} = {} =>
    /\ Len(updates) = Expected
    /\ {updates[n].order_id : n \in DOMAIN updates} = 1 .. Expected

-----------------------------------------------------------------------------
\* An order in the ring is processed and published in the end, also when the
\* client has gone since, because main joins an engine that never returns.
\* Only an engine that has not booted, or an exception of the book, leaves
\* accepted orders behind.
AcceptedIsPublished ==
  \A n \in 1 .. MaxOrders :
    Len(Accepted) >= n ~> Len(updates) >= n \/ down \/ pcEngine = "returned"

\* Nothing holds up the gateway thread once its client is gone.  It reads to
\* the end although the ring may be full, and although nobody may ever empty
\* it: push refuses and does not wait.  If the engine had no socket, main
\* then joins it and returns, with the accepted orders still in the ring;
\* otherwise it waits for an engine that runs until the book throws.
GatewayIsNotHeldUp ==
  connection # "open" ~>
    \/ pcGateway = "returned" /\ pcEngine = "returned"
    \/ pcGateway = "joining" /\ pcEngine \in {"spin", "add", "publish"}
    \/ down

\* The benchmark ends if nothing fails, for its orders fit in the ring, even
\* if the engine takes none before the last one was sent.
BenchmarkEnds == client = "benchmark" /\ faults = {} ~> connection = "closed"

-----------------------------------------------------------------------------
\* What the name of the field last_traded_price says, and ticker.py prints:
\* there was a trade at this price.  A trade takes two orders of opposite
\* sides, one of them with this price.
LastTradedPriceWasTraded ==
  \A n \in DOMAIN updates :
    faults = {} =>
      \E i, j \in 1 .. n :
        /\ OrderAt(delivered[i]).price = updates[n].last_traded_price
        /\ MappedSide(OrderAt(delivered[i])) # MappedSide(OrderAt(delivered[j]))
=============================================================================
