--------------------------- MODULE PriceTimeBook ---------------------------
(***************************************************************************)
(* What the matching engine promises: each call of OrderBook/book.hpp is   *)
(* one atomic step on a set of orders of which it is known who came before *)
(* whom.  There are no slots, links, levels or loops: how many shares an   *)
(* incoming order takes from a resting one is computed from the shares of  *)
(* the orders that go first.                                               *)
(***************************************************************************)
EXTENDS Integers, FiniteSets, Functions

CONSTANTS Capacity, MAX_PRICE, Id, Price, Quantity

VARIABLES
  book,  \* id of a resting order -> [side, price, shares, ahead], where ahead
         \* holds the ids of the orders that queue before it at its price
  down   \* an exception ended the process

vars == <<book, down>>

Side == {"Buy", "Sell"}
Opposite(side) == IF side = "Buy" THEN "Sell" ELSE "Buy"
Before(side, p, q) == IF side = "Buy" THEN p > q ELSE p < q

\* In these B is a book, Q and A are sets of ids of it.

Ids(B) == DOMAIN B
Of(B, side) == {i \in DOMAIN B : B[i].side = side}

\* Of two orders of one side, i goes before j.
Outranks(B, i, j) ==
  \/ Before(B[i].side, B[i].price, B[j].price)
  \/ B[i].price = B[j].price /\ i \in B[j].ahead

Total(B, Q) == SumFunctionOnSet([i \in DOMAIN B |-> B[i].shares], Q)

\* The book with the orders Q only.
Only(B, Q) == [i \in Q |-> [B[i] EXCEPT !.ahead = @ \cap Q]]
Without(B, id) == Only(B, DOMAIN B \ {id})

-----------------------------------------------------------------------------
\* The orders against which an order of this side and limit may trade.
Acceptable(B, side, limit) ==
  {i \in Of(B, Opposite(side)) : ~Before(Opposite(side), limit, B[i].price)}

\* What i, one of A, gives up to an order for S shares that trades with A.
Given(B, A, S, i) ==
  LET unserved == S - Total(B, {j \in A : Outranks(B, j, i)})
  IN  IF unserved <= 0 THEN 0
      ELSE IF unserved < B[i].shares THEN unserved ELSE B[i].shares

\* The book once S shares were taken from A; who has none left is gone.
Matched(B, A, S) ==
  LET T == [i \in DOMAIN B |->
              IF i \in A THEN [B[i] EXCEPT !.shares = @ - Given(B, A, S, i)] ELSE B[i]]
  IN  Only(T, {i \in DOMAIN B : T[i].shares > 0})

\* A new order goes behind all others at its price.
Joined(B, id, side, price, shares) ==
  [i \in DOMAIN B \cup {id} |->
     IF i = id THEN [side |-> side, price |-> price, shares |-> shares,
                     ahead |-> {j \in Of(B, side) : B[j].price = price}]
     ELSE B[i]]

\* B takes a limit order: it trades, and what is left joins the book if the
\* pool and the price map have room for it.
Submit(B, id, side, S, limit) ==
  LET against == Acceptable(B, side, limit)
      M       == Matched(B, against, S)
      left    == S - Total(B, against)
      fits    == limit < MAX_PRICE /\ Cardinality(DOMAIN M) < Capacity
  IN  /\ down' = (left > 0 /\ ~fits)
      /\ book' = IF left > 0 /\ fits THEN Joined(M, id, side, limit, left) ELSE M

-----------------------------------------------------------------------------
NoOrders == [i \in {} |-> {}]

Init == book = NoOrders /\ down = FALSE

AddLimitOrder(id, side, S, limit) ==
  id \notin Ids(book) /\ Submit(book, id, side, S, limit)

MarketOrder(side, S) ==
  book' = Matched(book, Of(book, Opposite(side)), S) /\ UNCHANGED down

CancelLimitOrder(id) ==
  id \in Ids(book) /\ book' = Without(book, id) /\ UNCHANGED down

\* Fewer shares at the same price keep the place, anything else but none at
\* all is a new order.
ModifyLimitOrder(id, S, limit) ==
  /\ id \in Ids(book)
  /\ LET o == book[id] IN
     CASE S = 0 -> book' = Without(book, id) /\ UNCHANGED down
       [] S > 0 /\ limit = o.price /\ S < o.shares ->
            book' = [book EXCEPT ![id].shares = S] /\ UNCHANGED down
       [] OTHER -> Submit(Without(book, id), id, o.side, S, limit)

Reset == book' = NoOrders /\ UNCHANGED down

Next ==
  /\ ~down
  /\ \/ \E id \in Id, side \in Side, S \in Quantity, limit \in Price :
          AddLimitOrder(id, side, S, limit)
     \/ \E side \in Side, S \in Quantity : MarketOrder(side, S)
     \/ \E id \in Id : CancelLimitOrder(id)
     \/ \E id \in Id, S \in Quantity, limit \in Price : ModifyLimitOrder(id, S, limit)
     \/ Reset

Spec == Init /\ [][Next]_vars
=============================================================================
