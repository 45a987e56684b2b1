--------------------------- MODULE BookProperties ---------------------------
(***************************************************************************)
(* What OrderBook/book.cpp must keep true, over the steps of Book.         *)
(***************************************************************************)
EXTENDS Book, Functions

Nowhere == Slot \cup {Nil}

\* Every variable has its type: in particular a slot of the pool is an order
\* or a free node, never a mixture.
TypeOK ==
  /\ pool \in [Slot -> Order \cup OP!FreeNode]
  /\ head_free_index \in Nowhere
  /\ levels \in [Side -> [PriceIdx -> Level \cup {NoLimit}]]
  /\ orderMap \in [Id -> Nowhere]
  /\ pc \in {"idle", "level", "order", "threw"}
  /\ call \in [op : {"none", "add", "modify", "market"}, id : Id \cup {Nil},
               side : Side, price : Nat]
  /\ remainingShares \in Nat
  /\ limitIt \in PriceIdx \cup {End}
  /\ currIdx \in Nowhere
  /\ ahead \in [Slot -> SUBSET Slot]

-----------------------------------------------------------------------------
\* In these P is the pool, A the order of arrival, L a level, Q a set of slots.

\* The orders Q arrived one after the other.
InLine(A, Q) == \A i, j \in Q : i = j \/ i \in A[j] \/ j \in A[i]

\* Both links of every order agree with the order of arrival: the next order
\* has exactly one more order in front of it.
Linked(P, A, Q) ==
  \A i \in Q :
    /\ A[i] \subseteq Q \ {i}
    /\ P[i].nextOrder # Nil =>
         /\ P[i].nextOrder \in Q
         /\ P[P[i].nextOrder].prevOrder = i
         /\ A[P[i].nextOrder] = A[i] \cup {i}
    /\ P[i].prevOrder # Nil =>
         /\ P[i].prevOrder \in Q
         /\ P[P[i].prevOrder].nextOrder = i

\* The level's two ends and its count agree with its orders.
Ends(P, A, L, Q) ==
  /\ L.size = Cardinality(Q)
  /\ L.headOrder = Nil <=> Q = {}
  /\ L.tailOrder = Nil <=> Q = {}
  /\ Q # {} => /\ L.headOrder \in Q /\ A[L.headOrder] = {}
               /\ L.tailOrder \in Q /\ A[L.tailOrder] = Q \ {L.tailOrder}
  /\ \A i \in Q : /\ P[i].nextOrder = Nil <=> i = L.tailOrder
                  /\ P[i].prevOrder = Nil <=> i = L.headOrder

\* The level being matched may be empty until the loop leaves it.
BeingMatched(side, p) == pc = "order" /\ side = RestingSide /\ p = limitIt

Queue(side, p) ==
  LET L == levels[side][p]
      Q == OrdersAt(side, p)
  IN  /\ InLine(ahead, Q)
      /\ Linked(pool, ahead, Q)
      /\ L = NoLimit => Q = {}
      /\ L # NoLimit => Ends(pool, ahead, L, Q) /\ (Q # {} \/ BeingMatched(side, p))

\* Each price level is a FIFO queue.  Its list runs through exactly the orders
\* of that side and price that the pool holds, from the oldest at headOrder to
\* the newest at tailOrder; an order has no level to be found in only if there
\* is none at its price, and an empty level does not outlive its last order.
\* (Limit::addOrder and removeOrder under every sequence of calls.)
QueueInv == \A side \in Side, p \in PriceIdx : Queue(side, p)

\* A level's totalVolume is the sum of the shares of its orders, so the
\* "safety catch" of fillVolume never has anything to catch.
VolumeInv ==
  \A side \in Side : \A p \in Active(levels[side]) :
    levels[side][p].totalVolume =
      SumFunction([i \in OrdersAt(side, p) |-> pool[i].shares])

\* The id map and the pool agree in both directions: an id leads to the slot
\* of the order with that id, and every order in the pool can be reached by
\* its id.  The one exception is the slot taken by an order whose price made
\* emplace throw.  Resting orders have shares left.  An order on its way into
\* the book finds its id free, also after the trades it has made meanwhile.
IndexInv ==
  /\ \A id \in Id : orderMap[id] # Nil =>
       /\ pool[orderMap[id]] \in Order
       /\ pool[orderMap[id]].id = id
       /\ pool[orderMap[id]].price \in PriceIdx
  /\ \A i \in Slot : pool[i] \in Order =>
       /\ pool[i].shares > 0
       /\ \/ orderMap[pool[i].id] = i
          \/ pc = "threw" /\ pool[i].price \notin PriceIdx
  /\ pc \in {"level", "order"} /\ call.op # "market" =>
       call.id \in Id /\ orderMap[call.id] = Nil

\* No slot of the pool is lost or handed out twice by any sequence of calls.
FreeListInv == OP!FreeListInv

\* The cursors of the matching loops survive the erasures made under them:
\* while shares remain, limitIt is the best opposite price, and currIdx, saved
\* before its predecessor was destroyed, is the head of that level.
CursorInv ==
  /\ pc = "level" /\ remainingShares > 0 =>
       IsFirst(RestingSide, Active(levels[RestingSide]), limitIt)
  /\ pc = "order" =>
       /\ IsFirst(RestingSide, Active(levels[RestingSide]), limitIt)
       /\ limitIt # End
       /\ Crosses(limitIt)
       /\ currIdx = levels[RestingSide][limitIt].headOrder

\* The book is never crossed, nor locked: every bid is below every ask, also
\* in the middle of a call and after an exception.
NotCrossed ==
  \A bid \in Active(levels["Buy"]), ask \in Active(levels["Sell"]) : bid < ask

\* A modify that takes the order out of the book has freed the slot it needs
\* to put it back: it cannot lose the order to an exhausted pool.  (It can
\* lose it to a new price beyond the map, on which emplace throws.)
ModifyKeepsASlot == pc \in {"level", "order"} /\ call.op = "modify" => ~OP!Exhausted

-----------------------------------------------------------------------------
SharesIn(P, i) == IF P[i] \in Order THEN P[i].shares ELSE 0

\* i is served before j.
Outranks(i, j) ==
  \/ Before(pool[i].side, pool[i].price, pool[j].price)
  \/ pool[i].price = pool[j].price /\ i \in ahead[j]

\* Price-time priority: an order that loses shares to an incoming one is at
\* a price the incoming order accepts, and no order on its side of the book
\* has a better price, or the same price and an earlier arrival.
PriceTimePriority ==
  [][pc = "order" =>
       \A i \in Slot : SharesIn(pool', i) < SharesIn(pool, i) =>
         /\ pool[i].side = RestingSide
         /\ Crosses(pool[i].price)
         /\ \A j \in Slot \ {i} :
              pool[j] \in Order /\ pool[j].side = RestingSide => Outranks(i, j)]_vars

\* A call that was entered ends: the loops over levels and orders terminate.
CallEnds == pc \in {"level", "order"} ~> pc \in {"idle", "threw"}

\* An upper bound on the turns the loops of the call can still take: every order
\* eaten up is one, every level entered and left two, and one may be the last,
\* partial fill.
TurnsLeft ==
  LET shares == IF remainingShares > 0 THEN 1 ELSE 0
  IN  Cardinality(OP!Live)
        + 2 * Cardinality(Active(levels[RestingSide]))
        + (IF pc = "order" THEN 1 ELSE 2 * shares) + shares

\* No turn of the matching loops is wasted: each brings the call closer to its
\* end by what it can never do again, eat up an order, erase a level or use up
\* the shares, so no iterator refreshed by an erasure leads the loops round.
LoopsProgress ==
  [][(pc \in {"level", "order"}) /\ (pc' \in {"level", "order"}) =>
       TurnsLeft' < TurnsLeft]_vars

\* The rules quoted in book.cpp before modifyLimitOrder: an order loses its
\* place to those queued behind it only if its price changes or its size
\* increases.
ModifyLosesPlaceOnlyByTheRules ==
  [][pc = "idle" /\ call'.op = "modify" =>
       LET i == orderMap[call'.id]
           o == pool[i]
       IN  (\E j \in Slot : i \in ahead[j]) =>
             call'.price # o.price \/ remainingShares' > o.shares]_vars
=============================================================================
