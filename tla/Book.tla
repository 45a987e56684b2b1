-------------------------------- MODULE Book --------------------------------
(***************************************************************************)
(* OrderBook/book.cpp: the matching engine.  One thread calls it; a call   *)
(* is not one step here but its control flow: entry, each turn of the two  *)
(* nested matching loops, and what follows the loops.  Between two calls   *)
(* pc = "idle".                                                            *)
(*                                                                         *)
(*   "idle" -- entry --> "level"  head of the loop over price levels       *)
(*   "level" --> "order"          head of the loop over a level's orders   *)
(*   "order" --> "level"          level erased or iterator advanced        *)
(*   "level" --> "idle"           remaining shares rested, or none left    *)
(*   "level" --> "threw"          an exception: no caller in the           *)
(*                                repository catches it, the process ends  *)
(*                                                                         *)
(* The code has the loops four times: for a buy and for a sell, each in    *)
(* addLimitOrder and in marketOrder.  They differ in the map they walk     *)
(* (RestingSide) and the price condition (Crosses); here they are the same *)
(* steps.                                                                  *)
(*                                                                         *)
(* bids and asks are levels["Buy"] and levels["Sell"], each the price map  *)
(* that FlatMap implements: a price is in the map or it maps to NoLimit.   *)
(*                                                                         *)
(* Shares and prices are natural numbers: no share count grows after it    *)
(* was given, and a level's 64-bit volume holds the 32-bit shares of all   *)
(* 10,000,000 slots, so no arithmetic of the code can wrap.                *)
(***************************************************************************)
EXTENDS Limit, PriceMap, FiniteSets

CONSTANTS
  Capacity,    \* slots of orderPool
  Id,          \* order ids callers use
  Price,       \* prices callers use, not all below MAX_PRICE
  Quantity     \* share counts callers use, 0 included

VARIABLES
  pool, head_free_index,  \* orderPool
  levels,                 \* bids and asks
  orderMap,               \* id -> slot, Nil when the id is not in the map
  pc, call,               \* the call in progress and where it is
  remainingShares, limitIt, currIdx,  \* its locals
  ahead                   \* history: the slots queued in front of a slot

poolVars == <<pool, head_free_index>>
loopVars == <<call, remainingShares, limitIt, currIdx>>
vars == <<pool, head_free_index, levels, orderMap, pc, call,
          remainingShares, limitIt, currIdx, ahead>>

Side == {"Buy", "Sell"}
Slot == 0 .. Capacity - 1

Order == [id : Id, side : Side, shares : Nat, price : Nat,
          nextOrder : Slot \cup {Nil}, prevOrder : Slot \cup {Nil}]

Level == [size : Int, totalVolume : Int,
          headOrder : Slot \cup {Nil}, tailOrder : Slot \cup {Nil}]

ASSUME BookAssumption ==
  /\ Capacity \in Nat \ {0}
  /\ MAX_PRICE \in Nat \ {0}
  /\ Price \subseteq Nat
  /\ Quantity \subseteq Nat
  /\ NoLimit \notin Level

OP == INSTANCE ObjectPool WITH Object <- Order

-----------------------------------------------------------------------------
Opposite(side) == IF side = "Buy" THEN "Sell" ELSE "Buy"

\* Mutant: an order does not trade at exactly its limit.
CrossesStrictly(p) ==
  \/ call.op = "market"
  \/ IF call.side = "Buy" THEN p < call.price ELSE p > call.price

\* The price condition of the matching loop; a market order has none.
Crosses(p) ==
  \/ call.op = "market"
  \/ IF call.side = "Buy" THEN p <= call.price ELSE p >= call.price

LoopOver == limitIt = End \/ ~Crosses(limitIt) \/ remainingShares = 0

RestingSide == Opposite(call.side)

\* The live orders of one price level, whatever the links say.
OrdersAt(side, p) ==
  {i \in Slot : pool[i] \in Order /\ pool[i].side = side /\ pool[i].price = p}

NoCall == [op |-> "none", id |-> Nil, side |-> "Buy", price |-> 0]

-----------------------------------------------------------------------------
Init ==
  /\ OP!Init
  /\ levels = [s \in Side |-> [p \in PriceIdx |-> NoLimit]]
  /\ orderMap = [id \in Id |-> Nil]
  /\ pc = "idle"
  /\ call = NoCall
  /\ remainingShares = 0
  /\ limitIt = End
  /\ currIdx = Nil
  /\ ahead = [i \in Slot |-> {}]

\* The head of addLimitOrder and marketOrder: the opposite map's begin().
Enter(op, id, side, shares, price) ==
  /\ pc' = "level"
  /\ call' = [op |-> op, id |-> id, side |-> side, price |-> price]
  /\ remainingShares' = shares
  /\ limitIt' \in First(Opposite(side), Active(levels'[Opposite(side)]))
  /\ currIdx' = Nil

\* Mutant: the test for a duplicate id is gone.
AddLimitOrderUnchecked(id, side, shares, price) ==
  /\ pc = "idle"
  /\ UNCHANGED <<poolVars, levels, orderMap, ahead>>
  /\ Enter("add", id, side, shares, price)

\* An id that is resting is refused; one that is gone may be used again.
AddLimitOrder(id, side, shares, price) ==
  /\ pc = "idle"
  /\ orderMap[id] = Nil
  /\ UNCHANGED <<poolVars, levels, orderMap, ahead>>
  /\ Enter("add", id, side, shares, price)

MarketOrder(side, shares) ==
  /\ pc = "idle"
  /\ UNCHANGED <<poolVars, levels, orderMap, ahead>>
  /\ Enter("market", Nil, side, shares, 0)

-----------------------------------------------------------------------------
\* The map m after slot i left its level: the level goes with its last order.
EraseIfEmpty(L) == IF L.size = 0 THEN NoLimit ELSE L

DropFromQueues(i) ==
  ahead' = [j \in Slot |-> IF j = i THEN {} ELSE ahead[j] \ {i}]

\* Mutant: the slot is not given back to the pool.
CancelLeaking(id) ==
  LET i == orderMap[id]
      o == pool[i]
      L == levels[o.side][o.price]
  IN  /\ levels' = [levels EXCEPT ![o.side][o.price] =
                      EraseIfEmpty(removeOrderLimit(L, pool, i, o.shares))]
      /\ pool' = removeOrderPool(pool, i)
      /\ UNCHANGED head_free_index
      /\ orderMap' = [orderMap EXCEPT ![id] = Nil]
      /\ DropFromQueues(i)

\* cancelLimitOrder for an id that is in the map.
Cancel(id) ==
  LET i == orderMap[id]
      o == pool[i]
      L == levels[o.side][o.price]
  IN  /\ levels' = IF L = NoLimit THEN levels
                   ELSE [levels EXCEPT ![o.side][o.price] =
                           EraseIfEmpty(removeOrderLimit(L, pool, i, o.shares))]
      /\ OP!deallocate(IF L = NoLimit THEN pool ELSE removeOrderPool(pool, i), i)
      /\ orderMap' = [orderMap EXCEPT ![id] = Nil]
      /\ DropFromQueues(i)

CancelLimitOrder(id) ==
  /\ pc = "idle"
  /\ orderMap[id] # Nil
  /\ Cancel(id)
  /\ UNCHANGED <<pc, loopVars>>

\* modifyLimitOrder with no share left is a cancel.
ModifyToZero(id, newShares) ==
  newShares = 0 /\ CancelLimitOrder(id)

\* Mutant: any size keeps the place.
KeepsPlaceAnySize(o, newShares, newLimitPrice) == newLimitPrice = o.price

\* Same price, fewer shares: the order keeps its place.
KeepsPlace(o, newShares, newLimitPrice) ==
  newLimitPrice = o.price /\ newShares < o.shares

ModifyInPlace(id, newShares, newLimitPrice) ==
  /\ pc = "idle"
  /\ orderMap[id] # Nil
  /\ newShares # 0
  /\ LET i == orderMap[id]
         o == pool[i]
     IN  /\ KeepsPlace(o, newShares, newLimitPrice)
         /\ pool' = [pool EXCEPT ![i].shares = newShares]
         /\ levels' = [levels EXCEPT ![o.side][o.price] =
                         fillVolume(@, o.shares - newShares)]
  /\ UNCHANGED <<head_free_index, orderMap, pc, loopVars, ahead>>

\* Everything else is a cancel and a new order under the same id; the cancel
\* has just taken the id out of the map, so the new order is never refused.
ModifyByReplace(id, newShares, newLimitPrice) ==
  /\ pc = "idle"
  /\ orderMap[id] # Nil
  /\ newShares # 0
  /\ ~KeepsPlace(pool[orderMap[id]], newShares, newLimitPrice)
  /\ Cancel(id)
  /\ Enter("modify", id, pool[orderMap[id]].side, newShares, newLimitPrice)

Reset ==
  /\ pc = "idle"
  /\ OP!reset
  /\ levels' = [s \in Side |-> [p \in PriceIdx |-> NoLimit]]
  /\ orderMap' = [id \in Id |-> Nil]
  /\ ahead' = [i \in Slot |-> {}]
  /\ UNCHANGED <<pc, loopVars>>
-----------------------------------------------------------------------------
\* Mutant: the loop starts with the newest order.
EnterLevelAtTail ==
  /\ pc = "level"
  /\ ~LoopOver
  /\ pc' = "order"
  /\ currIdx' = levels[RestingSide][limitIt].tailOrder
  /\ UNCHANGED <<poolVars, levels, orderMap, call, remainingShares, limitIt, ahead>>

\* Into the loop over one level's orders.
EnterLevel ==
  /\ pc = "level"
  /\ ~LoopOver
  /\ pc' = "order"
  /\ currIdx' = levels[RestingSide][limitIt].headOrder
  /\ UNCHANGED <<poolVars, levels, orderMap, call, remainingShares, limitIt, ahead>>

\* The resting order is larger than what is left of the incoming one.
FillPartly ==
  /\ pc = "order"
  /\ currIdx # Nil
  /\ remainingShares > 0
  /\ pool[currIdx].shares > remainingShares
  /\ pool' = [pool EXCEPT ![currIdx].shares = @ - remainingShares]
  /\ levels' = [levels EXCEPT ![RestingSide][limitIt] = fillVolume(@, remainingShares)]
  /\ remainingShares' = 0
  /\ UNCHANGED <<head_free_index, orderMap, pc, call, limitIt, currIdx, ahead>>

\* The resting order is eaten up: out of the map, the level and the pool.
FillWholly ==
  /\ pc = "order"
  /\ currIdx # Nil
  /\ remainingShares > 0
  /\ LET o == pool[currIdx]
     IN  /\ o.shares <= remainingShares
         /\ remainingShares' = remainingShares - o.shares
         /\ orderMap' = [orderMap EXCEPT ![o.id] = Nil]
         /\ levels' = [levels EXCEPT ![RestingSide][limitIt] =
                         removeOrderLimit(@, pool, currIdx, o.shares)]
         /\ OP!deallocate(removeOrderPool(pool, currIdx), currIdx)
         /\ currIdx' = o.nextOrder
  /\ DropFromQueues(currIdx)
  /\ UNCHANGED <<pc, call, limitIt>>

\* Mutant: the level is neither erased nor passed, the loop begins again.
LeaveLevelAgain ==
  /\ pc = "order"
  /\ currIdx = Nil \/ remainingShares = 0
  /\ limitIt' \in First(RestingSide, Active(levels[RestingSide]))
  /\ pc' = "level"
  /\ currIdx' = Nil
  /\ UNCHANGED <<poolVars, levels, orderMap, call, remainingShares, ahead>>

\* After the inner loop: erase the level if it is empty, move on.
LeaveLevel ==
  /\ pc = "order"
  /\ currIdx = Nil \/ remainingShares = 0
  /\ levels' = [levels EXCEPT ![RestingSide][limitIt] = EraseIfEmpty(@)]
  /\ limitIt' \in First(RestingSide, After(RestingSide, levels[RestingSide], limitIt))
  /\ pc' = "level"
  /\ currIdx' = Nil
  /\ UNCHANGED <<poolVars, orderMap, call, remainingShares, ahead>>

-----------------------------------------------------------------------------
\* The call returns to an idle book.
Return ==
  /\ pc' = "idle"
  /\ call' = NoCall
  /\ remainingShares' = 0
  /\ limitIt' = End
  /\ currIdx' = Nil

\* Nothing to rest: all filled, or a market order whose remainder is dropped.
Finish ==
  /\ pc = "level"
  /\ LoopOver
  /\ remainingShares = 0 \/ call.op = "market"
  /\ Return
  /\ UNCHANGED <<poolVars, levels, orderMap, ahead>>

ToRest == pc = "level" /\ LoopOver /\ remainingShares > 0 /\ call.op # "market"

NewOrder == [id |-> call.id, side |-> call.side, shares |-> remainingShares,
             price |-> call.price, nextOrder |-> Nil, prevOrder |-> Nil]

\* The level an order joins: found in the map or emplaced empty.
LevelToJoin(m, p) == IF m[p] = NoLimit THEN EmptyLimit ELSE m[p]

Rest ==
  /\ ToRest
  /\ call.price \in PriceIdx
  /\ OP!allocate
  /\ LET i == head_free_index
         L == LevelToJoin(levels[call.side], call.price)
     IN  /\ pool' = addOrderPool(L, [pool EXCEPT ![i] = NewOrder], i)
         /\ levels' = [levels EXCEPT ![call.side][call.price] =
                         addOrderLimit(L, i, remainingShares)]
         /\ orderMap' = [orderMap EXCEPT ![call.id] = i]
         /\ ahead' = [ahead EXCEPT ![i] = OrdersAt(call.side, call.price)]
  /\ Return

\* construct throws: no slot for what is left.
ThrowExhausted ==
  /\ ToRest
  /\ OP!Exhausted
  /\ pc' = "threw"
  /\ UNCHANGED <<poolVars, levels, orderMap, loopVars, ahead>>

\* emplace throws after construct took a slot: the slot is out of reach.
ThrowOutOfRange ==
  /\ ToRest
  /\ call.price >= MAX_PRICE
  /\ OP!construct(NewOrder)
  /\ pc' = "threw"
  /\ UNCHANGED <<levels, orderMap, loopVars, ahead>>

-----------------------------------------------------------------------------
Invoke ==
  \/ \E id \in Id, side \in Side, shares \in Quantity, price \in Price :
       AddLimitOrder(id, side, shares, price)
  \/ \E side \in Side, shares \in Quantity : MarketOrder(side, shares)
  \/ \E id \in Id : CancelLimitOrder(id)
  \/ \E id \in Id, shares \in Quantity : ModifyToZero(id, shares)
  \/ \E id \in Id, shares \in Quantity, price \in Price :
       ModifyInPlace(id, shares, price)
  \/ \E id \in Id, shares \in Quantity, price \in Price :
       ModifyByReplace(id, shares, price)
  \/ Reset

Run ==
  \/ EnterLevel
  \/ FillPartly
  \/ FillWholly
  \/ LeaveLevel
  \/ Finish
  \/ Rest
  \/ ThrowExhausted
  \/ ThrowOutOfRange

Next == Invoke \/ Run

Spec == Init /\ [][Next]_vars

\* A call that was entered keeps running: it neither blocks nor yields.
FairSpec == Spec /\ WF_vars(Run)
=============================================================================
