------------------------------- MODULE Limit -------------------------------
(***************************************************************************)
(* OrderBook/limit.cpp: one price level.  The level owns a doubly linked   *)
(* list of orders that is intrusive: the links are the orders' own         *)
(* nextOrder and prevOrder fields, pool indices rather than pointers.      *)
(* The methods change the level and orders of the pool together, so each   *)
(* is a pair of operators: the level after the call, the pool after it.    *)
(* L is a level, P a pool (slot -> order), i a slot, Nil the null index.   *)
(***************************************************************************)
EXTENDS Integers

Nil == -1

\* A level just constructed: no order, no volume.
EmptyLimit == [size |-> 0, totalVolume |-> 0, headOrder |-> Nil, tailOrder |-> Nil]

setNextOrder(P, i, n) == IF i = Nil THEN P ELSE [P EXCEPT ![i].nextOrder = n]
setPrevOrder(P, i, n) == IF i = Nil THEN P ELSE [P EXCEPT ![i].prevOrder = n]

-----------------------------------------------------------------------------
\* Mutant: the newcomer is put at the front of the line.
addOrderLimitFront(L, i, shares) ==
  [size        |-> L.size + 1,
   totalVolume |-> L.totalVolume + shares,
   headOrder   |-> i,
   tailOrder   |-> IF L.tailOrder = Nil THEN i ELSE L.tailOrder]

\* addOrder: slot i goes to the back of the line.
addOrderLimit(L, i, shares) ==
  [size        |-> L.size + 1,
   totalVolume |-> L.totalVolume + shares,
   headOrder   |-> IF L.headOrder = Nil THEN i ELSE L.headOrder,
   tailOrder   |-> i]

addOrderPool(L, P, i) ==
  setNextOrder(setPrevOrder(setNextOrder(P, i, Nil), i, L.tailOrder),
               IF L.headOrder = Nil THEN Nil ELSE L.tailOrder, i)

-----------------------------------------------------------------------------
\* removeOrder: slot i leaves, its neighbours are joined to each other.
removeOrderLimit(L, P, i, sharesToRemove) ==
  [size        |-> L.size - 1,
   totalVolume |-> L.totalVolume - sharesToRemove,
   headOrder   |-> IF P[i].prevOrder = Nil THEN P[i].nextOrder ELSE L.headOrder,
   tailOrder   |-> IF P[i].nextOrder = Nil THEN P[i].prevOrder ELSE L.tailOrder]

removeOrderPool(P, i) ==
  setPrevOrder(setNextOrder(P, P[i].prevOrder, P[i].nextOrder),
               P[i].nextOrder, P[i].prevOrder)

-----------------------------------------------------------------------------
\* Mutant: the shares traded stay in the volume.
fillVolumeForgotten(L, executedShares) == L

\* fillVolume: volume leaves the level while the order count stays.
fillVolume(L, executedShares) ==
  [L EXCEPT !.totalVolume = IF @ >= executedShares THEN @ - executedShares ELSE 0]
=============================================================================
