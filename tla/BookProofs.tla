----------------------------- MODULE BookProofs -----------------------------
(***************************************************************************)
(* Proofs about Book, for every pool capacity, price range, set of ids and *)
(* set of quantities.                                                      *)
(***************************************************************************)
EXTENDS BookProperties, BookRefinement, NumberLemmas, FiniteSetTheorems, TLAPS

PP == INSTANCE ObjectPoolProofs WITH Object <- Order

Block == [Slot -> Order \cup OP!FreeNode]

\* The terms of an order: what linking it does not touch.
SameTerms(o, q) ==
  /\ o.id = q.id
  /\ o.side = q.side
  /\ o.shares = q.shares
  /\ o.price = q.price

-----------------------------------------------------------------------------
\* No order is a free node: an order has an id, a free node has none.
LEMMA OrderIsNoFreeNode == ASSUME NEW x PROVE ~(x \in Order /\ x \in OP!FreeNode)
BY DEF Order, OP!FreeNode

LEMMA PoolAssumptionHolds == OP!PoolAssumption
BY BookAssumption, OrderIsNoFreeNode DEF OP!PoolAssumption

LEMMA NilIsNoSlot == Nil \notin Slot /\ OP!Nil = Nil /\ OP!Slot = Slot /\ Nowhere = Slot \cup {Nil}
BY BookAssumption DEF Nil, Slot, OP!Nil, OP!Slot, Nowhere

\* setNextOrder and setPrevOrder change one link of one order.
LEMMA NextSet ==
  ASSUME NEW P \in Block, NEW i \in Nowhere, NEW n \in Nowhere, i # Nil => P[i] \in Order
  PROVE  /\ setNextOrder(P, i, n) \in Block
         /\ \A j \in Slot : j # i => setNextOrder(P, i, n)[j] = P[j]
         /\ i # Nil => /\ setNextOrder(P, i, n)[i] \in Order
                       /\ SameTerms(setNextOrder(P, i, n)[i], P[i])
                       /\ setNextOrder(P, i, n)[i].nextOrder = n
                       /\ setNextOrder(P, i, n)[i].prevOrder = P[i].prevOrder
BY DEF Block, Nowhere, setNextOrder, Order, SameTerms

LEMMA PrevSet ==
  ASSUME NEW P \in Block, NEW i \in Nowhere, NEW n \in Nowhere, i # Nil => P[i] \in Order
  PROVE  /\ setPrevOrder(P, i, n) \in Block
         /\ \A j \in Slot : j # i => setPrevOrder(P, i, n)[j] = P[j]
         /\ i # Nil => /\ setPrevOrder(P, i, n)[i] \in Order
                       /\ SameTerms(setPrevOrder(P, i, n)[i], P[i])
                       /\ setPrevOrder(P, i, n)[i].prevOrder = n
                       /\ setPrevOrder(P, i, n)[i].nextOrder = P[i].nextOrder
BY DEF Block, Nowhere, setPrevOrder, Order, SameTerms

LEMMA FiniteQueue == ASSUME NEW Q \in SUBSET Slot PROVE IsFiniteSet(Q)
<1>1. 0 \in Int /\ Capacity - 1 \in Int
  BY BookAssumption
<1>2. IsFiniteSet(0 .. Capacity - 1)
  BY <1>1, FS_Interval
<1>3. IsFiniteSet(Slot)
  BY <1>2 DEF Slot
<1> QED
  BY <1>3, FS_Subset

-----------------------------------------------------------------------------
\* What Limit::removeOrder does to a level it does to the queue: the orders
\* left are in line, linked, and between the level's two ends.
LEMMA QueueRemove ==
  ASSUME NEW P, NEW A, NEW R, NEW B, NEW L \in Level, NEW v,
         NEW Q \in SUBSET Slot, NEW i \in Q,
         InLine(A, Q), Linked(P, A, Q), Ends(P, A, L, Q),
         \A j \in Q \ {i} :
           /\ R[j].nextOrder = IF j = P[i].prevOrder THEN P[i].nextOrder ELSE P[j].nextOrder
           /\ R[j].prevOrder = IF j = P[i].nextOrder THEN P[i].prevOrder ELSE P[j].prevOrder
           /\ B[j] = A[j] \ {i}
  PROVE  /\ InLine(B, Q \ {i})
         /\ Linked(R, B, Q \ {i})
         /\ Ends(R, B, removeOrderLimit(L, P, i, v), Q \ {i})
<1> DEFINE a == P[i].prevOrder
           b == P[i].nextOrder
           M == removeOrderLimit(L, P, i, v)
<1>0. Nil \notin Q
  BY NilIsNoSlot
<1>1. InLine(B, Q \ {i})
  BY DEF InLine
<1>2. a # Nil => a \in Q \ {i} /\ P[a].nextOrder = i
  BY DEF Linked
<1>3. b # Nil => b \in Q \ {i} /\ P[b].prevOrder = i /\ A[b] = A[i] \cup {i}
  BY DEF Linked
<1>4. a # Nil => A[i] = A[a] \cup {a}
  BY <1>0, <1>2 DEF Linked
<1>5. Linked(R, B, Q \ {i})
  <2> SUFFICES ASSUME NEW j \in Q \ {i}
               PROVE  /\ B[j] \subseteq (Q \ {i}) \ {j}
                      /\ R[j].nextOrder # Nil =>
                           /\ R[j].nextOrder \in Q \ {i}
                           /\ R[R[j].nextOrder].prevOrder = j
                           /\ B[R[j].nextOrder] = B[j] \cup {j}
                      /\ R[j].prevOrder # Nil =>
                           /\ R[j].prevOrder \in Q \ {i}
                           /\ R[R[j].prevOrder].nextOrder = j
    BY DEF Linked
  <2>1. B[j] \subseteq (Q \ {i}) \ {j}
    BY DEF Linked
  <2>2. CASE j = a
    BY <2>1, <2>2, <1>0, <1>2, <1>3, <1>4 DEF Linked
  <2>3. CASE j # a
    BY <2>1, <2>3, <1>0, <1>2, <1>3, <1>4 DEF Linked
  <2> QED
    BY <2>2, <2>3
<1>6. Ends(R, B, M, Q \ {i})
  <2>1. M.size = Cardinality(Q \ {i})
    <3>1. IsFiniteSet(Q)
      BY FiniteQueue
    <3> QED
      BY <3>1, FS_RemoveElement DEF M, removeOrderLimit, Ends
  <2>2. M.headOrder = IF a = Nil THEN b ELSE L.headOrder
    BY DEF removeOrderLimit
  <2>3. M.tailOrder = IF b = Nil THEN a ELSE L.tailOrder
    BY DEF removeOrderLimit
  <2>4. a = Nil <=> i = L.headOrder
    BY DEF Ends
  <2>5. b = Nil <=> i = L.tailOrder
    BY DEF Ends
  <2>6. M.headOrder = Nil <=> Q \ {i} = {}
    BY <2>2, <2>4, <2>5, <1>0, <1>2, <1>3, ZenonT(60) DEF Ends, Linked
  <2>7. M.tailOrder = Nil <=> Q \ {i} = {}
    BY <2>3, <2>4, <2>5, <1>0, <1>2, <1>3, <1>4, ZenonT(60) DEF Ends, Linked
  <2>8. Q \ {i} # {} => M.headOrder \in Q \ {i} /\ B[M.headOrder] = {}
    BY <2>2, <2>4, <2>6, <1>0, <1>3 DEF Ends
  <2>9. Q \ {i} # {} => /\ M.tailOrder \in Q \ {i}
                        /\ B[M.tailOrder] = (Q \ {i}) \ {M.tailOrder}
    BY <2>3, <2>5, <2>7, <1>0, <1>2, <1>4 DEF Ends, Linked
  <2>10. \A j \in Q \ {i} : /\ R[j].nextOrder = Nil <=> j = M.tailOrder
                            /\ R[j].prevOrder = Nil <=> j = M.headOrder
    BY <2>2, <2>3, <2>4, <2>5, <1>0, <1>2, <1>3 DEF Ends, Linked
  <2> HIDE DEF M
  <2> QED
    BY <2>1, <2>6, <2>7, <2>8, <2>9, <2>10 DEF Ends
<1> QED
  BY <1>1, <1>5, <1>6

\* Slot i has joined the orders Q of level L as its last: R and B are the pool
\* P and the arrivals A with i linked behind the old tail.
Joined(P, A, R, B, L, Q, i) ==
  /\ \A j \in Q : /\ R[j].nextOrder = IF j = L.tailOrder THEN i ELSE P[j].nextOrder
                  /\ R[j].prevOrder = P[j].prevOrder
                  /\ B[j] = A[j]
  /\ R[i].nextOrder = Nil
  /\ R[i].prevOrder = L.tailOrder
  /\ B[i] = Q

\* What Limit::addOrder does to a level it does to the queue: the newcomer is
\* behind all the others.
LEMMA QueueAdd ==
  ASSUME NEW P, NEW A, NEW R, NEW B, NEW L \in Level, NEW v,
         NEW Q \in SUBSET Slot, NEW i \in Slot \ Q,
         InLine(A, Q), Linked(P, A, Q), Ends(P, A, L, Q),
         Joined(P, A, R, B, L, Q, i)
  PROVE  /\ InLine(B, Q \cup {i})
         /\ Linked(R, B, Q \cup {i})
         /\ Ends(R, B, addOrderLimit(L, i, v), Q \cup {i})
<1> USE DEF Joined
<1> DEFINE t == L.tailOrder
           M == addOrderLimit(L, i, v)
<1>0. Nil \notin Q /\ i # Nil
  BY NilIsNoSlot
<1>1. InLine(B, Q \cup {i})
  BY DEF InLine
<1>2. t = Nil <=> Q = {}
  BY DEF Ends
<1>3. t # Nil => /\ t \in Q
                 /\ A[t] = Q \ {t}
                 /\ \A j \in Q : P[j].nextOrder = Nil <=> j = t
  BY <1>2 DEF Ends
<1>4. Linked(R, B, Q \cup {i})
  <2> SUFFICES ASSUME NEW j \in Q \cup {i}
               PROVE  /\ B[j] \subseteq (Q \cup {i}) \ {j}
                      /\ R[j].nextOrder # Nil =>
                           /\ R[j].nextOrder \in Q \cup {i}
                           /\ R[R[j].nextOrder].prevOrder = j
                           /\ B[R[j].nextOrder] = B[j] \cup {j}
                      /\ R[j].prevOrder # Nil =>
                           /\ R[j].prevOrder \in Q \cup {i}
                           /\ R[R[j].prevOrder].nextOrder = j
    BY DEF Linked
  <2>1. CASE j = i
    BY <2>1, <1>0, <1>2, <1>3
  <2>2. CASE j = t
    BY <2>2, <1>0, <1>2, <1>3 DEF Linked
  <2>3. CASE j # i /\ j # t
    BY <2>3, <1>0, <1>2, <1>3 DEF Linked
  <2> QED
    BY <2>1, <2>2, <2>3
<1>5. Ends(R, B, M, Q \cup {i})
  <2>1. M.size = Cardinality(Q \cup {i})
    <3>1. IsFiniteSet(Q)
      BY FiniteQueue
    <3>2. Cardinality(Q \cup {i}) = Cardinality(Q) + 1
      BY <3>1, FS_AddElement
    <3>3. M.size = L.size + 1
      BY DEF addOrderLimit
    <3> HIDE DEF M
    <3> QED
      BY <3>2, <3>3 DEF Ends
  <2>2. M.headOrder = IF L.headOrder = Nil THEN i ELSE L.headOrder
    BY DEF addOrderLimit
  <2>3. M.tailOrder = i
    BY DEF addOrderLimit
  <2>4. M.headOrder \in Q \cup {i} /\ B[M.headOrder] = {}
    BY <2>2, <1>0 DEF Ends
  <2>5. \A j \in Q \cup {i} : /\ R[j].nextOrder = Nil <=> j = M.tailOrder
                              /\ R[j].prevOrder = Nil <=> j = M.headOrder
    BY <2>2, <2>3, <1>0, <1>2, <1>3 DEF Ends
  <2> HIDE DEF M
  <2> QED
    BY <2>1, <2>3, <2>4, <2>5, <1>0 DEF Ends
<1> QED
  BY <1>1, <1>4, <1>5

\* A queue stays as it is if its own links and arrivals do.
LEMMA QueueKept ==
  ASSUME NEW P, NEW A, NEW R, NEW B, NEW Q,
         \A j \in Q : /\ R[j].nextOrder = P[j].nextOrder
                      /\ R[j].prevOrder = P[j].prevOrder
                      /\ B[j] = A[j]
  PROVE  /\ InLine(A, Q) => InLine(B, Q)
         /\ Linked(P, A, Q) => Linked(R, B, Q)
<1>1. InLine(A, Q) => InLine(B, Q)
  BY DEF InLine
<1>2. Linked(P, A, Q) => Linked(R, B, Q)
  BY DEF Linked
<1> QED
  BY <1>1, <1>2

LEMMA EndsKept ==
  ASSUME NEW P, NEW A, NEW R, NEW B, NEW L, NEW M, NEW Q,
         \A j \in Q : /\ R[j].nextOrder = P[j].nextOrder
                      /\ R[j].prevOrder = P[j].prevOrder
                      /\ B[j] = A[j],
         L.size = M.size, L.headOrder = M.headOrder, L.tailOrder = M.tailOrder,
         Ends(P, A, L, Q)
  PROVE  Ends(R, B, M, Q)
BY DEF Ends

\* A level has no order if and only if its count is 0.
LEMMA EmptyLevel ==
  ASSUME NEW P, NEW A, NEW L, NEW Q \in SUBSET Slot, Ends(P, A, L, Q)
  PROVE  L.size = 0 <=> Q = {}
<1>1. IsFiniteSet(Q)
  BY FiniteQueue
<1>2. Cardinality(Q) = 0 <=> Q = {}
  BY <1>1, FS_EmptySet
<1> QED
  BY <1>2 DEF Ends

-----------------------------------------------------------------------------
\* removeOrder changes links of live orders and nothing else of the pool.
LEMMA Unlinking ==
  ASSUME NEW P \in Block, NEW i \in Slot, P[i] \in Order,
         P[i].prevOrder # Nil => P[P[i].prevOrder] \in Order,
         P[i].nextOrder # Nil => P[P[i].nextOrder] \in Order,
         NEW j \in Slot
  PROVE  LET R == removeOrderPool(P, i)
         IN  /\ R \in Block
             /\ P[j] \in OP!FreeNode => R[j] = P[j]
             /\ P[j] \in Order =>
                  /\ R[j] \in Order
                  /\ SameTerms(R[j], P[j])
                  /\ R[j].nextOrder =
                       IF j = P[i].prevOrder THEN P[i].nextOrder ELSE P[j].nextOrder
                  /\ R[j].prevOrder =
                       IF j = P[i].nextOrder THEN P[i].prevOrder ELSE P[j].prevOrder
<1> DEFINE a == P[i].prevOrder
           b == P[i].nextOrder
           S == setNextOrder(P, a, b)
           R == setPrevOrder(S, b, a)
<1>0. a \in Nowhere /\ b \in Nowhere /\ Nil \notin Slot
  BY NilIsNoSlot DEF Order
<1>1. /\ S \in Block
      /\ \A k \in Slot : k # a => S[k] = P[k]
      /\ a # Nil => /\ S[a] \in Order
                    /\ SameTerms(S[a], P[a])
                    /\ S[a].nextOrder = b
                    /\ S[a].prevOrder = P[a].prevOrder
  BY <1>0, NextSet
<1>2. b # Nil => S[b] \in Order
  BY <1>0, <1>1, NilIsNoSlot
<1> HIDE DEF S
<1>3. /\ R \in Block
      /\ \A k \in Slot : k # b => R[k] = S[k]
      /\ b # Nil => /\ R[b] \in Order
                    /\ SameTerms(R[b], S[b])
                    /\ R[b].prevOrder = a
                    /\ R[b].nextOrder = S[b].nextOrder
  BY <1>0, <1>1, <1>2, PrevSet
<1>4. R = removeOrderPool(P, i)
  BY DEF removeOrderPool, S
<1> HIDE DEF R
<1>5. ASSUME P[j] \in OP!FreeNode PROVE R[j] = P[j]
  BY <1>5, <1>0, <1>1, <1>3, OrderIsNoFreeNode
<1>6. ASSUME P[j] \in Order
      PROVE  /\ R[j] \in Order
             /\ SameTerms(R[j], P[j])
             /\ R[j].nextOrder = IF j = a THEN b ELSE P[j].nextOrder
             /\ R[j].prevOrder = IF j = b THEN a ELSE P[j].prevOrder
  BY <1>6, <1>0, <1>1, <1>3 DEF SameTerms
<1> QED
  BY <1>3, <1>4, <1>5, <1>6

\* addOrder into level L: the new order and the old tail are linked, and
\* nothing else of the pool changes.
LEMMA Linking ==
  ASSUME NEW P \in Block, NEW i \in Slot, P[i] \in Order,
         NEW L \in Level, L.headOrder = Nil <=> L.tailOrder = Nil,
         L.tailOrder # Nil => P[L.tailOrder] \in Order /\ L.tailOrder # i,
         NEW j \in Slot
  PROVE  LET R == addOrderPool(L, P, i)
         IN  /\ R \in Block
             /\ P[j] \in OP!FreeNode => R[j] = P[j]
             /\ P[j] \in Order =>
                  /\ R[j] \in Order
                  /\ SameTerms(R[j], P[j])
                  /\ R[j].nextOrder = IF j = i THEN Nil
                                      ELSE IF j = L.tailOrder THEN i ELSE P[j].nextOrder
                  /\ R[j].prevOrder = IF j = i THEN L.tailOrder ELSE P[j].prevOrder
<1> DEFINE t == L.tailOrder
           h == IF L.headOrder = Nil THEN Nil ELSE t
           S == setNextOrder(P, i, Nil)
           T == setPrevOrder(S, i, t)
           R == setNextOrder(T, h, i)
<1>0. t \in Nowhere /\ i \in Nowhere /\ Nil \in Nowhere /\ i # Nil /\ Nil \notin Slot
  BY NilIsNoSlot DEF Level
<1>h. h = t
  OBVIOUS
<1>1. /\ S \in Block
      /\ \A k \in Slot : k # i => S[k] = P[k]
      /\ S[i] \in Order
      /\ SameTerms(S[i], P[i])
      /\ S[i].nextOrder = Nil
  BY <1>0, NextSet
<1> HIDE DEF S, t, h
<1>2. /\ T \in Block
      /\ \A k \in Slot : k # i => T[k] = S[k]
      /\ T[i] \in Order
      /\ SameTerms(T[i], S[i])
      /\ T[i].prevOrder = t
      /\ T[i].nextOrder = S[i].nextOrder
  <2>1. S \in Block /\ i \in Nowhere /\ t \in Nowhere /\ (i # Nil => S[i] \in Order)
    BY <1>0, <1>1
  <2>2. T = setPrevOrder(S, i, t)
    OBVIOUS
  <2> HIDE DEF T
  <2> QED
    BY <2>1, <2>2, <1>0, PrevSet, SMTT(30)
<1> HIDE DEF T
<1>3. t # Nil => T[t] \in Order /\ T[t] = P[t] /\ t \in Slot
  BY <1>0, <1>1, <1>2, NilIsNoSlot DEF t
<1>4. /\ R \in Block
      /\ \A k \in Slot : k # t => R[k] = T[k]
      /\ t # Nil => /\ R[t] \in Order
                    /\ SameTerms(R[t], T[t])
                    /\ R[t].nextOrder = i
                    /\ R[t].prevOrder = T[t].prevOrder
  <2>1. setNextOrder(T, t, i) = R
    BY <1>h
  <2> HIDE DEF R
  <2> QED
    BY <2>1, <1>0, <1>2, <1>3, NextSet, SMTT(30)
<1>5. R = addOrderPool(L, P, i)
  BY DEF addOrderPool, S, T, h, t
<1> HIDE DEF R
<1>6. ASSUME P[j] \in OP!FreeNode PROVE R[j] = P[j]
  <2>1. j # i /\ j # t
    BY <1>6, OrderIsNoFreeNode, NilIsNoSlot DEF t
  <2> QED
    BY <2>1, <1>1, <1>2, <1>4
<1>7. ASSUME P[j] \in Order
      PROVE  /\ R[j] \in Order
             /\ SameTerms(R[j], P[j])
             /\ R[j].nextOrder = IF j = i THEN Nil ELSE IF j = t THEN i ELSE P[j].nextOrder
             /\ R[j].prevOrder = IF j = i THEN t ELSE P[j].prevOrder
  <2>1. CASE j = i
    <3>1. i # t
      BY <1>0 DEF t
    <3>2. R[i] = T[i]
      BY <3>1, <1>4
    <3> QED
      BY <2>1, <3>2, <1>1, <1>2 DEF SameTerms
  <2>2. CASE j = t
    <3>1. t # Nil /\ t # i
      BY <2>2, <1>0 DEF t
    <3> QED
      BY <2>2, <3>1, <1>3, <1>4
  <2>3. CASE j # i /\ j # t
    <3>1. R[j] = P[j]
      BY <2>3, <1>1, <1>2, <1>4
    <3> QED
      BY <3>1, <2>3, <1>7 DEF SameTerms
  <2> QED
    BY <2>1, <2>2, <2>3
<1> QED
  BY <1>4, <1>5, <1>6, <1>7 DEF t

-----------------------------------------------------------------------------
\* The pool of Book is an instance of ObjectPool, so is what is proved of it.
LEMMA PoolIsInstance ==
  /\ PP!FreeNode = OP!FreeNode
  /\ PP!Slot = Slot
  /\ PP!Exhausted <=> OP!Exhausted
  /\ PP!FreeListInv <=> FreeListInv
  /\ TypeOK => PP!TypeOK
  /\ PP!PoolAssumption
  /\ \A i \in Slot : i \in PP!Live <=> pool[i] \in Order
<1>1. PP!FreeNode = OP!FreeNode
  BY DEF PP!FreeNode, OP!FreeNode, PP!Slot, OP!Slot, PP!Nil, OP!Nil
<1>2. PP!Slot = Slot
  BY DEF PP!Slot, Slot
<1>3. PP!Exhausted <=> OP!Exhausted
  BY DEF PP!Exhausted, OP!Exhausted, PP!Nil, OP!Nil
<1>4. PP!FreeListInv <=> FreeListInv
  BY DEF FreeListInv, PP!FreeListInv, OP!FreeListInv, PP!FreeList, OP!FreeList,
     PP!FreeSlots, OP!FreeSlots, PP!FreeNode, OP!FreeNode, PP!Slot, OP!Slot, PP!Nil, OP!Nil
<1>5. TypeOK => PP!TypeOK
  BY <1>1, <1>2 DEF TypeOK, PP!TypeOK, Nowhere, PP!Nil, Nil
<1>6. PP!PoolAssumption
  BY <1>1, OrderIsNoFreeNode, BookAssumption DEF PP!PoolAssumption
<1>7. \A i \in Slot : i \in PP!Live <=> pool[i] \in Order
  BY <1>2 DEF PP!Live
<1> QED
  BY <1>1, <1>2, <1>3, <1>4, <1>5, <1>6, <1>7

\* The three ways in which a step touches the free stack.
LEMMA FreeListPush ==
  ASSUME TypeOK, FreeListInv, NEW i \in Slot, pool[i] \in Order,
         pool'[i] = [next_free_index |-> head_free_index],
         head_free_index' = i,
         \A j \in Slot \ {i} : /\ pool[j] \in OP!FreeNode => pool'[j] = pool[j]
                               /\ pool[j] \in Order => pool'[j] \in Order
  PROVE  FreeListInv'
<1>1. PP!OthersKept(i)
  BY PoolIsInstance DEF PP!OthersKept
<1>2. PP!FreeListInv'
  BY <1>1, PoolIsInstance, PP!PushKeepsFreeList
<1>3. (PP!FreeListInv <=> FreeListInv)'
  BY PoolIsInstance, PTL
<1> QED
  BY <1>2, <1>3

LEMMA FreeListPop ==
  ASSUME TypeOK, FreeListInv, ~OP!Exhausted,
         head_free_index' = pool[head_free_index].next_free_index,
         pool'[head_free_index] \in Order,
         \A j \in Slot \ {head_free_index} :
           /\ pool[j] \in OP!FreeNode => pool'[j] = pool[j]
           /\ pool[j] \in Order => pool'[j] \in Order
  PROVE  FreeListInv'
<1>1. PP!OthersKept(head_free_index)
  BY PoolIsInstance DEF PP!OthersKept
<1>2. PP!FreeListInv'
  BY <1>1, PoolIsInstance, PP!PopKeepsFreeList
<1>3. (PP!FreeListInv <=> FreeListInv)'
  BY PoolIsInstance, PTL
<1> QED
  BY <1>2, <1>3

LEMMA FreeListTop ==
  ASSUME TypeOK, FreeListInv, ~OP!Exhausted
  PROVE  /\ head_free_index \in Slot
         /\ pool[head_free_index] \in OP!FreeNode
         /\ pool[head_free_index].next_free_index \in Nowhere
<1>1. head_free_index \in Slot /\ pool[head_free_index] \in OP!FreeNode
  BY PoolIsInstance, PP!TopIsFree
<1> QED
  BY <1>1, NilIsNoSlot DEF OP!FreeNode

LEMMA FreeListNone ==
  ASSUME TypeOK, FreeListInv, OP!Exhausted, NEW i \in Slot PROVE pool[i] \in Order
BY PoolIsInstance, PP!NoneIsFree

LEMMA FreeListOwner ==
  ASSUME TypeOK, FreeListInv, UNCHANGED head_free_index,
         \A j \in Slot : /\ pool[j] \in OP!FreeNode => pool'[j] = pool[j]
                         /\ pool[j] \in Order => pool'[j] \in Order
  PROVE  FreeListInv'
<1>1. PP!FreeListInv'
  BY PoolIsInstance, PP!OwnerKeepsFreeList
<1>2. (PP!FreeListInv <=> FreeListInv)'
  BY PoolIsInstance, PTL
<1> QED
  BY <1>1, <1>2

LEMMA FreeListLinked ==
  pool = OP!Linked /\ head_free_index = 0 => FreeListInv
<1>1. OP!Linked = PP!Linked
  BY DEF OP!Linked, PP!Linked, OP!Slot, PP!Slot, OP!Nil, PP!Nil
<1> QED
  BY <1>1, PoolIsInstance, PP!LinkedIsFreeList

-----------------------------------------------------------------------------
\* The orders of a queue are live and of its side and price.
LEMMA NeighboursLive ==
  ASSUME QueueInv, NEW i \in Slot, pool[i] \in Order, pool[i].price \in PriceIdx
  PROVE  LET s == pool[i].side
             p == pool[i].price
         IN  /\ s \in Side
             /\ i \in OrdersAt(s, p)
             /\ levels[s][p] # NoLimit
             /\ pool[i].prevOrder # Nil => pool[i].prevOrder \in OrdersAt(s, p)
             /\ pool[i].nextOrder # Nil => pool[i].nextOrder \in OrdersAt(s, p)
<1>1. pool[i].side \in Side /\ i \in OrdersAt(pool[i].side, pool[i].price)
  BY DEF Order, OrdersAt
<1>2. Queue(pool[i].side, pool[i].price)
  BY <1>1 DEF QueueInv
<1> QED
  BY <1>1, <1>2 DEF Queue, Linked

\* An order that leaves its level and the pool: what the rest of the book
\* looks like in the state after.
LEMMA SlotFreed ==
  ASSUME TypeOK, FreeListInv, QueueInv,
         NEW i \in Slot, pool[i] \in Order, pool[i].price \in PriceIdx,
         OP!deallocate(removeOrderPool(pool, i), i), DropFromQueues(i)
  PROVE  /\ pool' \in Block /\ head_free_index' \in Nowhere
         /\ ahead' \in [Slot -> SUBSET Slot]
         /\ FreeListInv'
         /\ pool'[i] \in OP!FreeNode
         /\ \A j \in Slot \ {i} : pool'[j] \in Order <=> pool[j] \in Order
         /\ \A j \in Slot \ {i} : pool[j] \in Order =>
              /\ SameTerms(pool'[j], pool[j])
              /\ pool'[j].nextOrder = IF j = pool[i].prevOrder
                                      THEN pool[i].nextOrder ELSE pool[j].nextOrder
              /\ pool'[j].prevOrder = IF j = pool[i].nextOrder
                                      THEN pool[i].prevOrder ELSE pool[j].prevOrder
         /\ \A j \in Slot \ {i} : ahead'[j] = ahead[j] \ {i}
<1> DEFINE R == removeOrderPool(pool, i)
<1>1. pool \in Block
  BY DEF TypeOK, Block
<1>2. /\ pool[i].prevOrder # Nil => pool[pool[i].prevOrder] \in Order
      /\ pool[i].nextOrder # Nil => pool[pool[i].nextOrder] \in Order
  BY NeighboursLive DEF OrdersAt
<1>3. \A j \in Slot :
        /\ R \in Block
        /\ pool[j] \in OP!FreeNode => R[j] = pool[j]
        /\ pool[j] \in Order =>
             /\ R[j] \in Order
             /\ SameTerms(R[j], pool[j])
             /\ R[j].nextOrder =
                  IF j = pool[i].prevOrder THEN pool[i].nextOrder ELSE pool[j].nextOrder
             /\ R[j].prevOrder =
                  IF j = pool[i].nextOrder THEN pool[i].prevOrder ELSE pool[j].prevOrder
  BY <1>1, <1>2, Unlinking
<1> HIDE DEF R
<1>4. /\ pool' = [R EXCEPT ![i] = [next_free_index |-> head_free_index]]
      /\ head_free_index' = i
  BY DEF OP!deallocate, OP!Deallocated, R
<1>5. [next_free_index |-> head_free_index] \in OP!FreeNode
  BY NilIsNoSlot DEF TypeOK, OP!FreeNode
<1>6. R \in Block
  BY <1>3
<1>7. /\ pool' \in Block
      /\ pool'[i] = [next_free_index |-> head_free_index]
      /\ \A j \in Slot \ {i} : pool'[j] = R[j]
  BY <1>4, <1>5, <1>6 DEF Block
<1>8. \A j \in Slot \ {i} : /\ pool[j] \in OP!FreeNode => pool'[j] = pool[j]
                            /\ pool[j] \in Order => pool'[j] \in Order
  BY <1>3, <1>7
<1>9. FreeListInv'
  BY <1>4, <1>7, <1>8, FreeListPush
<1>10. \A j \in Slot \ {i} : pool'[j] \in Order <=> pool[j] \in Order
  BY <1>1, <1>8, OrderIsNoFreeNode DEF Block
<1>11. /\ ahead' \in [Slot -> SUBSET Slot]
       /\ \A j \in Slot \ {i} : ahead'[j] = ahead[j] \ {i}
  BY DEF DropFromQueues, TypeOK
<1>12. head_free_index' \in Nowhere
  BY <1>4 DEF Nowhere
<1> QED
  BY <1>3, <1>5, <1>7, <1>9, <1>10, <1>11, <1>12

\* The level at which order i stood once it is gone; the others as they were.
LevelWithout(i, s, p) ==
  IF s = pool[i].side /\ p = pool[i].price
  THEN removeOrderLimit(levels[s][p], pool, i, pool[i].shares)
  ELSE levels[s][p]

LEMMA QueuesWithout ==
  ASSUME TypeOK, FreeListInv, QueueInv,
         NEW i \in Slot, pool[i] \in Order, pool[i].price \in PriceIdx,
         OP!deallocate(removeOrderPool(pool, i), i), DropFromQueues(i),
         NEW s \in Side, NEW p \in PriceIdx
  PROVE  /\ OrdersAt(s, p)' = OrdersAt(s, p) \ {i}
         /\ InLine(ahead', OrdersAt(s, p)')
         /\ Linked(pool', ahead', OrdersAt(s, p)')
         /\ levels[s][p] # NoLimit =>
              /\ LevelWithout(i, s, p) \in Level
              /\ Ends(pool', ahead', LevelWithout(i, s, p), OrdersAt(s, p)')
<1> DEFINE Q == OrdersAt(s, p)
           L == levels[s][p]
<1>1. /\ pool'[i] \in OP!FreeNode
      /\ \A j \in Slot \ {i} : pool'[j] \in Order <=> pool[j] \in Order
      /\ \A j \in Slot \ {i} : pool[j] \in Order =>
           /\ SameTerms(pool'[j], pool[j])
           /\ pool'[j].nextOrder = IF j = pool[i].prevOrder
                                   THEN pool[i].nextOrder ELSE pool[j].nextOrder
           /\ pool'[j].prevOrder = IF j = pool[i].nextOrder
                                   THEN pool[i].prevOrder ELSE pool[j].prevOrder
      /\ \A j \in Slot \ {i} : ahead'[j] = ahead[j] \ {i}
  BY SlotFreed
<1>2. OrdersAt(s, p)' = Q \ {i}
  BY <1>1, OrderIsNoFreeNode DEF OrdersAt, SameTerms
<1>3. InLine(ahead, Q) /\ Linked(pool, ahead, Q) /\ (L # NoLimit => Ends(pool, ahead, L, Q))
  BY DEF QueueInv, Queue
<1>4. Q \in SUBSET Slot /\ \A j \in Q : pool[j] \in Order /\ pool[j].side = s /\ pool[j].price = p
  BY DEF OrdersAt
<1>5. L # NoLimit => L \in Level
  BY DEF TypeOK
<1> HIDE DEF Q, L
<1>6. CASE s = pool[i].side /\ p = pool[i].price
  <2>1. i \in Q /\ L # NoLimit
    BY <1>6, NeighboursLive DEF Q, L
  <2>2. LevelWithout(i, s, p) = removeOrderLimit(L, pool, i, pool[i].shares)
    BY <1>6 DEF LevelWithout, L
  <2>3. /\ InLine(ahead', Q \ {i})
        /\ Linked(pool', ahead', Q \ {i})
        /\ Ends(pool', ahead', removeOrderLimit(L, pool, i, pool[i].shares), Q \ {i})
    <3>1. \A j \in Q \ {i} :
            /\ pool'[j].nextOrder = IF j = pool[i].prevOrder
                                    THEN pool[i].nextOrder ELSE pool[j].nextOrder
            /\ pool'[j].prevOrder = IF j = pool[i].nextOrder
                                    THEN pool[i].prevOrder ELSE pool[j].prevOrder
            /\ ahead'[j] = ahead[j] \ {i}
      BY <1>1, <1>4
    <3>2. L \in Level /\ Q \in SUBSET Slot /\ i \in Q
      BY <2>1, <1>4, <1>5
    <3>3. InLine(ahead, Q) /\ Linked(pool, ahead, Q) /\ Ends(pool, ahead, L, Q)
      BY <2>1, <1>3
    <3> QED
      BY <3>1, <3>2, <3>3, QueueRemove
  <2>4. removeOrderLimit(L, pool, i, pool[i].shares) \in Level
    BY <2>1, <1>5 DEF removeOrderLimit, Level, Order
  <2> QED
    BY <2>2, <2>3, <2>4, <1>2 DEF Q, L
<1>7. CASE ~(s = pool[i].side /\ p = pool[i].price)
  <2>1. i \notin Q
    BY <1>4, <1>7
  <2>2. \A j \in Q : j # pool[i].prevOrder /\ j # pool[i].nextOrder
    <3>1. /\ pool[i].prevOrder # Nil => pool[pool[i].prevOrder].side = pool[i].side
                                     /\ pool[pool[i].prevOrder].price = pool[i].price
          /\ pool[i].nextOrder # Nil => pool[pool[i].nextOrder].side = pool[i].side
                                     /\ pool[pool[i].nextOrder].price = pool[i].price
      BY NeighboursLive DEF OrdersAt
    <3> QED
      BY <3>1, <1>4, <1>7, NilIsNoSlot
  <2>3. LevelWithout(i, s, p) = L
    BY <1>7 DEF LevelWithout, L
  <2>4. \A j \in Q : /\ pool'[j].nextOrder = pool[j].nextOrder
                     /\ pool'[j].prevOrder = pool[j].prevOrder
                     /\ ahead'[j] = ahead[j] \ {i}
    BY <2>1, <2>2, <1>1, <1>4
  <2>5. /\ InLine(ahead', Q)
        /\ Linked(pool', ahead', Q)
        /\ L # NoLimit => Ends(pool', ahead', L, Q)
    <3>1. \A j \in Q : ahead[j] \ {i} = ahead[j]
      BY <2>1, <1>3 DEF Linked
    <3>2. \A j \in Q : /\ pool'[j].nextOrder = pool[j].nextOrder
                       /\ pool'[j].prevOrder = pool[j].prevOrder
                       /\ ahead'[j] = ahead[j]
      BY <3>1, <2>4
    <3>3. InLine(ahead', Q) /\ Linked(pool', ahead', Q)
      BY <3>2, <1>3, QueueKept
    <3>4. L # NoLimit => Ends(pool', ahead', L, Q)
      BY <3>2, <1>3, EndsKept
    <3> QED
      BY <3>3, <3>4
  <2>6. Q \ {i} = Q
    BY <2>1
  <2> QED
    BY <2>3, <2>5, <2>6, <1>2, <1>5 DEF Q, L
<1> QED
  BY <1>6, <1>7

-----------------------------------------------------------------------------
\* The inductive invariant.  That the cursors are right needs the queues, that
\* an order may be unlinked needs the queues and the id map, and that a slot
\* may be taken needs the free list.
BookInv ==
  /\ TypeOK
  /\ FreeListInv
  /\ IndexInv
  /\ QueueInv
  /\ CursorInv
  /\ NotCrossed

\* The types of what a call in progress reads and writes in the book.
StoreTypeOK ==
  /\ pool \in Block
  /\ head_free_index \in Nowhere
  /\ levels \in [Side -> [PriceIdx -> Level \cup {NoLimit}]]
  /\ orderMap \in [Id -> Nowhere]
  /\ ahead \in [Slot -> SUBSET Slot]

\* The types of the call itself.
CallTypeOK ==
  /\ pc \in {"idle", "level", "order", "threw"}
  /\ call \in [op : {"none", "add", "modify", "market"}, id : Id \cup {Nil},
               side : Side, price : Nat]
  /\ remainingShares \in Nat
  /\ limitIt \in PriceIdx \cup {End}
  /\ currIdx \in Nowhere

LEMMA TypeOKParts == TypeOK <=> StoreTypeOK /\ CallTypeOK
BY DEF TypeOK, StoreTypeOK, CallTypeOK, Block

\* Every order in the pool is reached by its id, but for the one whose price
\* made emplace throw.
Reachable ==
  /\ \A id \in Id : orderMap[id] # Nil =>
       /\ pool[orderMap[id]] \in Order
       /\ pool[orderMap[id]].id = id
       /\ pool[orderMap[id]].price \in PriceIdx
  /\ \A i \in Slot : pool[i] \in Order =>
       /\ pool[i].shares > 0
       /\ orderMap[pool[i].id] = i

LEMMA IndexParts ==
  ASSUME pc # "threw"
  PROVE  IndexInv <=> /\ Reachable
                      /\ pc \in {"level", "order"} /\ call.op # "market" =>
                           call.id \in Id /\ orderMap[call.id] = Nil
BY DEF IndexInv, Reachable

LEMMA ReachableWithout ==
  ASSUME StoreTypeOK, Reachable,
         NEW i \in Slot, pool[i] \in Order,
         pool'[i] \in OP!FreeNode,
         \A j \in Slot \ {i} : pool'[j] \in Order <=> pool[j] \in Order,
         \A j \in Slot \ {i} : pool[j] \in Order => SameTerms(pool'[j], pool[j]),
         orderMap' = [orderMap EXCEPT ![pool[i].id] = Nil]
  PROVE  Reachable'
<1>1. pool[i].id \in Id /\ orderMap[pool[i].id] = i
  BY DEF Order, Reachable
<1>2. ASSUME NEW id \in Id, orderMap'[id] # Nil
      PROVE  /\ pool'[orderMap'[id]] \in Order
             /\ pool'[orderMap'[id]].id = id
             /\ pool'[orderMap'[id]].price \in PriceIdx
  <2>1. id # pool[i].id /\ orderMap'[id] = orderMap[id]
    BY <1>2 DEF StoreTypeOK
  <2>2. /\ pool[orderMap[id]] \in Order
        /\ pool[orderMap[id]].id = id
        /\ pool[orderMap[id]].price \in PriceIdx
        /\ orderMap[id] \in Slot \ {i}
    BY <1>2, <2>1 DEF Reachable, StoreTypeOK, Nowhere
  <2> QED
    BY <2>1, <2>2 DEF SameTerms
<1>3. ASSUME NEW j \in Slot, pool'[j] \in Order
      PROVE  pool'[j].shares > 0 /\ orderMap'[pool'[j].id] = j
  <2>1. j # i
    BY <1>3, OrderIsNoFreeNode
  <2>2. pool[j] \in Order /\ SameTerms(pool'[j], pool[j])
    BY <2>1, <1>3
  <2>3. pool[j].shares > 0 /\ orderMap[pool[j].id] = j /\ pool[j].id \in Id
    BY <2>2 DEF Reachable, Order
  <2>4. pool[j].id # pool[i].id
    BY <2>1, <2>3, <1>1
  <2> QED
    BY <2>2, <2>3, <2>4 DEF SameTerms, StoreTypeOK
<1> QED
  BY <1>2, <1>3 DEF Reachable

\* A book in which levels only disappear is not crossed if it was not.
LEMMA FewerLevels ==
  ASSUME NotCrossed, \A s \in Side : Active(levels'[s]) \subseteq Active(levels[s])
  PROVE  NotCrossed'
BY DEF NotCrossed, Side

\* The first of the prices S is one of them, or End if there is none.
LEMMA FirstTyped == ASSUME NEW s, NEW S, NEW x \in First(s, S)
                    PROVE  x \in PriceIdx \cup {End} /\ IsFirst(s, S, x)
BY DEF First

LEMMA EnterCursor ==
  ASSUME NEW op \in {"add", "modify", "market"}, NEW id \in Id \cup {Nil},
         NEW side \in Side, NEW shares \in Nat, NEW price \in Nat,
         Enter(op, id, side, shares, price)
  PROVE  CallTypeOK' /\ CursorInv'
<1>1. /\ pc' = "level"
      /\ call' = [op |-> op, id |-> id, side |-> side, price |-> price]
      /\ remainingShares' = shares
      /\ limitIt' \in First(Opposite(side), Active(levels'[Opposite(side)]))
      /\ currIdx' = Nil
  BY DEF Enter
<1>2. limitIt' \in PriceIdx \cup {End}
  BY <1>1, FirstTyped
<1>3. IsFirst(Opposite(side), Active(levels'[Opposite(side)]), limitIt')
  BY <1>1, FirstTyped
<1>4. CallTypeOK'
  BY <1>1, <1>2, NilIsNoSlot DEF CallTypeOK
<1>5. call'.side = side
  BY <1>1
<1>6. CursorInv'
  BY <1>1, <1>3, <1>5 DEF CursorInv, RestingSide
<1> QED
  BY <1>4, <1>6

-----------------------------------------------------------------------------
\* The invariant in two parts: what is stored, and the call in progress.
StoreInv == StoreTypeOK /\ FreeListInv /\ Reachable /\ NotCrossed

IdFree == pc \in {"level", "order"} /\ call.op # "market" =>
            call.id \in Id /\ orderMap[call.id] = Nil

CallInv == CallTypeOK /\ CursorInv /\ IdFree

LEMMA BookInvParts ==
  pc # "threw" => (BookInv <=> StoreInv /\ QueueInv /\ CallInv)
BY IndexParts, TypeOKParts DEF BookInv, StoreInv, CallInv, IdFree

LEMMA Assemble ==
  ASSUME StoreInv', QueueInv', CallInv', pc' # "threw" PROVE BookInv'
<1>1. (pc # "threw" => (BookInv <=> StoreInv /\ QueueInv /\ CallInv))'
  BY BookInvParts, PTL
<1> QED
  BY <1>1

\* cancelLimitOrder: the level is left with the other orders, or erased.
LEMMA CancelStep ==
  ASSUME BookInv, pc = "idle", NEW id \in Id, orderMap[id] # Nil, Cancel(id),
         pc' \in {"idle", "level"}
  PROVE  StoreInv' /\ QueueInv' /\ orderMap'[id] = Nil
<1> DEFINE i == orderMap[id]
           o == pool[i]
           E == EraseIfEmpty(LevelWithout(i, o.side, o.price))
<1>1. StoreInv /\ QueueInv /\ TypeOK /\ FreeListInv /\ StoreTypeOK /\ Reachable
  BY BookInvParts DEF BookInv, StoreInv
<1>2. /\ i \in Slot
      /\ o \in Order
      /\ o.id = id
      /\ o.price \in PriceIdx
      /\ o.side \in Side
  BY <1>1 DEF Reachable, StoreTypeOK, Nowhere, Order
<1>3. levels[o.side][o.price] # NoLimit
  BY <1>1, <1>2, NeighboursLive
<1>4. /\ OP!deallocate(removeOrderPool(pool, i), i)
      /\ DropFromQueues(i)
      /\ orderMap' = [orderMap EXCEPT ![o.id] = Nil]
      /\ levels' = [levels EXCEPT ![o.side][o.price] = E]
  BY <1>2, <1>3 DEF Cancel, LevelWithout
<1>5. /\ pool' \in Block /\ head_free_index' \in Nowhere
      /\ ahead' \in [Slot -> SUBSET Slot]
      /\ FreeListInv'
      /\ pool'[i] \in OP!FreeNode
      /\ \A j \in Slot \ {i} : pool'[j] \in Order <=> pool[j] \in Order
      /\ \A j \in Slot \ {i} : pool[j] \in Order => SameTerms(pool'[j], pool[j])
  BY <1>1, <1>2, <1>4, SlotFreed
<1> HIDE DEF i, o, E
<1>6. \A s \in Side, p \in PriceIdx :
        /\ InLine(ahead', OrdersAt(s, p)')
        /\ Linked(pool', ahead', OrdersAt(s, p)')
        /\ OrdersAt(s, p)' = OrdersAt(s, p) \ {i}
        /\ levels[s][p] # NoLimit =>
             /\ LevelWithout(i, s, p) \in Level
             /\ Ends(pool', ahead', LevelWithout(i, s, p), OrdersAt(s, p)')
  BY <1>1, <1>2, <1>4, QueuesWithout DEF o
<1>7. \A s \in Side, p \in PriceIdx :
        levels'[s][p] = IF s = o.side /\ p = o.price THEN E ELSE levels[s][p]
  BY <1>1, <1>2, <1>4 DEF StoreTypeOK
<1>8. E \in Level \cup {NoLimit}
  BY <1>2, <1>3, <1>6 DEF E, EraseIfEmpty
<1>9. levels' \in [Side -> [PriceIdx -> Level \cup {NoLimit}]]
  BY <1>1, <1>2, <1>4, <1>8 DEF StoreTypeOK
<1>10. StoreTypeOK'
  BY <1>1, <1>2, <1>4, <1>5, <1>9 DEF StoreTypeOK, Nowhere
<1>11. Reachable'
  BY <1>1, <1>2, <1>4, <1>5, ReachableWithout DEF o
<1>12. QueueInv'
  <2> SUFFICES ASSUME NEW s \in Side, NEW p \in PriceIdx PROVE Queue(s, p)'
    BY DEF QueueInv
  <2> DEFINE Q == OrdersAt(s, p)'
             L == levels'[s][p]
  <2>1. Queue(s, p)
    BY <1>1 DEF QueueInv
  <2>2. InLine(ahead', Q) /\ Linked(pool', ahead', Q)
    BY <1>6
  <2>3. (L = NoLimit => Q = {}) /\ (L # NoLimit => Ends(pool', ahead', L, Q) /\ Q # {})
    <3>1. CASE s = o.side /\ p = o.price
      <4>1. L = EraseIfEmpty(LevelWithout(i, s, p))
        BY <3>1, <1>7 DEF E
      <4>2. Ends(pool', ahead', LevelWithout(i, s, p), Q) /\ LevelWithout(i, s, p) \in Level
        BY <3>1, <1>3, <1>6
      <4>3. Q \in SUBSET Slot
        BY <1>6 DEF OrdersAt
      <4>4. LevelWithout(i, s, p).size = 0 <=> Q = {}
        BY <4>2, <4>3, EmptyLevel
      <4> QED
        BY <4>1, <4>2, <4>4, BookAssumption DEF EraseIfEmpty
    <3>2. CASE ~(s = o.side /\ p = o.price)
      <4>1. L = levels[s][p] /\ LevelWithout(i, s, p) = levels[s][p]
        BY <3>2, <1>7 DEF LevelWithout, o
      <4>2. OrdersAt(s, p)' = OrdersAt(s, p)
        <5>1. i \notin OrdersAt(s, p)
          BY <3>2 DEF OrdersAt, o
        <5> QED
          BY <5>1, <1>6
      <4>3. ~BeingMatched(s, p)
        BY DEF BeingMatched
      <4> QED
        BY <4>1, <4>2, <4>3, <2>1, <1>6 DEF Queue
    <3> QED
      BY <3>1, <3>2
  <2> QED
    BY <2>2, <2>3 DEF Queue
<1>13. NotCrossed'
  <2>1. \A s \in Side : Active(levels'[s]) \subseteq Active(levels[s])
    BY <1>3, <1>7 DEF Active
  <2> QED
    BY <2>1, <1>1, FewerLevels DEF StoreInv
<1>14. orderMap'[id] = Nil
  BY <1>1, <1>2, <1>4 DEF StoreTypeOK
<1> QED
  BY <1>5, <1>10, <1>11, <1>12, <1>13, <1>14 DEF StoreInv

\* After a call that ends, or one that did not begin, nothing is in progress.
LEMMA IdleCall ==
  ASSUME CallInv, pc = "idle", UNCHANGED <<pc, loopVars>>, StoreTypeOK' 
  PROVE  CallInv' /\ pc' # "threw"
BY DEF CallInv, CallTypeOK, CursorInv, IdFree, loopVars

LEMMA ReturnedCall ==
  ASSUME Return, StoreTypeOK' PROVE CallInv' /\ pc' # "threw"
BY NilIsNoSlot DEF Return, NoCall, CallInv, CallTypeOK, CursorInv, IdFree, Side

\* A call that enters the matching loops with an id that is free.
LEMMA EnteredCall ==
  ASSUME NEW op \in {"add", "modify", "market"}, NEW id \in Id \cup {Nil},
         NEW side \in Side, NEW shares \in Nat, NEW price \in Nat,
         Enter(op, id, side, shares, price),
         op # "market" => id \in Id /\ orderMap'[id] = Nil
  PROVE  CallInv' /\ pc' = "level"
<1>1. CallTypeOK' /\ CursorInv'
  BY EnterCursor
<1>2. pc' = "level" /\ call'.op = op /\ call'.id = id
  BY DEF Enter
<1> QED
  BY <1>1, <1>2 DEF CallInv, IdFree

LEMMA CancelLimitOrderKeeps ==
  ASSUME BookInv, NEW id \in Id, CancelLimitOrder(id) PROVE BookInv'
<1>1. pc = "idle" /\ orderMap[id] # Nil /\ Cancel(id) /\ UNCHANGED <<pc, loopVars>>
  BY DEF CancelLimitOrder
<1>2. CallInv
  BY <1>1, BookInvParts
<1>3. StoreInv' /\ QueueInv'
  BY <1>1, CancelStep
<1>4. CallInv' /\ pc' # "threw"
  BY <1>1, <1>2, <1>3, IdleCall DEF StoreInv
<1> QED
  BY <1>3, <1>4, Assemble

LEMMA ModifyByReplaceKeeps ==
  ASSUME BookInv, NEW id \in Id, NEW shares \in Quantity, NEW price \in Price,
         ModifyByReplace(id, shares, price)
  PROVE  BookInv'
<1>1. /\ pc = "idle" /\ orderMap[id] # Nil /\ Cancel(id)
      /\ Enter("modify", id, pool[orderMap[id]].side, shares, price)
  BY DEF ModifyByReplace
<1>2. pc' = "level"
  BY <1>1 DEF Enter
<1>3. StoreInv' /\ QueueInv' /\ orderMap'[id] = Nil
  BY <1>1, <1>2, CancelStep
<1>4. pool[orderMap[id]].side \in Side
  BY <1>1, BookInvParts DEF StoreInv, StoreTypeOK, Reachable, Nowhere, Order
<1>5. shares \in Nat /\ price \in Nat
  BY BookAssumption
<1>6. CallInv' /\ pc' = "level"
  BY <1>1, <1>3, <1>4, <1>5, EnteredCall
<1> QED
  BY <1>3, <1>6, Assemble

-----------------------------------------------------------------------------
\* Steps that leave the stored book alone.
LEMMA StoreKept ==
  ASSUME BookInv, StoreInv, UNCHANGED <<poolVars, levels, orderMap, ahead>>
  PROVE  StoreInv'
<1>1. UNCHANGED <<pool, head_free_index, levels, orderMap, ahead>>
  BY DEF poolVars
<1>2. StoreTypeOK' /\ Reachable'
  BY <1>1 DEF StoreInv, StoreTypeOK, Reachable
<1>3. NotCrossed'
  BY <1>1 DEF StoreInv, NotCrossed
<1>4. FreeListInv'
  BY <1>1, FreeListOwner DEF BookInv
<1> QED
  BY <1>2, <1>3, <1>4 DEF StoreInv

LEMMA QueuesKept ==
  ASSUME QueueInv, UNCHANGED <<pool, levels, ahead>>,
         \A s \in Side, p \in PriceIdx :
           BeingMatched(s, p) => BeingMatched(s, p)' \/ OrdersAt(s, p) # {}
  PROVE  QueueInv'
<1> SUFFICES ASSUME NEW s \in Side, NEW p \in PriceIdx PROVE Queue(s, p)'
  BY DEF QueueInv
<1>1. OrdersAt(s, p)' = OrdersAt(s, p)
  BY DEF OrdersAt
<1>2. Queue(s, p)
  BY DEF QueueInv
<1>3. BeingMatched(s, p) => BeingMatched(s, p)' \/ OrdersAt(s, p) # {}
  OBVIOUS
<1> QED
  BY <1>1, <1>2, <1>3 DEF Queue

LEMMA AddLimitOrderKeeps ==
  ASSUME BookInv, NEW id \in Id, NEW side \in Side, NEW shares \in Quantity,
         NEW price \in Price, AddLimitOrder(id, side, shares, price)
  PROVE  BookInv'
<1>1. /\ pc = "idle" /\ orderMap'[id] = Nil
      /\ UNCHANGED <<poolVars, levels, orderMap, ahead>>
      /\ UNCHANGED <<pool, levels, ahead>>
      /\ Enter("add", id, side, shares, price)
  BY DEF AddLimitOrder, poolVars
<1>2. shares \in Nat /\ price \in Nat
  BY BookAssumption
<1>3. CallInv' /\ pc' = "level"
  BY <1>1, <1>2, EnteredCall
<1>4. StoreInv /\ QueueInv
  BY <1>1, BookInvParts
<1>5. QueueInv'
  BY <1>1, <1>4, QueuesKept DEF BeingMatched
<1> QED
  BY <1>1, <1>3, <1>4, <1>5, StoreKept, Assemble

LEMMA MarketOrderKeeps ==
  ASSUME BookInv, NEW side \in Side, NEW shares \in Quantity, MarketOrder(side, shares)
  PROVE  BookInv'
<1>1. /\ pc = "idle"
      /\ UNCHANGED <<poolVars, levels, orderMap, ahead>>
      /\ UNCHANGED <<pool, levels, ahead>>
      /\ Enter("market", Nil, side, shares, 0)
  BY DEF MarketOrder, poolVars
<1>2. shares \in Nat /\ 0 \in Nat /\ Nil \in Id \cup {Nil}
  BY BookAssumption
<1>3. CallInv' /\ pc' = "level"
  BY <1>1, <1>2, EnteredCall
<1>4. StoreInv /\ QueueInv
  BY <1>1, BookInvParts
<1>5. QueueInv'
  BY <1>1, <1>4, QueuesKept DEF BeingMatched
<1> QED
  BY <1>1, <1>3, <1>4, <1>5, StoreKept, Assemble

-----------------------------------------------------------------------------
\* An order keeps some of its shares: nothing else of its queue changes.
LEMMA SharesReduced ==
  ASSUME BookInv, StoreInv, QueueInv,
         NEW i \in Slot, pool[i] \in Order, NEW s \in Side, NEW p \in PriceIdx,
         pool[i].side = s, pool[i].price = p,
         NEW n \in Nat, n > 0, NEW e \in Int,
         pool' = [pool EXCEPT ![i].shares = n],
         levels' = [levels EXCEPT ![s][p] = fillVolume(@, e)],
         UNCHANGED <<head_free_index, orderMap, ahead, pc, call, limitIt>>
  PROVE  /\ StoreInv' /\ QueueInv'
         /\ \A t \in Side : Active(levels'[t]) = Active(levels[t])
         /\ levels'[s][p].headOrder = levels[s][p].headOrder
<1> DEFINE F == fillVolume(levels[s][p], e)
<1>1. StoreTypeOK /\ FreeListInv /\ Reachable /\ NotCrossed
  BY DEF StoreInv
<1>2. levels[s][p] # NoLimit
  BY NeighboursLive
<1>3. levels[s][p] \in Level
  BY <1>1, <1>2 DEF StoreTypeOK
<1>4. /\ F \in Level
      /\ F.size = levels[s][p].size
      /\ F.headOrder = levels[s][p].headOrder
      /\ F.tailOrder = levels[s][p].tailOrder
  BY <1>3 DEF fillVolume, Level
<1> HIDE DEF F
<1>5. /\ levels' \in [Side -> [PriceIdx -> Level \cup {NoLimit}]]
      /\ \A t \in Side, q \in PriceIdx :
           levels'[t][q] = IF t = s /\ q = p THEN F ELSE levels[t][q]
  <2>1. levels' = [levels EXCEPT ![s][p] = F]
    BY DEF F
  <2> QED
    BY <2>1, <1>1, <1>4 DEF StoreTypeOK
<1>6. /\ pool' \in Block
      /\ pool'[i] \in Order
      /\ pool'[i].shares = n
      /\ pool'[i].id = pool[i].id
      /\ pool'[i].side = pool[i].side
      /\ pool'[i].price = pool[i].price
      /\ pool'[i].nextOrder = pool[i].nextOrder
      /\ pool'[i].prevOrder = pool[i].prevOrder
      /\ \A j \in Slot \ {i} : pool'[j] = pool[j]
  BY <1>1 DEF StoreTypeOK, Block, Order
<1>7. StoreTypeOK'
  BY <1>1, <1>5, <1>6 DEF StoreTypeOK
<1>8. Reachable'
  <2>1. \A id \in Id : orderMap[id] \in Slot \cup {Nil}
    BY <1>1 DEF StoreTypeOK, Nowhere
  <2> QED
    BY <2>1, <1>1, <1>6 DEF Reachable
<1>9. FreeListInv'
  <2>1. \A j \in Slot : /\ pool[j] \in OP!FreeNode => pool'[j] = pool[j]
                        /\ pool[j] \in Order => pool'[j] \in Order
    BY <1>6, OrderIsNoFreeNode
  <2> QED
    BY <2>1, <1>1, FreeListOwner DEF BookInv
<1>10. \A t \in Side : Active(levels'[t]) = Active(levels[t])
  BY <1>2, <1>4, <1>5, BookAssumption DEF Active
<1>11. NotCrossed'
  BY <1>1, <1>10, FewerLevels
<1>12. QueueInv'
  <2> SUFFICES ASSUME NEW t \in Side, NEW q \in PriceIdx PROVE Queue(t, q)'
    BY DEF QueueInv
  <2> DEFINE Q == OrdersAt(t, q)
             L == levels[t][q]
             M == levels'[t][q]
  <2>1. Queue(t, q)
    BY DEF QueueInv
  <2>2. OrdersAt(t, q)' = Q
    BY <1>6 DEF OrdersAt
  <2>3. BeingMatched(t, q)' <=> BeingMatched(t, q)
    BY DEF BeingMatched, RestingSide
  <2>4. M = IF t = s /\ q = p THEN F ELSE L
    BY <1>5
  <2>5. M = NoLimit <=> L = NoLimit
    BY <2>4, <1>2, <1>4, BookAssumption
  <2>6. M # NoLimit => /\ L.size = M.size
                       /\ L.headOrder = M.headOrder
                       /\ L.tailOrder = M.tailOrder
    BY <2>4, <1>4
  <2> HIDE DEF L, M
  <2>7. \A j \in Q : /\ pool'[j].nextOrder = pool[j].nextOrder
                     /\ pool'[j].prevOrder = pool[j].prevOrder
                     /\ ahead'[j] = ahead[j]
    BY <1>6 DEF OrdersAt
  <2>8. InLine(ahead', Q) /\ Linked(pool', ahead', Q)
    <3>1. InLine(ahead, Q) /\ Linked(pool, ahead, Q)
      BY <2>1 DEF Queue
    <3> HIDE DEF Q
    <3> QED
      BY <3>1, <2>7, QueueKept, ZenonT(60)
  <2>9. L # NoLimit => Ends(pool', ahead', M, Q)
    BY <2>1, <2>5, <2>6, <2>7, EndsKept, ZenonT(60) DEF Queue, L
  <2> QED
    BY <2>1, <2>2, <2>3, <2>5, <2>8, <2>9 DEF Queue, L, M
<1> QED
  BY <1>4, <1>5, <1>7, <1>8, <1>9, <1>10, <1>11, <1>12, ZenonT(60) DEF StoreInv

LEMMA ModifyInPlaceKeeps ==
  ASSUME BookInv, NEW id \in Id, NEW shares \in Quantity, NEW price \in Price,
         ModifyInPlace(id, shares, price)
  PROVE  BookInv'
<1> DEFINE i == orderMap[id]
           o == pool[i]
<1>1. /\ pc = "idle" /\ i # Nil /\ shares # 0
      /\ shares < o.shares
      /\ pool' = [pool EXCEPT ![i].shares = shares]
      /\ levels' = [levels EXCEPT ![o.side][o.price] = fillVolume(@, o.shares - shares)]
      /\ UNCHANGED <<head_free_index, orderMap, pc, loopVars, ahead>>
  BY DEF ModifyInPlace, KeepsPlace
<1>2. StoreInv /\ QueueInv /\ CallInv
  BY <1>1, BookInvParts
<1>3. i \in Slot /\ o \in Order /\ o.price \in PriceIdx /\ o.side \in Side
  BY <1>1, <1>2 DEF StoreInv, StoreTypeOK, Reachable, Nowhere, Order
<1>4. shares \in Nat /\ shares > 0 /\ o.shares - shares \in Int
  BY <1>1, <1>3, BookAssumption DEF Order
<1> HIDE DEF o
<1>5. UNCHANGED <<head_free_index, orderMap, ahead, pc, call, limitIt>>
  BY <1>1, SMTT(30) DEF loopVars
<1>6. StoreInv' /\ QueueInv'
  <2>1. o = pool[i]
    BY DEF o
  <2> HIDE DEF i
  <2> QED
    BY <2>1, <1>1, <1>2, <1>3, <1>4, <1>5, SharesReduced
<1>7. CallInv' /\ pc' # "threw"
  BY <1>1, <1>2, <1>6, IdleCall DEF StoreInv
<1> QED
  BY <1>6, <1>7, Assemble

-----------------------------------------------------------------------------
\* In the loop over a level's orders: the level is there, and currIdx is its
\* oldest order, nothing in front of it.
LEMMA AtLevel ==
  ASSUME BookInv, pc = "order"
  PROVE  /\ RestingSide \in Side
         /\ limitIt \in PriceIdx
         /\ levels[RestingSide][limitIt] \in Level
         /\ levels[RestingSide][limitIt] # NoLimit
         /\ currIdx # Nil =>
              /\ currIdx \in Slot
              /\ pool[currIdx] \in Order
              /\ pool[currIdx].side = RestingSide
              /\ pool[currIdx].price = limitIt
              /\ ahead[currIdx] = {}
              /\ pool[currIdx].prevOrder = Nil
         /\ currIdx = Nil <=> OrdersAt(RestingSide, limitIt) = {}
<1>1. TypeOK /\ QueueInv /\ CursorInv
  BY DEF BookInv
<1>2. RestingSide \in Side
  BY DEF RestingSide, Opposite, Side
<1>3. limitIt \in Active(levels[RestingSide]) /\ currIdx = levels[RestingSide][limitIt].headOrder
  BY <1>1 DEF CursorInv, IsFirst
<1>4. limitIt \in PriceIdx /\ levels[RestingSide][limitIt] # NoLimit
  BY <1>3 DEF Active
<1>5. levels[RestingSide][limitIt] \in Level
  BY <1>1, <1>2, <1>4 DEF TypeOK
<1>6. /\ Ends(pool, ahead, levels[RestingSide][limitIt], OrdersAt(RestingSide, limitIt))
  BY <1>1, <1>2, <1>4 DEF QueueInv, Queue
<1>7. currIdx = Nil <=> OrdersAt(RestingSide, limitIt) = {}
  BY <1>3, <1>6 DEF Ends
<1>8. ASSUME currIdx # Nil
      PROVE  /\ currIdx \in OrdersAt(RestingSide, limitIt)
             /\ ahead[currIdx] = {}
             /\ pool[currIdx].prevOrder = Nil
  BY <1>3, <1>6, <1>7, <1>8 DEF Ends
<1> QED
  BY <1>2, <1>4, <1>5, <1>7, <1>8 DEF OrdersAt

LEMMA FillPartlyKeeps == ASSUME BookInv, FillPartly PROVE BookInv'
<1> DEFINE n == pool[currIdx].shares - remainingShares
<1>1. /\ pc = "order" /\ currIdx # Nil /\ remainingShares > 0
      /\ pool[currIdx].shares > remainingShares
      /\ pool' = [pool EXCEPT ![currIdx].shares = @ - remainingShares]
      /\ levels' = [levels EXCEPT ![RestingSide][limitIt] = fillVolume(@, remainingShares)]
      /\ remainingShares' = 0
      /\ UNCHANGED <<head_free_index, orderMap, pc, call, limitIt, currIdx, ahead>>
  BY DEF FillPartly
<1>2. StoreInv /\ QueueInv /\ CallInv
  BY <1>1, BookInvParts
<1>3. /\ RestingSide \in Side
      /\ limitIt \in PriceIdx
      /\ currIdx \in Slot
      /\ pool[currIdx] \in Order
      /\ pool[currIdx].side = RestingSide
      /\ pool[currIdx].price = limitIt
  BY <1>1, AtLevel
<1>4. n \in Nat /\ n > 0 /\ remainingShares \in Int
  BY <1>1, <1>2, <1>3 DEF CallInv, CallTypeOK, Order
<1>5. pool' = [pool EXCEPT ![currIdx].shares = n]
  BY <1>1
<1> HIDE DEF n
<1>6. /\ StoreInv' /\ QueueInv'
      /\ \A t \in Side : Active(levels'[t]) = Active(levels[t])
      /\ levels'[RestingSide][limitIt].headOrder = levels[RestingSide][limitIt].headOrder
  <2>1. UNCHANGED <<head_free_index, orderMap, ahead, pc, call, limitIt>>
    BY <1>1
  <2> DEFINE s == RestingSide
  <2>2. /\ levels' = [levels EXCEPT ![s][limitIt] = fillVolume(@, remainingShares)]
        /\ s \in Side /\ pool[currIdx].side = s
    BY <1>1, <1>3
  <2> HIDE DEF s
  <2>3. /\ StoreInv' /\ QueueInv'
        /\ \A t \in Side : Active(levels'[t]) = Active(levels[t])
        /\ levels'[s][limitIt].headOrder = levels[s][limitIt].headOrder
    BY <2>1, <2>2, <1>2, <1>3, <1>4, <1>5, SharesReduced
  <2> QED
    BY <2>3 DEF s
<1>7. CursorInv'
  <2>1. RestingSide' = RestingSide /\ Crosses(limitIt)' = Crosses(limitIt)
    BY <1>1 DEF RestingSide, Crosses
  <2>2. CursorInv
    BY <1>2 DEF CallInv
  <2> QED
    BY <2>1, <2>2, <1>1, <1>3, <1>6 DEF CursorInv
<1>8. CallTypeOK' /\ IdFree'
  BY <1>1, <1>2 DEF CallInv, CallTypeOK, IdFree
<1> QED
  BY <1>1, <1>6, <1>7, <1>8, Assemble DEF CallInv

LEMMA FillWhollyKeeps == ASSUME BookInv, FillWholly PROVE BookInv'
<1> DEFINE i == currIdx
           o == pool[i]
           r == RestingSide
           M == LevelWithout(i, r, limitIt)
<1>1. /\ pc = "order" /\ i # Nil /\ remainingShares > 0
      /\ o.shares <= remainingShares
      /\ remainingShares' = remainingShares - o.shares
      /\ orderMap' = [orderMap EXCEPT ![o.id] = Nil]
      /\ levels' = [levels EXCEPT ![r][limitIt] = removeOrderLimit(@, pool, i, o.shares)]
      /\ OP!deallocate(removeOrderPool(pool, i), i)
      /\ currIdx' = o.nextOrder
      /\ DropFromQueues(i)
      /\ UNCHANGED <<pc, call, limitIt>>
  BY DEF FillWholly
<1>2. /\ StoreInv /\ QueueInv /\ CallInv
      /\ TypeOK /\ FreeListInv /\ StoreTypeOK /\ Reachable /\ NotCrossed
  BY <1>1, BookInvParts DEF BookInv, StoreInv
<1>3. /\ r \in Side
      /\ limitIt \in PriceIdx
      /\ levels[r][limitIt] # NoLimit
      /\ i \in Slot
      /\ o \in Order
      /\ o.side = r
      /\ o.price = limitIt
      /\ o.prevOrder = Nil
      /\ o.price \in PriceIdx
  BY <1>1, AtLevel
<1>4. /\ pool' \in Block /\ head_free_index' \in Nowhere
      /\ ahead' \in [Slot -> SUBSET Slot]
      /\ FreeListInv'
      /\ pool'[i] \in OP!FreeNode
      /\ \A j \in Slot \ {i} : pool'[j] \in Order <=> pool[j] \in Order
      /\ \A j \in Slot \ {i} : pool[j] \in Order => SameTerms(pool'[j], pool[j])
  BY <1>1, <1>2, <1>3, SlotFreed
<1>5. M = removeOrderLimit(levels[r][limitIt], pool, i, o.shares)
  BY <1>3 DEF LevelWithout
<1> HIDE DEF o, r, M
<1>6. \A s \in Side, p \in PriceIdx :
        /\ InLine(ahead', OrdersAt(s, p)')
        /\ Linked(pool', ahead', OrdersAt(s, p)')
        /\ OrdersAt(s, p)' = OrdersAt(s, p) \ {i}
        /\ levels[s][p] # NoLimit =>
             /\ LevelWithout(i, s, p) \in Level
             /\ Ends(pool', ahead', LevelWithout(i, s, p), OrdersAt(s, p)')
  <2> HIDE DEF i
  <2> QED
    BY <1>1, <1>2, <1>3, QueuesWithout DEF o
<1>7. M \in Level
  BY <1>3, <1>6 DEF M
<1>8. levels' = [levels EXCEPT ![r][limitIt] = M]
  BY <1>1, <1>5
<1>9. \A s \in Side, p \in PriceIdx :
        levels'[s][p] = IF s = r /\ p = limitIt THEN M ELSE levels[s][p]
  BY <1>2, <1>3, <1>8 DEF StoreTypeOK
<1>10. levels' \in [Side -> [PriceIdx -> Level \cup {NoLimit}]]
  BY <1>2, <1>3, <1>7, <1>8 DEF StoreTypeOK
<1>11. StoreTypeOK'
  BY <1>1, <1>2, <1>4, <1>10 DEF StoreTypeOK, Nowhere
<1>12. Reachable'
  <2> HIDE DEF i
  <2> QED
    BY <1>1, <1>2, <1>3, <1>4, ReachableWithout DEF o
<1>13. \A s \in Side : Active(levels'[s]) = Active(levels[s])
  BY <1>3, <1>7, <1>9, BookAssumption DEF Active
<1>14. NotCrossed'
  BY <1>2, <1>13, FewerLevels
<1>15. QueueInv'
  <2> SUFFICES ASSUME NEW s \in Side, NEW p \in PriceIdx PROVE Queue(s, p)'
    BY DEF QueueInv
  <2>1. Queue(s, p)
    BY <1>2 DEF QueueInv
  <2>2. InLine(ahead', OrdersAt(s, p)') /\ Linked(pool', ahead', OrdersAt(s, p)')
    BY <1>6
  <2>3. CASE s = r /\ p = limitIt
    <3>1. levels'[s][p] = M /\ M # NoLimit
      BY <2>3, <1>7, <1>9, BookAssumption
    <3>2. Ends(pool', ahead', M, OrdersAt(s, p)')
      BY <2>3, <1>3, <1>6 DEF M
    <3>3. BeingMatched(s, p)'
      BY <2>3, <1>1 DEF BeingMatched, RestingSide, r
    <3> QED
      BY <3>1, <3>2, <3>3, <2>2 DEF Queue
  <2>4. CASE ~(s = r /\ p = limitIt)
    <3>1. levels'[s][p] = levels[s][p] /\ LevelWithout(i, s, p) = levels[s][p]
      BY <2>4, <1>3, <1>9 DEF LevelWithout, o
    <3>2. OrdersAt(s, p)' = OrdersAt(s, p)
      <4>1. i \notin OrdersAt(s, p)
        BY <2>4, <1>3 DEF OrdersAt, o
      <4> QED
        BY <4>1, <1>6
    <3>3. ~BeingMatched(s, p)
      BY <2>4 DEF BeingMatched, r
    <3> QED
      BY <3>1, <3>2, <3>3, <2>1, <2>2, <1>6 DEF Queue
  <2> QED
    BY <2>3, <2>4
<1>16. CursorInv'
  <2>1. RestingSide' = r /\ (Crosses(limitIt)' <=> Crosses(limitIt))
    BY <1>1 DEF RestingSide, Crosses, r
  <2>2. CursorInv
    BY <1>2 DEF CallInv
  <2>3. levels'[r][limitIt].headOrder = o.nextOrder
    BY <1>3, <1>5, <1>9 DEF removeOrderLimit, o
  <2> QED
    BY <2>1, <2>2, <2>3, <1>1, <1>3, <1>13 DEF CursorInv, r
<1>17. CallTypeOK'
  BY <1>1, <1>2, <1>3 DEF CallInv, CallTypeOK, Order, Nowhere
<1>18. IdFree'
  BY <1>1, <1>2, <1>3 DEF CallInv, IdFree, StoreTypeOK, Order
<1> QED
  BY <1>1, <1>4, <1>11, <1>12, <1>14, <1>15, <1>16, <1>17, <1>18, Assemble DEF CallInv, StoreInv

LEMMA EnterLevelKeeps == ASSUME BookInv, EnterLevel PROVE BookInv'
<1>1. /\ pc = "level" /\ pc' = "order"
      /\ limitIt # End /\ Crosses(limitIt) /\ remainingShares # 0
      /\ currIdx' = levels[RestingSide][limitIt].headOrder
      /\ UNCHANGED <<poolVars, levels, orderMap, call, remainingShares, limitIt, ahead>>
      /\ UNCHANGED <<poolVars, levels, orderMap, ahead>>
      /\ UNCHANGED <<pool, levels, ahead>>
  BY DEF EnterLevel, LoopOver, poolVars
<1>2. StoreInv /\ QueueInv /\ CallInv
  BY <1>1, BookInvParts
<1>3. remainingShares > 0
  BY <1>1, <1>2 DEF CallInv, CallTypeOK
<1>4. IsFirst(RestingSide, Active(levels[RestingSide]), limitIt)
  BY <1>1, <1>2, <1>3 DEF CallInv, CursorInv
<1>5. RestingSide \in Side /\ limitIt \in PriceIdx /\ levels[RestingSide][limitIt] # NoLimit
  BY <1>1, <1>4 DEF IsFirst, Active, RestingSide, Opposite, Side
<1>6. currIdx' \in Nowhere
  BY <1>1, <1>2, <1>5, NilIsNoSlot DEF StoreInv, StoreTypeOK, Level
<1>7. QueueInv'
  BY <1>1, <1>2, QueuesKept DEF BeingMatched
<1>8. CursorInv'
  <2>1. RestingSide' = RestingSide /\ (Crosses(limitIt)' <=> Crosses(limitIt))
    BY <1>1 DEF RestingSide, Crosses
  <2> QED
    BY <2>1, <1>1, <1>4 DEF CursorInv
<1>9. CallTypeOK' /\ IdFree'
  BY <1>1, <1>2, <1>6 DEF CallInv, CallTypeOK, IdFree
<1> QED
  BY <1>1, <1>2, <1>7, <1>8, <1>9, StoreKept, Assemble DEF CallInv

LEMMA LeaveLevelKeeps == ASSUME BookInv, LeaveLevel PROVE BookInv'
<1> DEFINE r == RestingSide
           L == levels[r][limitIt]
           E == EraseIfEmpty(L)
<1>1. /\ pc = "order" /\ pc' = "level"
      /\ currIdx = Nil \/ remainingShares = 0
      /\ levels' = [levels EXCEPT ![r][limitIt] = E]
      /\ limitIt' \in First(r, After(r, levels[r], limitIt))
      /\ currIdx' = Nil
      /\ UNCHANGED <<poolVars, orderMap, call, remainingShares, ahead>>
      /\ UNCHANGED <<pool, head_free_index, orderMap, call, remainingShares, ahead>>
  BY DEF LeaveLevel, poolVars
<1>2. /\ StoreInv /\ QueueInv /\ CallInv
      /\ TypeOK /\ FreeListInv /\ StoreTypeOK /\ Reachable /\ NotCrossed
  BY <1>1, BookInvParts DEF BookInv, StoreInv
<1>3. /\ r \in Side
      /\ limitIt \in PriceIdx
      /\ L \in Level
      /\ L # NoLimit
      /\ currIdx = Nil <=> OrdersAt(r, limitIt) = {}
  BY <1>1, AtLevel
<1>4. L.size = 0 <=> OrdersAt(r, limitIt) = {}
  <2>1. Ends(pool, ahead, L, OrdersAt(r, limitIt))
    BY <1>2, <1>3 DEF QueueInv, Queue
  <2>2. OrdersAt(r, limitIt) \in SUBSET Slot
    BY DEF OrdersAt
  <2> HIDE DEF L
  <2> QED
    BY <2>1, <2>2, EmptyLevel
<1>5. E = IF OrdersAt(r, limitIt) = {} THEN NoLimit ELSE L
  BY <1>4 DEF EraseIfEmpty
<1> HIDE DEF r, E
<1>6. \A s \in Side, p \in PriceIdx :
        levels'[s][p] = IF s = r /\ p = limitIt THEN E ELSE levels[s][p]
  BY <1>1, <1>2, <1>3 DEF StoreTypeOK
<1>7. levels' \in [Side -> [PriceIdx -> Level \cup {NoLimit}]]
  BY <1>1, <1>2, <1>3, <1>5 DEF StoreTypeOK
<1>8. StoreTypeOK'
  BY <1>1, <1>2, <1>7 DEF StoreTypeOK
<1>9. Reachable'
  BY <1>1, <1>2 DEF Reachable
<1>10. FreeListInv'
  BY <1>1, <1>2, FreeListOwner
<1>11. NotCrossed'
  <2>1. \A s \in Side : Active(levels'[s]) \subseteq Active(levels[s])
    BY <1>3, <1>6 DEF Active
  <2> QED
    BY <2>1, <1>2, FewerLevels
<1>12. QueueInv'
  <2> SUFFICES ASSUME NEW s \in Side, NEW p \in PriceIdx PROVE Queue(s, p)'
    BY DEF QueueInv
  <2>1. Queue(s, p)
    BY <1>2 DEF QueueInv
  <2>2. OrdersAt(s, p)' = OrdersAt(s, p)
    BY <1>1 DEF OrdersAt
  <2>3. levels'[s][p] = IF s = r /\ p = limitIt THEN E ELSE levels[s][p]
    BY <1>6
  <2>4. ahead' = ahead /\ pool' = pool
    BY <1>1
  <2>5. (s = r /\ p = limitIt) \/ ~BeingMatched(s, p)
    BY DEF BeingMatched, r
  <2> QED
    BY <2>1, <2>2, <2>3, <2>4, <2>5, <1>3, <1>5 DEF Queue
<1>13. limitIt' \in PriceIdx \cup {End} /\ IsFirst(r, After(r, levels[r], limitIt), limitIt')
  BY <1>1, FirstTyped
<1>14. CallTypeOK'
  BY <1>1, <1>2, <1>13, NilIsNoSlot DEF CallInv, CallTypeOK
<1>15. IdFree'
  BY <1>1, <1>2 DEF CallInv, IdFree
<1>16. CursorInv'
  <2> SUFFICES ASSUME remainingShares > 0
               PROVE  IsFirst(r, Active(levels'[r]), limitIt')
    BY <1>1 DEF CursorInv, RestingSide, r
  <2>1. OrdersAt(r, limitIt) = {} /\ E = NoLimit
    BY <1>1, <1>3, <1>5
  <2>2. Active(levels'[r]) = Active(levels[r]) \ {limitIt}
    BY <2>1, <1>3, <1>6 DEF Active
  <2>3. \A q \in Active(levels[r]) \ {limitIt} : Before(r, limitIt, q)
    BY <1>1, <1>2, <1>3 DEF CallInv, CursorInv, IsFirst, r, End, PriceIdx
  <2>4. ~Before(r, limitIt, limitIt)
    BY <1>3, BookAssumption DEF Before, PriceIdx
  <2>5. After(r, levels[r], limitIt) = Active(levels[r]) \ {limitIt}
    BY <2>3, <2>4 DEF After
  <2> QED
    BY <2>2, <2>5, <1>13
<1> QED
  BY <1>1, <1>8, <1>9, <1>10, <1>11, <1>12, <1>14, <1>15, <1>16, Assemble DEF CallInv, StoreInv

LEMMA FinishKeeps == ASSUME BookInv, Finish PROVE BookInv'
<1>1. /\ pc = "level" /\ Return
      /\ UNCHANGED <<poolVars, levels, orderMap, ahead>>
      /\ UNCHANGED <<pool, levels, ahead>>
  BY DEF Finish, poolVars
<1>2. StoreInv /\ QueueInv
  BY <1>1, BookInvParts
<1>3. QueueInv'
  BY <1>1, <1>2, QueuesKept DEF BeingMatched
<1>4. StoreInv'
  BY <1>1, <1>2, StoreKept
<1>5. CallInv' /\ pc' # "threw"
  BY <1>1, <1>4, ReturnedCall DEF StoreInv
<1> QED
  BY <1>3, <1>4, <1>5, Assemble

-----------------------------------------------------------------------------
\* What is on its way to rest: shares are left, and no level of the other side
\* would trade with them.
LEMMA AboutToRest ==
  ASSUME BookInv, ToRest
  PROVE  /\ StoreInv /\ QueueInv /\ CallInv /\ TypeOK
         /\ call.id \in Id /\ orderMap[call.id] = Nil
         /\ call.side \in Side
         /\ call.price \in Nat
         /\ NewOrder \in Order
         /\ remainingShares > 0 /\ remainingShares \in Nat
         /\ \A q \in Active(levels[RestingSide]) : ~Crosses(q)
<1>1. pc = "level" /\ LoopOver /\ remainingShares > 0 /\ call.op # "market"
  BY DEF ToRest
<1>2. StoreInv /\ QueueInv /\ CallInv /\ TypeOK
  BY <1>1, BookInvParts DEF BookInv
<1>3. call.id \in Id /\ orderMap[call.id] = Nil
  BY <1>1, <1>2 DEF CallInv, IdFree
<1>4. call.side \in Side /\ call.price \in Nat /\ remainingShares \in Nat
  BY <1>2 DEF CallInv, CallTypeOK
<1>5. NewOrder \in Order
  BY <1>3, <1>4 DEF NewOrder, Order
<1>6. ASSUME NEW q \in Active(levels[RestingSide]) PROVE ~Crosses(q)
  <2>1. IsFirst(RestingSide, Active(levels[RestingSide]), limitIt)
    BY <1>1, <1>2 DEF CallInv, CursorInv
  <2>2. limitIt \in Active(levels[RestingSide])
    BY <2>1, <1>6 DEF IsFirst
  <2>3. limitIt \in Nat /\ q \in Nat
    BY <2>2, <1>6 DEF Active, PriceIdx
  <2>4. ~Crosses(limitIt)
    BY <2>3, <1>1 DEF LoopOver, End
  <2>5. q = limitIt \/ Before(RestingSide, limitIt, q)
    BY <2>1, <1>6, <2>3 DEF IsFirst, End
  <2> QED
    BY <2>3, <2>4, <2>5, <1>1, <1>4 DEF Crosses, Before, RestingSide, Opposite, Side
<1> QED
  BY <1>1, <1>2, <1>3, <1>4, <1>5, <1>6

\* The new order takes the slot on top of the free stack and joins the back of
\* its level; of the other orders only the old tail's link changes.
LEMMA RestTakes ==
  ASSUME BookInv, Rest
  PROVE  LET i  == head_free_index
             s0 == call.side
             p0 == call.price
             L  == LevelToJoin(levels[s0], p0)
             N  == addOrderLimit(L, i, remainingShares)
             Q0 == OrdersAt(s0, p0)
         IN
         /\ i \in Slot /\ pool[i] \in OP!FreeNode /\ pool[i].next_free_index \in Nowhere
         /\ Q0 \in SUBSET Slot /\ i \notin Q0
         /\ L \in Level /\ Ends(pool, ahead, L, Q0)
         /\ InLine(ahead, Q0) /\ Linked(pool, ahead, Q0)
         /\ L.tailOrder # Nil => L.tailOrder \in Q0
         /\ pool' \in Block
         /\ pool'[i] \in Order
         /\ pool'[i].id = call.id
         /\ pool'[i].side = s0
         /\ pool'[i].price = p0
         /\ pool'[i].shares = remainingShares
         /\ pool'[i].nextOrder = Nil
         /\ pool'[i].prevOrder = L.tailOrder
         /\ \A j \in Slot \ {i} : pool'[j] \in Order <=> pool[j] \in Order
         /\ \A j \in Slot \ {i} : pool[j] \in OP!FreeNode => pool'[j] = pool[j]
         /\ \A j \in Slot \ {i} : pool[j] \in Order =>
              /\ SameTerms(pool'[j], pool[j])
              /\ pool'[j].nextOrder = IF j = L.tailOrder THEN i ELSE pool[j].nextOrder
              /\ pool'[j].prevOrder = pool[j].prevOrder
         /\ ahead' \in [Slot -> SUBSET Slot]
         /\ ahead'[i] = Q0
         /\ \A j \in Slot \ {i} : ahead'[j] = ahead[j]
         /\ N \in Level
         /\ levels' \in [Side -> [PriceIdx -> Level \cup {NoLimit}]]
         /\ \A s \in Side, p \in PriceIdx :
              levels'[s][p] = IF s = s0 /\ p = p0 THEN N ELSE levels[s][p]
         /\ orderMap' \in [Id -> Nowhere]
         /\ orderMap'[call.id] = i
         /\ \A id \in Id \ {call.id} : orderMap'[id] = orderMap[id]
<1> DEFINE i == head_free_index
           s0 == call.side
           p0 == call.price
           L == LevelToJoin(levels[s0], p0)
           P == [pool EXCEPT ![i] = NewOrder]
           N == addOrderLimit(L, i, remainingShares)
           Q0 == OrdersAt(s0, p0)
<1>1. /\ ToRest
      /\ p0 \in PriceIdx
      /\ ~OP!Exhausted
      /\ head_free_index' = pool[i].next_free_index
      /\ pool' = addOrderPool(L, P, i)
      /\ levels' = [levels EXCEPT ![s0][p0] = N]
      /\ orderMap' = [orderMap EXCEPT ![call.id] = i]
      /\ ahead' = [ahead EXCEPT ![i] = Q0]
      /\ Return
  BY DEF Rest, OP!allocate
<1>2. /\ StoreInv /\ QueueInv /\ CallInv /\ TypeOK
      /\ call.id \in Id /\ orderMap[call.id] = Nil
      /\ s0 \in Side
      /\ NewOrder \in Order
      /\ remainingShares > 0 /\ remainingShares \in Nat
      /\ \A q \in Active(levels[RestingSide]) : ~Crosses(q)
  BY <1>1, AboutToRest
<1>3. FreeListInv /\ StoreTypeOK /\ Reachable /\ NotCrossed
  BY <1>2 DEF StoreInv
<1>4. i \in Slot /\ pool[i] \in OP!FreeNode /\ pool[i].next_free_index \in Nowhere
  BY <1>1, <1>2, <1>3, FreeListTop
<1>5. /\ P \in Block
      /\ P[i] = NewOrder
      /\ \A j \in Slot \ {i} : P[j] = pool[j]
  BY <1>2, <1>3, <1>4 DEF StoreTypeOK, Block
<1> HIDE DEF P, L, N
<1>6. Q0 \in SUBSET Slot /\ i \notin Q0
  BY <1>4, OrderIsNoFreeNode DEF OrdersAt
<1>7. L \in Level /\ Ends(pool, ahead, L, Q0) /\ InLine(ahead, Q0) /\ Linked(pool, ahead, Q0)
  <2>1. Queue(s0, p0)
    BY <1>1, <1>2 DEF QueueInv
  <2>2. InLine(ahead, Q0) /\ Linked(pool, ahead, Q0)
    BY <2>1 DEF Queue
  <2>3. CASE levels[s0][p0] = NoLimit
    <3>1. L = EmptyLimit /\ Q0 = {}
      BY <2>1, <2>3 DEF L, LevelToJoin, Queue
    <3>2. EmptyLimit \in Level /\ EmptyLimit.size = 0 /\ EmptyLimit.headOrder = Nil
          /\ EmptyLimit.tailOrder = Nil
      BY DEF EmptyLimit, Level
    <3>3. Cardinality(Q0) = 0
      BY <3>1, FS_EmptySet
    <3> QED
      BY <2>2, <3>1, <3>2, <3>3 DEF Ends
  <2>4. CASE levels[s0][p0] # NoLimit
    <3>1. L = levels[s0][p0]
      BY <2>4 DEF L, LevelToJoin
    <3>2. L \in Level
      BY <3>1, <2>4, <1>1, <1>2, <1>3 DEF StoreTypeOK
    <3>3. Ends(pool, ahead, L, Q0)
      BY <2>1, <2>4, <3>1 DEF Queue
    <3> QED
      BY <2>2, <3>2, <3>3
  <2> QED
    BY <2>3, <2>4
<1>8. /\ L.headOrder = Nil <=> L.tailOrder = Nil
      /\ L.tailOrder # Nil => L.tailOrder \in Q0 /\ pool[L.tailOrder] \in Order
                              /\ L.tailOrder # i
  BY <1>6, <1>7 DEF Ends, OrdersAt
<1>9. \A j \in Slot :
        /\ pool' \in Block
        /\ P[j] \in OP!FreeNode => pool'[j] = P[j]
        /\ P[j] \in Order =>
             /\ pool'[j] \in Order
             /\ SameTerms(pool'[j], P[j])
             /\ pool'[j].nextOrder = IF j = i THEN Nil
                                     ELSE IF j = L.tailOrder THEN i ELSE P[j].nextOrder
             /\ pool'[j].prevOrder = IF j = i THEN L.tailOrder ELSE P[j].prevOrder
  <2>1. P[i] \in Order /\ i \in Slot /\ P \in Block
    BY <1>2, <1>4, <1>5
  <2>2. L.tailOrder # Nil => P[L.tailOrder] \in Order /\ L.tailOrder # i
    BY <1>5, <1>6, <1>8
  <2> HIDE DEF i
  <2> QED
    BY <2>1, <2>2, <1>1, <1>7, <1>8, Linking
<1>10. pool' \in Block
  BY <1>4, <1>9
<1>11. /\ pool'[i] \in Order
       /\ SameTerms(pool'[i], NewOrder)
       /\ pool'[i].nextOrder = Nil
       /\ pool'[i].prevOrder = L.tailOrder
  BY <1>2, <1>4, <1>5, <1>9
<1>12. \A j \in Slot \ {i} :
         /\ pool[j] \in OP!FreeNode => pool'[j] = pool[j]
         /\ pool[j] \in Order =>
              /\ pool'[j] \in Order
              /\ SameTerms(pool'[j], pool[j])
              /\ pool'[j].nextOrder = IF j = L.tailOrder THEN i ELSE pool[j].nextOrder
              /\ pool'[j].prevOrder = pool[j].prevOrder
  BY <1>5, <1>9
<1>13. \A j \in Slot \ {i} : pool'[j] \in Order <=> pool[j] \in Order
  BY <1>3, <1>12, OrderIsNoFreeNode DEF StoreTypeOK, Block
<1>15. /\ ahead' \in [Slot -> SUBSET Slot]
       /\ ahead'[i] = Q0
       /\ \A j \in Slot \ {i} : ahead'[j] = ahead[j]
  BY <1>1, <1>3, <1>4, <1>6 DEF StoreTypeOK
<1>16. N \in Level
  BY <1>2, <1>4, <1>7 DEF N, addOrderLimit, Level
<1>17. /\ levels' \in [Side -> [PriceIdx -> Level \cup {NoLimit}]]
       /\ \A s \in Side, p \in PriceIdx :
            levels'[s][p] = IF s = s0 /\ p = p0 THEN N ELSE levels[s][p]
  BY <1>1, <1>2, <1>3, <1>16 DEF StoreTypeOK
<1>18. /\ orderMap' \in [Id -> Nowhere]
       /\ orderMap'[call.id] = i
       /\ \A id \in Id \ {call.id} : orderMap'[id] = orderMap[id]
  BY <1>1, <1>2, <1>3, <1>4, NilIsNoSlot DEF StoreTypeOK
<1>20. /\ pool'[i].id = call.id
       /\ pool'[i].side = s0
       /\ pool'[i].price = p0
       /\ pool'[i].shares = remainingShares
  BY <1>11 DEF SameTerms, NewOrder
<1> QED
  BY <1>4, <1>6, <1>7, <1>8, <1>10, <1>11, <1>12, <1>13, <1>15, <1>16, <1>17, <1>18, <1>20 DEF N, L

LEMMA RestKeeps == ASSUME BookInv, Rest PROVE BookInv'
<1> DEFINE i == head_free_index
           s0 == call.side
           p0 == call.price
           L == LevelToJoin(levels[s0], p0)
           N == addOrderLimit(L, i, remainingShares)
           Q0 == OrdersAt(s0, p0)
<1>1. /\ ToRest
      /\ p0 \in PriceIdx
      /\ ~OP!Exhausted
      /\ head_free_index' = pool[i].next_free_index
      /\ Return
  BY DEF Rest, OP!allocate
<1>2. /\ StoreInv /\ QueueInv /\ CallInv /\ TypeOK
      /\ call.id \in Id /\ orderMap[call.id] = Nil
      /\ s0 \in Side
      /\ remainingShares > 0 /\ remainingShares \in Nat
      /\ \A q \in Active(levels[RestingSide]) : ~Crosses(q)
  BY <1>1, AboutToRest
<1>3. FreeListInv /\ StoreTypeOK /\ Reachable /\ NotCrossed
  BY <1>2 DEF StoreInv
<1>4. /\ i \in Slot /\ pool[i] \in OP!FreeNode /\ pool[i].next_free_index \in Nowhere
      /\ Q0 \in SUBSET Slot /\ i \notin Q0
      /\ L \in Level /\ Ends(pool, ahead, L, Q0)
      /\ InLine(ahead, Q0) /\ Linked(pool, ahead, Q0)
      /\ L.tailOrder # Nil => L.tailOrder \in Q0
      /\ pool' \in Block
      /\ pool'[i] \in Order
      /\ pool'[i].id = call.id
      /\ pool'[i].side = s0
      /\ pool'[i].price = p0
      /\ pool'[i].shares = remainingShares
      /\ pool'[i].nextOrder = Nil
      /\ pool'[i].prevOrder = L.tailOrder
      /\ \A j \in Slot \ {i} : pool'[j] \in Order <=> pool[j] \in Order
      /\ \A j \in Slot \ {i} : pool[j] \in OP!FreeNode => pool'[j] = pool[j]
      /\ \A j \in Slot \ {i} : pool[j] \in Order =>
           /\ SameTerms(pool'[j], pool[j])
           /\ pool'[j].nextOrder = IF j = L.tailOrder THEN i ELSE pool[j].nextOrder
           /\ pool'[j].prevOrder = pool[j].prevOrder
      /\ ahead' \in [Slot -> SUBSET Slot]
      /\ ahead'[i] = Q0
      /\ \A j \in Slot \ {i} : ahead'[j] = ahead[j]
      /\ N \in Level
      /\ levels' \in [Side -> [PriceIdx -> Level \cup {NoLimit}]]
      /\ \A s \in Side, p \in PriceIdx :
           levels'[s][p] = IF s = s0 /\ p = p0 THEN N ELSE levels[s][p]
      /\ orderMap' \in [Id -> Nowhere]
      /\ orderMap'[call.id] = i
      /\ \A id \in Id \ {call.id} : orderMap'[id] = orderMap[id]
  BY RestTakes
<1> HIDE DEF L, N
<1>5. FreeListInv'
  BY <1>1, <1>2, <1>3, <1>4, OrderIsNoFreeNode, FreeListPop
<1>6. StoreTypeOK'
  BY <1>1, <1>4 DEF StoreTypeOK
<1> HIDE DEF i, s0, p0, Q0
<1>7. ASSUME NEW id \in Id, orderMap'[id] # Nil
       PROVE  /\ pool'[orderMap'[id]] \in Order
              /\ pool'[orderMap'[id]].id = id
              /\ pool'[orderMap'[id]].price \in PriceIdx
  <2>1. CASE id = call.id
    BY <2>1, <1>1, <1>4
  <2>2. CASE id # call.id
    <3>1. orderMap'[id] = orderMap[id]
      BY <2>2, <1>4
    <3>2. /\ pool[orderMap[id]] \in Order
          /\ pool[orderMap[id]].id = id
          /\ pool[orderMap[id]].price \in PriceIdx
          /\ orderMap[id] \in Slot
      BY <3>1, <1>3, <1>7 DEF Reachable, StoreTypeOK, Nowhere
    <3>3. orderMap[id] # i
      BY <3>2, <1>4, OrderIsNoFreeNode
    <3> QED
      BY <3>1, <3>2, <3>3, <1>4 DEF SameTerms
  <2> QED
    BY <2>1, <2>2
<1>8. ASSUME NEW j \in Slot, pool'[j] \in Order
       PROVE  pool'[j].shares > 0 /\ orderMap'[pool'[j].id] = j
  <2>1. CASE j = i
    BY <2>1, <1>2, <1>4
  <2>2. CASE j # i
    <3>1. pool[j] \in Order /\ SameTerms(pool'[j], pool[j])
      BY <2>2, <1>4, <1>8
    <3>2. pool[j].shares > 0 /\ orderMap[pool[j].id] = j /\ pool[j].id \in Id
      BY <3>1, <1>3 DEF Reachable, Order
    <3>3. pool[j].id # call.id
      BY <3>2, <1>2, NilIsNoSlot
    <3> QED
      BY <3>1, <3>2, <3>3, <1>4 DEF SameTerms
  <2> QED
    BY <2>1, <2>2
<1>9. Reachable'
  BY <1>7, <1>8 DEF Reachable
<1>10. QueueInv'
  <2> SUFFICES ASSUME NEW s \in Side, NEW p \in PriceIdx PROVE Queue(s, p)'
    BY DEF QueueInv
  <2> DEFINE Q == OrdersAt(s, p)
  <2>1. Queue(s, p)
    BY <1>2 DEF QueueInv
  <2>2. i \notin Q
    BY <1>4, OrderIsNoFreeNode DEF OrdersAt
  <2>3. CASE s = s0 /\ p = p0
    <3>1. Q = Q0
      BY <2>3 DEF Q0, s0, p0
    <3>2. OrdersAt(s, p)' = Q0 \cup {i}
      <4>1. \A j \in Slot \ {i} : j \in OrdersAt(s, p)' <=> j \in OrdersAt(s, p)
        BY <1>4 DEF OrdersAt, SameTerms
      <4>2. i \in OrdersAt(s, p)'
        BY <2>3, <1>4 DEF OrdersAt
      <4>3. OrdersAt(s, p)' \subseteq Slot
        BY DEF OrdersAt
      <4> QED
        BY <4>1, <4>2, <4>3, <3>1, <1>4
    <3>3. /\ InLine(ahead', Q0 \cup {i})
          /\ Linked(pool', ahead', Q0 \cup {i})
          /\ Ends(pool', ahead', N, Q0 \cup {i})
      <4>1. \A j \in Q0 :
              /\ pool'[j].nextOrder = IF j = L.tailOrder THEN i ELSE pool[j].nextOrder
              /\ pool'[j].prevOrder = pool[j].prevOrder
              /\ ahead'[j] = ahead[j]
        <5>1. \A j \in Q0 : j \in Slot \ {i} /\ pool[j] \in Order
          BY <1>4 DEF Q0, OrdersAt
        <5> QED
          BY <5>1, <1>4
      <4>2. i \in Slot \ Q0 /\ Q0 \in SUBSET Slot
        BY <1>4
      <4>3. /\ InLine(ahead, Q0) /\ Linked(pool, ahead, Q0) /\ Ends(pool, ahead, L, Q0)
            /\ L \in Level
            /\ pool'[i].nextOrder = Nil
            /\ pool'[i].prevOrder = L.tailOrder
            /\ ahead'[i] = Q0
        BY <1>4
      <4>4. Joined(pool, ahead, pool', ahead', L, Q0, i)
        BY <4>1, <4>3 DEF Joined
      <4>5. /\ InLine(ahead', Q0 \cup {i})
            /\ Linked(pool', ahead', Q0 \cup {i})
            /\ Ends(pool', ahead', addOrderLimit(L, i, remainingShares), Q0 \cup {i})
        BY <4>2, <4>3, <4>4, QueueAdd
      <4> QED
        BY <4>5 DEF N
    <3>4. levels'[s][p] = N /\ N # NoLimit
      BY <2>3, <1>4, BookAssumption
    <3> QED
      BY <3>2, <3>3, <3>4 DEF Queue
  <2>4. CASE ~(s = s0 /\ p = p0)
    <3>1. OrdersAt(s, p)' = Q
      <4>1. \A j \in Slot \ {i} : j \in OrdersAt(s, p)' <=> j \in OrdersAt(s, p)
        BY <1>4 DEF OrdersAt, SameTerms
      <4>2. i \notin OrdersAt(s, p)'
        BY <2>4, <1>4 DEF OrdersAt
      <4>3. OrdersAt(s, p)' \subseteq Slot /\ OrdersAt(s, p) \subseteq Slot
        BY DEF OrdersAt
      <4> QED
        BY <4>1, <4>2, <4>3, <2>2
    <3>2. levels'[s][p] = levels[s][p]
      BY <2>4, <1>4
    <3>3. \A j \in Q : j \in Slot \ {i} /\ pool[j] \in Order /\ j # L.tailOrder
      <4>1. \A j \in Q : j \in Slot \ {i} /\ pool[j] \in Order /\ j # Nil
        BY <2>2, NilIsNoSlot DEF OrdersAt
      <4>2. \A j \in Q : j \notin Q0
        BY <2>4 DEF OrdersAt, Q0, s0, p0
      <4> QED
        BY <4>1, <4>2, <1>4
    <3>4. \A j \in Q : /\ pool'[j].nextOrder = pool[j].nextOrder
                       /\ pool'[j].prevOrder = pool[j].prevOrder
                       /\ ahead'[j] = ahead[j]
      BY <3>3, <1>4
    <3>5. ~BeingMatched(s, p)
      BY <1>1 DEF BeingMatched, ToRest
    <3>6. /\ InLine(ahead, Q) /\ Linked(pool, ahead, Q)
          /\ levels[s][p] = NoLimit => Q = {}
          /\ levels[s][p] # NoLimit => Ends(pool, ahead, levels[s][p], Q) /\ Q # {}
      BY <2>1, <3>5 DEF Queue
    <3> HIDE DEF Q
    <3>7. InLine(ahead', Q) /\ Linked(pool', ahead', Q)
      BY <3>4, <3>6, QueueKept
    <3>8. levels[s][p] # NoLimit => Ends(pool', ahead', levels[s][p], Q)
      BY <3>4, <3>6, EndsKept
    <3> QED
      BY <3>1, <3>2, <3>6, <3>7, <3>8 DEF Queue
  <2> QED
    BY <2>3, <2>4
<1>11. NotCrossed'
  <2>1. \A s \in Side : Active(levels'[s]) =
          IF s = s0 THEN Active(levels[s]) \cup {p0} ELSE Active(levels[s])
    BY <1>1, <1>4, BookAssumption DEF Active
  <2>2. call.op # "market"
    BY <1>1 DEF ToRest
  <2>3. \A s \in Side : \A p \in Active(levels[s]) : p \in Int
    BY DEF Active, PriceIdx
  <2>4. p0 \in Int
    BY <1>1 DEF PriceIdx
  <2>5. CASE s0 = "Buy"
    <3>1. \A q \in Active(levels["Sell"]) : p0 < q
      BY <1>2, <2>2, <2>3, <2>4, <2>5 DEF Crosses, RestingSide, Opposite, s0, p0, Side
    <3> QED
      BY <3>1, <2>1, <2>5, <1>3 DEF NotCrossed, Side
  <2>6. CASE s0 = "Sell"
    <3>1. \A q \in Active(levels["Buy"]) : q < p0
      BY <1>2, <2>2, <2>3, <2>4, <2>6 DEF Crosses, RestingSide, Opposite, s0, p0, Side
    <3> QED
      BY <3>1, <2>1, <2>6, <1>3 DEF NotCrossed, Side
  <2> QED
    BY <2>5, <2>6, <1>2 DEF Side
<1>12. CallInv' /\ pc' # "threw"
  BY <1>1, <1>6, ReturnedCall
<1> QED
  BY <1>5, <1>6, <1>9, <1>10, <1>11, <1>12, Assemble DEF StoreInv

-----------------------------------------------------------------------------
\* After an exception the queues stand as they did; one slot may be out of
\* reach, which the id map allows for.
LEMMA AssembleThrown ==
  ASSUME pc' = "threw", StoreTypeOK', CallTypeOK', FreeListInv', QueueInv', NotCrossed',
         IndexInv'
  PROVE  BookInv'
<1>1. (TypeOK <=> StoreTypeOK /\ CallTypeOK)'
  BY TypeOKParts, PTL
<1>2. CursorInv'
  BY DEF CursorInv
<1> QED
  BY <1>1, <1>2 DEF BookInv

LEMMA ThrowExhaustedKeeps == ASSUME BookInv, ThrowExhausted PROVE BookInv'
<1>1. /\ ToRest /\ pc = "level" /\ pc' = "threw"
      /\ UNCHANGED <<poolVars, levels, orderMap, ahead>>
      /\ UNCHANGED <<pool, levels, orderMap, ahead>>
      /\ UNCHANGED <<pool, levels, ahead>>
      /\ UNCHANGED <<call, remainingShares, limitIt, currIdx>>
  BY DEF ThrowExhausted, ToRest, poolVars, loopVars
<1>2. StoreInv /\ QueueInv /\ CallInv
  BY <1>1, AboutToRest
<1>3. StoreInv'
  BY <1>1, <1>2, StoreKept
<1>4. QueueInv'
  BY <1>1, <1>2, QueuesKept DEF BeingMatched
<1>5. CallTypeOK'
  BY <1>1, <1>2 DEF CallInv, CallTypeOK
<1>6. IndexInv'
  BY <1>1, <1>3 DEF IndexInv, StoreInv, Reachable
<1> QED
  BY <1>1, <1>3, <1>4, <1>5, <1>6, AssembleThrown DEF StoreInv

LEMMA ThrowOutOfRangeKeeps == ASSUME BookInv, ThrowOutOfRange PROVE BookInv'
<1> DEFINE i == head_free_index
<1>1. /\ ToRest /\ pc = "level" /\ pc' = "threw"
      /\ call.price >= MAX_PRICE
      /\ ~OP!Exhausted
      /\ head_free_index' = pool[i].next_free_index
      /\ pool' = [pool EXCEPT ![i] = NewOrder]
      /\ UNCHANGED <<levels, orderMap, ahead>>
      /\ UNCHANGED <<call, remainingShares, limitIt, currIdx>>
  BY DEF ThrowOutOfRange, OP!construct, OP!allocate, ToRest, loopVars
<1>2. /\ StoreInv /\ QueueInv /\ CallInv /\ TypeOK
      /\ call.price \in Nat
      /\ NewOrder \in Order
      /\ remainingShares > 0
  BY <1>1, AboutToRest
<1>3. FreeListInv /\ StoreTypeOK /\ Reachable /\ NotCrossed
  BY <1>2 DEF StoreInv
<1>4. i \in Slot /\ pool[i] \in OP!FreeNode /\ pool[i].next_free_index \in Nowhere
  BY <1>1, <1>2, <1>3, FreeListTop
<1>5. /\ pool' \in Block
      /\ pool'[i] = NewOrder
      /\ \A j \in Slot \ {i} : pool'[j] = pool[j]
  BY <1>1, <1>2, <1>3, <1>4 DEF StoreTypeOK, Block
<1>6. call.price \notin PriceIdx
  BY <1>1, <1>2, BookAssumption DEF PriceIdx
<1>7. FreeListInv'
  BY <1>1, <1>2, <1>3, <1>5, FreeListPop
<1> HIDE DEF i
<1>8. StoreTypeOK'
  BY <1>1, <1>3, <1>4, <1>5 DEF StoreTypeOK
<1>9. CallTypeOK'
  BY <1>1, <1>2 DEF CallInv, CallTypeOK
<1>10. NotCrossed'
  BY <1>1, <1>3, FewerLevels
<1>11. QueueInv'
  <2> SUFFICES ASSUME NEW s \in Side, NEW p \in PriceIdx PROVE Queue(s, p)'
    BY DEF QueueInv
  <2> DEFINE Q == OrdersAt(s, p)
  <2>1. Queue(s, p) /\ ~BeingMatched(s, p)
    BY <1>1, <1>2 DEF QueueInv, BeingMatched
  <2>2. i \notin Q /\ Q \subseteq Slot
    BY <1>4, OrderIsNoFreeNode DEF OrdersAt
  <2>3. OrdersAt(s, p)' = Q
    <3>1. i \notin OrdersAt(s, p)'
      BY <1>5, <1>6 DEF OrdersAt, NewOrder
    <3>2. \A j \in Slot \ {i} : j \in OrdersAt(s, p)' <=> j \in OrdersAt(s, p)
      BY <1>5 DEF OrdersAt
    <3>3. OrdersAt(s, p)' \subseteq Slot
      BY DEF OrdersAt
    <3> QED
      BY <3>1, <3>2, <3>3, <2>2
  <2> HIDE DEF Q
  <2>4. \A j \in Q : /\ pool'[j].nextOrder = pool[j].nextOrder
                     /\ pool'[j].prevOrder = pool[j].prevOrder
                     /\ ahead'[j] = ahead[j]
    BY <2>2, <1>1, <1>5
  <2>5. /\ InLine(ahead, Q) /\ Linked(pool, ahead, Q)
        /\ levels[s][p] = NoLimit => Q = {}
        /\ levels[s][p] # NoLimit => Ends(pool, ahead, levels[s][p], Q) /\ Q # {}
    BY <2>1 DEF Queue, Q
  <2>6. InLine(ahead', Q) /\ Linked(pool', ahead', Q)
    BY <2>4, <2>5, QueueKept
  <2>7. levels[s][p] # NoLimit => Ends(pool', ahead', levels[s][p], Q)
    BY <2>4, <2>5, EndsKept
  <2>8. levels' = levels
    BY <1>1
  <2> QED
    BY <2>3, <2>5, <2>6, <2>7, <2>8 DEF Queue
<1>12. IndexInv'
  <2>1. ASSUME NEW id \in Id, orderMap'[id] # Nil
        PROVE  /\ pool'[orderMap'[id]] \in Order
               /\ pool'[orderMap'[id]].id = id
               /\ pool'[orderMap'[id]].price \in PriceIdx
    <3>1. /\ orderMap'[id] = orderMap[id]
          /\ pool[orderMap[id]] \in Order
          /\ pool[orderMap[id]].id = id
          /\ pool[orderMap[id]].price \in PriceIdx
          /\ orderMap[id] \in Slot
      BY <2>1, <1>1, <1>3 DEF Reachable, StoreTypeOK, Nowhere
    <3>2. orderMap[id] # i
      BY <3>1, <1>4, OrderIsNoFreeNode
    <3> QED
      BY <3>1, <3>2, <1>5
  <2>2. ASSUME NEW j \in Slot, pool'[j] \in Order
        PROVE  /\ pool'[j].shares > 0
               /\ \/ orderMap'[pool'[j].id] = j
                  \/ pc' = "threw" /\ pool'[j].price \notin PriceIdx
    <3>1. CASE j = i
      BY <3>1, <1>1, <1>2, <1>5, <1>6 DEF NewOrder
    <3>2. CASE j # i
      BY <3>2, <2>2, <1>1, <1>3, <1>5 DEF Reachable
    <3> QED
      BY <3>1, <3>2
  <2> QED
    BY <2>1, <2>2, <1>1 DEF IndexInv
<1> QED
  BY <1>1, <1>7, <1>8, <1>9, <1>10, <1>11, <1>12, AssembleThrown

-----------------------------------------------------------------------------
\* A book with nothing in it.
EmptyBook ==
  /\ pool = OP!Linked
  /\ head_free_index = 0
  /\ levels = [s \in Side |-> [p \in PriceIdx |-> NoLimit]]
  /\ orderMap = [id \in Id |-> Nil]
  /\ ahead = [i \in Slot |-> {}]

LEMMA EmptyBookInv == EmptyBook => StoreInv /\ QueueInv
<1> SUFFICES ASSUME EmptyBook PROVE StoreInv /\ QueueInv
  OBVIOUS
<1>1. FreeListInv
  BY FreeListLinked DEF EmptyBook
<1>2. pool \in [Slot -> OP!FreeNode]
  <2>1. OP!Linked = PP!Linked
    BY DEF OP!Linked, PP!Linked, OP!Slot, PP!Slot, OP!Nil, PP!Nil
  <2>2. PP!TypeOK
    BY <2>1, PoolIsInstance, PP!LinkedIsFreeList DEF EmptyBook
  <2>3. ASSUME NEW j \in Slot PROVE pool[j] \in OP!FreeNode
    <3>1. pool[j] = [next_free_index |-> IF j = Capacity - 1 THEN Nil ELSE j + 1]
      BY NilIsNoSlot DEF EmptyBook, OP!Linked
    <3>2. (IF j = Capacity - 1 THEN Nil ELSE j + 1) \in Slot \cup {Nil}
      BY BookAssumption DEF Slot
    <3> QED
      BY <3>1, <3>2, NilIsNoSlot DEF OP!FreeNode
  <2> QED
    BY <2>3, NilIsNoSlot DEF EmptyBook, OP!Linked
<1>3. \A j \in Slot : pool[j] \notin Order
  BY <1>2, OrderIsNoFreeNode
<1>4. StoreTypeOK
  BY <1>2, BookAssumption, NilIsNoSlot DEF EmptyBook, StoreTypeOK, Block, Slot
<1>5. Reachable
  BY <1>3 DEF EmptyBook, Reachable
<1>6. \A s \in Side, p \in PriceIdx : OrdersAt(s, p) = {} /\ levels[s][p] = NoLimit
  BY <1>3 DEF EmptyBook, OrdersAt
<1>7. NotCrossed
  BY <1>6 DEF NotCrossed, Active, Side
<1>8. QueueInv
  BY <1>6 DEF QueueInv, Queue, InLine, Linked
<1> QED
  BY <1>1, <1>4, <1>5, <1>7, <1>8 DEF StoreInv

LEMMA ResetKeeps == ASSUME BookInv, Reset PROVE BookInv'
<1>1. pc = "idle" /\ EmptyBook' /\ UNCHANGED <<pc, loopVars>>
  BY DEF Reset, OP!reset, EmptyBook
<1>2. (EmptyBook => StoreInv /\ QueueInv)'
  BY EmptyBookInv, PTL
<1>3. CallInv
  BY <1>1, BookInvParts
<1>4. CallInv' /\ pc' # "threw"
  BY <1>1, <1>2, <1>3, IdleCall DEF StoreInv
<1> QED
  BY <1>1, <1>2, <1>4, Assemble

LEMMA BookInvInit == Init => BookInv
<1> SUFFICES ASSUME Init PROVE BookInv
  OBVIOUS
<1>1. StoreInv /\ QueueInv
  BY EmptyBookInv DEF Init, OP!Init, EmptyBook
<1>2. CallInv /\ pc # "threw"
  BY NilIsNoSlot DEF Init, NoCall, CallInv, CallTypeOK, CursorInv, IdFree, Side
<1> QED
  BY <1>1, <1>2, BookInvParts

LEMMA StutterKeeps == ASSUME BookInv, UNCHANGED vars PROVE BookInv'
<1>1. /\ UNCHANGED <<pool, head_free_index, levels, orderMap, pc, call>>
      /\ UNCHANGED <<remainingShares, limitIt, currIdx, ahead>>
      /\ UNCHANGED <<pool, levels, ahead>>
  BY DEF vars
<1>2. TypeOK /\ FreeListInv /\ IndexInv /\ QueueInv /\ CursorInv /\ NotCrossed
  BY DEF BookInv
<1>3. TypeOK' /\ IndexInv' /\ NotCrossed'
  BY <1>1, <1>2 DEF TypeOK, IndexInv, NotCrossed
<1>4. FreeListInv'
  BY <1>1, <1>2, FreeListOwner
<1>5. QueueInv'
  BY <1>1, <1>2, QueuesKept DEF BeingMatched, RestingSide
<1>6. CursorInv'
  BY <1>1, <1>2 DEF CursorInv, RestingSide, Crosses
<1> QED
  BY <1>3, <1>4, <1>5, <1>6 DEF BookInv

LEMMA BookInvStep == BookInv /\ [Next]_vars => BookInv'
<1> SUFFICES ASSUME BookInv, [Next]_vars PROVE BookInv'
  OBVIOUS
<1>1. CASE Invoke
  <2>1. ASSUME NEW id \in Id, NEW side \in Side, NEW shares \in Quantity,
               NEW price \in Price, AddLimitOrder(id, side, shares, price)
        PROVE  BookInv'
    BY <2>1, AddLimitOrderKeeps
  <2>2. ASSUME NEW side \in Side, NEW shares \in Quantity, MarketOrder(side, shares)
        PROVE  BookInv'
    BY <2>2, MarketOrderKeeps
  <2>3. ASSUME NEW id \in Id, CancelLimitOrder(id) PROVE BookInv'
    BY <2>3, CancelLimitOrderKeeps
  <2>4. ASSUME NEW id \in Id, NEW shares \in Quantity, ModifyToZero(id, shares)
        PROVE  BookInv'
    BY <2>4, CancelLimitOrderKeeps DEF ModifyToZero
  <2>5. ASSUME NEW id \in Id, NEW shares \in Quantity, NEW price \in Price,
               ModifyInPlace(id, shares, price)
        PROVE  BookInv'
    BY <2>5, ModifyInPlaceKeeps
  <2>6. ASSUME NEW id \in Id, NEW shares \in Quantity, NEW price \in Price,
               ModifyByReplace(id, shares, price)
        PROVE  BookInv'
    BY <2>6, ModifyByReplaceKeeps
  <2>7. CASE Reset
    BY <2>7, ResetKeeps
  <2> QED
    BY <1>1, <2>1, <2>2, <2>3, <2>4, <2>5, <2>6, <2>7 DEF Invoke
<1>2. CASE Run
  <2>1. CASE EnterLevel
    BY <2>1, EnterLevelKeeps
  <2>2. CASE FillPartly
    BY <2>2, FillPartlyKeeps
  <2>3. CASE FillWholly
    BY <2>3, FillWhollyKeeps
  <2>4. CASE LeaveLevel
    BY <2>4, LeaveLevelKeeps
  <2>5. CASE Finish
    BY <2>5, FinishKeeps
  <2>6. CASE Rest
    BY <2>6, RestKeeps
  <2>7. CASE ThrowExhausted
    BY <2>7, ThrowExhaustedKeeps
  <2>8. CASE ThrowOutOfRange
    BY <2>8, ThrowOutOfRangeKeeps
  <2> QED
    BY <1>2, <2>1, <2>2, <2>3, <2>4, <2>5, <2>6, <2>7, <2>8 DEF Run
<1>3. CASE UNCHANGED vars
  BY <1>3, StutterKeeps
<1> QED
  BY <1>1, <1>2, <1>3 DEF Next

-----------------------------------------------------------------------------
\* What the orders Q of the pool P have left together.
Volume(P, Q) == SumFunctionOnSet([i \in Slot |-> SharesIn(P, i)], Q)

VolumeAt(s, p) ==
  levels[s][p] # NoLimit => levels[s][p].totalVolume = Volume(pool, OrdersAt(s, p))

LEMMA SharesAreNat == ASSUME NEW P, NEW i PROVE SharesIn(P, i) \in Nat
BY DEF SharesIn, Order

LEMMA VolumeParts == VolumeInv <=> \A s \in Side, p \in PriceIdx : VolumeAt(s, p)
<1>1. ASSUME NEW s \in Side, NEW p \in PriceIdx
      PROVE  SumFunction([i \in OrdersAt(s, p) |-> pool[i].shares]) = Volume(pool, OrdersAt(s, p))
  <2> DEFINE Q == OrdersAt(s, p)
             f == [i \in Q |-> pool[i].shares]
             g == [i \in Slot |-> SharesIn(pool, i)]
  <2>1. Q \in SUBSET Slot /\ \A i \in Q : pool[i] \in Order
    BY DEF OrdersAt
  <2>2. \A i \in Q : f[i] = g[i] /\ g[i] \in Nat
    BY <2>1, SharesAreNat DEF SharesIn
  <2>3. DOMAIN f = Q
    OBVIOUS
  <2>4. IsFiniteSet(Q) /\ Q \in SUBSET Q
    BY <2>1, FiniteQueue
  <2> HIDE DEF Q, f, g
  <2>5. SumFunctionOnSet(f, Q) = SumFunctionOnSet(g, Q)
    BY <2>2, <2>4, SumAgree
  <2>6. SumFunction(f) = SumFunctionOnSet(g, Q)
    BY <2>3, <2>5 DEF SumFunction
  <2> QED
    BY <2>6 DEF Volume, Q, f, g
<1> QED
  BY <1>1 DEF VolumeInv, VolumeAt, Active

\* How the volume of a queue follows the shares of its orders.
LEMMA VolumeSame ==
  ASSUME NEW P, NEW R, NEW Q \in SUBSET Slot,
         \A j \in Q : SharesIn(R, j) = SharesIn(P, j)
  PROVE  Volume(R, Q) = Volume(P, Q) /\ Volume(P, Q) \in Nat
<1> DEFINE f == [i \in Slot |-> SharesIn(R, i)]
           g == [i \in Slot |-> SharesIn(P, i)]
<1>1. IsFiniteSet(Q) /\ Q \in SUBSET Q
  BY FiniteQueue
<1>2. \A j \in Q : f[j] = g[j] /\ g[j] \in Nat
  BY SharesAreNat
<1> HIDE DEF f, g
<1>3. SumFunctionOnSet(f, Q) = SumFunctionOnSet(g, Q) /\ SumFunctionOnSet(g, Q) \in Nat
  BY <1>1, <1>2, SumAgree, SumIsNat
<1> QED
  BY <1>3 DEF Volume, f, g

LEMMA VolumeWithout ==
  ASSUME NEW P, NEW R, NEW Q \in SUBSET Slot, NEW i \in Q,
         \A j \in Q \ {i} : SharesIn(R, j) = SharesIn(P, j)
  PROVE  /\ Volume(R, Q \ {i}) = Volume(P, Q) - SharesIn(P, i)
         /\ SharesIn(P, i) <= Volume(P, Q)
         /\ Volume(P, Q) \in Nat
<1> DEFINE g == [j \in Slot |-> SharesIn(P, j)]
           U == Q \ {i}
<1>1. IsFiniteSet(Q) /\ U \in SUBSET Slot
  BY FiniteQueue
<1>2. (\A j \in Q : g[j] \in Nat) /\ g[i] = SharesIn(P, i)
  BY SharesAreNat
<1> HIDE DEF g
<1>3. SumFunctionOnSet(g, Q) = g[i] + SumFunctionOnSet(g, U)
  BY <1>1, <1>2, SumTakeOut
<1>4. \A j \in U : SharesIn(R, j) = SharesIn(P, j)
  OBVIOUS
<1> HIDE DEF U
<1>5. Volume(R, U) = Volume(P, U) /\ Volume(P, U) \in Nat
  BY <1>1, <1>4, VolumeSame
<1>6. Volume(P, Q) = SharesIn(P, i) + Volume(P, U)
  BY <1>2, <1>3 DEF Volume, g
<1> QED
  BY <1>5, <1>6, SharesAreNat DEF U

LEMMA VolumeWith ==
  ASSUME NEW P, NEW R, NEW Q \in SUBSET Slot, NEW i \in Slot \ Q,
         \A j \in Q : SharesIn(R, j) = SharesIn(P, j)
  PROVE  Volume(R, Q \cup {i}) = Volume(P, Q) + SharesIn(R, i)
<1> DEFINE T == Q \cup {i}
<1>1. T \in SUBSET Slot /\ i \in T /\ T \ {i} = Q
  OBVIOUS
<1>2. \A j \in T \ {i} : SharesIn(P, j) = SharesIn(R, j)
  OBVIOUS
<1> HIDE DEF T
<1>3. Volume(P, T \ {i}) = Volume(R, T) - SharesIn(R, i) /\ Volume(R, T) \in Nat
  BY <1>1, <1>2, VolumeWithout
<1>4. Volume(P, Q) = Volume(R, T) - SharesIn(R, i) /\ SharesIn(R, i) \in Nat
  BY <1>1, <1>3, SharesAreNat
<1>5. Volume(R, T) = Volume(P, Q) + SharesIn(R, i)
  BY <1>3, <1>4
<1> QED
  BY <1>5 DEF T

LEMMA VolumeReduced ==
  ASSUME NEW P, NEW R, NEW Q \in SUBSET Slot, NEW i \in Q,
         \A j \in Q \ {i} : SharesIn(R, j) = SharesIn(P, j)
  PROVE  /\ Volume(R, Q) = Volume(P, Q) - (SharesIn(P, i) - SharesIn(R, i))
         /\ SharesIn(P, i) <= Volume(P, Q)
         /\ Volume(P, Q) \in Nat
<1>1. Volume(R, Q \ {i}) = Volume(P, Q) - SharesIn(P, i) /\ SharesIn(P, i) <= Volume(P, Q)
      /\ Volume(P, Q) \in Nat
  BY VolumeWithout, ZenonT(60)
<1>2. Volume(R, Q \ {i}) = Volume(R, Q) - SharesIn(R, i) /\ Volume(R, Q) \in Nat
  BY VolumeWithout
<1> QED
  BY <1>1, <1>2, SharesAreNat

\* Steps that leave every level that remains, and its orders, as they are.
LEMMA VolumesKept ==
  ASSUME VolumeInv,
         \A s \in Side, p \in PriceIdx : levels'[s][p] # NoLimit =>
           /\ levels'[s][p] = levels[s][p]
           /\ OrdersAt(s, p)' = OrdersAt(s, p)
           /\ \A j \in OrdersAt(s, p) : SharesIn(pool', j) = SharesIn(pool, j)
  PROVE  VolumeInv'
<1>1. ASSUME NEW s \in Side, NEW p \in PriceIdx PROVE VolumeAt(s, p)'
  <2>1. VolumeAt(s, p)
    BY VolumeParts
  <2>2. OrdersAt(s, p) \in SUBSET Slot
    BY DEF OrdersAt
  <2>3. levels'[s][p] # NoLimit => Volume(pool', OrdersAt(s, p)) = Volume(pool, OrdersAt(s, p))
    BY <2>2, VolumeSame
  <2> QED
    BY <2>1, <2>3 DEF VolumeAt
<1>2. (VolumeInv <=> \A s \in Side, p \in PriceIdx : VolumeAt(s, p))'
  BY VolumeParts, PTL
<1> QED
  BY <1>1, <1>2

\* Order i has left the book, its level keeps the other orders or is erased.
LEMMA VolumesWithout ==
  ASSUME BookInv, VolumeInv, Reachable,
         NEW i \in Slot, pool[i] \in Order, pool[i].price \in PriceIdx,
         OP!deallocate(removeOrderPool(pool, i), i), DropFromQueues(i),
         \A s \in Side, p \in PriceIdx : levels'[s][p] # NoLimit =>
           levels[s][p] # NoLimit /\ levels'[s][p] = LevelWithout(i, s, p)
  PROVE  VolumeInv'
<1>1. TypeOK /\ FreeListInv /\ QueueInv
  BY DEF BookInv
<1>2. \A j \in Slot \ {i} : SharesIn(pool', j) = SharesIn(pool, j)
  BY <1>1, SlotFreed DEF SharesIn, SameTerms
<1>3. ASSUME NEW s \in Side, NEW p \in PriceIdx PROVE VolumeAt(s, p)'
  <2> DEFINE Q == OrdersAt(s, p)
  <2> SUFFICES ASSUME levels'[s][p] # NoLimit
               PROVE  levels'[s][p].totalVolume = Volume(pool', OrdersAt(s, p)')
    BY DEF VolumeAt
  <2>1. OrdersAt(s, p)' = Q \ {i}
    BY <1>1, QueuesWithout
  <2>2. levels'[s][p] = LevelWithout(i, s, p) /\ levels[s][p].totalVolume = Volume(pool, Q)
    BY VolumeParts DEF VolumeAt
  <2>3. Q \in SUBSET Slot /\ (i \in Q <=> s = pool[i].side /\ p = pool[i].price)
    BY DEF OrdersAt
  <2> HIDE DEF Q
  <2>4. CASE i \in Q
    <3>1. Volume(pool', Q \ {i}) = Volume(pool, Q) - SharesIn(pool, i)
      BY <2>3, <2>4, <1>2, VolumeWithout
    <3>2. levels'[s][p].totalVolume = levels[s][p].totalVolume - pool[i].shares
      BY <2>2, <2>3, <2>4 DEF LevelWithout, removeOrderLimit
    <3> QED
      BY <3>1, <3>2, <2>1, <2>2 DEF SharesIn
  <2>5. CASE i \notin Q
    <3>1. Q \ {i} = Q /\ \A j \in Q : SharesIn(pool', j) = SharesIn(pool, j)
      BY <2>3, <2>5, <1>2
    <3>2. Volume(pool', Q) = Volume(pool, Q)
      BY <3>1, <2>3, VolumeSame
    <3> QED
      BY <3>1, <3>2, <2>1, <2>2, <2>3, <2>5 DEF LevelWithout
  <2> QED
    BY <2>4, <2>5
<1>4. (VolumeInv <=> \A s \in Side, p \in PriceIdx : VolumeAt(s, p))'
  BY VolumeParts, PTL
<1> QED
  BY <1>3, <1>4

\* Order i keeps n of its shares: the volume of its level covers what it lost.
LEMMA VolumesReduced ==
  ASSUME BookInv, VolumeInv, NEW i \in Slot, pool[i] \in Order,
         pool[i].price \in PriceIdx, NEW n \in Nat, n < pool[i].shares,
         pool' = [pool EXCEPT ![i].shares = n],
         levels' = [levels EXCEPT ![pool[i].side][pool[i].price] =
                      fillVolume(@, pool[i].shares - n)]
  PROVE  VolumeInv'
<1> DEFINE o == pool[i]
           F == fillVolume(levels[o.side][o.price], o.shares - n)
<1>1. pool \in Block /\ QueueInv /\ levels \in [Side -> [PriceIdx -> Level \cup {NoLimit}]]
  BY DEF BookInv, TypeOK, Block
<1>2. levels[o.side][o.price] # NoLimit /\ o.side \in Side /\ o.shares \in Nat
  BY <1>1, NeighboursLive DEF Order
<1>3. /\ pool'[i] \in Order
      /\ pool'[i].shares = n /\ pool'[i].side = o.side /\ pool'[i].price = o.price
      /\ \A j \in Slot \ {i} : pool'[j] = pool[j]
  BY <1>1 DEF Block, Order
<1>4. levels[o.side][o.price] \in Level
  BY <1>1, <1>2, SMTT(30)
<1>5. F.totalVolume = IF levels[o.side][o.price].totalVolume >= o.shares - n
                      THEN levels[o.side][o.price].totalVolume - (o.shares - n) ELSE 0
  BY <1>4 DEF fillVolume, Level
<1>6. \A s \in Side, p \in PriceIdx :
        levels'[s][p] = IF s = o.side /\ p = o.price THEN F ELSE levels[s][p]
  BY <1>1, <1>2, SMTT(30)
<1> HIDE DEF o, F
<1>7. ASSUME NEW s \in Side, NEW p \in PriceIdx PROVE VolumeAt(s, p)'
  <2> DEFINE Q == OrdersAt(s, p)
  <2> SUFFICES ASSUME levels'[s][p] # NoLimit
               PROVE  levels'[s][p].totalVolume = Volume(pool', OrdersAt(s, p)')
    BY DEF VolumeAt
  <2>1. OrdersAt(s, p)' = Q
    BY <1>3 DEF OrdersAt, o
  <2>2. levels[s][p] # NoLimit => levels[s][p].totalVolume = Volume(pool, Q)
    BY VolumeParts DEF VolumeAt
  <2>3. Q \in SUBSET Slot /\ (i \in Q <=> s = o.side /\ p = o.price)
    BY DEF OrdersAt, o
  <2>4. \A j \in Slot \ {i} : SharesIn(pool', j) = SharesIn(pool, j)
    BY <1>3 DEF SharesIn
  <2>5. SharesIn(pool', i) = n /\ SharesIn(pool, i) = o.shares
    BY <1>3 DEF SharesIn, o
  <2> HIDE DEF Q
  <2>6. CASE i \in Q
    <3>1. /\ Volume(pool', Q) = Volume(pool, Q) - (o.shares - n)
          /\ o.shares <= Volume(pool, Q)
          /\ Volume(pool, Q) \in Nat
      <4>1. \A j \in Q \ {i} : SharesIn(pool', j) = SharesIn(pool, j)
        BY <2>3, <2>4, Zenon
      <4>2. /\ Volume(pool', Q) = Volume(pool, Q) - (SharesIn(pool, i) - SharesIn(pool', i))
            /\ SharesIn(pool, i) <= Volume(pool, Q)
            /\ Volume(pool, Q) \in Nat
        BY <4>1, <2>3, <2>6, VolumeReduced, ZenonT(60)
      <4> QED
        BY <4>2, <2>5, Zenon
    <3>2. levels'[s][p] = F /\ levels[s][p].totalVolume = Volume(pool, Q)
      BY <2>2, <2>3, <2>6, <1>2, <1>6
    <3> QED
      BY <3>1, <3>2, <2>1, <2>3, <2>6, <1>2, <1>5
  <2>7. CASE i \notin Q
    <3>1. Volume(pool', Q) = Volume(pool, Q)
      <4>1. \A j \in Q : SharesIn(pool', j) = SharesIn(pool, j)
        BY <2>3, <2>4, <2>7, Zenon
      <4> QED
        BY <4>1, <2>3, VolumeSame, Zenon
    <3>2. levels'[s][p] = levels[s][p]
      BY <2>3, <2>7, <1>6
    <3> QED
      BY <3>1, <3>2, <2>1, <2>2
  <2> QED
    BY <2>6, <2>7, SMTT(30)
<1>8. (VolumeInv <=> \A s \in Side, p \in PriceIdx : VolumeAt(s, p))'
  BY VolumeParts, PTL
<1> QED
  BY <1>7, <1>8

LEMMA CancelKeepsVolumes ==
  ASSUME BookInv, VolumeInv, pc = "idle", NEW id \in Id, orderMap[id] # Nil, Cancel(id)
  PROVE  VolumeInv'
<1> DEFINE i == orderMap[id]
           o == pool[i]
           E == EraseIfEmpty(LevelWithout(i, o.side, o.price))
<1>1. StoreTypeOK /\ Reachable /\ QueueInv
  BY BookInvParts DEF StoreInv
<1>2. i \in Slot /\ o \in Order /\ o.price \in PriceIdx /\ o.side \in Side
  BY <1>1 DEF Reachable, StoreTypeOK, Nowhere, Order
<1>3. levels[o.side][o.price] # NoLimit
  BY <1>1, <1>2, NeighboursLive
<1>4. /\ OP!deallocate(removeOrderPool(pool, i), i)
      /\ DropFromQueues(i)
      /\ levels' = [levels EXCEPT ![o.side][o.price] = E]
  BY <1>2, <1>3 DEF Cancel, LevelWithout
<1> HIDE DEF i
<1>5. \A s \in Side, p \in PriceIdx :
        levels'[s][p] = IF s = o.side /\ p = o.price THEN E ELSE levels[s][p]
  BY <1>1, <1>2, <1>4 DEF StoreTypeOK
<1>6. \A s \in Side, p \in PriceIdx : levels'[s][p] # NoLimit =>
        levels[s][p] # NoLimit /\ levels'[s][p] = LevelWithout(i, s, p)
  BY <1>3, <1>5 DEF EraseIfEmpty, LevelWithout
<1> QED
  BY <1>1, <1>2, <1>4, <1>6, VolumesWithout

LEMMA FillWhollyKeepsVolumes ==
  ASSUME BookInv, VolumeInv, FillWholly PROVE VolumeInv'
<1> DEFINE i == currIdx
           r == RestingSide
<1>1. /\ pc = "order" /\ i # Nil
      /\ levels' = [levels EXCEPT ![r][limitIt] =
                      removeOrderLimit(@, pool, i, pool[i].shares)]
      /\ OP!deallocate(removeOrderPool(pool, i), i)
      /\ DropFromQueues(i)
  BY DEF FillWholly
<1>2. StoreTypeOK /\ Reachable
  BY <1>1, BookInvParts DEF StoreInv
<1>3. /\ r \in Side
      /\ limitIt \in PriceIdx
      /\ levels[r][limitIt] # NoLimit
      /\ i \in Slot
      /\ pool[i] \in Order
      /\ pool[i].side = r
      /\ pool[i].price = limitIt
  BY <1>1, AtLevel
<1> HIDE DEF i, r
<1>4. \A s \in Side, p \in PriceIdx : levels'[s][p] = LevelWithout(i, s, p)
  BY <1>1, <1>2, <1>3 DEF LevelWithout, StoreTypeOK
<1>5. \A s \in Side, p \in PriceIdx : levels'[s][p] # NoLimit =>
        levels[s][p] # NoLimit /\ levels'[s][p] = LevelWithout(i, s, p)
  BY <1>3, <1>4 DEF LevelWithout
<1> QED
  BY <1>1, <1>2, <1>3, <1>5, VolumesWithout

LEMMA RestKeepsVolumes == ASSUME BookInv, VolumeInv, Rest PROVE VolumeInv'
<1> DEFINE i == head_free_index
           s0 == call.side
           p0 == call.price
           L == LevelToJoin(levels[s0], p0)
           N == addOrderLimit(L, i, remainingShares)
           Q0 == OrdersAt(s0, p0)
<1>1. /\ i \in Slot /\ pool[i] \in OP!FreeNode
      /\ pool'[i] \in Order
      /\ pool'[i].side = s0
      /\ pool'[i].price = p0
      /\ pool'[i].shares = remainingShares
      /\ \A j \in Slot \ {i} : pool'[j] \in Order <=> pool[j] \in Order
      /\ \A j \in Slot \ {i} : pool[j] \in Order => SameTerms(pool'[j], pool[j])
      /\ \A s \in Side, p \in PriceIdx :
           levels'[s][p] = IF s = s0 /\ p = p0 THEN N ELSE levels[s][p]
  BY RestTakes
<1>2. QueueInv /\ s0 \in Side /\ p0 \in PriceIdx
  BY AboutToRest DEF Rest
<1> HIDE DEF i, N, L
<1>3. ASSUME NEW s \in Side, NEW p \in PriceIdx PROVE VolumeAt(s, p)'
  <2> DEFINE Q == OrdersAt(s, p)
  <2> SUFFICES ASSUME levels'[s][p] # NoLimit
               PROVE  levels'[s][p].totalVolume = Volume(pool', OrdersAt(s, p)')
    BY DEF VolumeAt
  <2>1. Q \in SUBSET Slot /\ i \notin Q
    BY <1>1, OrderIsNoFreeNode DEF OrdersAt
  <2>2. OrdersAt(s, p)' = IF s = s0 /\ p = p0 THEN Q \cup {i} ELSE Q
    <3>1. \A j \in Slot \ {i} : j \in OrdersAt(s, p)' <=> j \in Q
      BY <1>1 DEF OrdersAt, SameTerms
    <3>2. i \in OrdersAt(s, p)' <=> s = s0 /\ p = p0
      BY <1>1 DEF OrdersAt
    <3>3. OrdersAt(s, p)' \subseteq Slot
      BY DEF OrdersAt
    <3> HIDE DEF Q
    <3> QED
      BY <3>1, <3>2, <3>3, <2>1, <1>1, SMTT(30)
  <2>3. \A j \in Q : SharesIn(pool', j) = SharesIn(pool, j)
    BY <2>1, <1>1 DEF SharesIn, SameTerms
  <2>4. VolumeAt(s, p) /\ Queue(s, p)
    BY <1>2, VolumeParts DEF QueueInv
  <2>5. CASE s = s0 /\ p = p0
    <3>1. Volume(pool', Q \cup {i}) = Volume(pool, Q) + remainingShares
      <4>1. SharesIn(pool', i) = remainingShares
        BY <1>1 DEF SharesIn
      <4> HIDE DEF Q
      <4> QED
        BY <4>1, <2>1, <2>3, <1>1, VolumeWith
    <3>2. L.totalVolume = Volume(pool, Q)
      <4>1. CASE levels[s][p] = NoLimit
        <5>1. Q = {} /\ L = EmptyLimit
          BY <4>1, <2>4, <2>5 DEF Queue, L, LevelToJoin
        <5>2. Volume(pool, {}) = 0
          BY SumOfNone DEF Volume
        <5> QED
          BY <5>1, <5>2 DEF EmptyLimit
      <4>2. CASE levels[s][p] # NoLimit
        BY <4>2, <2>4, <2>5 DEF VolumeAt, L, LevelToJoin
      <4> QED
        BY <4>1, <4>2
    <3>3. levels'[s][p].totalVolume = L.totalVolume + remainingShares
      BY <2>5, <1>1 DEF N, addOrderLimit
    <3> QED
      BY <3>1, <3>2, <3>3, <2>2, <2>5
  <2>6. CASE ~(s = s0 /\ p = p0)
    <3>1. Volume(pool', Q) = Volume(pool, Q)
      BY <2>1, <2>3, VolumeSame
    <3> QED
      BY <3>1, <2>2, <2>4, <2>6, <1>1 DEF VolumeAt
  <2> QED
    BY <2>5, <2>6
<1>4. (VolumeInv <=> \A s \in Side, p \in PriceIdx : VolumeAt(s, p))'
  BY VolumeParts, PTL
<1> QED
  BY <1>3, <1>4

LEMMA VolumeStep == BookInv /\ VolumeInv /\ [Next]_vars => VolumeInv'
<1> SUFFICES ASSUME BookInv, VolumeInv, [Next]_vars PROVE VolumeInv'
  OBVIOUS
<1>t. /\ pool \in Block
      /\ levels \in [Side -> [PriceIdx -> Level \cup {NoLimit}]]
  BY DEF BookInv, TypeOK, Block
<1>1. CASE UNCHANGED <<pool, levels>>
  BY <1>1, VolumesKept DEF OrdersAt
<1>2. ASSUME NEW id \in Id, CancelLimitOrder(id) PROVE VolumeInv'
  BY <1>2, CancelKeepsVolumes DEF CancelLimitOrder
<1>3. ASSUME NEW id \in Id, NEW shares \in Quantity, NEW price \in Price,
             ModifyInPlace(id, shares, price)
      PROVE  VolumeInv'
  <2> DEFINE i == orderMap[id]
             o == pool[i]
  <2>1. /\ pc = "idle" /\ i # Nil
        /\ shares < o.shares
        /\ pool' = [pool EXCEPT ![i].shares = shares]
        /\ levels' = [levels EXCEPT ![o.side][o.price] = fillVolume(@, o.shares - shares)]
    BY <1>3 DEF ModifyInPlace, KeepsPlace
  <2>2. i \in Slot /\ o \in Order /\ o.price \in PriceIdx /\ shares \in Nat
    BY <2>1, BookInvParts, BookAssumption DEF StoreInv, StoreTypeOK, Reachable, Nowhere
  <2> HIDE DEF i
  <2> QED
    BY <2>1, <2>2, VolumesReduced
<1>4. ASSUME NEW id \in Id, NEW shares \in Quantity, NEW price \in Price,
             ModifyByReplace(id, shares, price)
      PROVE  VolumeInv'
  BY <1>4, CancelKeepsVolumes DEF ModifyByReplace
<1>5. CASE Reset
  <2>1. \A s \in Side, p \in PriceIdx : levels'[s][p] = NoLimit
    BY <1>5 DEF Reset
  <2> QED
    BY <2>1, VolumesKept
<1>6. CASE FillPartly
  <2> DEFINE i == currIdx
             r == remainingShares
             n == pool[i].shares - r
  <2>1. /\ pc = "order" /\ i # Nil /\ r > 0 /\ pool[i].shares > r
        /\ pool' = [pool EXCEPT ![i].shares = n]
        /\ levels' = [levels EXCEPT ![RestingSide][limitIt] = fillVolume(@, r)]
    BY <1>6 DEF FillPartly
  <2>2. /\ limitIt \in PriceIdx
        /\ i \in Slot
        /\ pool[i] \in Order
        /\ pool[i].side = RestingSide
        /\ pool[i].price = limitIt
    BY <2>1, AtLevel
  <2>3. r \in Nat /\ pool[i].shares \in Nat
    BY <2>2 DEF BookInv, TypeOK, Order
  <2>4. n \in Nat /\ n < pool[i].shares /\ pool[i].shares - n = r
    BY <2>1, <2>3
  <2> HIDE DEF i, n
  <2>5. levels' = [levels EXCEPT ![pool[i].side][pool[i].price] =
                     fillVolume(@, pool[i].shares - n)]
    BY <2>1, <2>2, <2>4
  <2> QED
    BY <2>1, <2>2, <2>4, <2>5, VolumesReduced
<1>7. CASE FillWholly
  BY <1>7, FillWhollyKeepsVolumes
<1>8. CASE LeaveLevel
  <2>1. /\ levels' = [levels EXCEPT ![RestingSide][limitIt] = EraseIfEmpty(@)]
        /\ pool' = pool
        /\ pc = "order"
    BY <1>8 DEF LeaveLevel, poolVars
  <2>2. RestingSide \in Side /\ limitIt \in PriceIdx
    BY <2>1, AtLevel
  <2>3. \A s \in Side, p \in PriceIdx : levels'[s][p] # NoLimit => levels'[s][p] = levels[s][p]
    BY <2>1, <2>2, <1>t DEF EraseIfEmpty
  <2> QED
    BY <2>1, <2>3, VolumesKept DEF OrdersAt
<1>9. CASE Rest
  BY <1>9, RestKeepsVolumes
<1>10. CASE ThrowOutOfRange
  <2> DEFINE i == head_free_index
  <2>1. /\ ToRest
        /\ call.price >= MAX_PRICE
        /\ ~OP!Exhausted
        /\ pool' = [pool EXCEPT ![i] = NewOrder]
        /\ levels' = levels
    BY <1>10 DEF ThrowOutOfRange, OP!construct, OP!allocate
  <2>2. TypeOK /\ call.price \in Nat /\ FreeListInv
    BY <2>1, AboutToRest DEF BookInv
  <2>3. i \in Slot /\ pool[i] \in OP!FreeNode
    BY <2>1, <2>2, FreeListTop
  <2>4. /\ pool'[i] = NewOrder
        /\ \A j \in Slot \ {i} : pool'[j] = pool[j]
    BY <2>1, <2>3, <1>t DEF Block
  <2>5. call.price \notin PriceIdx
    BY <2>1, <2>2, BookAssumption DEF PriceIdx
  <2>6. pool[i] \notin Order
    BY <2>3, OrderIsNoFreeNode
  <2>7. pool'[i].price = call.price
    BY <2>4 DEF NewOrder
  <2> HIDE DEF i
  <2>8. ASSUME NEW s \in Side, NEW p \in PriceIdx
        PROVE  /\ OrdersAt(s, p)' = OrdersAt(s, p)
               /\ \A j \in OrdersAt(s, p) : SharesIn(pool', j) = SharesIn(pool, j)
    <3>1. i \notin OrdersAt(s, p) /\ i \notin OrdersAt(s, p)'
      BY <2>5, <2>6, <2>7 DEF OrdersAt
    <3>2. \A j \in Slot \ {i} : j \in OrdersAt(s, p)' <=> j \in OrdersAt(s, p)
      BY <2>4 DEF OrdersAt
    <3>3. OrdersAt(s, p)' \subseteq Slot /\ OrdersAt(s, p) \subseteq Slot
      BY DEF OrdersAt
    <3>4. \A j \in OrdersAt(s, p) : pool'[j] = pool[j]
      BY <3>1, <3>3, <2>4
    <3> QED
      BY <3>1, <3>2, <3>3, <3>4 DEF SharesIn
  <2> QED
    BY <2>1, <2>8, VolumesKept
<1>11. CASE Invoke
  BY <1>1, <1>2, <1>3, <1>4, <1>5, <1>11 DEF Invoke, AddLimitOrder, MarketOrder,
     ModifyToZero, poolVars
<1>12. CASE Run
  BY <1>1, <1>6, <1>7, <1>8, <1>9, <1>10, <1>12 DEF Run, EnterLevel, Finish,
     ThrowExhausted, poolVars
<1> QED
  BY <1>1, <1>11, <1>12 DEF Next, vars

-----------------------------------------------------------------------------
\* The head of the best level outranks every other order of its side.
LEMMA HeadOutranks ==
  ASSUME BookInv, pc = "order", currIdx # Nil
  PROVE  /\ currIdx \in Slot
         /\ pool[currIdx].side = RestingSide
         /\ Crosses(pool[currIdx].price)
         /\ \A j \in Slot \ {currIdx} :
              pool[j] \in Order /\ pool[j].side = RestingSide => Outranks(currIdx, j)
<1>1. /\ RestingSide \in Side
      /\ limitIt \in PriceIdx
      /\ currIdx \in Slot
      /\ pool[currIdx] \in Order
      /\ pool[currIdx].side = RestingSide
      /\ pool[currIdx].price = limitIt
      /\ ahead[currIdx] = {}
  BY AtLevel
<1>2. QueueInv /\ Reachable /\ CursorInv
  BY BookInvParts DEF StoreInv, CallInv
<1>3. Crosses(limitIt) /\ IsFirst(RestingSide, Active(levels[RestingSide]), limitIt)
  BY <1>2 DEF CursorInv
<1>4. ASSUME NEW j \in Slot \ {currIdx}, pool[j] \in Order, pool[j].side = RestingSide
      PROVE  Outranks(currIdx, j)
  <2> DEFINE p == pool[j].price
             Q == OrdersAt(RestingSide, p)
  <2>1. pool[j].id \in Id /\ orderMap[pool[j].id] = j /\ j # Nil
    BY <1>2, <1>4, NilIsNoSlot DEF Reachable, Order
  <2>2. p \in PriceIdx
    BY <2>1, <1>2 DEF Reachable
  <2>3. j \in Q
    BY <1>4 DEF OrdersAt
  <2> HIDE DEF Q
  <2>4. Queue(RestingSide, p)
    BY <2>2, <1>1, <1>2 DEF QueueInv
  <2>5. InLine(ahead, Q) /\ levels[RestingSide][p] # NoLimit
    BY <2>3, <2>4 DEF Queue, Q
  <2>6. CASE p = limitIt
    <3>1. currIdx \in Q
      BY <2>6, <1>1 DEF OrdersAt, Q
    <3>2. currIdx \in ahead[j]
      BY <3>1, <2>3, <2>5, <1>1, <1>4 DEF InLine
    <3> QED
      BY <3>2, <2>6, <1>1 DEF Outranks
  <2>7. CASE p # limitIt
    <3>1. p \in Active(levels[RestingSide])
      BY <2>2, <2>5 DEF Active
    <3>2. Before(RestingSide, limitIt, p)
      BY <3>1, <2>7, <1>3 DEF IsFirst
    <3> QED
      BY <3>2, <1>1 DEF Outranks
  <2> QED
    BY <2>6, <2>7
<1> QED
  BY <1>1, <1>3, <1>4

\* A step of the loop over a level's orders takes shares of currIdx alone.
LEMMA OnlyTheHeadTrades ==
  ASSUME BookInv, Next, pc = "order",
         NEW i \in Slot, SharesIn(pool', i) < SharesIn(pool, i)
  PROVE  currIdx # Nil /\ i = currIdx
<1>1. TypeOK /\ FreeListInv /\ QueueInv /\ pool \in Block
  BY DEF BookInv, TypeOK, Block
<1>2. FillPartly \/ FillWholly \/ LeaveLevel
  BY DEF Next, Invoke, Run, AddLimitOrder, MarketOrder, ModifyToZero, CancelLimitOrder,
     ModifyInPlace, ModifyByReplace, Reset, EnterLevel, Finish, Rest, ThrowExhausted,
     ThrowOutOfRange, ToRest
<1>3. SharesIn(pool, i) \in Nat
  BY DEF SharesIn, Order
<1>4. CASE FillPartly
  <2>1. currIdx # Nil /\ pool' = [pool EXCEPT ![currIdx].shares = @ - remainingShares]
    BY <1>4 DEF FillPartly
  <2>2. currIdx \in Slot
    BY <2>1, AtLevel
  <2>3. i # currIdx => pool'[i] = pool[i]
    BY <2>1, <2>2, <1>1 DEF Block
  <2> QED
    BY <2>1, <2>3, <1>3 DEF SharesIn
<1>5. CASE FillWholly
  <2> DEFINE k == currIdx
  <2>1. /\ k # Nil
        /\ OP!deallocate(removeOrderPool(pool, k), k)
        /\ DropFromQueues(k)
    BY <1>5 DEF FillWholly
  <2>2. k \in Slot /\ pool[k] \in Order /\ pool[k].price \in PriceIdx
    BY <2>1, AtLevel
  <2>3. /\ \A j \in Slot \ {k} : pool'[j] \in Order <=> pool[j] \in Order
        /\ \A j \in Slot \ {k} : pool[j] \in Order => SameTerms(pool'[j], pool[j])
    <3> HIDE DEF k
    <3> QED
      BY <2>1, <2>2, <1>1, SlotFreed
  <2>4. i # k => SharesIn(pool', i) = SharesIn(pool, i)
    BY <2>3 DEF SharesIn, SameTerms
  <2> QED
    BY <2>1, <2>4, <1>3
<1>6. CASE LeaveLevel
  <2>1. pool' = pool
    BY <1>6 DEF LeaveLevel, poolVars
  <2> QED
    BY <2>1, <1>3 DEF SharesIn
<1> QED
  BY <1>2, <1>4, <1>5, <1>6

-----------------------------------------------------------------------------
\* Whatever the sequence of calls, the invariant holds in every state: between
\* calls, in the middle of one, and after an exception.
THEOREM BookInvariant == Spec => []BookInv
BY BookInvInit, BookInvStep, PTL DEF Spec

\* Every variable of the book keeps its type: a slot of the pool is never read
\* as the other member of its union.
THEOREM BookTyped == Spec => []TypeOK
<1>1. BookInv => TypeOK
  BY DEF BookInv
<1> QED
  BY <1>1, BookInvariant, PTL

\* Each price level is a FIFO queue of exactly the orders at its price, for
\* every number of orders and every interleaving of adds, cancels, modifies
\* and fills.
THEOREM LevelsAreQueues == Spec => []QueueInv
<1>1. BookInv => QueueInv
  BY DEF BookInv
<1> QED
  BY <1>1, BookInvariant, PTL

\* The id map and the pool never disagree.
THEOREM IdsLeadToOrders == Spec => []IndexInv
<1>1. BookInv => IndexInv
  BY DEF BookInv
<1> QED
  BY <1>1, BookInvariant, PTL

\* The book as a client of the pool never leaks a slot nor frees one twice.
THEOREM BookKeepsFreeList == Spec => []FreeListInv
<1>1. BookInv => FreeListInv
  BY DEF BookInv
<1> QED
  BY <1>1, BookInvariant, PTL

\* The cursors of the matching loops always stand on the best level and its
\* oldest order.
THEOREM CursorsSurvive == Spec => []CursorInv
<1>1. BookInv => CursorInv
  BY DEF BookInv
<1> QED
  BY <1>1, BookInvariant, PTL

\* No sequence of calls leaves a bid at or above an ask.
THEOREM BookNeverCrossed == Spec => []NotCrossed
<1>1. BookInv => NotCrossed
  BY DEF BookInv
<1> QED
  BY <1>1, BookInvariant, PTL

\* Price-time priority, for every book: whoever trades is the oldest order at
\* the best price, and the incoming order accepts that price.
THEOREM TradesByPriority == Spec => PriceTimePriority
<1>1. BookInv /\ [Next]_vars => [pc = "order" =>
              \A i \in Slot : SharesIn(pool', i) < SharesIn(pool, i) =>
                /\ pool[i].side = RestingSide
                /\ Crosses(pool[i].price)
                /\ \A j \in Slot \ {i} :
                     pool[j] \in Order /\ pool[j].side = RestingSide => Outranks(i, j)]_vars
  <2> SUFFICES ASSUME BookInv, Next, pc = "order",
                      NEW i \in Slot, SharesIn(pool', i) < SharesIn(pool, i)
               PROVE  /\ pool[i].side = RestingSide
                      /\ Crosses(pool[i].price)
                      /\ \A j \in Slot \ {i} :
                           pool[j] \in Order /\ pool[j].side = RestingSide => Outranks(i, j)
    OBVIOUS
  <2>1. currIdx # Nil /\ i = currIdx
    BY OnlyTheHeadTrades
  <2> QED
    BY <2>1, HeadOutranks
<1> QED
  BY <1>1, BookInvariant, PTL DEF Spec, PriceTimePriority

\* A modify that has cancelled an order always finds a slot to put it back,
\* however many resting orders it trades with in between.
THEOREM ModifyFindsASlot == Spec => []ModifyKeepsASlot
<1>1. Init => ModifyKeepsASlot
  BY DEF Init, ModifyKeepsASlot
<1>2. BookInv /\ ModifyKeepsASlot /\ [Next]_vars => ModifyKeepsASlot'
  <2> SUFFICES ASSUME BookInv, ModifyKeepsASlot, [Next]_vars,
                      pc' \in {"level", "order"}, call'.op = "modify"
               PROVE  head_free_index' # Nil
    BY NilIsNoSlot, SMTT(30) DEF ModifyKeepsASlot, OP!Exhausted
  <2>1. ASSUME NEW id \in Id, NEW shares \in Quantity, NEW price \in Price,
               ModifyByReplace(id, shares, price)
        PROVE  head_free_index' # Nil
    BY <2>1 DEF ModifyByReplace, Cancel, OP!deallocate
  <2>2. CASE FillWholly
    BY <2>2 DEF FillWholly, OP!deallocate
  <2>3. CASE UNCHANGED head_free_index /\ call' = call /\ pc \in {"level", "order"}
    BY <2>3, NilIsNoSlot DEF ModifyKeepsASlot, OP!Exhausted
  <2>4. CASE Invoke
    <3>1. pc = "idle"
      BY <2>4 DEF Invoke, AddLimitOrder, MarketOrder, ModifyToZero, CancelLimitOrder,
         ModifyInPlace, ModifyByReplace, Reset
    <3>2. /\ \A id \in Id : ~CancelLimitOrder(id)
          /\ \A id \in Id, shares \in Quantity : ~ModifyToZero(id, shares)
          /\ \A id \in Id, shares \in Quantity, price \in Price :
               ~ModifyInPlace(id, shares, price)
          /\ ~Reset
      BY <3>1 DEF CancelLimitOrder, ModifyToZero, ModifyInPlace, Reset
    <3>3. /\ \A id \in Id, side \in Side, shares \in Quantity, price \in Price :
               ~AddLimitOrder(id, side, shares, price)
          /\ \A side \in Side, shares \in Quantity : ~MarketOrder(side, shares)
      BY DEF AddLimitOrder, MarketOrder, Enter
    <3>4. \/ \E id \in Id, side \in Side, shares \in Quantity, price \in Price :
               AddLimitOrder(id, side, shares, price)
          \/ \E side \in Side, shares \in Quantity : MarketOrder(side, shares)
          \/ \E id \in Id : CancelLimitOrder(id)
          \/ \E id \in Id, shares \in Quantity : ModifyToZero(id, shares)
          \/ \E id \in Id, shares \in Quantity, price \in Price :
               ModifyInPlace(id, shares, price)
          \/ \E id \in Id, shares \in Quantity, price \in Price :
               ModifyByReplace(id, shares, price)
          \/ Reset
      BY <2>4 DEF Invoke
    <3> QED
      BY <3>1, <3>2, <3>3, <3>4, <2>1, SMTT(30)
  <2>5. CASE Run
    BY <2>2, <2>3, <2>5 DEF Run, EnterLevel, FillPartly, LeaveLevel, Finish, Rest, Return,
       ThrowExhausted, ThrowOutOfRange, ToRest, poolVars
  <2>6. CASE UNCHANGED vars
    BY <2>3, <2>6 DEF vars
  <2> QED
    BY <2>4, <2>5, <2>6 DEF Next
<1> QED
  BY <1>1, <1>2, BookInvariant, PTL DEF Spec

\* The volume a level reports is what its orders have left, however they were
\* filled, resized, cancelled or joined by others: in particular fillVolume
\* never takes more from a level than is there.
THEOREM VolumesAreSums == Spec => []VolumeInv
<1>1. Init => VolumeInv
  <2>1. Init => \A s \in Side, p \in PriceIdx : VolumeAt(s, p)
    BY DEF Init, VolumeAt
  <2> QED
    BY <2>1, VolumeParts
<1> QED
  BY <1>1, VolumeStep, BookInvariant, PTL DEF Spec

-----------------------------------------------------------------------------
LEMMA FiniteLevels == ASSUME NEW m PROVE IsFiniteSet(Active(m))
<1>1. 0 \in Int /\ MAX_PRICE - 1 \in Int
  BY BookAssumption
<1>2. IsFiniteSet(0 .. MAX_PRICE - 1)
  BY <1>1, FS_Interval
<1>3. IsFiniteSet(PriceIdx)
  BY <1>2 DEF PriceIdx
<1>4. Active(m) \subseteq PriceIdx
  BY DEF Active
<1> QED
  BY <1>3, <1>4, FS_Subset

LEMMA TurnsCounted ==
  /\ IsFiniteSet(OP!Live) /\ Cardinality(OP!Live) \in Nat
  /\ \A s \in Side : /\ IsFiniteSet(Active(levels[s]))
                     /\ Cardinality(Active(levels[s])) \in Nat
<1>1. OP!Live \in SUBSET Slot
  BY NilIsNoSlot DEF OP!Live
<1>2. IsFiniteSet(OP!Live)
  BY <1>1, FiniteQueue
<1> QED
  BY <1>2, FiniteLevels, FS_CardinalityType

\* Entering a level and filling an order in part change no count.
LEMMA SameCounts ==
  ASSUME BookInv, EnterLevel \/ FillPartly
  PROVE  OP!Live' = OP!Live /\ Active(levels[RestingSide])' = Active(levels[RestingSide])
<1>1. CASE EnterLevel
  BY <1>1 DEF EnterLevel, poolVars, OP!Live, RestingSide
<1>2. CASE FillPartly
  <2>1. /\ pc = "order" /\ currIdx # Nil /\ remainingShares > 0
        /\ pool[currIdx].shares > remainingShares
        /\ pool' = [pool EXCEPT ![currIdx].shares = @ - remainingShares]
        /\ levels' = [levels EXCEPT ![RestingSide][limitIt] = fillVolume(@, remainingShares)]
        /\ call' = call
    BY <1>2 DEF FillPartly
  <2>2. /\ RestingSide \in Side
        /\ limitIt \in PriceIdx
        /\ levels[RestingSide][limitIt] \in Level
        /\ currIdx \in Slot
        /\ pool[currIdx] \in Order
    BY <2>1, AtLevel
  <2>3. TypeOK
    BY DEF BookInv
  <2>4. fillVolume(levels[RestingSide][limitIt], remainingShares) \in Level
    <3>1. remainingShares \in Nat
      BY <2>3 DEF TypeOK
    <3> QED
      BY <2>2, <3>1 DEF fillVolume, Level
  <2>5. pool'[currIdx] \in Order /\ \A j \in Slot \ {currIdx} : pool'[j] = pool[j]
    BY <2>1, <2>2, <2>3, SMTT(30) DEF TypeOK, Order
  <2>6. OP!Live' = OP!Live
    BY <2>2, <2>5, NilIsNoSlot DEF OP!Live
  <2>7. \A p \in PriceIdx : levels'[RestingSide][p] = NoLimit <=> levels[RestingSide][p] = NoLimit
    BY <2>1, <2>2, <2>3, <2>4, BookAssumption DEF TypeOK
  <2>8. Active(levels'[RestingSide]) = Active(levels[RestingSide])
    BY <2>7 DEF Active
  <2> QED
    BY <2>1, <2>6, <2>8 DEF RestingSide
<1> QED
  BY <1>1, <1>2

\* An order eaten up is one live slot less; its level stays for now.
LEMMA OneOrderLess ==
  ASSUME BookInv, FillWholly
  PROVE  /\ Cardinality(OP!Live') = Cardinality(OP!Live) - 1
         /\ Active(levels[RestingSide])' = Active(levels[RestingSide])
<1>1. /\ pc = "order" /\ currIdx # Nil
      /\ levels' = [levels EXCEPT ![RestingSide][limitIt] =
                      removeOrderLimit(@, pool, currIdx, pool[currIdx].shares)]
      /\ OP!deallocate(removeOrderPool(pool, currIdx), currIdx)
      /\ DropFromQueues(currIdx)
      /\ call' = call
  BY DEF FillWholly
<1>2. TypeOK /\ FreeListInv /\ QueueInv
  BY DEF BookInv
<1>3. /\ RestingSide \in Side
      /\ limitIt \in PriceIdx
      /\ levels[RestingSide][limitIt] # NoLimit
      /\ currIdx \in Slot
      /\ pool[currIdx] \in Order
      /\ pool[currIdx].side = RestingSide
      /\ pool[currIdx].price = limitIt
  BY <1>1, AtLevel
<1>4. /\ pool'[currIdx] \in OP!FreeNode
      /\ \A j \in Slot \ {currIdx} : pool'[j] \in Order <=> pool[j] \in Order
  BY <1>1, <1>2, <1>3, SlotFreed
<1>5. OP!Live' = OP!Live \ {currIdx} /\ currIdx \in OP!Live
  BY <1>3, <1>4, OrderIsNoFreeNode, NilIsNoSlot DEF OP!Live
<1>6. Cardinality(OP!Live') = Cardinality(OP!Live) - 1
  BY <1>5, TurnsCounted, FS_RemoveElement
<1>7. LevelWithout(currIdx, RestingSide, limitIt) \in Level
  BY <1>1, <1>2, <1>3, QueuesWithout
<1>8. removeOrderLimit(levels[RestingSide][limitIt], pool, currIdx, pool[currIdx].shares) \in Level
  BY <1>3, <1>7 DEF LevelWithout
<1>9. \A p \in PriceIdx : levels'[RestingSide][p] = NoLimit <=> levels[RestingSide][p] = NoLimit
  BY <1>1, <1>2, <1>3, <1>8, BookAssumption DEF TypeOK
<1>10. Active(levels'[RestingSide]) = Active(levels[RestingSide])
  BY <1>9 DEF Active
<1> QED
  BY <1>1, <1>6, <1>10 DEF RestingSide

\* A level left for the next one is gone; it stays only if the shares ran out.
LEMMA OneLevelLess ==
  ASSUME BookInv, LeaveLevel
  PROVE  /\ OP!Live' = OP!Live
         /\ Cardinality(Active(levels[RestingSide])') <= Cardinality(Active(levels[RestingSide]))
         /\ remainingShares > 0 =>
              Cardinality(Active(levels[RestingSide])') = Cardinality(Active(levels[RestingSide])) - 1
<1> DEFINE E == EraseIfEmpty(levels[RestingSide][limitIt])
           A == Active(levels[RestingSide])
           B == Active(levels'[RestingSide])
<1>1. /\ pc = "order"
      /\ currIdx = Nil \/ remainingShares = 0
      /\ levels' = [levels EXCEPT ![RestingSide][limitIt] = E]
      /\ UNCHANGED <<pool, call, remainingShares>>
  BY DEF LeaveLevel, poolVars
<1>2. TypeOK /\ QueueInv
  BY DEF BookInv
<1>3. /\ RestingSide \in Side
      /\ limitIt \in PriceIdx
      /\ levels[RestingSide][limitIt] \in Level
      /\ levels[RestingSide][limitIt] # NoLimit
      /\ currIdx = Nil <=> OrdersAt(RestingSide, limitIt) = {}
  BY <1>1, AtLevel
<1>4. OrdersAt(RestingSide, limitIt) = {} => levels[RestingSide][limitIt].size = 0
  <2>1. Ends(pool, ahead, levels[RestingSide][limitIt], OrdersAt(RestingSide, limitIt))
    BY <1>2, <1>3 DEF QueueInv, Queue
  <2> QED
    BY <2>1, FS_EmptySet DEF Ends
<1>5. E = NoLimit \/ E = levels[RestingSide][limitIt]
  BY DEF EraseIfEmpty
<1>6. remainingShares > 0 => E = NoLimit
  BY <1>1, <1>3, <1>4 DEF EraseIfEmpty
<1>7. \A p \in PriceIdx :
        levels'[RestingSide][p] = IF p = limitIt THEN E ELSE levels[RestingSide][p]
  <2> HIDE DEF E
  <2> QED
    BY <1>1, <1>2, <1>3 DEF TypeOK
<1>8. limitIt \in A
  BY <1>3 DEF Active
<1> HIDE DEF E
<1>9. B = A \/ B = A \ {limitIt}
  BY <1>5, <1>7, <1>3 DEF Active
<1>10. remainingShares > 0 => B = A \ {limitIt}
  BY <1>6, <1>7 DEF Active
<1>11. IsFiniteSet(A) /\ Cardinality(A) \in Nat
  BY <1>3, TurnsCounted
<1>12. Active(levels[RestingSide])' = B
  BY <1>1 DEF RestingSide
<1> HIDE DEF A, B
<1>13. Cardinality(A \ {limitIt}) = Cardinality(A) - 1
  BY <1>8, <1>11, FS_RemoveElement
<1>14. /\ Cardinality(B) <= Cardinality(A)
       /\ remainingShares > 0 => Cardinality(B) = Cardinality(A) - 1
  BY <1>9, <1>10, <1>11, <1>13
<1>15. OP!Live' = OP!Live
  BY <1>1 DEF OP!Live
<1> QED
  BY <1>12, <1>14, <1>15 DEF A

LEMMA EachTurnCounts ==
  ASSUME BookInv, Next, pc \in {"level", "order"}, pc' \in {"level", "order"}
  PROVE  TurnsLeft' < TurnsLeft
<1> DEFINE o == Cardinality(OP!Live)
           a == Cardinality(Active(levels[RestingSide]))
<1>1. remainingShares \in Nat /\ RestingSide \in Side
  BY DEF BookInv, TypeOK, RestingSide, Opposite, Side
<1>2. o \in Nat /\ a \in Nat
  BY <1>1, TurnsCounted
<1>3. /\ TurnsLeft = o + 2 * a
                       + (IF pc = "order" THEN 1
                          ELSE 2 * (IF remainingShares > 0 THEN 1 ELSE 0))
                       + (IF remainingShares > 0 THEN 1 ELSE 0)
      /\ TurnsLeft' = o' + 2 * a'
                       + (IF pc' = "order" THEN 1
                          ELSE 2 * (IF remainingShares' > 0 THEN 1 ELSE 0))
                       + (IF remainingShares' > 0 THEN 1 ELSE 0)
  BY DEF TurnsLeft
<1>4. CASE EnterLevel
  <2>1. o' = o /\ a' = a
    BY <1>4, SameCounts
  <2>2. pc = "level" /\ pc' = "order" /\ remainingShares # 0 /\ remainingShares' = remainingShares
    BY <1>4 DEF EnterLevel, LoopOver
  <2> HIDE DEF o, a
  <2> QED
    BY <1>1, <1>2, <1>3, <2>1, <2>2
<1>5. CASE FillPartly
  <2>1. o' = o /\ a' = a
    BY <1>5, SameCounts
  <2>2. pc = "order" /\ pc' = pc /\ remainingShares > 0 /\ remainingShares' = 0
    BY <1>5 DEF FillPartly
  <2> HIDE DEF o, a
  <2> QED
    BY <1>1, <1>2, <1>3, <2>1, <2>2
<1>6. CASE FillWholly
  <2>1. o' = o - 1 /\ a' = a
    BY <1>6, OneOrderLess
  <2>2. pc = "order" /\ pc' = pc /\ remainingShares > 0
    BY <1>6 DEF FillWholly
  <2> HIDE DEF o, a
  <2> QED
    BY <1>1, <1>2, <1>3, <2>1, <2>2
<1>7. CASE LeaveLevel
  <2>1. o' = o /\ a' <= a /\ (remainingShares > 0 => a' = a - 1)
    BY <1>7, OneLevelLess
  <2>2. pc = "order" /\ pc' = "level" /\ remainingShares' = remainingShares
    BY <1>7 DEF LeaveLevel
  <2>3. a' \in Nat
    <3>1. IsFiniteSet(Active(levels[RestingSide])')
      BY FiniteLevels
    <3> QED
      BY <3>1, FS_CardinalityType
  <2> HIDE DEF o, a
  <2>4. CASE remainingShares > 0
    <3>1. TurnsLeft = o + 2 * a + 2 /\ TurnsLeft' = o' + 2 * a' + 3
      BY <1>2, <1>3, <2>2, <2>3, <2>4, <2>1
    <3> QED
      BY <1>2, <2>1, <2>4, <3>1
  <2>5. CASE remainingShares = 0
    <3>1. TurnsLeft = o + 2 * a + 1 /\ TurnsLeft' = o' + 2 * a'
      BY <1>2, <1>3, <2>2, <2>3, <2>5, <2>1
    <3>2. \A x, y, z \in Nat : y <= x => z + 2 * y < z + 2 * x + 1
      OBVIOUS
    <3>3. o + 2 * a' < o + 2 * a + 1
      BY <1>2, <2>1, <2>3, <3>2
    <3> QED
      BY <2>1, <3>1, <3>3
  <2> QED
    BY <1>1, <2>4, <2>5
<1>8. EnterLevel \/ FillPartly \/ FillWholly \/ LeaveLevel
  BY DEF Next, Invoke, AddLimitOrder, MarketOrder, ModifyToZero, CancelLimitOrder, ModifyInPlace,
     ModifyByReplace, Reset, Run, Finish, Rest, Return, ThrowExhausted, ThrowOutOfRange
<1> QED
  BY <1>4, <1>5, <1>6, <1>7, <1>8

\* The matching loops never go round without getting anywhere: a bound on the
\* turns they still take, counted in orders and levels, falls with each turn.
\* That a call ends then needs no more than that it keeps running.
THEOREM LoopsNeverSpin == Spec => LoopsProgress
<1>1. BookInv /\ [Next]_vars =>
        [(pc \in {"level", "order"}) /\ (pc' \in {"level", "order"}) =>
           TurnsLeft' < TurnsLeft]_vars
  BY EachTurnCounts
<1> QED
  BY <1>1, BookInvariant, PTL DEF Spec, LoopsProgress
-----------------------------------------------------------------------------
(***************************************************************************)
(* Book implements PriceTimeBook.  First, what matching one order after    *)
(* the other computes is what the abstract book computes at once; then,    *)
(* each step of Book is such a step of the matching.                       *)
(***************************************************************************)

LEMMA SameSum ==
  ASSUME NEW f, NEW Q PROVE Abstract!SumFunctionOnSet(f, Q) = SumFunctionOnSet(f, Q)
BY DEF Abstract!SumFunctionOnSet, Abstract!FoldFunctionOnSet, Abstract!MapThenFoldSet,
   SumFunctionOnSet, FoldFunctionOnSet, MapThenFoldSet

LEMMA SameCardinality ==
  ASSUME NEW Q PROVE Abstract!Cardinality(Q) = Cardinality(Q)
BY DEF Abstract!Cardinality, Cardinality

\* An entry is given by its fields.
LEMMA EntryEqual ==
  ASSUME NEW e \in [side : Side, price : Nat, shares : Nat, ahead : SUBSET Id],
         NEW f \in [side : Side, price : Nat, shares : Nat, ahead : SUBSET Id],
         e.side = f.side, e.price = f.price, e.shares = f.shares, e.ahead = f.ahead
  PROVE  e = f
OBVIOUS

\* An order does not outrank itself.
LEMMA OutranksIrreflexive ==
  ASSUME NEW B, WellRanked(B), NEW i \in DOMAIN B PROVE ~Abstract!Outranks(B, i, i)
BY DEF WellRanked, Entry, Abstract!Outranks, Abstract!Before

LEMMA WantedFinite ==
  ASSUME NEW B, WellRanked(B), NEW Q \in SUBSET DOMAIN B PROVE IsFiniteSet(Q)
BY FS_Subset DEF WellRanked

-----------------------------------------------------------------------------
\* What a matching in progress says about one order: how much of it is taken,
\* and what an order that rests, or rests no longer, looks like.
LEMMA TakenKept ==
  ASSUME NEW B, WellRanked(B), NEW A, NEW R, NEW remaining, NEW S,
         MatchedSoFar(B, A, R, remaining, S), NEW i \in DOMAIN R
  PROVE  /\ i \in DOMAIN B
         /\ R[i].shares \in Nat \ {0}
         /\ R[i].shares <= B[i].shares
         /\ B[i].shares \in Nat
         /\ Taken(B, R)[i] = B[i].shares - R[i].shares
         /\ R[i].side = B[i].side
         /\ R[i].price = B[i].price
         /\ R[i].ahead = B[i].ahead \cap DOMAIN R
<1>1. /\ DOMAIN R \subseteq DOMAIN B
      /\ R = [j \in DOMAIN R |-> [B[j] EXCEPT !.shares = R[j].shares, !.ahead = @ \cap DOMAIN R]]
      /\ \A j \in DOMAIN R : R[j].shares \in 1 .. B[j].shares
  BY Zenon DEF MatchedSoFar
<1>2. i \in DOMAIN B /\ B[i] \in Entry
  BY <1>1 DEF WellRanked
<1>3. R[i].shares \in 1 .. B[i].shares /\ B[i].shares \in Nat
  BY <1>1, <1>2 DEF Entry
<1>4. R[i] = [B[i] EXCEPT !.shares = R[i].shares, !.ahead = @ \cap DOMAIN R]
  BY <1>1, Zenon
<1>5. /\ R[i].side = B[i].side
      /\ R[i].price = B[i].price
      /\ R[i].ahead = B[i].ahead \cap DOMAIN R
  BY <1>2, <1>4 DEF Entry
<1> QED
  BY <1>2, <1>3, <1>5 DEF Taken

LEMMA TakenGone ==
  ASSUME NEW B, WellRanked(B), NEW R, NEW i \in DOMAIN B, i \notin DOMAIN R
  PROVE  B[i].shares \in Nat \ {0} /\ Taken(B, R)[i] = B[i].shares
BY DEF WellRanked, Entry, Taken

LEMMA TakenIs ==
  ASSUME NEW B, WellRanked(B), NEW A, NEW R, NEW remaining, NEW S,
         MatchedSoFar(B, A, R, remaining, S), NEW i \in DOMAIN B
  PROVE  /\ B[i].shares \in Nat \ {0}
         /\ Taken(B, R)[i] \in 0 .. B[i].shares
         /\ i \in DOMAIN R <=> Taken(B, R)[i] < B[i].shares
<1>1. B[i].shares \in Nat \ {0}
  BY DEF WellRanked, Entry
<1>2. CASE i \in DOMAIN R
  BY <1>1, <1>2, TakenKept
<1>3. CASE i \notin DOMAIN R
  BY <1>1, <1>3, TakenGone
<1> QED
  BY <1>1, <1>2, <1>3

\* Orders that left the book have taken part with all they had.
LEMMA GoneTotal ==
  ASSUME NEW B, WellRanked(B), NEW A \in SUBSET DOMAIN B, NEW R,
         NEW remaining, NEW S, MatchedSoFar(B, A, R, remaining, S),
         NEW Q \in SUBSET (DOMAIN B \ DOMAIN R)
  PROVE  /\ Abstract!Total(B, Q) = SumFunctionOnSet(Taken(B, R), Q)
         /\ Abstract!Total(B, Q) \in Nat
<1> DEFINE f == [i \in DOMAIN B |-> B[i].shares]
           g == Taken(B, R)
<1>1. IsFiniteSet(Q) /\ Q \in SUBSET Q
  BY WantedFinite
<1>2. \A i \in Q : f[i] = g[i] /\ g[i] \in Nat
  BY TakenIs
<1> HIDE DEF f, g
<1>3. SumFunctionOnSet(f, Q) = SumFunctionOnSet(g, Q) /\ SumFunctionOnSet(g, Q) \in Nat
  BY <1>1, <1>2, SumAgree, SumIsNat
<1> QED
  BY <1>3, SameSum DEF Abstract!Total, f, g

\* The sum of what was taken, over those it was taken from only.
LEMMA TakenFrom ==
  ASSUME NEW B, WellRanked(B), NEW A \in SUBSET DOMAIN B, NEW R,
         NEW remaining, NEW S, MatchedSoFar(B, A, R, remaining, S),
         NEW Q \in SUBSET A
  PROVE  /\ SumFunctionOnSet(Taken(B, R), A) \in Nat
         /\ SumFunctionOnSet(Taken(B, R), Q) \in Nat
         /\ SumFunctionOnSet(Taken(B, R), Q) <= SumFunctionOnSet(Taken(B, R), A)
         /\ (\A i \in A \ Q : Taken(B, R)[i] = 0) =>
              SumFunctionOnSet(Taken(B, R), A) = SumFunctionOnSet(Taken(B, R), Q)
<1> DEFINE g == Taken(B, R)
<1>1. IsFiniteSet(A) /\ IsFiniteSet(Q)
  BY WantedFinite
<1>2. \A i \in A : g[i] \in Nat /\ g[i] <= g[i]
  <2>1. \A i \in DOMAIN B : B[i].shares \in Nat \ {0} /\ g[i] \in 0 .. B[i].shares
    BY TakenIs
  <2> HIDE DEF g
  <2> QED
    BY <2>1
<1> HIDE DEF g
<1>3. SumFunctionOnSet(g, A) \in Nat /\ SumFunctionOnSet(g, Q) \in Nat
  BY <1>1, <1>2, SumIsNat
<1>4. SumFunctionOnSet(g, Q) <= SumFunctionOnSet(g, A)
  BY <1>1, <1>2, SumAtMost
<1>5. ASSUME \A i \in A \ Q : g[i] = 0
      PROVE  SumFunctionOnSet(g, Q) = SumFunctionOnSet(g, A)
  BY <1>1, <1>2, <1>5, SumAgree
<1> QED
  BY <1>3, <1>4, <1>5 DEF g

-----------------------------------------------------------------------------
\* When no more shares are to be had, each order has given up what it gives up
\* to the whole match.
LEMMA GivenIsTaken ==
  ASSUME NEW B, WellRanked(B), NEW A \in SUBSET DOMAIN B,
         \A i, j \in A : B[i].side = B[j].side,
         NEW R, NEW remaining \in Nat, NEW S, MatchedSoFar(B, A, R, remaining, S),
         remaining > 0 => A \cap DOMAIN R = {},
         NEW i \in A
  PROVE  Abstract!Given(B, A, S, i) = Taken(B, R)[i]
<1> DEFINE first == {j \in A : Abstract!Outranks(B, j, i)}
           g == Taken(B, R)
           unserved == S - Abstract!Total(B, first)
<1>1. Abstract!Given(B, A, S, i) = IF unserved <= 0 THEN 0
        ELSE IF unserved < B[i].shares THEN unserved ELSE B[i].shares
  BY DEF Abstract!Given
<1>2. /\ first \in SUBSET A /\ first \in SUBSET DOMAIN B
      /\ first \cup {i} \in SUBSET A
      /\ i \notin first
  BY OutranksIrreflexive
<1>3. /\ \A j \in A : g[j] \in Nat /\ g[j] <= B[j].shares
      /\ B[i].shares \in Nat /\ B[i].shares > 0
      /\ i \notin DOMAIN R => g[i] = B[i].shares
      /\ i \in DOMAIN R => g[i] < B[i].shares
  <2>1. \A j \in DOMAIN B : /\ B[j].shares \in Nat \ {0} /\ g[j] \in 0 .. B[j].shares
                            /\ j \in DOMAIN R <=> g[j] < B[j].shares
    BY TakenIs
  <2> HIDE DEF g
  <2> QED
    BY <2>1
<1>4. /\ S = remaining + SumFunctionOnSet(g, A)
      /\ \A j \in DOMAIN B : g[j] > 0 =>
           j \in A /\ \A k \in A : Abstract!Outranks(B, k, j) => k \notin DOMAIN R
      /\ \A j \in DOMAIN R : g[j] > 0 => remaining = 0
  BY Zenon DEF MatchedSoFar
<1>5. /\ SumFunctionOnSet(g, A) \in Nat
      /\ SumFunctionOnSet(g, first) \in Nat
      /\ SumFunctionOnSet(g, first) <= SumFunctionOnSet(g, A)
      /\ (\A j \in A \ first : g[j] = 0) =>
           SumFunctionOnSet(g, A) = SumFunctionOnSet(g, first)
  BY <1>2, TakenFrom
<1>6. /\ SumFunctionOnSet(g, first \cup {i}) <= SumFunctionOnSet(g, A)
      /\ (\A j \in A \ (first \cup {i}) : g[j] = 0) =>
           SumFunctionOnSet(g, A) = SumFunctionOnSet(g, first \cup {i})
  <2> DEFINE Q == first \cup {i}
  <2>1. Q \in SUBSET A
    BY <1>2
  <2> HIDE DEF Q, first
  <2>2. /\ SumFunctionOnSet(g, Q) <= SumFunctionOnSet(g, A)
        /\ (\A j \in A \ Q : g[j] = 0) =>
              SumFunctionOnSet(g, A) = SumFunctionOnSet(g, Q)
    BY <2>1, TakenFrom
  <2> QED
    BY <2>2 DEF Q
<1>7. SumFunctionOnSet(g, first \cup {i}) = g[i] + SumFunctionOnSet(g, first)
  <2>1. IsFiniteSet(first) /\ \A j \in first : g[j] \in Nat
    BY <1>2, <1>3, WantedFinite
  <2> HIDE DEF g, first
  <2> QED
    BY <2>1, <1>2, <1>3, SumAdd
<1>8. ASSUME NEW j \in A \ first, j # i, i \in DOMAIN R PROVE g[j] = 0
  <2>1. Abstract!Outranks(B, i, j)
    BY <1>8 DEF WellRanked
  <2>2. ~(g[j] > 0)
    BY <2>1, <1>4, <1>8
  <2>3. g[j] \in Nat
    BY <1>3
  <2> QED
    BY <2>2, <2>3
<1>9. first \cap DOMAIN R = {} => Abstract!Total(B, first) = SumFunctionOnSet(g, first)
  <2>1. first \cap DOMAIN R = {} => first \in SUBSET (DOMAIN B \ DOMAIN R)
    BY <1>2
  <2> HIDE DEF first
  <2> QED
    BY <2>1, GoneTotal
<1>10. g[i] > 0 => first \cap DOMAIN R = {}
  BY <1>4
<1>11. Abstract!Total(B, first) \in Nat /\ SumFunctionOnSet(g, first) <= Abstract!Total(B, first)
  <2> DEFINE f == [j \in DOMAIN B |-> B[j].shares]
  <2>1. IsFiniteSet(first) /\ first \in SUBSET first
    BY <1>2, WantedFinite
  <2>2. \A j \in first : g[j] \in Nat /\ g[j] <= f[j]
    BY <1>2, <1>3
  <2>3. \A j \in first : f[j] \in Nat
    BY <1>2, TakenIs
  <2> HIDE DEF f, g, first
  <2>4. SumFunctionOnSet(f, first) \in Nat
        /\ SumFunctionOnSet(g, first) <= SumFunctionOnSet(f, first)
    BY <2>1, <2>2, <2>3, SumAtMost, SumIsNat
  <2> QED
    BY <2>4, SameSum DEF Abstract!Total, f
<1> SUFFICES Abstract!Given(B, A, S, i) = g[i]
  OBVIOUS
<1> HIDE DEF g, first
<1>12. CASE i \notin DOMAIN R
  <2>1. Abstract!Total(B, first) = SumFunctionOnSet(g, first)
    BY <1>12, <1>3, <1>9, <1>10
  <2>2. B[i].shares + SumFunctionOnSet(g, first) <= SumFunctionOnSet(g, A)
    BY <1>12, <1>3, <1>6, <1>7
  <2>3. unserved \in Int /\ unserved >= B[i].shares
    BY <2>1, <2>2, <1>3, <1>4, <1>5, <1>11
  <2> HIDE DEF unserved
  <2> QED
    BY <2>3, <1>1, <1>3, <1>12
<1>13. CASE i \in DOMAIN R /\ g[i] > 0
  <2>1. Abstract!Total(B, first) = SumFunctionOnSet(g, first) /\ remaining = 0
    BY <1>13, <1>4, <1>9, <1>10
  <2>2. SumFunctionOnSet(g, A) = g[i] + SumFunctionOnSet(g, first)
    BY <1>6, <1>7, <1>8, <1>13
  <2>3. g[i] \in Nat
    BY <1>3
  <2>4. unserved = g[i]
    BY <2>1, <2>2, <2>3, <1>4, <1>5
  <2> HIDE DEF unserved
  <2> QED
    BY <2>3, <2>4, <1>1, <1>3, <1>13
<1>14. CASE i \in DOMAIN R /\ ~(g[i] > 0)
  <2>1. g[i] = 0 /\ remaining = 0
    BY <1>3, <1>14
  <2>2. SumFunctionOnSet(g, A) = SumFunctionOnSet(g, first)
    BY <2>1, <1>5, <1>8, <1>14
  <2>3. unserved <= 0
    BY <2>1, <2>2, <1>4, <1>5, <1>11
  <2> HIDE DEF unserved
  <2> QED
    BY <2>1, <2>3, <1>1
<1> QED
  BY <1>12, <1>13, <1>14

\* A matching that is over has taken exactly what the whole match takes, and
\* has left over exactly what the whole match leaves over.
LEMMA MatchedAtTheEnd ==
  ASSUME NEW B, WellRanked(B), NEW A \in SUBSET DOMAIN B,
         \A i, j \in A : B[i].side = B[j].side,
         NEW R, NEW remaining \in Nat, NEW S, MatchedSoFar(B, A, R, remaining, S),
         remaining > 0 => A \cap DOMAIN R = {}
  PROVE  /\ Abstract!Matched(B, A, S) = R
         /\ Abstract!Total(B, A) \in Nat
         /\ remaining = 0 => S - Abstract!Total(B, A) <= 0
         /\ remaining > 0 => S - Abstract!Total(B, A) = remaining
<1> DEFINE g == Taken(B, R)
           T == [i \in DOMAIN B |->
                   IF i \in A THEN [B[i] EXCEPT !.shares = @ - Abstract!Given(B, A, S, i)]
                   ELSE B[i]]
           Q == {i \in DOMAIN B : T[i].shares > 0}
           Loose == [side : Side, price : Nat, shares : Nat, ahead : SUBSET Id]
<1>1. \A i \in A : Abstract!Given(B, A, S, i) = g[i]
  BY GivenIsTaken
<1>2. /\ DOMAIN R \subseteq DOMAIN B
      /\ R = [i \in DOMAIN R |-> [B[i] EXCEPT !.shares = R[i].shares, !.ahead = @ \cap DOMAIN R]]
      /\ S = remaining + SumFunctionOnSet(g, A)
      /\ \A j \in DOMAIN B : g[j] > 0 => j \in A
  BY Zenon DEF MatchedSoFar
<1>3. /\ \A i \in DOMAIN B : B[i].shares \in Nat \ {0} /\ g[i] \in 0 .. B[i].shares
      /\ \A i \in DOMAIN R : R[i].shares \in Nat \ {0} /\ g[i] = B[i].shares - R[i].shares
      /\ \A i \in DOMAIN B \ DOMAIN R : g[i] = B[i].shares
  <2>1. \A i \in DOMAIN B : B[i].shares \in Nat \ {0} /\ g[i] \in 0 .. B[i].shares
    BY TakenIs
  <2>2. \A i \in DOMAIN R : R[i].shares \in Nat \ {0} /\ g[i] = B[i].shares - R[i].shares
    BY TakenKept
  <2>3. \A i \in DOMAIN B \ DOMAIN R : g[i] = B[i].shares
    BY TakenGone
  <2> QED
    BY <2>1, <2>2, <2>3
<1>4. \A i \in DOMAIN B : B[i] \in Loose /\ B[i].ahead \subseteq DOMAIN B
  BY DEF WellRanked, Entry
<1> HIDE DEF g
<1>5. ASSUME NEW i \in DOMAIN B
      PROVE  /\ T[i].side = B[i].side /\ T[i].price = B[i].price /\ T[i].ahead = B[i].ahead
             /\ T[i].shares = B[i].shares - g[i]
             /\ T[i] \in Loose
  <2>1. CASE i \in A
    <3>1. T[i] = [B[i] EXCEPT !.shares = @ - g[i]]
      BY <2>1, <1>1
    <3> HIDE DEF T
    <3> QED
      BY <3>1, <1>3, <1>4
  <2>2. CASE i \notin A
    <3>1. T[i] = B[i]
      BY <2>2
    <3>2. g[i] = 0
      <4>1. ~(g[i] > 0)
        BY <2>2, <1>2, Zenon
      <4>2. g[i] \in Nat
        BY <1>3
      <4> QED
        BY <4>1, <4>2
    <3> HIDE DEF T
    <3> QED
      BY <3>1, <3>2, <1>3, <1>4
  <2> QED
    BY <2>1, <2>2
<1>6. Q = DOMAIN R
  <2>1. \A i \in DOMAIN B : T[i].shares > 0 <=> i \in DOMAIN R
    <3> HIDE DEF T
    <3> QED
      BY <1>3, <1>5
  <2> QED
    BY <2>1, <1>2
<1>7. Abstract!Matched(B, A, S) = [i \in Q |-> [T[i] EXCEPT !.ahead = @ \cap Q]]
  BY DEF Abstract!Matched, Abstract!Only
<1> HIDE DEF T, Q
<1>8. ASSUME NEW i \in DOMAIN R PROVE R[i] = [T[i] EXCEPT !.ahead = @ \cap DOMAIN R]
  <2> DEFINE e == [B[i] EXCEPT !.shares = R[i].shares, !.ahead = @ \cap DOMAIN R]
             f == [T[i] EXCEPT !.ahead = @ \cap DOMAIN R]
  <2>1. R[i] = e
    BY <1>2, Zenon
  <2>2. i \in DOMAIN B /\ B[i] \in Loose /\ T[i] \in Loose /\ R[i].shares \in Nat
    BY <1>2, <1>3, <1>4, <1>5
  <2>3. e \in Loose /\ e.side = B[i].side /\ e.price = B[i].price
        /\ e.shares = R[i].shares /\ e.ahead = B[i].ahead \cap DOMAIN R
    BY <2>2
  <2>4. f \in Loose /\ f.side = T[i].side /\ f.price = T[i].price
        /\ f.shares = T[i].shares /\ f.ahead = T[i].ahead \cap DOMAIN R
    BY <2>2
  <2>5. /\ T[i].side = B[i].side /\ T[i].price = B[i].price
        /\ T[i].ahead = B[i].ahead /\ T[i].shares = R[i].shares
    BY <2>2, <1>3, <1>5
  <2> HIDE DEF e, f
  <2>6. e = f
    BY <2>3, <2>4, <2>5, EntryEqual
  <2> QED
    BY <2>1, <2>6 DEF f
<1>9. R = [i \in DOMAIN R |-> R[i]]
  BY <1>2
<1>10. Abstract!Matched(B, A, S) = R
  BY <1>6, <1>7, <1>8, <1>9
<1> DEFINE total == Abstract!Total(B, A)
           sum == SumFunctionOnSet(g, A)
<1>11. total \in Nat /\ sum \in Nat /\ sum <= total
  <2> DEFINE f == [j \in DOMAIN B |-> B[j].shares]
  <2>1. IsFiniteSet(A) /\ A \in SUBSET A
    BY WantedFinite
  <2>2. \A j \in A : g[j] \in Nat /\ g[j] <= f[j]
    BY <1>3
  <2>3. \A j \in A : f[j] \in Nat
    BY <1>3
  <2> HIDE DEF f
  <2>4. /\ SumFunctionOnSet(f, A) \in Nat /\ SumFunctionOnSet(g, A) \in Nat
        /\ SumFunctionOnSet(g, A) <= SumFunctionOnSet(f, A)
    BY <2>1, <2>2, <2>3, SumAtMost, SumIsNat
  <2> QED
    BY <2>4, SameSum DEF Abstract!Total, f
<1>12. remaining > 0 => total = sum
  <2>1. remaining > 0 => A \in SUBSET (DOMAIN B \ DOMAIN R)
    OBVIOUS
  <2> QED
    BY <2>1, GoneTotal DEF g
<1>13. S = remaining + sum
  BY <1>2
<1> HIDE DEF total, sum
<1>14. /\ remaining = 0 => S - total <= 0
       /\ remaining > 0 => S - total = remaining
  BY <1>11, <1>12, <1>13
<1> QED
  BY <1>10, <1>11, <1>14 DEF total

-----------------------------------------------------------------------------
\* A book from which nothing was taken yet.
LEMMA NothingTaken ==
  ASSUME NEW B, WellRanked(B), NEW A \in SUBSET DOMAIN B, NEW S \in Nat
  PROVE  MatchedSoFar(B, A, B, S, S)
<1> DEFINE g == Taken(B, B)
<1>1. /\ B = [i \in DOMAIN B |-> B[i]]
      /\ \A i \in DOMAIN B : B[i] \in Entry /\ B[i].ahead \subseteq DOMAIN B
  BY DEF WellRanked
<1>2. \A i \in DOMAIN B : B[i].shares \in 1 .. B[i].shares /\ g[i] = 0
  BY <1>1 DEF Entry, Taken
<1>3. \A i \in DOMAIN B : B[i] = [B[i] EXCEPT !.shares = B[i].shares, !.ahead = @ \cap DOMAIN B]
  <2> TAKE i \in DOMAIN B
  <2>1. B[i] \in Entry /\ B[i].ahead \cap DOMAIN B = B[i].ahead
    BY <1>1
  <2> QED
    BY <2>1 DEF Entry
<1> HIDE DEF g
<1>4. SumFunctionOnSet(g, A) = 0
  <2>1. IsFiniteSet(A) /\ {} \in SUBSET A
    BY WantedFinite
  <2>2. (\A x \in A : g[x] \in Nat) /\ (\A x \in A \ {} : g[x] = 0)
    BY <1>2
  <2>3. SumFunctionOnSet(g, {}) = SumFunctionOnSet(g, A)
    BY <2>1, <2>2, SumAgree
  <2> QED
    BY <2>3, SumOfNone
<1>5. B = [i \in DOMAIN B |-> [B[i] EXCEPT !.shares = B[i].shares, !.ahead = @ \cap DOMAIN B]]
  BY <1>1, <1>3, Zenon
<1>6. \A i \in DOMAIN B : ~(g[i] > 0)
  BY <1>2
<1>7. S = S + SumFunctionOnSet(g, A)
  BY <1>4
<1> QED
  BY <1>2, <1>5, <1>6, <1>7 DEF MatchedSoFar, g

\* When one order gives up n more shares, the sum grows by n.
LEMMA SumGrows ==
  ASSUME NEW g, NEW h, NEW A, IsFiniteSet(A), NEW i \in A, NEW n \in Nat,
         \A j \in A : g[j] \in Nat,
         \A j \in A \ {i} : h[j] = g[j],
         h[i] = g[i] + n
  PROVE  SumFunctionOnSet(h, A) = SumFunctionOnSet(g, A) + n
<1> DEFINE Q == A \ {i}
<1>1. IsFiniteSet(Q) /\ Q \in SUBSET Q
  BY FS_Subset
<1>2. \A j \in A : h[j] \in Nat
  OBVIOUS
<1>3. SumFunctionOnSet(g, A) = g[i] + SumFunctionOnSet(g, Q)
  BY SumTakeOut
<1>4. SumFunctionOnSet(h, A) = h[i] + SumFunctionOnSet(h, Q)
  BY <1>2, SumTakeOut
<1>5. \A j \in Q : h[j] = g[j] /\ g[j] \in Nat
  OBVIOUS
<1> HIDE DEF Q
<1>6. SumFunctionOnSet(h, Q) = SumFunctionOnSet(g, Q) /\ SumFunctionOnSet(g, Q) \in Nat
  BY <1>1, <1>5, SumAgree, SumIsNat
<1> QED
  BY <1>3, <1>4, <1>6

\* Of those of A that rest, i is the first.
FirstOf(B, A, R, i) ==
  /\ i \in A
  /\ i \in DOMAIN R
  /\ \A j \in A : Abstract!Outranks(B, j, i) => j \notin DOMAIN R

\* T is the book R once i gave up n shares; it is gone if it has none left.
Lessened(R, T, i, n) ==
  /\ T \in [DOMAIN T -> Entry]
  /\ DOMAIN T = IF n = R[i].shares THEN DOMAIN R \ {i} ELSE DOMAIN R
  /\ \A j \in DOMAIN T : /\ T[j].side = R[j].side
                         /\ T[j].price = R[j].price
                         /\ T[j].shares = IF j = i THEN R[j].shares - n ELSE R[j].shares
                         /\ T[j].ahead = R[j].ahead \cap DOMAIN T

\* One more order, with nobody before it any more, gives up n shares.
LEMMA MatchedMore ==
  ASSUME NEW B, WellRanked(B), NEW A \in SUBSET DOMAIN B, NEW R,
         NEW remaining \in Nat, NEW S, MatchedSoFar(B, A, R, remaining, S),
         NEW i, FirstOf(B, A, R, i),
         NEW n \in Nat, 0 < n, n <= remaining, n <= R[i].shares,
         n = remaining \/ n = R[i].shares,
         NEW T, Lessened(R, T, i, n)
  PROVE  MatchedSoFar(B, A, T, remaining - n, S)
<1> USE DEF FirstOf, Lessened
<1> DEFINE g == Taken(B, R)
           h == Taken(B, T)
           left == remaining - n
<1>1. /\ \A j \in DOMAIN B : g[j] > 0 =>
           j \in A /\ \A k \in A : Abstract!Outranks(B, k, j) => k \notin DOMAIN R
      /\ \A j \in DOMAIN R : g[j] > 0 => remaining = 0
      /\ S = remaining + SumFunctionOnSet(g, A)
  BY Zenon DEF MatchedSoFar
<1>2. \A j \in DOMAIN B : B[j] \in Entry
  BY DEF WellRanked
<1>3. \A j \in DOMAIN B : B[j].shares \in Nat \ {0} /\ g[j] \in Nat
  <2>1. \A j \in DOMAIN B : B[j].shares \in Nat \ {0} /\ g[j] \in 0 .. B[j].shares
    BY TakenIs
  <2> HIDE DEF g
  <2> QED
    BY <2>1
<1>4. ASSUME NEW j \in DOMAIN R
      PROVE  /\ j \in DOMAIN B
             /\ R[j].shares \in Nat \ {0}
             /\ R[j].shares <= B[j].shares
             /\ g[j] = B[j].shares - R[j].shares
             /\ R[j].side = B[j].side
             /\ R[j].price = B[j].price
             /\ R[j].ahead = B[j].ahead \cap DOMAIN R
  BY TakenKept
<1>5. DOMAIN T \subseteq DOMAIN R /\ DOMAIN R \ {i} \subseteq DOMAIN T
      /\ (i \in DOMAIN T <=> n # R[i].shares)
  OBVIOUS
<1>6. ASSUME NEW j \in DOMAIN T
      PROVE  /\ T[j].shares \in 1 .. B[j].shares
             /\ T[j] = [B[j] EXCEPT !.shares = T[j].shares, !.ahead = @ \cap DOMAIN T]
  <2>1. j \in DOMAIN R /\ j \in DOMAIN B /\ (j = i => n # R[i].shares)
    BY <1>4, <1>5
  <2>2. T[j].shares \in 1 .. B[j].shares
    BY <2>1, <1>3, <1>4
  <2>3. /\ T[j].side = B[j].side /\ T[j].price = B[j].price
        /\ T[j].ahead = B[j].ahead \cap DOMAIN T
    BY <2>1, <1>4, <1>5
  <2>4. T[j] \in Entry /\ B[j] \in Entry
    BY <2>1, <1>2
  <2> DEFINE e == T[j]
             b == B[j]
  <2> HIDE DEF e, b
  <2>5. ASSUME e \in Entry, b \in Entry, e.side = b.side, e.price = b.price,
               e.ahead = b.ahead \cap DOMAIN T
        PROVE  e = [b EXCEPT !.shares = e.shares, !.ahead = @ \cap DOMAIN T]
    BY <2>5 DEF Entry
  <2> QED
    BY <2>2, <2>3, <2>4, <2>5 DEF e, b
<1>7. h[i] = g[i] + n
  <2>1. h[i] = B[i].shares - (IF i \in DOMAIN T THEN T[i].shares ELSE 0)
    BY DEF Taken
  <2> HIDE DEF g, h
  <2>2. /\ g[i] = B[i].shares - R[i].shares /\ R[i].shares \in Nat
        /\ B[i].shares \in Nat
    BY <1>3, <1>4
  <2>3. CASE n = R[i].shares
    BY <2>1, <2>2, <2>3, <1>5
  <2>4. CASE n # R[i].shares
    <3>1. T[i].shares = R[i].shares - n
      BY <2>4, <1>5
    <3> QED
      BY <2>1, <2>2, <2>4, <3>1, <1>5
  <2> QED
    BY <2>3, <2>4
<1>8. ASSUME NEW j \in DOMAIN B \ {i} PROVE h[j] = g[j]
  <2>1. /\ h[j] = B[j].shares - (IF j \in DOMAIN T THEN T[j].shares ELSE 0)
        /\ g[j] = B[j].shares - (IF j \in DOMAIN R THEN R[j].shares ELSE 0)
    BY DEF Taken
  <2>2. j \in DOMAIN T <=> j \in DOMAIN R
    BY <1>5
  <2>3. j \in DOMAIN T => T[j].shares = R[j].shares
    OBVIOUS
  <2> HIDE DEF g, h
  <2> QED
    BY <2>1, <2>2, <2>3
<1>9. DOMAIN T \subseteq DOMAIN B
  BY <1>4, <1>5
<1>10. T = [j \in DOMAIN T |-> [B[j] EXCEPT !.shares = T[j].shares, !.ahead = @ \cap DOMAIN T]]
  <2>1. T = [j \in DOMAIN T |-> T[j]]
    OBVIOUS
  <2> QED
    BY <2>1, <1>6, Zenon
<1> HIDE DEF g, h
<1>11. ASSUME NEW j \in DOMAIN B, h[j] > 0
       PROVE  j \in A /\ \A k \in A : Abstract!Outranks(B, k, j) => k \notin DOMAIN T
  <2>1. CASE j = i
    BY <2>1, <1>5
  <2>2. CASE j # i
    <3>1. g[j] > 0
      BY <2>2, <1>8, <1>11
    <3>2. j \in A /\ \A k \in A : Abstract!Outranks(B, k, j) => k \notin DOMAIN R
      BY <3>1, <1>1
    <3> QED
      BY <3>2, <1>5
  <2> QED
    BY <2>1, <2>2
<1>12. ASSUME NEW j \in DOMAIN T, h[j] > 0 PROVE left = 0
  <2>1. CASE n = remaining
    BY <2>1
  <2>2. CASE n = R[i].shares
    <3>1. j # i /\ j \in DOMAIN R /\ j \in DOMAIN B
      BY <2>2, <1>5, <1>9
    <3>2. g[j] > 0
      BY <3>1, <1>8, <1>12
    <3>3. remaining = 0
      BY <3>1, <3>2, <1>1
    <3> QED
      BY <3>3
  <2> QED
    BY <2>1, <2>2
<1>13. IsFiniteSet(A)
  BY WantedFinite
<1>14. SumFunctionOnSet(h, A) = SumFunctionOnSet(g, A) + n
  <2>1. \A j \in A : g[j] \in Nat
    BY <1>3
  <2>2. \A j \in A \ {i} : h[j] = g[j]
    BY <1>8
  <2> QED
    BY <2>1, <2>2, <1>7, <1>13, SumGrows
<1>15. SumFunctionOnSet(g, A) \in Nat
  <2>1. A \in SUBSET A
    OBVIOUS
  <2> QED
    BY <2>1, TakenFrom DEF g
<1>16. S = left + SumFunctionOnSet(h, A)
  BY <1>1, <1>14, <1>15
<1> HIDE DEF left
<1>17. MatchedSoFar(B, A, T, left, S)
  BY <1>6, <1>9, <1>10, <1>11, <1>12, <1>16, Zenon DEF MatchedSoFar, h
<1> QED
  BY <1>17 DEF left

-----------------------------------------------------------------------------
\* What rests, read off the pool.
LEMMA RestingIs ==
  /\ DOMAIN Resting = {id \in Id : orderMap[id] # Nil}
  /\ Resting = [id \in DOMAIN Resting |-> Resting[id]]
  /\ \A id \in DOMAIN Resting :
       Resting[id] = [side   |-> pool[orderMap[id]].side,
                      price  |-> pool[orderMap[id]].price,
                      shares |-> pool[orderMap[id]].shares,
                      ahead  |-> {pool[j].id : j \in ahead[orderMap[id]]}]
BY DEF Resting

LEMMA RestingNext ==
  /\ DOMAIN Resting' = {id \in Id : orderMap'[id] # Nil}
  /\ Resting' = [id \in DOMAIN Resting' |-> Resting'[id]]
  /\ \A id \in DOMAIN Resting' :
       Resting'[id] = [side   |-> pool'[orderMap'[id]].side,
                       price  |-> pool'[orderMap'[id]].price,
                       shares |-> pool'[orderMap'[id]].shares,
                       ahead  |-> {pool'[j].id : j \in ahead'[orderMap'[id]]}]
BY DEF Resting

\* The slot of an order that rests, and the orders in front of it there.
LEMMA RestingSlot ==
  ASSUME StoreInv, QueueInv, NEW id \in DOMAIN Resting
  PROVE  LET i == orderMap[id] IN
         /\ id \in Id
         /\ i \in Slot
         /\ pool[i] \in Order
         /\ pool[i].id = id
         /\ pool[i].price \in PriceIdx
         /\ pool[i].shares > 0
         /\ pool[i].side \in Side
         /\ i \in OrdersAt(pool[i].side, pool[i].price)
         /\ ahead[i] \in SUBSET Slot
         /\ ahead[i] \subseteq OrdersAt(pool[i].side, pool[i].price) \ {i}
<1> DEFINE i == orderMap[id]
<1>1. id \in Id /\ i # Nil
  BY RestingIs
<1>2. Reachable /\ StoreTypeOK
  BY DEF StoreInv
<1>3. i \in Slot
  BY <1>1, <1>2 DEF StoreTypeOK, Nowhere
<1>4. /\ pool[i] \in Order
      /\ pool[i].id = id
      /\ pool[i].price \in PriceIdx
  BY <1>1, <1>2 DEF Reachable
<1> HIDE DEF i
<1>5. pool[i].shares > 0
  BY <1>2, <1>3, <1>4 DEF Reachable
<1>6. /\ pool[i].side \in Side
      /\ i \in OrdersAt(pool[i].side, pool[i].price)
  BY <1>3, <1>4 DEF Order, OrdersAt
<1>7. Queue(pool[i].side, pool[i].price)
  BY <1>4, <1>6 DEF QueueInv
<1>8. ahead[i] \subseteq OrdersAt(pool[i].side, pool[i].price) \ {i}
  BY <1>6, <1>7 DEF Queue, Linked
<1>9. ahead[i] \in SUBSET Slot
  BY <1>2, <1>3 DEF StoreTypeOK
<1> QED
  BY <1>1, <1>3, <1>4, <1>5, <1>6, <1>8, <1>9 DEF i

\* Conversely, every order of the pool rests under its id.
LEMMA OrderRests ==
  ASSUME StoreInv, NEW i \in Slot, pool[i] \in Order
  PROVE  pool[i].id \in DOMAIN Resting /\ orderMap[pool[i].id] = i
<1>1. pool[i].id \in Id /\ orderMap[pool[i].id] = i
  BY DEF StoreInv, Reachable, Order
<1> QED
  BY <1>1, RestingIs, NilIsNoSlot

\* The fields of an order that rests; the ids before it are those of the orders
\* before it in its queue.
LEMMA RestingFields ==
  ASSUME StoreInv, QueueInv, NEW id \in DOMAIN Resting
  PROVE  LET i == orderMap[id] IN
         /\ Resting[id].side = pool[i].side
         /\ Resting[id].price = pool[i].price
         /\ Resting[id].shares = pool[i].shares
         /\ Resting[id].ahead = {pool[j].id : j \in ahead[i]}
         /\ Resting[id] \in Entry
         /\ Resting[id].ahead \subseteq DOMAIN Resting \ {id}
<1> DEFINE i == orderMap[id]
           e == Resting[id]
           F == {pool[j].id : j \in ahead[i]}
<1>1. e = [side |-> pool[i].side, price |-> pool[i].price, shares |-> pool[i].shares, ahead |-> F]
  BY RestingIs
<1>2. /\ i \in Slot
      /\ pool[i] \in Order
      /\ pool[i].id = id
      /\ pool[i].price \in PriceIdx
      /\ pool[i].shares > 0
      /\ ahead[i] \in SUBSET Slot
      /\ ahead[i] \subseteq OrdersAt(pool[i].side, pool[i].price) \ {i}
  BY RestingSlot
<1> HIDE DEF i
<1>3. ASSUME NEW j \in ahead[i] PROVE pool[j].id \in DOMAIN Resting \ {id}
  <2>1. j \in Slot /\ j # i /\ pool[j] \in Order
    BY <1>2 DEF OrdersAt
  <2>2. pool[j].id \in DOMAIN Resting /\ orderMap[pool[j].id] = j
    BY <2>1, OrderRests
  <2> QED
    BY <2>1, <2>2 DEF i
<1>4. F \subseteq DOMAIN Resting \ {id}
  BY <1>3
<1>5. DOMAIN Resting \subseteq Id
  BY RestingIs
<1> HIDE DEF e, F
<1>6. /\ e.side = pool[i].side /\ e.price = pool[i].price
      /\ e.shares = pool[i].shares /\ e.ahead = F
  BY <1>1
<1>7. e \in Entry
  <2>1. pool[i].side \in Side /\ pool[i].price \in Nat /\ pool[i].shares \in Nat \ {0}
    BY <1>2 DEF Order
  <2>2. F \in SUBSET Id
    BY <1>4, <1>5
  <2> QED
    BY <1>1, <2>1, <2>2 DEF Entry
<1> QED
  BY <1>4, <1>6, <1>7 DEF e, F, i

LEMMA RestingFinite ==
  ASSUME StoreInv, QueueInv, NEW Q \in SUBSET Slot,
         \A id \in DOMAIN Resting : orderMap[id] \in Q
  PROVE  IsFiniteSet(DOMAIN Resting) /\ Cardinality(DOMAIN Resting) <= Cardinality(Q)
<1> DEFINE D == DOMAIN Resting
           f == [id \in D |-> orderMap[id]]
<1>1. \A id \in D : orderMap[id] \in Slot /\ pool[orderMap[id]].id = id
  BY RestingSlot
<1> HIDE DEF D
<1>2. f \in [D -> Q]
  BY DEF D
<1>3. \A a, b \in D : f[a] = f[b] => a = b
  BY <1>1
<1> HIDE DEF f
<1>4. f \in Injection(D, Q)
  BY <1>2, <1>3 DEF Injection, IsInjective
<1>5. IsFiniteSet(Q)
  BY FiniteQueue
<1> QED
  BY <1>4, <1>5, FS_Injection DEF D

\* The book of the pool is one in which of two orders of a side one goes first.
LEMMA RestingRanked == ASSUME StoreInv, QueueInv PROVE WellRanked(Resting)
<1> DEFINE D == DOMAIN Resting
<1>1. IsFiniteSet(D)
  <2>1. \A id \in DOMAIN Resting : orderMap[id] \in Slot
    BY RestingSlot
  <2>2. Slot \in SUBSET Slot
    OBVIOUS
  <2> QED
    BY <2>1, <2>2, RestingFinite
<1>2. D \subseteq Id
  BY RestingIs
<1>3. \A id \in D : Resting[id] \in Entry /\ Resting[id].ahead \subseteq D \ {id}
  BY RestingFields
<1>4. Resting \in [D -> Entry]
  BY <1>3, RestingIs
<1>5. ASSUME NEW a \in D, NEW b \in D, Resting[a].side = Resting[b].side
      PROVE  a = b \/ Abstract!Outranks(Resting, a, b) \/ Abstract!Outranks(Resting, b, a)
  <2> DEFINE i == orderMap[a]
             j == orderMap[b]
             s == pool[i].side
             p == pool[i].price
             Q == OrdersAt(s, p)
  <2>1. /\ i \in Slot /\ pool[i] \in Order /\ pool[i].id = a
        /\ p \in PriceIdx /\ s \in Side /\ i \in OrdersAt(s, p)
        /\ j \in Slot /\ pool[j] \in Order /\ pool[j].id = b
        /\ pool[j].price \in PriceIdx /\ j \in OrdersAt(pool[j].side, pool[j].price)
    BY RestingSlot
  <2>2. /\ Resting[a].side = s /\ Resting[a].price = p
        /\ Resting[a].ahead = {pool[k].id : k \in ahead[i]}
        /\ Resting[b].side = pool[j].side /\ Resting[b].price = pool[j].price
        /\ Resting[b].ahead = {pool[k].id : k \in ahead[j]}
    BY RestingFields
  <2>3. CASE Resting[a].price = Resting[b].price
    <3>1. Queue(s, p)
      BY <2>1 DEF QueueInv
    <3>2. i \in Q /\ j \in Q
      BY <1>5, <2>1, <2>2, <2>3
    <3>3. i = j \/ i \in ahead[j] \/ j \in ahead[i]
      BY <3>1, <3>2 DEF Queue, InLine
    <3> HIDE DEF i, j
    <3>4. a = b \/ a \in Resting[b].ahead \/ b \in Resting[a].ahead
      BY <2>1, <2>2, <3>3
    <3> QED
      BY <2>3, <3>4 DEF Abstract!Outranks
  <2>4. CASE Resting[a].price # Resting[b].price
    <3>1. Resting[a].price \in Nat /\ Resting[b].price \in Nat
      BY <2>1, <2>2 DEF PriceIdx
    <3> QED
      BY <1>5, <2>4, <3>1 DEF Abstract!Outranks, Abstract!Before
  <2> QED
    BY <2>3, <2>4
<1> QED
  BY <1>1, <1>2, <1>3, <1>4, <1>5 DEF WellRanked

-----------------------------------------------------------------------------
\* The ids before an order, after a step that changes no id of the orders that
\* were before it: i is the slot of the order that left, if one did.
LEMMA IdsBefore ==
  ASSUME StoreInv, QueueInv, NEW id \in DOMAIN Resting, NEW i,
         \A j \in Slot \ {i} : pool[j] \in Order => SameTerms(pool'[j], pool[j])
  PROVE  {pool'[j].id : j \in ahead[orderMap[id]] \ {i}}
           = {pool[j].id : j \in ahead[orderMap[id]] \ {i}}
<1>1. \A j \in ahead[orderMap[id]] : j \in Slot /\ pool[j] \in Order
  BY RestingSlot DEF OrdersAt
<1>2. \A j \in ahead[orderMap[id]] \ {i} : pool'[j].id = pool[j].id
  BY <1>1 DEF SameTerms
<1> QED
  BY <1>2

\* Order i leaves the book: the others rest as before, without it before them.
LEMMA OthersRest ==
  ASSUME StoreInv, QueueInv, NEW i \in Slot, pool[i] \in Order,
         orderMap' = [orderMap EXCEPT ![pool[i].id] = Nil],
         \A j \in Slot \ {i} : pool[j] \in Order => SameTerms(pool'[j], pool[j]),
         \A j \in Slot \ {i} : ahead'[j] = ahead[j] \ {i}
  PROVE  /\ DOMAIN Resting' = DOMAIN Resting \ {pool[i].id}
         /\ Resting' \in [DOMAIN Resting' -> Entry]
         /\ \A id \in DOMAIN Resting' :
              /\ Resting'[id].side = Resting[id].side
              /\ Resting'[id].price = Resting[id].price
              /\ Resting'[id].shares = Resting[id].shares
              /\ Resting'[id].ahead = Resting[id].ahead \cap DOMAIN Resting'
<1> DEFINE D == DOMAIN Resting
           k == pool[i].id
           T == Resting'
<1>1. k \in D /\ orderMap[k] = i /\ k \in Id
  BY OrderRests DEF Order
<1>2. /\ DOMAIN T = {id \in Id : orderMap'[id] # Nil}
      /\ T = [id \in DOMAIN T |-> T[id]]
      /\ \A id \in DOMAIN T :
           T[id] = [side   |-> pool'[orderMap'[id]].side,
                    price  |-> pool'[orderMap'[id]].price,
                    shares |-> pool'[orderMap'[id]].shares,
                    ahead  |-> {pool'[j].id : j \in ahead'[orderMap'[id]]}]
  BY RestingNext
<1>3. \A id \in Id : orderMap'[id] = IF id = k THEN Nil ELSE orderMap[id]
  BY DEF StoreInv, StoreTypeOK
<1>4. DOMAIN T = D \ {k}
  <2>1. D = {id \in Id : orderMap[id] # Nil}
    BY RestingIs
  <2> HIDE DEF D, T, k
  <2> QED
    BY <2>1, <1>2, <1>3
<1> HIDE DEF T, D
<1>5. ASSUME NEW id \in DOMAIN T
      PROVE  /\ T[id] \in Entry
             /\ T[id].side = Resting[id].side
             /\ T[id].price = Resting[id].price
             /\ T[id].shares = Resting[id].shares
             /\ T[id].ahead = Resting[id].ahead \cap DOMAIN T
  <2> DEFINE j == orderMap[id]
             F == {pool'[m].id : m \in ahead[j] \ {i}}
  <2>1. id \in D /\ id \in Id /\ id # k /\ orderMap'[id] = j
    <3>1. id \in D /\ id # k
      BY <1>4
    <3>2. id \in Id
      BY <3>1, RestingIs DEF D
    <3> HIDE DEF k
    <3> QED
      BY <3>1, <3>2, <1>3
  <2>2. /\ j \in Slot /\ pool[j] \in Order /\ pool[j].id = id
        /\ \A m \in ahead[j] : m \in Slot /\ pool[m] \in Order
    BY <2>1, RestingSlot DEF D, OrdersAt
  <2>3. j # i
    BY <2>1, <2>2
  <2>4. SameTerms(pool'[j], pool[j]) /\ ahead'[j] = ahead[j] \ {i}
    BY <2>2, <2>3
  <2>5. T[id] = [side |-> pool'[j].side, price |-> pool'[j].price,
                 shares |-> pool'[j].shares, ahead |-> F]
    BY <1>2, <2>1, <2>4
  <2>6. /\ Resting[id].side = pool[j].side
        /\ Resting[id].price = pool[j].price
        /\ Resting[id].shares = pool[j].shares
        /\ Resting[id].ahead = {pool[m].id : m \in ahead[j]}
        /\ Resting[id] \in Entry
        /\ Resting[id].ahead \subseteq D \ {id}
    BY <2>1, RestingFields DEF D
  <2>7. F = {pool[m].id : m \in ahead[j] \ {i}}
    BY <2>1, IdsBefore DEF D
  <2>8. \A m \in ahead[j] : m # i => pool[m].id # k
    <3>1. \A m \in ahead[j] : orderMap[pool[m].id] = m
      BY <2>2, OrderRests
    <3> QED
      BY <3>1, <1>1
  <2>9. F = Resting[id].ahead \cap DOMAIN T
    <3>1. i \in ahead[j] => pool[i].id = k
      OBVIOUS
    <3> HIDE DEF F, k, j
    <3>2. ASSUME NEW x \in F PROVE x \in Resting[id].ahead /\ x \in D \ {k}
      <4>1. PICK m \in ahead[j] \ {i} : x = pool[m].id
        BY <2>7
      <4> QED
        BY <4>1, <2>6, <2>8
    <3>3. ASSUME NEW x \in Resting[id].ahead, x # k PROVE x \in F
      <4>1. PICK m \in ahead[j] : x = pool[m].id
        BY <2>6
      <4>2. m # i
        BY <4>1, <3>3, <3>1
      <4> QED
        BY <4>1, <4>2, <2>7
    <3> QED
      BY <3>2, <3>3, <1>4, <2>6
  <2> HIDE DEF F, j
  <2>10. /\ T[id].side = Resting[id].side /\ T[id].price = Resting[id].price
         /\ T[id].shares = Resting[id].shares /\ T[id].ahead = F
    BY <2>4, <2>5, <2>6 DEF SameTerms
  <2>11. F \in SUBSET Id
    BY <2>6, <2>9 DEF Entry
  <2>12. T[id] \in Entry
    <3>1. /\ pool'[j].side = Resting[id].side /\ pool'[j].price = Resting[id].price
          /\ pool'[j].shares = Resting[id].shares
      BY <2>4, <2>6 DEF SameTerms
    <3> QED
      BY <3>1, <2>5, <2>6, <2>11 DEF Entry
  <2> QED
    BY <2>9, <2>10, <2>12
<1>6. T \in [DOMAIN T -> Entry]
  BY <1>2, <1>5
<1> QED
  BY <1>4, <1>5, <1>6 DEF T, D

\* Two books with the same orders are the same.
LEMMA SameBook ==
  ASSUME NEW R, NEW T, DOMAIN R = DOMAIN T,
         R = [id \in DOMAIN R |-> R[id]], T = [id \in DOMAIN T |-> T[id]],
         \A id \in DOMAIN R : R[id] = T[id]
  PROVE  R = T
BY Zenon

LEMMA RestingWithout ==
  ASSUME StoreInv, QueueInv, NEW i \in Slot, pool[i] \in Order,
         orderMap' = [orderMap EXCEPT ![pool[i].id] = Nil],
         \A j \in Slot \ {i} : pool[j] \in Order => SameTerms(pool'[j], pool[j]),
         \A j \in Slot \ {i} : ahead'[j] = ahead[j] \ {i}
  PROVE  Resting' = Abstract!Without(Resting, pool[i].id)
<1> DEFINE R == Resting
           T == Resting'
           k == pool[i].id
<1>1. /\ DOMAIN T = DOMAIN R \ {k}
      /\ T \in [DOMAIN T -> Entry]
      /\ \A id \in DOMAIN T : /\ T[id].side = R[id].side
                              /\ T[id].price = R[id].price
                              /\ T[id].shares = R[id].shares
                              /\ T[id].ahead = R[id].ahead \cap DOMAIN T
  BY OthersRest
<1>2. \A id \in DOMAIN R : R[id] \in Entry
  BY RestingFields
<1>3. Abstract!Without(R, k) = [id \in DOMAIN R \ {k} |-> [R[id] EXCEPT !.ahead = @ \cap (DOMAIN R \ {k})]]
  BY DEF Abstract!Without, Abstract!Only
<1> HIDE DEF R, T, k
<1>4. \A id \in DOMAIN T : T[id] = [R[id] EXCEPT !.ahead = @ \cap (DOMAIN R \ {k})]
  BY <1>1, <1>2 DEF Entry
<1> QED
  BY <1>1, <1>3, <1>4 DEF R, T, k

\* Order i has n shares now.
LEMMA RestingReduced ==
  ASSUME StoreInv, QueueInv, NEW i \in Slot, pool[i] \in Order, NEW n \in Nat \ {0},
         pool' = [pool EXCEPT ![i].shares = n], UNCHANGED <<orderMap, ahead>>
  PROVE  /\ DOMAIN Resting' = DOMAIN Resting
         /\ Resting' \in [DOMAIN Resting -> Entry]
         /\ \A id \in DOMAIN Resting :
              /\ Resting'[id].side = Resting[id].side
              /\ Resting'[id].price = Resting[id].price
              /\ Resting'[id].shares = IF id = pool[i].id THEN n ELSE Resting[id].shares
              /\ Resting'[id].ahead = Resting[id].ahead
         /\ Resting' = [Resting EXCEPT ![pool[i].id].shares = n]
<1> DEFINE R == Resting
           T == Resting'
           k == pool[i].id
<1>1. k \in DOMAIN R /\ orderMap[k] = i
  BY OrderRests
<1>2. /\ \A j \in Slot : pool'[j].id = pool[j].id
      /\ \A j \in Slot \ {i} : pool'[j] = pool[j]
      /\ pool'[i].side = pool[i].side /\ pool'[i].price = pool[i].price /\ pool'[i].shares = n
  BY DEF StoreInv, StoreTypeOK, Block, Order
<1>3. DOMAIN T = DOMAIN R /\ T = [id \in DOMAIN T |-> T[id]] /\ R = [id \in DOMAIN R |-> R[id]]
  BY RestingIs, RestingNext
<1>4. ASSUME NEW id \in DOMAIN R
      PROVE  /\ T[id].side = R[id].side
             /\ T[id].price = R[id].price
             /\ T[id].shares = IF id = k THEN n ELSE R[id].shares
             /\ T[id].ahead = R[id].ahead
             /\ T[id] \in Entry
             /\ R[id] \in Entry
  <2> DEFINE j == orderMap[id]
             F == {pool'[m].id : m \in ahead[j]}
  <2>1. /\ R[id].side = pool[j].side
        /\ R[id].price = pool[j].price
        /\ R[id].shares = pool[j].shares
        /\ R[id].ahead = {pool[m].id : m \in ahead[j]}
        /\ R[id] \in Entry
    BY RestingFields
  <2>2. T[id] = [side |-> pool'[j].side, price |-> pool'[j].price,
                 shares |-> pool'[j].shares, ahead |-> F]
    BY <1>3, RestingNext
  <2>3. j \in Slot /\ pool[j].id = id /\ ahead[j] \in SUBSET Slot
    BY RestingSlot
  <2> HIDE DEF R, T
  <2>4. F = R[id].ahead
    BY <2>1, <2>3, <1>2
  <2> HIDE DEF F, j, k
  <2>5. /\ pool'[j].side = R[id].side
        /\ pool'[j].price = R[id].price
        /\ pool'[j].shares = IF id = k THEN n ELSE R[id].shares
    <3>1. id = k => j = i
      BY <1>1 DEF j
    <3>2. id # k => j # i
      BY <2>3 DEF k
    <3> QED
      BY <3>1, <3>2, <2>1, <2>3, <1>2
  <2> QED
    BY <2>1, <2>2, <2>4, <2>5 DEF Entry
<1> HIDE DEF R, T, k
<1>5. T \in [DOMAIN R -> Entry]
  BY <1>3, <1>4
<1>6. T = [R EXCEPT ![k].shares = n]
  <2> DEFINE U == [R EXCEPT ![k].shares = n]
  <2>1. DOMAIN U = DOMAIN R /\ U = [id \in DOMAIN U |-> U[id]]
    BY <1>3
  <2>2. ASSUME NEW id \in DOMAIN R PROVE T[id] = U[id]
    <3>1. U[id] = IF id = k THEN [R[id] EXCEPT !.shares = n] ELSE R[id]
      BY <1>3
    <3> HIDE DEF U
    <3>2. CASE id = k
      BY <3>1, <3>2, <1>4 DEF Entry
    <3>3. CASE id # k
      BY <3>1, <3>3, <1>4 DEF Entry
    <3> QED
      BY <3>2, <3>3
  <2> HIDE DEF U
  <2>3. T = U
    BY <2>1, <2>2, <1>3, SameBook
  <2> QED
    BY <2>3 DEF U
<1> QED
  BY <1>3, <1>4, <1>5, <1>6 DEF R, T, k

\* A slot that is taken without an order joining a queue is not seen.
LEMMA RestingSame ==
  ASSUME StoreInv, QueueInv, NEW i, pool[i] \notin Order,
         \A j \in Slot \ {i} : pool'[j] = pool[j], UNCHANGED <<orderMap, ahead>>
  PROVE  Resting' = Resting
<1>1. /\ DOMAIN Resting' = DOMAIN Resting
      /\ Resting' = [id \in DOMAIN Resting' |-> Resting'[id]]
      /\ Resting = [id \in DOMAIN Resting |-> Resting[id]]
  BY RestingIs, RestingNext
<1>2. ASSUME NEW id \in DOMAIN Resting PROVE Resting'[id] = Resting[id]
  <2> DEFINE j == orderMap[id]
  <2>1. /\ j \in Slot /\ pool[j] \in Order
        /\ \A m \in ahead[j] : m \in Slot /\ pool[m] \in Order
    BY RestingSlot DEF OrdersAt
  <2> HIDE DEF j
  <2>2. pool'[j] = pool[j] /\ \A m \in ahead[j] : pool'[m] = pool[m]
    BY <2>1
  <2>3. {pool'[m].id : m \in ahead[j]} = {pool[m].id : m \in ahead[j]}
    BY <2>2
  <2>4. /\ Resting[id] = [side |-> pool[j].side, price |-> pool[j].price,
                          shares |-> pool[j].shares, ahead |-> {pool[m].id : m \in ahead[j]}]
        /\ Resting'[id] = [side |-> pool'[j].side, price |-> pool'[j].price,
                           shares |-> pool'[j].shares, ahead |-> {pool'[m].id : m \in ahead'[j]}]
    BY <1>1, RestingIs, RestingNext DEF j
  <2> QED
    BY <2>2, <2>3, <2>4
<1> QED
  BY <1>1, <1>2, SameBook

\* What is left of the incoming order joins the book behind all others at its
\* price.
LEMMA RestingJoined ==
  ASSUME BookInv, Rest
  PROVE  Resting' = Abstract!Joined(Resting, call.id, call.side, call.price, remainingShares)
<1> DEFINE i == head_free_index
           k == call.id
           s == call.side
           p == call.price
           Q == OrdersAt(s, p)
           R == Resting
           T == Resting'
           F == {j \in Abstract!Of(R, s) : R[j].price = p}
           U == [id \in DOMAIN R \cup {k} |->
                   IF id = k THEN [side |-> s, price |-> p, shares |-> remainingShares, ahead |-> F]
                   ELSE R[id]]
<1>1. ToRest /\ call.price \in PriceIdx
  BY DEF Rest
<1>2. /\ StoreInv /\ QueueInv /\ k \in Id /\ orderMap[k] = Nil
  BY <1>1, AboutToRest
<1>3. /\ i \in Slot /\ pool[i] \in OP!FreeNode
      /\ pool'[i].id = k
      /\ pool'[i].side = s
      /\ pool'[i].price = p
      /\ pool'[i].shares = remainingShares
      /\ \A j \in Slot \ {i} : pool[j] \in Order => SameTerms(pool'[j], pool[j])
      /\ ahead'[i] = Q
      /\ \A j \in Slot \ {i} : ahead'[j] = ahead[j]
      /\ orderMap'[k] = i
      /\ \A id \in Id \ {k} : orderMap'[id] = orderMap[id]
  BY RestTakes
<1>4. pool[i] \notin Order /\ i # Nil
  BY <1>3, OrderIsNoFreeNode, NilIsNoSlot
<1>5. DOMAIN R = {id \in Id : orderMap[id] # Nil} /\ R = [id \in DOMAIN R |-> R[id]]
  BY RestingIs
<1>6. /\ DOMAIN T = {id \in Id : orderMap'[id] # Nil} /\ T = [id \in DOMAIN T |-> T[id]]
      /\ \A id \in DOMAIN T :
           T[id] = [side   |-> pool'[orderMap'[id]].side,
                    price  |-> pool'[orderMap'[id]].price,
                    shares |-> pool'[orderMap'[id]].shares,
                    ahead  |-> {pool'[j].id : j \in ahead'[orderMap'[id]]}]
  BY RestingNext
<1> HIDE DEF R, T
<1>7. DOMAIN T = DOMAIN R \cup {k} /\ k \notin DOMAIN R
  <2> HIDE DEF i, k
  <2> QED
    BY <1>2, <1>3, <1>4, <1>5, <1>6
<1>8. T[k] = [side |-> s, price |-> p, shares |-> remainingShares, ahead |-> F]
  <2> DEFINE G == {pool'[j].id : j \in Q}
  <2>1. T[k] = [side |-> s, price |-> p, shares |-> remainingShares, ahead |-> G]
    <3> HIDE DEF i, k, s, p, Q
    <3>1. k \in DOMAIN T
      BY <1>7
    <3> QED
      BY <3>1, <1>3, <1>6
  <2>2. \A j \in Q : j \in Slot /\ j # i /\ pool[j] \in Order
                     /\ pool[j].side = s /\ pool[j].price = p
    BY <1>4 DEF OrdersAt
  <2>3. ASSUME NEW j \in Q PROVE pool'[j].id \in F
    <3>1. j \in Slot /\ pool[j] \in Order /\ pool[j].side = s /\ pool[j].price = p
          /\ SameTerms(pool'[j], pool[j])
      BY <2>2, <1>3
    <3>2. pool[j].id \in DOMAIN R /\ orderMap[pool[j].id] = j
      BY <3>1, <1>2, OrderRests DEF R
    <3>3. R[pool[j].id].side = s /\ R[pool[j].id].price = p
      BY <3>1, <3>2, <1>2, RestingFields DEF R
    <3> QED
      BY <3>1, <3>2, <3>3 DEF SameTerms, Abstract!Of
  <2>4. ASSUME NEW id \in F PROVE id \in G
    <3> DEFINE j == orderMap[id]
    <3>1. id \in DOMAIN R /\ R[id].side = s /\ R[id].price = p
      BY DEF Abstract!Of
    <3>2. /\ j \in Slot /\ pool[j] \in Order /\ pool[j].id = id
          /\ R[id].side = pool[j].side /\ R[id].price = pool[j].price
      BY <3>1, <1>2, RestingSlot, RestingFields DEF R
    <3> HIDE DEF j
    <3>3. j \in Q
      BY <3>1, <3>2 DEF OrdersAt
    <3>4. pool'[j].id = id
      BY <3>2, <3>3, <2>2, <1>3 DEF SameTerms
    <3> QED
      BY <3>3, <3>4
  <2>5. F = G
    BY <2>3, <2>4
  <2> QED
    BY <2>1, <2>5
<1>9. ASSUME NEW id \in DOMAIN R PROVE T[id] = R[id]
  <2> DEFINE j == orderMap[id]
  <2>1. /\ j \in Slot /\ pool[j] \in Order /\ id \in Id
        /\ \A m \in ahead[j] : m \in Slot /\ pool[m] \in Order
    BY <1>2, RestingSlot DEF OrdersAt, R
  <2>2. j # i /\ id # k
    BY <2>1, <1>4, <1>7
  <2>3. i \notin ahead[j]
    BY <2>1, <1>4
  <2>4. {pool'[m].id : m \in ahead[j] \ {i}} = {pool[m].id : m \in ahead[j] \ {i}}
    BY <1>2, <1>3, IdsBefore DEF R
  <2>5. ahead[j] \ {i} = ahead[j]
    BY <2>3
  <2>6. R[id] = [side |-> pool[j].side, price |-> pool[j].price,
                 shares |-> pool[j].shares, ahead |-> {pool[m].id : m \in ahead[j]}]
    BY RestingIs DEF R
  <2>7. orderMap'[id] = j /\ ahead'[j] = ahead[j] /\ SameTerms(pool'[j], pool[j])
    BY <2>1, <2>2, <1>3
  <2>8. T[id] = [side |-> pool'[j].side, price |-> pool'[j].price,
                 shares |-> pool'[j].shares, ahead |-> {pool'[m].id : m \in ahead[j]}]
    BY <1>6, <1>7, <2>7
  <2> HIDE DEF j, i, k
  <2> QED
    BY <2>4, <2>5, <2>6, <2>7, <2>8 DEF SameTerms
<1>10. U = Abstract!Joined(R, k, s, p, remainingShares)
  BY DEF Abstract!Joined
<1> HIDE DEF F
<1>11. T = U
  <2>1. DOMAIN U = DOMAIN T /\ U = [id \in DOMAIN U |-> U[id]]
    BY <1>7
  <2>2. \A id \in DOMAIN T : T[id] = U[id]
    BY <1>7, <1>8, <1>9
  <2> HIDE DEF U
  <2> QED
    BY <2>1, <2>2, <1>6, SameBook
<1> QED
  BY <1>10, <1>11 DEF R, T

-----------------------------------------------------------------------------
\* The pool is exhausted exactly when as many orders rest as it has slots.
LEMMA RoomLeft ==
  ASSUME TypeOK, StoreInv, QueueInv, ~OP!Exhausted
  PROVE  Cardinality(DOMAIN Resting) < Capacity
<1> DEFINE h == head_free_index
           Q == Slot \ {h}
<1>1. StoreTypeOK /\ FreeListInv
  BY DEF StoreInv
<1>2. h \in Slot /\ pool[h] \in OP!FreeNode
  BY <1>1, FreeListTop
<1>3. \A id \in DOMAIN Resting : orderMap[id] \in Q
  <2> TAKE id \in DOMAIN Resting
  <2>1. orderMap[id] \in Slot /\ pool[orderMap[id]] \in Order
    BY RestingSlot
  <2> QED
    BY <2>1, <1>2, OrderIsNoFreeNode
<1>4. /\ IsFiniteSet(DOMAIN Resting)
      /\ Cardinality(DOMAIN Resting) <= Cardinality(Q)
  BY <1>3, RestingFinite
<1>5. IsFiniteSet(Slot) /\ Cardinality(Slot) = Capacity
  <2>1. 0 \in Int /\ Capacity - 1 \in Int /\ Capacity \in Nat \ {0}
    BY BookAssumption
  <2> QED
    BY <2>1, FS_Interval DEF Slot
<1>6. Cardinality(Q) = Capacity - 1
  BY <1>2, <1>5, FS_RemoveElement
<1>7. Cardinality(DOMAIN Resting) \in Nat /\ Capacity \in Nat
  BY <1>4, FS_CardinalityType, BookAssumption
<1> QED
  BY <1>4, <1>6, <1>7

LEMMA NoRoomLeft ==
  ASSUME TypeOK, StoreInv, QueueInv, OP!Exhausted
  PROVE  ~(Cardinality(DOMAIN Resting) < Capacity)
<1> DEFINE D == DOMAIN Resting
           f == [i \in Slot |-> pool[i].id]
<1>1. \A i \in Slot : pool[i] \in Order
  BY FreeListNone DEF StoreInv
<1>2. \A i \in Slot : pool[i].id \in D /\ orderMap[pool[i].id] = i
  BY <1>1, OrderRests
<1>3. IsFiniteSet(D)
  BY RestingRanked DEF WellRanked
<1> HIDE DEF D
<1>4. f \in [Slot -> D] /\ \A i, j \in Slot : f[i] = f[j] => i = j
  BY <1>2
<1> HIDE DEF f
<1>5. f \in Injection(Slot, D)
  BY <1>4 DEF Injection, IsInjective
<1>6. Cardinality(Slot) <= Cardinality(D)
  BY <1>3, <1>5, FS_Injection
<1>7. Cardinality(Slot) = Capacity
  <2>1. 0 \in Int /\ Capacity - 1 \in Int /\ Capacity \in Nat \ {0}
    BY BookAssumption
  <2> QED
    BY <2>1, FS_Interval DEF Slot
<1>8. Cardinality(D) \in Nat /\ Capacity \in Nat
  BY <1>3, FS_CardinalityType, BookAssumption
<1> QED
  BY <1>6, <1>7, <1>8 DEF D

-----------------------------------------------------------------------------
\* A book is ranked without any of its orders as well.
LEMMA RankedWithout ==
  ASSUME NEW B, WellRanked(B), NEW k PROVE WellRanked(Abstract!Without(B, k))
<1> DEFINE D == DOMAIN B \ {k}
           W == [id \in D |-> [B[id] EXCEPT !.ahead = @ \cap D]]
<1>1. W = Abstract!Without(B, k)
  BY DEF Abstract!Without, Abstract!Only
<1>2. DOMAIN W = D /\ \A id \in D : W[id] = [B[id] EXCEPT !.ahead = @ \cap D]
  OBVIOUS
<1>3. /\ IsFiniteSet(D) /\ D \subseteq Id
  BY WantedFinite DEF WellRanked
<1>4. \A id \in DOMAIN B : B[id] \in Entry /\ B[id].ahead \subseteq DOMAIN B \ {id}
  BY DEF WellRanked
<1>5. W = [id \in D |-> W[id]]
  OBVIOUS
<1> HIDE DEF W
<1>6. \A id \in D : /\ W[id] \in Entry
                    /\ W[id].side = B[id].side
                    /\ W[id].price = B[id].price
                    /\ W[id].ahead = B[id].ahead \cap D
  BY <1>2, <1>4 DEF Entry
<1>7. W \in [D -> Entry] /\ \A id \in D : W[id].ahead \subseteq D \ {id}
  BY <1>4, <1>5, <1>6
<1>8. ASSUME NEW i \in D, NEW j \in D, W[i].side = W[j].side
      PROVE  i = j \/ Abstract!Outranks(W, i, j) \/ Abstract!Outranks(W, j, i)
  <2>1. i = j \/ Abstract!Outranks(B, i, j) \/ Abstract!Outranks(B, j, i)
    BY <1>6, <1>8 DEF WellRanked
  <2>2. /\ Abstract!Outranks(B, i, j) => Abstract!Outranks(W, i, j)
        /\ Abstract!Outranks(B, j, i) => Abstract!Outranks(W, j, i)
    BY <1>6 DEF Abstract!Outranks
  <2> QED
    BY <2>1, <2>2
<1>9. WellRanked(W)
  BY <1>2, <1>3, <1>7, <1>8 DEF WellRanked
<1> QED
  BY <1>1, <1>9

\* Who outranks whom does not change as others leave.
LEMMA OutranksKept ==
  ASSUME NEW B, WellRanked(B), NEW A, NEW R, NEW remaining, NEW S,
         MatchedSoFar(B, A, R, remaining, S), NEW i \in DOMAIN R, NEW j \in DOMAIN R
  PROVE  Abstract!Outranks(B, i, j) <=> Abstract!Outranks(R, i, j)
<1>1. /\ R[i].side = B[i].side
      /\ R[i].price = B[i].price
      /\ R[j].price = B[j].price
      /\ R[j].ahead = B[j].ahead \cap DOMAIN R
  BY TakenKept
<1> QED
  BY <1>1 DEF Abstract!Outranks

-----------------------------------------------------------------------------
\* The order at the cursor is one with which the call trades, and no order of
\* its side that rests is before it.
LEMMA CurrentIsFirst ==
  ASSUME BookInv, pc = "order", currIdx # Nil
  PROVE  /\ StoreInv /\ QueueInv
         /\ currIdx \in Slot /\ pool[currIdx] \in Order
         /\ pool[currIdx].id \in DOMAIN Resting
         /\ orderMap[pool[currIdx].id] = currIdx
         /\ Resting[pool[currIdx].id].side = RestingSide
         /\ Resting[pool[currIdx].id].shares = pool[currIdx].shares
         /\ Crosses(Resting[pool[currIdx].id].price)
         /\ \A j \in DOMAIN Resting : Resting[j].side = RestingSide =>
              ~Abstract!Outranks(Resting, j, pool[currIdx].id)
<1> DEFINE k == pool[currIdx].id
<1>1. StoreInv /\ QueueInv /\ CallInv
  BY BookInvParts
<1>2. /\ RestingSide \in Side
      /\ limitIt \in PriceIdx
      /\ currIdx \in Slot
      /\ pool[currIdx] \in Order
      /\ pool[currIdx].side = RestingSide
      /\ pool[currIdx].price = limitIt
      /\ ahead[currIdx] = {}
  BY AtLevel
<1>3. k \in DOMAIN Resting /\ orderMap[k] = currIdx
  BY <1>1, <1>2, OrderRests
<1>4. /\ Resting[k].side = RestingSide
      /\ Resting[k].price = limitIt
      /\ Resting[k].shares = pool[currIdx].shares
      /\ Resting[k].ahead = {}
  BY <1>1, <1>2, <1>3, RestingFields
<1>5. Crosses(limitIt) /\ IsFirst(RestingSide, Active(levels[RestingSide]), limitIt)
  BY <1>1 DEF CallInv, CursorInv
<1> HIDE DEF k
<1>6. ASSUME NEW j \in DOMAIN Resting, Resting[j].side = RestingSide
      PROVE  ~Abstract!Outranks(Resting, j, k)
  <2> DEFINE m == orderMap[j]
             p == pool[m].price
  <2>1. /\ m \in Slot /\ pool[m] \in Order /\ p \in PriceIdx
        /\ Resting[j].side = pool[m].side /\ Resting[j].price = p
    BY <1>1, RestingSlot, RestingFields
  <2>2. levels[pool[m].side][p] # NoLimit
    BY <1>1, <2>1, NeighboursLive
  <2>3. p \in Active(levels[RestingSide])
    BY <2>1, <2>2, <1>6 DEF Active
  <2>4. p = limitIt \/ Before(RestingSide, limitIt, p)
    BY <2>3, <1>2, <1>5 DEF IsFirst, PriceIdx, End
  <2> HIDE DEF p, m
  <2>5. ~Abstract!Before(RestingSide, p, limitIt)
    BY <2>1, <2>4, <1>2 DEF Before, Abstract!Before, PriceIdx
  <2> QED
    BY <2>1, <2>5, <1>4, <1>6 DEF Abstract!Outranks
<1> QED
  BY <1>1, <1>2, <1>3, <1>4, <1>5, <1>6 DEF k

\* When the loop over the levels is over with shares left, nobody rests with
\* whom the call would trade.
LEMMA NobodyLeft ==
  ASSUME BookInv, pc = "level", LoopOver, remainingShares > 0,
         NEW id \in DOMAIN Resting, Resting[id].side = RestingSide
  PROVE  ~Crosses(Resting[id].price)
<1> DEFINE m == orderMap[id]
           p == pool[m].price
<1>1. StoreInv /\ QueueInv /\ CallInv
  BY BookInvParts
<1>2. /\ m \in Slot /\ pool[m] \in Order /\ p \in PriceIdx
      /\ Resting[id].side = pool[m].side /\ Resting[id].price = p
  BY <1>1, RestingSlot, RestingFields
<1>3. levels[pool[m].side][p] # NoLimit
  BY <1>1, <1>2, NeighboursLive
<1>4. p \in Active(levels[RestingSide])
  BY <1>2, <1>3 DEF Active
<1> HIDE DEF m, p
<1>5. IsFirst(RestingSide, Active(levels[RestingSide]), limitIt)
  BY <1>1 DEF CallInv, CursorInv
<1>6. limitIt \in Active(levels[RestingSide])
  BY <1>4, <1>5 DEF IsFirst
<1>7. limitIt \in Nat /\ p \in Nat /\ limitIt # End
  BY <1>2, <1>6 DEF Active, PriceIdx, End
<1>8. ~Crosses(limitIt)
  BY <1>7 DEF LoopOver
<1>9. p = limitIt \/ Before(RestingSide, limitIt, p)
  BY <1>4, <1>5, <1>7 DEF IsFirst
<1>10. call.side \in Side /\ call.price \in Nat
  BY <1>1 DEF CallInv, CallTypeOK
<1>11. ~Crosses(p)
  BY <1>7, <1>8, <1>9, <1>10 DEF Crosses, Before, RestingSide, Opposite, Side
<1> QED
  BY <1>2, <1>11

-----------------------------------------------------------------------------
\* The book a call trades with, and with whom it trades there.
LEMMA FoundRanked ==
  ASSUME MidCallInv, pc \in {"level", "order"}
  PROVE  /\ WellRanked(Found)
         /\ Wanted \in SUBSET DOMAIN Found
         /\ \A i, j \in Wanted : Found[i].side = Found[j].side
         /\ MatchedSoFar(Found, Wanted, Resting, remainingShares, asked)
         /\ CallStands
<1>1. WellRanked(entry) /\ CallStands
      /\ MatchedSoFar(Found, Wanted, Resting, remainingShares, asked)
  BY DEF MidCallInv
<1>2. WellRanked(Found)
  BY <1>1, RankedWithout DEF Found
<1> HIDE DEF Found
<1>3. Wanted \in SUBSET DOMAIN Found /\ \A i, j \in Wanted : Found[i].side = Found[j].side
  BY DEF Wanted
<1> QED
  BY <1>1, <1>2, <1>3

LEMMA CurrentIsWanted ==
  ASSUME BookInv, MidCallInv, pc = "order", currIdx # Nil
  PROVE  FirstOf(Found, Wanted, Resting, pool[currIdx].id)
<1> DEFINE k == pool[currIdx].id
           B == Found
           R == Resting
<1>1. /\ k \in DOMAIN R
      /\ R[k].side = RestingSide
      /\ Crosses(R[k].price)
      /\ \A j \in DOMAIN R : R[j].side = RestingSide => ~Abstract!Outranks(R, j, k)
  BY CurrentIsFirst
<1>2. /\ WellRanked(B)
      /\ MatchedSoFar(B, Wanted, R, remainingShares, asked)
  BY FoundRanked
<1> HIDE DEF B, R, k
<1>3. ASSUME NEW j \in DOMAIN R
      PROVE  /\ j \in DOMAIN B /\ R[j].side = B[j].side /\ R[j].price = B[j].price
             /\ Abstract!Outranks(B, j, k) <=> Abstract!Outranks(R, j, k)
  BY <1>1, <1>2, TakenKept, OutranksKept
<1>4. k \in Wanted
  BY <1>1, <1>3 DEF Wanted, B
<1>5. ASSUME NEW j \in Wanted, Abstract!Outranks(B, j, k) PROVE j \notin DOMAIN R
  <2>1. B[j].side = RestingSide
    BY DEF Wanted, B
  <2> QED
    BY <2>1, <1>1, <1>3, <1>5
<1> QED
  BY <1>1, <1>4, <1>5 DEF B, R, k, FirstOf

-----------------------------------------------------------------------------
\* How a step keeps the invariant: it begins a call, goes on with one, or is
\* the last of it.
LEMMA MidCallBegun ==
  ASSUME WellRanked(entry'), WellRanked(Resting'), pc' = "level", CallStands',
         Found' = Resting', remainingShares' = asked'
  PROVE  MidCallInv'
<1>1. Wanted' \in SUBSET DOMAIN Resting'
  BY DEF Wanted
<1>2. asked' \in Nat
  BY BookAssumption DEF CallStands
<1>3. MatchedSoFar(Resting', Wanted', Resting', asked', asked')
  <2> DEFINE A == Wanted'
             B == Resting'
             S == asked'
  <2>1. A \in SUBSET DOMAIN B /\ S \in Nat /\ WellRanked(B)
    BY <1>1, <1>2
  <2> HIDE DEF A, B, S
  <2>2. MatchedSoFar(B, A, B, S, S)
    BY <2>1, NothingTaken
  <2> QED
    BY <2>2 DEF A, B, S
<1> QED
  BY <1>3 DEF MidCallInv

LEMMA MidCallOn ==
  ASSUME MidCallInv, pc \in {"level", "order"}, pc' \in {"level", "order"},
         UNCHANGED <<call, entry, asked>>,
         MatchedSoFar(Found, Wanted, Resting', remainingShares', asked)
  PROVE  MidCallInv'
<1>1. Found' = Found /\ (CallStands => CallStands')
  BY DEF Found, CallStands
<1>2. Wanted' = Wanted
  BY <1>1 DEF Wanted, RestingSide, Crosses
<1>3. MatchedSoFar(Found', Wanted', Resting', remainingShares', asked')
  BY <1>1, <1>2
<1>4. WellRanked(entry') /\ CallStands'
  BY <1>1 DEF MidCallInv
<1> QED
  BY <1>3, <1>4 DEF MidCallInv

LEMMA MidCallDone ==
  ASSUME pc' \in {"idle", "threw"}, Remember, WellRanked(Resting') PROVE MidCallInv'
<1>1. entry' = Resting' /\ asked' = 0
  BY DEF Remember
<1>2. WellRanked(entry')
  BY <1>1
<1> QED
  BY <1>1, <1>2 DEF MidCallInv

LEMMA BookRanked == BookInv /\ pc # "threw" => WellRanked(Resting)
BY BookInvParts, RestingRanked

LEMMA SameRests ==
  ASSUME UNCHANGED <<pool, orderMap, ahead>> PROVE Resting' = Resting
BY DEF Resting

LEMMA FillPartlyMidCall ==
  ASSUME BookInv, MidCallInv, FillPartly, Remember PROVE MidCallInv'
<1> DEFINE k == pool[currIdx].id
           n == pool[currIdx].shares - remainingShares
           R == Resting
           T == Resting'
<1>1. /\ pc = "order" /\ currIdx # Nil /\ remainingShares > 0
      /\ pool[currIdx].shares > remainingShares
      /\ pool' = [pool EXCEPT ![currIdx].shares = n]
      /\ remainingShares' = 0
      /\ UNCHANGED <<orderMap, ahead>>
      /\ UNCHANGED <<pc, call, entry, asked>>
  BY DEF FillPartly, Remember
<1>2. /\ StoreInv /\ QueueInv
      /\ currIdx \in Slot /\ pool[currIdx] \in Order
      /\ R[k].shares = pool[currIdx].shares
  BY <1>1, CurrentIsFirst
<1>3. remainingShares \in Nat /\ pool[currIdx].shares \in Nat
  BY <1>2 DEF BookInv, TypeOK, Order
<1>4. n \in Nat \ {0}
  BY <1>1, <1>3
<1> DEFINE i == currIdx
<1> HIDE DEF n, i
<1>5. /\ DOMAIN T = DOMAIN R
      /\ T \in [DOMAIN R -> Entry]
      /\ \A id \in DOMAIN R : /\ T[id].side = R[id].side
                              /\ T[id].price = R[id].price
                              /\ T[id].shares = IF id = k THEN n ELSE R[id].shares
                              /\ T[id].ahead = R[id].ahead
  <2> HIDE DEF R, T
  <2>1. /\ DOMAIN Resting' = DOMAIN Resting
        /\ Resting' \in [DOMAIN Resting -> Entry]
        /\ \A id \in DOMAIN Resting :
              /\ Resting'[id].side = Resting[id].side
              /\ Resting'[id].price = Resting[id].price
              /\ Resting'[id].shares = IF id = k THEN n ELSE Resting[id].shares
              /\ Resting'[id].ahead = Resting[id].ahead
    BY <1>1, <1>2, <1>4, RestingReduced
  <2> QED
    BY <2>1 DEF R, T
<1>6. FirstOf(Found, Wanted, R, k)
  BY <1>1, CurrentIsWanted
<1>7. /\ WellRanked(Found)
      /\ Wanted \in SUBSET DOMAIN Found
      /\ MatchedSoFar(Found, Wanted, R, remainingShares, asked)
  BY <1>1, FoundRanked
<1>8. /\ \A id \in DOMAIN R : R[id].ahead \subseteq DOMAIN R
  BY <1>2, RestingFields
<1>9. MatchedSoFar(Found, Wanted, T, remainingShares - remainingShares, asked)
  <2> DEFINE m == remainingShares
  <2>1. m \in Nat /\ 0 < m /\ m <= m /\ m <= R[k].shares /\ m # R[k].shares
    BY <1>1, <1>2, <1>3
  <2>2. n = R[k].shares - m
    BY <1>2 DEF n
  <2>3. \A id \in DOMAIN T : T[id].ahead = R[id].ahead \cap DOMAIN T
    BY <1>5, <1>8
  <2> HIDE DEF m, R, T, k
  <2>4. Lessened(R, T, k, m)
    BY <1>5, <2>1, <2>2, <2>3 DEF Lessened
  <2>5. MatchedSoFar(Found, Wanted, T, m - m, asked)
    BY <2>1, <2>4, <1>6, <1>7, MatchedMore DEF m
  <2> QED
    BY <2>5 DEF m
<1>10. remainingShares - remainingShares = remainingShares'
  BY <1>1, <1>3
<1>11. MatchedSoFar(Found, Wanted, Resting', remainingShares', asked)
  BY <1>9, <1>10
<1> HIDE DEF R, T
<1>12. UNCHANGED <<call, entry, asked>> /\ pc \in {"level", "order"} /\ pc' \in {"level", "order"}
  BY <1>1
<1> QED
  BY <1>11, <1>12, MidCallOn

LEMMA FillWhollyMidCall ==
  ASSUME BookInv, MidCallInv, FillWholly, Remember PROVE MidCallInv'
<1> DEFINE i == currIdx
           o == pool[i]
           k == o.id
           R == Resting
           T == Resting'
<1>1. /\ pc = "order" /\ i # Nil /\ remainingShares > 0
      /\ o.shares <= remainingShares
      /\ remainingShares' = remainingShares - o.shares
      /\ orderMap' = [orderMap EXCEPT ![o.id] = Nil]
      /\ OP!deallocate(removeOrderPool(pool, i), i)
      /\ DropFromQueues(i)
      /\ UNCHANGED <<pc, call, entry, asked>>
  BY DEF FillWholly, Remember
<1>2. /\ StoreInv /\ QueueInv /\ TypeOK /\ FreeListInv
      /\ i \in Slot /\ o \in Order
      /\ R[k].shares = o.shares
      /\ k \in DOMAIN R
  BY <1>1, CurrentIsFirst DEF BookInv
<1>3. o.price \in PriceIdx /\ o.shares > 0
  BY <1>2, RestingSlot, OrderRests
<1>4. /\ remainingShares \in Nat /\ o.shares \in Nat
  BY <1>2 DEF TypeOK, Order
<1> HIDE DEF i, o
<1>5. /\ \A j \in Slot \ {i} : pool[j] \in Order => SameTerms(pool'[j], pool[j])
      /\ \A j \in Slot \ {i} : ahead'[j] = ahead[j] \ {i}
  BY <1>1, <1>2, <1>3, SlotFreed DEF o
<1>6. /\ DOMAIN T = DOMAIN R \ {k}
      /\ T \in [DOMAIN T -> Entry]
      /\ \A id \in DOMAIN T :
              /\ T[id].side = R[id].side
              /\ T[id].price = R[id].price
              /\ T[id].shares = R[id].shares
              /\ T[id].ahead = R[id].ahead \cap DOMAIN T
  BY <1>1, <1>2, <1>5, OthersRest DEF o
<1>7. FirstOf(Found, Wanted, R, k)
  BY <1>1, CurrentIsWanted DEF i, o
<1>8. /\ WellRanked(Found)
      /\ Wanted \in SUBSET DOMAIN Found
      /\ MatchedSoFar(Found, Wanted, R, remainingShares, asked)
  BY <1>1, FoundRanked
<1>9. MatchedSoFar(Found, Wanted, T, remainingShares - o.shares, asked)
  <2> DEFINE n == o.shares
  <2>1. /\ remainingShares \in Nat /\ n \in Nat /\ 0 < n
        /\ n <= remainingShares /\ n <= R[k].shares /\ n = R[k].shares
    BY <1>1, <1>2, <1>3, <1>4
  <2> HIDE DEF n, R, T, k
  <2>2. Lessened(R, T, k, n)
    BY <1>6, <2>1 DEF Lessened
  <2>3. MatchedSoFar(Found, Wanted, T, remainingShares - n, asked)
    BY <2>1, <2>2, <1>7, <1>8, MatchedMore
  <2> QED
    BY <2>3 DEF n
<1>10. MatchedSoFar(Found, Wanted, Resting', remainingShares', asked)
  BY <1>1, <1>9
<1> HIDE DEF R, T
<1>11. UNCHANGED <<call, entry, asked>> /\ pc \in {"level", "order"} /\ pc' \in {"level", "order"}
  BY <1>1
<1> QED
  BY <1>10, <1>11, MidCallOn

-----------------------------------------------------------------------------
\* What the other steps do to the orders that rest.
LEMMA CancelRests ==
  ASSUME BookInv, pc = "idle", NEW id \in Id, orderMap[id] # Nil, Cancel(id)
  PROVE  /\ id \in DOMAIN Resting
         /\ Resting' = Abstract!Without(Resting, id)
<1> DEFINE i == orderMap[id]
           o == pool[i]
<1>1. StoreInv /\ QueueInv /\ TypeOK /\ FreeListInv
  BY BookInvParts DEF BookInv
<1>2. id \in DOMAIN Resting
  BY RestingIs
<1>3. /\ i \in Slot /\ o \in Order /\ o.id = id /\ o.price \in PriceIdx
  BY <1>1, <1>2, RestingSlot
<1>4. levels[o.side][o.price] # NoLimit
  BY <1>1, <1>3, NeighboursLive
<1>5. /\ OP!deallocate(removeOrderPool(pool, i), i)
      /\ DropFromQueues(i)
      /\ orderMap' = [orderMap EXCEPT ![id] = Nil]
  BY <1>4 DEF Cancel
<1> HIDE DEF i
<1>6. /\ \A j \in Slot \ {i} : pool[j] \in Order => SameTerms(pool'[j], pool[j])
      /\ \A j \in Slot \ {i} : ahead'[j] = ahead[j] \ {i}
  BY <1>1, <1>3, <1>5, SlotFreed
<1>7. orderMap' = [orderMap EXCEPT ![pool[i].id] = Nil]
  BY <1>3, <1>5
<1>8. Resting' = Abstract!Without(Resting, pool[i].id)
  BY <1>1, <1>3, <1>6, <1>7, RestingWithout
<1> QED
  BY <1>2, <1>3, <1>8

LEMMA ModifyInPlaceRests ==
  ASSUME BookInv, NEW id \in Id, NEW S \in Quantity, NEW limit \in Price,
         ModifyInPlace(id, S, limit)
  PROVE  /\ id \in DOMAIN Resting
         /\ S > 0 /\ limit = Resting[id].price /\ S < Resting[id].shares
         /\ Resting' = [Resting EXCEPT ![id].shares = S]
<1> DEFINE i == orderMap[id]
           o == pool[i]
<1>1. /\ pc = "idle" /\ i # Nil /\ S # 0
      /\ limit = o.price /\ S < o.shares
      /\ pool' = [pool EXCEPT ![i].shares = S]
      /\ UNCHANGED <<orderMap, ahead>>
  BY DEF ModifyInPlace, KeepsPlace
<1>2. StoreInv /\ QueueInv
  BY <1>1, BookInvParts
<1>3. id \in DOMAIN Resting
  BY <1>1, RestingIs
<1>4. /\ i \in Slot /\ o \in Order /\ o.id = id
      /\ Resting[id].price = o.price /\ Resting[id].shares = o.shares
  BY <1>2, <1>3, RestingSlot, RestingFields
<1>5. S \in Nat \ {0}
  BY <1>1, BookAssumption
<1> HIDE DEF i
<1>6. Resting' = [Resting EXCEPT ![pool[i].id].shares = S]
  BY <1>1, <1>2, <1>4, <1>5, RestingReduced, ZenonT(60)
<1> QED
  BY <1>1, <1>3, <1>4, <1>5, <1>6

LEMMA ThrowRests ==
  ASSUME BookInv, ThrowExhausted \/ ThrowOutOfRange PROVE Resting' = Resting
<1>1. CASE ThrowExhausted
  BY <1>1, SameRests DEF ThrowExhausted, poolVars
<1>2. CASE ThrowOutOfRange
  <2> DEFINE h == head_free_index
  <2>1. /\ ToRest /\ ~OP!Exhausted
        /\ pool' = [pool EXCEPT ![h] = NewOrder]
        /\ UNCHANGED <<orderMap, ahead>>
    BY <1>2 DEF ThrowOutOfRange, OP!construct, OP!allocate
  <2>2. StoreInv /\ QueueInv /\ TypeOK /\ FreeListInv
    BY <2>1, AboutToRest DEF BookInv
  <2>3. h \in Slot /\ pool[h] \in OP!FreeNode
    BY <2>1, <2>2, FreeListTop
  <2>4. pool[h] \notin Order
    BY <2>3, OrderIsNoFreeNode
  <2>5. \A j \in Slot \ {h} : pool'[j] = pool[j]
    BY <2>1, <2>2 DEF TypeOK
  <2> HIDE DEF h
  <2> QED
    BY <2>1, <2>2, <2>4, <2>5, RestingSame
<1> QED
  BY <1>1, <1>2

LEMMA EmptyRests == Init \/ EmptyBook => Resting = Abstract!NoOrders
<1> SUFFICES ASSUME orderMap = [id \in Id |-> Nil] PROVE Resting = Abstract!NoOrders
  BY DEF Init, EmptyBook
<1>1. DOMAIN Resting = {}
  BY RestingIs
<1>2. DOMAIN Abstract!NoOrders = {} /\ Abstract!NoOrders = [id \in DOMAIN Abstract!NoOrders |-> Abstract!NoOrders[id]]
  BY DEF Abstract!NoOrders
<1>3. Resting = [id \in DOMAIN Resting |-> Resting[id]]
  BY RestingIs
<1> HIDE DEF Abstract!NoOrders
<1> QED
  BY <1>1, <1>2, <1>3, SameBook

-----------------------------------------------------------------------------
\* The steps with which a call begins.
LEMMA AddBegins ==
  ASSUME BookInv, MidCallInv, Remember,
         NEW id \in Id, NEW side \in Side, NEW S \in Quantity, NEW price \in Price,
         AddLimitOrder(id, side, S, price)
  PROVE  MidCallInv'
<1>1. /\ pc = "idle" /\ orderMap[id] = Nil
      /\ UNCHANGED <<pool, orderMap, ahead>>
      /\ pc' = "level"
      /\ call' = [op |-> "add", id |-> id, side |-> side, price |-> price]
      /\ remainingShares' = S
      /\ entry' = entry /\ asked' = S
  BY DEF AddLimitOrder, Enter, poolVars, Remember
<1>2. Resting' = Resting /\ entry = Resting /\ WellRanked(entry)
  BY <1>1, SameRests DEF MidCallInv
<1>3. /\ call'.op = "add" /\ call'.id = id /\ call'.price = price
  BY <1>1
<1>4. Found' = Resting'
  BY <1>1, <1>2, <1>3 DEF Found
<1>5. id \notin DOMAIN entry'
  BY <1>1, <1>2, RestingIs
<1>6. CallStands'
  BY <1>1, <1>3, <1>5 DEF CallStands
<1>7. WellRanked(entry') /\ WellRanked(Resting')
  BY <1>1, <1>2
<1> QED
  BY <1>1, <1>4, <1>6, <1>7, MidCallBegun

LEMMA MarketBegins ==
  ASSUME BookInv, MidCallInv, Remember,
         NEW side \in Side, NEW S \in Quantity, MarketOrder(side, S)
  PROVE  MidCallInv'
<1>1. /\ pc = "idle"
      /\ UNCHANGED <<pool, orderMap, ahead>>
      /\ pc' = "level"
      /\ call' = [op |-> "market", id |-> Nil, side |-> side, price |-> 0]
      /\ remainingShares' = S
      /\ entry' = entry /\ asked' = S
  BY DEF MarketOrder, Enter, poolVars, Remember
<1>2. Resting' = Resting /\ entry = Resting /\ WellRanked(entry)
  BY <1>1, SameRests DEF MidCallInv
<1>3. call'.op = "market"
  BY <1>1
<1>4. Found' = Resting'
  BY <1>1, <1>2, <1>3 DEF Found
<1>5. CallStands'
  BY <1>1, <1>3 DEF CallStands
<1>6. WellRanked(entry') /\ WellRanked(Resting')
  BY <1>1, <1>2
<1> QED
  BY <1>1, <1>4, <1>5, <1>6, MidCallBegun

LEMMA ReplaceBegins ==
  ASSUME BookInv, MidCallInv, Remember,
         NEW id \in Id, NEW S \in Quantity, NEW price \in Price,
         ModifyByReplace(id, S, price)
  PROVE  MidCallInv'
<1> DEFINE o == pool[orderMap[id]]
<1>1. /\ pc = "idle" /\ orderMap[id] # Nil /\ S # 0
      /\ ~(price = o.price /\ S < o.shares)
      /\ Cancel(id)
      /\ pc' = "level"
      /\ call' = [op |-> "modify", id |-> id, side |-> o.side, price |-> price]
      /\ remainingShares' = S
      /\ entry' = entry /\ asked' = S
  BY DEF ModifyByReplace, Enter, Remember, KeepsPlace
<1>2. /\ id \in DOMAIN Resting
      /\ Resting' = Abstract!Without(Resting, id)
      /\ entry = Resting /\ WellRanked(entry)
  BY <1>1, CancelRests DEF MidCallInv
<1>3. StoreInv /\ QueueInv
  BY <1>1, BookInvParts
<1>4. /\ Resting[id].side = o.side
      /\ Resting[id].price = o.price
      /\ Resting[id].shares = o.shares
  BY <1>2, <1>3, RestingFields
<1> HIDE DEF o
<1>5. /\ call'.op = "modify" /\ call'.id = id /\ call'.side = o.side /\ call'.price = price
  BY <1>1
<1>6. Found' = Resting'
  BY <1>1, <1>2, <1>5 DEF Found
<1>7. CallStands'
  BY <1>1, <1>2, <1>4, <1>5 DEF CallStands
<1>8. WellRanked(entry') /\ WellRanked(Resting')
  BY <1>1, <1>2, RankedWithout
<1> QED
  BY <1>1, <1>6, <1>7, <1>8, MidCallBegun

LEMMA MidCallStep == BookInv /\ MidCallInv /\ [NextR]_varsR => MidCallInv'
<1> SUFFICES ASSUME BookInv, MidCallInv, [NextR]_varsR PROVE MidCallInv'
  OBVIOUS
<1>1. CASE UNCHANGED varsR
  <2>1. UNCHANGED <<pool, orderMap, ahead>> /\ UNCHANGED <<pc, call, remainingShares, entry, asked>>
    BY <1>1 DEF varsR, vars
  <2>2. Resting' = Resting
    BY <2>1, SameRests
  <2>3. CASE pc \in {"level", "order"}
    <3>1. MatchedSoFar(Found, Wanted, Resting', remainingShares', asked)
      BY <2>1, <2>2, <2>3 DEF MidCallInv
    <3> QED
      BY <2>1, <2>3, <3>1, MidCallOn
  <2>4. CASE pc \notin {"level", "order"}
    BY <2>1, <2>2, <2>4 DEF MidCallInv
  <2> QED
    BY <2>3, <2>4
<1>2. CASE NextR
  <2>1. Next /\ Remember /\ [Next]_vars
    BY <1>2 DEF NextR
  <2>2. BookInv'
    BY <2>1, BookInvStep
  <2>3. pc' # "threw" => WellRanked(Resting')
    <3>1. (BookInv /\ pc # "threw" => WellRanked(Resting))'
      BY BookRanked, PTL
    <3> QED
      BY <3>1, <2>2
  <2>4. pc' = "idle" => MidCallInv'
    BY <2>1, <2>3, MidCallDone
  <2>5. ASSUME EnterLevel \/ LeaveLevel PROVE MidCallInv'
    <3>1. /\ UNCHANGED <<pool, orderMap, ahead>> /\ UNCHANGED <<call, remainingShares>>
          /\ pc \in {"level", "order"} /\ pc' \in {"level", "order"}
      BY <2>5 DEF EnterLevel, LeaveLevel, poolVars
    <3>2. Resting' = Resting /\ UNCHANGED <<entry, asked>>
      BY <2>1, <3>1, SameRests DEF Remember
    <3>3. MatchedSoFar(Found, Wanted, Resting', remainingShares', asked)
      BY <3>1, <3>2 DEF MidCallInv
    <3> QED
      BY <3>1, <3>2, <3>3, MidCallOn
  <2>6. ASSUME ThrowExhausted \/ ThrowOutOfRange PROVE MidCallInv'
    <3>1. pc = "level" /\ pc' = "threw"
      BY <2>6 DEF ThrowExhausted, ThrowOutOfRange, ToRest
    <3>2. Resting' = Resting
      BY <2>6, ThrowRests
    <3>3. WellRanked(Resting)
      BY <3>1, BookRanked
    <3>4. WellRanked(Resting')
      BY <3>2, <3>3
    <3> QED
      BY <2>1, <3>1, <3>4, MidCallDone
  <2>7. CASE Invoke
    <3>1. ASSUME NEW id \in Id, CancelLimitOrder(id) PROVE pc' = "idle"
      BY <3>1 DEF CancelLimitOrder
    <3>2. ASSUME NEW id \in Id, NEW S \in Quantity, ModifyToZero(id, S) PROVE pc' = "idle"
      BY <3>2, <3>1 DEF ModifyToZero
    <3>3. ASSUME NEW id \in Id, NEW S \in Quantity, NEW price \in Price,
                 ModifyInPlace(id, S, price)
          PROVE  pc' = "idle"
      BY <3>3 DEF ModifyInPlace
    <3>4. ASSUME Reset PROVE pc' = "idle"
      BY <3>4 DEF Reset
    <3> QED
      BY <2>1, <2>4, <2>7, <3>1, <3>2, <3>3, <3>4, AddBegins, MarketBegins, ReplaceBegins
         DEF Invoke
  <2>8. CASE Run
    <3>1. ASSUME Finish \/ Rest PROVE pc' = "idle"
      BY <3>1 DEF Finish, Rest, Return
    <3> QED
      BY <2>1, <2>4, <2>5, <2>6, <2>8, <3>1, FillPartlyMidCall, FillWhollyMidCall DEF Run
  <2> QED
    BY <2>1, <2>7, <2>8 DEF Next
<1> QED
  BY <1>1, <1>2

LEMMA MidCallInit == InitR => MidCallInv
<1> SUFFICES ASSUME InitR PROVE MidCallInv
  OBVIOUS
<1>1. Init /\ entry = Resting /\ asked = 0 /\ pc = "idle"
  BY DEF InitR, Init
<1>2. BookInv
  BY <1>1, BookInvInit
<1>3. WellRanked(Resting)
  BY <1>1, <1>2, BookRanked
<1> QED
  BY <1>1, <1>3 DEF MidCallInv

\* In the middle of a call the book is the one the call found, less what the
\* orders it accepts have given up, best price and oldest first, and what they
\* gave up is what the call has got: whatever the turn of the two loops.
THEOREM MatchingByPriority == SpecR => []MidCallInv
<1>1. InitR => BookInv /\ MidCallInv
  BY MidCallInit, BookInvInit DEF InitR
<1>2. BookInv /\ MidCallInv /\ [NextR]_varsR => BookInv' /\ MidCallInv'
  <2>1. [NextR]_varsR => [Next]_vars
    BY DEF NextR, varsR
  <2> QED
    BY <2>1, BookInvStep, MidCallStep
<1> QED
  BY <1>1, <1>2, PTL DEF SpecR

-----------------------------------------------------------------------------
\* Those with whom a call trades are those with whom the abstract call does.
LEMMA WantedIs ==
  ASSUME BookInv, MidCallInv, pc \in {"level", "order"}
  PROVE  /\ call.op = "market" => Wanted = Abstract!Of(Found, Abstract!Opposite(call.side))
         /\ call.op # "market" => Wanted = Abstract!Acceptable(Found, call.side, call.price)
<1>1. WellRanked(Found)
  BY FoundRanked
<1>2. \A i \in DOMAIN Found : Found[i].price \in Nat
  BY <1>1 DEF WellRanked, Entry
<1>3. call.side \in Side /\ call.price \in Nat
  BY DEF BookInv, TypeOK
<1>4. RestingSide = Abstract!Opposite(call.side)
  BY DEF RestingSide, Opposite, Abstract!Opposite
<1> HIDE DEF Found
<1>5. CASE call.op = "market"
  BY <1>4, <1>5 DEF Wanted, Crosses, Abstract!Of
<1>6. CASE call.op # "market"
  <2>1. ASSUME NEW i \in DOMAIN Found
        PROVE  Crosses(Found[i].price)
                 <=> ~Abstract!Before(Abstract!Opposite(call.side), call.price, Found[i].price)
    <3> DEFINE p == Found[i].price
    <3>1. p \in Nat
      BY <1>2
    <3> HIDE DEF p
    <3>2. Crosses(p) <=> ~Abstract!Before(Abstract!Opposite(call.side), call.price, p)
      BY <3>1, <1>3, <1>6 DEF Crosses, Abstract!Before, Abstract!Opposite, Side
    <3> QED
      BY <3>2 DEF p
  <2> QED
    BY <2>1, <1>4, <1>6 DEF Wanted, Abstract!Acceptable, Abstract!Of
<1> QED
  BY <1>5, <1>6

\* When the loops are over, the book is the one the whole match leaves, and the
\* shares left over are those it leaves over.
LEMMA MatchIsOver ==
  ASSUME BookInv, MidCallInv, pc = "level", LoopOver
  PROVE  /\ Abstract!Matched(Found, Wanted, asked) = Resting
         /\ remainingShares \in Nat
         /\ asked - Abstract!Total(Found, Wanted) \in Int
         /\ remainingShares = 0 => asked - Abstract!Total(Found, Wanted) <= 0
         /\ remainingShares > 0 => asked - Abstract!Total(Found, Wanted) = remainingShares
<1>1. /\ WellRanked(Found)
      /\ Wanted \in SUBSET DOMAIN Found
      /\ \A i, j \in Wanted : Found[i].side = Found[j].side
      /\ MatchedSoFar(Found, Wanted, Resting, remainingShares, asked)
  BY FoundRanked
<1>2. remainingShares \in Nat
  BY DEF BookInv, TypeOK
<1>3. remainingShares > 0 => Wanted \cap DOMAIN Resting = {}
  <2> SUFFICES ASSUME remainingShares > 0, NEW id \in DOMAIN Resting, id \in Wanted
               PROVE  FALSE
    OBVIOUS
  <2>1. Found[id].side = RestingSide /\ Crosses(Found[id].price)
    BY DEF Wanted
  <2>2. Resting[id].side = Found[id].side /\ Resting[id].price = Found[id].price
    BY <1>1, TakenKept
  <2>3. ~Crosses(Resting[id].price)
    BY <2>1, <2>2, NobodyLeft
  <2> QED
    BY <2>1, <2>2, <2>3
<1> DEFINE B == Found
           A == Wanted
           R == Resting
           m == remainingShares
<1> HIDE DEF B, A, R, m
<1>4. /\ Abstract!Matched(B, A, asked) = R
      /\ Abstract!Total(B, A) \in Nat
      /\ m = 0 => asked - Abstract!Total(B, A) <= 0
      /\ m > 0 => asked - Abstract!Total(B, A) = m
  BY <1>1, <1>2, <1>3, MatchedAtTheEnd DEF B, A, R, m
<1>5. asked \in Nat
  BY FoundRanked, BookAssumption DEF CallStands
<1> QED
  BY <1>2, <1>4, <1>5 DEF B, A, R, m

\* So a limit order that has run through the loops ends as the abstract one
\* does, if it rests when there is room and throws when there is none.
LEMMA SubmitEnds ==
  ASSUME BookInv, MidCallInv, pc = "level", LoopOver, call.op # "market",
         NEW fits \in BOOLEAN,
         fits <=> call.price < MAX_PRICE /\ Cardinality(DOMAIN Resting) < Capacity,
         pc' = "threw" <=> remainingShares > 0 /\ ~fits,
         entry' = IF remainingShares > 0 /\ fits
                  THEN Abstract!Joined(Resting, call.id, call.side, call.price, remainingShares)
                  ELSE Resting
  PROVE  Abstract!Submit(Found, call.id, call.side, asked, call.price)
<1> DEFINE against == Abstract!Acceptable(Found, call.side, call.price)
           M == Abstract!Matched(Found, against, asked)
           left == asked - Abstract!Total(Found, against)
           room == call.price < MAX_PRICE /\ Abstract!Cardinality(DOMAIN M) < Capacity
<1>1. against = Wanted
  BY WantedIs
<1>2. M = Resting
  BY <1>1, MatchIsOver
<1>3. /\ remainingShares \in Nat
      /\ left \in Int
      /\ remainingShares = 0 => left <= 0
      /\ remainingShares > 0 => left = remainingShares
  BY <1>1, MatchIsOver
<1> HIDE DEF against
<1>4. room <=> fits
  BY <1>2, SameCardinality
<1> HIDE DEF M, left
<1>5. left > 0 <=> remainingShares > 0
  BY <1>3
<1>6. entry' = IF left > 0 /\ room
               THEN Abstract!Joined(M, call.id, call.side, call.price, left) ELSE M
  BY <1>2, <1>3, <1>4, <1>5
<1>7. (pc = "threw")' = (left > 0 /\ ~room)
  BY <1>4, <1>5, Zenon
<1> QED
  BY <1>6, <1>7 DEF Abstract!Submit, against, M, left, room

\* What the caller of a call that ran through the loops gets.
LEMMA SubmitAnswers ==
  ASSUME BookInv, MidCallInv, pc = "level", call.op # "market",
         Abstract!Submit(Found, call.id, call.side, asked, call.price)
  PROVE  Answer
<1>1. call.op \in {"add", "modify"} /\ CallStands
  BY FoundRanked DEF BookInv, TypeOK, CallStands
<1>2. asked \in Nat
  BY <1>1, BookAssumption DEF CallStands
<1> DEFINE B == Found
<1>3. Abstract!Submit(B, call.id, call.side, asked, call.price)
  OBVIOUS
<1>4. call.op = "add" => B = entry
  BY DEF Found
<1>5. call.op = "modify" => B = Abstract!Without(entry, call.id)
  BY DEF Found
<1> HIDE DEF B
<1>6. CASE call.op = "add"
  <2>1. Abstract!AddLimitOrder(call.id, call.side, asked, call.price)
    BY <1>1, <1>3, <1>4, <1>6 DEF CallStands, Abstract!AddLimitOrder, Abstract!Ids
  <2> QED
    BY <2>1, <1>6 DEF Answer
<1>7. CASE call.op = "modify"
  <2>1. /\ call.id \in DOMAIN entry
        /\ entry[call.id].side = call.side
        /\ asked # 0
        /\ ~(call.price = entry[call.id].price /\ asked < entry[call.id].shares)
    BY <1>1, <1>7 DEF CallStands
  <2>2. Abstract!Submit(Abstract!Without(entry, call.id), call.id, entry[call.id].side,
                        asked, call.price)
    BY <2>1, <1>3, <1>5, <1>7
  <2>3. Abstract!ModifyLimitOrder(call.id, asked, call.price)
    BY <2>1, <2>2 DEF Abstract!ModifyLimitOrder, Abstract!Ids
  <2> QED
    BY <2>3, <1>7 DEF Answer
<1> QED
  BY <1>1, <1>6, <1>7

\* The four steps with which such a call returns or throws.
LEMMA FinishAnswers ==
  ASSUME BookInv, MidCallInv, Remember, Finish PROVE Answer
<1>1. /\ pc = "level" /\ LoopOver /\ pc' = "idle"
      /\ remainingShares = 0 \/ call.op = "market"
      /\ UNCHANGED <<pool, orderMap, ahead>>
  BY DEF Finish, Return, poolVars
<1>2. Resting' = Resting
  BY <1>1, SameRests
<1>3. entry' = Resting
  BY <1>1, <1>2 DEF Remember
<1>4. CASE call.op = "market"
  <2> DEFINE A == Abstract!Of(Found, Abstract!Opposite(call.side))
  <2>1. Found = entry
    BY <1>4 DEF Found
  <2>2. A = Wanted
    BY <1>1, <1>4, WantedIs
  <2>3. entry' = Abstract!Matched(Found, A, asked)
    BY <1>1, <1>3, <2>2, MatchIsOver
  <2>4. (pc = "threw")' = (pc = "threw")
    BY <1>1
  <2>5. Abstract!MarketOrder(call.side, asked)
    BY <2>1, <2>3, <2>4 DEF Abstract!MarketOrder
  <2> QED
    BY <2>5, <1>4 DEF Answer
<1>5. CASE call.op # "market"
  <2> DEFINE fits == call.price < MAX_PRICE /\ Cardinality(DOMAIN Resting) < Capacity
  <2>1. remainingShares = 0 /\ pc' # "threw"
    BY <1>1, <1>5
  <2>2. fits \in BOOLEAN
    OBVIOUS
  <2>3. ~(remainingShares > 0)
    BY <2>1
  <2>4. fits <=> call.price < MAX_PRICE /\ Cardinality(DOMAIN Resting) < Capacity
    OBVIOUS
  <2> HIDE DEF fits
  <2>5. Abstract!Submit(Found, call.id, call.side, asked, call.price)
    BY <1>1, <1>3, <1>5, <2>1, <2>2, <2>3, <2>4, SubmitEnds
  <2> QED
    BY <1>1, <1>5, <2>5, SubmitAnswers
<1> QED
  BY <1>4, <1>5

LEMMA RestAnswers ==
  ASSUME BookInv, MidCallInv, Remember, Rest PROVE Answer
<1>1. /\ ToRest /\ call.price \in PriceIdx /\ ~OP!Exhausted /\ pc' = "idle"
  BY DEF Rest, Return, OP!allocate
<1>2. /\ pc = "level" /\ LoopOver /\ remainingShares > 0 /\ call.op # "market"
  BY <1>1 DEF ToRest
<1>3. TypeOK /\ StoreInv /\ QueueInv
  BY <1>1, AboutToRest
<1>4. call.price < MAX_PRICE /\ Cardinality(DOMAIN Resting) < Capacity
  BY <1>1, <1>3, RoomLeft, BookAssumption DEF PriceIdx
<1>5. entry' = Abstract!Joined(Resting, call.id, call.side, call.price, remainingShares)
  BY <1>1, RestingJoined DEF Remember
<1>6. Abstract!Submit(Found, call.id, call.side, asked, call.price)
  BY <1>1, <1>2, <1>4, <1>5, SubmitEnds
<1> QED
  BY <1>2, <1>6, SubmitAnswers

LEMMA ThrowAnswers ==
  ASSUME BookInv, MidCallInv, Remember, ThrowExhausted \/ ThrowOutOfRange PROVE Answer
<1>1. ToRest /\ pc' = "threw" /\ (OP!Exhausted \/ call.price >= MAX_PRICE)
  BY DEF ThrowExhausted, ThrowOutOfRange
<1>2. /\ pc = "level" /\ LoopOver /\ remainingShares > 0 /\ call.op # "market"
  BY <1>1 DEF ToRest
<1>3. TypeOK /\ StoreInv /\ QueueInv /\ call.price \in Nat
  BY <1>1, AboutToRest
<1>4. ~(call.price < MAX_PRICE /\ Cardinality(DOMAIN Resting) < Capacity)
  BY <1>1, <1>3, NoRoomLeft, BookAssumption
<1>5. entry' = Resting
  BY <1>1, ThrowRests DEF Remember
<1>6. Abstract!Submit(Found, call.id, call.side, asked, call.price)
  BY <1>1, <1>2, <1>4, <1>5, SubmitEnds
<1> QED
  BY <1>2, <1>6, SubmitAnswers

\* The calls that are one step.
LEMMA CancelAnswers ==
  ASSUME BookInv, MidCallInv, Remember, NEW id \in Id, CancelLimitOrder(id)
  PROVE  Abstract!CancelLimitOrder(id) /\ id \in DOMAIN entry
         /\ entry' = Abstract!Without(entry, id)
<1>1. pc = "idle" /\ pc' = "idle" /\ orderMap[id] # Nil /\ Cancel(id)
  BY DEF CancelLimitOrder
<1>2. id \in DOMAIN Resting /\ Resting' = Abstract!Without(Resting, id)
  BY <1>1, CancelRests
<1>3. entry = Resting /\ entry' = Resting'
  BY <1>1 DEF MidCallInv, Remember
<1>4. (pc = "threw")' = (pc = "threw")
  BY <1>1
<1>5. id \in DOMAIN entry /\ entry' = Abstract!Without(entry, id)
  BY <1>2, <1>3
<1> QED
  BY <1>4, <1>5 DEF Abstract!CancelLimitOrder, Abstract!Ids

LEMMA ModifyAnswers ==
  ASSUME BookInv, MidCallInv, Remember,
         NEW id \in Id, NEW S \in Quantity, NEW limit \in Price,
         ModifyToZero(id, S) \/ ModifyInPlace(id, S, limit)
  PROVE  Abstract!ModifyLimitOrder(id, S, limit)
<1>1. CASE ModifyToZero(id, S)
  <2>1. S = 0 /\ CancelLimitOrder(id)
    BY <1>1 DEF ModifyToZero
  <2>2. Abstract!CancelLimitOrder(id) /\ id \in DOMAIN entry
        /\ entry' = Abstract!Without(entry, id)
    BY <2>1, CancelAnswers
  <2>3. (pc = "threw")' = (pc = "threw")
    BY <2>1 DEF CancelLimitOrder
  <2> QED
    BY <2>1, <2>2, <2>3 DEF Abstract!ModifyLimitOrder, Abstract!Ids
<1>2. CASE ModifyInPlace(id, S, limit)
  <2>1. pc = "idle" /\ pc' = "idle"
    BY <1>2 DEF ModifyInPlace
  <2>2. entry = Resting /\ entry' = Resting'
    BY <2>1 DEF MidCallInv, Remember
  <2>3. /\ id \in DOMAIN entry
        /\ S > 0 /\ limit = entry[id].price /\ S < entry[id].shares
        /\ entry' = [entry EXCEPT ![id].shares = S]
    BY <1>2, <2>2, ModifyInPlaceRests
  <2>4. (pc = "threw")' = (pc = "threw")
    BY <2>1
  <2>5. S \in Nat
    BY BookAssumption
  <2> QED
    BY <2>3, <2>4, <2>5 DEF Abstract!ModifyLimitOrder, Abstract!Ids
<1> QED
  BY <1>1, <1>2

LEMMA ResetAnswers ==
  ASSUME BookInv, MidCallInv, Remember, Reset PROVE Abstract!Reset
<1>1. /\ pc = "idle" /\ pc' = "idle" /\ EmptyBook'
  BY DEF Reset, EmptyBook, OP!reset
<1>2. (Init \/ EmptyBook => Resting = Abstract!NoOrders)'
  BY EmptyRests, PTL
<1>3. Abstract!NoOrders' = Abstract!NoOrders
  BY DEF Abstract!NoOrders
<1>4. entry' = Abstract!NoOrders
  BY <1>1, <1>2, <1>3 DEF Remember
<1>5. (pc = "threw")' = (pc = "threw")
  BY <1>1
<1> QED
  BY <1>4, <1>5 DEF Abstract!Reset

-----------------------------------------------------------------------------
\* Each step is one of the abstract book, or none at all.
LEMMA EndOfCallAnswers ==
  ASSUME BookInv, MidCallInv, NextR, pc \in {"level", "order"}, pc' \in {"idle", "threw"}
  PROVE  Answer
<1>1. Next /\ Remember
  BY DEF NextR
<1>2. ~Invoke
  BY DEF Invoke, AddLimitOrder, MarketOrder, CancelLimitOrder, ModifyToZero, ModifyInPlace,
     ModifyByReplace, Reset
<1>3. ~EnterLevel /\ ~FillPartly /\ ~FillWholly /\ ~LeaveLevel
  BY DEF EnterLevel, FillPartly, FillWholly, LeaveLevel
<1> QED
  BY <1>1, <1>2, <1>3, FinishAnswers, RestAnswers, ThrowAnswers DEF Next, Run

LEMMA AnswerIsAStep ==
  ASSUME BookInv, MidCallInv, pc \in {"level", "order"}, Answer PROVE Abstract!Next
<1>1. CallStands
  BY FoundRanked
<1>2. /\ call.op \in {"add", "modify", "market"}
      /\ call.side \in Abstract!Side
      /\ asked \in Quantity
      /\ call.op # "market" => call.price \in Price /\ call.id \in Id
  BY <1>1, BookInvParts DEF CallInv, IdFree, CallTypeOK, CallStands, Side, Abstract!Side
<1>3. CASE call.op = "add"
  <2>1. Abstract!AddLimitOrder(call.id, call.side, asked, call.price)
    BY <1>3 DEF Answer
  <2> QED
    BY <2>1, <1>2, <1>3 DEF Abstract!Next
<1>4. CASE call.op = "modify"
  <2>1. Abstract!ModifyLimitOrder(call.id, asked, call.price)
    BY <1>4 DEF Answer
  <2> QED
    BY <2>1, <1>2, <1>4 DEF Abstract!Next
<1>5. CASE call.op = "market"
  <2>1. Abstract!MarketOrder(call.side, asked)
    BY <1>5 DEF Answer
  <2> QED
    BY <2>1, <1>2 DEF Abstract!Next
<1> QED
  BY <1>2, <1>3, <1>4, <1>5

LEMMA SameCallStep == BookInv /\ MidCallInv /\ [NextR]_varsR => [SameCall]_varsR
<1> SUFFICES ASSUME BookInv, MidCallInv, NextR PROVE SameCall
  OBVIOUS
<1>1. Remember
  BY DEF NextR
<1>2. pc \in {"level", "order"} /\ pc' \in {"idle", "threw"} => Answer
  BY EndOfCallAnswers
<1>3. \A id \in Id : CancelLimitOrder(id) => Abstract!CancelLimitOrder(id)
  BY <1>1, CancelAnswers
<1>4. \A id \in Id, S \in Quantity, limit \in Price :
        ModifyToZero(id, S) \/ ModifyInPlace(id, S, limit)
          => Abstract!ModifyLimitOrder(id, S, limit)
  BY <1>1, ModifyAnswers
<1>5. Reset => Abstract!Reset
  BY <1>1, ResetAnswers
<1> QED
  BY <1>2, <1>3, <1>4, <1>5 DEF SameCall

LEMMA AbstractStep == BookInv /\ MidCallInv /\ [NextR]_varsR => [Abstract!Next]_Abstract!vars
<1> SUFFICES ASSUME BookInv, MidCallInv, [NextR]_varsR PROVE [Abstract!Next]_Abstract!vars
  OBVIOUS
<1>1. CASE UNCHANGED varsR
  BY <1>1 DEF varsR, vars, Abstract!vars
<1>2. CASE NextR
  <2>1. Next /\ Remember
    BY <1>2, ZenonT(60) DEF NextR
  <2>2. pc \in {"idle", "level", "order"}
        /\ pc' \in {"idle", "level", "order", "threw"}
    BY <2>1 DEF Next, Invoke, Run, AddLimitOrder, MarketOrder, CancelLimitOrder, ModifyToZero,
       ModifyInPlace, ModifyByReplace, Reset, EnterLevel, FillPartly, FillWholly, LeaveLevel,
       Finish, Rest, ToRest, ThrowExhausted, ThrowOutOfRange, Enter, Return
  <2>3. CASE pc' \in {"level", "order"}
    <3>1. entry' = entry /\ (pc = "threw")' = (pc = "threw")
      BY <2>1, <2>2, <2>3 DEF Remember
    <3> QED
      BY <3>1 DEF Abstract!vars
  <2>4. CASE pc \in {"level", "order"} /\ pc' \in {"idle", "threw"}
    BY <1>2, <2>4, EndOfCallAnswers, AnswerIsAStep
  <2>5. CASE pc = "idle" /\ pc' \in {"idle", "threw"}
    <3>1. \/ \E id \in Id : CancelLimitOrder(id)
          \/ \E id \in Id, S \in Quantity : ModifyToZero(id, S)
          \/ \E id \in Id, S \in Quantity, limit \in Price : ModifyInPlace(id, S, limit)
          \/ Reset
      BY <2>1, <2>5 DEF Next, Invoke, Run, AddLimitOrder, MarketOrder, ModifyByReplace, Enter,
         EnterLevel, FillPartly, FillWholly, LeaveLevel, Finish, Rest, ToRest,
         ThrowExhausted, ThrowOutOfRange
    <3>2. ~(pc = "threw")
      BY <2>5
    <3>3. ASSUME NEW id \in Id, CancelLimitOrder(id) PROVE Abstract!Next
      <4>1. Abstract!CancelLimitOrder(id)
        BY <2>1, <3>3, CancelAnswers
      <4> QED
        BY <4>1, <3>2 DEF Abstract!Next
    <3>4. ASSUME NEW id \in Id, NEW S \in Quantity, ModifyToZero(id, S) PROVE Abstract!Next
      BY <3>3, <3>4 DEF ModifyToZero
    <3>5. ASSUME NEW id \in Id, NEW S \in Quantity, NEW limit \in Price,
                 ModifyInPlace(id, S, limit)
          PROVE  Abstract!Next
      <4>1. Abstract!ModifyLimitOrder(id, S, limit)
        BY <2>1, <3>5, ModifyAnswers
      <4> QED
        BY <4>1, <3>2 DEF Abstract!Next
    <3>6. ASSUME Reset PROVE Abstract!Next
      <4>1. Abstract!Reset
        BY <2>1, <3>6, ResetAnswers
      <4> QED
        BY <4>1, <3>2 DEF Abstract!Next
    <3> QED
      BY <3>1, <3>3, <3>4, <3>5, <3>6
  <2> QED
    BY <2>2, <2>3, <2>4, <2>5
<1> QED
  BY <1>1, <1>2

LEMMA AbstractInit == InitR => Abstract!Init
<1> SUFFICES ASSUME InitR PROVE Abstract!Init
  OBVIOUS
<1>1. entry = Abstract!NoOrders
  BY EmptyRests DEF InitR
<1>2. (pc = "threw") = FALSE
  BY DEF InitR, Init
<1> QED
  BY <1>1, <1>2 DEF Abstract!Init

\* Every call of book.cpp, with its two nested loops, its lists, its id map and
\* its recycled slots, has exactly the effect of one atomic price-time priority
\* match of a call with the same arguments: for every capacity, price range, set
\* of ids, prices and quantities.
THEOREM BookIsPriceTimeBook == SpecR => ImplementsPriceTimeBook
<1>1. InitR => BookInv /\ MidCallInv /\ Abstract!Init
  BY MidCallInit, BookInvInit, AbstractInit DEF InitR
<1>2. BookInv /\ MidCallInv /\ [NextR]_varsR => BookInv' /\ MidCallInv'
  <2>1. [NextR]_varsR => [Next]_vars
    BY DEF NextR, varsR
  <2> QED
    BY <2>1, BookInvStep, MidCallStep
<1>3. BookInv /\ MidCallInv /\ [NextR]_varsR => [Abstract!Next]_Abstract!vars
  BY AbstractStep
<1>4. BookInv /\ MidCallInv /\ [NextR]_varsR => [SameCall]_varsR
  BY SameCallStep
<1> QED
  BY <1>1, <1>2, <1>3, <1>4, PTL DEF SpecR, ImplementsPriceTimeBook, Abstract!Spec
=============================================================================
