-------------------------- MODULE ObjectPoolProofs --------------------------
(***************************************************************************)
(* Proofs about ObjectPool, for every capacity and every set of objects.   *)
(* The lemmas about a push and a pop are stated for any step that changes  *)
(* the other slots only as the owner of a live object may, so that Book's  *)
(* steps, which also relink orders, are instances of them.                 *)
(***************************************************************************)
EXTENDS ObjectPool, FiniteSetTheorems, TLAPS

\* No slot but i changes its kind, and no free node but i's changes.
OthersKept(i) ==
  \A j \in Slot \ {i} :
    /\ pool[j] \in FreeNode => pool'[j] = pool[j]
    /\ pool[j] \in Object => pool'[j] \in Object

\* A slot is never both an object and a free node.
LEMMA Disjoint == ASSUME NEW x PROVE ~(x \in Object /\ x \in FreeNode)
BY PoolAssumption

\* If the pool is not exhausted the top of the free stack is a free slot.
LEMMA TopIsFree ==
  ASSUME TypeOK, FreeListInv, ~Exhausted
  PROVE  /\ head_free_index \in Slot
         /\ pool[head_free_index] \in FreeNode
<1>0. PICK n \in 0 .. Capacity : \E s \in [1 .. n -> Slot] : FreeList(n, s)
  BY DEF FreeListInv
<1>1. PICK s \in [1 .. n -> Slot] : FreeList(n, s)
  BY <1>0
<1>2. n # 0
  BY <1>1 DEF FreeList, Exhausted
<1>3. 1 \in 1 .. n
  BY <1>2, PoolAssumption
<1>4. head_free_index = s[1]
  BY <1>1, <1>2 DEF FreeList
<1>5. s[1] \in FreeSlots
  BY <1>1, <1>3 DEF FreeList
<1> QED
  BY <1>4, <1>5 DEF FreeSlots

\* If it is exhausted there is no free slot.
LEMMA NoneIsFree ==
  ASSUME TypeOK, FreeListInv, Exhausted, NEW i \in Slot PROVE pool[i] \in Object
<1>0. PICK n \in 0 .. Capacity : \E s \in [1 .. n -> Slot] : FreeList(n, s)
  BY DEF FreeListInv
<1>1. PICK s \in [1 .. n -> Slot] : FreeList(n, s)
  BY <1>0
<1>2. n = 0
  <2>1. n # 0 => s[1] \in Slot
    <3>1. n # 0 => 1 \in 1 .. n
      BY PoolAssumption
    <3> QED
      BY <3>1
  <2>2. Nil \notin Slot
    BY PoolAssumption DEF Nil, Slot
  <2> QED
    BY <1>1, <2>1, <2>2 DEF FreeList, Exhausted
<1>3. FreeSlots = {}
  BY <1>1, <1>2 DEF FreeList
<1> QED
  BY <1>3 DEF FreeSlots, TypeOK

\* allocate takes the top off the free stack.
LEMMA PopKeepsFreeList ==
  ASSUME TypeOK, FreeListInv, ~Exhausted,
         head_free_index' = pool[head_free_index].next_free_index,
         pool'[head_free_index] \in Object,
         OthersKept(head_free_index)
  PROVE  FreeListInv'
<1>0. PICK n \in 0 .. Capacity : \E s \in [1 .. n -> Slot] : FreeList(n, s)
  BY DEF FreeListInv
<1>1. PICK s \in [1 .. n -> Slot] : FreeList(n, s)
  BY <1>0
<1>2. n \in 1 .. Capacity
  BY <1>1, PoolAssumption DEF FreeList, Exhausted
<1>3. head_free_index = s[1] /\ 1 \in 1 .. n
  BY <1>1, <1>2 DEF FreeList
<1> DEFINE t == [i \in 1 .. n - 1 |-> s[i + 1]]
<1>4. t \in [1 .. n - 1 -> Slot] /\ n - 1 \in 0 .. Capacity
  BY <1>2, PoolAssumption
<1>5. \A i, j \in 1 .. n - 1 : t[i] = t[j] => i = j
  BY <1>1, <1>2 DEF FreeList
<1>6. FreeSlots' = FreeSlots \ {s[1]}
  BY <1>3, TopIsFree, Disjoint DEF FreeSlots, OthersKept, TypeOK, Slot
<1>7. FreeSlots' = {t[i] : i \in 1 .. n - 1}
  <2>1. FreeSlots = {s[i] : i \in 1 .. n}
    BY <1>1 DEF FreeList
  <2>2. \A i \in 1 .. n : s[i] # s[1] => i - 1 \in 1 .. n - 1 /\ t[i - 1] = s[i]
    BY <1>2
  <2>3. \A i \in 1 .. n - 1 : i + 1 \in 1 .. n /\ t[i] = s[i + 1] /\ s[i + 1] # s[1]
    BY <1>1, <1>2 DEF FreeList
  <2>4. \A x \in FreeSlots' : \E i \in 1 .. n - 1 : x = t[i]
    <3> SUFFICES ASSUME NEW x \in FreeSlots' PROVE \E i \in 1 .. n - 1 : x = t[i]
      OBVIOUS
    <3>1. PICK i \in 1 .. n : x = s[i]
      BY <1>6, <2>1
    <3> HIDE DEF t
    <3> QED
      BY <3>1, <1>6, <2>2
  <2>5. \A i \in 1 .. n - 1 : t[i] \in FreeSlots'
    <3> HIDE DEF t
    <3> QED
      BY <1>6, <2>1, <2>3
  <2> HIDE DEF t
  <2> QED
    BY <2>4, <2>5
<1>8. \A i \in 1 .. n - 1 :
        pool'[t[i]].next_free_index = IF i = n - 1 THEN Nil ELSE t[i + 1]
  <2> SUFFICES ASSUME NEW i \in 1 .. n - 1
               PROVE  pool'[t[i]].next_free_index = IF i = n - 1 THEN Nil ELSE t[i + 1]
    OBVIOUS
  <2>1. i + 1 \in 1 .. n /\ t[i] = s[i + 1] /\ t[i] \in FreeSlots /\ t[i] # s[1]
    BY <1>1, <1>2 DEF FreeList
  <2>2. pool'[t[i]] = pool[t[i]]
    BY <2>1, <1>3 DEF OthersKept, FreeSlots
  <2>3. pool[s[i + 1]].next_free_index = IF i + 1 = n THEN Nil ELSE s[i + 2]
    <3>1. pool[s[i + 1]].next_free_index = IF i + 1 = n THEN Nil ELSE s[(i + 1) + 1]
      BY <1>1, <2>1 DEF FreeList
    <3>2. (i + 1) + 1 = i + 2
      BY <1>2
    <3> QED
      BY <3>1, <3>2
  <2>4. i # n - 1 => t[i + 1] = s[i + 2]
    <3>1. i # n - 1 => i + 1 \in 1 .. n - 1 /\ (i + 1) + 1 = i + 2
      BY <1>2
    <3> QED
      BY <3>1
  <2> QED
    BY <2>1, <2>2, <2>3, <2>4, <1>2
<1>9. head_free_index' = IF n - 1 = 0 THEN Nil ELSE t[1]
  <2>1. head_free_index' = IF 1 = n THEN Nil ELSE s[1 + 1]
    BY <1>1, <1>3 DEF FreeList
  <2>2. n - 1 # 0 => 1 \in 1 .. n - 1
    BY <1>2
  <2> QED
    BY <2>1, <2>2, <1>2
<1>10. FreeList(n - 1, t)'
  BY <1>5, <1>7, <1>8, <1>9 DEF FreeList
<1> QED
  BY <1>4, <1>10 DEF FreeListInv

\* deallocate puts a slot that was in use on top of the free stack; there is
\* room for it because no slot is listed twice.
LEMMA PushKeepsFreeList ==
  ASSUME TypeOK, FreeListInv, NEW i \in Live,
         pool'[i] = [next_free_index |-> head_free_index],
         head_free_index' = i,
         OthersKept(i)
  PROVE  FreeListInv'
<1>0. PICK n \in 0 .. Capacity : \E s \in [1 .. n -> Slot] : FreeList(n, s)
  BY DEF FreeListInv
<1>1. PICK s \in [1 .. n -> Slot] : FreeList(n, s)
  BY <1>0
<1>2. i \in Slot /\ i \notin FreeSlots /\ pool[i] \in Object
  BY Disjoint DEF Live, FreeSlots
<1>3. n < Capacity
  <2>1. s \in Injection(1 .. n, Slot \ {i})
    BY <1>1, <1>2 DEF FreeList, Injection, IsInjective
  <2>2. IsFiniteSet(Slot) /\ Cardinality(Slot) = Capacity
    <3>1. 0 \in Int /\ Capacity - 1 \in Int /\ ~(0 > Capacity - 1)
      BY PoolAssumption
    <3>2. /\ IsFiniteSet(0 .. Capacity - 1)
          /\ Cardinality(0 .. Capacity - 1) = (Capacity - 1) - 0 + 1
      BY <3>1, FS_Interval
    <3>3. (Capacity - 1) - 0 + 1 = Capacity
      BY PoolAssumption
    <3> QED
      BY <3>2, <3>3 DEF Slot
  <2>3. IsFiniteSet(Slot \ {i}) /\ Cardinality(Slot \ {i}) = Capacity - 1
    BY <2>2, <1>2, FS_RemoveElement
  <2>4. Cardinality(1 .. n) = n
    BY FS_Interval, PoolAssumption
  <2>5. Cardinality(1 .. n) <= Cardinality(Slot \ {i})
    BY <2>1, <2>3, FS_Injection
  <2> QED
    BY <2>3, <2>4, <2>5, PoolAssumption
<1> DEFINE t == [k \in 1 .. n + 1 |-> IF k = 1 THEN i ELSE s[k - 1]]
<1>4. t \in [1 .. n + 1 -> Slot] /\ n + 1 \in 0 .. Capacity
  BY <1>2, <1>3, PoolAssumption
<1>5. \A k \in 1 .. n : k + 1 \in 1 .. n + 1 /\ t[k + 1] = s[k] /\ s[k] \in FreeSlots /\ s[k] # i
  BY <1>1, <1>2, PoolAssumption DEF FreeList
<1>6. \A k \in 1 .. n + 1 : k # 1 => k - 1 \in 1 .. n /\ t[k] = s[k - 1]
  BY PoolAssumption
<1>7. 1 \in 1 .. n + 1 /\ t[1] = i
  BY PoolAssumption
<1> HIDE DEF t
<1>8. \A j, k \in 1 .. n + 1 : t[j] = t[k] => j = k
  BY <1>1, <1>5, <1>6, <1>7 DEF FreeList
<1>9. FreeSlots' = FreeSlots \cup {i}
  BY <1>2, Disjoint DEF FreeSlots, OthersKept, TypeOK, FreeNode
<1>10. FreeSlots' = {t[k] : k \in 1 .. n + 1}
  <2>1. FreeSlots = {s[k] : k \in 1 .. n}
    BY <1>1 DEF FreeList
  <2>2. \A x \in FreeSlots' : \E k \in 1 .. n + 1 : x = t[k]
    <3> SUFFICES ASSUME NEW x \in FreeSlots' PROVE \E k \in 1 .. n + 1 : x = t[k]
      OBVIOUS
    <3>1. CASE x = i
      BY <3>1, <1>7
    <3>2. CASE x # i
      <4>1. PICK k \in 1 .. n : x = s[k]
        BY <3>2, <1>9, <2>1
      <4> QED
        BY <4>1, <1>5
    <3> QED
      BY <3>1, <3>2
  <2>3. \A k \in 1 .. n + 1 : t[k] \in FreeSlots'
    BY <1>9, <2>1, <1>6, <1>7
  <2> QED
    BY <2>2, <2>3
<1>11. \A k \in 1 .. n + 1 :
         pool'[t[k]].next_free_index = IF k = n + 1 THEN Nil ELSE t[k + 1]
  <2>1. pool'[t[1]].next_free_index = IF 1 = n + 1 THEN Nil ELSE t[1 + 1]
    <3>1. pool'[t[1]].next_free_index = head_free_index
      BY <1>7
    <3>2. n # 0 => 1 \in 1 .. n
      BY PoolAssumption
    <3>3. head_free_index = IF n = 0 THEN Nil ELSE s[1]
      BY <1>1 DEF FreeList
    <3> QED
      BY <3>1, <3>2, <3>3, <1>5
  <2>2. ASSUME NEW k \in 1 .. n + 1, k # 1
        PROVE  pool'[t[k]].next_free_index = IF k = n + 1 THEN Nil ELSE t[k + 1]
    <3>1. k - 1 \in 1 .. n /\ t[k] = s[k - 1]
      BY <1>6, <2>2
    <3>2. pool'[s[k - 1]] = pool[s[k - 1]]
      BY <3>1, <1>5 DEF OthersKept, FreeSlots
    <3>3. pool[s[k - 1]].next_free_index = IF k - 1 = n THEN Nil ELSE s[(k - 1) + 1]
      BY <1>1, <3>1 DEF FreeList
    <3>4. (k - 1) + 1 = k /\ (k - 1 = n <=> k = n + 1) /\ (k # n + 1 => k \in 1 .. n)
      BY PoolAssumption
    <3> QED
      BY <3>1, <3>2, <3>3, <3>4, <1>5
  <2> QED
    BY <2>1, <2>2
<1>12. n + 1 # 0
  BY PoolAssumption
<1>13. FreeList(n + 1, t)'
  BY <1>7, <1>8, <1>10, <1>11, <1>12 DEF FreeList
<1> QED
  BY <1>4, <1>13 DEF FreeListInv

\* A step of the owner of a live object leaves the free stack alone.
LEMMA OwnerKeepsFreeList ==
  ASSUME TypeOK, FreeListInv, UNCHANGED head_free_index,
         \A j \in Slot : /\ pool[j] \in FreeNode => pool'[j] = pool[j]
                         /\ pool[j] \in Object => pool'[j] \in Object
  PROVE  FreeListInv'
<1>0. PICK n \in 0 .. Capacity : \E s \in [1 .. n -> Slot] : FreeList(n, s)
  BY DEF FreeListInv
<1>1. PICK s \in [1 .. n -> Slot] : FreeList(n, s)
  BY <1>0
<1>2. FreeSlots' = FreeSlots
  BY Disjoint DEF FreeSlots, TypeOK
<1>3. \A k \in 1 .. n : pool'[s[k]] = pool[s[k]]
  BY <1>1 DEF FreeList, FreeSlots
<1>4. FreeList(n, s)'
  BY <1>1, <1>2, <1>3 DEF FreeList
<1> QED
  BY <1>0, <1>4 DEF FreeListInv

\* The block in which every slot is linked to its successor is all free.
LEMMA LinkedIsFreeList ==
  pool = Linked /\ head_free_index = 0 => TypeOK /\ FreeListInv
<1> SUFFICES ASSUME pool = Linked, head_free_index = 0
             PROVE  TypeOK /\ FreeListInv
  OBVIOUS
<1> DEFINE s == [i \in 1 .. Capacity |-> i - 1]
<1>1. s \in [1 .. Capacity -> Slot] /\ Capacity \in 0 .. Capacity
  BY PoolAssumption DEF Slot
<1>2. \A i \in Slot : pool[i] \in FreeNode
  <2> SUFFICES ASSUME NEW i \in Slot PROVE pool[i] \in FreeNode
    OBVIOUS
  <2>1. (IF i = Capacity - 1 THEN Nil ELSE i + 1) \in Slot \cup {Nil}
    BY PoolAssumption DEF Slot
  <2> QED
    BY <2>1 DEF Linked, FreeNode
<1>3. TypeOK /\ FreeSlots = Slot
  <2>1. 0 \in Slot
    BY PoolAssumption DEF Slot
  <2> QED
    BY <1>2, <2>1 DEF TypeOK, FreeSlots, Linked
<1>4. Slot = {s[i] : i \in 1 .. Capacity}
  <2>1. \A x \in Slot : x + 1 \in 1 .. Capacity /\ s[x + 1] = x
    BY PoolAssumption DEF Slot
  <2> QED
    BY <1>1, <2>1
<1>5. \A i \in 1 .. Capacity :
        pool[s[i]].next_free_index = IF i = Capacity THEN Nil ELSE s[i + 1]
  BY PoolAssumption DEF Linked, Slot
<1>6. FreeList(Capacity, s)
  <2>1. \A i, j \in 1 .. Capacity : s[i] = s[j] => i = j
    BY PoolAssumption
  <2>2. head_free_index = IF Capacity = 0 THEN Nil ELSE s[1]
    BY PoolAssumption
  <2> QED
    BY <1>3, <1>4, <1>5, <2>1, <2>2 DEF FreeList
<1> QED
  BY <1>1, <1>3, <1>6 DEF FreeListInv

-----------------------------------------------------------------------------
\* Neither half is inductive on its own: that allocate reads a free node is
\* FreeListInv, and that the links stay in the block is TypeOK.
PoolInv == TypeOK /\ FreeListInv

LEMMA PoolInvStep == PoolInv /\ [Next]_vars => PoolInv'
<1> SUFFICES ASSUME PoolInv, [Next]_vars PROVE PoolInv'
  OBVIOUS
<1> USE DEF PoolInv
<1>1. ASSUME NEW o \in Object, construct(o) PROVE PoolInv'
  <2>1. head_free_index \in Slot /\ pool[head_free_index] \in FreeNode
    BY <1>1, TopIsFree DEF construct, allocate
  <2>2. pool[head_free_index].next_free_index \in Slot \cup {Nil}
    BY <2>1 DEF FreeNode
  <2>3. TypeOK'
    BY <1>1, <2>1, <2>2 DEF construct, allocate, TypeOK
  <2>4. pool'[head_free_index] \in Object /\ OthersKept(head_free_index)
    BY <1>1, <2>1 DEF construct, OthersKept, TypeOK
  <2>5. FreeListInv'
    BY <1>1, <2>4, PopKeepsFreeList DEF construct, allocate
  <2> QED
    BY <2>3, <2>5
<1>2. ASSUME NEW i \in Slot, destroy(i) PROVE PoolInv'
  <2>1. i \in Live /\ pool' = Deallocated(pool, i) /\ head_free_index' = i
    BY <1>2 DEF destroy, deallocate
  <2>2. /\ pool'[i] = [next_free_index |-> head_free_index]
        /\ OthersKept(i)
    BY <1>2, <2>1 DEF Deallocated, OthersKept, TypeOK
  <2>3. TypeOK'
    BY <1>2, <2>1 DEF Deallocated, TypeOK, FreeNode
  <2>4. FreeListInv'
    BY <2>1, <2>2, PushKeepsFreeList
  <2> QED
    BY <2>3, <2>4
<1>3. ASSUME NEW i \in Slot, NEW o \in Object, get(i, o) PROVE PoolInv'
  <2>1. TypeOK'
    BY <1>3 DEF get, TypeOK
  <2>2. \A j \in Slot : /\ pool[j] \in FreeNode => pool'[j] = pool[j]
                        /\ pool[j] \in Object => pool'[j] \in Object
    BY <1>3, Disjoint DEF get, TypeOK, Live
  <2>3. FreeListInv'
    BY <1>3, <2>2, OwnerKeepsFreeList DEF get
  <2> QED
    BY <2>1, <2>3
<1>4. ASSUME reset PROVE PoolInv'
  <2>1. (pool = Linked /\ head_free_index = 0 => TypeOK /\ FreeListInv)'
    BY LinkedIsFreeList, PTL
  <2> QED
    BY <1>4, <2>1 DEF reset, Linked
<1>5. ASSUME UNCHANGED vars PROVE PoolInv'
  BY <1>5 DEF vars, TypeOK, FreeListInv, FreeList, FreeSlots
<1> QED
  BY <1>1, <1>2, <1>3, <1>4, <1>5 DEF Next

LEMMA PoolInvInit == Init => PoolInv
BY LinkedIsFreeList DEF Init, PoolInv

\* Whatever a client constructs, destroys and changes through get, a slot is
\* an object or a free node and the free stack stays inside the block.
THEOREM PoolTyped == Spec => []TypeOK
<1>1. PoolInv => TypeOK
  BY DEF PoolInv
<1> QED
  BY <1>1, PoolInvInit, PoolInvStep, PTL DEF Spec

\* For every capacity, the free stack lists exactly the slots that are not in
\* use, each once: no slot is leaked and none is handed out twice.
THEOREM FreeListExact == Spec => []FreeListInv
<1>1. PoolInv => FreeListInv
  BY DEF PoolInv
<1> QED
  BY <1>1, PoolInvInit, PoolInvStep, PTL DEF Spec
=============================================================================
