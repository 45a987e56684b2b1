-------------------------- MODULE RingBufferProofs --------------------------
(***************************************************************************)
(* The ring buffer for every power-of-two capacity, indeed for every       *)
(* positive one, and any number of items: types, the two counters never    *)
(* more than Capacity - 1 apart, and no data race.                         *)
(***************************************************************************)
EXTENDS SPSCRingBuffer, NumberLemmas, SequenceTheorems

-----------------------------------------------------------------------------
(* The invariant *)

\* The n-th value stored in either atomic is n - 1, modulo the capacity.
Indices ==
  /\ \A n \in 1 .. Len(head) : head[n] = (n - 1) % Capacity
  /\ \A n \in 1 .. Len(tail) : tail[n] = (n - 1) % Capacity

\* What each thread knows of the other is what it has acquired, and by that
\* knowledge alone there is room for the item being pushed, and there is the
\* item being popped.
Views ==
  /\ drains = seenTail - 1 /\ fills = seenHead - 1
  /\ Pushed - drains <= Capacity - 1
  /\ pcPush # "idle" => Pushed - drains < Capacity - 1
  /\ Popped <= fills
  /\ pcPop # "idle" => Popped < fills

RingInv == TypeOK /\ Indices /\ Views

LEMMA InitRing == ASSUME Init PROVE RingInv
  <1> USE RingAssumption
  <1>1. 0 \in Index /\ 0 % Capacity = 0
    <2>1. 0 = 0 * Capacity + 0 /\ 0 \in 0 .. Capacity - 1 OBVIOUS
    <2> QED BY <2>1, ModOf DEF Index
  <1>2. TypeOK BY <1>1 DEF Init, TypeOK, Index, Word, Item, NoItem, Pushed, Popped
  <1>3. Indices BY <1>1 DEF Init, Indices
  <1>4. Views BY DEF Init, Views, Pushed, Popped
  <1> QED BY <1>2, <1>3, <1>4 DEF RingInv

LEMMA NextIndex == ASSUME NEW i \in Index PROVE next(i) \in Index
  BY RingAssumption, DivMod, i + 1 \in Nat DEF next, Index

LEMMA PushLoadKeeps == ASSUME RingInv, PushLoad PROVE RingInv'
  <1> USE RingAssumption DEF RingInv, PushLoad, popVars
  <1>1. PICK n \in seenTail .. Len(tail) :
          /\ seenTail' = n
          /\ drains' = n - 1
          /\ pcPush' = IF IsFull(Newest(head), tail[n]) THEN "idle" ELSE "first"
    BY DEF Acquire
  <1>2. n \in 1 .. Len(tail) /\ n \in Nat /\ Len(tail) \in Nat /\ Len(head) \in Nat
    BY <1>1 DEF TypeOK
  <1>3. TypeOK'
    BY <1>1, <1>2 DEF TypeOK, Popped, Pushed
  <1>4. Indices' BY DEF Indices
  <1>5. Pushed - (n - 1) < Capacity - 1 \/ pcPush' = "idle"
    <2> SUFFICES ASSUME Pushed - (n - 1) >= Capacity - 1 PROVE IsFull(Newest(head), tail[n])
      BY <1>1, <1>2 DEF Pushed
    <2>1. Pushed + 1 = (n - 1) + Capacity /\ Pushed \in Nat /\ n - 1 \in Nat
      BY <1>1, <1>2 DEF Views, TypeOK, Pushed, Popped
    <2>2. Newest(head) = Pushed % Capacity /\ tail[n] = (n - 1) % Capacity
      BY <1>2 DEF Newest, Indices, Pushed, TypeOK
    <2>3. ((Pushed % Capacity) + 1) % Capacity = (Pushed + 1) % Capacity BY <2>1, ModNext
    <2>4. ((n - 1) + Capacity) % Capacity = (n - 1) % Capacity BY <2>1, ModWrap
    <2> QED BY <2>1, <2>2, <2>3, <2>4 DEF IsFull, next
  <1>6. Views'
    BY <1>1, <1>2, <1>5, SMTT(30) DEF Views, Pushed, Popped, TypeOK
  <1> QED BY <1>3, <1>4, <1>6

LEMMA PushWordKeeps ==
  ASSUME RingInv, PushFirstWord \/ PushSecondWord
  PROVE  RingInv'
  <1> USE RingAssumption DEF RingInv, PushFirstWord, PushSecondWord, PushWord, popVars
  <1>1. Newest(head) \in Index BY DEF TypeOK, Newest
  <1>2. item \in Word BY DEF TypeOK, Word, Item, NoItem
  <1>3. buffer' \in [Index -> Word \X Word]
    <2> DEFINE old == buffer[Newest(head)]
    <2>1. old \in Word \X Word /\ buffer \in [Index -> Word \X Word] BY <1>1 DEF TypeOK
    <2>2. [old EXCEPT ![1] = item] \in Word \X Word /\ [old EXCEPT ![2] = item] \in Word \X Word
      BY <1>2, <2>1
    <2>3. \E w \in {1, 2} : buffer' = [buffer EXCEPT ![Newest(head)] = [old EXCEPT ![w] = item]]
      OBVIOUS
    <2> QED BY <1>1, <2>1, <2>2, <2>3
  <1>4. TypeOK' BY <1>3 DEF TypeOK, Popped, Pushed
  <1>5. Indices' BY DEF Indices
  <1>6. Views' BY DEF Views, Pushed, Popped
  <1> QED BY <1>4, <1>5, <1>6

LEMMA PushStoreKeeps == ASSUME RingInv, PushStore PROVE RingInv'
  <1> USE RingAssumption DEF RingInv, PushStore, popVars
  <1> DEFINE i == next(Newest(head))
  <1>1. Len(head) \in Nat \ {0} /\ Newest(head) \in Index BY DEF TypeOK, Newest
  <1>2. i \in Index BY <1>1, NextIndex
  <1>3. Newest(head) = (Len(head) - 1) % Capacity BY <1>1 DEF Newest, Indices
  <1>4. i = Len(head) % Capacity
    <2>1. Len(head) - 1 \in Nat /\ (Len(head) - 1) + 1 = Len(head) BY <1>1
    <2>2. (((Len(head) - 1) % Capacity) + 1) % Capacity = ((Len(head) - 1) + 1) % Capacity
      BY <2>1, ModNext
    <2> QED BY <1>3, <2>1, <2>2 DEF next
  <1> HIDE DEF i
  <1>5. head' = Append(head, i) /\ head' \in Seq(Index) /\ Len(head') = Len(head) + 1
    BY <1>2 DEF TypeOK, i
  <1>6. TypeOK' BY <1>1, <1>5 DEF TypeOK, Popped, Pushed
  <1>7. Indices'
    <2>1. ASSUME NEW n \in 1 .. Len(head') PROVE head'[n] = (n - 1) % Capacity
      <3>1. CASE n = Len(head) + 1 BY <1>1, <1>4, <1>5, <3>1 DEF TypeOK
      <3>2. CASE n \in 1 .. Len(head) BY <1>5, <3>2 DEF Indices, TypeOK
      <3> QED BY <1>1, <1>5, <3>1, <3>2
    <2> QED BY <2>1 DEF Indices
  <1>8. Views' BY <1>1, <1>5 DEF Views, Pushed, Popped, TypeOK
  <1> QED BY <1>6, <1>7, <1>8

LEMMA PopLoadKeeps ==
  ASSUME RingInv, NEW n \in 1 .. Len(head), PopLoad(n)
  PROVE  RingInv'
  <1> USE RingAssumption DEF RingInv, PopLoad, pushVars
  <1>1. n \in Nat /\ Len(tail) \in Nat \ {0} /\ Len(head) \in Nat /\ fills' = n - 1
    BY DEF TypeOK, Acquire
  <1>2. TypeOK' BY <1>1 DEF TypeOK, Popped, Pushed
  <1>3. Indices' BY DEF Indices
  <1>4. Popped < n - 1 \/ pcPop' = "idle"
    <2> SUFFICES ASSUME n - 1 = Popped PROVE IsEmpty(Newest(tail), head[n])
      BY <1>1 DEF Views, Popped, TypeOK
    <2> QED BY <1>1 DEF IsEmpty, Newest, Indices, Popped
  <1>5. Views' BY <1>1, <1>4, SMTT(30) DEF Views, Pushed, Popped, TypeOK
  <1> QED BY <1>2, <1>3, <1>5

LEMMA PopWordKeeps ==
  ASSUME RingInv, PopFirstWord \/ PopSecondWord
  PROVE  RingInv'
  <1> USE RingAssumption DEF RingInv, PopFirstWord, PopSecondWord, PopWord, pushVars
  <1>1. Newest(tail) \in Index BY DEF TypeOK, Newest
  <1>2. outItem' \in Word \X Word
    <2>1. buffer[Newest(tail)] \in Word \X Word BY <1>1 DEF TypeOK
    <2> QED BY <2>1 DEF TypeOK
  <1>3. TypeOK' BY <1>2 DEF TypeOK, Popped, Pushed
  <1>4. Indices' BY DEF Indices
  <1>5. Views' BY DEF Views, Pushed, Popped
  <1> QED BY <1>3, <1>4, <1>5

LEMMA PopStoreKeeps == ASSUME RingInv, PopStore PROVE RingInv'
  <1> USE RingAssumption DEF RingInv, PopStore, pushVars
  <1> DEFINE i == next(Newest(tail))
  <1>1. Len(tail) \in Nat \ {0} /\ Newest(tail) \in Index BY DEF TypeOK, Newest
  <1>2. i \in Index BY <1>1, NextIndex
  <1>3. Newest(tail) = (Len(tail) - 1) % Capacity BY <1>1 DEF Newest, Indices
  <1>4. i = Len(tail) % Capacity
    <2>1. Len(tail) - 1 \in Nat /\ (Len(tail) - 1) + 1 = Len(tail) BY <1>1
    <2>2. (((Len(tail) - 1) % Capacity) + 1) % Capacity = ((Len(tail) - 1) + 1) % Capacity
      BY <2>1, ModNext
    <2> QED BY <1>3, <2>1, <2>2 DEF next
  <1> HIDE DEF i
  <1>5. tail' = Append(tail, i) /\ tail' \in Seq(Index) /\ Len(tail') = Len(tail) + 1
    BY <1>2 DEF TypeOK, i
  <1>6. delivered' \in Seq(Word \X Word) BY DEF TypeOK
  <1>7. TypeOK' BY <1>1, <1>5, <1>6 DEF TypeOK, Popped, Pushed
  <1>8. Indices'
    <2>1. ASSUME NEW n \in 1 .. Len(tail') PROVE tail'[n] = (n - 1) % Capacity
      <3>1. CASE n = Len(tail) + 1 BY <1>1, <1>4, <1>5, <3>1 DEF TypeOK
      <3>2. CASE n \in 1 .. Len(tail) BY <1>5, <3>2 DEF Indices, TypeOK
      <3> QED BY <1>1, <1>5, <3>1, <3>2
    <2> QED BY <2>1 DEF Indices
  <1>9. Views' BY <1>1, <1>5 DEF Views, Pushed, Popped, TypeOK
  <1> QED BY <1>7, <1>8, <1>9

LEMMA NextKeepsRing == ASSUME RingInv, [Next]_vars PROVE RingInv'
  <1>1. CASE PushLoad BY <1>1, PushLoadKeeps
  <1>2. CASE PushFirstWord \/ PushSecondWord BY <1>2, PushWordKeeps
  <1>3. CASE PushStore BY <1>3, PushStoreKeeps
  <1>4. ASSUME NEW n \in 1 .. Len(head), PopLoad(n) PROVE RingInv' BY <1>4, PopLoadKeeps
  <1>5. CASE PopFirstWord \/ PopSecondWord BY <1>5, PopWordKeeps
  <1>6. CASE PopStore BY <1>6, PopStoreKeeps
  <1>7. CASE UNCHANGED vars
    BY <1>7 DEF RingInv, TypeOK, Indices, Views, Pushed, Popped, vars, pushVars, popVars
  <1> QED
    BY <1>1, <1>2, <1>3, <1>4, <1>5, <1>6, <1>7 DEF Next, Push, Pop, PopCopy

\* Both threads' indices and knowledge are right in every reachable state.
THEOREM RingInvariant == Spec => []RingInv
  BY InitRing, NextKeepsRing, PTL DEF Spec

\* Type correctness for any capacity and any number of items
\* (network/ringBuffer.hpp).
THEOREM RingTyped == Spec => []TypeOK
  <1>1. RingInv => TypeOK BY DEF RingInv
  <1> QED BY <1>1, RingInvariant, PTL

\* One slot stays empty, however stale the index a thread goes by (push and
\* pop of network/ringBuffer.hpp).
THEOREM RingNeverWraps == Spec => []NeverWrapsAround
  <1>1. RingInv => NeverWrapsAround
    BY RingAssumption DEF RingInv, NeverWrapsAround, Views, TypeOK, Pushed, Popped
  <1> QED BY <1>1, RingInvariant, PTL

\* The plain copies into and out of the buffer are ordered by the acquire
\* loads and release stores of the indices.
THEOREM RingHasNoDataRace == Spec => []NoDataRace
  <1>1. RingInv => NoDataRace
    BY RingAssumption DEF RingInv, NoDataRace, Copying, Views, TypeOK, Pushed, Popped
  <1> QED BY <1>1, RingInvariant, PTL

-----------------------------------------------------------------------------
(* Refinement of BoundedFIFO *)

\* How far the copies have got: the words written are those of the item, and
\* the words read those of the slot, which nobody writes meanwhile.
Copies ==
  /\ Len(delivered) = Popped
  /\ pcPush # "idle" => item \in Item
  /\ pcPush = "second" => buffer[Newest(head)][1] = item
  /\ pcPush = "store" => buffer[Newest(head)] = <<item, item>>
  /\ pcPop = "second" => outItem[1] = buffer[Newest(tail)][1]
  /\ pcPop = "store" => outItem = buffer[Newest(tail)]

CopyInv == RingInv /\ Copies

LEMMA Slots ==
  ASSUME RingInv
  PROVE  /\ Pushed \in Nat /\ Popped \in Nat /\ Popped <= Pushed /\ Pushed - Popped < Capacity
         /\ Newest(head) = Pushed % Capacity /\ Newest(head) \in Index
         /\ Newest(tail) = Popped % Capacity /\ Newest(tail) \in Index
         /\ pcPop # "idle" => Popped < Pushed
         /\ \A k \in Popped .. Pushed - 1 : k % Capacity # Newest(head)
  <1> USE RingAssumption
  <1>1. /\ Pushed \in Nat /\ Popped \in Nat /\ Popped <= Pushed /\ Pushed - Popped < Capacity
        /\ pcPop # "idle" => Popped < Pushed
    BY DEF RingInv, TypeOK, Views, Pushed, Popped
  <1>2. /\ Newest(head) = Pushed % Capacity /\ Newest(head) \in Index
        /\ Newest(tail) = Popped % Capacity /\ Newest(tail) \in Index
    BY DEF RingInv, TypeOK, Indices, Newest, Pushed, Popped
  <1>3. ASSUME NEW k \in Popped .. Pushed - 1 PROVE k % Capacity # Newest(head)
    <2>1. k \in Nat /\ k < Pushed /\ Pushed - k < Capacity BY <1>1
    <2>2. Pushed % Capacity # k % Capacity BY <1>1, <2>1, ModDistinct
    <2> QED BY <1>2, <2>2
  <1> QED BY <1>1, <1>2, <1>3

LEMMA InitCopies == ASSUME Init PROVE Copies
  BY DEF Init, Copies, Popped

LEMMA NextKeepsCopies == ASSUME CopyInv, [Next]_vars PROVE Copies'
  <1> USE RingAssumption
  <1>1. RingInv /\ Copies /\ TypeOK BY DEF CopyInv, RingInv
  <1>2. /\ Newest(head) \in Index /\ Newest(tail) \in Index
        /\ pcPop # "idle" => Newest(tail) # Newest(head)
    BY <1>1, Slots
  <1>3. /\ buffer[Newest(head)] \in Word \X Word /\ buffer[Newest(tail)] \in Word \X Word
        /\ outItem \in Word \X Word
    BY <1>1, <1>2 DEF TypeOK
  <1>4. CASE PushLoad
    <2>1. item' \in Item BY <1>1, <1>4 DEF PushLoad, TypeOK, Item
    <2>2. pcPush' \in {"idle", "first"} BY <1>4 DEF PushLoad
    <2> QED BY <1>1, <1>4, <2>1, <2>2 DEF PushLoad, popVars, Copies, Popped, Newest
  <1>5. CASE PushFirstWord \/ PushSecondWord
    <2>1. PICK w \in {1, 2} :
            /\ buffer' = [buffer EXCEPT ![Newest(head)] = [@ EXCEPT ![w] = item]]
            /\ pcPush = (IF w = 1 THEN "first" ELSE "second")
            /\ pcPush' = (IF w = 1 THEN "second" ELSE "store")
      BY <1>5 DEF PushFirstWord, PushSecondWord, PushWord
    <2>2. UNCHANGED <<head, tail, item, popVars>>
      BY <1>5 DEF PushFirstWord, PushSecondWord, PushWord
    <2>3. pcPop # "idle" => buffer'[Newest(tail)] = buffer[Newest(tail)]
      BY <1>1, <1>2, <2>1 DEF TypeOK
    <2>4. buffer'[Newest(head)] = [buffer[Newest(head)] EXCEPT ![w] = item]
      BY <1>1, <1>2, <2>1 DEF TypeOK
    <2>5. w = 1 => buffer'[Newest(head)][1] = item BY <1>3, <2>4
    <2>6. w = 2 => buffer'[Newest(head)] = <<item, item>> BY <1>1, <1>3, <2>1, <2>4 DEF Copies
    <2> QED
      BY <1>1, <2>1, <2>2, <2>3, <2>5, <2>6 DEF popVars, Copies, Popped, Newest
  <1>6. CASE PushStore
    BY <1>1, <1>6 DEF PushStore, popVars, Copies, Popped, Newest
  <1>7. ASSUME NEW n \in 1 .. Len(head), PopLoad(n) PROVE Copies'
    <2>1. pcPop' \in {"idle", "first"} BY <1>7 DEF PopLoad
    <2> QED BY <1>1, <1>7, <2>1 DEF PopLoad, pushVars, Copies, Popped, Newest
  <1>8. CASE PopFirstWord \/ PopSecondWord
    <2>1. PICK w \in {1, 2} :
            /\ outItem' = [outItem EXCEPT ![w] = buffer[Newest(tail)][w]]
            /\ pcPop = (IF w = 1 THEN "first" ELSE "second")
            /\ pcPop' = (IF w = 1 THEN "second" ELSE "store")
      BY <1>8 DEF PopFirstWord, PopSecondWord, PopWord
    <2>2. UNCHANGED <<buffer, head, tail, delivered, pushVars>>
      BY <1>8 DEF PopFirstWord, PopSecondWord, PopWord
    <2>3. w = 1 => outItem'[1] = buffer[Newest(tail)][1] BY <1>3, <2>1
    <2>4. ASSUME w = 2 PROVE outItem' = buffer[Newest(tail)]
      <3> DEFINE x == buffer[Newest(tail)]
      <3>1. x = <<x[1], x[2]>> /\ x \in Word \X Word BY <1>3
      <3>2. outItem[1] = x[1] BY <1>1, <2>1, <2>4 DEF Copies
      <3> HIDE DEF x
      <3>3. outItem' = [outItem EXCEPT ![2] = x[2]] BY <2>1, <2>4 DEF x
      <3>4. outItem' = <<x[1], x[2]>> BY <1>3, <3>1, <3>2, <3>3
      <3> QED BY <3>1, <3>4 DEF x
    <2> QED BY <1>1, <2>1, <2>2, <2>3, <2>4 DEF pushVars, Copies, Popped, Newest
  <1>9. CASE PopStore
    <2>1. Len(delivered') = Len(delivered) + 1 /\ Len(tail') = Len(tail) + 1
      BY <1>1, <1>9 DEF PopStore, TypeOK
    <2>2. Popped' = Popped + 1 BY <1>1, <2>1 DEF Popped, TypeOK
    <2>3. pcPop' = "idle" /\ UNCHANGED <<buffer, head, pushVars>> BY <1>9 DEF PopStore
    <2> QED BY <1>1, <2>1, <2>2, <2>3 DEF pushVars, Copies, Newest
  <1>10. CASE UNCHANGED vars
    BY <1>1, <1>10 DEF vars, pushVars, popVars, Copies, Popped, Newest
  <1> QED
    BY <1>4, <1>5, <1>6, <1>7, <1>8, <1>9, <1>10 DEF Next, Push, Pop, PopCopy

\* The queue that the slots between tail and head make up.
Queue ==
  /\ Contents \in Seq(Word \X Word)
  /\ Len(Contents) = Pushed - Popped
  /\ \A k \in 1 .. Pushed - Popped : Contents[k] = buffer[(Popped + k - 1) % Capacity]

LEMMA ContentsIs == RingInv => Queue
  <1> SUFFICES ASSUME RingInv PROVE Queue
    OBVIOUS
  <1> USE RingAssumption
  <1> DEFINE n == Pushed - Popped
  <1>1. n \in Nat /\ Popped \in Nat BY Slots
  <1>2. buffer \in [Index -> Word \X Word] BY DEF RingInv, TypeOK
  <1>3. ASSUME NEW k \in 1 .. n PROVE buffer[(Popped + k - 1) % Capacity] \in Word \X Word
    <2>1. Popped + k - 1 \in Nat BY <1>1
    <2>2. (Popped + k - 1) % Capacity \in Index BY <2>1, DivMod DEF Index
    <2> QED BY <1>2, <2>2
  <1> HIDE DEF n
  <1>4. Contents = [k \in 1 .. n |-> buffer[(Popped + k - 1) % Capacity]] BY DEF Contents, n
  <1>5. Contents \in [1 .. n -> Word \X Word] BY <1>3, <1>4
  <1>6. Contents \in Seq(Word \X Word) BY <1>1, <1>5, SeqDef
  <1>7. DOMAIN Contents = 1 .. n BY <1>5
  <1>8. Len(Contents) = n
    <2>1. Len(Contents) \in Nat /\ DOMAIN Contents = 1 .. Len(Contents) BY <1>6, LenProperties
    <2> QED BY <1>1, <1>7, <2>1
  <1> QED BY <1>4, <1>6, <1>8 DEF n, Queue

\* By what the producer has seen of tail, the ring is full exactly when the
\* contract has no room.
LEMMA FullIsNoRoom ==
  ASSUME RingInv, NEW n \in seenTail .. Len(tail), IsFull(Newest(head), tail[n])
  PROVE  ~(Pushed - (n - 1) < Capacity - 1)
  <1> USE RingAssumption
  <1> SUFFICES ASSUME Pushed - (n - 1) < Capacity - 1 PROVE FALSE
    OBVIOUS
  <1>1. n \in 1 .. Len(tail) /\ n - 1 \in Nat /\ n - 1 <= Popped
    BY DEF RingInv, TypeOK, Popped
  <1>2. /\ Pushed \in Nat /\ Popped \in Nat /\ Popped <= Pushed
        /\ Newest(head) = Pushed % Capacity
    BY Slots
  <1>3. tail[n] = (n - 1) % Capacity BY <1>1 DEF RingInv, Indices
  <1>4. ((Pushed % Capacity) + 1) % Capacity = (Pushed + 1) % Capacity BY <1>2, ModNext
  <1>5. (Pushed + 1) % Capacity = (n - 1) % Capacity
    BY <1>2, <1>3, <1>4 DEF IsFull, next
  <1>6. Pushed + 1 \in Nat /\ n - 1 < Pushed + 1 /\ (Pushed + 1) - (n - 1) < Capacity
    BY <1>1, <1>2
  <1>7. (Pushed + 1) % Capacity # (n - 1) % Capacity BY <1>1, <1>6, ModDistinct
  <1> QED BY <1>5, <1>7

LEMMA InitFIFO == ASSUME Init PROVE Contract!Init
  <1>1. Pushed = 0 /\ Popped = 0 BY DEF Init, Pushed, Popped
  <1>2. Refused = 0 BY <1>1 DEF Init, Refused
  <1>3. Contents \in Seq(Word \X Word) /\ Len(Contents) = 0
    BY <1>1, InitRing, ContentsIs DEF Queue
  <1>4. Contents = <<>> BY <1>3, EmptySeq
  <1> QED BY <1>2, <1>4 DEF Init, Contract!Init

\* The queue stays what it is when indices and slots of queued items do.
LEMMA SameContents ==
  ASSUME RingInv, UNCHANGED <<head, tail>>,
         \A k \in Popped .. Pushed - 1 : buffer'[k % Capacity] = buffer[k % Capacity]
  PROVE  UNCHANGED <<Contents, Pushed, Popped>>
  <1>1. UNCHANGED <<Pushed, Popped>> BY DEF Pushed, Popped
  <1>2. Pushed \in Nat /\ Popped \in Nat BY Slots
  <1>3. ASSUME NEW k \in 1 .. Pushed - Popped
        PROVE  buffer'[(Popped + k - 1) % Capacity] = buffer[(Popped + k - 1) % Capacity]
    <2>1. Popped + k - 1 \in Popped .. Pushed - 1 BY <1>2
    <2> QED BY <2>1
  <1> QED BY <1>1, <1>3 DEF Contents

LEMMA PushLoadMatches == ASSUME CopyInv, PushLoad PROVE Contract!Next
  <1> USE RingAssumption
  <1>1. RingInv /\ Copies BY DEF CopyInv
  <1>2. PICK n \in seenTail .. Len(tail) :
          /\ seenTail' = n
          /\ pcPush' = IF IsFull(Newest(head), tail[n]) THEN "idle" ELSE "first"
    BY DEF PushLoad
  <1>3. /\ pcPush = "idle" /\ item' = item + 1 /\ UNCHANGED <<buffer, head, tail, popVars>>
    BY DEF PushLoad
  <1>4. UNCHANGED <<Contents, Pushed, Popped, delivered>>
    BY <1>1, <1>3, SameContents DEF popVars
  <1>5. /\ Pushed \in Nat /\ Popped \in Nat /\ item \in Nat /\ seenTail \in Nat /\ n \in Nat
        /\ seenTail' - 1 \in seenTail - 1 .. Len(delivered)
    BY <1>1, <1>2, Slots DEF RingInv, TypeOK, Copies, Popped
  <1>6. Len(delivered) + Len(Contents) - (n - 1) = Pushed - (n - 1)
    <2>1. Len(Contents) = Pushed - Popped BY <1>1, ContentsIs DEF Queue
    <2>2. Len(delivered) = Popped BY <1>1 DEF Copies
    <2> QED BY <1>5, <2>1, <2>2
  <1>7. CASE IsFull(Newest(head), tail[n])
    <2>1. Refused' = Refused + 1 BY <1>2, <1>3, <1>4, <1>5, <1>7 DEF Refused
    <2>2. ~(Pushed - (n - 1) < Capacity - 1) BY <1>1, <1>7, FullIsNoRoom
    <2>3. Contract!Refuse BY <1>2, <1>4, <1>5, <1>6, <2>1, <2>2 DEF Contract!Refuse, Contract!Room
    <2> QED BY <2>3 DEF Contract!Next
  <1>8. CASE ~IsFull(Newest(head), tail[n])
    <2>1. Refused' = Refused BY <1>2, <1>3, <1>4, <1>5, <1>8 DEF Refused
    <2>2. Contract!Learn BY <1>4, <1>5, <2>1 DEF Contract!Learn
    <2> QED BY <2>2 DEF Contract!Next
  <1> QED BY <1>7, <1>8

LEMMA PushWordMatches ==
  ASSUME CopyInv, PushFirstWord \/ PushSecondWord
  PROVE  UNCHANGED Contract!vars
  <1>1. RingInv /\ buffer \in [Index -> Word \X Word] BY DEF CopyInv, RingInv, TypeOK
  <1>2. /\ \E w \in {1, 2} : buffer' = [buffer EXCEPT ![Newest(head)][w] = item]
        /\ pcPush # "idle" /\ pcPush' # "idle"
        /\ UNCHANGED <<head, tail, item, seenTail, delivered>>
    BY DEF PushFirstWord, PushSecondWord, PushWord, popVars
  <1>3. ASSUME NEW k \in Popped .. Pushed - 1
        PROVE  buffer'[k % Capacity] = buffer[k % Capacity]
    <2>1. k % Capacity # Newest(head) BY <1>1, Slots
    <2>2. k \in Nat BY <1>1, Slots
    <2>3. k % Capacity \in Index BY <2>2, RingAssumption, DivMod DEF Index
    <2> QED BY <1>1, <1>2, <2>1, <2>3
  <1>4. UNCHANGED <<Contents, Pushed>> BY <1>1, <1>2, <1>3, SameContents
  <1>5. UNCHANGED Refused BY <1>2, <1>4 DEF Refused
  <1> QED BY <1>2, <1>4, <1>5 DEF Contract!vars

LEMMA PushStoreMatches == ASSUME CopyInv, PushStore PROVE Contract!Next
  <1> USE RingAssumption
  <1>1. RingInv /\ Copies BY DEF CopyInv
  <1>2. /\ pcPush = "store" /\ pcPush' = "idle"
        /\ UNCHANGED <<buffer, tail, item, seenTail, delivered>>
    BY DEF PushStore, popVars
  <1>3. Pushed' = Pushed + 1 /\ Popped' = Popped
    BY <1>1, <1>2 DEF PushStore, RingInv, TypeOK, Pushed, Popped
  <1>4. /\ Pushed \in Nat /\ Popped \in Nat /\ Popped <= Pushed
        /\ Newest(head) = Pushed % Capacity
    BY <1>1, Slots
  <1>5. item \in Item /\ buffer[Pushed % Capacity] = <<item, item>>
    BY <1>1, <1>2, <1>4 DEF Copies
  <1>6. RingInv' BY <1>1, PushStoreKeeps
  <1>7. /\ Contents' \in Seq(Word \X Word)
        /\ Len(Contents') = Pushed + 1 - Popped
        /\ \A k \in 1 .. Pushed + 1 - Popped :
             Contents'[k] = buffer[(Popped + k - 1) % Capacity]
    <2>1. Queue' BY <1>6, ContentsIs, PTL
    <2>2. Pushed' - Popped' = Pushed + 1 - Popped /\ Popped' = Popped BY <1>3, <1>4
    <2>3. buffer' = buffer BY <1>2
    <2> QED BY <2>1, <2>2, <2>3, Zenon DEF Queue
  <1>8. Contents' = Append(Contents, <<item, item>>)
    <2> DEFINE A == Append(Contents, <<item, item>>)
    <2>1. /\ Contents \in Seq(Word \X Word)
          /\ Len(Contents) = Pushed - Popped
          /\ \A k \in 1 .. Pushed - Popped : Contents[k] = buffer[(Popped + k - 1) % Capacity]
      BY <1>1, ContentsIs DEF Queue
    <2>2. <<item, item>> \in Word \X Word BY <1>5 DEF Word
    <2>3. /\ A \in Seq(Word \X Word) /\ Len(A) = Pushed - Popped + 1
          /\ A[Pushed - Popped + 1] = <<item, item>>
          /\ \A k \in 1 .. Pushed - Popped : A[k] = Contents[k]
      BY <2>1, <2>2, <1>4
    <2> HIDE DEF A
    <2>4. ASSUME NEW k \in 1 .. Len(A) PROVE Contents'[k] = A[k]
      <3>1. CASE k \in 1 .. Pushed - Popped BY <1>4, <1>7, <2>1, <2>3, <3>1
      <3>2. CASE k = Pushed - Popped + 1
        <4>1. Popped + k - 1 = Pushed /\ k \in 1 .. Pushed + 1 - Popped BY <1>4, <3>2
        <4>2. Contents'[k] = buffer[(Popped + k - 1) % Capacity] BY <1>7, <4>1, ZenonT(60)
        <4>3. Contents'[k] = <<item, item>> BY <1>5, <4>1, <4>2
        <4>4. A[k] = <<item, item>> BY <2>3, <3>2
        <4> QED BY <4>3, <4>4
      <3> QED BY <1>4, <2>3, <3>1, <3>2
    <2>5. Len(Contents') = Len(A) BY <1>4, <1>7, <2>3
    <2>6. Contents' = A BY <1>7, <2>3, <2>4, <2>5, SeqEqual
    <2> QED BY <2>6 DEF A
  <1>9. Refused' = Refused
    BY <1>1, <1>2, <1>3, <1>4 DEF Refused, RingInv, TypeOK
  <1>10. Len(delivered) + Len(Contents) - (seenTail - 1) < Capacity - 1
    <2>1. Len(Contents) = Pushed - Popped BY <1>1, ContentsIs DEF Queue
    <2>2. Len(delivered) = Popped BY <1>1 DEF Copies
    <2>3. Pushed - (seenTail - 1) < Capacity - 1 /\ seenTail \in Nat
      BY <1>1, <1>2 DEF RingInv, Views, TypeOK
    <2> QED BY <1>4, <2>1, <2>2, <2>3
  <1>11. Contract!Push(<<item, item>>)
    BY <1>2, <1>8, <1>9, <1>10 DEF Contract!Push, Contract!Room
  <1> QED BY <1>5, <1>11 DEF Contract!Next

LEMMA PopMatches == ASSUME CopyInv, PopStore PROVE Contract!Next
  <1> USE RingAssumption
  <1>1. RingInv /\ Copies BY DEF CopyInv
  <1>2. /\ pcPop = "store" /\ delivered' = Append(delivered, outItem)
        /\ UNCHANGED <<buffer, head, pcPush, item, seenTail>>
    BY DEF PopStore, pushVars
  <1>3. Popped' = Popped + 1 /\ UNCHANGED Pushed
    BY <1>1, <1>2 DEF PopStore, RingInv, TypeOK, Pushed, Popped
  <1>4. /\ Pushed \in Nat /\ Popped \in Nat /\ Popped < Pushed
        /\ Newest(tail) = Popped % Capacity
    BY <1>1, <1>2, Slots
  <1>5. outItem = buffer[Popped % Capacity] BY <1>1, <1>2, <1>4 DEF Copies
  <1>6. RingInv' BY <1>1, PopStoreKeeps
  <1>7. /\ Contents' \in Seq(Word \X Word)
        /\ Len(Contents') = Pushed - (Popped + 1)
        /\ \A k \in 1 .. Pushed - (Popped + 1) :
             Contents'[k] = buffer[((Popped + 1) + k - 1) % Capacity]
    <2>1. Queue' BY <1>6, ContentsIs, PTL
    <2> QED BY <1>2, <1>3, <2>1 DEF Queue
  <1>8. /\ Contents \in Seq(Word \X Word)
        /\ Len(Contents) = Pushed - Popped
        /\ \A k \in 1 .. Pushed - Popped : Contents[k] = buffer[(Popped + k - 1) % Capacity]
    BY <1>1, ContentsIs DEF Queue
  <1>9. Contents # <<>> BY <1>4, <1>8
  <1>10. Head(Contents) = outItem
    <2>1. 1 \in 1 .. Pushed - Popped /\ Popped + 1 - 1 = Popped BY <1>4
    <2>2. Contents[1] = buffer[(Popped + 1 - 1) % Capacity] BY <1>8, <2>1
    <2> QED BY <1>5, <2>1, <2>2
  <1>11. Contents' = Tail(Contents)
    <2> DEFINE T == Tail(Contents)
    <2>1. /\ T \in Seq(Word \X Word) /\ Len(T) = Len(Contents) - 1
          /\ \A k \in 1 .. Len(T) : T[k] = Contents[k + 1]
      BY <1>8, <1>9, HeadTailProperties
    <2> HIDE DEF T
    <2>2. Len(T) = Pushed - Popped - 1 BY <1>8, <2>1
    <2>3. ASSUME NEW k \in 1 .. Len(T) PROVE Contents'[k] = T[k]
      <3>1. /\ k + 1 \in 1 .. Pushed - Popped /\ k \in 1 .. Pushed - (Popped + 1)
            /\ (Popped + 1) + k - 1 = Popped + (k + 1) - 1
        BY <1>4, <2>2
      <3>2. Contents'[k] = buffer[((Popped + 1) + k - 1) % Capacity] BY <1>7, <3>1
      <3>3. Contents[k + 1] = buffer[(Popped + (k + 1) - 1) % Capacity] BY <1>8, <3>1
      <3> QED BY <2>1, <3>1, <3>2, <3>3
    <2>4. Len(Contents') = Len(T) BY <1>4, <1>7, <2>2
    <2>5. Contents' = T BY <1>7, <2>1, <2>3, <2>4, SeqEqual
    <2> QED BY <2>5 DEF T
  <1>12. UNCHANGED Refused BY <1>2, <1>3 DEF Refused
  <1>13. Contract!Pop BY <1>2, <1>9, <1>10, <1>11, <1>12 DEF Contract!Pop
  <1> QED BY <1>13 DEF Contract!Next

LEMMA ConsumerStutters ==
  ASSUME CopyInv,
         \/ \E n \in 1 .. Len(head) : PopLoad(n)
         \/ PopFirstWord \/ PopSecondWord
         \/ UNCHANGED vars
  PROVE  UNCHANGED Contract!vars
  <1>1. UNCHANGED <<buffer, head, tail, delivered, pcPush, item, seenTail>>
    BY DEF PopLoad, PopFirstWord, PopSecondWord, PopWord, vars, pushVars, popVars
  <1>2. UNCHANGED <<Contents, Refused>> BY <1>1 DEF Contents, Refused, Pushed, Popped
  <1> QED BY <1>1, <1>2 DEF Contract!vars

LEMMA RingStepMatches == ASSUME CopyInv, [Next]_vars PROVE [Contract!Next]_(Contract!vars)
  BY PushLoadMatches, PushWordMatches, PushStoreMatches, PopMatches, ConsumerStutters
  DEF Next, Push, Pop, PopCopy

\* The lock-free ring implements the bounded FIFO queue, for every capacity
\* and any number of items: whatever stale index a load returns, no accepted
\* item is lost, torn, doubled or overtaken (network/ringBuffer.hpp).
THEOREM RingRefinement == Spec => ImplementsBoundedFIFO
  <1>1. Init => Copies BY InitCopies
  <1>2. Copies /\ RingInv /\ [Next]_vars => Copies' BY NextKeepsCopies DEF CopyInv
  <1>3. Init => Contract!Init BY InitFIFO
  <1>4. Copies /\ RingInv /\ [Next]_vars => [Contract!Next]_(Contract!vars)
    BY RingStepMatches DEF CopyInv
  <1> QED
    BY <1>1, <1>2, <1>3, <1>4, RingInvariant, PTL
    DEF Spec, ImplementsBoundedFIFO, Contract!Spec
=============================================================================
