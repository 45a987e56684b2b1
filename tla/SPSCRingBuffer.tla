--------------------------- MODULE SPSCRingBuffer ---------------------------
(***************************************************************************)
(* network/ringBuffer.hpp: the lock-free queue between the gateway thread, *)
(* which only pushes, and the engine thread, which only pops.              *)
(*                                                                         *)
(* The two atomics are modelled by their modification orders: head and     *)
(* tail are the sequences of the values stored in them, the initial 0      *)
(* first.  A load may return any value from the last one the thread has    *)
(* seen on (coherence); it need not be the newest.  An acquire load that   *)
(* reads the n-th store knows what the other thread did before it: fills   *)
(* and drains count how many copies into, and out of, the buffer happen    *)
(* before the present step of the consumer, and of the producer.           *)
(*                                                                         *)
(* An item is several words; copying one takes a step per word.            *)
(***************************************************************************)
EXTENDS Integers, Sequences

CONSTANTS
  Capacity,  \* 1024; a power of 2, for which & (Capacity - 1) is % Capacity
  MaxItems   \* bound: the gateway calls push with the items 1 .. MaxItems

ASSUME RingAssumption == Capacity \in Nat \ {0} /\ MaxItems \in Nat

VARIABLES
  buffer,       \* slot -> <<first word, second word>>
  head, tail,   \* modification orders of the two atomics
  pcPush, item, \* the producer, and how many items it has offered
  seenTail,     \* position in tail of the producer's last load
  drains,
  pcPop,        \* the consumer
  outItem,      \* its local
  seenHead,     \* position in head of the consumer's last load
  fills,
  delivered     \* history: the items pop returned

pushVars == <<pcPush, item, seenTail, drains>>
popVars == <<pcPop, outItem, seenHead, fills, delivered>>
vars == <<buffer, head, tail, pushVars, popVars>>

Index == 0 .. Capacity - 1
Item == 1 .. MaxItems
NoItem == 0                   \* what buffer(Capacity) is filled with
Word == Item \cup {NoItem}

-----------------------------------------------------------------------------
\* A relaxed load of the atomic the thread alone stores to.
Newest(order) == order[Len(order)]

\* Mutant: the index runs past the last slot before it wraps.
nextLate(i) == (i + 1) % (Capacity + 1)

next(i) == (i + 1) % Capacity

Init ==
  /\ buffer = [i \in Index |-> <<NoItem, NoItem>>]
  /\ head = <<0>> /\ tail = <<0>>
  /\ pcPush = "idle" /\ item = 0 /\ seenTail = 1 /\ drains = 0
  /\ pcPop = "idle" /\ outItem = <<NoItem, NoItem>> /\ seenHead = 1 /\ fills = 0
  /\ delivered = <<>>

-----------------------------------------------------------------------------
\* Mutant: the ring is never full.
IsFullNever(currentHead, loadedTail) == FALSE

IsFull(currentHead, loadedTail) == next(currentHead) = loadedTail

\* Mutant: memory_order_relaxed, the load orders nothing.
AcquireNothing(n, known) == known

\* What is known after an acquire load that read the n-th store of the other
\* atomic: the n - 1 copies that went before the stores up to it.
Acquire(n, known) == n - 1

\* push, up to the test: a full ring refuses the item, and the gateway goes
\* on to the next one.
PushLoad ==
  /\ pcPush = "idle"
  /\ item < MaxItems
  /\ item' = item + 1
  /\ \E n \in seenTail .. Len(tail) :
       /\ seenTail' = n
       /\ drains' = Acquire(n, drains)
       /\ pcPush' = IF IsFull(Newest(head), tail[n]) THEN "idle" ELSE "first"
  /\ UNCHANGED <<buffer, head, tail, popVars>>

\* buffer[current_head] = item
PushWord(word, from, to) ==
  /\ pcPush = from
  /\ buffer' = [buffer EXCEPT ![Newest(head)][word] = item]
  /\ pcPush' = to
  /\ UNCHANGED <<head, tail, item, seenTail, drains, popVars>>

\* Mutant: the item is published before its second word is written.
PushFirstWordOnly == PushWord(1, "first", "store")

PushFirstWord == PushWord(1, "first", "second")
PushSecondWord == PushWord(2, "second", "store")

\* head.store
PushStore ==
  /\ pcPush = "store"
  /\ head' = Append(head, next(Newest(head)))
  /\ pcPush' = "idle"
  /\ UNCHANGED <<buffer, tail, item, seenTail, drains, popVars>>

-----------------------------------------------------------------------------
\* Mutant: a ring with one item left is taken for an empty one.
IsEmptyEarly(currentTail, loadedHead) == loadedHead \in {currentTail, next(currentTail)}

IsEmpty(currentTail, loadedHead) == currentTail = loadedHead

\* pop, up to the test, for a load of head that returns its n-th store.
PopLoad(n) ==
  /\ pcPop = "idle"
  /\ n >= seenHead
  /\ seenHead' = n
  /\ fills' = Acquire(n, fills)
  /\ pcPop' = IF IsEmpty(Newest(tail), head[n]) THEN "idle" ELSE "first"
  /\ UNCHANGED <<buffer, head, tail, outItem, delivered, pushVars>>

\* outItem = buffer[current_tail]
PopWord(word, from, to) ==
  /\ pcPop = from
  /\ outItem' = [outItem EXCEPT ![word] = buffer[Newest(tail)][word]]
  /\ pcPop' = to
  /\ UNCHANGED <<buffer, head, tail, seenHead, fills, delivered, pushVars>>

PopFirstWord == PopWord(1, "first", "second")
PopSecondWord == PopWord(2, "second", "store")

\* tail.store, and pop returns the item
PopStore ==
  /\ pcPop = "store"
  /\ tail' = Append(tail, next(Newest(tail)))
  /\ delivered' = Append(delivered, outItem)
  /\ pcPop' = "idle"
  /\ UNCHANGED <<buffer, head, outItem, seenHead, fills, pushVars>>

-----------------------------------------------------------------------------
Push == PushLoad \/ PushFirstWord \/ PushSecondWord \/ PushStore

PopCopy == PopFirstWord \/ PopSecondWord \/ PopStore

Pop == PopCopy \/ \E n \in 1 .. Len(head) : PopLoad(n)

Next == Push \/ Pop

Spec == Init /\ [][Next]_vars

\* engine_loop pops for ever, and a store becomes visible to the thread that
\* spins on it: sooner or later its load returns the newest value.  A push
\* that was begun goes on; whether there is another one is up to the client.
FairSpec ==
  /\ Spec
  /\ WF_vars(PopCopy)
  /\ WF_vars(PopLoad(Len(head)))
  /\ WF_vars(PushFirstWord \/ PushSecondWord \/ PushStore)

-----------------------------------------------------------------------------
Pushed == Len(head) - 1
Popped == Len(tail) - 1

TypeOK ==
  /\ buffer \in [Index -> Word \X Word]
  /\ head \in Seq(Index) /\ tail \in Seq(Index)
  /\ Len(head) > 0 /\ Len(tail) > 0
  /\ pcPush \in {"idle", "first", "second", "store"}
  /\ item \in 0 .. MaxItems
  /\ seenTail \in 1 .. Len(tail)
  /\ drains \in 0 .. Popped
  /\ pcPop \in {"idle", "first", "second", "store"}
  /\ outItem \in Word \X Word
  /\ seenHead \in 1 .. Len(head)
  /\ fills \in 0 .. Pushed
  /\ delivered \in Seq(Word \X Word)

Copying(pc) == pc \in {"first", "second"}

\* The two plain accesses to the buffer are never a data race, although
\* nothing but the two indices separates them: whoever copies a slot knows,
\* through the value it acquired, that the other thread's last copy of the
\* same slot is over.  The producer writes item number Pushed + 1 where
\* number Pushed + 1 - Capacity was read; the consumer reads item number
\* Popped + 1.
NoDataRace ==
  /\ Copying(pcPush) => drains >= Pushed + 1 - Capacity
  /\ Copying(pcPop) => fills >= Popped + 1

\* One slot stays empty, so that head = tail can only mean an empty ring,
\* also for a thread that still sees an old index of the other.
NeverWrapsAround ==
  /\ Pushed - Popped \in 0 .. Capacity - 1
  /\ pcPush # "idle" => Pushed - Popped < Capacity - 1
  /\ pcPop # "idle" => Pushed > Popped

\* The items in the ring, read off the slots between tail and head.
Contents ==
  [k \in 1 .. Pushed - Popped |-> buffer[(Popped + k - 1) % Capacity]]

\* The items for which push has returned false.
Refused == item - Pushed - (IF pcPush = "idle" THEN 0 ELSE 1)

Contract == INSTANCE BoundedFIFO
  WITH queue <- Contents, known <- seenTail - 1, refused <- Refused,
       Item <- {<<i, i>> : i \in Item}, Bound <- Capacity - 1

\* Under every interleaving, and whatever stale index a load returns, the
\* ring is a FIFO queue of at most Capacity - 1 items: none is lost once push
\* accepted it, delivered twice, reordered, or torn between two items, and
\* none is refused while the producer can see room for it.
ImplementsBoundedFIFO == Contract!Spec

\* Every item accepted is delivered.
Delivery == \A k \in Item : Pushed >= k ~> Len(delivered) >= k
=============================================================================
