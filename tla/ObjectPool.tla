----------------------------- MODULE ObjectPool -----------------------------
(***************************************************************************)
(* OrderBook/pool.hpp: a fixed block of slots.  A slot is a union: it      *)
(* holds either a live object or the index of the next free slot, so the   *)
(* free slots form a stack threaded through the block itself, entered at   *)
(* head_free_index.                                                        *)
(*                                                                         *)
(* The operators are what Book composes into its own steps.  The           *)
(* specification at the end is the pool on its own, driven by a client     *)
(* that only destroys what it constructed.                                 *)
(***************************************************************************)
EXTENDS Integers

CONSTANTS
  Capacity,  \* number of slots (10,000,000 in Book)
  Object     \* the values of T

VARIABLES
  pool,            \* the block: slot -> live object or free node
  head_free_index  \* first free slot, Nil when there is none

vars == <<pool, head_free_index>>

Nil == -1                               \* static_cast<poolIndex>(-1)
Slot == 0 .. Capacity - 1
FreeNode == [next_free_index : Slot \cup {Nil}]

\* The union cannot be both: reading a live slot as a free node, or the
\* converse, is what the discipline of construct and destroy rules out.
ASSUME PoolAssumption ==
  /\ Capacity \in Nat \ {0}
  /\ \A n \in FreeNode : n \notin Object

FreeSlots == {i \in Slot : pool[i] \in FreeNode}
Live == {i \in Slot : pool[i] \in Object}

-----------------------------------------------------------------------------
\* Mutant: the last slot is linked past the end of the block.
LinkedPastTheEnd == [i \in Slot |-> [next_free_index |-> i + 1]]

\* The block with every slot linked to its successor.
Linked ==
  [i \in Slot |-> [next_free_index |-> IF i = Capacity - 1 THEN Nil ELSE i + 1]]

\* allocate() throws in this state.
Exhausted == head_free_index = Nil

allocate ==
  /\ ~Exhausted
  /\ head_free_index' = pool[head_free_index].next_free_index

\* Mutant: the freed slot does not remember the previous top of the stack.
DeallocatedUnlinked(P, i) == [P EXCEPT ![i] = [next_free_index |-> Nil]]

\* The block P once slot i is pushed on the free stack.
Deallocated(P, i) == [P EXCEPT ![i] = [next_free_index |-> head_free_index]]

deallocate(P, i) ==
  /\ pool' = Deallocated(P, i)
  /\ head_free_index' = i

-----------------------------------------------------------------------------
construct(o) ==
  /\ allocate
  /\ pool' = [pool EXCEPT ![head_free_index] = o]

destroy(i) == i \in Live /\ deallocate(pool, i)

\* get(i) hands out a reference through which the owner mutates the object.
get(i, o) ==
  /\ i \in Live
  /\ pool' = [pool EXCEPT ![i] = o]
  /\ UNCHANGED head_free_index

reset ==
  /\ pool' = Linked
  /\ head_free_index' = 0

Init ==
  /\ pool = Linked
  /\ head_free_index = 0

Next ==
  \/ \E o \in Object : construct(o)
  \/ \E i \in Slot : destroy(i)
  \/ \E i \in Slot, o \in Object : get(i, o)
  \/ reset

Spec == Init /\ [][Next]_vars

-----------------------------------------------------------------------------
\* Every slot is a live object or a free node, and the entry to the stack is
\* a slot or the end marker.
TypeOK ==
  /\ pool \in [Slot -> Object \cup FreeNode]
  /\ head_free_index \in Slot \cup {Nil}

\* s lists n distinct slots, all the free ones, in the order in which the
\* links visit them from head_free_index.
FreeList(n, s) ==
  /\ \A i, j \in 1 .. n : s[i] = s[j] => i = j
  /\ FreeSlots = {s[i] : i \in 1 .. n}
  /\ head_free_index = IF n = 0 THEN Nil ELSE s[1]
  /\ \A i \in 1 .. n :
       pool[s[i]].next_free_index = IF i = n THEN Nil ELSE s[i + 1]

\* The free stack reaches every free slot exactly once and no live one:
\* allocate() never hands out a slot in use, a destroyed slot is never lost,
\* and the pool reports exhaustion only when every slot is live.
FreeListInv == \E n \in 0 .. Capacity : \E s \in [1 .. n -> Slot] : FreeList(n, s)
=============================================================================
