---------------------------- MODULE BoundedFIFO ----------------------------
(***************************************************************************)
(* What the ring buffer of network/ringBuffer.hpp promises its two         *)
(* threads: a queue of at most Bound whole items, delivered once each and  *)
(* in the order they were accepted.  The producer may not know yet of the  *)
(* latest deliveries; an item is refused when, for all it knows, the queue *)
(* is full, and only then.                                                 *)
(***************************************************************************)
EXTENDS Naturals, Sequences

CONSTANTS Item, Bound

VARIABLES
  queue,     \* accepted and not yet delivered
  delivered, \* what the consumer was handed, oldest first
  known,     \* how many deliveries the producer knows of
  refused    \* how many items were refused

vars == <<queue, delivered, known, refused>>

Init == queue = <<>> /\ delivered = <<>> /\ known = 0 /\ refused = 0

\* Mutant: two slots of the ring are left unused.
RoomButOne(k) == Len(delivered) + Len(queue) + 1 - k < Bound

\* There is room, by what a producer that knows of k deliveries knows.
Room(k) == Len(delivered) + Len(queue) - k < Bound

\* The load of the other thread's index.
Learn ==
  /\ known' \in known .. Len(delivered)
  /\ UNCHANGED <<queue, delivered, refused>>

Push(item) ==
  /\ Room(known)
  /\ queue' = Append(queue, item)
  /\ UNCHANGED <<delivered, known, refused>>

Refuse ==
  /\ known' \in known .. Len(delivered)
  /\ ~Room(known')
  /\ refused' = refused + 1
  /\ UNCHANGED <<queue, delivered>>

Pop ==
  /\ queue # <<>>
  /\ delivered' = Append(delivered, Head(queue))
  /\ queue' = Tail(queue)
  /\ UNCHANGED <<known, refused>>

Next == Learn \/ Refuse \/ Pop \/ \E item \in Item : Push(item)

Spec == Init /\ [][Next]_vars
=============================================================================
