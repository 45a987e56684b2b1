------------------------------ MODULE Ingress ------------------------------
(***************************************************************************)
(* The TCP connection between a client and the read loop that main.cpp and *)
(* gateway.cpp share.  TCP delivers the bytes the client wrote in order,   *)
(* but keeps no boundaries between the writes, and a connection can be     *)
(* reset before everything was read.                                       *)
(*                                                                         *)
(* An order is OrderLen bytes, and a byte is known by its place in the     *)
(* stream.  What a read of a whole order yields is therefore known by the  *)
(* place of its first byte; that place is a multiple of OrderLen if and    *)
(* only if the bytes are those of one order.                               *)
(***************************************************************************)
EXTENDS Naturals, Sequences

CONSTANTS
  OrderLen,  \* sizeof(NetworkOrder), 17
  MaxOrders  \* bound: a client sends at most so many orders

ASSUME IngressAssumption == OrderLen \in Nat \ {0} /\ MaxOrders \in Nat

VARIABLES
  sent,       \* the orders the client wrote
  connection, \* "open", "closed" by the client, or "reset"
  got         \* number of bytes read

streamVars == <<sent, connection, got>>

StreamInit == sent = <<>> /\ connection = "open" /\ got = 0

Available == OrderLen * Len(sent) - got

\* s.sendall
Send(order) ==
  /\ connection = "open"
  /\ Len(sent) < MaxOrders
  /\ sent' = Append(sent, order)
  /\ UNCHANGED <<connection, got>>

Disconnect(how) ==
  /\ connection = "open"
  /\ connection' = how
  /\ UNCHANGED <<sent, got>>

\* read returns n bytes.  Where segments are never split each write of an
\* order arrives as a whole, and a read returns all of it.
Read(n, split) ==
  /\ n \in 1 .. OrderLen
  /\ n <= Available
  /\ split \/ n = OrderLen
  /\ got' = got + n
  /\ UNCHANGED <<sent, connection>>

\* read returns 0 or -1
ReadNothing ==
  /\ connection = "reset" \/ (connection = "closed" /\ Available = 0)
  /\ UNCHANGED streamVars

\* incoming_order after a read of OrderLen bytes.
Incoming == got - OrderLen

Framed(item) == item % OrderLen = 0
OrderAt(item) == sent[item \div OrderLen + 1]
=============================================================================
