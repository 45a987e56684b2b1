-------------------------- MODULE GatewayPrototype -------------------------
(***************************************************************************)
(* network/gateway.cpp: the earlier gateway, with a ring of its own that   *)
(* no thread empties.  It checks its sockets, and warns of what it drops.  *)
(***************************************************************************)
EXTENDS Ingress, Integers

CONSTANTS
  Bound, \* 1023 items fit in the ring
  Split  \* whether TCP segments may end anywhere

VARIABLES
  pc,               \* the call main is at
  status,           \* what main returns, or -1
  queue,            \* order_queue; an item is the place of its first byte
  full, malformed   \* warnings: number of orders dropped, bytes dropped

mainVars == <<pc, status>>
lossVars == <<queue, full, malformed>>
vars == <<streamVars, mainVars, lossVars>>

Ring == INSTANCE BoundedFIFO
  WITH Item <- Nat, delivered <- <<>>, known <- 0, refused <- full

Init ==
  /\ StreamInit
  /\ pc = "socket" /\ status = -1
  /\ queue = <<>> /\ full = 0 /\ malformed = 0

-----------------------------------------------------------------------------
\* A client finds somebody listening once listen has succeeded.
ClientActs ==
  /\ pc \in {"accept", "read"}
  /\ Send(Len(sent) + 1) \/ Disconnect("closed") \/ Disconnect("reset")
  /\ UNCHANGED <<mainVars, lossVars>>

\* socket, bind, listen and accept come one after the other, and main returns
\* 1 after the first that fails.
Start(call, next) ==
  /\ pc = call
  /\ \/ pc' = next /\ UNCHANGED status
     \/ pc' = "returned" /\ status' = 1
  /\ UNCHANGED <<streamVars, lossVars>>

\* Mutant: main.cpp's loop, in which a short read is dropped silently.
ReadOrderSilently(n) ==
  /\ pc = "read"
  /\ Read(n, Split)
  /\ n = OrderLen => Ring!Push(Incoming') \/ Ring!Refuse
  /\ n < OrderLen => UNCHANGED <<queue, full>>
  /\ UNCHANGED <<mainVars, malformed>>

\* One turn of the loop.
ReadOrder(n) ==
  /\ pc = "read"
  /\ Read(n, Split)
  /\ n = OrderLen => (Ring!Push(Incoming') \/ Ring!Refuse) /\ UNCHANGED malformed
  /\ n < OrderLen => malformed' = malformed + n /\ UNCHANGED <<queue, full>>
  /\ UNCHANGED mainVars

\* Mutant: the loop ends when the client has closed, before it read the rest.
BreakEarly ==
  /\ pc = "read"
  /\ connection # "open"
  /\ pc' = "returned" /\ status' = 0
  /\ UNCHANGED <<streamVars, lossVars>>

\* Mutant: only an error ends the loop, the end of the stream does not.
BreakOnError ==
  /\ pc = "read"
  /\ connection = "reset" /\ ReadNothing
  /\ pc' = "returned" /\ status' = 0
  /\ UNCHANGED lossVars

Break ==
  /\ pc = "read"
  /\ ReadNothing
  /\ pc' = "returned" /\ status' = 0
  /\ UNCHANGED lossVars

Gateway ==
  \/ Start("socket", "bind") \/ Start("bind", "listen")
  \/ Start("listen", "accept") \/ Start("accept", "read")
  \/ Break
  \/ \E n \in 1 .. OrderLen : ReadOrder(n)

Next == ClientActs \/ Gateway

\* The process runs, and bytes arrive; the client may do nothing.
FairSpec == Init /\ [][Next]_vars /\ WF_vars(Gateway)

-----------------------------------------------------------------------------
\* Every byte that was read is in an order in the ring, in an order of which
\* a warning says that it was dropped, or in one called malformed.
AllAccountedFor == got = OrderLen * (Len(queue) + full) + malformed

\* The program stops by itself only when everything the client sent was read,
\* or the connection failed, or one of its calls did.
ReadsToTheEnd ==
  pc = "returned" =>
    IF status = 0 THEN connection = "reset" \/ got = OrderLen * Len(sent)
    ELSE status = 1 /\ got = 0

\* When the client is gone the program ends.
EndsAfterClient == connection # "open" ~> pc = "returned"

\* "We received a perfect binary order!", gateway.cpp says of every read that
\* returns as many bytes as an order has: they are the bytes of one order.
PerfectOrders == \A i \in DOMAIN queue : Framed(queue[i])
=============================================================================
