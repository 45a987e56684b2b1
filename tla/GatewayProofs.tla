--------------------------- MODULE GatewayProofs ----------------------------
(***************************************************************************)
(* The prototype gateway for every length of an order, size of ring and    *)
(* number of orders: it accounts for every byte, and reads to the end.     *)
(***************************************************************************)
EXTENDS GatewayPrototype, TLAPS

\* Nothing is read before a client was accepted.
Progress ==
  /\ pc \in {"socket", "bind", "listen", "accept", "read", "returned"}
  /\ pc \notin {"read", "returned"} => got = 0

GatewayInv ==
  /\ sent \in Seq(Nat) /\ queue \in Seq(Nat)
  /\ got \in Nat /\ full \in Nat /\ malformed \in Nat
  /\ Progress /\ AllAccountedFor /\ ReadsToTheEnd

LEMMA InitGateway == ASSUME Init PROVE GatewayInv
  BY IngressAssumption
     DEF Init, StreamInit, GatewayInv, Progress, AllAccountedFor, ReadsToTheEnd

LEMMA StartKeeps ==
  ASSUME GatewayInv, NEW call, NEW next, Start(call, next),
         call \in {"socket", "bind", "listen", "accept"},
         next \in {"bind", "listen", "accept", "read"}
  PROVE  GatewayInv'
  <1>1. UNCHANGED <<sent, connection, got, queue, full, malformed>> /\ pc = call
    BY DEF Start, streamVars, lossVars
  <1>2. got = 0 BY <1>1 DEF GatewayInv, Progress
  <1>3. pc' = next \/ (pc' = "returned" /\ status' = 1) BY DEF Start
  <1> QED
    BY <1>1, <1>2, <1>3 DEF GatewayInv, Progress, AllAccountedFor, ReadsToTheEnd

\* A whole order goes into the ring or is warned of, a part of one is called
\* malformed.
LEMMA ReadOrderKeeps ==
  ASSUME GatewayInv, NEW n \in 1 .. OrderLen, ReadOrder(n)
  PROVE  GatewayInv'
  <1>1. got' = got + n /\ pc = "read" /\ pc' = "read" /\ UNCHANGED sent
    BY DEF ReadOrder, Read, mainVars
  <1>2. /\ sent \in Seq(Nat) /\ got \in Nat /\ full \in Nat /\ malformed \in Nat /\ queue \in Seq(Nat)
        /\ Len(queue) \in Nat
        /\ got = OrderLen * (Len(queue) + full) + malformed
    BY DEF GatewayInv, AllAccountedFor
  <1>3. got' \in Nat BY <1>1, <1>2
  <1>4. Progress' /\ ReadsToTheEnd' BY <1>1 DEF Progress, ReadsToTheEnd
  <1>5. CASE n = OrderLen
    <2>1. Incoming' \in Nat BY <1>1, <1>2, <1>5, IngressAssumption DEF Incoming
    <2>2. /\ \/ queue' = Append(queue, Incoming') /\ UNCHANGED full
             \/ full' = full + 1 /\ UNCHANGED queue
          /\ UNCHANGED malformed
      BY <1>5 DEF ReadOrder, Ring!Push, Ring!Refuse
    <2>3. /\ queue' \in Seq(Nat) /\ full' \in Nat
          /\ Len(queue') + full' = Len(queue) + full + 1
      <3>1. CASE queue' = Append(queue, Incoming') /\ UNCHANGED full
        <4>1. queue' \in Seq(Nat) /\ Len(queue') = Len(queue) + 1 BY <1>2, <2>1, <3>1
        <4> QED BY <1>2, <3>1, <4>1
      <3>2. CASE full' = full + 1 /\ UNCHANGED queue BY <1>2, <3>2
      <3> QED BY <2>2, <3>1, <3>2
    <2>4. OrderLen * (Len(queue) + full + 1) = OrderLen * (Len(queue) + full) + OrderLen
          /\ OrderLen * (Len(queue) + full) \in Int
      BY <1>2, IngressAssumption
    <2>5. AllAccountedFor'
      BY <1>1, <1>2, <1>5, <2>2, <2>3, <2>4, IngressAssumption DEF AllAccountedFor
    <2> QED BY <1>1, <1>2, <1>3, <1>4, <2>2, <2>3, <2>5 DEF GatewayInv
  <1>6. CASE n < OrderLen
    <2>1. malformed' = malformed + n /\ UNCHANGED <<queue, full>> BY <1>6 DEF ReadOrder
    <2>2. OrderLen * (Len(queue) + full) \in Int BY <1>2, IngressAssumption
    <2>3. AllAccountedFor' BY <1>1, <1>2, <2>1, <2>2 DEF AllAccountedFor
    <2> QED BY <1>1, <1>2, <1>3, <1>4, <2>1, <2>3 DEF GatewayInv
  <1> QED BY <1>5, <1>6, IngressAssumption

\* The loop ends at the end of the stream: what is available is nothing.
LEMMA BreakKeeps == ASSUME GatewayInv, Break PROVE GatewayInv'
  <1>1. /\ UNCHANGED <<sent, connection, got, queue, full, malformed>>
        /\ pc' = "returned" /\ status' = 0
        /\ connection = "reset" \/ OrderLen * Len(sent) - got = 0
    BY DEF Break, ReadNothing, Available, streamVars, lossVars
  <1>2. got \in Nat /\ OrderLen * Len(sent) \in Int BY IngressAssumption DEF GatewayInv
  <1> QED
    BY <1>1, <1>2 DEF GatewayInv, Progress, AllAccountedFor, ReadsToTheEnd

LEMMA NextKeepsGateway == ASSUME GatewayInv, [Next]_vars PROVE GatewayInv'
  <1>1. CASE ClientActs
    <2>1. /\ UNCHANGED <<got, pc, status, queue, full, malformed>>
          /\ pc \in {"accept", "read"}
      BY <1>1 DEF ClientActs, Send, Disconnect, mainVars, lossVars
    <2>2. sent' = sent \/ sent' = Append(sent, Len(sent) + 1)
      BY <1>1 DEF ClientActs, Send, Disconnect
    <2>3. sent' \in Seq(Nat)
      <3>1. sent \in Seq(Nat) BY DEF GatewayInv
      <3>2. Len(sent) + 1 \in Nat BY <3>1
      <3>3. Append(sent, Len(sent) + 1) \in Seq(Nat) BY <3>1, <3>2
      <3> QED BY <2>2, <3>1, <3>3
    <2> QED BY <2>1, <2>3 DEF GatewayInv, Progress, AllAccountedFor, ReadsToTheEnd
  <1>2. CASE \/ Start("socket", "bind") \/ Start("bind", "listen")
             \/ Start("listen", "accept") \/ Start("accept", "read")
    BY <1>2, StartKeeps
  <1>3. CASE Break BY <1>3, BreakKeeps
  <1>4. CASE \E n \in 1 .. OrderLen : ReadOrder(n) BY <1>4, ReadOrderKeeps
  <1>5. CASE UNCHANGED vars
    BY <1>5 DEF vars, streamVars, mainVars, lossVars, GatewayInv, Progress,
       AllAccountedFor, ReadsToTheEnd
  <1> QED BY <1>1, <1>2, <1>3, <1>4, <1>5 DEF Next, Gateway

-----------------------------------------------------------------------------
\* The invariant holds of every run of the prototype.
THEOREM GatewayInvariant == FairSpec => []GatewayInv
  <1>1. Init => GatewayInv BY InitGateway
  <1>2. GatewayInv /\ [Next]_vars => GatewayInv' BY NextKeepsGateway
  <1> QED BY <1>1, <1>2, PTL DEF FairSpec

\* Every byte the prototype reads ends in the ring or in a warning.
THEOREM GatewayAccounts == FairSpec => []AllAccountedFor
  <1>1. GatewayInv => AllAccountedFor BY DEF GatewayInv
  <1> QED BY <1>1, GatewayInvariant, PTL

\* The prototype leaves its loop only at the end of the stream or after a
\* failure, and before the loop only with an error status.
THEOREM GatewayReads == FairSpec => []ReadsToTheEnd
  <1>1. GatewayInv => ReadsToTheEnd BY DEF GatewayInv
  <1> QED BY <1>1, GatewayInvariant, PTL
=============================================================================
