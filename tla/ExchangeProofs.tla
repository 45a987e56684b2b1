--------------------------- MODULE ExchangeProofs ---------------------------
(***************************************************************************)
(* The exchange server for every length of an order, size of ring, number  *)
(* of orders and combination of faults: which bytes become orders, and     *)
(* which orders are published.                                             *)
(***************************************************************************)
EXTENDS ExchangeProperties, NumberLemmas, SequenceTheorems, FiniteSetTheorems

-----------------------------------------------------------------------------
(* Sequences of whatever is in them *)

IsSeq(s) == s \in Seq({s[n] : n \in DOMAIN s})

\* Of a queue cut in three, it is one where the cuts are made.
LEMMA Regroup ==
  ASSUME NEW s \in Seq(Nat), NEW t \in Seq(Nat), NEW u \in Seq(Nat)
  PROVE  (s \o t) \o u = s \o (t \o u)
  <1> DEFINE a == (s \o t) \o u
             b == s \o (t \o u)
  <1>1. a \in Seq(Nat) /\ b \in Seq(Nat) OBVIOUS
  <1>2. Len(a) = Len(b) OBVIOUS
  <1>3. ASSUME NEW i \in 1 .. Len(a) PROVE a[i] = b[i] OBVIOUS
  <1> QED BY <1>1, <1>2, <1>3, SeqEqual

\* What is appended to its second half is appended to the whole.
LEMMA AppendedToHalf ==
  ASSUME NEW s \in Seq(Nat), NEW t \in Seq(Nat), NEW e \in Nat
  PROVE  s \o Append(t, e) = Append(s \o t, e)
  <1> DEFINE a == s \o Append(t, e)
             b == Append(s \o t, e)
  <1>1. a \in Seq(Nat) /\ b \in Seq(Nat) OBVIOUS
  <1>2. Len(a) = Len(b) OBVIOUS
  <1>3. ASSUME NEW i \in 1 .. Len(a) PROVE a[i] = b[i] OBVIOUS
  <1> QED BY <1>1, <1>2, <1>3, SeqEqual

LEMMA Domain == ASSUME NEW s, IsSeq(s) PROVE Len(s) \in Nat /\ DOMAIN s = 1 .. Len(s)
  BY LenProperties DEF IsSeq

LEMMA Appended ==
  ASSUME NEW s, IsSeq(s), NEW e
  PROVE  /\ IsSeq(Append(s, e))
         /\ Len(Append(s, e)) = Len(s) + 1
         /\ Append(s, e)[Len(s) + 1] = e
         /\ \A n \in 1 .. Len(s) : Append(s, e)[n] = s[n]
  <1> DEFINE R == {s[n] : n \in DOMAIN s}
             t == Append(s, e)
  <1>1. s \in Seq(R \cup {e}) /\ Len(s) \in Nat /\ DOMAIN s = 1 .. Len(s)
    <2>1. s \in Seq(R) BY DEF IsSeq
    <2>2. R \subseteq R \cup {e} OBVIOUS
    <2> HIDE DEF R
    <2> QED BY <2>1, <2>2, SeqMonotonic, Domain
  <1> HIDE DEF R
  <1>2. /\ t \in Seq(R \cup {e}) /\ Len(t) = Len(s) + 1 /\ t[Len(s) + 1] = e
        /\ \A n \in 1 .. Len(s) : t[n] = s[n]
    BY <1>1
  <1>3. t \in [1 .. Len(t) -> R \cup {e}] /\ DOMAIN t = 1 .. Len(t) BY <1>2, LenProperties
  <1> HIDE DEF t
  <1>4. t \in [1 .. Len(t) -> {t[n] : n \in DOMAIN t}] BY <1>3
  <1>5. Len(t) \in Nat BY <1>1, <1>2
  <1>6. IsSeq(t) BY <1>4, <1>5, SeqDef DEF IsSeq
  <1> QED BY <1>2, <1>6 DEF t

-----------------------------------------------------------------------------
(* The invariant *)

Types ==
  /\ IsSeq(sent) /\ got \in Nat /\ got <= OrderLen * Len(sent)
  /\ queue \in Seq(Nat) /\ delivered \in Seq(Nat) /\ refused \in Nat
  /\ pcGateway \in {"accept", "read", "push", "store", "joining", "returned"}
  /\ pcEngine \in {"boot", "spin", "add", "publish", "returned"}
  /\ IsSeq(updates)

\* The order in hand, too, lies behind those accepted.
Places ==
  /\ FramedStream
  /\ InHand = 1 => /\ Incoming \in Nat
                   /\ \A i \in DOMAIN Accepted : Accepted[i] + OrderLen <= Incoming

\* The order being processed, too, is the one its bytes spell.
Outputs ==
  /\ UpdatePerOrder
  /\ BeingProcessed = 1 =>
       /\ delivered # <<>>
       /\ Framed(delivered[Len(delivered)]) => pending = OrderAt(delivered[Len(delivered)])

ExchangeInv == Types /\ Places /\ Outputs

LEMMA InitExchange == ASSUME Init PROVE ExchangeInv
  <1>1. /\ sent = <<>> /\ got = 0 /\ queue = <<>> /\ delivered = <<>> /\ refused = 0
        /\ pcGateway = "accept" /\ pcEngine = "boot" /\ updates = <<>>
    BY DEF Init, StreamInit, Ring!Init
  <1>2. IsSeq(<<>>) BY DEF IsSeq
  <1>3. Types BY <1>1, <1>2, IngressAssumption DEF Types
  <1>4. Accepted = <<>> /\ InHand = 0 /\ BeingProcessed = 0
    BY <1>1 DEF Accepted, InHand, BeingProcessed
  <1>5. Places BY <1>1, <1>4, IngressAssumption DEF Places, FramedStream
  <1>6. Outputs BY <1>1, <1>4 DEF Outputs, UpdatePerOrder
  <1> QED BY <1>3, <1>5, <1>6 DEF ExchangeInv

LEMMA AcceptedIs ==
  ASSUME Types
  PROVE  /\ Accepted \in Seq(Nat) /\ Len(Accepted) \in Nat
         /\ DOMAIN Accepted = 1 .. Len(Accepted)
         /\ Len(delivered) \in Nat /\ Len(delivered) <= Len(Accepted)
         /\ DOMAIN delivered = 1 .. Len(delivered)
         /\ \A n \in DOMAIN delivered : Accepted[n] = delivered[n]
         /\ \A n \in DOMAIN Accepted : Accepted[n] \in Nat
  BY ConcatProperties, LenProperties, SMTT(30) DEF Types, Accepted

\* What decides about places stays as it is.
LEMMA PlacesStay ==
  ASSUME Places, UNCHANGED <<faults, got, Accepted, refused, InHand>>
  PROVE  Places'
  BY DEF Places, FramedStream, Framed, Incoming

\* A place that was read lies within an order that was sent.
LEMMA WithinSent ==
  ASSUME Types, NEW place \in Nat, place + OrderLen <= got
  PROVE  place \div OrderLen + 1 \in 1 .. Len(sent)
  <1> DEFINE q == place \div OrderLen
             r == place % OrderLen
             n == Len(sent)
  <1>1. q \in Nat /\ r \in 0 .. OrderLen - 1 /\ place = q * OrderLen + r
    BY IngressAssumption, DivMod
  <1>2. n \in Nat /\ got \in Nat /\ got <= OrderLen * n BY Domain DEF Types
  <1> HIDE DEF q, r, n
  <1>3. q * OrderLen + r + OrderLen <= n * OrderLen + 0
    BY <1>1, <1>2, IngressAssumption
  <1>4. ~(n < q + 1)
    <2> SUFFICES ASSUME n < q + 1 PROVE FALSE
      OBVIOUS
    <2>1. (q + 1) * OrderLen = q * OrderLen + OrderLen /\ q * OrderLen \in Int
      BY <1>1, IngressAssumption
    <2>2. n * OrderLen + 0 < (q + 1) * OrderLen + 0
      BY <1>1, <1>2, IngressAssumption, QuotientFirst
    <2> QED BY <1>1, <1>2, <1>3, <2>1, <2>2, IngressAssumption
  <1> QED BY <1>1, <1>2, <1>4 DEF q, n

\* What an accepted order spells does not change when more is sent.
LEMMA OutputsStay ==
  ASSUME Types, Places, Outputs,
         UNCHANGED <<delivered, updates, BeingProcessed, pending>>,
         \A k \in 1 .. Len(sent) : sent'[k] = sent[k]
  PROVE  Outputs'
  <1>1. ASSUME NEW n \in DOMAIN delivered
        PROVE  OrderAt(delivered[n])' = OrderAt(delivered[n])
    <2>1. delivered[n] \in Nat /\ delivered[n] + OrderLen <= got
      BY AcceptedIs DEF Places, FramedStream
    <2>2. delivered[n] \div OrderLen + 1 \in 1 .. Len(sent) BY <2>1, WithinSent
    <2> QED BY <2>2 DEF OrderAt
  <1>2. BeingProcessed = 1 => Len(delivered) \in DOMAIN delivered
    BY AcceptedIs DEF Outputs, Types
  <1>3. Len(updates) <= Len(delivered) /\ DOMAIN updates \subseteq DOMAIN delivered
    BY Domain, AcceptedIs DEF Types, Outputs, UpdatePerOrder, BeingProcessed
  <1> QED BY <1>1, <1>2, <1>3 DEF Outputs, UpdatePerOrder, Framed

-----------------------------------------------------------------------------
(* The steps *)

\* Steps that neither move bytes or orders nor hand them on.
LEMMA QuietKeeps ==
  ASSUME ExchangeInv,
         UNCHANGED <<sent, got, faults, queue, delivered, refused, updates, pending,
                     InHand, BeingProcessed>>,
         pcGateway' \in {"accept", "read", "push", "store", "joining", "returned"},
         pcEngine' \in {"boot", "spin", "add", "publish", "returned"}
  PROVE  ExchangeInv'
  <1>1. Types' BY DEF ExchangeInv, Types
  <1>2. Places' BY PlacesStay DEF ExchangeInv, Accepted
  <1>3. Outputs' BY OutputsStay DEF ExchangeInv
  <1> QED BY <1>1, <1>2, <1>3 DEF ExchangeInv

LEMMA ClientSendsKeeps == ASSUME ExchangeInv, ClientSends PROVE ExchangeInv'
  <1>1. PICK order : sent' = Append(sent, order) BY DEF ClientSends, Send
  <1>2. UNCHANGED <<got, faults, queue, delivered, refused, updates, pending,
                    pcGateway, pcEngine>>
    BY DEF ClientSends, Send, fixed, ringVars
  <1>3. Types /\ Places /\ Outputs BY DEF ExchangeInv
  <1>4. /\ IsSeq(sent') /\ Len(sent') = Len(sent) + 1
        /\ \A k \in 1 .. Len(sent) : sent'[k] = sent[k]
    BY <1>1, <1>3, Appended DEF Types
  <1>5. got <= OrderLen * (Len(sent) + 1)
    <2>1. Len(sent) \in Nat BY <1>3, Domain DEF Types
    <2>2. OrderLen * (Len(sent) + 1) = OrderLen * Len(sent) + OrderLen
          /\ OrderLen * Len(sent) \in Int
      BY <2>1, IngressAssumption
    <2> QED BY <1>3, <2>2, IngressAssumption DEF Types
  <1>6. Types' BY <1>2, <1>3, <1>4, <1>5 DEF Types
  <1>7. Places' BY <1>2, <1>3, PlacesStay DEF Accepted, InHand
  <1>8. Outputs' BY <1>2, <1>3, <1>4, OutputsStay DEF BeingProcessed
  <1> QED BY <1>6, <1>7, <1>8 DEF ExchangeInv

\* Reading moves past all that is accepted, and past whole orders only
\* unless segments are split.
LEMMA GatewayReadsKeeps ==
  ASSUME ExchangeInv, NEW n \in 1 .. OrderLen, GatewayReads(n) PROVE ExchangeInv'
  <1>1. /\ got' = got + n /\ n <= Available /\ UNCHANGED sent
        /\ "split" \in faults \/ n = OrderLen
        /\ pcGateway = "read"
        /\ pcGateway' = IF n = OrderLen THEN "push" ELSE "read"
        /\ UNCHANGED <<faults, queue, delivered, refused, updates, pending, pcEngine>>
    BY DEF GatewayReads, Read, GatewayUnchanged, fixed, ringVars
  <1>2. Types /\ Places /\ Outputs BY DEF ExchangeInv
  <1>3. Types'
    <2>1. OrderLen * Len(sent) \in Int BY <1>2, Domain, IngressAssumption DEF Types
    <2>2. got' \in Nat /\ got' <= OrderLen * Len(sent)
      BY <1>1, <1>2, <2>1, IngressAssumption DEF Types, Available
    <2> QED BY <1>1, <1>2, <2>2 DEF Types
  <1>4. Places'
    <2>1. /\ Accepted' = Accepted /\ InHand = 0
          /\ InHand' = IF n = OrderLen THEN 1 ELSE 0
      BY <1>1 DEF Accepted, InHand
    <2>2. /\ \A i \in DOMAIN Accepted : Accepted[i] \in Nat
          /\ Len(Accepted) \in Nat /\ refused \in Nat /\ got \in Nat
      BY <1>2, AcceptedIs DEF Types
    <2>3. \A i \in DOMAIN Accepted : Accepted[i] + OrderLen <= got'
      BY <1>1, <1>2, <2>2, IngressAssumption DEF Places, FramedStream
    <2>4. ASSUME "split" \notin faults'
          PROVE  got' = OrderLen * (Len(Accepted) + refused + InHand')
      <3>1. n = OrderLen /\ got' = got + OrderLen /\ InHand' = 1 BY <1>1, <2>1, <2>4
      <3>2. got = OrderLen * (Len(Accepted) + refused + 0)
        BY <1>1, <1>2, <2>1, <2>4 DEF Places, FramedStream
      <3>3. OrderLen * (Len(Accepted) + refused + 0) + OrderLen
              = OrderLen * (Len(Accepted) + refused + 1)
        BY <2>2, IngressAssumption
      <3> QED BY <3>1, <3>2, <3>3
    <2>5. FramedStream'
      BY <1>1, <1>2, <2>1, <2>3, <2>4 DEF Places, FramedStream, Framed
    <2>6. ASSUME InHand' = 1
          PROVE  Incoming' \in Nat
                 /\ \A i \in DOMAIN Accepted' : Accepted'[i] + OrderLen <= Incoming'
      <3>1. n = OrderLen BY <2>1, <2>6
      <3>2. Incoming' = got BY <1>1, <2>2, <3>1, IngressAssumption DEF Incoming
      <3> QED BY <1>2, <2>1, <2>2, <3>2 DEF Places, FramedStream
    <2> QED BY <2>5, <2>6 DEF Places
  <1>5. Outputs' BY <1>1, <1>2, OutputsStay DEF BeingProcessed
  <1> QED BY <1>3, <1>4, <1>5 DEF ExchangeInv

\* An order the ring refuses is counted, one for which there is room is kept
\* in hand.
LEMMA GatewayOffersKeeps == ASSUME ExchangeInv, GatewayOffers PROVE ExchangeInv'
  <1>1. /\ pcGateway = "push"
        /\ UNCHANGED <<sent, got, faults, queue, delivered, updates, pending, pcEngine>>
        /\ \/ refused' = refused + 1 /\ pcGateway' = "read"
           \/ refused' = refused /\ pcGateway' = "store"
    BY DEF GatewayOffers, GatewayUnchanged, Ring!Refuse, Ring!Learn, streamVars, fixed
  <1>2. Types /\ Places /\ Outputs BY DEF ExchangeInv
  <1>3. CASE refused' = refused + 1 /\ pcGateway' = "read"
    <2>1. Types' BY <1>1, <1>2, <1>3 DEF Types
    <2>2. Accepted' = Accepted /\ InHand = 1 /\ InHand' = 0
      BY <1>1, <1>3 DEF Accepted, InHand
    <2>3. Len(Accepted) + refused + 1 = Len(Accepted) + refused' + 0
      BY <1>2, <1>3, AcceptedIs DEF Types
    <2>4. Places' BY <1>1, <1>2, <2>2, <2>3 DEF Places, FramedStream, Framed
    <2>5. Outputs' BY <1>1, <1>2, OutputsStay DEF BeingProcessed
    <2> QED BY <2>1, <2>4, <2>5 DEF ExchangeInv
  <1>4. CASE refused' = refused /\ pcGateway' = "store"
    <2>1. InHand' = InHand /\ BeingProcessed' = BeingProcessed
      BY <1>1, <1>4 DEF InHand, BeingProcessed
    <2> QED BY <1>1, <1>2, <1>4, <2>1, QuietKeeps DEF Types
  <1> QED BY <1>1, <1>3, <1>4

\* The order in hand goes behind all others.
LEMMA GatewayStoresKeeps == ASSUME ExchangeInv, GatewayStores PROVE ExchangeInv'
  <1>1. /\ pcGateway = "store" /\ pcGateway' = "read"
        /\ queue' = Append(queue, Incoming)
        /\ UNCHANGED <<sent, got, faults, delivered, refused, updates, pending, pcEngine>>
    BY DEF GatewayStores, GatewayUnchanged, Ring!Push, streamVars, fixed
  <1>2. Types /\ Places /\ Outputs BY DEF ExchangeInv
  <1>3. InHand = 1 /\ InHand' = 0 BY <1>1 DEF InHand
  <1>4. /\ Incoming \in Nat
        /\ \A i \in DOMAIN Accepted : Accepted[i] + OrderLen <= Incoming
    BY <1>2, <1>3 DEF Places
  <1>5. queue' \in Seq(Nat) /\ Types'
    BY <1>1, <1>2, <1>4 DEF Types
  <1>6. /\ Len(Accepted) \in Nat /\ DOMAIN Accepted = 1 .. Len(Accepted)
        /\ DOMAIN Accepted' = 1 .. Len(Accepted) + 1
        /\ Len(Accepted') = Len(Accepted) + 1
        /\ Accepted'[Len(Accepted) + 1] = Incoming
        /\ \A i \in 1 .. Len(Accepted) : Accepted'[i] = Accepted[i]
    <2>1. Accepted' = Append(Accepted, Incoming)
      <3>1. delivered \in Seq(Nat) /\ queue \in Seq(Nat) BY <1>2 DEF Types
      <3> QED BY <1>1, <1>4, <3>1, AppendedToHalf DEF Accepted
    <2>2. Accepted \in Seq(Nat) /\ Len(Accepted) \in Nat BY <1>2, AcceptedIs
    <2> QED BY <1>4, <2>1, <2>2, LenProperties
  <1>7. Incoming + OrderLen = got BY <1>2, IngressAssumption DEF Types, Incoming
  <1>8. \A i, j \in DOMAIN Accepted' : i < j => Accepted'[i] + OrderLen <= Accepted'[j]
    BY <1>2, <1>4, <1>6 DEF Places, FramedStream
  <1>9. \A i \in DOMAIN Accepted' : Accepted'[i] + OrderLen <= got'
    <2>1. \A i \in DOMAIN Accepted : Accepted[i] + OrderLen <= got
      BY <1>2 DEF Places, FramedStream
    <2>2. \A i \in DOMAIN Accepted' :
            \/ i \in DOMAIN Accepted /\ Accepted'[i] = Accepted[i]
            \/ Accepted'[i] = Incoming
      BY <1>6
    <2>3. got \in Nat /\ Incoming + OrderLen <= got BY <1>2, <1>7 DEF Types
    <2> QED BY <1>1, <2>1, <2>2, <2>3
  <1>10. ASSUME "split" \notin faults'
         PROVE  /\ \A i \in DOMAIN Accepted' : Framed(Accepted'[i])
                /\ got' = OrderLen * (Len(Accepted') + refused' + InHand')
    <2>1. /\ \A i \in DOMAIN Accepted : Framed(Accepted[i])
          /\ got = OrderLen * (Len(Accepted) + refused + 1)
      BY <1>1, <1>2, <1>3, <1>10 DEF Places, FramedStream
    <2> DEFINE m == Len(Accepted) + refused
    <2>2. m \in Nat /\ refused \in Nat BY <1>2, <1>6 DEF Types
    <2>3. OrderLen * (m + 1) = m * OrderLen + OrderLen /\ m * OrderLen \in Int
      BY <2>2, IngressAssumption
    <2>4. Incoming = m * OrderLen + 0
      BY <1>4, <1>7, <2>1, <2>3, IngressAssumption
    <2>5. Framed(Incoming)
      <3> HIDE DEF m
      <3> QED BY <2>2, <2>4, ModOf, IngressAssumption DEF Framed
    <2>6. Len(Accepted') + refused' + InHand' = Len(Accepted) + refused + 1
      BY <1>1, <1>3, <1>6, <2>2
    <2> QED BY <1>1, <1>6, <2>1, <2>5, <2>6
  <1>11. Places' BY <1>3, <1>8, <1>9, <1>10 DEF Places, FramedStream
  <1>12. Outputs' BY <1>1, <1>2, OutputsStay DEF BeingProcessed
  <1> QED BY <1>5, <1>11, <1>12 DEF ExchangeInv

\* The engine takes the oldest order; nothing else moves in the ring.
LEMMA EnginePopsKeeps == ASSUME ExchangeInv, EnginePops PROVE ExchangeInv'
  <1> DEFINE item == Head(queue)
  <1>1. /\ pcEngine = "spin" /\ pcEngine' = "add" /\ queue # <<>>
        /\ delivered' = Append(delivered, item) /\ queue' = Tail(queue)
        /\ pending' \in Decoded(item)
        /\ UNCHANGED <<sent, got, faults, refused, updates, pcGateway>>
    BY DEF EnginePops, Ring!Pop, streamVars, fixed
  <1>2. Types /\ Places /\ Outputs BY DEF ExchangeInv
  <1>3. item \in Nat /\ Tail(queue) \in Seq(Nat) /\ queue = <<item>> \o Tail(queue)
    BY <1>1, <1>2 DEF Types
  <1> HIDE DEF item
  <1>4. Accepted' = Accepted
    <2>1. delivered \in Seq(Nat) /\ <<item>> \in Seq(Nat) BY <1>2, <1>3 DEF Types
    <2>2. delivered' = delivered \o <<item>> BY <1>1, <2>1
    <2>3. (delivered \o <<item>>) \o Tail(queue) = delivered \o (<<item>> \o Tail(queue))
      BY <1>3, <2>1, Regroup
    <2> QED BY <1>1, <1>3, <2>2, <2>3 DEF Accepted
  <1>5. Types' BY <1>1, <1>2, <1>3 DEF Types
  <1>6. Places' BY <1>1, <1>2, <1>4, PlacesStay DEF InHand
  <1>7. /\ Len(delivered) \in Nat
        /\ Len(delivered') = Len(delivered) + 1 /\ delivered' # <<>>
        /\ delivered'[Len(delivered) + 1] = item
        /\ \A n \in 1 .. Len(delivered) : delivered'[n] = delivered[n]
    <2>1. delivered \in Seq(Nat) /\ Len(delivered) \in Nat BY <1>2 DEF Types
    <2>2. Len(delivered') = Len(delivered) + 1 BY <1>1, <1>3, <2>1
    <2>3. delivered' # <<>> BY <2>1, <2>2, EmptySeq
    <2> QED BY <1>1, <1>3, <2>1, <2>2, <2>3
  <1>8. BeingProcessed = 0 /\ BeingProcessed' = 1 BY <1>1 DEF BeingProcessed
  <1>9. Len(updates) = Len(delivered) /\ DOMAIN updates = 1 .. Len(delivered)
    BY <1>2, <1>7, <1>8, Domain DEF Outputs, UpdatePerOrder, Types
  <1>10. UpdatePerOrder'
    BY <1>1, <1>2, <1>7, <1>8, <1>9 DEF Outputs, UpdatePerOrder, Framed, OrderAt
  <1>11. Framed(item) => pending' = OrderAt(item) BY <1>1 DEF Decoded
  <1>12. Outputs'
    BY <1>1, <1>7, <1>10, <1>11 DEF Outputs, Framed, OrderAt
  <1> QED BY <1>5, <1>6, <1>12 DEF ExchangeInv

\* What is published is about the order taken last.
LEMMA EnginePublishesKeeps == ASSUME ExchangeInv, EnginePublishes PROVE ExchangeInv'
  <1>1. /\ pcEngine = "publish" /\ pcEngine' = "spin"
        /\ updates' = Append(updates, MarketUpdate)
        /\ UNCHANGED <<sent, got, faults, queue, delivered, refused, pending, pcGateway>>
    BY DEF EnginePublishes, streamVars, fixed, ringVars
  <1>2. Types /\ Places /\ Outputs BY DEF ExchangeInv
  <1>3. /\ IsSeq(updates') /\ Len(updates') = Len(updates) + 1
        /\ updates'[Len(updates) + 1] = MarketUpdate
        /\ \A n \in 1 .. Len(updates) : updates'[n] = updates[n]
    BY <1>1, <1>2, Appended DEF Types
  <1>4. Types' BY <1>1, <1>2, <1>3 DEF Types
  <1>5. Places' BY <1>1, <1>2, PlacesStay DEF Accepted, InHand
  <1>6. BeingProcessed = 1 /\ BeingProcessed' = 0 BY <1>1 DEF BeingProcessed
  <1>7. /\ Len(updates) \in Nat /\ DOMAIN updates = 1 .. Len(updates)
        /\ Len(delivered) \in Nat /\ Len(delivered) = Len(updates) + 1
    BY <1>2, <1>6, Domain, AcceptedIs DEF Outputs, UpdatePerOrder, Types
  <1>8. DOMAIN updates' = 1 .. Len(updates) + 1 BY <1>3, Domain
  <1>9. MarketUpdate.order_id = pending.id BY DEF MarketUpdate
  <1>10. \A n \in DOMAIN updates' :
           Framed(delivered[n]) => updates'[n].order_id = OrderAt(delivered[n]).id
    <2> SUFFICES ASSUME NEW n \in DOMAIN updates', Framed(delivered[n])
                 PROVE  updates'[n].order_id = OrderAt(delivered[n]).id
      OBVIOUS
    <2>1. CASE n = Len(updates) + 1
      BY <1>2, <1>3, <1>6, <1>7, <1>9, <2>1 DEF Outputs
    <2>2. CASE n \in 1 .. Len(updates)
      BY <1>2, <1>3, <1>7, <2>2 DEF Outputs, UpdatePerOrder
    <2> QED BY <1>7, <1>8, <2>1, <2>2
  <1>11. UpdatePerOrder'
    BY <1>1, <1>3, <1>6, <1>7, <1>10 DEF UpdatePerOrder, Framed, OrderAt
  <1>12. Outputs' BY <1>6, <1>11 DEF Outputs
  <1> QED BY <1>4, <1>5, <1>12 DEF ExchangeInv

LEMMA NextKeepsExchange == ASSUME ExchangeInv, [Next]_vars PROVE ExchangeInv'
  <1> DEFINE Still == UNCHANGED <<sent, got, faults, queue, delivered, refused, updates, pending>>
  <1>1. Types BY DEF ExchangeInv
  <1>2. CASE ClientSends BY <1>2, ClientSendsKeeps
  <1>3. CASE ClientCloses \/ ConnectionFails \/ \E n \in 1 .. MaxOrders : Hear(n) \/ Lose(n)
    <2>1. Still /\ UNCHANGED <<pcGateway, pcEngine>>
      BY <1>3 DEF ClientCloses, ConnectionFails, Disconnect, Hear, Lose, streamVars, fixed,
         ringVars
    <2> QED BY <1>1, <2>1, QuietKeeps DEF Types, InHand, BeingProcessed
  <1>4. CASE Accept \/ GatewayBreaks \/ Join
    <2>1. /\ Still /\ UNCHANGED pcEngine
          /\ pcGateway \in {"accept", "read", "joining"}
          /\ pcGateway' \in {"read", "joining", "returned"}
      BY <1>4 DEF Accept, GatewayBreaks, Join, ReadNothing, GatewayUnchanged, streamVars,
         fixed, ringVars
    <2>2. InHand' = InHand /\ BeingProcessed' = BeingProcessed
      BY <2>1 DEF InHand, BeingProcessed
    <2> QED BY <1>1, <2>1, <2>2, QuietKeeps DEF Types
  <1>5. CASE GatewayOffers BY <1>5, GatewayOffersKeeps
  <1>6. CASE GatewayStores BY <1>6, GatewayStoresKeeps
  <1>7. CASE \E n \in 1 .. OrderLen : GatewayReads(n) BY <1>7, GatewayReadsKeeps
  <1>8. CASE EngineBoots
    <2>1. /\ Still /\ UNCHANGED pcGateway
          /\ pcEngine = "boot" /\ pcEngine' \in {"returned", "spin"}
      BY <1>8 DEF EngineBoots, streamVars, fixed, ringVars
    <2>2. InHand' = InHand /\ BeingProcessed' = BeingProcessed
      BY <2>1 DEF InHand, BeingProcessed
    <2> QED BY <1>1, <2>1, <2>2, QuietKeeps DEF Types
  <1>9. CASE EnginePops BY <1>9, EnginePopsKeeps
  <1>10. CASE EngineAdds
    <2>1. /\ Still /\ UNCHANGED pcGateway
          /\ pcEngine = "add" /\ pcEngine' = "publish"
      BY <1>10 DEF EngineAdds, streamVars, fixed, ringVars
    <2>2. InHand' = InHand /\ BeingProcessed' = BeingProcessed
      BY <2>1 DEF InHand, BeingProcessed
    <2> QED BY <1>1, <2>1, <2>2, QuietKeeps DEF Types
  <1>11. CASE EnginePublishes BY <1>11, EnginePublishesKeeps
  <1>12. CASE UNCHANGED vars
    <2>1. Still /\ UNCHANGED <<pcGateway, pcEngine>>
      BY <1>12 DEF vars, streamVars, fixed, ringVars
    <2> QED BY <1>1, <2>1, QuietKeeps DEF Types, InHand, BeingProcessed
  <1> QED
    BY <1>2, <1>3, <1>4, <1>5, <1>6, <1>7, <1>8, <1>9, <1>10, <1>11, <1>12
       DEF Next, Client, Gateway, Engine

-----------------------------------------------------------------------------
(* What the benchmark counts.  Its orders are numbered as they are sent, so   *)
(* the n-th order of the stream has the id n; while nothing is refused the    *)
(* n-th order accepted is the n-th of the stream; and while no datagram is    *)
(* doubled there is an update behind every count and every datagram.          *)

Peers ==
  /\ connection \in {"open", "closed", "reset"}
  /\ known \in 0 .. Len(delivered)
  /\ down \in BOOLEAN
  /\ air \subseteq DOMAIN updates /\ IsFiniteSet(air)
  /\ received \in 0 .. Expected

Numbered ==
  client = "benchmark" =>
    /\ Len(sent) <= Expected
    /\ \A k \in DOMAIN sent : sent[k].id = k
    /\ connection = "closed" => Len(sent) = Expected /\ received = Expected

Accounted == "dup" \notin faults => received + Cardinality(air) <= Len(updates)

InSequence ==
  "split" \notin faults /\ refused = 0 =>
    \A i \in DOMAIN Accepted : Accepted[i] = OrderLen * (i - 1)

CountInv == Peers /\ Numbered /\ Accounted /\ InSequence

LEMMA InitCount == ASSUME Init PROVE CountInv
  <1>1. /\ sent = <<>> /\ connection = "open" /\ queue = <<>> /\ delivered = <<>>
        /\ known = 0 /\ down = FALSE /\ updates = <<>> /\ air = {} /\ received = 0
    BY DEF Init, StreamInit, Ring!Init, AAPL!Init
  <1>2. IsFiniteSet(air) /\ Cardinality(air) = 0 BY <1>1, FS_EmptySet
  <1>3. Peers
    <2>1. Len(delivered) = 0 BY <1>1, EmptySeq
    <2>2. known \in 0 .. Len(delivered) /\ received \in 0 .. Expected
      BY <1>1, <2>1, ExchangeAssumption
    <2> QED BY <1>1, <1>2, <2>2 DEF Peers
  <1>4. Numbered BY <1>1, ExchangeAssumption DEF Numbered
  <1>5. Accounted BY <1>1, <1>2 DEF Accounted
  <1>6. Accepted = <<>> BY <1>1 DEF Accepted
  <1>7. InSequence BY <1>6 DEF InSequence
  <1> QED BY <1>3, <1>4, <1>5, <1>7 DEF CountInv

\* Steps of the gateway that accept and refuse nothing, and of the engine
\* that take and publish nothing.
LEMMA QuietCounts ==
  ASSUME CountInv,
         UNCHANGED <<sent, connection, client, faults, Accepted, delivered, known,
                     refused, updates, air, received>>,
         down' \in BOOLEAN
  PROVE  CountInv'
  BY DEF CountInv, Peers, Numbered, Accounted, InSequence

LEMMA ClientSendsCounts == ASSUME ExchangeInv, CountInv, ClientSends PROVE CountInv'
  <1>1. PICK order \in NthOrder(Len(sent) + 1) : sent' = Append(sent, order)
    BY DEF ClientSends, Send
  <1>2. /\ connection = "open"
        /\ client = "benchmark" => Len(sent) < Expected
        /\ UNCHANGED <<connection, client, faults, queue, delivered, known, refused, down,
                       updates, air, received>>
    BY DEF ClientSends, Send, fixed, ringVars, bookVars, clientVars
  <1>3. Peers' /\ Accounted' /\ InSequence'
    BY <1>2 DEF CountInv, Peers, Accounted, InSequence, Accepted
  <1>4. /\ IsSeq(sent') /\ Len(sent') = Len(sent) + 1
        /\ sent'[Len(sent) + 1] = order
        /\ \A k \in 1 .. Len(sent) : sent'[k] = sent[k]
    BY <1>1, Appended DEF ExchangeInv, Types
  <1>5. /\ Len(sent) \in Nat /\ DOMAIN sent = 1 .. Len(sent)
        /\ DOMAIN sent' = 1 .. Len(sent) + 1
    BY <1>4, Domain DEF ExchangeInv, Types
  <1>6. client = "benchmark" => order.id = Len(sent) + 1 BY <1>1 DEF NthOrder
  <1>7. Numbered'
    <2> SUFFICES ASSUME client = "benchmark"
                 PROVE  Len(sent') <= Expected /\ \A k \in DOMAIN sent' : sent'[k].id = k
      BY <1>2 DEF Numbered
    <2>1. \A k \in 1 .. Len(sent) : sent'[k].id = k
      BY <1>4, <1>5 DEF CountInv, Numbered
    <2>2. sent'[Len(sent) + 1].id = Len(sent) + 1 BY <1>4, <1>6
    <2>3. Len(sent') <= Expected BY <1>2, <1>4, <1>5, ExchangeAssumption
    <2> QED BY <1>5, <2>1, <2>2, <2>3
  <1> QED BY <1>3, <1>7 DEF CountInv

LEMMA ConnectionEndsCounts ==
  ASSUME CountInv, ClientCloses \/ ConnectionFails PROVE CountInv'
  <1>1. UNCHANGED <<sent, client, faults, queue, delivered, known, refused, down, updates,
                    air, received>>
    BY DEF ClientCloses, ConnectionFails, Disconnect, fixed, ringVars, bookVars, clientVars
  <1>2. \/ connection' = "reset"
        \/ connection' = "closed"
           /\ (client = "benchmark" => Len(sent) = Expected /\ received = Expected)
    BY DEF ClientCloses, ConnectionFails, Disconnect
  <1> QED
    BY <1>1, <1>2 DEF CountInv, Peers, Numbered, Accounted, InSequence, Accepted

\* One update less is on its way, and at most one more is counted.
LEMMA HearCounts ==
  ASSUME ExchangeInv, CountInv, NEW n, Hear(n) \/ Lose(n) PROVE CountInv'
  <1>1. /\ n \in air /\ air' \subseteq air
        /\ "dup" \notin faults => air' = air \ {n}
        /\ received' \in {received, received + 1}
        /\ received' # received => received < Expected
        /\ UNCHANGED <<sent, connection, client, faults, queue, delivered, known, refused,
                       down, updates>>
    <2>1. received \in Nat BY ExchangeAssumption DEF CountInv, Peers
    <2> QED BY <2>1 DEF Hear, Lose, streamVars, fixed, ringVars, bookVars
  <1>2. received \in Nat /\ received <= Expected /\ Len(updates) \in Nat
    BY ExchangeAssumption, Domain DEF CountInv, Peers, ExchangeInv, Types
  <1>3. IsFiniteSet(air) /\ Cardinality(air) \in Nat
    BY FS_CardinalityType DEF CountInv, Peers
  <1>4. IsFiniteSet(air') BY <1>1, <1>3, FS_Subset
  <1>5. Peers'
    BY <1>1, <1>2, <1>4, ExchangeAssumption DEF CountInv, Peers
  <1>6. Numbered' BY <1>1, <1>2, ExchangeAssumption DEF CountInv, Numbered
  <1>7. Accounted'
    <2> SUFFICES ASSUME "dup" \notin faults
                 PROVE  received' + Cardinality(air') <= Len(updates)
      BY <1>1 DEF Accounted
    <2>1. Cardinality(air') = Cardinality(air) - 1 BY <1>1, <1>3, FS_RemoveElement
    <2>2. received + Cardinality(air) <= Len(updates) BY DEF CountInv, Accounted
    <2> QED BY <1>1, <1>2, <1>3, <2>1, <2>2
  <1>8. InSequence' BY <1>1 DEF CountInv, InSequence, Accepted
  <1> QED BY <1>5, <1>6, <1>7, <1>8 DEF CountInv

LEMMA GatewayOffersCounts == ASSUME ExchangeInv, CountInv, GatewayOffers PROVE CountInv'
  <1>1. /\ known' \in known .. Len(delivered)
        /\ refused' = refused + 1 \/ refused' = refused
        /\ UNCHANGED <<sent, connection, client, faults, queue, delivered, down, updates,
                       air, received>>
    BY DEF GatewayOffers, GatewayUnchanged, Ring!Refuse, Ring!Learn, streamVars, fixed,
       bookVars, clientVars
  <1>2. refused \in Nat /\ Len(delivered) \in Nat BY AcceptedIs DEF ExchangeInv, Types
  <1>3. Peers' BY <1>1, <1>2 DEF CountInv, Peers
  <1>4. Numbered' /\ Accounted' BY <1>1 DEF CountInv, Numbered, Accounted
  <1>5. InSequence' BY <1>1, <1>2, SMTT(30) DEF CountInv, InSequence, Accepted
  <1> QED BY <1>3, <1>4, <1>5 DEF CountInv

LEMMA GatewayStoresCounts == ASSUME ExchangeInv, CountInv, GatewayStores PROVE CountInv'
  <1>1. /\ pcGateway = "store" /\ queue' = Append(queue, Incoming)
        /\ UNCHANGED <<sent, connection, client, faults, delivered, known, refused, down,
                       updates, air, received>>
    BY DEF GatewayStores, GatewayUnchanged, Ring!Push, streamVars, fixed, bookVars, clientVars
  <1>2. Types /\ Places BY DEF ExchangeInv
  <1>3. Peers' /\ Numbered' /\ Accounted'
    BY <1>1 DEF CountInv, Peers, Numbered, Accounted
  <1>4. InHand = 1 /\ Incoming \in Nat BY <1>1, <1>2 DEF InHand, Places
  <1>5. Accepted \in Seq(Nat) /\ Len(Accepted) \in Nat /\ DOMAIN Accepted = 1 .. Len(Accepted)
    BY <1>2, AcceptedIs
  <1>6. Accepted' = Append(Accepted, Incoming)
    <2>1. delivered \in Seq(Nat) /\ queue \in Seq(Nat) BY <1>2 DEF Types
    <2> QED BY <1>1, <1>4, <2>1, AppendedToHalf DEF Accepted
  <1>7. /\ DOMAIN Accepted' = 1 .. Len(Accepted) + 1
        /\ Accepted'[Len(Accepted) + 1] = Incoming
        /\ \A i \in 1 .. Len(Accepted) : Accepted'[i] = Accepted[i]
    BY <1>4, <1>5, <1>6, LenProperties
  <1>8. InSequence'
    <2> SUFFICES ASSUME "split" \notin faults, refused = 0
                 PROVE  \A i \in DOMAIN Accepted' : Accepted'[i] = OrderLen * (i - 1)
      BY <1>1 DEF InSequence
    <2>1. got = OrderLen * (Len(Accepted) + 0 + 1)
      BY <1>2, <1>4 DEF Places, FramedStream
    <2>2. /\ OrderLen * (Len(Accepted) + 0 + 1) = OrderLen * Len(Accepted) + OrderLen
          /\ OrderLen * Len(Accepted) \in Int
      BY <1>5, IngressAssumption
    <2>3. Incoming = OrderLen * Len(Accepted) BY <2>1, <2>2, IngressAssumption DEF Incoming
    <2>4. Accepted'[Len(Accepted) + 1] = OrderLen * (Len(Accepted) + 1 - 1)
      BY <1>5, <1>7, <2>3
    <2>5. \A i \in 1 .. Len(Accepted) : Accepted'[i] = OrderLen * (i - 1)
      BY <1>5, <1>7 DEF CountInv, InSequence
    <2> QED BY <1>5, <1>7, <2>4, <2>5
  <1> QED BY <1>3, <1>8 DEF CountInv

LEMMA EnginePopsCounts == ASSUME ExchangeInv, CountInv, EnginePops PROVE CountInv'
  <1> DEFINE item == Head(queue)
  <1>1. /\ queue # <<>> /\ delivered' = Append(delivered, item) /\ queue' = Tail(queue)
        /\ UNCHANGED <<sent, connection, client, faults, known, refused, down, updates, air,
                       received>>
    BY DEF EnginePops, Ring!Pop, streamVars, fixed, bookVars, clientVars
  <1>2. Types BY DEF ExchangeInv
  <1>3. item \in Nat /\ Tail(queue) \in Seq(Nat) /\ queue = <<item>> \o Tail(queue)
    BY <1>1, <1>2 DEF Types
  <1> HIDE DEF item
  <1>4. delivered \in Seq(Nat) /\ <<item>> \in Seq(Nat) /\ Len(delivered) \in Nat
    BY <1>2, <1>3 DEF Types
  <1>5. Accepted' = Accepted
    <2>1. delivered' = delivered \o <<item>> BY <1>1, <1>4
    <2>2. (delivered \o <<item>>) \o Tail(queue) = delivered \o (<<item>> \o Tail(queue))
      <3> DEFINE one == <<item>>
                 rest == Tail(queue)
      <3>1. delivered \in Seq(Nat) /\ one \in Seq(Nat) /\ rest \in Seq(Nat) BY <1>3, <1>4
      <3> HIDE DEF one, rest
      <3>2. (delivered \o one) \o rest = delivered \o (one \o rest)
        BY <3>1, Regroup
      <3> QED BY <3>2 DEF one, rest
    <2> QED BY <1>1, <1>3, <2>1, <2>2 DEF Accepted
  <1>6. Len(delivered') = Len(delivered) + 1 BY <1>1, <1>3, <1>4
  <1>7. Peers' BY <1>1, <1>4, <1>6 DEF CountInv, Peers
  <1> QED BY <1>1, <1>5, <1>7 DEF CountInv, Numbered, Accounted, InSequence

LEMMA EnginePublishesCounts == ASSUME ExchangeInv, CountInv, EnginePublishes PROVE CountInv'
  <1>1. /\ updates' = Append(updates, MarketUpdate)
        /\ air' = air \cup {Len(updates')}
        /\ UNCHANGED <<sent, connection, client, faults, queue, delivered, known, refused,
                       down, received>>
    BY DEF EnginePublishes, streamVars, fixed, ringVars, bookVars
  <1>2. IsSeq(updates') /\ Len(updates') = Len(updates) + 1
    BY <1>1, Appended DEF ExchangeInv, Types
  <1>3. /\ Len(updates) \in Nat /\ DOMAIN updates = 1 .. Len(updates)
        /\ DOMAIN updates' = 1 .. Len(updates) + 1
    BY <1>2, Domain DEF ExchangeInv, Types
  <1>4. IsFiniteSet(air) /\ Cardinality(air) \in Nat
    BY FS_CardinalityType DEF CountInv, Peers
  <1>5. IsFiniteSet(air') /\ Cardinality(air') <= Cardinality(air) + 1
    <2> DEFINE n == Len(updates')
    <2>1. IsFiniteSet(air \cup {n})
          /\ Cardinality(air \cup {n}) =
               IF n \in air THEN Cardinality(air) ELSE Cardinality(air) + 1
      BY <1>4, FS_AddElement
    <2> HIDE DEF n
    <2>2. Cardinality(air \cup {n}) <= Cardinality(air) + 1 BY <1>4, <2>1
    <2> QED BY <1>1, <2>1, <2>2 DEF n
  <1>6. Peers' BY <1>1, <1>2, <1>3, <1>5 DEF CountInv, Peers
  <1>7. Accounted'
    <2>1. received \in Nat /\ Cardinality(air') \in Nat
      BY <1>5, FS_CardinalityType, ExchangeAssumption DEF CountInv, Peers
    <2> QED BY <1>1, <1>2, <1>3, <1>4, <1>5, <2>1 DEF CountInv, Accounted
  <1> QED BY <1>1, <1>6, <1>7 DEF CountInv, Numbered, InSequence, Accepted

LEMMA NextCounts == ASSUME ExchangeInv, CountInv, [Next]_vars PROVE CountInv'
  <1>1. CASE ClientSends BY <1>1, ClientSendsCounts
  <1>2. CASE ClientCloses \/ ConnectionFails BY <1>2, ConnectionEndsCounts
  <1>3. CASE \E n \in 1 .. MaxOrders : Hear(n) \/ Lose(n) BY <1>3, HearCounts
  <1>4. CASE GatewayOffers BY <1>4, GatewayOffersCounts
  <1>5. CASE GatewayStores BY <1>5, GatewayStoresCounts
  <1>6. CASE EnginePops BY <1>6, EnginePopsCounts
  <1>7. CASE EnginePublishes BY <1>7, EnginePublishesCounts
  <1> DEFINE Still == UNCHANGED <<sent, connection, client, faults, queue, delivered, known,
                                  refused, updates, air, received>>
  <1>8. ASSUME Still, down' \in BOOLEAN PROVE CountInv'
    BY <1>8, QuietCounts DEF Accepted
  <1>9. CASE Accept \/ GatewayBreaks \/ Join \/ \E n \in 1 .. OrderLen : GatewayReads(n)
    <2>1. Still /\ down' = down
      BY <1>9 DEF Accept, GatewayBreaks, Join, GatewayReads, Read, ReadNothing,
         GatewayUnchanged, streamVars, fixed, ringVars, bookVars, clientVars
    <2> QED BY <1>8, <2>1 DEF CountInv, Peers
  <1>10. CASE EngineBoots \/ UNCHANGED vars
    <2>1. Still /\ down' = down
      BY <1>10 DEF EngineBoots, vars, streamVars, fixed, ringVars, bookVars, clientVars
    <2> QED BY <1>8, <2>1 DEF CountInv, Peers
  <1>11. CASE EngineAdds
    <2>1. Still BY <1>11 DEF EngineAdds, streamVars, fixed, ringVars, clientVars
    <2>2. down' \in BOOLEAN
      BY <1>11 DEF EngineAdds, AAPL!AddLimitOrder, AAPL!Submit, bookVars, CountInv, Peers
    <2> QED BY <1>8, <2>1, <2>2
  <1> QED
    BY <1>1, <1>2, <1>3, <1>4, <1>5, <1>6, <1>7, <1>9, <1>10, <1>11
       DEF Next, Client, Gateway, Engine

\* When the benchmark has counted Expected updates there are that many, so
\* every order it sent was accepted, in its place, and none was refused.
LEMMA RoundTrips == ASSUME ExchangeInv, CountInv PROVE EveryRoundTripCounted
  <1> SUFFICES ASSUME client = "benchmark", connection = "closed",
                      faults \cap {"split", "dup"} = {}
               PROVE  /\ Len(updates) = Expected
                      /\ {updates[n].order_id : n \in DOMAIN updates} = 1 .. Expected
    BY DEF EveryRoundTripCounted
  <1> DEFINE a == Len(Accepted)
             u == Len(updates)
             d == Len(delivered)
  <1>1. Types /\ Places /\ Outputs BY DEF ExchangeInv
  <1>2. /\ a \in Nat /\ d \in Nat /\ d <= a /\ u \in Nat /\ DOMAIN updates = 1 .. u
        /\ DOMAIN Accepted = 1 .. a /\ DOMAIN delivered = 1 .. d
        /\ DOMAIN sent = 1 .. Len(sent)
        /\ \A n \in DOMAIN delivered : Accepted[n] = delivered[n]
    BY <1>1, AcceptedIs, Domain DEF Types
  <1>3. Len(sent) = Expected /\ received = Expected
    BY DEF CountInv, Numbered
  <1>4. Expected <= u
    <2>1. Cardinality(air) \in Nat BY FS_CardinalityType DEF CountInv, Peers
    <2>2. received + Cardinality(air) <= u BY DEF CountInv, Accounted
    <2> QED BY <1>2, <1>3, <2>1, <2>2, ExchangeAssumption
  <1>5. u = d - BeingProcessed /\ BeingProcessed \in {0, 1} /\ InHand \in {0, 1}
    BY <1>1 DEF Outputs, UpdatePerOrder, BeingProcessed, InHand
  <1>6. got = OrderLen * (a + refused + InHand) /\ got <= OrderLen * Expected
        /\ refused \in Nat
    BY <1>1, <1>3 DEF Places, FramedStream, Types
  <1> HIDE DEF a, u, d
  <1>7. a + refused + InHand <= Expected
    <2> SUFFICES ASSUME Expected < a + refused + InHand PROVE FALSE
      BY <1>2, <1>5, <1>6, ExchangeAssumption
    <2>1. a + refused + InHand \in Int BY <1>2, <1>5, <1>6
    <2>2. Expected * OrderLen + 0 < (a + refused + InHand) * OrderLen + 0
      BY <2>1, QuotientFirst, IngressAssumption, ExchangeAssumption
    <2>3. /\ Expected * OrderLen = OrderLen * Expected
          /\ (a + refused + InHand) * OrderLen = OrderLen * (a + refused + InHand)
          /\ OrderLen * Expected \in Int /\ OrderLen * (a + refused + InHand) \in Int
      BY <2>1, IngressAssumption, ExchangeAssumption
    <2> QED BY <1>6, <2>2, <2>3
  <1>8. u = Expected /\ d = Expected /\ a = Expected /\ refused = 0
    BY <1>2, <1>4, <1>5, <1>6, <1>7, ExchangeAssumption
  <1>9. ASSUME NEW n \in 1 .. Expected PROVE updates[n].order_id = n
    <2>1. delivered[n] = OrderLen * (n - 1)
      BY <1>2, <1>8 DEF CountInv, InSequence
    <2>2. n - 1 \in Nat /\ OrderLen * (n - 1) = (n - 1) * OrderLen + 0
      BY IngressAssumption, ExchangeAssumption
    <2>3. delivered[n] % OrderLen = 0 /\ delivered[n] \div OrderLen = n - 1
      <3>1. 0 \in 0 .. OrderLen - 1 BY IngressAssumption
      <3>2. /\ ((n - 1) * OrderLen + 0) \div OrderLen = n - 1
            /\ ((n - 1) * OrderLen + 0) % OrderLen = 0
        BY <2>2, <3>1, DivModOf, IngressAssumption
      <3> QED BY <2>1, <2>2, <3>2
    <2>4. OrderAt(delivered[n]) = sent[n] BY <2>3 DEF OrderAt
    <2>5. sent[n].id = n BY <1>2, <1>3 DEF CountInv, Numbered
    <2>6. updates[n].order_id = OrderAt(delivered[n]).id
      BY <1>1, <1>2, <1>8, <2>3 DEF Outputs, UpdatePerOrder, Framed
    <2> QED BY <2>4, <2>5, <2>6
  <1>10. {updates[n].order_id : n \in DOMAIN updates} = 1 .. Expected
    BY <1>2, <1>8, <1>9
  <1> QED BY <1>8, <1>10 DEF u

-----------------------------------------------------------------------------
(* What the updates quote.  In these B is a book of the abstract engine.    *)

Offer(D) == [side : AAPL!Side, price : Nat, shares : Nat, ahead : SUBSET D]

\* The orders of one side are in line.
Sorted(B) ==
  /\ IsFiniteSet(DOMAIN B)
  /\ \A i \in DOMAIN B : B[i] \in Offer(DOMAIN B) /\ i \notin B[i].ahead
  /\ \A i, j \in DOMAIN B : B[i].side = B[j].side =>
       i = j \/ AAPL!Outranks(B, i, j) \/ AAPL!Outranks(B, j, i)
  /\ \A i, j, k \in DOMAIN B :
       /\ B[i].side = B[j].side /\ B[j].side = B[k].side
       /\ AAPL!Outranks(B, i, j) /\ AAPL!Outranks(B, j, k)
       => AAPL!Outranks(B, i, k)

Uncrossed(B) ==
  \A i, j \in DOMAIN B : B[i].side = "Buy" /\ B[j].side = "Sell" => B[i].price < B[j].price

\* T is what is left of B after some orders lost shares and some went.
LeftOf(B, T) ==
  /\ DOMAIN T \subseteq DOMAIN B
  /\ \A i \in DOMAIN T :
       /\ T[i] \in Offer(DOMAIN T)
       /\ T[i].side = B[i].side /\ T[i].price = B[i].price
       /\ T[i].ahead = B[i].ahead \cap DOMAIN T

LEMMA LeftIsSorted == ASSUME NEW B, Sorted(B), NEW T, LeftOf(B, T) PROVE Sorted(T)
  <1>1. ASSUME NEW i \in DOMAIN T, NEW j \in DOMAIN T
        PROVE  AAPL!Outranks(T, i, j) <=> AAPL!Outranks(B, i, j)
    BY DEF AAPL!Outranks, LeftOf
  <1>2. IsFiniteSet(DOMAIN T) BY FS_Subset DEF Sorted, LeftOf
  <1>3. \A i \in DOMAIN T : T[i] \in Offer(DOMAIN T) /\ i \notin T[i].ahead
    BY DEF Sorted, LeftOf
  <1>4. ASSUME NEW i \in DOMAIN T, NEW j \in DOMAIN T, T[i].side = T[j].side
        PROVE  i = j \/ AAPL!Outranks(T, i, j) \/ AAPL!Outranks(T, j, i)
    <2>1. i \in DOMAIN B /\ j \in DOMAIN B /\ B[i].side = B[j].side BY <1>4 DEF LeftOf
    <2>2. i = j \/ AAPL!Outranks(B, i, j) \/ AAPL!Outranks(B, j, i)
      BY <2>1 DEF Sorted
    <2> QED BY <1>1, <2>2
  <1>5. ASSUME NEW i \in DOMAIN T, NEW j \in DOMAIN T, NEW k \in DOMAIN T,
               T[i].side = T[j].side, T[j].side = T[k].side,
               AAPL!Outranks(T, i, j), AAPL!Outranks(T, j, k)
        PROVE  AAPL!Outranks(T, i, k)
    <2>1. /\ i \in DOMAIN B /\ j \in DOMAIN B /\ k \in DOMAIN B
          /\ B[i].side = B[j].side /\ B[j].side = B[k].side
      BY <1>5 DEF LeftOf
    <2>2. AAPL!Outranks(B, i, j) /\ AAPL!Outranks(B, j, k) BY <1>1, <1>5
    <2>3. AAPL!Outranks(B, i, k) BY <2>1, <2>2 DEF Sorted
    <2> QED BY <1>1, <2>3
  <1> QED BY <1>2, <1>3, <1>4, <1>5 DEF Sorted

LEMMA LeftIsUncrossed ==
  ASSUME NEW B, Uncrossed(B), NEW T, LeftOf(B, T) PROVE Uncrossed(T)
  BY DEF Uncrossed, LeftOf

\* An order never goes before itself, and of two only one goes before the other.
LEMMA NotBeforeItself ==
  ASSUME NEW B, Sorted(B), NEW i \in DOMAIN B PROVE ~AAPL!Outranks(B, i, i)
  BY DEF Sorted, Offer, AAPL!Outranks, AAPL!Before

LEMMA TotalIsNat ==
  ASSUME NEW B, Sorted(B), NEW Q \in SUBSET DOMAIN B PROVE AAPL!Total(B, Q) \in Nat
  <1> DEFINE f == [i \in DOMAIN B |-> B[i].shares]
  <1>1. IsFiniteSet(Q) BY FS_Subset DEF Sorted
  <1>2. \A i \in Q : f[i] \in Nat BY DEF Sorted, Offer
  <1> HIDE DEF f
  <1>3. SumFunctionOnSet(f, Q) \in Nat BY <1>1, <1>2, SumIsNat
  <1>4. AAPL!SumFunctionOnSet(f, Q) = SumFunctionOnSet(f, Q)
    BY DEF AAPL!SumFunctionOnSet, AAPL!FoldFunctionOnSet, AAPL!MapThenFoldSet,
       SumFunctionOnSet, FoldFunctionOnSet, MapThenFoldSet
  <1> QED BY <1>3, <1>4 DEF AAPL!Total, f

\* Those of A that go before i, and i, have no more shares than all of A.
LEMMA TotalWithout ==
  ASSUME NEW B, Sorted(B), NEW A \in SUBSET DOMAIN B, NEW i \in A,
         NEW Q \in SUBSET A, i \notin Q
  PROVE  AAPL!Total(B, Q) + B[i].shares <= AAPL!Total(B, A)
  <1> DEFINE f == [j \in DOMAIN B |-> B[j].shares]
  <1>1. IsFiniteSet(A) /\ IsFiniteSet(Q) BY FS_Subset DEF Sorted
  <1>2. (\A j \in A : f[j] \in Nat /\ f[j] <= f[j]) /\ f[i] = B[i].shares BY DEF Sorted, Offer
  <1> HIDE DEF f
  <1>3. SumFunctionOnSet(f, Q \cup {i}) = f[i] + SumFunctionOnSet(f, Q)
        /\ SumFunctionOnSet(f, Q) \in Nat
    BY <1>1, <1>2, SumAdd, SumIsNat
  <1>4. SumFunctionOnSet(f, Q \cup {i}) <= SumFunctionOnSet(f, A)
    <2> DEFINE R == Q \cup {i}
    <2>1. R \in SUBSET A /\ \A j \in R : f[j] \in Nat /\ f[j] <= f[j] BY <1>2
    <2> HIDE DEF R
    <2>2. SumFunctionOnSet(f, R) <= SumFunctionOnSet(f, A) BY <1>1, <1>2, <2>1, SumAtMost
    <2> QED BY <2>2 DEF R
  <1>5. \A R : AAPL!SumFunctionOnSet(f, R) = SumFunctionOnSet(f, R)
    BY DEF AAPL!SumFunctionOnSet, AAPL!FoldFunctionOnSet, AAPL!MapThenFoldSet,
       SumFunctionOnSet, FoldFunctionOnSet, MapThenFoldSet
  <1>6. /\ AAPL!Total(B, Q) = SumFunctionOnSet(f, Q)
        /\ AAPL!Total(B, A) = SumFunctionOnSet(f, A)
    BY <1>5 DEF AAPL!Total, f
  <1>7. SumFunctionOnSet(f, Q) + B[i].shares <= SumFunctionOnSet(f, A)
    BY <1>2, <1>3, <1>4
  <1> QED BY <1>6, <1>7

LEMMA GivenAtMost ==
  ASSUME NEW B, Sorted(B), NEW A \in SUBSET DOMAIN B, NEW S \in Nat, NEW i \in A
  PROVE  /\ AAPL!Given(B, A, S, i) \in 0 .. B[i].shares
         /\ S - AAPL!Total(B, A) > 0 => AAPL!Given(B, A, S, i) = B[i].shares
  <1> DEFINE Q == {j \in A : AAPL!Outranks(B, j, i)}
             unserved == S - AAPL!Total(B, Q)
             n == B[i].shares
  <1>1. Q \in SUBSET A /\ Q \in SUBSET DOMAIN B /\ i \notin Q BY NotBeforeItself
  <1>2. AAPL!Given(B, A, S, i) = IF unserved <= 0 THEN 0
          ELSE IF unserved < n THEN unserved ELSE n
    BY DEF AAPL!Given
  <1> HIDE DEF Q, n
  <1>3. n \in Nat BY DEF Sorted, Offer, n
  <1>4. AAPL!Total(B, Q) \in Nat /\ AAPL!Total(B, A) \in Nat BY <1>1, TotalIsNat
  <1>5. AAPL!Total(B, Q) + n <= AAPL!Total(B, A) BY <1>1, TotalWithout DEF n
  <1>6. unserved \in Int /\ (S - AAPL!Total(B, A) > 0 => unserved > n) BY <1>3, <1>4, <1>5
  <1> HIDE DEF unserved
  <1> QED BY <1>2, <1>3, <1>6 DEF n

\* A match leaves the others in their order; if shares are left over, nobody is
\* left with whom they could trade.
LEMMA MatchedLeaves ==
  ASSUME NEW B, Sorted(B), NEW A \in SUBSET DOMAIN B, NEW S \in Nat
  PROVE  /\ LeftOf(B, AAPL!Matched(B, A, S))
         /\ S - AAPL!Total(B, A) > 0 => A \cap DOMAIN AAPL!Matched(B, A, S) = {}
  <1> DEFINE T == [i \in DOMAIN B |->
                     IF i \in A THEN [B[i] EXCEPT !.shares = @ - AAPL!Given(B, A, S, i)]
                     ELSE B[i]]
             Q == {i \in DOMAIN B : T[i].shares > 0}
             M == [i \in Q |-> [T[i] EXCEPT !.ahead = @ \cap Q]]
  <1>1. AAPL!Matched(B, A, S) = M BY DEF AAPL!Matched, AAPL!Only
  <1>2. ASSUME NEW i \in DOMAIN B
        PROVE  /\ T[i].side = B[i].side /\ T[i].price = B[i].price /\ T[i].ahead = B[i].ahead
               /\ T[i] \in Offer(DOMAIN B)
               /\ i \in A /\ S - AAPL!Total(B, A) > 0 => T[i].shares = 0
    <2>1. CASE i \in A
      <3>1. T[i] = [B[i] EXCEPT !.shares = @ - AAPL!Given(B, A, S, i)] BY <2>1
      <3> DEFINE g == AAPL!Given(B, A, S, i)
      <3>2. g \in 0 .. B[i].shares /\ (S - AAPL!Total(B, A) > 0 => g = B[i].shares)
        BY <2>1, GivenAtMost
      <3>3. B[i] \in Offer(DOMAIN B) BY DEF Sorted
      <3> HIDE DEF g, T
      <3> QED BY <3>1, <3>2, <3>3 DEF Offer, g
    <2>2. CASE i \notin A
      <3>1. T[i] = B[i] BY <2>2
      <3>2. B[i] \in Offer(DOMAIN B) BY DEF Sorted
      <3> HIDE DEF T
      <3> QED BY <2>2, <3>1, <3>2
    <2> QED BY <2>1, <2>2
  <1>3. DOMAIN T = DOMAIN B OBVIOUS
  <1> HIDE DEF T
  <1>4. ASSUME NEW i \in Q
        PROVE  /\ M[i] \in Offer(Q) /\ M[i].side = B[i].side /\ M[i].price = B[i].price
               /\ M[i].ahead = B[i].ahead \cap Q
               /\ ~(i \in A /\ S - AAPL!Total(B, A) > 0)
    <2>1. i \in DOMAIN B /\ T[i].shares > 0 OBVIOUS
    <2>2. M[i] = [T[i] EXCEPT !.ahead = @ \cap Q] OBVIOUS
    <2>3. T[i] \in Offer(DOMAIN B) BY <1>2, <2>1
    <2> HIDE DEF M, Q
    <2>4. /\ M[i] \in Offer(Q) /\ M[i].side = T[i].side /\ M[i].price = T[i].price
          /\ M[i].ahead = T[i].ahead \cap Q
      BY <2>2, <2>3 DEF Offer
    <2>5. ~(i \in A /\ S - AAPL!Total(B, A) > 0) BY <1>2, <2>1
    <2> QED BY <1>2, <2>1, <2>4, <2>5
  <1>5. DOMAIN M = Q /\ Q \subseteq DOMAIN B OBVIOUS
  <1> HIDE DEF M, Q
  <1> QED BY <1>1, <1>4, <1>5 DEF LeftOf

\* A newcomer under a new id is in line with the others.
LEMMA JoinedIsSorted ==
  ASSUME NEW B, Sorted(B), NEW k, k \notin DOMAIN B, NEW side \in AAPL!Side,
         NEW limit \in Nat, NEW shares \in Nat
  PROVE  Sorted(AAPL!Joined(B, k, side, limit, shares))
  <1> DEFINE F == {j \in AAPL!Of(B, side) : B[j].price = limit}
             J == [i \in DOMAIN B \cup {k} |->
                     IF i = k THEN [side |-> side, price |-> limit, shares |-> shares, ahead |-> F]
                     ELSE B[i]]
             D == DOMAIN B \cup {k}
  <1>1. AAPL!Joined(B, k, side, limit, shares) = J BY DEF AAPL!Joined
  <1>2. /\ DOMAIN J = D
        /\ J[k] = [side |-> side, price |-> limit, shares |-> shares, ahead |-> F]
        /\ \A i \in DOMAIN B : J[i] = B[i]
    OBVIOUS
  <1>3. F \subseteq DOMAIN B
        /\ \A i \in DOMAIN B : i \in F <=> B[i].side = side /\ B[i].price = limit
    BY DEF AAPL!Of
  <1>4. \A i \in DOMAIN B : B[i] \in Offer(DOMAIN B) /\ i \notin B[i].ahead BY DEF Sorted
  <1> HIDE DEF F, J
  <1>5. IsFiniteSet(D) BY FS_AddElement DEF Sorted
  <1>6. ASSUME NEW i \in D PROVE J[i] \in Offer(D) /\ i \notin J[i].ahead
    <2>1. CASE i = k
      <3>1. F \in SUBSET D /\ k \notin F BY <1>3
      <3> HIDE DEF D
      <3> QED BY <1>2, <2>1, <3>1 DEF Offer
    <2>2. CASE i # k
      <3>1. i \in DOMAIN B /\ J[i] = B[i] BY <1>2, <2>2
      <3>2. B[i] \in Offer(D) BY <1>4, <3>1 DEF Offer
      <3> QED BY <1>4, <3>1, <3>2
    <2> QED BY <2>1, <2>2
  <1>7. ASSUME NEW i \in DOMAIN B, NEW j \in DOMAIN B
        PROVE  AAPL!Outranks(J, i, j) <=> AAPL!Outranks(B, i, j)
    BY <1>2 DEF AAPL!Outranks
  <1>8. ASSUME NEW i \in DOMAIN B, B[i].side = side
        PROVE  /\ AAPL!Outranks(J, k, i) <=> AAPL!Before(side, limit, B[i].price)
               /\ AAPL!Outranks(J, i, k) <=> ~AAPL!Before(side, limit, B[i].price)
    <2>1. /\ J[i] = B[i] /\ J[k].price = limit /\ J[k].side = side /\ J[k].ahead = F
      BY <1>2
    <2>2. B[i].price \in Nat /\ k \notin B[i].ahead BY <1>4 DEF Offer
    <2>3. AAPL!Outranks(J, k, i) <=> AAPL!Before(side, limit, B[i].price)
      BY <2>1, <2>2 DEF AAPL!Outranks
    <2>4. AAPL!Outranks(J, i, k)
            <=> AAPL!Before(side, B[i].price, limit) \/ B[i].price = limit
      BY <1>3, <1>8, <2>1 DEF AAPL!Outranks
    <2>5. AAPL!Before(side, B[i].price, limit) \/ B[i].price = limit
            <=> ~AAPL!Before(side, limit, B[i].price)
      BY <2>2 DEF AAPL!Before
    <2> QED BY <2>3, <2>4, <2>5
  <1>9. ~AAPL!Outranks(J, k, k)
    <2>1. k \notin F BY <1>3
    <2> QED BY <1>2, <2>1 DEF AAPL!Outranks, AAPL!Before
  <1>10. \A i \in DOMAIN B : J[i].side = B[i].side BY <1>2
  <1>11. J[k].side = side BY <1>2
  <1>12. ASSUME NEW i \in D, NEW j \in D, J[i].side = J[j].side
         PROVE  i = j \/ AAPL!Outranks(J, i, j) \/ AAPL!Outranks(J, j, i)
    <2>1. CASE i \in DOMAIN B /\ j \in DOMAIN B
      BY <1>7, <1>10, <1>12, <2>1 DEF Sorted
    <2>2. CASE i = k \/ j = k BY <1>8, <1>10, <1>11, <1>12, <2>2
    <2> QED BY <2>1, <2>2
  \* Who goes before another has a price that is no worse.
  <1>13. ASSUME NEW i \in DOMAIN B, NEW j \in DOMAIN B, B[i].side = side, B[j].side = side,
                AAPL!Outranks(B, i, j)
         PROVE  /\ AAPL!Before(side, limit, B[i].price) => AAPL!Before(side, limit, B[j].price)
                /\ B[i].price \in Nat /\ B[j].price \in Nat
    <2>1. B[i].price \in Nat /\ B[j].price \in Nat BY <1>4 DEF Offer
    <2>2. AAPL!Before(side, B[i].price, B[j].price) \/ B[i].price = B[j].price
      BY <1>13 DEF AAPL!Outranks
    <2> QED BY <2>1, <2>2 DEF AAPL!Before
  <1>14. ASSUME NEW i \in D, NEW j \in D, NEW m \in D,
                J[i].side = J[j].side, J[j].side = J[m].side,
                AAPL!Outranks(J, i, j), AAPL!Outranks(J, j, m)
         PROVE  AAPL!Outranks(J, i, m)
    <2>1. CASE i \in DOMAIN B /\ j \in DOMAIN B /\ m \in DOMAIN B
      <3>1. AAPL!Outranks(B, i, j) /\ AAPL!Outranks(B, j, m) BY <1>7, <1>14, <2>1
      <3>2. B[i].side = B[j].side /\ B[j].side = B[m].side BY <1>10, <1>14, <2>1
      <3>3. AAPL!Outranks(B, i, m) BY <2>1, <3>1, <3>2 DEF Sorted
      <3> QED BY <1>7, <2>1, <3>3
    <2>2. CASE i = k
      <3>1. j # k BY <1>9, <1>14, <2>2
      <3>2. j \in DOMAIN B /\ B[j].side = side BY <1>10, <1>11, <1>14, <2>2, <3>1
      <3>3. AAPL!Before(side, limit, B[j].price) BY <1>8, <1>14, <2>2, <3>2
      <3>4. m # k BY <1>8, <1>14, <3>2, <3>3
      <3>5. m \in DOMAIN B /\ B[m].side = side BY <1>10, <1>14, <3>2, <3>4
      <3>6. AAPL!Outranks(B, j, m) BY <1>7, <1>14, <3>2, <3>5
      <3>7. AAPL!Before(side, limit, B[m].price) BY <1>13, <3>2, <3>3, <3>5, <3>6
      <3> QED BY <1>8, <2>2, <3>5, <3>7
    <2>3. CASE i # k /\ j = k
      <3>1. i \in DOMAIN B /\ B[i].side = side BY <1>10, <1>11, <1>14, <2>3
      <3>2. m # k BY <1>9, <1>14, <2>3
      <3>3. m \in DOMAIN B /\ B[m].side = side BY <1>10, <1>11, <1>14, <2>3, <3>2
      <3>4. ~AAPL!Before(side, limit, B[i].price) BY <1>8, <1>14, <2>3, <3>1
      <3>5. AAPL!Before(side, limit, B[m].price) BY <1>8, <1>14, <2>3, <3>3
      <3>6. B[i].price \in Nat /\ B[m].price \in Nat BY <1>4, <3>1, <3>3 DEF Offer
      <3>7. AAPL!Before(side, B[i].price, B[m].price) BY <3>4, <3>5, <3>6 DEF AAPL!Before
      <3>8. AAPL!Outranks(B, i, m) BY <3>1, <3>7 DEF AAPL!Outranks
      <3> QED BY <1>7, <3>1, <3>3, <3>8
    <2>4. CASE i # k /\ j # k /\ m = k
      <3>1. /\ i \in DOMAIN B /\ B[i].side = side
            /\ j \in DOMAIN B /\ B[j].side = side
        BY <1>10, <1>11, <1>14, <2>4
      <3>2. AAPL!Outranks(B, i, j) BY <1>7, <1>14, <3>1
      <3>3. ~AAPL!Before(side, limit, B[j].price) BY <1>8, <1>14, <2>4, <3>1
      <3>4. ~AAPL!Before(side, limit, B[i].price) BY <1>13, <3>1, <3>2, <3>3
      <3> QED BY <1>8, <2>4, <3>1, <3>4
    <2> QED BY <2>1, <2>2, <2>3, <2>4
  <1>15. Sorted(J) BY <1>2, <1>5, <1>6, <1>12, <1>14 DEF Sorted
  <1> QED BY <1>1, <1>15

\* An order joins only when nobody is left whose price it accepts.
LEMMA JoinedIsUncrossed ==
  ASSUME NEW B, Sorted(B), Uncrossed(B), NEW k, k \notin DOMAIN B, NEW side \in AAPL!Side,
         NEW limit \in Nat, NEW shares, AAPL!Acceptable(B, side, limit) = {}
  PROVE  Uncrossed(AAPL!Joined(B, k, side, limit, shares))
  <1> DEFINE J == AAPL!Joined(B, k, side, limit, shares)
  <1>1. /\ DOMAIN J = DOMAIN B \cup {k}
        /\ J[k].side = side /\ J[k].price = limit
        /\ \A i \in DOMAIN B : J[i] = B[i]
    BY DEF AAPL!Joined
  <1> HIDE DEF J
  <1>2. ASSUME NEW i \in DOMAIN B, B[i].side = AAPL!Opposite(side)
        PROVE  AAPL!Before(B[i].side, limit, B[i].price)
    BY <1>2 DEF AAPL!Acceptable, AAPL!Of
  <1>3. side \in {"Buy", "Sell"} BY DEF AAPL!Side
  <1>4. ASSUME NEW i \in DOMAIN J, NEW j \in DOMAIN J, J[i].side = "Buy", J[j].side = "Sell"
        PROVE  J[i].price < J[j].price
    <2>1. CASE i \in DOMAIN B /\ j \in DOMAIN B BY <1>1, <1>4, <2>1 DEF Uncrossed
    <2>2. CASE i = k /\ j # k
      <3>1. j \in DOMAIN B /\ J[j] = B[j] /\ side = "Buy" BY <1>1, <1>4, <2>2
      <3>2. AAPL!Before("Sell", limit, B[j].price)
        BY <1>2, <1>4, <3>1 DEF AAPL!Opposite
      <3> QED BY <1>1, <2>2, <3>1, <3>2 DEF AAPL!Before
    <2>3. CASE i # k /\ j = k
      <3>1. i \in DOMAIN B /\ J[i] = B[i] /\ side = "Sell" BY <1>1, <1>4, <2>3
      <3>2. AAPL!Before("Buy", limit, B[i].price)
        BY <1>2, <1>4, <3>1 DEF AAPL!Opposite
      <3>3. B[i].price \in Nat BY <3>1 DEF Sorted, Offer
      <3> QED BY <1>1, <2>3, <3>1, <3>2, <3>3 DEF AAPL!Before
    <2> QED BY <1>1, <1>4, <2>1, <2>2, <2>3
  <1>5. Uncrossed(J) BY <1>4 DEF Uncrossed
  <1> QED BY <1>5 DEF J

\* A limit order leaves the book sorted and uncrossed, also when it throws.
LEMMA SubmitKeeps ==
  ASSUME Sorted(book), Uncrossed(book), NEW id, NEW side \in AAPL!Side, NEW S \in Nat,
         NEW limit \in Nat, AAPL!AddLimitOrder(id, side, S, limit)
  PROVE  Sorted(book') /\ Uncrossed(book')
  <1> DEFINE A == AAPL!Acceptable(book, side, limit)
             M == AAPL!Matched(book, A, S)
             left == S - AAPL!Total(book, A)
  <1>1. /\ id \notin DOMAIN book
        /\ \/ book' = M
           \/ left > 0 /\ book' = AAPL!Joined(M, id, side, limit, left)
    BY DEF AAPL!AddLimitOrder, AAPL!Submit, AAPL!Ids
  <1>2. A \in SUBSET DOMAIN book BY DEF AAPL!Acceptable, AAPL!Of
  <1>3. LeftOf(book, M) /\ (left > 0 => A \cap DOMAIN M = {})
    <2> HIDE DEF A
    <2> QED BY <1>2, MatchedLeaves
  <1>4. left \in Int
    <2>1. AAPL!Total(book, A) \in Nat BY <1>2, TotalIsNat
    <2> HIDE DEF A
    <2> QED BY <2>1
  <1>5. left > 0 => AAPL!Acceptable(M, side, limit) = {}
    <2> SUFFICES ASSUME left > 0, NEW i \in AAPL!Acceptable(M, side, limit) PROVE FALSE
      OBVIOUS
    <2>1. /\ i \in DOMAIN M /\ M[i].side = AAPL!Opposite(side)
          /\ ~AAPL!Before(AAPL!Opposite(side), limit, M[i].price)
      BY DEF AAPL!Acceptable, AAPL!Of
    <2>2. i \in DOMAIN book /\ book[i].side = M[i].side /\ book[i].price = M[i].price
      BY <1>3, <2>1 DEF LeftOf
    <2>3. i \in A BY <2>1, <2>2 DEF AAPL!Acceptable, AAPL!Of
    <2> QED BY <1>3, <2>1, <2>3
  <1> HIDE DEF A, M, left
  <1>6. Sorted(M) /\ Uncrossed(M) BY <1>3, LeftIsSorted, LeftIsUncrossed
  <1>7. id \notin DOMAIN M BY <1>1, <1>3 DEF LeftOf
  <1>8. ASSUME left > 0, book' = AAPL!Joined(M, id, side, limit, left)
        PROVE  Sorted(book') /\ Uncrossed(book')
    <2>1. left \in Nat /\ AAPL!Acceptable(M, side, limit) = {} BY <1>4, <1>5, <1>8
    <2>2. Sorted(AAPL!Joined(M, id, side, limit, left)) BY <1>6, <1>7, <2>1, JoinedIsSorted
    <2>3. Uncrossed(AAPL!Joined(M, id, side, limit, left))
      BY <1>6, <1>7, <2>1, JoinedIsUncrossed
    <2> QED BY <1>8, <2>2, <2>3
  <1> QED BY <1>1, <1>6, <1>8

-----------------------------------------------------------------------------
\* There is an order that goes before all others of its side: one before which
\* as few others go as possible.
LEMMA FrontExists ==
  ASSUME NEW B, Sorted(B), NEW side, AAPL!Of(B, side) # {}
  PROVE  \E i \in AAPL!Of(B, side) :
           \A j \in AAPL!Of(B, side) \ {i} : AAPL!Outranks(B, i, j)
  <1> DEFINE Q == AAPL!Of(B, side)
             Pred(i) == {j \in Q : AAPL!Outranks(B, j, i)}
             Preds == {Pred(i) : i \in Q}
  <1>1. Q \subseteq DOMAIN B /\ \A i \in Q : B[i].side = side BY DEF AAPL!Of
  <1>2. IsFiniteSet(Q) BY <1>1, FS_Subset DEF Sorted
  <1> HIDE DEF Q
  <1>3. Preds \subseteq SUBSET Q /\ Preds # {} BY DEF Q
  <1>4. PICK T \in Preds : \A U \in SUBSET T : U # T => U \notin Preds
    <2> HIDE DEF Preds
    <2> QED BY <1>2, <1>3, LeastSubset
  <1>5. PICK i \in Q : T = Pred(i) BY <1>4
  <1>6. ASSUME NEW j \in Q \ {i}, ~AAPL!Outranks(B, i, j) PROVE FALSE
    <2>1. AAPL!Outranks(B, j, i) BY <1>1, <1>5, <1>6 DEF Sorted
    <2>2. \A k \in Pred(j) : k \in Pred(i)
      <3> TAKE k \in Pred(j)
      <3>1. k \in Q /\ AAPL!Outranks(B, k, j) OBVIOUS
      <3>2. AAPL!Outranks(B, k, i) BY <1>1, <1>5, <2>1, <3>1 DEF Sorted
      <3> QED BY <3>1, <3>2
    <2>3. j \in Pred(i) /\ j \notin Pred(j) BY <1>1, <2>1, NotBeforeItself
    <2>4. Pred(j) \in Preds OBVIOUS
    <2> HIDE DEF Pred, Preds
    <2>5. Pred(j) \in SUBSET T /\ Pred(j) # T BY <1>5, <2>2, <2>3
    <2> QED BY <1>4, <2>4, <2>5
  <1> QED BY <1>6 DEF Q

\* So what is quoted is the price no order of the side beats.
LEMMA BestIsTop ==
  ASSUME Sorted(book), NEW side \in AAPL!Side PROVE IsTop(side, BestPrice(side))
  <1> DEFINE Q == AAPL!Of(book, side)
             f == Front(side)
  <1>1. CASE Q = {} BY <1>1 DEF IsTop, BestPrice
  <1>2. CASE Q # {}
    <2>1. f \in Q /\ \A j \in Q \ {f} : AAPL!Outranks(book, f, j)
      BY <1>2, FrontExists DEF Front
    <2>2. BestPrice(side) = book[f].price BY <1>2 DEF BestPrice
    <2>3. \A i \in Q : i \in DOMAIN book /\ book[i].side = side /\ book[i].price \in Nat
      BY DEF AAPL!Of, Sorted, Offer
    <2> HIDE DEF f, Q
    <2>4. ASSUME NEW i \in Q PROVE ~AAPL!Before(side, book[i].price, book[f].price)
      <3>1. CASE i = f BY <2>3, <3>1 DEF AAPL!Before
      <3>2. CASE i # f
        <4>1. AAPL!Outranks(book, f, i) BY <2>1, <3>2
        <4>2. AAPL!Before(side, book[f].price, book[i].price) \/ book[f].price = book[i].price
          BY <2>1, <2>3, <4>1 DEF AAPL!Outranks
        <4> QED BY <2>1, <2>3, <4>2 DEF AAPL!Before
      <3> QED BY <3>1, <3>2
    <2> QED BY <2>1, <2>2, <2>4 DEF IsTop, Q
  <1> QED BY <1>1, <1>2

\* A bid and an ask that are both quoted belong to two orders of the book.
LEMMA BestUncrossed ==
  ASSUME Sorted(book), Uncrossed(book), BestPrice("Buy") # 0, BestPrice("Sell") # 0
  PROVE  BestPrice("Buy") < BestPrice("Sell")
  <1>1. ASSUME NEW side \in AAPL!Side, BestPrice(side) # 0
        PROVE  \E i \in DOMAIN book : book[i].side = side /\ book[i].price = BestPrice(side)
    <2>1. IsTop(side, BestPrice(side)) BY BestIsTop
    <2> QED BY <1>1, <2>1 DEF IsTop, AAPL!Of
  <1>2. "Buy" \in AAPL!Side /\ "Sell" \in AAPL!Side BY DEF AAPL!Side
  <1>3. PICK i \in DOMAIN book : book[i].side = "Buy" /\ book[i].price = BestPrice("Buy")
    BY <1>1, <1>2
  <1>4. PICK j \in DOMAIN book : book[j].side = "Sell" /\ book[j].price = BestPrice("Sell")
    BY <1>1, <1>2
  <1> QED BY <1>3, <1>4 DEF Uncrossed

-----------------------------------------------------------------------------
\* What is on the wire or in hand are orders, the book of the engine is in
\* order, and what was published last is still what it says.
QuoteInv ==
  /\ client \in {"benchmark", "bot", "other"}
  /\ \A k \in DOMAIN sent : sent[k] \in NetworkOrder
  /\ BeingProcessed = 1 => pending \in NetworkOrder
  /\ pcEngine = "boot" => updates = <<>>
  /\ Sorted(book) /\ Uncrossed(book)
  /\ QuotesTrue

LEMMA InitQuotes == ASSUME Init PROVE QuoteInv
  <1>1. /\ sent = <<>> /\ updates = <<>> /\ pcEngine = "boot" /\ DOMAIN book = {}
        /\ client \in {"benchmark", "bot", "other"}
    BY DEF Init, StreamInit, AAPL!Init, AAPL!NoOrders
  <1>2. Sorted(book) /\ Uncrossed(book) BY <1>1, FS_EmptySet DEF Sorted, Uncrossed
  <1>3. QuotesTrue BY <1>1 DEF QuotesTrue
  <1> QED BY <1>1, <1>2, <1>3 DEF QuoteInv, BeingProcessed

\* Steps that touch neither orders nor book nor updates.
LEMMA QuietQuotes ==
  ASSUME QuoteInv, UNCHANGED <<client, sent, pending, updates, book, pcEngine>> PROVE QuoteInv'
  <1>1. QuotesTrue' BY DEF QuoteInv, QuotesTrue, IsTop, AAPL!Of
  <1> QED BY <1>1 DEF QuoteInv, BeingProcessed

LEMMA ClientSendsOrders ==
  ASSUME ExchangeInv, QuoteInv, ClientSends PROVE QuoteInv'
  <1>1. PICK order \in NthOrder(Len(sent) + 1) : sent' = Append(sent, order)
    BY DEF ClientSends, Send
  <1>2. UNCHANGED <<client, pending, updates, book, pcEngine>>
    BY DEF ClientSends, fixed, bookVars
  <1>3. /\ IsSeq(sent) /\ Len(sent) \in Nat /\ DOMAIN sent = 1 .. Len(sent)
    BY Domain DEF ExchangeInv, Types
  <1>4. /\ IsSeq(sent') /\ Len(sent') = Len(sent) + 1 /\ sent'[Len(sent) + 1] = order
        /\ \A k \in 1 .. Len(sent) : sent'[k] = sent[k]
    BY <1>1, <1>3, Appended
  <1>5. DOMAIN sent' = 1 .. Len(sent) + 1 BY <1>3, <1>4, Domain
  <1>6. order \in NetworkOrder
    <2> DEFINE k == Len(sent) + 1
    <2>1. k \in Nat /\ k % 2 \in Nat /\ (k + 1) % 2 \in Nat BY <1>3
    <2>2. order \in NthOrder(k) OBVIOUS
    <2> HIDE DEF k
    <2>3. CASE client = "benchmark" BY <2>1, <2>2, <2>3 DEF NthOrder, NetworkOrder
    <2>4. CASE client = "bot" BY <2>1, <2>2, <2>4 DEF NthOrder, NetworkOrder
    <2>5. CASE client = "other" BY <2>2, <2>5, ExchangeAssumption DEF NthOrder
    <2> QED BY <2>3, <2>4, <2>5 DEF QuoteInv
  <1>7. \A k \in DOMAIN sent' : sent'[k] \in NetworkOrder
    BY <1>3, <1>4, <1>5, <1>6 DEF QuoteInv
  <1>8. QuotesTrue' BY <1>2 DEF QuoteInv, QuotesTrue, IsTop, AAPL!Of
  <1> QED BY <1>2, <1>7, <1>8 DEF QuoteInv, BeingProcessed

LEMMA EnginePopsOrder ==
  ASSUME ExchangeInv, QuoteInv, EnginePops PROVE QuoteInv'
  <1> DEFINE item == Head(queue)
  <1>1. /\ pcEngine = "spin" /\ pcEngine' = "add" /\ queue # <<>>
        /\ pending' \in Decoded(item)
        /\ UNCHANGED <<client, sent, updates, book>>
    BY DEF EnginePops, Ring!Pop, streamVars, fixed, bookVars
  <1>2. Types BY DEF ExchangeInv
  <1>3. item \in Nat /\ item + OrderLen <= got
    <2>1. /\ queue \in Seq(Nat) /\ delivered \in Seq(Nat) /\ Len(queue) \in Nat
          /\ Len(delivered) \in Nat /\ Len(queue) > 0
      BY <1>1, <1>2, LenProperties, EmptySeq DEF Types
    <2>2. /\ Len(delivered) + 1 \in DOMAIN Accepted
          /\ Accepted[Len(delivered) + 1] = queue[1]
      BY <2>1, ConcatProperties, LenProperties DEF Accepted
    <2>3. item = queue[1] /\ queue[1] \in Nat BY <2>1
    <2>4. Accepted[Len(delivered) + 1] + OrderLen <= got
      BY <2>2 DEF ExchangeInv, Places, FramedStream
    <2> QED BY <2>2, <2>3, <2>4
  <1> HIDE DEF item
  <1>4. item \div OrderLen + 1 \in DOMAIN sent BY <1>2, <1>3, WithinSent, Domain DEF Types
  <1>5. OrderAt(item) \in NetworkOrder BY <1>4 DEF QuoteInv, OrderAt
  <1>6. pending' \in NetworkOrder BY <1>1, <1>5, ExchangeAssumption DEF Decoded
  <1>7. QuotesTrue' BY <1>1 DEF QuoteInv, QuotesTrue
  <1> QED BY <1>1, <1>6, <1>7 DEF QuoteInv

LEMMA EngineAddsSorted ==
  ASSUME ExchangeInv, QuoteInv, EngineAdds PROVE QuoteInv'
  <1>1. /\ pcEngine = "add" /\ pcEngine' = "publish"
        /\ UNCHANGED <<client, sent, pending, updates>>
        /\ \/ UNCHANGED book
           \/ AAPL!AddLimitOrder(pending.id, MappedSide(pending), pending.shares, pending.price)
    BY DEF EngineAdds, streamVars, fixed, bookVars
  <1>2. pending \in NetworkOrder BY <1>1 DEF QuoteInv, BeingProcessed
  <1> DEFINE id == pending.id
             side == MappedSide(pending)
             shares == pending.shares
             price == pending.price
  <1>3. side \in AAPL!Side /\ shares \in Nat /\ price \in Nat
    BY <1>2 DEF NetworkOrder, MappedSide, AAPL!Side
  <1>4. Sorted(book') /\ Uncrossed(book')
    <2>1. CASE UNCHANGED book BY <2>1 DEF QuoteInv
    <2>2. CASE AAPL!AddLimitOrder(id, side, shares, price)
      <3> HIDE DEF id, side, shares, price
      <3> QED BY <1>3, <2>2, SubmitKeeps DEF QuoteInv
    <2> QED BY <1>1, <2>1, <2>2
  <1>5. QuotesTrue' BY <1>1 DEF QuoteInv, QuotesTrue
  <1>6. Sorted(book)' /\ Uncrossed(book)' BY <1>4
  <1> QED BY <1>1, <1>2, <1>5, <1>6 DEF QuoteInv

\* The update that is published quotes the book, which stays as it is.
LEMMA EnginePublishesQuotes ==
  ASSUME ExchangeInv, QuoteInv, EnginePublishes PROVE QuoteInv'
  <1>1. /\ pcEngine = "publish" /\ pcEngine' = "spin"
        /\ updates' = Append(updates, MarketUpdate)
        /\ UNCHANGED <<client, sent, pending, book>>
    BY DEF EnginePublishes, streamVars, fixed, bookVars
  <1>2. /\ IsSeq(updates) /\ Len(updates) \in Nat /\ DOMAIN updates = 1 .. Len(updates)
    BY Domain DEF ExchangeInv, Types
  <1> DEFINE u == MarketUpdate
             m == Len(updates) + 1
  <1>3. /\ IsSeq(updates') /\ Len(updates') = m /\ updates'[m] = u
        /\ \A n \in 1 .. Len(updates) : updates'[n] = updates[n]
    BY <1>1, <1>2, Appended
  <1>4. DOMAIN updates' = 1 .. m BY <1>2, <1>3, Domain
  <1>5. u.top_bid = BestPrice("Buy") /\ u.top_ask = BestPrice("Sell") BY DEF MarketUpdate
  <1>6. Sorted(book) /\ Uncrossed(book) BY DEF QuoteInv
  <1>7. IsTop("Buy", u.top_bid) /\ IsTop("Sell", u.top_ask)
    BY <1>5, <1>6, BestIsTop DEF AAPL!Side
  <1>8. 0 \notin {u.top_bid, u.top_ask} => u.top_bid < u.top_ask
    BY <1>5, <1>6, BestUncrossed
  <1> HIDE DEF u
  <1>9. \A n \in DOMAIN updates' :
          0 \notin {updates'[n].top_bid, updates'[n].top_ask} =>
            updates'[n].top_bid < updates'[n].top_ask
    <2> TAKE n \in DOMAIN updates'
    <2>1. CASE n = m BY <1>3, <1>8, <2>1
    <2>2. CASE n # m
      <3>1. n \in DOMAIN updates /\ updates'[n] = updates[n] BY <1>2, <1>3, <1>4, <2>2
      <3> QED BY <3>1 DEF QuoteInv, QuotesTrue
    <2> QED BY <2>1, <2>2
  <1>10. /\ IsTop("Buy", updates[Len(updates)].top_bid)'
         /\ IsTop("Sell", updates[Len(updates)].top_ask)'
    <2>1. updates'[Len(updates')] = u BY <1>3
    <2> QED BY <1>1, <1>7, <2>1 DEF IsTop, AAPL!Of
  <1>11. QuotesTrue' BY <1>9, <1>10 DEF QuotesTrue
  <1> QED BY <1>1, <1>11 DEF QuoteInv, BeingProcessed

LEMMA NextQuotes == ASSUME ExchangeInv, QuoteInv, [Next]_vars PROVE QuoteInv'
  <1> DEFINE Still == UNCHANGED <<client, sent, pending, updates, book, pcEngine>>
  <1>1. CASE ClientSends BY <1>1, ClientSendsOrders
  <1>2. CASE ClientCloses \/ ConnectionFails \/ \E n \in 1 .. MaxOrders : Hear(n) \/ Lose(n)
    <2>1. Still
      BY <1>2 DEF ClientCloses, ConnectionFails, Disconnect, Hear, Lose, streamVars, fixed,
         bookVars
    <2> QED BY <2>1, QuietQuotes
  <1>3. CASE Gateway
    <2>1. Still
      BY <1>3 DEF Gateway, Accept, GatewayReads, Read, GatewayOffers, GatewayStores,
         GatewayBreaks, ReadNothing, Join, GatewayUnchanged, streamVars, fixed, bookVars
    <2> QED BY <2>1, QuietQuotes
  <1>4. CASE EngineBoots
    <2>1. /\ pcEngine = "boot" /\ pcEngine' \in {"returned", "spin"}
          /\ UNCHANGED <<client, sent, pending, updates, book>>
      BY <1>4 DEF EngineBoots, streamVars, fixed, bookVars
    <2>2. updates' = <<>> BY <2>1 DEF QuoteInv
    <2>3. QuotesTrue' BY <2>2 DEF QuotesTrue
    <2> QED BY <2>1, <2>2, <2>3 DEF QuoteInv, BeingProcessed
  <1>5. CASE EnginePops BY <1>5, EnginePopsOrder
  <1>6. CASE EngineAdds BY <1>6, EngineAddsSorted
  <1>7. CASE EnginePublishes BY <1>7, EnginePublishesQuotes
  <1>8. CASE UNCHANGED vars
    <2>1. Still BY <1>8 DEF vars, streamVars, fixed, bookVars
    <2> QED BY <2>1, QuietQuotes
  <1> QED
    BY <1>1, <1>2, <1>3, <1>4, <1>5, <1>6, <1>7, <1>8 DEF Next, Client, Engine

-----------------------------------------------------------------------------
\* The invariant holds of every behaviour of the server, whatever its faults.
THEOREM ExchangeInvariant == Spec => []ExchangeInv
  <1>1. Init => ExchangeInv BY InitExchange
  <1>2. ExchangeInv /\ [Next]_vars => ExchangeInv' BY NextKeepsExchange
  <1> QED BY <1>1, <1>2, PTL DEF Spec

\* The orders the gateway accepts are taken from the stream in its order and
\* without sharing a byte; while segments stay whole each is one the client
\* sent, and only a full ring loses any.
THEOREM ExchangeFramed == Spec => []FramedStream
  <1>1. ExchangeInv => FramedStream BY DEF ExchangeInv, Places
  <1> QED BY <1>1, ExchangeInvariant, PTL

\* The engine publishes once for each order it took, about that order and in
\* the same order.
THEOREM ExchangeUpdates == Spec => []UpdatePerOrder
  <1>1. ExchangeInv => UpdatePerOrder BY DEF ExchangeInv, Outputs
  <1> QED BY <1>1, ExchangeInvariant, PTL

\* The counts, too, hold of every behaviour.
THEOREM ExchangeCounts == Spec => []CountInv
  <1>1. Init => CountInv BY InitCount
  <1>2. ExchangeInv /\ CountInv /\ [Next]_vars => CountInv' BY NextCounts
  <1> QED BY <1>1, <1>2, ExchangeInvariant, PTL DEF Spec

\* Type correctness of the server with its client, for all constants.
THEOREM ExchangeTyped == Spec => []TypeOK
  <1>1. ExchangeInv /\ CountInv => TypeOK
    BY Domain, IngressAssumption DEF ExchangeInv, Types, CountInv, Peers, TypeOK
  <1> QED BY <1>1, ExchangeInvariant, ExchangeCounts, PTL

\* The benchmark that ends without doubled datagrams or split segments has
\* measured each of its orders, whatever was lost, reset or delayed meanwhile.
THEOREM ExchangeRoundTrips == Spec => []EveryRoundTripCounted
  <1>1. ExchangeInv /\ CountInv => EveryRoundTripCounted BY RoundTrips
  <1> QED BY <1>1, ExchangeInvariant, ExchangeCounts, PTL

\* What the engine publishes of its book is true when it is published and until
\* the next order is processed: each side's best price, of an order that no
\* other beats, or 0 for an empty side; and no bid at or above the ask.  It
\* holds for every order any client can send, misframed ones included.
THEOREM ExchangeQuotes == Spec => []QuotesTrue
  <1>1. Init => QuoteInv BY InitQuotes
  <1>2. ExchangeInv /\ QuoteInv /\ [Next]_vars => QuoteInv' BY NextQuotes
  <1>3. QuoteInv => QuotesTrue BY DEF QuoteInv
  <1> QED BY <1>1, <1>2, <1>3, ExchangeInvariant, PTL DEF Spec
=============================================================================
