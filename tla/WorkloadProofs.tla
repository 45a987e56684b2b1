--------------------------- MODULE WorkloadProofs ---------------------------
(***************************************************************************)
(* The programs that measure the engine measure what they say they do, for *)
(* any number of orders, levels and draws.  The invariant says which       *)
(* orders rest after n calls of each program; from it follow the three     *)
(* properties of Workloads.                                                *)
(***************************************************************************)
EXTENDS Workloads, NumberLemmas

(***************************************************************************)
(* The inductive invariant.  In these b is a book.                         *)
(***************************************************************************)

Offer(D) == [side : B!Side, price : Nat, shares : Nat \ {0}, ahead : SUBSET D]

Sane(b) ==
  /\ IsFiniteSet(DOMAIN b)
  /\ \A i \in DOMAIN b : b[i] \in Offer(DOMAIN b) /\ i \notin b[i].ahead

Prices(lo, hi) == lo .. hi

\* The orders I, each of this size, at prices of Bids and Asks.
Resting(b, I, size, Bids, Asks) ==
  /\ DOMAIN b = I
  /\ \A i \in I :
       /\ b[i].shares = size
       /\ b[i].price \in IF b[i].side = "Buy" THEN Bids ELSE Asks

\* Any call leaves the book sane, and no program can fill the pool.
Roomy ==
  /\ program \in DOMAIN Length /\ n \in 0 .. Length[program]
  /\ down = FALSE
  /\ Sane(book) /\ Cardinality(DOMAIN book) <= n

\* Ids that are still to come are free.
ScalingInv == program = "scaling" => DOMAIN book \subseteq 0 .. n - 1

SimulatorInv ==
  program = "simulator" =>
    /\ currentOrderId \in Nat
    /\ \A i \in DOMAIN book : i \in Nat /\ i < currentOrderId

WorstInv == program = "worst" => Resting(book, 1 .. n, 100, BidDist, AskDist)

TailBids == Prices(9901, 10000)
TailAsks == Prices(10100, 10199)
TailInv == program = "tail" => Resting(book, 1 .. n, 100, TailBids, TailAsks)

ScaleBids == Prices(4001, 5001)
ScaleInv == program = "scale" => Resting(book, 1 .. n, 10, ScaleBids, {})

\* Each of the two orders of the ping-pong loses 10 shares to another.
PingPongInv ==
  program = "pingpong" =>
    /\ DOMAIN book = 1 .. IF n < 2 THEN n ELSE 2
    /\ \A i \in DOMAIN book :
         /\ i = 1 => book[i].side = "Buy" /\ book[i].price = 10000
         /\ i = 2 => book[i].side = "Sell" /\ book[i].price = 10001
         /\ book[i].shares = 1000000 - IF i + n < 5 THEN 0 ELSE 10

SweepAsks == Prices(10000, 10000 + Levels)
SweepInv ==
  program = "sweep" =>
    Resting(book, IF n <= Levels THEN 1 .. n ELSE {}, 10, {}, SweepAsks)

\* What is left of the market maker's cycle, above the bids of the warm-up.
Warm == 2 * WarmUp
ChurnIds == IF n <= Warm + 20 THEN 1 .. n ELSE (1 .. Warm) \cup (n - 19 .. Warm + 20)
ChurnBids == Prices(9900, 10000)
ChurnAsks == Prices(10051, 10100)
InPlace(i, side, price) ==
  IF i <= Warm THEN side = "Buy" => price <= 9949
  ELSE side = "Buy" /\ price = 10001 - (i - Warm)
ChurnInv ==
  program = "churn" =>
    /\ Resting(book, ChurnIds, 100, ChurnBids, ChurnAsks)
    /\ \A i \in DOMAIN book : InPlace(i, book[i].side, book[i].price)

CascadeBids == Prices(9900, 9900)
CascadeAsks == Prices(10000, 10100)
CascadeInv ==
  LET passive == 10 * Levels + 1 IN
  program = "cascade" =>
    /\ Resting(book, IF n <= passive THEN 1 .. n ELSE {passive}, 100, CascadeBids, CascadeAsks)
    /\ \A i \in DOMAIN book : book[i].side = IF i = passive THEN "Buy" ELSE "Sell"

ThroughputAsks == Prices(10000, 10000)
ThroughputInv ==
  program = "throughput" =>
    Resting(book, IF n % 2 = 1 THEN {n} ELSE {}, 100, {}, ThroughputAsks)

WorkInv ==
  /\ Roomy /\ ScalingInv /\ SimulatorInv /\ WorstInv /\ TailInv /\ ScaleInv
  /\ PingPongInv /\ SweepInv /\ ChurnInv /\ CascadeInv /\ ThroughputInv

-----------------------------------------------------------------------------
(***************************************************************************)
(* What one call of the abstract engine does to a book.                    *)
(***************************************************************************)

\* What an order says, wherever it queues.
Says(o) == <<o.side, o.price, o.shares>>

\* T holds these orders of b, unchanged but for those that queue before them.
Keeps(b, T, Q) == DOMAIN T = Q /\ \A i \in Q : Says(T[i]) = Says(b[i])

\* The instance's sum is the library's.
LEMMA TotalIs ==
  ASSUME NEW b, NEW Q
  PROVE  B!Total(b, Q) = SumFunctionOnSet([i \in DOMAIN b |-> b[i].shares], Q)
  BY DEF B!Total, B!SumFunctionOnSet, B!FoldFunctionOnSet, B!MapThenFoldSet,
     SumFunctionOnSet, FoldFunctionOnSet, MapThenFoldSet

LEMMA TotalIsNat ==
  ASSUME NEW b, Sane(b), NEW Q \in SUBSET DOMAIN b
  PROVE  B!Total(b, Q) \in Nat
  <1> DEFINE f == [i \in DOMAIN b |-> b[i].shares]
  <1>1. IsFiniteSet(Q) BY FS_Subset DEF Sane
  <1>2. \A i \in Q : f[i] \in Nat BY DEF Sane, Offer
  <1> HIDE DEF f
  <1>3. SumFunctionOnSet(f, Q) \in Nat BY <1>1, <1>2, SumIsNat
  <1> QED BY <1>3, TotalIs DEF f

\* An order of A and others of A have no more shares than all of A.
LEMMA TotalWithout ==
  ASSUME NEW b, Sane(b), NEW A \in SUBSET DOMAIN b, NEW i \in A,
         NEW Q \in SUBSET A, i \notin Q
  PROVE  B!Total(b, Q) + b[i].shares <= B!Total(b, A)
  <1> DEFINE f == [j \in DOMAIN b |-> b[j].shares]
  <1>1. IsFiniteSet(A) /\ IsFiniteSet(Q) BY FS_Subset DEF Sane
  <1>2. (\A j \in A : f[j] \in Nat /\ f[j] <= f[j]) /\ f[i] = b[i].shares BY DEF Sane, Offer
  <1> HIDE DEF f
  <1>3. SumFunctionOnSet(f, Q \cup {i}) = f[i] + SumFunctionOnSet(f, Q)
        /\ SumFunctionOnSet(f, Q) \in Nat
    BY <1>1, <1>2, SumAdd, SumIsNat
  <1>4. SumFunctionOnSet(f, Q \cup {i}) <= SumFunctionOnSet(f, A)
    <2> DEFINE R == Q \cup {i}
    <2>1. R \in SUBSET A /\ \A j \in R : f[j] \in Nat /\ f[j] <= f[j] BY <1>2
    <2> HIDE DEF R
    <2>2. SumFunctionOnSet(f, R) <= SumFunctionOnSet(f, A) BY <1>1, <1>2, <2>1, SumAtMost
    <2> QED BY <2>2 DEF R
  <1>5. B!Total(b, Q) = SumFunctionOnSet(f, Q) /\ B!Total(b, A) = SumFunctionOnSet(f, A)
    BY TotalIs DEF f
  <1> QED BY <1>2, <1>3, <1>4, <1>5

\* Orders of one size.
LEMMA TotalOfEqual ==
  ASSUME NEW b, Sane(b), NEW Q \in SUBSET DOMAIN b, NEW k \in Nat,
         \A i \in Q : b[i].shares = k
  PROVE  B!Total(b, Q) = k * Cardinality(Q)
  <1> DEFINE f == [i \in DOMAIN b |-> b[i].shares]
  <1>1. IsFiniteSet(Q) /\ \A i \in Q : f[i] = k BY FS_Subset DEF Sane
  <1> HIDE DEF f
  <1>2. SumFunctionOnSet(f, Q) = k * Cardinality(Q) BY <1>1, SumConstant
  <1> QED BY <1>2, TotalIs DEF f

\* No order gives more than it has; one of those who are all asked for at least
\* what they have gives everything.
LEMMA GivenAtMost ==
  ASSUME NEW b, Sane(b), NEW A \in SUBSET DOMAIN b, NEW S \in Nat, NEW i \in A
  PROVE  /\ B!Given(b, A, S, i) \in 0 .. b[i].shares
         /\ S >= B!Total(b, A) => B!Given(b, A, S, i) = b[i].shares
  <1> DEFINE Q == {j \in A : B!Outranks(b, j, i)}
             unserved == S - B!Total(b, Q)
             k == b[i].shares
  <1>1. Q \in SUBSET A /\ Q \in SUBSET DOMAIN b /\ i \notin Q
    BY DEF Sane, Offer, B!Outranks, B!Before
  <1>2. B!Given(b, A, S, i) = IF unserved <= 0 THEN 0 ELSE IF unserved < k THEN unserved ELSE k
    BY DEF B!Given
  <1> HIDE DEF Q, k
  <1>3. k \in Nat /\ k > 0 BY DEF Sane, Offer, k
  <1>4. B!Total(b, Q) \in Nat /\ B!Total(b, A) \in Nat BY <1>1, TotalIsNat
  <1>5. B!Total(b, Q) + k <= B!Total(b, A) BY <1>1, TotalWithout DEF k
  <1>6. unserved \in Int /\ (S >= B!Total(b, A) => unserved >= k) BY <1>3, <1>4, <1>5
  <1> HIDE DEF unserved
  <1> QED BY <1>2, <1>3, <1>6 DEF k

\* The order with the best price of A gives first, and alone when it has enough.
LEMMA BestGivesAlone ==
  ASSUME NEW b, Sane(b), NEW A \in SUBSET DOMAIN b, NEW S \in Nat, NEW t \in A,
         S <= b[t].shares,
         \A j \in A \ {t} : b[j].side = b[t].side /\ B!Before(b[t].side, b[t].price, b[j].price)
  PROVE  \A i \in A : B!Given(b, A, S, i) = IF i = t THEN S ELSE 0
  <1> DEFINE Q(i) == {j \in A : B!Outranks(b, j, i)}
             unserved(i) == S - B!Total(b, Q(i))
  <1>1. \A i \in A : B!Given(b, A, S, i) =
          IF unserved(i) <= 0 THEN 0
          ELSE IF unserved(i) < b[i].shares THEN unserved(i) ELSE b[i].shares
    BY DEF B!Given
  <1>2. \A i \in A : b[i].price \in Nat /\ b[i].shares \in Nat /\ i \notin b[i].ahead
    BY DEF Sane, Offer
  <1>3. B!Given(b, A, S, t) = S
    <2>1. Q(t) = {} BY <1>2 DEF B!Outranks, B!Before
    <2>2. B!Total(b, {}) = 0 BY SumOfNone, TotalIs
    <2> HIDE DEF Q
    <2>3. unserved(t) = S BY <2>1, <2>2
    <2> HIDE DEF unserved
    <2> QED BY <1>1, <1>2, <2>3
  <1>4. ASSUME NEW i \in A, i # t PROVE B!Given(b, A, S, i) = 0
    <2>1. t \in Q(i) BY <1>4 DEF B!Outranks
    <2>2. Q(i) \in SUBSET DOMAIN b OBVIOUS
    <2> HIDE DEF Q
    <2>3. B!Total(b, {}) = 0 BY SumOfNone, TotalIs
    <2>4. B!Total(b, {}) + b[t].shares <= B!Total(b, Q(i)) BY <2>1, <2>2, TotalWithout
    <2>5. B!Total(b, Q(i)) \in Nat BY <2>2, TotalIsNat
    <2>6. unserved(i) <= 0 BY <1>2, <2>3, <2>4, <2>5
    <2> HIDE DEF unserved
    <2> QED BY <1>1, <2>6
  <1> QED BY <1>3, <1>4

\* M is left when S shares were taken from A: whoever has shares left stays with
\* them.
Gone(b, A, S) == {i \in A : B!Given(b, A, S, i) = b[i].shares}
LeftAfter(b, A, S, M) ==
  /\ Sane(M) /\ DOMAIN M = DOMAIN b \ Gone(b, A, S)
  /\ \A i \in DOMAIN M :
       /\ M[i].side = b[i].side /\ M[i].price = b[i].price
       /\ M[i].shares = b[i].shares - IF i \in A THEN B!Given(b, A, S, i) ELSE 0

LEMMA MatchedIs ==
  ASSUME NEW b, Sane(b), NEW A \in SUBSET DOMAIN b, NEW S \in Nat
  PROVE  LeftAfter(b, A, S, B!Matched(b, A, S))
  <1> DEFINE g(i) == IF i \in A THEN B!Given(b, A, S, i) ELSE 0
             gone == Gone(b, A, S)
             T == [i \in DOMAIN b |->
                     IF i \in A THEN [b[i] EXCEPT !.shares = @ - B!Given(b, A, S, i)]
                     ELSE b[i]]
             Q == {i \in DOMAIN b : T[i].shares > 0}
             M == [i \in Q |-> [T[i] EXCEPT !.ahead = @ \cap Q]]
  <1>1. B!Matched(b, A, S) = M BY DEF B!Matched, B!Only
  <1>2. \A i \in DOMAIN b : /\ g(i) \in 0 .. b[i].shares
                           /\ b[i] \in Offer(DOMAIN b) /\ i \notin b[i].ahead
    <2>1. ASSUME NEW i \in DOMAIN b PROVE g(i) \in 0 .. b[i].shares
      <3>1. b[i].shares \in Nat BY DEF Sane, Offer
      <3>2. CASE i \in A BY <3>2, GivenAtMost
      <3>3. CASE i \notin A BY <3>1, <3>3
      <3> QED BY <3>2, <3>3
    <2> QED BY <2>1 DEF Sane
  <1>3. ASSUME NEW i \in DOMAIN b
        PROVE  /\ T[i].side = b[i].side /\ T[i].price = b[i].price /\ T[i].ahead = b[i].ahead
               /\ T[i].shares = b[i].shares - g(i)
    <2>1. CASE i \in A
      <3>1. T[i] = [b[i] EXCEPT !.shares = @ - B!Given(b, A, S, i)] BY <2>1
      <3>2. b[i] \in Offer(DOMAIN b) /\ g(i) = B!Given(b, A, S, i) BY <1>2, <2>1
      <3> HIDE DEF T, g
      <3> QED BY <3>1, <3>2 DEF Offer
    <2>2. CASE i \notin A
      <3>1. T[i] = b[i] /\ g(i) = 0 BY <2>2
      <3>2. b[i].shares \in Nat BY DEF Sane, Offer
      <3> HIDE DEF T, g
      <3> QED BY <3>1, <3>2
    <2> QED BY <2>1, <2>2
  <1>4. ASSUME NEW i \in DOMAIN b PROVE DOMAIN T[i] = {"side", "price", "shares", "ahead"}
    <2>1. b[i] \in Offer(DOMAIN b) BY DEF Sane
    <2>2. DOMAIN b[i] = {"side", "price", "shares", "ahead"} BY <2>1 DEF Offer
    <2> QED BY <2>2
  <1>5. Q \subseteq DOMAIN b /\ Q = DOMAIN b \ gone
    <2>1. ASSUME NEW i \in DOMAIN b PROVE T[i].shares > 0 <=> i \notin gone
      <3>1. T[i].shares = b[i].shares - g(i) BY <1>3
      <3>2. /\ b[i].shares \in Nat \ {0} /\ g(i) \in 0 .. b[i].shares
            /\ i \in gone <=> g(i) = b[i].shares
        BY <1>2 DEF Offer, Gone
      <3> HIDE DEF T, g, gone
      <3> QED BY <3>1, <3>2
    <2> HIDE DEF T, gone
    <2> QED BY <2>1
  <1>6. ASSUME NEW i \in Q
        PROVE  /\ M[i].side = b[i].side /\ M[i].price = b[i].price
               /\ M[i].shares = b[i].shares - g(i)
               /\ M[i] \in Offer(Q) /\ i \notin M[i].ahead
    <2>1. M[i] = [T[i] EXCEPT !.ahead = @ \cap Q] OBVIOUS
    <2>2. i \in DOMAIN b BY <1>5
    <2>3. T[i].shares > 0 OBVIOUS
    <2>4. DOMAIN T[i] = {"side", "price", "shares", "ahead"} BY <1>4, <2>2
    <2> HIDE DEF M, Q, T
    <2>5. /\ M[i].side = T[i].side /\ M[i].price = T[i].price
          /\ M[i].shares = T[i].shares /\ M[i].ahead = T[i].ahead \cap Q
          /\ DOMAIN M[i] = {"side", "price", "shares", "ahead"}
          /\ M[i] = [side |-> M[i].side, price |-> M[i].price, shares |-> M[i].shares,
                     ahead |-> M[i].ahead]
      BY <2>1, <2>4
    <2>6. /\ T[i].side = b[i].side /\ T[i].price = b[i].price /\ T[i].ahead = b[i].ahead
          /\ T[i].shares = b[i].shares - g(i)
      BY <1>3, <2>2
    <2>7. b[i] \in Offer(DOMAIN b) /\ i \notin b[i].ahead /\ g(i) \in 0 .. b[i].shares
      BY <1>2, <2>2
    <2> HIDE DEF g
    <2>8. T[i].shares \in Nat \ {0} BY <2>3, <2>6, <2>7 DEF Offer
    <2> QED BY <2>5, <2>6, <2>7, <2>8 DEF Offer
  <1>7. DOMAIN M = Q OBVIOUS
  <1>8. IsFiniteSet(Q) BY <1>5, FS_Subset DEF Sane
  <1> HIDE DEF M, Q
  <1>9. Sane(M) BY <1>6, <1>7, <1>8 DEF Sane
  <1> QED BY <1>1, <1>5, <1>6, <1>7, <1>9 DEF LeftAfter

\* An incoming order that accepts nobody takes from nobody; one that asks for at
\* least what they have takes all of it.
LEMMA MatchedWithNone ==
  ASSUME NEW b, Sane(b), NEW S \in Nat
  PROVE  Sane(B!Matched(b, {}, S)) /\ Keeps(b, B!Matched(b, {}, S), DOMAIN b)
  <1> DEFINE M == B!Matched(b, {}, S)
  <1>1. {} \in SUBSET DOMAIN b OBVIOUS
  <1>2. LeftAfter(b, {}, S, M) BY <1>1, MatchedIs
  <1>3. Gone(b, {}, S) = {} BY DEF Gone
  <1>4. \A i \in DOMAIN b : b[i].shares \in Nat BY DEF Sane, Offer
  <1> HIDE DEF M
  <1>5. Keeps(b, M, DOMAIN b) BY <1>2, <1>3, <1>4 DEF Keeps, Says, LeftAfter
  <1> QED BY <1>2, <1>5 DEF M, LeftAfter

LEMMA MatchedWithAll ==
  ASSUME NEW b, Sane(b), NEW A \in SUBSET DOMAIN b, NEW S \in Nat, S >= B!Total(b, A)
  PROVE  Sane(B!Matched(b, A, S)) /\ Keeps(b, B!Matched(b, A, S), DOMAIN b \ A)
  <1> DEFINE M == B!Matched(b, A, S)
  <1>1. LeftAfter(b, A, S, M) BY MatchedIs
  <1>2. Gone(b, A, S) = A BY GivenAtMost DEF Gone
  <1>3. \A i \in DOMAIN b : b[i].shares \in Nat BY DEF Sane, Offer
  <1> HIDE DEF M
  <1>4. Keeps(b, M, DOMAIN b \ A) BY <1>1, <1>2, <1>3 DEF Keeps, Says, LeftAfter
  <1> QED BY <1>1, <1>4 DEF M, LeftAfter

\* One that the best order can serve trades with that order only.
ServedBy(b, t, S, M) ==
  /\ Sane(M)
  /\ DOMAIN M = IF S = b[t].shares THEN DOMAIN b \ {t} ELSE DOMAIN b
  /\ \A i \in DOMAIN M : /\ M[i].side = b[i].side /\ M[i].price = b[i].price
                        /\ M[i].shares = b[i].shares - IF i = t THEN S ELSE 0

LEMMA MatchedWithBest ==
  ASSUME NEW b, Sane(b), NEW A \in SUBSET DOMAIN b, NEW S \in Nat, NEW t \in A,
         S <= b[t].shares,
         \A j \in A \ {t} : b[j].side = b[t].side /\ B!Before(b[t].side, b[t].price, b[j].price)
  PROVE  ServedBy(b, t, S, B!Matched(b, A, S))
  <1> DEFINE M == B!Matched(b, A, S)
  <1>1. LeftAfter(b, A, S, M) BY MatchedIs
  <1>2. \A i \in A : B!Given(b, A, S, i) = IF i = t THEN S ELSE 0 BY BestGivesAlone
  <1>3. \A i \in DOMAIN b : b[i].shares \in Nat \ {0} BY DEF Sane, Offer
  <1>4. Gone(b, A, S) = IF S = b[t].shares THEN {t} ELSE {} BY <1>2, <1>3 DEF Gone
  <1> HIDE DEF M
  <1>5. DOMAIN M = IF S = b[t].shares THEN DOMAIN b \ {t} ELSE DOMAIN b
    BY <1>1, <1>4 DEF LeftAfter
  <1>6. ASSUME NEW i \in DOMAIN M
        PROVE  /\ M[i].side = b[i].side /\ M[i].price = b[i].price
               /\ M[i].shares = b[i].shares - IF i = t THEN S ELSE 0
    BY <1>1, <1>2 DEF LeftAfter
  <1> QED BY <1>1, <1>5, <1>6 DEF M, LeftAfter, ServedBy

LEMMA WithoutIs ==
  ASSUME NEW b, Sane(b), NEW id \in DOMAIN b
  PROVE  /\ Sane(B!Without(b, id)) /\ Keeps(b, B!Without(b, id), DOMAIN b \ {id})
         /\ Cardinality(DOMAIN B!Without(b, id)) = Cardinality(DOMAIN b) - 1
  <1> DEFINE Q == DOMAIN b \ {id}
             W == [i \in Q |-> [b[i] EXCEPT !.ahead = @ \cap Q]]
  <1>1. B!Without(b, id) = W BY DEF B!Without, B!Only
  <1>2. DOMAIN W = Q OBVIOUS
  <1>3. ASSUME NEW i \in Q
        PROVE  /\ W[i].side = b[i].side /\ W[i].price = b[i].price
               /\ W[i].shares = b[i].shares /\ W[i] \in Offer(Q) /\ i \notin W[i].ahead
    <2>1. W[i] = [b[i] EXCEPT !.ahead = @ \cap Q] OBVIOUS
    <2>2. b[i] \in Offer(DOMAIN b) /\ i \notin b[i].ahead BY DEF Sane
    <2> HIDE DEF W, Q
    <2> QED BY <2>1, <2>2 DEF Offer
  <1>4. IsFiniteSet(Q) /\ Cardinality(Q) = Cardinality(DOMAIN b) - 1
    BY FS_RemoveElement DEF Sane
  <1> HIDE DEF W, Q
  <1>5. Sane(W) BY <1>2, <1>3, <1>4 DEF Sane
  <1>6. Keeps(b, W, Q) BY <1>2, <1>3 DEF Keeps, Says
  <1> QED BY <1>1, <1>2, <1>4, <1>5, <1>6 DEF Q

\* T is b with one more order, which says what.
Gains(b, T, id, what) ==
  /\ DOMAIN T = DOMAIN b \cup {id}
  /\ Says(T[id]) = what
  /\ \A i \in DOMAIN b : Says(T[i]) = Says(b[i])

LEMMA JoinedIs ==
  ASSUME NEW b, Sane(b), NEW id, id \notin DOMAIN b, NEW side \in B!Side,
         NEW price \in Nat, NEW shares \in Nat \ {0}
  PROVE  /\ Sane(B!Joined(b, id, side, price, shares))
         /\ Gains(b, B!Joined(b, id, side, price, shares), id, <<side, price, shares>>)
         /\ Cardinality(DOMAIN B!Joined(b, id, side, price, shares)) = Cardinality(DOMAIN b) + 1
  <1> DEFINE J == B!Joined(b, id, side, price, shares)
             D == DOMAIN b \cup {id}
             F == {j \in B!Of(b, side) : b[j].price = price}
  <1>1. /\ DOMAIN J = D
        /\ J[id] = [side |-> side, price |-> price, shares |-> shares, ahead |-> F]
        /\ \A i \in DOMAIN b : J[i] = b[i]
    BY DEF B!Joined
  <1>2. F \in SUBSET D /\ id \notin F BY DEF B!Of
  <1>3. IsFiniteSet(D) /\ Cardinality(D) = Cardinality(DOMAIN b) + 1
    BY FS_AddElement DEF Sane
  <1> HIDE DEF J, F
  <1>4. J[id] \in Offer(D) /\ id \notin J[id].ahead BY <1>1, <1>2 DEF Offer
  <1>5. ASSUME NEW i \in DOMAIN b PROVE J[i] \in Offer(D) /\ i \notin J[i].ahead
    <2>1. J[i] = b[i] /\ b[i] \in Offer(DOMAIN b) /\ i \notin b[i].ahead BY <1>1 DEF Sane
    <2> QED BY <2>1 DEF Offer
  <1>6. Sane(J) BY <1>1, <1>3, <1>4, <1>5 DEF Sane
  <1>7. Gains(b, J, id, <<side, price, shares>>) BY <1>1 DEF Gains, Says
  <1> QED BY <1>1, <1>3, <1>6, <1>7 DEF J

-----------------------------------------------------------------------------
(***************************************************************************)
(* What one call does to the book of the program.                          *)
(***************************************************************************)

LEMMA FewerOrders ==
  ASSUME NEW b, Sane(b), NEW T, DOMAIN T \subseteq DOMAIN b
  PROVE  /\ Cardinality(DOMAIN T) \in Nat /\ Cardinality(DOMAIN b) \in Nat
         /\ Cardinality(DOMAIN T) <= Cardinality(DOMAIN b)
  <1>1. IsFiniteSet(DOMAIN b) /\ DOMAIN T \in SUBSET DOMAIN b BY DEF Sane
  <1> QED BY <1>1, FS_Subset, FS_CardinalityType

LEMMA SameCardinality == ASSUME NEW Q PROVE B!Cardinality(Q) = Cardinality(Q)
  BY DEF B!Cardinality, Cardinality

\* A limit order for S shares met the book b: A may trade with it, M is what the
\* match left of b, T the book when it is done.
Outcome(b, id, side, S, limit, A, T, M, left) ==
  /\ A = B!Acceptable(b, side, limit)
  /\ M = B!Matched(b, A, S)
  /\ left = S - B!Total(b, A)
  /\ left > 0 /\ Cardinality(DOMAIN M) < Capacity
       => down' = FALSE /\ T = B!Joined(M, id, side, limit, left)
  /\ ~(left > 0) => down' = FALSE /\ T = M

LEMMA SubmitIs ==
  ASSUME NEW b, NEW id, NEW side, NEW S, NEW limit, B!Submit(b, id, side, S, limit),
         limit < MAX_PRICE
  PROVE  \E A, M, left : Outcome(b, id, side, S, limit, A, book', M, left)
  <1> DEFINE A == B!Acceptable(b, side, limit)
             M == B!Matched(b, A, S)
             left == S - B!Total(b, A)
             fits == limit < MAX_PRICE /\ B!Cardinality(DOMAIN M) < Capacity
  <1>1. B!Cardinality(DOMAIN M) = Cardinality(DOMAIN M) BY SameCardinality
  <1>2. /\ down' = (left > 0 /\ ~fits)
        /\ book' = IF left > 0 /\ fits THEN B!Joined(M, id, side, limit, left) ELSE M
    BY DEF B!Submit
  <1>3. Cardinality(DOMAIN M) < Capacity => fits BY <1>1
  <1>4. A = B!Acceptable(b, side, limit) /\ M = B!Matched(b, A, S) /\ left = S - B!Total(b, A)
    OBVIOUS
  <1> HIDE DEF fits, A, M, left
  <1>5. ASSUME left > 0, fits
        PROVE  down' = FALSE /\ book' = B!Joined(M, id, side, limit, left)
    BY <1>2, <1>5, Zenon
  <1>6. ASSUME ~(left > 0) PROVE down' = FALSE /\ book' = M BY <1>2, <1>6, Zenon
  <1>7. Outcome(b, id, side, S, limit, A, book', M, left)
    BY <1>3, <1>4, <1>5, <1>6, Zenon DEF Outcome
  <1> QED BY <1>7, Zenon

\* An order that nobody accepts rests.
LEMMA SubmitRests ==
  ASSUME NEW b, Sane(b), Cardinality(DOMAIN b) < Capacity,
         NEW id, id \notin DOMAIN b, NEW side \in B!Side,
         NEW S \in Nat \ {0}, NEW limit \in Nat, limit < MAX_PRICE,
         B!Acceptable(b, side, limit) = {}, B!Submit(b, id, side, S, limit)
  PROVE  /\ down' = FALSE /\ Sane(book') /\ Gains(b, book', id, <<side, limit, S>>)
         /\ Cardinality(DOMAIN book') = Cardinality(DOMAIN b) + 1
  <1>1. PICK A, M, left : Outcome(b, id, side, S, limit, A, book', M, left) BY SubmitIs
  <1>2. left = S
    <2>1. B!Total(b, {}) = 0 BY SumOfNone, TotalIs
    <2> QED BY <1>1, <2>1 DEF Outcome
  <1>3. Sane(M) /\ Keeps(b, M, DOMAIN b) BY <1>1, MatchedWithNone DEF Outcome
  <1>4. DOMAIN M = DOMAIN b /\ \A i \in DOMAIN b : Says(M[i]) = Says(b[i]) BY <1>3 DEF Keeps
  <1>5. down' = FALSE /\ book' = B!Joined(M, id, side, limit, S)
    BY <1>1, <1>2, <1>4 DEF Outcome
  <1>6. /\ Sane(book') /\ Gains(M, book', id, <<side, limit, S>>)
        /\ Cardinality(DOMAIN book') = Cardinality(DOMAIN M) + 1
    BY <1>3, <1>4, <1>5, JoinedIs
  <1>7. Gains(b, book', id, <<side, limit, S>>) BY <1>4, <1>6 DEF Gains
  <1> QED BY <1>4, <1>5, <1>6, <1>7

\* One that is served wholly does not.
IsServed(b, side, S, limit) ==
  Sane(b) /\ S \in Nat /\ S <= B!Total(b, B!Acceptable(b, side, limit))

LEMMA SubmitTakes ==
  ASSUME NEW b, NEW id, NEW side, NEW S, NEW limit,
         IsServed(b, side, S, limit), B!Submit(b, id, side, S, limit)
  PROVE  down' = FALSE /\ book' = B!Matched(b, B!Acceptable(b, side, limit), S)
  <1> DEFINE A == B!Acceptable(b, side, limit)
             left == S - B!Total(b, A)
  <1>1. A \in SUBSET DOMAIN b BY DEF B!Acceptable, B!Of
  <1>2. B!Total(b, A) \in Nat
    <2> HIDE DEF A
    <2> QED BY <1>1, TotalIsNat DEF IsServed
  <1> HIDE DEF A
  <1>3. ~(left > 0) BY <1>2 DEF A, IsServed
  <1> HIDE DEF left
  <1> QED BY <1>3 DEF B!Submit, left, A

\* Whatever a limit order does, the book stays sane and the engine up.
LEMMA SubmitIsFine ==
  ASSUME NEW b, Sane(b), Cardinality(DOMAIN b) < Capacity,
         NEW id, id \notin DOMAIN b, NEW side \in B!Side, NEW S \in Nat,
         NEW limit \in Nat, limit < MAX_PRICE, B!Submit(b, id, side, S, limit)
  PROVE  /\ down' = FALSE /\ Sane(book') /\ DOMAIN book' \subseteq DOMAIN b \cup {id}
         /\ Cardinality(DOMAIN book') <= Cardinality(DOMAIN b) + 1
  <1>1. PICK A, M, left : Outcome(b, id, side, S, limit, A, book', M, left) BY SubmitIs
  <1>2. A \in SUBSET DOMAIN b BY <1>1 DEF Outcome, B!Acceptable, B!Of
  <1>3. left \in Int
    <2>1. B!Total(b, A) \in Nat BY <1>2, TotalIsNat
    <2> QED BY <1>1, <2>1 DEF Outcome
  <1>4. LeftAfter(b, A, S, M) BY <1>1, <1>2, MatchedIs DEF Outcome
  <1>5. Sane(M) /\ DOMAIN M \subseteq DOMAIN b BY <1>4 DEF LeftAfter
  <1>6. /\ Cardinality(DOMAIN M) \in Nat /\ Cardinality(DOMAIN b) \in Nat
        /\ Cardinality(DOMAIN M) <= Cardinality(DOMAIN b)
    BY <1>5, FewerOrders
  <1>7. Cardinality(DOMAIN M) < Capacity BY <1>6 DEF Capacity
  <1>8. CASE left > 0
    <2>1. down' = FALSE /\ book' = B!Joined(M, id, side, limit, left) /\ left \in Nat \ {0}
      BY <1>1, <1>3, <1>7, <1>8 DEF Outcome
    <2>2. id \notin DOMAIN M BY <1>5
    <2>3. /\ Sane(book') /\ Gains(M, book', id, <<side, limit, left>>)
          /\ Cardinality(DOMAIN book') = Cardinality(DOMAIN M) + 1
      BY <1>5, <2>1, <2>2, JoinedIs
    <2>4. DOMAIN book' = DOMAIN M \cup {id} BY <2>3 DEF Gains
    <2> QED BY <1>5, <1>6, <2>1, <2>3, <2>4
  <1>9. CASE ~(left > 0)
    <2>1. down' = FALSE /\ book' = M BY <1>1, <1>9 DEF Outcome
    <2> QED BY <1>5, <1>6, <2>1
  <1> QED BY <1>8, <1>9

-----------------------------------------------------------------------------
(***************************************************************************)
(* What each program's calls do.                                           *)
(***************************************************************************)

LEMMA NumberTypes ==
  /\ numOrders \in Nat /\ numRandom \in Nat /\ Levels \in Nat /\ WarmUp \in Nat
  /\ INITIAL_ORDERS \in Nat /\ NUM_TRANSACTIONS \in Nat
  BY WorkloadAssumption

LEMMA MaxPriceIs == MAX_PRICE \in Nat /\ 100000 < MAX_PRICE
  BY DEF MAX_PRICE

LEMMA Lengths ==
  ASSUME NEW p \in DOMAIN Length PROVE Length[p] \in Nat /\ Length[p] <= Capacity
  <1>1. Length[p] <= Capacity BY WorkloadAssumption
  <1>2. Length[p] \in Nat BY NumberTypes DEF Length
  <1> QED BY <1>1, <1>2

\* The call before it is made, and what is true of the book after any call.
LEMMA CallIsMade ==
  ASSUME Roomy, Step
  PROVE  /\ n \in Nat /\ n < Length[program] /\ n' = n + 1
         /\ program' = program /\ program \in DOMAIN Length
         /\ Sane(book) /\ Cardinality(DOMAIN book) < Capacity /\ down = FALSE
         /\ \E c \in Calls : Execute(c)
  <1>1. n \in 0 .. Length[program] /\ Length[program] \in Nat /\ Length[program] <= Capacity
    BY Lengths DEF Roomy
  <1>2. Cardinality(DOMAIN book) \in Nat BY FS_CardinalityType DEF Roomy, Sane
  <1>3. Cardinality(DOMAIN book) <= n /\ n < Length[program] BY DEF Roomy, Step
  <1>4. Cardinality(DOMAIN book) < Capacity BY <1>1, <1>2, <1>3 DEF Capacity
  <1>5. n \in Nat BY <1>1
  <1>6. down = FALSE /\ program \in DOMAIN Length BY DEF Roomy
  <1>7. n' = n + 1 /\ program' = program /\ \E c \in Calls : Execute(c) BY Zenon DEF Step
  <1> QED BY <1>3, <1>4, <1>5, <1>6, <1>7, Zenon DEF Roomy

Fine ==
  /\ down' = FALSE /\ Sane(book')
  /\ Cardinality(DOMAIN book') <= Cardinality(DOMAIN book) + 1

LEMMA FineIsRoomy == ASSUME Roomy, Step, Fine PROVE Roomy'
  <1>1. Cardinality(DOMAIN book) \in Nat /\ Cardinality(DOMAIN book') \in Nat
    BY FS_CardinalityType DEF Roomy, Sane, Fine
  <1>2. Length[program] \in Nat BY Lengths DEF Roomy
  <1>3. /\ n \in Nat /\ n < Length[program] /\ n' = n + 1
        /\ program' = program /\ program \in DOMAIN Length
    BY CallIsMade
  <1>4. n' \in 0 .. Length[program'] BY <1>2, <1>3
  <1>5. Cardinality(DOMAIN book') <= n' BY <1>1, <1>3 DEF Fine, Roomy
  <1> QED BY <1>3, <1>4, <1>5 DEF Roomy, Fine

\* Some programs have one call only that may come next.
LEMMA NextCall ==
  /\ program = "scaling" => Calls = {Scaling(n)}
  /\ program = "pingpong" => Calls = {PingPong[n + 1]}
  /\ program = "sweep" => Calls = {Sweep(n)}
  /\ program = "churn" => Calls = {Churn(n)}
  /\ program = "worst" => Calls = WorstCase(n)
  /\ program = "tail" => Calls = {TailLatency(n + 1)}
  /\ program = "scale" => Calls = {Scale(n + 1)}
  /\ program = "cascade" => Calls = {Cascade(n + 1)}
  /\ program = "throughput" => Calls = {Throughput(n + 1)}
  /\ program = "simulator" => Calls = Simulator
  BY DEF Calls

LEMMA AddIs ==
  ASSUME NEW id, id \notin DOMAIN book, NEW side, NEW S, NEW p, Execute(Add(id, side, S, p))
  PROVE  B!Submit(book, id, side, S, p)
  BY Zenon DEF Execute, Add, B!AddLimitOrder, B!Ids

LEMMA MarketIs ==
  ASSUME NEW side, NEW S, Execute(Market(side, S))
  PROVE  book' = B!Matched(book, B!Of(book, B!Opposite(side)), S) /\ down' = down
  <1>1. Market(side, S).op = "market" /\ Market(side, S).side = side
        /\ Market(side, S).shares = S
    BY DEF Market
  <1> QED BY <1>1 DEF Execute, B!MarketOrder

LEMMA CancelIs ==
  ASSUME NEW id \in DOMAIN book, Execute(Cancel(id))
  PROVE  book' = B!Without(book, id) /\ down' = down
  BY DEF Execute, Cancel, B!CancelLimitOrder, B!Ids

\* Two price ranges that never trade, and an order at a price of its own range.
Apart(Bids, Asks) ==
  /\ \A p \in Bids \cup Asks : p \in Nat /\ p < MAX_PRICE
  /\ \A bid \in Bids, ask \in Asks : bid < ask

LEMMA InPrices ==
  ASSUME NEW lo \in Nat, NEW hi \in Nat, NEW p
  PROVE  p \in Prices(lo, hi) <=> p \in Nat /\ lo <= p /\ p <= hi
  BY DEF Prices

LEMMA PricesApart ==
  ASSUME NEW lo \in Nat, NEW bid \in Nat, NEW ask \in Nat, NEW hi \in Nat,
         bid < ask, bid < MAX_PRICE, hi < MAX_PRICE
  PROVE  Apart(Prices(lo, bid), Prices(ask, hi))
  <1> QED BY InPrices, MaxPriceIs DEF Apart

LEMMA ModLess ==
  ASSUME NEW a \in Nat, NEW C \in Nat \ {0}
  PROVE  a % C \in Nat /\ a % C < C
  BY DivMod

Passive(I, size, Bids, Asks, id, side, p) ==
  /\ Sane(book) /\ Cardinality(DOMAIN book) < Capacity
  /\ Resting(book, I, size, Bids, Asks) /\ Apart(Bids, Asks)
  /\ id \notin I /\ size \in Nat \ {0} /\ side \in B!Side
  /\ p \in IF side = "Buy" THEN Bids ELSE Asks

LEMMA OrderRests ==
  ASSUME NEW I, NEW size, NEW Bids, NEW Asks, NEW id, NEW side, NEW p,
         Passive(I, size, Bids, Asks, id, side, p), Execute(Add(id, side, size, p))
  PROVE  /\ Fine /\ Resting(book', I \cup {id}, size, Bids, Asks)
         /\ Gains(book, book', id, <<side, p, size>>)
  <1> USE DEF Passive
  <1>1. id \notin DOMAIN book BY DEF Resting
  <1>2. B!Submit(book, id, side, size, p) BY <1>1, AddIs
  <1>3. p \in Nat /\ p < MAX_PRICE BY Zenon DEF Apart
  <1>4. B!Acceptable(book, side, p) = {}
    <2> SUFFICES ASSUME NEW i \in DOMAIN book, book[i].side = B!Opposite(side)
                 PROVE  B!Before(B!Opposite(side), p, book[i].price)
      BY Zenon DEF B!Acceptable, B!Of
    <2>1. book[i].price \in IF book[i].side = "Buy" THEN Bids ELSE Asks BY DEF Resting
    <2>2. \A bid \in Bids, ask \in Asks : bid < ask BY DEF Apart
    <2>3. CASE side = "Buy"
      <3>1. p \in Bids /\ book[i].price \in Asks BY <2>1, <2>3 DEF B!Opposite
      <3> QED BY <2>2, <2>3, <3>1 DEF B!Opposite, B!Before
    <2>4. CASE side = "Sell"
      <3>1. p \in Asks /\ book[i].price \in Bids BY <2>1, <2>4 DEF B!Opposite
      <3>2. p > book[i].price
        <4>1. \A x, y \in Int : x < y => y > x OBVIOUS
        <4>2. p \in Int /\ book[i].price \in Int BY <3>1 DEF Apart
        <4> QED BY <2>2, <3>1, <4>1, <4>2, Zenon
      <3> QED BY <2>4, <3>2 DEF B!Opposite, B!Before
    <2> QED BY <2>3, <2>4 DEF B!Side
  <1>5. /\ down' = FALSE /\ Sane(book') /\ Gains(book, book', id, <<side, p, size>>)
        /\ Cardinality(DOMAIN book') = Cardinality(DOMAIN book) + 1
    BY <1>1, <1>2, <1>3, <1>4, SubmitRests
  <1>6. Cardinality(DOMAIN book) \in Nat BY FS_CardinalityType DEF Sane
  <1>7. Fine BY <1>5, <1>6 DEF Fine
  <1>8. Resting(book', I \cup {id}, size, Bids, Asks)
    BY <1>5 DEF Resting, Gains, Says
  <1> QED BY <1>5, <1>7, <1>8

\* The tests whose orders only rest.
LEMMA WorstStep ==
  ASSUME Roomy, WorstInv, Step, program = "worst"
  PROVE  Fine /\ WorstInv'
  <1>1. /\ n \in Nat /\ n' = n + 1 /\ program' = program
        /\ Sane(book) /\ Cardinality(DOMAIN book) < Capacity
    BY CallIsMade
  <1>2. PICK c \in Calls : Execute(c) BY CallIsMade
  <1>3. 1 .. n + 1 = (1 .. n) \cup {n + 1} /\ n + 1 \notin 1 .. n BY <1>1
  <1> DEFINE side == Turn(n, "Buy", "Sell")
  <1>4. PICK p \in Turn(n, BidDist, AskDist) : c = Add(n + 1, side, 100, p)
    BY <1>2, NextCall DEF WorstCase
  <1>5. side \in B!Side /\ p \in IF side = "Buy" THEN BidDist ELSE AskDist
    BY DEF Turn, B!Side
  <1>6. Apart(BidDist, AskDist) BY WorkloadAssumption, MaxPriceIs DEF Apart
  <1>7. Resting(book, 1 .. n, 100, BidDist, AskDist) BY DEF WorstInv
  <1>8. Execute(Add(n + 1, side, 100, p)) BY <1>2, <1>4
  <1> HIDE DEF side
  <1>9. Fine /\ Resting(book', (1 .. n) \cup {n + 1}, 100, BidDist, AskDist)
    <2>1. Passive(1 .. n, 100, BidDist, AskDist, n + 1, side, p)
      BY <1>1, <1>3, <1>5, <1>6, <1>7 DEF Passive
    <2> QED BY <1>8, <2>1, OrderRests
  <1> QED BY <1>1, <1>3, <1>9 DEF WorstInv

LEMMA TailStep ==
  ASSUME Roomy, TailInv, Step, program = "tail"
  PROVE  Fine /\ TailInv'
  <1>1. /\ n \in Nat /\ n' = n + 1 /\ program' = program
        /\ Sane(book) /\ Cardinality(DOMAIN book) < Capacity
    BY CallIsMade
  <1>2. PICK c \in Calls : Execute(c) BY CallIsMade
  <1>3. 1 .. n + 1 = (1 .. n) \cup {n + 1} /\ n + 1 \notin 1 .. n BY <1>1
  <1> DEFINE side == Turn(n + 1, "Buy", "Sell")
             p == Turn(n + 1, 10000 - ((n + 1) % 100), 10100 + ((n + 1) % 100))
  <1>4. Execute(Add(n + 1, side, 100, p)) BY <1>2, NextCall DEF TailLatency
  <1>5. side \in B!Side /\ p \in IF side = "Buy" THEN TailBids ELSE TailAsks
    <2>1. (n + 1) % 100 \in Nat /\ (n + 1) % 100 < 100 BY <1>1, ModLess
    <2> QED BY <2>1, InPrices DEF Turn, B!Side, TailBids, TailAsks
  <1>6. Apart(TailBids, TailAsks) BY PricesApart, MaxPriceIs DEF TailBids, TailAsks
  <1>7. Resting(book, 1 .. n, 100, TailBids, TailAsks) BY DEF TailInv
  <1> HIDE DEF side, p
  <1>8. Fine /\ Resting(book', (1 .. n) \cup {n + 1}, 100, TailBids, TailAsks)
    <2>1. Passive(1 .. n, 100, TailBids, TailAsks, n + 1, side, p)
      BY <1>1, <1>3, <1>5, <1>6, <1>7 DEF Passive
    <2> QED BY <1>4, <2>1, OrderRests
  <1> QED BY <1>1, <1>3, <1>8 DEF TailInv

LEMMA ScaleStep ==
  ASSUME Roomy, ScaleInv, Step, program = "scale"
  PROVE  Fine /\ ScaleInv'
  <1>1. /\ n \in Nat /\ n' = n + 1 /\ program' = program
        /\ Sane(book) /\ Cardinality(DOMAIN book) < Capacity
    BY CallIsMade
  <1>2. PICK c \in Calls : Execute(c) BY CallIsMade
  <1>3. 1 .. n + 1 = (1 .. n) \cup {n + 1} /\ n + 1 \notin 1 .. n BY <1>1
  <1> DEFINE p == IF n + 1 <= numOrders THEN 5000 - ((n + 1) % 1000) ELSE 5001
  <1>4. Execute(Add(n + 1, "Buy", 10, p)) BY <1>2, NextCall DEF Scale
  <1>5. "Buy" \in B!Side /\ p \in ScaleBids
    <2>1. (n + 1) % 1000 \in Nat /\ (n + 1) % 1000 < 1000 BY <1>1, ModLess
    <2> QED BY <2>1, InPrices DEF B!Side, ScaleBids
  <1>6. Apart(ScaleBids, {}) BY InPrices, MaxPriceIs DEF Apart, ScaleBids
  <1>7. Resting(book, 1 .. n, 10, ScaleBids, {}) BY DEF ScaleInv
  <1> HIDE DEF p
  <1>8. Fine /\ Resting(book', (1 .. n) \cup {n + 1}, 10, ScaleBids, {})
    <2>1. Passive(1 .. n, 10, ScaleBids, {}, n + 1, "Buy", p)
      BY <1>1, <1>3, <1>5, <1>6, <1>7 DEF Passive
    <2> QED BY <1>4, <2>1, OrderRests
  <1> QED BY <1>1, <1>3, <1>8 DEF ScaleInv

\* BM_AddLimitOrders_Scaling trades, but never under an id that rests.
LEMMA ScalingStep ==
  ASSUME Roomy, ScalingInv, Step, program = "scaling"
  PROVE  Fine /\ ScalingInv'
  <1>1. /\ n \in Nat /\ n' = n + 1 /\ program' = program
        /\ Sane(book) /\ Cardinality(DOMAIN book) < Capacity
    BY CallIsMade
  <1>2. PICK c \in Calls : Execute(c) BY CallIsMade
  <1> DEFINE side == Turn(n, "Buy", "Sell")
             S == 100 * ((n % 5) + 1)
             p == 10000 + (n % 1000) - 25
  <1>3. Execute(Add(n, side, S, p)) BY <1>2, NextCall DEF Scaling
  <1>4. side \in B!Side /\ S \in Nat /\ p \in Nat /\ p < MAX_PRICE
    <2>1. /\ n % 5 \in Nat
          /\ n % 1000 \in Nat /\ n % 1000 < 1000
      BY <1>1, ModLess
    <2> QED BY <2>1, MaxPriceIs DEF Turn, B!Side
  <1>5. n \notin DOMAIN book BY <1>1 DEF ScalingInv
  <1> HIDE DEF side, S, p
  <1>6. /\ down' = FALSE /\ Sane(book') /\ DOMAIN book' \subseteq DOMAIN book \cup {n}
        /\ Cardinality(DOMAIN book') <= Cardinality(DOMAIN book) + 1
    <2>1. B!Submit(book, n, side, S, p) BY <1>3, <1>5, AddIs
    <2> QED BY <1>1, <1>4, <1>5, <2>1, SubmitIsFine
  <1>7. DOMAIN book' \subseteq 0 .. n' - 1 BY <1>1, <1>6 DEF ScalingInv
  <1> QED BY <1>1, <1>6, <1>7 DEF Fine, ScalingInv

LEMMA LessIsFine ==
  ASSUME Sane(book), down' = FALSE, Sane(book'), DOMAIN book' \subseteq DOMAIN book
  PROVE  Fine
  <1> DEFINE b == book  T == book'
  <1>1. Sane(b) /\ DOMAIN T \subseteq DOMAIN b OBVIOUS
  <1> HIDE DEF b, T
  <1>2. /\ Cardinality(DOMAIN T) \in Nat /\ Cardinality(DOMAIN b) \in Nat
        /\ Cardinality(DOMAIN T) <= Cardinality(DOMAIN b)
    BY <1>1, FewerOrders
  <1> QED BY <1>2 DEF Fine, b, T

\* An order that is too large for those it may trade with, or just large enough.
TakesAll(A, S) ==
  /\ Sane(book) /\ A \in SUBSET DOMAIN book
  /\ S \in Nat /\ S >= B!Total(book, A)

LEMMA AllAreTaken ==
  ASSUME NEW A, NEW S, TakesAll(A, S), down' = FALSE, book' = B!Matched(book, A, S)
  PROVE  Fine /\ Keeps(book, book', DOMAIN book \ A)
  <1>1. Sane(book') /\ Keeps(book, book', DOMAIN book \ A)
    BY MatchedWithAll DEF TakesAll
  <1>2. DOMAIN book' \subseteq DOMAIN book BY <1>1 DEF Keeps
  <1> QED BY <1>1, <1>2, LessIsFine DEF TakesAll

\* One of A has the best price, and enough shares.
IsBest(A, t, S) ==
  /\ Sane(book) /\ A \in SUBSET DOMAIN book /\ t \in A
  /\ S \in Nat /\ S <= book[t].shares
  /\ \A j \in A \ {t} :
       /\ book[j].side = book[t].side
       /\ B!Before(book[t].side, book[t].price, book[j].price)

LEMMA BestIsTaken ==
  ASSUME NEW A, NEW t, NEW S, IsBest(A, t, S), down' = FALSE, book' = B!Matched(book, A, S)
  PROVE  Fine /\ ServedBy(book, t, S, book')
  <1>1. ServedBy(book, t, S, book') BY MatchedWithBest DEF IsBest
  <1>2. Sane(book') /\ DOMAIN book' \subseteq DOMAIN book BY <1>1 DEF ServedBy
  <1> QED BY <1>1, <1>2, LessIsFine DEF IsBest

LEMMA BestServes ==
  ASSUME NEW id, NEW side, NEW S, NEW limit, NEW A, NEW t, IsBest(A, t, S),
         A = B!Acceptable(book, side, limit), B!Submit(book, id, side, S, limit)
  PROVE  Fine /\ ServedBy(book, t, S, book')
  <1>1. S <= B!Total(book, A)
    <2>1. B!Total(book, {}) = 0 BY SumOfNone, TotalIs
    <2>2. B!Total(book, {}) + book[t].shares <= B!Total(book, A) BY TotalWithout DEF IsBest
    <2>3. B!Total(book, A) \in Nat BY TotalIsNat DEF IsBest
    <2>4. book[t].shares \in Nat BY DEF IsBest, Sane, Offer
    <2> QED BY <2>1, <2>2, <2>3, <2>4 DEF IsBest
  <1>2. IsServed(book, side, S, limit) BY <1>1 DEF IsServed, IsBest
  <1>3. down' = FALSE /\ book' = B!Matched(book, A, S) BY <1>2, SubmitTakes
  <1> QED BY <1>3, BestIsTaken

LEMMA SweepStep ==
  ASSUME Roomy, SweepInv, Step, program = "sweep"
  PROVE  Fine /\ SweepInv'
  <1>1. /\ n \in Nat /\ n < Length[program] /\ n' = n + 1 /\ program' = program
        /\ Sane(book) /\ Cardinality(DOMAIN book) < Capacity /\ down = FALSE
    BY CallIsMade
  <1>2. PICK c \in Calls : Execute(c) BY CallIsMade
  <1>3. n <= Levels /\ Levels \in Nat BY <1>1, NumberTypes DEF Length
  <1>4. Resting(book, 1 .. n, 10, {}, SweepAsks) BY <1>3 DEF SweepInv
  <1>5. CASE n < Levels
    <2> DEFINE p == 10000 + n
    <2>1. Execute(Add(n + 1, "Sell", 10, p)) BY <1>2, <1>5, NextCall DEF Sweep
    <2>2. p \in SweepAsks BY <1>1, <1>3, <1>5, InPrices DEF SweepAsks
    <2>3. Apart({}, SweepAsks)
      BY <1>3, InPrices, MaxPriceIs, WorkloadAssumption DEF Apart, SweepAsks
    <2> HIDE DEF p
    <2>4. Passive(1 .. n, 10, {}, SweepAsks, n + 1, "Sell", p)
      BY <1>1, <1>4, <2>2, <2>3 DEF Passive, B!Side
    <2>5. Fine /\ Resting(book', (1 .. n) \cup {n + 1}, 10, {}, SweepAsks)
      BY <2>1, <2>4, OrderRests
    <2>6. n' <= Levels /\ (1 .. n) \cup {n + 1} = 1 .. n + 1 BY <1>1, <1>3, <1>5
    <2> QED BY <1>1, <2>5, <2>6 DEF SweepInv
  <1>6. CASE n = Levels
    <2> DEFINE A == B!Of(book, "Sell")
               size == 10
               S == 10 * Levels
    <2>1. book' = B!Matched(book, A, S) /\ down' = FALSE
      <3>1. Execute(Market("Buy", 10 * Levels)) BY <1>2, <1>3, <1>6, NextCall DEF Sweep
      <3>2. B!Opposite("Buy") = "Sell" BY DEF B!Opposite
      <3> QED BY <1>1, <3>1, <3>2, MarketIs
    <2>2. A = 1 .. Levels /\ A = DOMAIN book /\ \A i \in A : book[i].shares = size
      <3>1. \A i \in DOMAIN book : book[i].side \in {"Buy", "Sell"}
        BY <1>1 DEF Sane, Offer, B!Side
      <3> QED BY <1>4, <1>6, <3>1 DEF Resting, B!Of
    <2>3. S = size * Levels /\ size \in Nat /\ S \in Nat BY <1>3
    <2> HIDE DEF A, size, S
    <2>4. B!Total(book, A) = S
      <3>1. Cardinality(1 .. Levels) = Levels BY <1>3, FS_Interval
      <3>2. B!Total(book, A) = size * Cardinality(A) BY <1>1, <2>2, <2>3, TotalOfEqual
      <3> QED BY <2>2, <2>3, <3>1, <3>2
    <2>5. Fine /\ Keeps(book, book', DOMAIN book \ A)
      <3>0. A \in SUBSET DOMAIN book /\ S \in Nat BY <2>2, <2>3
      <3>1. TakesAll(A, S) BY <1>1, <2>4, <3>0 DEF TakesAll
      <3> QED BY <2>1, <3>1, AllAreTaken
    <2>6. DOMAIN book' = {} BY <2>2, <2>5 DEF Keeps
    <2>7. ~(n' <= Levels) BY <1>1, <1>3, <1>6
    <2>8. Resting(book', {}, 10, {}, SweepAsks) BY <2>6 DEF Resting
    <2> QED BY <1>1, <2>5, <2>7, <2>8 DEF SweepInv
  <1> QED BY <1>1, <1>3, <1>5, <1>6

LEMMA ThroughputStep ==
  ASSUME Roomy, ThroughputInv, Step, program = "throughput"
  PROVE  Fine /\ ThroughputInv'
  <1>1. /\ n \in Nat /\ n < Length[program] /\ n' = n + 1 /\ program' = program
        /\ Sane(book) /\ Cardinality(DOMAIN book) < Capacity /\ down = FALSE
    BY CallIsMade
  <1>2. PICK c \in Calls : Execute(c) BY CallIsMade
  <1> DEFINE p == 10000
             S == 100
  <1>3. Execute(Add(n + 1, Turn(n + 1, "Buy", "Sell"), S, p))
    BY <1>2, NextCall DEF Throughput
  <1>4. /\ p \in ThroughputAsks /\ S \in Nat \ {0}
        /\ \A q \in ThroughputAsks : q = p /\ q \in Nat /\ q < MAX_PRICE
    BY InPrices, MaxPriceIs DEF ThroughputAsks
  <1> HIDE DEF p
  <1>5. CASE n % 2 = 0
    <2>1. (n + 1) % 2 = 1 /\ n % 2 # 1 BY <1>1, <1>5
    <2>2. Execute(Add(n + 1, "Sell", S, p)) BY <1>3, <2>1 DEF Turn
    <2>3. Resting(book, {}, S, {}, ThroughputAsks) BY <2>1 DEF ThroughputInv
    <2>4. Apart({}, ThroughputAsks) BY <1>4 DEF Apart
    <2>5. Passive({}, S, {}, ThroughputAsks, n + 1, "Sell", p)
      BY <1>1, <1>4, <2>3, <2>4 DEF Passive, B!Side
    <2>6. Fine /\ Resting(book', {} \cup {n + 1}, S, {}, ThroughputAsks)
      BY <2>2, <2>5, OrderRests
    <2>7. {} \cup {n + 1} = {n + 1} OBVIOUS
    <2>8. n' % 2 = 1 BY <1>1, <2>1
    <2> QED BY <1>1, <2>6, <2>7, <2>8 DEF ThroughputInv
  <1>6. CASE n % 2 = 1
    <2> DEFINE A == B!Acceptable(book, "Buy", p)
    <2>1. (n + 1) % 2 = 0 BY <1>1, <1>6
    <2>2. Execute(Add(n + 1, "Buy", S, p)) BY <1>3, <2>1 DEF Turn
    <2>3. Resting(book, {n}, S, {}, ThroughputAsks) BY <1>6 DEF ThroughputInv
    <2>4. A = {n} /\ A = DOMAIN book /\ \A i \in A : book[i].shares = S
      <3>1. \A i \in DOMAIN book : book[i].side \in {"Buy", "Sell"}
        BY <1>1 DEF Sane, Offer, B!Side
      <3>2. book[n].price = p /\ book[n].side = "Sell" BY <1>4, <2>3, <3>1 DEF Resting
      <3> QED BY <1>4, <2>3, <3>2 DEF Resting, B!Acceptable, B!Of, B!Opposite, B!Before
    <2>5. B!Submit(book, n + 1, "Buy", S, p)
      <3>1. n + 1 \notin DOMAIN book BY <1>1, <2>4
      <3> QED BY <2>2, <3>1, AddIs
    <2> HIDE DEF S
    <2>6. B!Total(book, A) = S
      <3>1. Cardinality({n}) = 1 BY FS_Singleton
      <3>2. B!Total(book, A) = S * Cardinality(A)
        <4> HIDE DEF A
        <4> QED BY <1>1, <1>4, <2>4, TotalOfEqual
      <3> QED BY <1>4, <2>4, <3>1, <3>2
    <2>7. down' = FALSE /\ book' = B!Matched(book, A, S)
      <3>1. IsServed(book, "Buy", S, p) BY <1>1, <1>4, <2>6 DEF IsServed
      <3> QED BY <2>5, <3>1, SubmitTakes
    <2> HIDE DEF A
    <2>8. Fine /\ Keeps(book, book', DOMAIN book \ A)
      <3>1. TakesAll(A, S) BY <1>1, <1>4, <2>4, <2>6 DEF TakesAll
      <3> QED BY <2>7, <3>1, AllAreTaken
    <2>9. DOMAIN book' = {} BY <2>4, <2>8 DEF Keeps
    <2>10. Resting(book', {}, S, {}, ThroughputAsks) BY <2>9 DEF Resting
    <2>11. n' % 2 # 1 BY <1>1, <2>1
    <2> QED BY <1>1, <2>8, <2>10, <2>11 DEF ThroughputInv, S
  <1>7. n % 2 = 0 \/ n % 2 = 1 BY <1>1
  <1> QED BY <1>5, <1>6, <1>7

LEMMA CascadeStep ==
  ASSUME Roomy, CascadeInv, Step, program = "cascade"
  PROVE  Fine /\ CascadeInv'
  <1>1. /\ n \in Nat /\ n < Length[program] /\ n' = n + 1 /\ program' = program
        /\ Sane(book) /\ Cardinality(DOMAIN book) < Capacity /\ down = FALSE
    BY CallIsMade
  <1>2. PICK c \in Calls : Execute(c) BY CallIsMade
  <1> DEFINE last == 10 * Levels + 1
             side(i) == IF i = last THEN "Buy" ELSE "Sell"
  <1>3. n <= last /\ last \in Nat /\ Levels \in Nat /\ Levels <= 100
    BY <1>1, NumberTypes, WorkloadAssumption DEF Length
  <1>4. /\ Resting(book, 1 .. n, 100, CascadeBids, CascadeAsks)
        /\ \A i \in DOMAIN book : book[i].side = side(i)
    BY <1>1, <1>3 DEF CascadeInv
  <1>5. Apart(CascadeBids, CascadeAsks)
    BY PricesApart, MaxPriceIs DEF CascadeBids, CascadeAsks
  <1>6. CASE n < last
    <2> DEFINE p == IF n + 1 = last THEN 9900 ELSE 10000 + (n \div 10)
    <2>1. Execute(Add(n + 1, side(n + 1), 100, p))
      BY <1>1, <1>2, <1>3, <1>6, NextCall DEF Cascade
    <2>2. p \in IF side(n + 1) = "Buy" THEN CascadeBids ELSE CascadeAsks
      <3>1. CASE n + 1 = last
        BY <3>1, InPrices DEF CascadeBids
      <3>2. CASE n + 1 # last
        <4>1. n < 10 * Levels BY <1>1, <1>3, <1>6, <3>2
        <4>2. n \div 10 \in Nat /\ n \div 10 < Levels BY <1>1, <1>3, <4>1
        <4>3. 10000 + (n \div 10) \in CascadeAsks
          <5> DEFINE d == n \div 10
          <5>1. d \in Nat /\ d < 100 BY <1>3, <4>2
          <5> HIDE DEF d
          <5>2. 10000 + d \in CascadeAsks BY <5>1, InPrices DEF CascadeAsks
          <5> QED BY <5>2 DEF d
        <4> QED BY <3>2, <4>3
      <3> QED BY <3>1, <3>2
    <2> DEFINE s == side(n + 1)
    <2>3. s \in B!Side BY DEF B!Side
    <2>4. n + 1 \notin 1 .. n /\ (1 .. n) \cup {n + 1} = 1 .. n + 1 BY <1>1
    <2> HIDE DEF p, s
    <2>5. Passive(1 .. n, 100, CascadeBids, CascadeAsks, n + 1, s, p)
      BY <1>1, <1>4, <1>5, <2>2, <2>3, <2>4 DEF Passive, s
    <2>6. /\ Fine /\ Resting(book', (1 .. n) \cup {n + 1}, 100, CascadeBids, CascadeAsks)
          /\ Gains(book, book', n + 1, <<s, p, 100>>)
      BY <2>1, <2>5, OrderRests, ZenonT(60) DEF s
    <2>7. \A i \in DOMAIN book' : book'[i].side = side(i)
      BY <1>4, <2>6 DEF Gains, Says, s
    <2>8. n' <= last BY <1>1, <1>3, <1>6
    <2> QED BY <1>1, <2>4, <2>6, <2>7, <2>8 DEF CascadeInv
  <1>7. CASE n = last
    <2> DEFINE p == 10100
               A == B!Acceptable(book, "Buy", p)
               size == 100
               S == 1000 * Levels
    <2>1. Execute(Add(n + 1, "Buy", S, p))
      BY <1>1, <1>2, <1>3, <1>7, NextCall DEF Cascade
    <2>2. \A q \in CascadeAsks : ~(p < q) BY InPrices DEF CascadeAsks
    <2>3. size \in Nat /\ S \in Nat /\ S = size * (10 * Levels) BY <1>3
    <2>4. \A i \in 1 .. n : book[i].shares = size BY <1>4 DEF Resting
    <2> HIDE DEF p, S, size
    <2>5. A = 1 .. 10 * Levels /\ A \in SUBSET DOMAIN book
      <3>1. DOMAIN book = 1 .. n BY <1>4 DEF Resting
      <3>2. \A i \in 1 .. n : i # last => book[i].price \in CascadeAsks
        BY <1>4 DEF Resting
      <3>3. \A i \in 1 .. n : i \in A <=> i # last
        BY <1>4, <2>2, <3>1, <3>2 DEF B!Acceptable, B!Of, B!Opposite, B!Before
      <3>4. A \subseteq 1 .. n BY <3>1 DEF B!Acceptable, B!Of
      <3>5. \A i \in 1 .. n : i # last <=> i \in 1 .. 10 * Levels BY <1>3, <1>7
      <3>6. 1 .. 10 * Levels \subseteq 1 .. n BY <1>3, <1>7
      <3> HIDE DEF A, last
      <3> QED BY <3>1, <3>3, <3>4, <3>5, <3>6
    <2>6. B!Total(book, A) = S
      <3>1. Cardinality(1 .. 10 * Levels) = 10 * Levels BY <1>3, FS_Interval
      <3>2. \A i \in A : book[i].shares = size BY <1>3, <1>7, <2>4, <2>5
      <3> HIDE DEF A
      <3>3. B!Total(book, A) = size * Cardinality(A) BY <1>1, <2>3, <2>5, <3>2, TotalOfEqual
      <3> QED BY <2>3, <2>5, <3>1, <3>3
    <2>7. B!Submit(book, n + 1, "Buy", S, p)
      <3>1. n + 1 \notin DOMAIN book BY <1>1, <1>4 DEF Resting
      <3> QED BY <2>1, <3>1, AddIs
    <2>8. down' = FALSE /\ book' = B!Matched(book, A, S)
      <3>1. IsServed(book, "Buy", S, p) BY <1>1, <2>3, <2>6 DEF IsServed
      <3> QED BY <2>7, <3>1, SubmitTakes
    <2> HIDE DEF A
    <2>9. Fine /\ Keeps(book, book', DOMAIN book \ A)
      <3>1. TakesAll(A, S) BY <1>1, <2>3, <2>5, <2>6 DEF TakesAll
      <3> QED BY <2>8, <3>1, AllAreTaken
    <2>10. DOMAIN book \ A = {last}
      <3>1. DOMAIN book = 1 .. n BY <1>4 DEF Resting
      <3> QED BY <1>3, <1>7, <2>5, <3>1
    <2>11. last \in 1 .. n /\ last \in DOMAIN book BY <1>4, <2>10 DEF Resting
    <2>12. DOMAIN book' = {last} /\ Says(book'[last]) = Says(book[last])
      BY <2>9, <2>10 DEF Keeps
    <2>13. Resting(book', {last}, 100, CascadeBids, CascadeAsks)
           /\ book'[last].side = "Buy"
      BY <1>4, <2>11, <2>12 DEF Resting, Says
    <2>14. ~(n' <= last) BY <1>1, <1>3, <1>7
    <2> QED BY <1>1, <2>9, <2>12, <2>13, <2>14 DEF CascadeInv
  <1> QED BY <1>1, <1>3, <1>6, <1>7

LEMMA PingPongStep ==
  ASSUME Roomy, PingPongInv, Step, program = "pingpong"
  PROVE  Fine /\ PingPongInv'
  <1>1. /\ n \in Nat /\ n < Length[program] /\ n' = n + 1 /\ program' = program
        /\ Sane(book) /\ Cardinality(DOMAIN book) < Capacity /\ down = FALSE
    BY CallIsMade
  <1>2. PICK c \in Calls : Execute(c) BY CallIsMade
  <1> DEFINE size == 1000000
             Bids == Prices(10000, 10000)
             Asks == Prices(10001, 10001)
  <1>3. n \in {0, 1, 2, 3} BY <1>1 DEF Length
  <1>4. Apart(Bids, Asks) BY PricesApart, MaxPriceIs
  <1>5. 10000 \in Bids /\ 10001 \in Asks BY InPrices
  <1>6. CASE n = 0
    <2> DEFINE p == 10000
    <2>1. Execute(Add(1, "Buy", size, p)) BY <1>2, <1>6, NextCall DEF PingPong
    <2>2. DOMAIN book = {} BY <1>6 DEF PingPongInv
    <2>3. Resting(book, {}, size, Bids, Asks) BY <2>2 DEF Resting
    <2>4. p \in Bids /\ size \in Nat \ {0} BY <1>5
    <2> HIDE DEF p, size, Bids, Asks
    <2>5. Passive({}, size, Bids, Asks, 1, "Buy", p)
      BY <1>1, <1>4, <2>3, <2>4 DEF Passive, B!Side
    <2>6. Fine /\ Gains(book, book', 1, <<"Buy", p, size>>) BY <2>1, <2>5, OrderRests
    <2>7. /\ DOMAIN book' = {1} /\ book'[1].side = "Buy"
          /\ book'[1].price = 10000 /\ book'[1].shares = 1000000
      BY <2>2, <2>6 DEF Gains, Says, p, size
    <2>8. n' = 1 /\ {1} = 1 .. 1 BY <1>1, <1>6
    <2> QED BY <1>1, <2>6, <2>7, <2>8 DEF PingPongInv
  <1>7. CASE n = 1
    <2> DEFINE p == 10001
    <2>1. Execute(Add(2, "Sell", size, p)) BY <1>2, <1>7, NextCall DEF PingPong
    <2>2. /\ DOMAIN book = {1} /\ book[1].side = "Buy" /\ book[1].price = 10000
          /\ book[1].shares = size
      BY <1>7 DEF PingPongInv
    <2>3. Resting(book, {1}, size, Bids, Asks) BY <1>5, <2>2 DEF Resting
    <2>4. p \in Asks /\ size \in Nat \ {0} BY <1>5
    <2> HIDE DEF p, size, Bids, Asks
    <2>5. Passive({1}, size, Bids, Asks, 2, "Sell", p)
      BY <1>1, <1>4, <2>3, <2>4 DEF Passive, B!Side
    <2>6. Fine /\ Gains(book, book', 2, <<"Sell", p, size>>) BY <2>1, <2>5, OrderRests
    <2>7. /\ DOMAIN book' = {1, 2} /\ book'[2].side = "Sell"
          /\ book'[2].price = 10001 /\ book'[2].shares = 1000000
          /\ book'[1].side = "Buy" /\ book'[1].price = 10000 /\ book'[1].shares = 1000000
      BY <2>2, <2>6 DEF Gains, Says, p, size
    <2>8. n' = 2 /\ {1, 2} = 1 .. 2 BY <1>1, <1>7
    <2> QED BY <1>1, <2>6, <2>7, <2>8 DEF PingPongInv
  <1>8. CASE n = 2
    <2> DEFINE p == 10001  S == 10
    <2>1. Execute(Add(3, "Buy", S, p)) BY <1>2, <1>8, NextCall DEF PingPong
    <2>2. /\ DOMAIN book = {1, 2} /\ book[2].side = "Sell" /\ book[2].price = 10001
          /\ book[1].side = "Buy" /\ book[1].price = 10000
          /\ book[1].shares = 1000000 /\ book[2].shares = 1000000
      BY <1>8 DEF PingPongInv
    <2> DEFINE A == B!Acceptable(book, "Buy", p)
    <2>3. A = {2} BY <2>2 DEF B!Acceptable, B!Of, B!Opposite, B!Before
    <2>4. S \in Nat /\ S <= book[2].shares BY <2>2
    <2> HIDE DEF p, S
    <2>5. B!Submit(book, 3, "Buy", S, p)
      <3>1. 3 \notin DOMAIN book BY <2>2
      <3> QED BY <2>1, <3>1, AddIs
    <2>6. A = B!Acceptable(book, "Buy", p) OBVIOUS
    <2> HIDE DEF A
    <2>7. IsBest(A, 2, S) BY <1>1, <2>2, <2>3, <2>4 DEF IsBest
    <2>8. Fine /\ ServedBy(book, 2, S, book') BY <2>5, <2>6, <2>7, BestServes
    <2>9. /\ DOMAIN book' = {1, 2} /\ book'[2].side = "Sell"
          /\ book'[2].price = 10001 /\ book'[2].shares = 999990
          /\ book'[1].side = "Buy" /\ book'[1].price = 10000 /\ book'[1].shares = 1000000
      BY <2>2, <2>8 DEF ServedBy, S
    <2>10. n' = 3 /\ {1, 2} = 1 .. 2 BY <1>1, <1>8
    <2> QED BY <1>1, <2>8, <2>9, <2>10 DEF PingPongInv
  <1>9. CASE n = 3
    <2> DEFINE p == 10000  S == 10
    <2>1. Execute(Add(4, "Sell", S, p)) BY <1>2, <1>9, NextCall DEF PingPong
    <2>2. /\ DOMAIN book = {1, 2} /\ book[2].side = "Sell" /\ book[2].price = 10001
          /\ book[1].side = "Buy" /\ book[1].price = 10000
          /\ book[1].shares = 1000000 /\ book[2].shares = 999990
      BY <1>9 DEF PingPongInv
    <2> DEFINE A == B!Acceptable(book, "Sell", p)
    <2>3. A = {1} BY <2>2 DEF B!Acceptable, B!Of, B!Opposite, B!Before
    <2>4. S \in Nat /\ S <= book[1].shares BY <2>2
    <2> HIDE DEF p, S
    <2>5. B!Submit(book, 4, "Sell", S, p)
      <3>1. 4 \notin DOMAIN book BY <2>2
      <3> QED BY <2>1, <3>1, AddIs
    <2>6. A = B!Acceptable(book, "Sell", p) OBVIOUS
    <2> HIDE DEF A
    <2>7. IsBest(A, 1, S) BY <1>1, <2>2, <2>3, <2>4 DEF IsBest
    <2>8. Fine /\ ServedBy(book, 1, S, book') BY <2>5, <2>6, <2>7, BestServes
    <2>9. /\ DOMAIN book' = {1, 2} /\ book'[2].side = "Sell"
          /\ book'[2].price = 10001 /\ book'[2].shares = 999990
          /\ book'[1].side = "Buy" /\ book'[1].price = 10000 /\ book'[1].shares = 999990
      BY <2>2, <2>8 DEF ServedBy, S
    <2>10. n' = 4 /\ {1, 2} = 1 .. 2 BY <1>1, <1>9
    <2> QED BY <1>1, <2>8, <2>9, <2>10 DEF PingPongInv
  <1> QED BY <1>3, <1>6, <1>7, <1>8, <1>9

LEMMA ChurnCall ==
  ASSUME NEW i \in Nat, i < Warm + 40
  PROVE  /\ i < Warm => Churn(i) = Turn(i, Add(i + 1, "Buy", 100, 9900 + ((i \div 2) % 50)),
                                           Add(i + 1, "Sell", 100, 10100 - ((i \div 2) % 50)))
         /\ i >= Warm /\ i < Warm + 20 => Churn(i) = Add(i + 1, "Buy", 100, 10000 - (i - Warm))
         /\ i >= Warm + 20 /\ i < Warm + 39 => Churn(i) = Cancel(i - 19)
         /\ i = Warm + 39 => Churn(i) = Market("Sell", 100)
  <1> DEFINE j == i - 2 * WarmUp
  <1>1. Warm \in Nat /\ Warm = 2 * WarmUp BY NumberTypes DEF Warm
  <1>2. CASE i < Warm
    <2>1. j < 0 BY <1>1, <1>2
    <2> QED BY <1>1, <1>2, <2>1 DEF Churn
  <1>3. CASE i >= Warm /\ i < Warm + 20
    <2>1. j \in 0 .. 19 /\ ~(j < 0) BY <1>1, <1>3
    <2>2. Churn(i) = Add(2 * WarmUp + 1 + j, "Buy", 100, 10000 - j) BY <2>1 DEF Churn
    <2>3. 2 * WarmUp + 1 + j = i + 1 BY <1>1
    <2> QED BY <1>1, <1>3, <2>2, <2>3
  <1>4. CASE i >= Warm + 20 /\ i < Warm + 39
    <2>1. j \in 20 .. 38 /\ ~(j < 0) /\ j \notin 0 .. 19 BY <1>1, <1>4
    <2>2. Churn(i) = Cancel(2 * WarmUp + 1 + j - 20) BY <2>1 DEF Churn
    <2>3. 2 * WarmUp + 1 + j - 20 = i - 19 BY <1>1
    <2> QED BY <1>1, <1>4, <2>2, <2>3
  <1>5. CASE i = Warm + 39
    <2>1. j = 39 BY <1>1, <1>5
    <2> QED BY <1>1, <1>5, <2>1 DEF Churn
  <1> QED BY <1>1, <1>2, <1>3, <1>4, <1>5

LEMMA ChurnStep ==
  ASSUME Roomy, ChurnInv, Step, program = "churn"
  PROVE  Fine /\ ChurnInv'
  <1>1. /\ n \in Nat /\ n < Length[program] /\ n' = n + 1 /\ program' = program
        /\ Sane(book) /\ Cardinality(DOMAIN book) < Capacity /\ down = FALSE
    BY CallIsMade
  <1>2. PICK c \in Calls : Execute(c) BY CallIsMade
  <1>3. n < Warm + 40 /\ Warm \in Nat BY <1>1, NumberTypes DEF Length, Warm
  <1>4. /\ Resting(book, ChurnIds, 100, ChurnBids, ChurnAsks)
        /\ \A i \in DOMAIN book : InPlace(i, book[i].side, book[i].price)
    BY DEF ChurnInv
  <1>5. Apart(ChurnBids, ChurnAsks) BY PricesApart, MaxPriceIs DEF ChurnBids, ChurnAsks
  <1>6. Execute(Churn(n)) BY <1>2, NextCall
  <1>7. CASE n < Warm + 20
    <2> DEFINE q == (n \div 2) % 50
               side == IF n < Warm THEN Turn(n, "Buy", "Sell") ELSE "Buy"
               p == IF n < Warm THEN Turn(n, 9900 + q, 10100 - q) ELSE 10000 - (n - Warm)
    <2>1. Churn(n) = Add(n + 1, side, 100, p) BY <1>1, <1>3, <1>7, ChurnCall DEF Turn
    <2>2. q \in Nat /\ q < 50
      <3>1. n \div 2 \in Nat BY <1>1
      <3> QED BY <3>1, ModLess
    <2> HIDE DEF q
    <2>3. /\ side \in B!Side /\ p \in IF side = "Buy" THEN ChurnBids ELSE ChurnAsks
          /\ InPlace(n + 1, side, p)
      <3>1. ASSUME n < Warm, n % 2 = 0
            PROVE  /\ side \in B!Side /\ InPlace(n + 1, side, p)
                   /\ p \in IF side = "Buy" THEN ChurnBids ELSE ChurnAsks
        <4>1. side = "Buy" /\ p = 9900 + q BY <3>1 DEF Turn
        <4>2. n + 1 <= Warm BY <1>1, <1>3, <3>1
        <4> HIDE DEF side, p
        <4> QED BY <2>2, <4>1, <4>2, InPrices DEF B!Side, ChurnBids, InPlace
      <3>2. ASSUME n < Warm, n % 2 # 0
            PROVE  /\ side \in B!Side /\ InPlace(n + 1, side, p)
                   /\ p \in IF side = "Buy" THEN ChurnBids ELSE ChurnAsks
        <4>1. side = "Sell" /\ p = 10100 - q BY <3>2 DEF Turn
        <4>2. n + 1 <= Warm BY <1>1, <1>3, <3>2
        <4> HIDE DEF side, p
        <4> QED BY <2>2, <4>1, <4>2, InPrices DEF B!Side, ChurnAsks, InPlace
      <3>3. ASSUME ~(n < Warm)
            PROVE  /\ side \in B!Side /\ InPlace(n + 1, side, p)
                   /\ p \in IF side = "Buy" THEN ChurnBids ELSE ChurnAsks
        <4> DEFINE j == n - Warm
        <4>1. side = "Buy" /\ p = 10000 - j BY <3>3
        <4>2. j \in Nat /\ j < 20 /\ n + 1 - Warm = j + 1 /\ ~(n + 1 <= Warm)
          BY <1>1, <1>3, <1>7, <3>3
        <4> HIDE DEF side, p, j
        <4>3. p \in Nat /\ 9900 <= p /\ p <= 10000 /\ p = 10001 - (n + 1 - Warm)
          BY <4>1, <4>2
        <4>4. p \in ChurnBids BY <4>3, InPrices DEF ChurnBids
        <4>5. InPlace(n + 1, side, p) BY <1>1, <1>3, <4>1, <4>2, <4>3 DEF InPlace
        <4> QED BY <4>1, <4>4, <4>5 DEF B!Side
      <3> HIDE DEF side, p
      <3> QED BY <3>1, <3>2, <3>3
    <2> HIDE DEF side, p
    <2>4. ChurnIds = 1 .. n /\ n + 1 \notin 1 .. n /\ (1 .. n) \cup {n + 1} = 1 .. n + 1
      BY <1>1, <1>3, <1>7 DEF ChurnIds
    <2>5. Passive(1 .. n, 100, ChurnBids, ChurnAsks, n + 1, side, p)
      BY <1>1, <1>4, <1>5, <2>3, <2>4 DEF Passive
    <2>6. /\ Fine /\ Resting(book', (1 .. n) \cup {n + 1}, 100, ChurnBids, ChurnAsks)
          /\ Gains(book, book', n + 1, <<side, p, 100>>)
      BY <1>6, <2>1, <2>5, OrderRests
    <2>7. ASSUME NEW i \in DOMAIN book' PROVE InPlace(i, book'[i].side, book'[i].price)
      <3>1. CASE i = n + 1
        <4>1. book'[i].side = side /\ book'[i].price = p BY <2>6, <3>1 DEF Gains, Says
        <4> QED BY <2>3, <3>1, <4>1
      <3>2. CASE i # n + 1
        <4>1. i \in DOMAIN book /\ book'[i].side = book[i].side /\ book'[i].price = book[i].price
          BY <2>6, <3>2 DEF Gains, Says
        <4> QED BY <1>4, <4>1
      <3> QED BY <3>1, <3>2
    <2>8. ChurnIds' = 1 .. n + 1 BY <1>1, <1>3, <1>7 DEF ChurnIds
    <2> QED BY <2>4, <2>6, <2>7, <2>8 DEF ChurnInv
  <1>8. CASE n >= Warm + 20 /\ n < Warm + 39
    <2>1. Churn(n) = Cancel(n - 19) BY <1>1, <1>3, <1>8, ChurnCall
    <2>2. n - 19 \in ChurnIds /\ ChurnIds' = ChurnIds \ {n - 19}
      BY <1>1, <1>3, <1>8 DEF ChurnIds
    <2>3. n - 19 \in DOMAIN book /\ DOMAIN book = ChurnIds BY <1>4, <2>2 DEF Resting
    <2>4. book' = B!Without(book, n - 19) /\ down' = FALSE
      BY <1>1, <1>6, <2>1, <2>3, CancelIs
    <2>5. Sane(book') /\ Keeps(book, book', DOMAIN book \ {n - 19})
      BY <1>1, <2>3, <2>4, WithoutIs
    <2>6. Fine
      <3>1. DOMAIN book' \subseteq DOMAIN book BY <2>5 DEF Keeps
      <3> QED BY <1>1, <2>4, <2>5, <3>1, LessIsFine
    <2>7. Resting(book', ChurnIds', 100, ChurnBids, ChurnAsks)
      BY <1>4, <2>2, <2>3, <2>5 DEF Keeps, Resting, Says
    <2>8. \A i \in DOMAIN book' : InPlace(i, book'[i].side, book'[i].price)
      BY <1>4, <2>5 DEF Keeps, Says
    <2> QED BY <2>6, <2>7, <2>8 DEF ChurnInv
  <1>9. CASE n = Warm + 39
    <2> DEFINE A == B!Of(book, "Buy")
               S == 100
               t == Warm + 20
    <2>1. Churn(n) = Market("Sell", S) BY <1>1, <1>3, <1>9, ChurnCall
    <2>2. S \in Nat /\ t \in Nat /\ ChurnIds = (1 .. Warm) \cup {t} /\ t \notin 1 .. Warm
          /\ ChurnIds' = ChurnIds \ {t}
      BY <1>1, <1>3, <1>9 DEF ChurnIds
    <2>3. \A i \in ChurnIds : book[i].shares = S BY <1>4 DEF Resting
    <2> HIDE DEF S
    <2>4. book' = B!Matched(book, A, S) /\ down' = FALSE
      <3>1. B!Opposite("Sell") = "Buy" BY DEF B!Opposite
      <3> QED BY <1>1, <1>6, <2>1, <3>1, MarketIs
    <2>5. DOMAIN book = ChurnIds BY <1>4 DEF Resting
    <2>6. book[t].side = "Buy" /\ book[t].price = 9981
      <3>1. InPlace(t, book[t].side, book[t].price) BY <1>4, <2>2, <2>5
      <3>2. ~(t <= Warm) /\ 10001 - (t - Warm) = 9981 BY <1>3
      <3> QED BY <3>1, <3>2 DEF InPlace
    <2>7. ASSUME NEW j \in A \ {t}
          PROVE  book[j].side = "Buy" /\ book[t].price > book[j].price
      <3>1. j \in 1 .. Warm /\ book[j].side = "Buy" BY <2>2, <2>5 DEF B!Of
      <3>2. j \in DOMAIN book /\ book[j].price \in Nat
        BY <1>1, <2>2, <2>5, <3>1 DEF Sane, Offer
      <3>3. book[j].price <= 9949
        <4>1. j <= Warm BY <1>3, <3>1
        <4> QED BY <1>4, <3>1, <3>2, <4>1 DEF InPlace
      <3> QED BY <2>6, <3>1, <3>2, <3>3
    <2>8. A \in SUBSET DOMAIN book /\ t \in A BY <2>2, <2>5, <2>6 DEF B!Of
    <2> HIDE DEF A, t
    <2>9. IsBest(A, t, S) BY <1>1, <2>2, <2>3, <2>6, <2>7, <2>8 DEF IsBest, B!Before
    <2>10. Fine /\ ServedBy(book, t, S, book') BY <2>4, <2>9, BestIsTaken
    <2>11. book[t].shares = S BY <2>2, <2>3
    <2>12. /\ DOMAIN book' = ChurnIds'
           /\ \A i \in ChurnIds' : Says(book'[i]) = Says(book[i])
      <3>1. DOMAIN book' = ChurnIds' BY <2>2, <2>5, <2>10, <2>11 DEF ServedBy
      <3>2. \A i \in DOMAIN book : book[i].shares \in Nat BY <1>1 DEF Sane, Offer
      <3>3. \A i \in DOMAIN book' : i # t /\ i \in DOMAIN book BY <2>2, <2>5, <3>1
      <3> QED BY <2>10, <3>1, <3>2, <3>3 DEF ServedBy, Says
    <2>13. Resting(book', ChurnIds', 100, ChurnBids, ChurnAsks)
      BY <1>4, <2>2, <2>12 DEF Resting, Says
    <2>14. \A i \in DOMAIN book' : InPlace(i, book'[i].side, book'[i].price)
      BY <1>4, <2>2, <2>5, <2>12 DEF Says
    <2> QED BY <2>10, <2>13, <2>14 DEF ChurnInv
  <1> QED BY <1>1, <1>3, <1>7, <1>8, <1>9

\* A modify of a resting order: it is taken out, loses shares, or comes back.
LEMMA ModifyIs ==
  ASSUME NEW id \in DOMAIN book, NEW S, NEW p, Execute(Modify(id, S, p))
  PROVE  \/ S = 0 /\ book' = B!Without(book, id) /\ down' = down
         \/ S > 0 /\ book' = [book EXCEPT ![id].shares = S] /\ down' = down
         \/ B!Submit(B!Without(book, id), id, book[id].side, S, p)
  <1> DEFINE c == Modify(id, S, p)
  <1>1. c.op = "modify" /\ c.id = id /\ c.shares = S /\ c.price = p BY DEF Modify
  <1>2. Execute(c) OBVIOUS
  <1> HIDE DEF c
  <1>3. B!ModifyLimitOrder(id, S, p) BY <1>1, <1>2, Zenon DEF Execute, B!Ids
  <1> DEFINE out == book' = B!Without(book, id) /\ UNCHANGED down
             less == book' = [book EXCEPT ![id].shares = S] /\ UNCHANGED down
             again == B!Submit(B!Without(book, id), id, book[id].side, S, p)
  <1>4. (CASE S = 0 -> out [] S > 0 /\ p = book[id].price /\ S < book[id].shares -> less
           [] OTHER -> again)
    BY <1>3, Zenon DEF B!ModifyLimitOrder
  <1> HIDE DEF out, less, again
  <1>5. (S = 0 /\ out) \/ (S > 0 /\ less) \/ again BY <1>4
  <1> QED BY <1>5 DEF out, less, again

LEMMA FewerSharesIsSane ==
  ASSUME NEW b, Sane(b), NEW id \in DOMAIN b, NEW S \in Nat \ {0}
  PROVE  Sane([b EXCEPT ![id].shares = S])
  <1> DEFINE T == [b EXCEPT ![id].shares = S]
  <1>1. DOMAIN T = DOMAIN b OBVIOUS
  <1>2. ASSUME NEW i \in DOMAIN b PROVE T[i] \in Offer(DOMAIN b) /\ i \notin T[i].ahead
    <2>1. b[i] \in Offer(DOMAIN b) /\ i \notin b[i].ahead BY DEF Sane
    <2>2. CASE i = id
      <3>1. T[i] = [b[i] EXCEPT !.shares = S] BY <2>2
      <3> HIDE DEF T
      <3> QED BY <2>1, <3>1 DEF Offer
    <2>3. CASE i # id
      <3>1. T[i] = b[i] BY <2>3
      <3> HIDE DEF T
      <3> QED BY <2>1, <3>1
    <2> QED BY <2>2, <2>3
  <1> HIDE DEF T
  <1>3. Sane(T) BY <1>1, <1>2 DEF Sane
  <1> QED BY <1>3 DEF T

\* A modify of any id leaves no order that was not there.
LEMMA ModifyIsFine ==
  ASSUME NEW id, NEW S \in Nat, NEW p \in Nat, p < MAX_PRICE,
         Sane(book), Cardinality(DOMAIN book) < Capacity, down = FALSE,
         Execute(Modify(id, S, p))
  PROVE  Fine /\ DOMAIN book' \subseteq DOMAIN book
  <1>1. CASE id \notin DOMAIN book
    <2>1. book' = book /\ down' = down BY <1>1 DEF Execute, Modify, B!Ids
    <2> QED BY <2>1, LessIsFine
  <1>2. ASSUME id \in DOMAIN book, book' = B!Without(book, id), down' = down
        PROVE  Fine /\ DOMAIN book' \subseteq DOMAIN book
    <2>1. Sane(book') /\ DOMAIN book' \subseteq DOMAIN book BY <1>2, WithoutIs DEF Keeps
    <2> QED BY <1>2, <2>1, LessIsFine
  <1>3. ASSUME id \in DOMAIN book, S > 0, book' = [book EXCEPT ![id].shares = S], down' = down
        PROVE  Fine /\ DOMAIN book' \subseteq DOMAIN book
    <2>1. DOMAIN book' = DOMAIN book BY <1>3
    <2>2. Sane(book')
      <3>1. S \in Nat \ {0} BY <1>3
      <3> QED BY <1>3, <3>1, FewerSharesIsSane
    <2> QED BY <1>3, <2>1, <2>2, LessIsFine
  <1>4. ASSUME id \in DOMAIN book, B!Submit(B!Without(book, id), id, book[id].side, S, p)
        PROVE  Fine /\ DOMAIN book' \subseteq DOMAIN book
    <2> DEFINE b == B!Without(book, id)
    <2>1. /\ Sane(b) /\ DOMAIN b = DOMAIN book \ {id}
          /\ Cardinality(DOMAIN b) = Cardinality(DOMAIN book) - 1
      BY <1>4, WithoutIs DEF Keeps
    <2>2. Cardinality(DOMAIN book) \in Nat BY FS_CardinalityType DEF Sane
    <2>3. book[id].side \in B!Side BY <1>4 DEF Sane, Offer
    <2>4. B!Submit(b, id, book[id].side, S, p) BY <1>4
    <2> HIDE DEF b
    <2>5. Cardinality(DOMAIN b) < Capacity BY <2>1, <2>2 DEF Capacity
    <2>6. id \notin DOMAIN b BY <2>1
    <2>7. /\ down' = FALSE /\ Sane(book') /\ DOMAIN book' \subseteq DOMAIN b \cup {id}
      BY <2>1, <2>3, <2>4, <2>5, <2>6, SubmitIsFine
    <2>8. DOMAIN book' \subseteq DOMAIN book BY <1>4, <2>1, <2>7
    <2> QED BY <2>7, <2>8, LessIsFine
  <1> QED BY <1>1, <1>2, <1>3, <1>4, ModifyIs

\* The simulator's ids are new, whatever it cancels, modifies or trades.
LEMMA SimulatorStep ==
  ASSUME Roomy, SimulatorInv, Step, program = "simulator"
  PROVE  Fine /\ SimulatorInv'
  <1>1. /\ program' = program
        /\ Sane(book) /\ Cardinality(DOMAIN book) < Capacity /\ down = FALSE
    BY CallIsMade
  <1>2. PICK c \in Calls : Execute(c) /\ NextIds(c) BY Zenon DEF Step
  <1>3. /\ currentOrderId \in Nat
        /\ \A i \in DOMAIN book : i \in Nat /\ i < currentOrderId
    BY DEF SimulatorInv
  <1>4. /\ currentOrderId' \in Nat /\ currentOrderId <= currentOrderId'
        /\ c.op = "add" => currentOrderId' = currentOrderId + 1
    BY <1>2, <1>3 DEF NextIds
  <1>5. /\ \A p \in PriceDist : p \in Nat /\ p < MAX_PRICE
        /\ \A q \in QtyDist : q \in Nat
    <2>1. MAX_PRICE \in Int BY MaxPriceIs
    <2>2. \A p \in PriceDist : p \in 0 .. MAX_PRICE - 1 BY WorkloadAssumption
    <2>3. QtyDist \subseteq Nat BY WorkloadAssumption
    <2> QED BY <2>1, <2>2, <2>3
  <1>6. ASSUME NEW s \in B!Side, NEW q \in QtyDist, NEW p \in PriceDist,
               c = Add(currentOrderId, s, q, p)
        PROVE  Fine /\ DOMAIN book' \subseteq DOMAIN book \cup {currentOrderId} /\ c.op = "add"
    <2>1. currentOrderId \notin DOMAIN book BY <1>3
    <2>2. B!Submit(book, currentOrderId, s, q, p) BY <1>2, <1>6, <2>1, AddIs
    <2>3. /\ down' = FALSE /\ Sane(book')
          /\ DOMAIN book' \subseteq DOMAIN book \cup {currentOrderId}
          /\ Cardinality(DOMAIN book') <= Cardinality(DOMAIN book) + 1
      BY <1>1, <1>5, <2>1, <2>2, SubmitIsFine
    <2> QED BY <1>6, <2>3 DEF Fine, Add
  <1>7. ASSUME NEW id, c = Cancel(id) PROVE Fine /\ DOMAIN book' \subseteq DOMAIN book
    <2>1. CASE id \notin DOMAIN book
      <3>1. book' = book /\ down' = down BY <1>2, <1>7, <2>1 DEF Execute, Cancel, B!Ids
      <3> QED BY <1>1, <3>1, LessIsFine
    <2>2. CASE id \in DOMAIN book
      <3>1. book' = B!Without(book, id) /\ down' = down BY <1>2, <1>7, <2>2, CancelIs
      <3>2. Sane(book') /\ DOMAIN book' \subseteq DOMAIN book
        BY <1>1, <2>2, <3>1, WithoutIs DEF Keeps
      <3> QED BY <1>1, <3>1, <3>2, LessIsFine
    <2> QED BY <2>1, <2>2
  <1>8. ASSUME NEW id, NEW q \in QtyDist, NEW p \in PriceDist, c = Modify(id, q, p)
        PROVE  Fine /\ DOMAIN book' \subseteq DOMAIN book
    BY <1>1, <1>2, <1>5, <1>8, ModifyIsFine
  <1>9. ASSUME NEW s \in B!Side, NEW q \in QtyDist, c = Market(s, q)
        PROVE  Fine /\ DOMAIN book' \subseteq DOMAIN book
    <2> DEFINE A == B!Of(book, B!Opposite(s))
    <2>1. book' = B!Matched(book, A, q) /\ down' = down BY <1>2, <1>9, MarketIs
    <2>2. A \in SUBSET DOMAIN book BY DEF B!Of
    <2> HIDE DEF A
    <2>3. LeftAfter(book, A, q, book') BY <1>1, <1>5, <2>1, <2>2, MatchedIs
    <2>4. Sane(book') /\ DOMAIN book' \subseteq DOMAIN book BY <2>3 DEF LeftAfter
    <2> QED BY <1>1, <2>1, <2>4, LessIsFine
  <1>10. \/ \E s \in B!Side, q \in QtyDist, p \in PriceDist : c = Add(currentOrderId, s, q, p)
         \/ \E id \in activeIds : c = Cancel(id)
         \/ \E id \in activeIds, q \in QtyDist, p \in PriceDist : c = Modify(id, q, p)
         \/ \E s \in B!Side, q \in QtyDist : c = Market(s, q)
    <2>1. c \in Simulator BY NextCall
    <2> QED BY <2>1 DEF Simulator
  <1>11. Fine /\ (\/ DOMAIN book' \subseteq DOMAIN book
                  \/ DOMAIN book' \subseteq DOMAIN book \cup {currentOrderId} /\ c.op = "add")
    BY <1>6, <1>7, <1>8, <1>9, <1>10, Zenon
  <1>12. \A i \in DOMAIN book' : i \in Nat /\ i < currentOrderId'
    BY <1>3, <1>4, <1>11
  <1> QED BY <1>4, <1>11, <1>12 DEF SimulatorInv

-----------------------------------------------------------------------------
(***************************************************************************)
(* The invariant.                                                          *)
(***************************************************************************)

LEMMA StepKeeps == ASSUME WorkInv, Step PROVE WorkInv'
  <1> USE DEF WorkInv
  <1>1. program' = program /\ program \in DOMAIN Length BY CallIsMade
  <1>2. /\ program = "scaling" => Fine /\ ScalingInv'
        /\ program = "simulator" => Fine /\ SimulatorInv'
        /\ program = "worst" => Fine /\ WorstInv'
        /\ program = "tail" => Fine /\ TailInv'
        /\ program = "scale" => Fine /\ ScaleInv'
        /\ program = "pingpong" => Fine /\ PingPongInv'
        /\ program = "sweep" => Fine /\ SweepInv'
        /\ program = "churn" => Fine /\ ChurnInv'
        /\ program = "cascade" => Fine /\ CascadeInv'
        /\ program = "throughput" => Fine /\ ThroughputInv'
    BY ScalingStep, SimulatorStep, WorstStep, TailStep, ScaleStep, PingPongStep, SweepStep,
       ChurnStep, CascadeStep, ThroughputStep
  <1>3. Fine BY <1>1, <1>2 DEF Length
  <1>4. Roomy' BY <1>3, FineIsRoomy
  <1>5. /\ program' # "scaling" => ScalingInv'
        /\ program' # "simulator" => SimulatorInv'
        /\ program' # "worst" => WorstInv'
        /\ program' # "tail" => TailInv'
        /\ program' # "scale" => ScaleInv'
        /\ program' # "pingpong" => PingPongInv'
        /\ program' # "sweep" => SweepInv'
        /\ program' # "churn" => ChurnInv'
        /\ program' # "cascade" => CascadeInv'
        /\ program' # "throughput" => ThroughputInv'
    BY DEF ScalingInv, SimulatorInv, WorstInv, TailInv, ScaleInv, PingPongInv, SweepInv,
           ChurnInv, CascadeInv, ThroughputInv
  <1> QED BY <1>1, <1>2, <1>4, <1>5

\* A program begins with an empty book.
Fresh ==
  /\ program \in DOMAIN Length /\ n = 0
  /\ down = FALSE /\ book = B!NoOrders
  /\ program = "simulator" => currentOrderId \in Nat

LEMMA FreshIs == Fresh => WorkInv
  <1> SUFFICES ASSUME Fresh PROVE WorkInv OBVIOUS
  <1>1. DOMAIN book = {} /\ n = 0 BY DEF Fresh, B!NoOrders
  <1>2. 1 .. n = {} BY <1>1
  <1>3. Roomy
    <2>1. Cardinality(DOMAIN book) = 0 /\ IsFiniteSet(DOMAIN book) BY <1>1, FS_EmptySet
    <2>2. program \in DOMAIN Length /\ down = FALSE BY DEF Fresh
    <2>3. n \in 0 .. Length[program] BY <1>1, <2>2, Lengths
    <2>4. Sane(book) BY <1>1, <2>1 DEF Sane
    <2> QED BY <1>1, <2>1, <2>2, <2>3, <2>4 DEF Roomy
  <1>4. ScalingInv BY <1>1 DEF ScalingInv
  <1>5. SimulatorInv BY <1>1 DEF SimulatorInv, Fresh
  <1>6. WorstInv /\ TailInv /\ ScaleInv
    BY <1>1, <1>2 DEF WorstInv, TailInv, ScaleInv, Resting
  <1>7. PingPongInv BY <1>1 DEF PingPongInv
  <1>8. SweepInv
    <2>1. (IF n <= Levels THEN 1 .. n ELSE {}) = {} BY <1>2
    <2> QED BY <1>1, <2>1 DEF SweepInv, Resting
  <1>9. ChurnInv
    <2>1. ChurnIds = {} BY <1>1, <1>2, NumberTypes DEF ChurnIds, Warm
    <2> QED BY <1>1, <2>1 DEF ChurnInv, Resting
  <1>10. CascadeInv
    <2>1. n <= 10 * Levels + 1 BY <1>1, NumberTypes
    <2> QED BY <1>1, <1>2, <2>1 DEF CascadeInv, Resting
  <1>11. ThroughputInv BY <1>1 DEF ThroughputInv, Resting
  <1> QED
    BY <1>3, <1>4, <1>5, <1>6, <1>7, <1>8, <1>9, <1>10, <1>11 DEF WorkInv

LEMMA InitIs == Init => WorkInv
  <1>1. Init => Fresh BY DEF Init, B!Init, Fresh, Length
  <1> QED BY <1>1, FreshIs

LEMMA NextTestKeeps == ASSUME WorkInv, NextTest PROVE WorkInv'
  <1>1. program \in DOMAIN Following /\ program' = Following[program] BY DEF NextTest
  <1>2. program' \in DOMAIN Length /\ program' # "simulator" BY <1>1 DEF Following, Length
  <1>3. n' = 0 /\ book' = B!NoOrders /\ down' = FALSE
    BY DEF NextTest, B!Reset, WorkInv, Roomy
  <1>4. Fresh' BY <1>2, <1>3 DEF Fresh
  <1>5. Fresh' => WorkInv' BY FreshIs, PTL
  <1> QED BY <1>4, <1>5

LEMMA WorkStep == WorkInv /\ [Next]_vars => WorkInv'
  <1> SUFFICES ASSUME WorkInv, [Next]_vars PROVE WorkInv' OBVIOUS
  <1>1. CASE Step BY <1>1, StepKeeps
  <1>2. CASE NextTest BY <1>2, NextTestKeeps
  <1>3. CASE UNCHANGED vars
    BY <1>3 DEF vars, WorkInv, Roomy, ScalingInv, SimulatorInv, WorstInv, TailInv, ScaleInv,
                PingPongInv, SweepInv, ChurnInv, ChurnIds, CascadeInv, ThroughputInv
  <1> QED BY <1>1, <1>2, <1>3 DEF Next

\* After every call of every program the book holds the orders the invariant
\* lists for it, whatever the number of orders, levels and draws.
THEOREM WorkCorrect == Spec => []WorkInv
  BY InitIs, WorkStep, PTL DEF Spec

-----------------------------------------------------------------------------
(***************************************************************************)
(* What the programs assume about the book.                                *)
(***************************************************************************)

\* What a call of a program needs of the ids of the book.
HasEffect(c) ==
  /\ c.op = "add" => c.id \notin DOMAIN book
  /\ c.op = "cancel" /\ program = "churn" => c.id \in DOMAIN book

LEMMA AddHasEffect ==
  ASSUME NEW id, id \notin DOMAIN book, NEW side, NEW S, NEW p
  PROVE  HasEffect(Add(id, side, S, p))
  BY DEF HasEffect, Add

LEMMA MarketHasEffect == ASSUME NEW side, NEW S PROVE HasEffect(Market(side, S))
  BY DEF HasEffect, Market

LEMMA OthersHaveEffect ==
  ASSUME program = "simulator", NEW id, NEW S, NEW p
  PROVE  HasEffect(Cancel(id)) /\ HasEffect(Modify(id, S, p))
  BY DEF HasEffect, Cancel, Modify

LEMMA EffectOfCalls == WorkInv => CallsTakeEffect
  <1> SUFFICES ASSUME WorkInv PROVE CallsTakeEffect OBVIOUS
  <1> USE DEF WorkInv
  <1>1. down = FALSE /\ program \in DOMAIN Length /\ n \in 0 .. Length[program] BY DEF Roomy
  <1>2. ASSUME ~Done, NEW c \in Calls PROVE HasEffect(c)
    <2>1. n \in Nat /\ n < Length[program] BY <1>1, <1>2, Lengths DEF Done
    <2>2. n + 1 \notin 1 .. n BY <2>1
    <2>3. CASE program = "scaling"
      <3>1. c = Scaling(n) BY <1>2, <2>3, NextCall
      <3>2. n \notin DOMAIN book BY <2>1, <2>3 DEF ScalingInv
      <3> QED BY <3>1, <3>2, AddHasEffect DEF Scaling
    <2>4. CASE program = "pingpong"
      <3>1. c = PingPong[n + 1] /\ n \in 0 .. 3 BY <1>2, <2>1, <2>4, NextCall DEF Length
      <3>2. \E side, S, p : c = Add(n + 1, side, S, p) BY <3>1 DEF PingPong
      <3>3. n + 1 \notin DOMAIN book BY <2>4, <3>1 DEF PingPongInv
      <3> QED BY <3>2, <3>3, AddHasEffect
    <2>5. CASE program = "sweep"
      <3>1. c = Sweep(n) /\ n <= Levels BY <1>2, <2>1, <2>5, NextCall, NumberTypes DEF Length
      <3>2. DOMAIN book = 1 .. n BY <2>5, <3>1 DEF SweepInv, Resting
      <3> QED BY <2>2, <3>1, <3>2, AddHasEffect, MarketHasEffect DEF Sweep
    <2>6. CASE program = "churn"
      <3>1. c = Churn(n) /\ n < Warm + 40 /\ Warm \in Nat
        BY <1>2, <2>1, <2>6, NextCall, NumberTypes DEF Length, Warm
      <3>2. DOMAIN book = ChurnIds BY <2>6 DEF ChurnInv, Resting
      <3>3. CASE n < Warm + 20
        <4>1. n + 1 \notin DOMAIN book BY <2>1, <2>2, <3>1, <3>2, <3>3 DEF ChurnIds
        <4>2. \E side, S, p : c = Add(n + 1, side, S, p)
          <5>1. CASE n < Warm
            <6>1. c = Turn(n, Add(n + 1, "Buy", 100, 9900 + ((n \div 2) % 50)),
                              Add(n + 1, "Sell", 100, 10100 - ((n \div 2) % 50)))
              BY <2>1, <3>1, <5>1, ChurnCall
            <6> QED BY <6>1 DEF Turn
          <5>2. CASE n >= Warm
            <6>1. c = Add(n + 1, "Buy", 100, 10000 - (n - Warm))
              BY <2>1, <3>1, <3>3, <5>2, ChurnCall
            <6> QED BY <6>1
          <5> QED BY <2>1, <3>1, <5>1, <5>2
        <4> QED BY <4>1, <4>2, AddHasEffect
      <3>4. CASE n >= Warm + 20 /\ n < Warm + 39
        <4>1. c = Cancel(n - 19) BY <2>1, <3>1, <3>4, ChurnCall
        <4>2. n - 19 \in DOMAIN book BY <2>1, <3>1, <3>2, <3>4 DEF ChurnIds
        <4> QED BY <4>1, <4>2 DEF HasEffect, Cancel
      <3>5. CASE n = Warm + 39
        <4>1. c = Market("Sell", 100) BY <2>1, <3>1, <3>5, ChurnCall
        <4> QED BY <4>1, MarketHasEffect
      <3> QED BY <2>1, <3>1, <3>3, <3>4, <3>5
    <2>7. CASE program \in {"worst", "tail", "scale", "cascade", "throughput"}
      <3>1. \E side, S, p : c = Add(n + 1, side, S, p)
        BY <1>2, <2>7, NextCall DEF WorstCase, TailLatency, Scale, Cascade, Throughput
      <3>2. n + 1 \notin DOMAIN book
        <4>1. program = "cascade" => n <= 10 * Levels + 1
          BY <2>1, NumberTypes DEF Length
        <4>2. DOMAIN book \subseteq (1 .. n) \cup {n}
          BY <2>7, <4>1, ZenonT(60)
             DEF WorstInv, TailInv, ScaleInv, CascadeInv, ThroughputInv, Resting
        <4> QED BY <2>1, <2>2, <4>2
      <3> QED BY <3>1, <3>2, AddHasEffect
    <2>8. CASE program = "simulator"
      <3>1. currentOrderId \notin DOMAIN book BY <2>8 DEF SimulatorInv
      <3>2. \/ \E s \in B!Side, q \in QtyDist, p \in PriceDist : c = Add(currentOrderId, s, q, p)
            \/ \E id \in activeIds : c = Cancel(id)
            \/ \E id \in activeIds, q \in QtyDist, p \in PriceDist : c = Modify(id, q, p)
            \/ \E s \in B!Side, q \in QtyDist : c = Market(s, q)
        BY <1>2, <2>8, NextCall DEF Simulator
      <3> QED BY <2>8, <3>1, <3>2, AddHasEffect, OthersHaveEffect, MarketHasEffect
    <2> QED BY <1>1, <2>3, <2>4, <2>5, <2>6, <2>7, <2>8 DEF Length
  <1> QED BY <1>1, <1>2 DEF CallsTakeEffect, HasEffect, B!Ids

\* No program fails, none reuses an id that still rests, and the market maker's
\* cancels find their orders: every call of benchmark.cpp, benchmark_engine.cpp
\* and the adds of simulator.cpp do what is timed.
THEOREM CallsTakeEffectAlways == Spec => []CallsTakeEffect
  BY WorkCorrect, EffectOfCalls, PTL

\* The tests that measure insertion never trade: after n calls the n orders sent
\* rest, each with all of its shares (BM_WorstCaseCacheMiss and the harness's
\* tail latency, scale degradation and worst case tests).
THEOREM PassiveLoadsRestAlways == Spec => []PassiveLoadsRest
  <1>1. WorkInv => PassiveLoadsRest
    BY ZenonT(60) DEF WorkInv, WorstInv, TailInv, ScaleInv, Resting, PassiveLoadsRest, B!Ids
  <1> QED BY <1>1, WorkCorrect, PTL

LEMMA AggressorsOfInv == WorkInv => AggressorsTakeAll
  <1> SUFFICES ASSUME WorkInv PROVE AggressorsTakeAll OBVIOUS
  <1> USE DEF WorkInv
  <1>1. ASSUME program = "pingpong", Done
        PROVE  DOMAIN book = {1, 2} /\ \A i \in DOMAIN book : book[i].shares = 1000000 - 10
    <2>1. n = 4 BY <1>1 DEF Done, Length
    <2>2. DOMAIN book = 1 .. 2 BY <1>1, <2>1 DEF PingPongInv
    <2>3. ASSUME NEW i \in DOMAIN book PROVE book[i].shares = 1000000 - 10
      <3>1. i \in 1 .. 2 /\ ~(i + n < 5) BY <2>1, <2>2
      <3> QED BY <1>1, <3>1 DEF PingPongInv
    <2>4. 1 .. 2 = {1, 2} OBVIOUS
    <2> QED BY <2>2, <2>3, <2>4
  <1>2. ASSUME program = "sweep", Done PROVE DOMAIN book = {}
    <2>1. ~(n <= Levels) BY <1>2, NumberTypes DEF Done, Length
    <2> QED BY <1>2, <2>1 DEF SweepInv, Resting
  <1>3. ASSUME program = "churn", Done
        PROVE  DOMAIN book = 1 .. 2 * WarmUp /\ \A i \in DOMAIN book : book[i].shares = 100
    <2>1. n = Warm + 40 /\ Warm \in Nat /\ Warm = 2 * WarmUp
      BY <1>3, NumberTypes DEF Done, Length, Warm
    <2>2. ChurnIds = 1 .. Warm
      <3>1. ~(n <= Warm + 20) /\ n - 19 .. Warm + 20 = {} BY <2>1
      <3> QED BY <3>1 DEF ChurnIds
    <2> QED BY <1>3, <2>1, <2>2 DEF ChurnInv, Resting
  <1>4. ASSUME program = "cascade", Done PROVE DOMAIN book = {10 * Levels + 1}
    <2>1. ~(n <= 10 * Levels + 1) BY <1>4, NumberTypes DEF Done, Length
    <2> QED BY <1>4, <2>1 DEF CascadeInv, Resting
  <1>5. program = "throughput" => DOMAIN book = IF n % 2 = 1 THEN {n} ELSE {}
    BY DEF ThroughputInv, Resting
  <1> QED BY <1>1, <1>2, <1>3, <1>4, <1>5 DEF AggressorsTakeAll, B!Ids

\* The tests that measure matching trade with all they mean to trade with and
\* nothing else: the two ping-pong fills, the market sweep, the market maker's
\* closing order, the cascade of runPassiveVsAggressiveTest, the crossing orders
\* of runThroughputTest.
THEOREM AggressorsTakeAllAlways == Spec => []AggressorsTakeAll
  BY WorkCorrect, AggressorsOfInv, PTL
=============================================================================
