--------------------------- MODULE FlatMapProofs ---------------------------
(***************************************************************************)
(* The price map for every number of prices and every word size: array,    *)
(* bits and cached edges agree, the scans are exact, and the map           *)
(* implements the ordered map that Book is written against.                *)
(***************************************************************************)
EXTENDS FlatMap, NumberLemmas

\* The bits set in the words B are those of the prices S.
Bits(B, S) ==
  /\ B \in [0 .. WORDS - 1 -> SUBSET (0 .. WordBits - 1)]
  /\ \A w \in 0 .. WORDS - 1, b \in 0 .. WordBits - 1 : b \in B[w] <=> w * WordBits + b \in S

\* lo and hi are the cached edges of a map that holds the prices S.
AreEdges(S, lo, hi) ==
  IF S = {} THEN lo = MAX_PRICE /\ hi = -1
  ELSE lo \in S /\ hi \in S /\ \A p \in S : lo <= p /\ p <= hi

\* up is the nearest price of S above p, -1 if there is none.
NearestUp(S, p, up) ==
  IF up = -1 THEN \A q \in S : q <= p
  ELSE up \in S /\ up > p /\ \A q \in S : q <= p \/ q >= up

NearestDown(S, p, down) ==
  IF down = -1 THEN \A q \in S : q >= p
  ELSE down \in S /\ down < p /\ \A q \in S : q >= p \/ q <= down

-----------------------------------------------------------------------------
(* Words and bits *)

LEMMA Address ==
  ASSUME NEW p \in PriceIdx
  PROVE  /\ p \in Nat /\ p < MAX_PRICE
         /\ p \div WordBits \in 0 .. WORDS - 1
         /\ p % WordBits \in 0 .. WordBits - 1
         /\ p = (p \div WordBits) * WordBits + (p % WordBits)
  <1> USE FlatMapAssumption
  <1> DEFINE w == p \div WordBits  r == p % WordBits
             m == MAX_PRICE \div WordBits  s == MAX_PRICE % WordBits
  <1>1. p \in Nat /\ p < MAX_PRICE BY DEF PriceIdx
  <1>2. w \in Nat /\ r \in 0 .. WordBits - 1 /\ p = w * WordBits + r BY <1>1, DivMod
  <1>3. m \in Nat /\ s \in 0 .. WordBits - 1 /\ MAX_PRICE = m * WordBits + s BY DivMod
  <1>4. WORDS = m + 1 BY DEF WORDS
  <1> HIDE DEF w, r, m, s
  <1>5. w <= m
    <2>1. ~(m < w)
      <3> SUFFICES ASSUME m < w PROVE FALSE
        OBVIOUS
      <3>1. m * WordBits + s < w * WordBits + r BY <1>2, <1>3, QuotientFirst
      <3> QED BY <3>1, <1>1, <1>2, <1>3
    <2> QED BY <2>1, <1>2, <1>3
  <1> QED BY <1>1, <1>2, <1>3, <1>4, <1>5 DEF w, r

LEMMA LowestIs ==
  ASSUME NEW S \in SUBSET Nat, S # {}
  PROVE  Lowest(S) \in S /\ \A c \in S : Lowest(S) <= c
  BY Least, Zenon DEF Lowest

LEMMA HighestIs ==
  ASSUME NEW N \in Nat, NEW S \in SUBSET (0 .. N), S # {}
  PROVE  Highest(S) \in S /\ \A c \in S : Highest(S) >= c
  <1>1. \E b \in S : \A c \in S : b >= c BY Greatest
  <1> QED BY <1>1, Zenon DEF Highest

\* A price of S has its bit in its word.
LEMMA BitOf ==
  ASSUME NEW S \in SUBSET PriceIdx, NEW B, Bits(B, S), NEW q \in S
  PROVE  /\ q \in Nat /\ q < MAX_PRICE
         /\ q \div WordBits \in 0 .. WORDS - 1
         /\ q % WordBits \in 0 .. WordBits - 1
         /\ q = (q \div WordBits) * WordBits + (q % WordBits)
         /\ q % WordBits \in B[q \div WordBits]
  <1>1. q \in PriceIdx OBVIOUS
  <1>2. /\ q \in Nat /\ q < MAX_PRICE
        /\ q \div WordBits \in 0 .. WORDS - 1
        /\ q % WordBits \in 0 .. WordBits - 1
        /\ q = (q \div WordBits) * WordBits + (q % WordBits)
    BY <1>1, Address
  <1>3. q % WordBits \in B[q \div WordBits] BY <1>2 DEF Bits
  <1> QED BY <1>2, <1>3

LEMMA ScanUpExact ==
  ASSUME NEW S \in SUBSET PriceIdx, NEW B, Bits(B, S), NEW p \in PriceIdx
  PROVE  NearestUp(S, p, scan_up(B, p))
  <1> USE FlatMapAssumption
  <1>1. CASE p + 1 >= MAX_PRICE
    BY <1>1 DEF scan_up, NearestUp, PriceIdx
  <1>2. CASE ~(p + 1 >= MAX_PRICE)
    <2> DEFINE s == p + 1
               w == s \div WordBits
               r == s % WordBits
               mask == {b \in B[w] : b >= r}
               words == {i \in w + 1 .. WORDS - 1 : B[i] # {}}
               up == UpFrom(B, s)
    <2>1. s \in PriceIdx /\ p \in Nat BY <1>2 DEF PriceIdx
    <2>2. /\ s \in Nat
          /\ w \in 0 .. WORDS - 1 /\ r \in 0 .. WordBits - 1
          /\ s = w * WordBits + r
      BY <2>1, Address
    <2>3. scan_up(B, p) = up BY <1>2 DEF scan_up
    <2>4. up = CASE mask # {} -> w * WordBits + Lowest(mask)
                 [] mask = {} /\ words # {} ->
                      Lowest(words) * WordBits + Lowest(B[Lowest(words)])
                 [] OTHER -> -1
      BY DEF UpFrom
    <2>5. WORDS \in Nat /\ s = p + 1
      BY DivMod DEF WORDS
    <2> HIDE DEF s, w, r, mask, words, up
    <2>6. \A i \in 0 .. WORDS - 1 : B[i] \in SUBSET (0 .. WordBits - 1)
      BY DEF Bits
    <2>7. ASSUME NEW q \in S, q > p
          PROVE  \E v \in 0 .. WORDS - 1, b \in 0 .. WordBits - 1 :
                   /\ b \in B[v] /\ q = v * WordBits + b /\ v >= w
                   /\ v = w => b \in mask
                   /\ v > w => v \in words
      <3> DEFINE v == q \div WordBits
                 b == q % WordBits
      <3>1. /\ q \in Nat /\ v \in 0 .. WORDS - 1 /\ b \in 0 .. WordBits - 1
            /\ q = v * WordBits + b /\ b \in B[v]
        BY BitOf
      <3> HIDE DEF v, b
      <3>2. q >= s BY <2>1, <2>2, <2>5, <2>7, <3>1
      <3>3. ~(v < w)
        <4> SUFFICES ASSUME v < w PROVE FALSE
          OBVIOUS
        <4>1. v * WordBits + b < w * WordBits + r BY <2>2, <3>1, QuotientFirst
        <4> QED BY <4>1, <2>2, <3>1, <3>2
      <3>4. v = w => b \in mask
        <4> SUFFICES ASSUME v = w PROVE b >= r
          BY <3>1 DEF mask
        <4> DEFINE z == w * WordBits
        <4>1. z \in Int BY <2>2, SMT
        <4>2. q = z + b /\ s = z + r BY <2>2, <3>1
        <4> HIDE DEF z
        <4> QED BY <4>1, <4>2, <2>2, <3>1, <3>2
      <3>5. v > w => v \in words BY <2>2, <2>5, <3>1 DEF words
      <3> QED BY <2>2, <3>1, <3>3, <3>4, <3>5
    <2>8. CASE mask # {}
      <3> DEFINE b == Lowest(mask)
      <3>1. mask \in SUBSET Nat BY <2>2, <2>6 DEF mask
      <3>2. b \in mask /\ \A c \in mask : b <= c BY <3>1, <2>8, LowestIs
      <3> HIDE DEF b
      <3>3. b \in B[w] /\ b >= r /\ b \in 0 .. WordBits - 1 BY <2>2, <2>6, <3>2 DEF mask
      <3>4. up = w * WordBits + b BY <2>4, <2>8 DEF b
      <3>5. up \in S BY <2>2, <3>3, <3>4 DEF Bits
      <3>6. up > p /\ up \in Nat
        <4> DEFINE z == w * WordBits
        <4>1. z \in Int BY <2>2, SMT
        <4>2. up = z + b /\ s = z + r BY <2>2, <3>4
        <4> HIDE DEF z
        <4> QED BY <4>1, <4>2, <2>1, <2>2, <2>5, <3>3
      <3>7. ASSUME NEW q \in S, q > p PROVE q >= up
        <4>1. PICK v \in 0 .. WORDS - 1, c \in 0 .. WordBits - 1 :
                /\ c \in B[v] /\ q = v * WordBits + c /\ v >= w
                /\ v = w => c \in mask
          BY <2>7, <3>7
        <4>2. CASE v = w
          <5> DEFINE z == w * WordBits
          <5>1. z \in Int BY <2>2, SMT
          <5>2. up = z + b /\ q = z + c /\ b <= c BY <4>1, <4>2, <3>2, <3>4
          <5> HIDE DEF z
          <5> QED BY <5>1, <5>2, <3>3, <4>1
        <4>3. CASE v > w
          <5>1. w * WordBits + b < v * WordBits + c BY <2>2, <3>3, <4>1, <4>3, QuotientFirst
          <5> QED BY <5>1, <3>4, <3>6, <4>1 DEF PriceIdx
        <4> QED BY <2>2, <4>1, <4>2, <4>3
      <3>8. \A q \in S : q <= p \/ q >= up BY <3>7, <2>1 DEF PriceIdx
      <3> QED BY <2>3, <3>5, <3>6, <3>8 DEF NearestUp
    <2>9. CASE mask = {} /\ words # {}
      <3> DEFINE i == Lowest(words)
                 b == Lowest(B[i])
      <3>1. words \in SUBSET Nat BY <2>2, <2>5 DEF words
      <3>2. i \in words /\ \A j \in words : i <= j BY <3>1, <2>9, LowestIs
      <3> HIDE DEF i
      <3>3. i \in 0 .. WORDS - 1 /\ i > w /\ B[i] # {} BY <2>2, <2>5, <3>2 DEF words
      <3>4. B[i] \in SUBSET (0 .. WordBits - 1) BY <2>6, <3>3
      <3>5. B[i] \in SUBSET Nat BY <3>4
      <3>6. b \in B[i] /\ \A c \in B[i] : b <= c BY <3>3, <3>5, LowestIs
      <3> HIDE DEF b
      <3>7. b \in 0 .. WordBits - 1 BY <3>4, <3>6
      <3>8. up = i * WordBits + b
        <4>1. up = Lowest(words) * WordBits + Lowest(B[Lowest(words)]) BY <2>4, <2>9
        <4> QED BY <4>1 DEF i, b
      <3>9. up \in S BY <3>3, <3>6, <3>7, <3>8 DEF Bits
      <3>10. up > p /\ up \in Nat
        <4>1. w * WordBits + r < i * WordBits + b BY <2>2, <3>3, <3>7, QuotientFirst
        <4>2. up \in Nat BY <3>9 DEF PriceIdx
        <4> QED BY <4>1, <4>2, <2>1, <2>2, <2>5, <3>8
      <3>11. ASSUME NEW q \in S, q > p PROVE q >= up
        <4>1. PICK v \in 0 .. WORDS - 1, c \in 0 .. WordBits - 1 :
                /\ c \in B[v] /\ q = v * WordBits + c /\ v >= w
                /\ v = w => c \in mask
                /\ v > w => v \in words
          BY <2>7, <3>11
        <4>2. v \in words /\ i <= v BY <2>2, <2>9, <3>2, <4>1
        <4>3. CASE v = i
          <5> DEFINE z == i * WordBits
          <5>1. z \in Int BY <3>3, SMT
          <5>2. up = z + b /\ q = z + c /\ b <= c BY <4>1, <4>3, <3>6, <3>8
          <5> HIDE DEF z
          <5> QED BY <5>1, <5>2, <3>7, <4>1
        <4>4. CASE i < v
          <5>1. i * WordBits + b < v * WordBits + c BY <3>3, <3>7, <4>1, <4>4, QuotientFirst
          <5> QED BY <5>1, <3>8, <3>10, <4>1 DEF PriceIdx
        <4> QED BY <3>3, <4>1, <4>2, <4>3, <4>4
      <3>12. \A q \in S : q <= p \/ q >= up BY <3>11, <2>1 DEF PriceIdx
      <3> QED BY <2>3, <3>9, <3>10, <3>12 DEF NearestUp
    <2>10. CASE mask = {} /\ words = {}
      <3>1. up = -1 BY <2>4, <2>10
      <3>2. ASSUME NEW q \in S, q > p PROVE FALSE
        BY <2>2, <2>7, <2>10, <3>2
      <3>3. \A q \in S : q <= p BY <3>2, <2>1 DEF PriceIdx
      <3> QED BY <2>3, <3>1, <3>3 DEF NearestUp
    <2> QED BY <2>8, <2>9, <2>10
  <1> QED BY <1>1, <1>2

LEMMA ScanDownExact ==
  ASSUME NEW S \in SUBSET PriceIdx, NEW B, Bits(B, S), NEW p \in PriceIdx
  PROVE  NearestDown(S, p, scan_down(B, p))
  <1> USE FlatMapAssumption
  <1>1. CASE p - 1 < 0
    BY <1>1 DEF scan_down, NearestDown, PriceIdx
  <1>2. CASE ~(p - 1 < 0)
    <2> DEFINE s == p - 1
               w == s \div WordBits
               r == s % WordBits
               mask == {b \in B[w] : b <= r}
               words == {i \in 0 .. w - 1 : B[i] # {}}
               down == DownFrom(B, s)
    <2>1. s \in PriceIdx /\ p \in Nat BY <1>2 DEF PriceIdx
    <2>2. /\ s \in Nat
          /\ w \in 0 .. WORDS - 1 /\ r \in 0 .. WordBits - 1
          /\ s = w * WordBits + r
      BY <2>1, Address
    <2>3. scan_down(B, p) = down BY <1>2 DEF scan_down
    <2>4. down = CASE mask # {} -> w * WordBits + Highest(mask)
                 [] mask = {} /\ words # {} ->
                      Highest(words) * WordBits + Highest(B[Highest(words)])
                 [] OTHER -> -1
      BY DEF DownFrom
    <2>5. WORDS \in Nat /\ s = p - 1
      BY DivMod DEF WORDS
    <2> HIDE DEF s, w, r, mask, words, down
    <2>6. \A i \in 0 .. WORDS - 1 : B[i] \in SUBSET (0 .. WordBits - 1)
      BY DEF Bits
    <2>7. ASSUME NEW q \in S, q < p
          PROVE  \E v \in 0 .. WORDS - 1, b \in 0 .. WordBits - 1 :
                   /\ b \in B[v] /\ q = v * WordBits + b /\ v <= w
                   /\ v = w => b \in mask
                   /\ v < w => v \in words
      <3> DEFINE v == q \div WordBits
                 b == q % WordBits
      <3>1. /\ q \in Nat /\ v \in 0 .. WORDS - 1 /\ b \in 0 .. WordBits - 1
            /\ q = v * WordBits + b /\ b \in B[v]
        BY BitOf
      <3> HIDE DEF v, b
      <3>2. q <= s BY <2>1, <2>2, <2>5, <2>7, <3>1
      <3>3. ~(w < v)
        <4> SUFFICES ASSUME w < v PROVE FALSE
          OBVIOUS
        <4>1. w * WordBits + r < v * WordBits + b BY <2>2, <3>1, QuotientFirst
        <4> QED BY <4>1, <2>2, <3>1, <3>2
      <3>4. v = w => b \in mask
        <4> SUFFICES ASSUME v = w PROVE b <= r
          BY <3>1 DEF mask
        <4> DEFINE z == w * WordBits
        <4>1. z \in Int BY <2>2, SMT
        <4>2. q = z + b /\ s = z + r BY <2>2, <3>1
        <4> HIDE DEF z
        <4> QED BY <4>1, <4>2, <2>2, <3>1, <3>2
      <3>5. v < w => v \in words BY <2>2, <2>5, <3>1 DEF words
      <3> QED BY <2>2, <3>1, <3>3, <3>4, <3>5
    <2>8. CASE mask # {}
      <3> DEFINE b == Highest(mask)
      <3>1. WordBits - 1 \in Nat /\ mask \in SUBSET (0 .. WordBits - 1) BY <2>2, <2>6 DEF mask
      <3>2. b \in mask /\ \A c \in mask : b >= c BY <3>1, <2>8, HighestIs
      <3> HIDE DEF b
      <3>3. b \in B[w] /\ b <= r /\ b \in 0 .. WordBits - 1 BY <2>2, <2>6, <3>2 DEF mask
      <3>4. down = w * WordBits + b BY <2>4, <2>8 DEF b
      <3>5. down \in S BY <2>2, <3>3, <3>4 DEF Bits
      <3>6. down < p /\ down \in Nat
        <4> DEFINE z == w * WordBits
        <4>1. z \in Int BY <2>2, SMT
        <4>2. down = z + b /\ s = z + r BY <2>2, <3>4
        <4> HIDE DEF z
        <4> QED BY <4>1, <4>2, <2>1, <2>2, <2>5, <3>3
      <3>7. ASSUME NEW q \in S, q < p PROVE q <= down
        <4>1. PICK v \in 0 .. WORDS - 1, c \in 0 .. WordBits - 1 :
                /\ c \in B[v] /\ q = v * WordBits + c /\ v <= w
                /\ v = w => c \in mask
          BY <2>7, <3>7
        <4>2. CASE v = w
          <5> DEFINE z == w * WordBits
          <5>1. z \in Int BY <2>2, SMT
          <5>2. down = z + b /\ q = z + c /\ b >= c BY <4>1, <4>2, <3>2, <3>4
          <5> HIDE DEF z
          <5> QED BY <5>1, <5>2, <3>3, <4>1
        <4>3. CASE v < w
          <5>1. v * WordBits + c < w * WordBits + b BY <2>2, <3>3, <4>1, <4>3, QuotientFirst
          <5> QED BY <5>1, <3>4, <3>6, <4>1 DEF PriceIdx
        <4> QED BY <2>2, <4>1, <4>2, <4>3
      <3>8. \A q \in S : q >= p \/ q <= down BY <3>7, <2>1 DEF PriceIdx
      <3> QED BY <2>3, <3>5, <3>6, <3>8 DEF NearestDown
    <2>9. CASE mask = {} /\ words # {}
      <3> DEFINE i == Highest(words)
                 b == Highest(B[i])
      <3>1. WORDS - 1 \in Nat /\ words \in SUBSET (0 .. WORDS - 1) BY <2>2, <2>5 DEF words
      <3>2. i \in words /\ \A j \in words : i >= j BY <3>1, <2>9, HighestIs
      <3> HIDE DEF i
      <3>3. i \in 0 .. WORDS - 1 /\ i < w /\ B[i] # {} BY <2>2, <2>5, <3>2 DEF words
      <3>4. B[i] \in SUBSET (0 .. WordBits - 1) BY <2>6, <3>3
      <3>5. WordBits - 1 \in Nat OBVIOUS
      <3>6. b \in B[i] /\ \A c \in B[i] : b >= c BY <3>3, <3>4, <3>5, HighestIs
      <3> HIDE DEF b
      <3>7. b \in 0 .. WordBits - 1 BY <3>4, <3>6
      <3>8. down = i * WordBits + b
        <4>1. down = Highest(words) * WordBits + Highest(B[Highest(words)]) BY <2>4, <2>9
        <4> QED BY <4>1 DEF i, b
      <3>9. down \in S BY <3>3, <3>6, <3>7, <3>8 DEF Bits
      <3>10. down < p /\ down \in Nat
        <4>1. i * WordBits + b < w * WordBits + r BY <2>2, <3>3, <3>7, QuotientFirst
        <4>2. down \in Nat BY <3>9 DEF PriceIdx
        <4> QED BY <4>1, <4>2, <2>1, <2>2, <2>5, <3>8
      <3>11. ASSUME NEW q \in S, q < p PROVE q <= down
        <4>1. PICK v \in 0 .. WORDS - 1, c \in 0 .. WordBits - 1 :
                /\ c \in B[v] /\ q = v * WordBits + c /\ v <= w
                /\ v = w => c \in mask
                /\ v < w => v \in words
          BY <2>7, <3>11
        <4>2. v \in words /\ i >= v BY <2>2, <2>9, <3>2, <4>1
        <4>3. CASE v = i
          <5> DEFINE z == i * WordBits
          <5>1. z \in Int BY <3>3, SMT
          <5>2. down = z + b /\ q = z + c /\ b >= c BY <4>1, <4>3, <3>6, <3>8
          <5> HIDE DEF z
          <5> QED BY <5>1, <5>2, <3>7, <4>1
        <4>4. CASE v < i
          <5>1. v * WordBits + c < i * WordBits + b BY <3>3, <3>7, <4>1, <4>4, QuotientFirst
          <5> QED BY <5>1, <3>8, <3>10, <4>1 DEF PriceIdx
        <4> QED BY <3>3, <4>1, <4>2, <4>3, <4>4
      <3>12. \A q \in S : q >= p \/ q <= down BY <3>11, <2>1 DEF PriceIdx
      <3> QED BY <2>3, <3>9, <3>10, <3>12 DEF NearestDown
    <2>10. CASE mask = {} /\ words = {}
      <3>1. down = -1 BY <2>4, <2>10
      <3>2. ASSUME NEW q \in S, q < p PROVE FALSE
        BY <2>2, <2>7, <2>10, <3>2
      <3>3. \A q \in S : q >= p BY <3>2, <2>1 DEF PriceIdx
      <3> QED BY <2>3, <3>1, <3>3 DEF NearestDown
    <2> QED BY <2>8, <2>9, <2>10
  <1> QED BY <1>1, <1>2

-----------------------------------------------------------------------------
(* Setting and clearing a bit *)

LEMMA BitIsSet ==
  ASSUME NEW S \in SUBSET PriceIdx, NEW B, Bits(B, S), NEW p \in PriceIdx
  PROVE  Bits([B EXCEPT ![p \div WordBits] = @ \cup {p % WordBits}], S \cup {p})
  <1> DEFINE v == p \div WordBits
             r == p % WordBits
             C == [B EXCEPT ![v] = @ \cup {r}]
  <1>1. v \in 0 .. WORDS - 1 /\ r \in 0 .. WordBits - 1 /\ p = v * WordBits + r BY Address
  <1> HIDE DEF v, r
  <1>2. C \in [0 .. WORDS - 1 -> SUBSET (0 .. WordBits - 1)] BY <1>1 DEF Bits
  <1>3. ASSUME NEW w \in 0 .. WORDS - 1, NEW b \in 0 .. WordBits - 1
        PROVE  b \in C[w] <=> w * WordBits + b \in S \cup {p}
    <2>1. w * WordBits + b = p <=> w = v /\ b = r
      BY <1>1, FlatMapAssumption, QuotientUnique
    <2>2. b \in C[w] <=> b \in B[w] \/ (w = v /\ b = r) BY <1>1 DEF Bits
    <2>3. b \in B[w] <=> w * WordBits + b \in S BY DEF Bits
    <2> QED BY <2>1, <2>2, <2>3
  <1> QED BY <1>2, <1>3 DEF Bits, v, r

LEMMA BitIsCleared ==
  ASSUME NEW S \in SUBSET PriceIdx, NEW B, Bits(B, S), NEW p \in PriceIdx
  PROVE  Bits([B EXCEPT ![p \div WordBits] = @ \ {p % WordBits}], S \ {p})
  <1> DEFINE v == p \div WordBits
             r == p % WordBits
             C == [B EXCEPT ![v] = @ \ {r}]
  <1>1. v \in 0 .. WORDS - 1 /\ r \in 0 .. WordBits - 1 /\ p = v * WordBits + r BY Address
  <1> HIDE DEF v, r
  <1>2. C \in [0 .. WORDS - 1 -> SUBSET (0 .. WordBits - 1)] BY <1>1 DEF Bits
  <1>3. ASSUME NEW w \in 0 .. WORDS - 1, NEW b \in 0 .. WordBits - 1
        PROVE  b \in C[w] <=> w * WordBits + b \in S \ {p}
    <2>1. w * WordBits + b = p <=> w = v /\ b = r
      BY <1>1, FlatMapAssumption, QuotientUnique
    <2>2. b \in C[w] <=> b \in B[w] /\ ~(w = v /\ b = r) BY <1>1 DEF Bits
    <2>3. b \in B[w] <=> w * WordBits + b \in S BY DEF Bits
    <2> QED BY <2>1, <2>2, <2>3
  <1> QED BY <1>2, <1>3 DEF Bits, v, r

\* Erasing a price, also the lowest, the highest or the only one, leaves the
\* cached edges right.
LEMMA EdgesAfterErase ==
  ASSUME NEW S \in SUBSET PriceIdx, NEW p \in S, AreEdges(S, min_price, max_price),
         NEW B, Bits(B, S \ {p})
  PROVE  AreEdges(S \ {p}, Edges(B, p)[1], Edges(B, p)[2])
  <1> DEFINE T == S \ {p}
             up == scan_up(B, p)
             down == scan_down(B, p)
             lo == IF p = min_price THEN up ELSE min_price
             hi == IF p = max_price THEN down ELSE max_price
  <1>1. T \in SUBSET PriceIdx /\ p \in PriceIdx OBVIOUS
  <1>2. NearestUp(T, p, up) BY <1>1, ScanUpExact
  <1>3. NearestDown(T, p, down) BY <1>1, ScanDownExact
  <1>4. Edges(B, p) = IF lo = -1 THEN <<MAX_PRICE, -1>> ELSE <<lo, hi>> BY DEF Edges
  <1>5. \A q \in S : q \in Nat /\ min_price <= q /\ q <= max_price
    BY DEF AreEdges, PriceIdx
  <1>6. min_price \in S /\ max_price \in S BY DEF AreEdges
  <1>7. \A q \in T : q # p OBVIOUS
  <1> HIDE DEF T, up, down
  <1>8. CASE T = {}
    <2>1. p = min_price BY <1>6, <1>8 DEF T
    <2>2. up = -1 BY <1>2, <1>8 DEF NearestUp
    <2>3. Edges(B, p) = <<MAX_PRICE, -1>> BY <1>4, <2>1, <2>2
    <2> QED BY <1>8, <2>3 DEF AreEdges, T
  <1>9. CASE T # {}
    <2>1. PICK q \in T : TRUE BY <1>9
    <2>2. T \subseteq S BY DEF T
    <2>3. lo \in T /\ \A c \in T : lo <= c
      <3>1. CASE p = min_price
        <4>1. \A c \in T : c > p BY <1>5, <1>7, <2>2, <3>1
        <4>2. up # -1 BY <1>2, <1>5, <2>1, <2>2, <4>1 DEF NearestUp
        <4> QED BY <1>2, <1>5, <2>2, <3>1, <4>1, <4>2 DEF NearestUp
      <3>2. CASE p # min_price BY <1>5, <1>6, <2>2, <3>2 DEF T
      <3> QED BY <3>1, <3>2
    <2>4. hi \in T /\ \A c \in T : c <= hi
      <3>1. CASE p = max_price
        <4>1. \A c \in T : c < p BY <1>5, <1>7, <2>2, <3>1
        <4>2. down # -1 BY <1>3, <1>5, <2>1, <2>2, <4>1 DEF NearestDown
        <4> QED BY <1>3, <1>5, <2>2, <3>1, <4>1, <4>2 DEF NearestDown
      <3>2. CASE p # max_price BY <1>5, <1>6, <2>2, <3>2 DEF T
      <3> QED BY <3>1, <3>2
    <2>5. lo # -1 BY <1>5, <2>2, <2>3
    <2> HIDE DEF lo, hi
    <2>6. Edges(B, p)[1] = lo /\ Edges(B, p)[2] = hi BY <1>4, <2>5
    <2> QED BY <1>9, <2>3, <2>4, <2>6 DEF AreEdges, T
  <1> QED BY <1>8, <1>9

-----------------------------------------------------------------------------
(* The invariant *)

\* A forward iterator that is not at the end is at a price in the map, also
\* after an erase.  (A reverse one only walks.)
IteratorValid == ~reverse /\ it # End => it \in Present

MapInv == TypeOK /\ Coherent /\ IteratorValid

LEMMA CoherentIs ==
  ASSUME bitmask \in [0 .. WORDS - 1 -> SUBSET (0 .. WordBits - 1)]
  PROVE  Coherent <=> Bits(bitmask, Present) /\ AreEdges(Present, min_price, max_price)
  BY DEF Coherent, Bits, AreEdges

LEMMA InvFacts ==
  ASSUME MapInv
  PROVE  /\ Present \in SUBSET PriceIdx
         /\ Bits(bitmask, Present)
         /\ AreEdges(Present, min_price, max_price)
  BY CoherentIs DEF MapInv, TypeOK, Present

LEMMA InitMap == ASSUME Init PROVE MapInv
  <1> USE FlatMapAssumption
  <1>1. WORDS \in Nat BY DivMod DEF WORDS
  <1>2. TypeOK
    <2>1. data \in [PriceIdx -> Value \cup {NoLimit}] BY DEF Init
    <2>2. bitmask \in [0 .. WORDS - 1 -> SUBSET (0 .. WordBits - 1)] BY DEF Init
    <2>3. min_price \in 0 .. MAX_PRICE /\ max_price \in -1 .. MAX_PRICE - 1 BY DEF Init
    <2> QED BY <2>1, <2>2, <2>3 DEF Init, TypeOK
  <1>3. Present = {} BY DEF Init, Present
  <1>4. Coherent BY <1>3 DEF Init, Coherent
  <1> QED BY <1>2, <1>4 DEF MapInv, IteratorValid, Init, End

\* get_bit says whether a price is in the map.
LEMMA GetBitExact == ASSUME MapInv, NEW p \in PriceIdx PROVE get_bit(p) <=> p \in Present
  <1>1. Bits(bitmask, Present) BY InvFacts
  <1>2. /\ p \div WordBits \in 0 .. WORDS - 1 /\ p % WordBits \in 0 .. WordBits - 1
        /\ p = (p \div WordBits) * WordBits + (p % WordBits)
    BY Address
  <1>3. p % WordBits \in bitmask[p \div WordBits]
          <=> (p \div WordBits) * WordBits + (p % WordBits) \in Present
    BY <1>1, <1>2 DEF Bits
  <1> QED BY <1>2, <1>3 DEF get_bit

LEMMA ScansFind ==
  ASSUME MapInv, NEW p \in PriceIdx
  PROVE  /\ NearestUp(Present, p, scan_up(bitmask, p))
         /\ NearestDown(Present, p, scan_down(bitmask, p))
  BY InvFacts, ScanUpExact, ScanDownExact

\* Where iterators start and go to is the end or a price in the map.
LEMMA Targets ==
  ASSUME MapInv
  PROVE  /\ get_first \in Present \cup {End} /\ get_last \in Present \cup {End}
         /\ \A p \in PriceIdx : /\ get_next(p) \in (Present \ {p}) \cup {End}
                                /\ get_prev(p) \in (Present \ {p}) \cup {End}
  <1>1. AreEdges(Present, min_price, max_price) /\ Present \in SUBSET PriceIdx BY InvFacts
  <1>2. get_first \in Present \cup {End} /\ get_last \in Present \cup {End}
    BY <1>1 DEF AreEdges, get_first, get_last, End
  <1>3. ASSUME NEW p \in PriceIdx
        PROVE  /\ get_next(p) \in (Present \ {p}) \cup {End}
               /\ get_prev(p) \in (Present \ {p}) \cup {End}
    <2>1. /\ NearestUp(Present, p, scan_up(bitmask, p))
          /\ NearestDown(Present, p, scan_down(bitmask, p))
      BY ScansFind
    <2> QED
      BY <2>1, <1>1 DEF NearestUp, NearestDown, get_next, get_prev, End, PriceIdx
  <1> QED BY <1>2, <1>3

LEMMA WalkKeeps ==
  ASSUME MapInv, UNCHANGED mapVars, it' \in PriceIdx \cup {End}, reverse' \in BOOLEAN,
         it' \in Present \cup {End} \/ reverse'
  PROVE  MapInv'
  <1>1. TypeOK' BY DEF MapInv, TypeOK, mapVars
  <1>2. Coherent' BY DEF MapInv, Coherent, Present, mapVars
  <1>3. IteratorValid' BY DEF IteratorValid, Present, mapVars
  <1> QED BY <1>1, <1>2, <1>3 DEF MapInv

LEMMA WalksKeep ==
  ASSUME MapInv, begin \/ advance \/ rbegin \/ radvance
  PROVE  MapInv'
  <1>1. Present \in SUBSET PriceIdx BY InvFacts
  <1>2. it \in PriceIdx \cup {End} BY DEF MapInv, TypeOK
  <1>3. it' \in Present \cup {End} /\ reverse' \in BOOLEAN /\ UNCHANGED mapVars
    BY <1>2, Targets DEF begin, advance, rbegin, radvance, Forward, Backward
  <1> QED BY <1>1, <1>3, WalkKeeps

LEMMA FindKeeps == ASSUME MapInv, NEW p \in Probe, find(p) PROVE MapInv'
  <1>1. p \in Nat BY FlatMapAssumption
  <1>2. p < MAX_PRICE => p \in PriceIdx BY <1>1, FlatMapAssumption DEF PriceIdx
  <1>3. p < MAX_PRICE /\ get_bit(p) => p \in Present BY <1>2, GetBitExact
  <1>4. Present \in SUBSET PriceIdx BY InvFacts
  <1>5. it' \in Present \cup {End} /\ reverse' \in BOOLEAN /\ UNCHANGED mapVars
    BY <1>3 DEF find, Forward
  <1> QED BY <1>4, <1>5, WalkKeeps

LEMMA InsertKeeps ==
  ASSUME MapInv, NEW p \in PriceIdx, NEW v \in Value, Insert(p, v),
         \/ it' = p /\ reverse' = FALSE
         \/ UNCHANGED <<it, reverse>>
  PROVE  MapInv' /\ Present' = Present \cup {p}
  <1> USE FlatMapAssumption
  <1>1. /\ Present \in SUBSET PriceIdx
        /\ Bits(bitmask, Present)
        /\ AreEdges(Present, min_price, max_price)
    BY InvFacts
  <1>2. CASE get_bit(p)
    <2>1. UNCHANGED mapVars BY <1>2 DEF Insert, mapVars
    <2>2. p \in Present BY <1>2, GetBitExact
    <2>3. it' \in PriceIdx \cup {End} /\ reverse' \in BOOLEAN BY DEF MapInv, TypeOK
    <2>4. it' \in Present \cup {End} \/ reverse' BY <2>2 DEF MapInv, IteratorValid
    <2>5. MapInv' BY <2>1, <2>3, <2>4, WalkKeeps
    <2> QED BY <2>1, <2>2, <2>5 DEF mapVars, Present
  <1>3. CASE ~get_bit(p)
    <2>1. /\ data' = [data EXCEPT ![p] = v] /\ set_bit(p) /\ UNCHANGED IsBid
      BY <1>3 DEF Insert
    <2>2. data' \in [PriceIdx -> Value \cup {NoLimit}] /\ Present' = Present \cup {p}
      BY <2>1 DEF MapInv, TypeOK, Present
    <2>3. Bits(bitmask', Present') BY <1>1, <2>1, <2>2, BitIsSet DEF set_bit
    <2>4. AreEdges(Present', min_price', max_price')
      <3>1. /\ min_price' = IF p < min_price THEN p ELSE min_price
            /\ max_price' = IF p > max_price THEN p ELSE max_price
        BY <2>1 DEF set_bit
      <3>2. \A q \in Present \cup {p} : q \in Nat /\ q < MAX_PRICE BY <1>1 DEF PriceIdx
      <3>3. CASE Present = {}
        <4>1. min_price' = p /\ max_price' = p BY <1>1, <3>1, <3>2, <3>3 DEF AreEdges
        <4> QED BY <2>2, <3>2, <3>3, <4>1 DEF AreEdges
      <3>4. CASE Present # {}
        <4>1. /\ min_price \in Present /\ max_price \in Present
              /\ \A q \in Present : min_price <= q /\ q <= max_price
          BY <1>1, <3>4 DEF AreEdges
        <4>2. /\ min_price' \in Present \cup {p} /\ max_price' \in Present \cup {p}
              /\ \A q \in Present \cup {p} : min_price' <= q /\ q <= max_price'
          BY <3>1, <3>2, <4>1
        <4> QED BY <2>2, <3>4, <4>2 DEF AreEdges
      <3> QED BY <3>3, <3>4
    <2>5. TypeOK'
      <3>1. min_price' \in Present' /\ max_price' \in Present' /\ Present' \in SUBSET PriceIdx
        BY <1>1, <2>2, <2>4 DEF AreEdges
      <3>2. it' \in PriceIdx \cup {End} /\ reverse' \in BOOLEAN BY DEF MapInv, TypeOK
      <3> QED BY <2>1, <2>2, <2>3, <3>1, <3>2 DEF MapInv, TypeOK, Bits, PriceIdx
    <2>6. Coherent' BY <2>3, <2>4 DEF Coherent, Bits, AreEdges
    <2>7. IteratorValid' BY <2>2 DEF MapInv, IteratorValid
    <2> QED BY <2>2, <2>5, <2>6, <2>7 DEF MapInv
  <1> QED BY <1>2, <1>3

LEMMA AssignKeeps ==
  ASSUME MapInv, NEW p \in Present, NEW v \in Value, Assign(p, v)
  PROVE  MapInv'
  <1>1. p \in PriceIdx BY DEF Present
  <1>2. data' \in [PriceIdx -> Value \cup {NoLimit}] /\ Present' = Present
    BY <1>1, FlatMapAssumption DEF MapInv, TypeOK, Present, Assign
  <1>3. TypeOK' BY <1>2 DEF MapInv, TypeOK, Assign
  <1>4. Coherent' BY <1>2 DEF MapInv, Coherent, Assign
  <1>5. IteratorValid' BY <1>2 DEF MapInv, IteratorValid, Assign
  <1> QED BY <1>3, <1>4, <1>5 DEF MapInv

LEMMA EraseKeeps == ASSUME MapInv, erase PROVE MapInv'
  <1> USE FlatMapAssumption
  <1>1. /\ Present \in SUBSET PriceIdx
        /\ Bits(bitmask, Present)
        /\ AreEdges(Present, min_price, max_price)
    BY InvFacts
  <1>2. it \in Present /\ it \in PriceIdx
    BY <1>1 DEF MapInv, IteratorValid, erase
  <1>3. /\ it' = get_next(it) /\ reverse' = FALSE /\ data' = [data EXCEPT ![it] = NoLimit]
        /\ clear_bit(it) /\ UNCHANGED IsBid
    BY DEF erase, Forward
  <1>4. data' \in [PriceIdx -> Value \cup {NoLimit}] /\ Present' = Present \ {it}
    BY <1>2, <1>3 DEF MapInv, TypeOK, Present
  <1>5. /\ bitmask' = [bitmask EXCEPT ![it \div WordBits] = @ \ {it % WordBits}]
        /\ min_price' = Edges(bitmask', it)[1]
        /\ max_price' = Edges(bitmask', it)[2]
    BY <1>3 DEF clear_bit
  <1>6. Bits(bitmask', Present') BY <1>1, <1>2, <1>4, <1>5, BitIsCleared
  <1>7. AreEdges(Present', min_price', max_price')
    BY <1>1, <1>2, <1>4, <1>5, <1>6, EdgesAfterErase
  <1>8. it' \in Present' \cup {End} BY <1>2, <1>3, <1>4, Targets
  <1>9. TypeOK'
    <2>1. Present' \in SUBSET PriceIdx BY <1>1, <1>4
    <2>2. min_price' \in 0 .. MAX_PRICE /\ max_price' \in -1 .. MAX_PRICE - 1
      <3>1. CASE Present' = {} BY <1>7, <3>1 DEF AreEdges
      <3>2. CASE Present' # {}
        <4>1. min_price' \in PriceIdx /\ max_price' \in PriceIdx BY <1>7, <2>1, <3>2 DEF AreEdges
        <4> QED BY <4>1 DEF PriceIdx
      <3> QED BY <3>1, <3>2
    <2> QED BY <1>3, <1>4, <1>6, <1>8, <2>1, <2>2 DEF MapInv, TypeOK, Bits
  <1>10. Coherent' BY <1>6, <1>7 DEF Coherent, Bits, AreEdges
  <1>11. IteratorValid' BY <1>8 DEF IteratorValid
  <1> QED BY <1>9, <1>10, <1>11 DEF MapInv

LEMMA NextKeepsMap == ASSUME MapInv, [Next]_vars PROVE MapInv'
  <1>1. CASE begin \/ advance \/ rbegin \/ radvance BY <1>1, WalksKeep
  <1>2. CASE erase BY <1>2, EraseKeeps
  <1>3. \A p \in Probe : p < MAX_PRICE => p \in PriceIdx BY FlatMapAssumption DEF PriceIdx
  <1>4. ASSUME NEW p \in Probe, find(p) \/ subscript(p) PROVE MapInv'
    <2>1. CASE find(p) BY <2>1, FindKeeps
    <2>2. CASE subscript(p) BY <1>3, <2>2, InsertKeeps, FlatMapAssumption DEF subscript
    <2> QED BY <1>4, <2>1, <2>2
  <1>5. ASSUME NEW p \in Probe, NEW v \in Value, emplace(p, v) \/ at(p, v) PROVE MapInv'
    <2>1. CASE emplace(p, v) BY <1>3, <2>1, InsertKeeps DEF emplace, Forward
    <2>2. CASE at(p, v) BY <1>3, <2>2, AssignKeeps, GetBitExact DEF at
    <2> QED BY <1>5, <2>1, <2>2
  <1>6. ASSUME NEW v \in Value, update(v) PROVE MapInv'
    BY <1>6, AssignKeeps DEF update, MapInv, IteratorValid
  <1>7. CASE UNCHANGED vars
    <2>1. UNCHANGED mapVars /\ UNCHANGED <<it, reverse>> BY <1>7 DEF vars
    <2>2. it \in PriceIdx \cup {End} /\ reverse \in BOOLEAN BY DEF MapInv, TypeOK
    <2>3. it \in Present \cup {End} \/ reverse BY DEF MapInv, IteratorValid
    <2> QED BY <2>1, <2>2, <2>3, WalkKeeps
  <1> QED BY <1>1, <1>2, <1>4, <1>5, <1>6, <1>7 DEF Next

\* Types, agreement of the three records, and validity of the iterator.
THEOREM MapInvariant == Spec => []MapInv
  BY InitMap, NextKeepsMap, PTL DEF Spec

\* Type correctness for every number of prices and word size
\* (OrderBook/flatmap.hpp).
THEOREM MapTyped == Spec => []TypeOK
  <1>1. MapInv => TypeOK BY DEF MapInv
  <1> QED BY <1>1, MapInvariant, PTL

\* Array, bits and cached edges agree after every operation, whichever words
\* and edges it touches (set_bit and clear_bit of OrderBook/flatmap.hpp).
THEOREM MapCoherent == Spec => []Coherent
  <1>1. MapInv => Coherent BY DEF MapInv
  <1> QED BY <1>1, MapInvariant, PTL

\* The word-parallel scans find the nearest price on either side
\* (scan_up and scan_down of OrderBook/flatmap.hpp).
THEOREM MapScansExact == Spec => []ScansExact
  <1>1. ASSUME MapInv PROVE ScansExact
    BY <1>1, ScansFind DEF ScansExact, NearestUp, NearestDown
  <1> QED BY <1>1, MapInvariant, PTL

-----------------------------------------------------------------------------
(* Refinement of OrderedPriceMap *)

Side == IF IsBid THEN "Buy" ELSE "Sell"

LEMMA ActiveIsPresent == Contract!Active(data) = Present
  BY DEF Contract!Active, Contract!PriceIdx, Present, PriceIdx

\* Every first price the contract allows is found: by begin and rbegin ...
LEMMA EdgesFound ==
  ASSUME MapInv
  PROVE  /\ get_first \in Contract!First(Side, Contract!Active(data))
         /\ get_last \in Contract!First(Contract!Other, Contract!Active(data))
  <1>1. AreEdges(Present, min_price, max_price) /\ Present \in SUBSET PriceIdx BY InvFacts
  <1>2. \A p \in Present : p \in Nat /\ p < MAX_PRICE BY <1>1, FlatMapAssumption DEF PriceIdx
  <1>3. \A p \in Present : p \in Contract!PriceIdx /\ p # End
    BY <1>1, <1>2 DEF Contract!PriceIdx, PriceIdx, End
  <1>4. Contract!IsFirst(Side, Present, get_first)
    BY <1>1, <1>2 DEF AreEdges, get_first, Contract!IsFirst, Contract!Before, Contract!End, Side
  <1>5. Contract!IsFirst(Contract!Other, Present, get_last)
    BY <1>1, <1>2
    DEF AreEdges, get_last, Contract!IsFirst, Contract!Before, Contract!End, Contract!Other
  <1>6. get_first \in Present \cup {End} /\ get_last \in Present \cup {End} BY Targets
  <1> QED
    BY <1>3, <1>4, <1>5, <1>6, ActiveIsPresent DEF Contract!First, Contract!End, End

\* ... and by the steps of an iteration.
LEMMA NeighboursFound ==
  ASSUME MapInv, NEW p \in PriceIdx
  PROVE  /\ get_next(p) \in Contract!First(Side, Contract!After(Side, data, p))
         /\ get_prev(p) \in Contract!First(Contract!Other, Contract!After(Contract!Other, data, p))
  <1> DEFINE up == scan_up(bitmask, p)
             down == scan_down(bitmask, p)
             Above == {q \in Present : q > p}
             Below == {q \in Present : q < p}
  <1>1. NearestUp(Present, p, up) /\ NearestDown(Present, p, down) BY ScansFind
  <1>2. \A q \in Present : q \in Int /\ q \in Contract!PriceIdx /\ q # -1
    BY DEF Present, PriceIdx, Contract!PriceIdx
  <1>3. p \in Int BY DEF PriceIdx
  <1> HIDE DEF up, down
  <1>4. \/ up = -1 /\ Above = {}
        \/ up \in Above /\ \A q \in Above : up <= q
    BY <1>1, <1>2, <1>3 DEF NearestUp
  <1>5. \/ down = -1 /\ Below = {}
        \/ down \in Below /\ \A q \in Below : down >= q
    BY <1>1, <1>2, <1>3 DEF NearestDown
  <1>6. /\ Contract!After("Sell", data, p) = Above
        /\ Contract!After("Buy", data, p) = Below
    BY <1>2, <1>3, ActiveIsPresent DEF Contract!After, Contract!Before
  <1>7. Above \subseteq Present /\ Below \subseteq Present OBVIOUS
  <1> HIDE DEF Above, Below
  <1>8. up \in Contract!First("Sell", Above)
    BY <1>2, <1>4, <1>7 DEF Contract!First, Contract!IsFirst, Contract!Before, Contract!End
  <1>9. down \in Contract!First("Buy", Below)
    BY <1>2, <1>5, <1>7 DEF Contract!First, Contract!IsFirst, Contract!Before, Contract!End
  <1> QED
    BY <1>6, <1>8, <1>9 DEF get_next, get_prev, Side, Contract!Other, up, down

LEMMA WalksMatch ==
  ASSUME MapInv
  PROVE  /\ begin => Contract!begin
         /\ advance => Contract!advance
         /\ rbegin => Contract!rbegin
         /\ radvance => Contract!radvance
  <1>1. it # End => it \in PriceIdx BY DEF MapInv, TypeOK
  <1>2. begin => Contract!begin
    BY EdgesFound DEF begin, Contract!begin, Forward, Contract!Forward, mapVars, Side
  <1>3. rbegin => Contract!rbegin
    BY EdgesFound DEF rbegin, Contract!rbegin, Backward, Contract!Backward, mapVars, Side
  <1>4. advance => Contract!advance
    BY <1>1, NeighboursFound
    DEF advance, Contract!advance, Forward, Contract!Forward, mapVars, Side, End, Contract!End
  <1>5. radvance => Contract!radvance
    BY <1>1, NeighboursFound
    DEF radvance, Contract!radvance, Backward, Contract!Backward, mapVars, Side, End, Contract!End
  <1> QED BY <1>2, <1>3, <1>4, <1>5

LEMMA FindMatches == ASSUME MapInv, NEW p \in Probe, find(p) PROVE Contract!find(p)
  <1>1. p \in Nat BY FlatMapAssumption
  <1>2. p < MAX_PRICE <=> p \in PriceIdx BY <1>1, FlatMapAssumption DEF PriceIdx
  <1>3. p < MAX_PRICE /\ get_bit(p) <=> p \in Present BY <1>2, GetBitExact DEF Present
  <1>4. Present \cap {p} = IF p \in Present THEN {p} ELSE {} OBVIOUS
  <1>5. (IF p \in Present THEN p ELSE End) \in Contract!First(Side, Present \cap {p})
    <2>1. CASE p \in Present
      <3>1. p \in Contract!PriceIdx BY <2>1 DEF Present, PriceIdx, Contract!PriceIdx
      <3> QED BY <1>4, <2>1, <3>1 DEF Contract!First, Contract!IsFirst
    <2>2. CASE p \notin Present
      BY <1>4, <2>2 DEF Contract!First, Contract!IsFirst, End, Contract!End
    <2> QED BY <2>1, <2>2
  <1>6. it' = (IF p \in Present THEN p ELSE End) /\ reverse' = FALSE /\ UNCHANGED mapVars
    BY <1>3 DEF find, Forward
  <1> QED
    BY <1>5, <1>6, ActiveIsPresent DEF Contract!find, Contract!Forward, mapVars, Side

LEMMA InsertMatches ==
  ASSUME MapInv, NEW p \in PriceIdx, NEW v \in Value, Insert(p, v)
  PROVE  data' = Contract!Inserted(p, v) /\ UNCHANGED IsBid
  BY GetBitExact, ActiveIsPresent DEF Insert, Contract!Inserted

LEMMA EmplaceMatches ==
  ASSUME MapInv, NEW p \in Probe, NEW v \in Value, emplace(p, v)
  PROVE  Contract!emplace(p, v) /\ p \in Contract!PriceIdx
  <1>1. p \in PriceIdx /\ p \in Contract!PriceIdx
    BY FlatMapAssumption DEF emplace, PriceIdx, Contract!PriceIdx
  <1>2. data' = Contract!Inserted(p, v) /\ UNCHANGED IsBid
    BY <1>1, InsertMatches DEF emplace
  <1>3. p \in Contract!First(Side, {p}) BY <1>1 DEF Contract!First, Contract!IsFirst
  <1> QED
    BY <1>1, <1>2, <1>3 DEF emplace, Forward, Contract!emplace, Contract!Forward, Side

LEMMA SubscriptMatches ==
  ASSUME MapInv, NEW p \in Probe, subscript(p)
  PROVE  Contract!subscript(p) /\ p \in Contract!PriceIdx
  <1>1. p \in PriceIdx /\ p \in Contract!PriceIdx
    BY FlatMapAssumption DEF subscript, PriceIdx, Contract!PriceIdx
  <1>2. data' = Contract!Inserted(p, Default) /\ UNCHANGED IsBid
    BY <1>1, InsertMatches, FlatMapAssumption DEF subscript
  <1> QED BY <1>1, <1>2 DEF subscript, Contract!subscript

LEMMA AssignsMatch ==
  ASSUME MapInv, NEW v \in Value
  PROVE  /\ update(v) => Contract!update(v)
         /\ \A p \in Probe : at(p, v) => Contract!at(p, v) /\ p \in Contract!PriceIdx
  <1>1. \A p : Assign(p, v) => Contract!Assign(p, v) BY DEF Assign, Contract!Assign
  <1>2. update(v) => Contract!update(v)
    BY <1>1 DEF update, Contract!update, End, Contract!End
  <1>3. ASSUME NEW p \in Probe, at(p, v) PROVE Contract!at(p, v) /\ p \in Contract!PriceIdx
    <2>1. p \in PriceIdx /\ p \in Contract!PriceIdx
      BY <1>3, FlatMapAssumption DEF at, PriceIdx, Contract!PriceIdx
    <2>2. p \in Present BY <1>3, <2>1, GetBitExact DEF at
    <2> QED BY <1>1, <1>3, <2>1, <2>2, ActiveIsPresent DEF at, Contract!at
  <1> QED BY <1>2, <1>3

LEMMA EraseMatches == ASSUME MapInv, erase PROVE Contract!erase
  <1>1. it \in PriceIdx BY DEF MapInv, TypeOK, erase
  <1> QED
    BY <1>1, NeighboursFound
    DEF erase, Contract!erase, Forward, Contract!Forward, Side, End, Contract!End

LEMMA MapOperationsMatch == ASSUME MapInv PROVE SameOperation
  BY WalksMatch, FindMatches, SubscriptMatches, EmplaceMatches, AssignsMatch, EraseMatches
  DEF SameOperation

LEMMA MapInitMatches == ASSUME Init PROVE Contract!Init
  BY DEF Init, Contract!Init, PriceIdx, Contract!PriceIdx, End, Contract!End

LEMMA MapStepMatches == ASSUME MapInv, [Next]_vars PROVE [Contract!Next]_(Contract!vars)
  <1>1. CASE begin \/ advance \/ rbegin \/ radvance BY <1>1, WalksMatch DEF Contract!Next
  <1>2. CASE erase BY <1>2, EraseMatches DEF Contract!Next
  <1>3. ASSUME NEW p \in Probe, find(p) PROVE Contract!Next
    <2>1. Contract!find(p) BY <1>3, FindMatches
    <2>2. CASE p \in Contract!PriceIdx \cup {MAX_PRICE} BY <2>1, <2>2 DEF Contract!Next
    <2>3. CASE p \notin Contract!PriceIdx \cup {MAX_PRICE}
      <3>1. Contract!Active(data) \cap {p} = {} BY <2>3 DEF Contract!Active
      <3>2. Contract!Active(data) \cap {MAX_PRICE} = {}
        BY FlatMapAssumption DEF Contract!Active, Contract!PriceIdx
      <3>3. Contract!find(MAX_PRICE) BY <2>1, <3>1, <3>2 DEF Contract!find
      <3> QED BY <3>3 DEF Contract!Next
    <2> QED BY <2>2, <2>3
  <1>4. ASSUME NEW p \in Probe, subscript(p) PROVE Contract!Next
    BY <1>4, SubscriptMatches DEF Contract!Next
  <1>5. ASSUME NEW p \in Probe, NEW v \in Value, emplace(p, v) \/ at(p, v) PROVE Contract!Next
    BY <1>5, EmplaceMatches, AssignsMatch DEF Contract!Next
  <1>6. ASSUME NEW v \in Value, update(v) PROVE Contract!Next
    BY <1>6, AssignsMatch DEF Contract!Next
  <1>7. CASE UNCHANGED vars BY <1>7 DEF vars, mapVars, Contract!vars
  <1> QED BY <1>1, <1>2, <1>3, <1>4, <1>5, <1>6, <1>7 DEF Next

\* The flat array with its bit words implements the ordered map, operation by
\* operation, for every number of prices and word size
\* (OrderBook/flatmap.hpp).
THEOREM MapRefinement == Spec => ImplementsPriceMap
  <1>1. Init => Contract!Init BY MapInitMatches
  <1>2. MapInv /\ [Next]_vars => [Contract!Next]_(Contract!vars) BY MapStepMatches
  <1>3. MapInv /\ [Next]_vars => [SameOperation]_vars BY MapOperationsMatch
  <1> QED
    BY <1>1, <1>2, <1>3, MapInvariant, PTL DEF Spec, ImplementsPriceMap, Contract!Spec
=============================================================================
