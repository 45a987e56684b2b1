------------------------------ MODULE FlatMap ------------------------------
(***************************************************************************)
(* OrderBook/flatmap.hpp: a map from prices to levels in a flat array,     *)
(* with one bit per price, packed into words, and the smallest and largest *)
(* price in the map cached.  A word is the set of its bits that are 1.     *)
(***************************************************************************)
EXTENDS Integers

CONSTANTS
  MAX_PRICE,   \* 200000
  WordBits,    \* 64
  Value,       \* values of T
  Default,     \* T{}
  NoLimit,     \* std::nullopt
  Probe        \* prices callers look up, some beyond MAX_PRICE

ASSUME FlatMapAssumption ==
  /\ MAX_PRICE \in Nat \ {0}
  /\ WordBits \in Nat \ {0}
  /\ Default \in Value /\ NoLimit \notin Value
  /\ Probe \subseteq Nat

VARIABLES
  IsBid,                 \* template argument: iterate from the highest price
  data,                  \* the array
  bitmask,               \* word index -> bits set in that word
  min_price, max_price,  \* cached edges; MAX_PRICE and -1 when empty
  it, reverse            \* the price in the owner's iterator, and its kind

mapVars == <<IsBid, data, bitmask, min_price, max_price>>
vars == <<mapVars, it, reverse>>

WORDS == MAX_PRICE \div WordBits + 1
PriceIdx == 0 .. MAX_PRICE - 1
End == -1

-----------------------------------------------------------------------------
\* __builtin_ctzll and 63 - __builtin_clzll of a word that is not 0.
Lowest(word) == CHOOSE b \in word : \A c \in word : b <= c
Highest(word) == CHOOSE b \in word : \A c \in word : b >= c

get_bit(p) == p % WordBits \in bitmask[p \div WordBits]

\* The first bit set at or after start, looked for in the words B.
UpFrom(B, start) ==
  LET w     == start \div WordBits
      mask  == {b \in B[w] : b >= start % WordBits}
      words == {i \in w + 1 .. WORDS - 1 : B[i] # {}}
  IN  CASE mask # {} -> w * WordBits + Lowest(mask)
        [] mask = {} /\ words # {} ->
             Lowest(words) * WordBits + Lowest(B[Lowest(words)])
        [] OTHER -> -1

DownFrom(B, start) ==
  LET w     == start \div WordBits
      mask  == {b \in B[w] : b <= start % WordBits}
      words == {i \in 0 .. w - 1 : B[i] # {}}
  IN  CASE mask # {} -> w * WordBits + Highest(mask)
        [] mask = {} /\ words # {} ->
             Highest(words) * WordBits + Highest(B[Highest(words)])
        [] OTHER -> -1

\* Mutant: the bits of the other words are searched, the mask is forgotten.
scan_upNextWord(B, p) ==
  LET words == {i \in (p + 1) \div WordBits + 1 .. WORDS - 1 : B[i] # {}}
  IN  IF words = {} THEN -1 ELSE Lowest(words) * WordBits + Lowest(B[Lowest(words)])

scan_up(B, p) == IF p + 1 >= MAX_PRICE THEN -1 ELSE UpFrom(B, p + 1)
scan_down(B, p) == IF p - 1 < 0 THEN -1 ELSE DownFrom(B, p - 1)

get_next(p) == IF IsBid THEN scan_down(bitmask, p) ELSE scan_up(bitmask, p)
get_prev(p) == IF IsBid THEN scan_up(bitmask, p) ELSE scan_down(bitmask, p)

\* Mutant: both sides are iterated from the lowest price.
get_firstLowest == IF max_price = -1 THEN -1 ELSE min_price

get_first == IF max_price = -1 THEN -1 ELSE IF IsBid THEN max_price ELSE min_price
get_last == IF max_price = -1 THEN -1 ELSE IF IsBid THEN min_price ELSE max_price

-----------------------------------------------------------------------------
set_bit(p) ==
  /\ bitmask' = [bitmask EXCEPT ![p \div WordBits] = @ \cup {p % WordBits}]
  /\ min_price' = IF p < min_price THEN p ELSE min_price
  /\ max_price' = IF p > max_price THEN p ELSE max_price

\* Mutant: erasing the lowest price leaves the cached minimum in place.
EdgesStaleMin(B, p) ==
  <<min_price, IF p = max_price THEN scan_down(B, p) ELSE max_price>>

\* Mutant: an emptied map does not restore the edges of an empty map.
EdgesNotReset(B, p) ==
  <<IF p = min_price THEN scan_up(B, p) ELSE min_price,
    IF p = max_price THEN scan_down(B, p) ELSE max_price>>

\* The edges the map is left with when the bits are B and p was erased.
Edges(B, p) ==
  LET lo == IF p = min_price THEN scan_up(B, p) ELSE min_price
      hi == IF p = max_price THEN scan_down(B, p) ELSE max_price
  IN  IF lo = -1 THEN <<MAX_PRICE, -1>> ELSE <<lo, hi>>

clear_bit(p) ==
  LET B == [bitmask EXCEPT ![p \div WordBits] = @ \ {p % WordBits}]
  IN  /\ bitmask' = B
      /\ min_price' = Edges(B, p)[1]
      /\ max_price' = Edges(B, p)[2]

-----------------------------------------------------------------------------
Init ==
  /\ IsBid \in BOOLEAN
  /\ data = [p \in PriceIdx |-> NoLimit]
  /\ bitmask = [w \in 0 .. WORDS - 1 |-> {}]
  /\ min_price = MAX_PRICE
  /\ max_price = -1
  /\ it = End /\ reverse = FALSE

\* The iterator becomes a forward one, or a reverse one, at p.
Forward(p) == it' = p /\ reverse' = FALSE
Backward(p) == it' = p /\ reverse' = TRUE

begin == Forward(get_first) /\ UNCHANGED mapVars

\* ++it
advance ==
  /\ ~reverse /\ it # End
  /\ Forward(get_next(it))
  /\ UNCHANGED mapVars

\* The asks are printed with a reverse iterator.
rbegin == Backward(get_last) /\ UNCHANGED mapVars

radvance ==
  /\ reverse /\ it # End
  /\ Backward(get_prev(it))
  /\ UNCHANGED mapVars

find(p) ==
  /\ Forward(IF p < MAX_PRICE /\ get_bit(p) THEN p ELSE End)
  /\ UNCHANGED mapVars

\* A price already in the map keeps its value.
Insert(p, v) ==
  /\ IF get_bit(p) THEN UNCHANGED <<data, bitmask, min_price, max_price>>
     ELSE data' = [data EXCEPT ![p] = v] /\ set_bit(p)
  /\ UNCHANGED IsBid

\* Beyond MAX_PRICE emplace throws before it changes anything.
emplace(p, v) ==
  /\ p < MAX_PRICE
  /\ Insert(p, v)
  /\ Forward(p)

\* map[p]
subscript(p) ==
  /\ p < MAX_PRICE
  /\ Insert(p, Default)
  /\ UNCHANGED <<it, reverse>>

\* The level at a price becomes v: it->second, or at(p), which throws if there
\* is none.
Assign(p, v) ==
  /\ data' = [data EXCEPT ![p] = v]
  /\ UNCHANGED <<IsBid, bitmask, min_price, max_price, it, reverse>>

update(v) == ~reverse /\ it # End /\ Assign(it, v)

at(p, v) == p < MAX_PRICE /\ get_bit(p) /\ Assign(p, v)

\* it = map.erase(it)
erase ==
  /\ ~reverse /\ it # End
  /\ Forward(get_next(it))
  /\ data' = [data EXCEPT ![it] = NoLimit]
  /\ clear_bit(it)
  /\ UNCHANGED IsBid

Next ==
  \/ begin \/ advance \/ erase
  \/ rbegin \/ radvance
  \/ \E p \in Probe : find(p) \/ subscript(p)
  \/ \E p \in Probe, v \in Value : emplace(p, v) \/ at(p, v)
  \/ \E v \in Value : update(v)

Spec == Init /\ [][Next]_vars

-----------------------------------------------------------------------------
\* Words hold only bits they have; the cached edges keep their -1 and
\* MAX_PRICE conventions.
TypeOK ==
  /\ IsBid \in BOOLEAN
  /\ data \in [PriceIdx -> Value \cup {NoLimit}]
  /\ bitmask \in [0 .. WORDS - 1 -> SUBSET (0 .. WordBits - 1)]
  /\ min_price \in 0 .. MAX_PRICE
  /\ max_price \in -1 .. MAX_PRICE - 1
  /\ it \in PriceIdx \cup {End}
  /\ reverse \in BOOLEAN

Present == {p \in PriceIdx : data[p] # NoLimit}

\* Three records of what is in the map stay equal: the array, the bits (with
\* none set in the unused tail of the last word), and the cached edges.
Coherent ==
  /\ \A w \in 0 .. WORDS - 1, b \in 0 .. WordBits - 1 :
       b \in bitmask[w] <=> w * WordBits + b \in Present
  /\ IF Present = {} THEN min_price = MAX_PRICE /\ max_price = -1
     ELSE /\ min_price \in Present /\ max_price \in Present
          /\ \A p \in Present : min_price <= p /\ p <= max_price

\* The word-parallel scans find the nearest neighbour in the map on either
\* side of every price, across word boundaries and at both ends.
ScansExact ==
  \A p \in PriceIdx :
    /\ LET up == scan_up(bitmask, p)
       IN  IF up = -1 THEN \A q \in Present : q <= p
           ELSE up \in Present /\ up > p /\ \A q \in Present : q <= p \/ q >= up
    /\ LET down == scan_down(bitmask, p)
       IN  IF down = -1 THEN \A q \in Present : q >= p
           ELSE down \in Present /\ down < p /\ \A q \in Present : q >= p \/ q <= down

Contract == INSTANCE OrderedPriceMap
  WITH side <- IF IsBid THEN "Buy" ELSE "Sell", map <- data

\* Each operation has the effect of the operation of the same name.
SameOperation ==
  /\ begin => Contract!begin
  /\ advance => Contract!advance
  /\ erase => Contract!erase
  /\ rbegin => Contract!rbegin
  /\ radvance => Contract!radvance
  /\ \A p \in Probe : (find(p) => Contract!find(p)) /\ (subscript(p) => Contract!subscript(p))
  /\ \A p \in Probe, v \in Value :
       (emplace(p, v) => Contract!emplace(p, v)) /\ (at(p, v) => Contract!at(p, v))
  /\ \A v \in Value : update(v) => Contract!update(v)

\* Bits, words and cached edges together behave as the ordered map Book is
\* written against: begin, ++, find, emplace and erase return the iterators
\* the contract says, erase also when it removes an edge of the book; the
\* reverse iterator runs from the worst price to the best.
ImplementsPriceMap == Contract!Spec /\ [][SameOperation]_vars
=============================================================================
