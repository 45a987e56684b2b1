------------------------------ MODULE PriceMap ------------------------------
(***************************************************************************)
(* The contract between Book and its two price maps: a partial map from    *)
(* prices to levels, iterated from the best price of its side to the       *)
(* worst.  Book is written against these operators; FlatMap is shown to    *)
(* implement them.                                                         *)
(***************************************************************************)
EXTENDS Integers

CONSTANTS
  MAX_PRICE,  \* prices a map can hold are 0 .. MAX_PRICE - 1
  NoLimit     \* std::nullopt: no level at this price

PriceIdx == 0 .. MAX_PRICE - 1
End == -1     \* end()

\* The prices in the map m.
Active(m) == {p \in PriceIdx : m[p] # NoLimit}

\* p comes before q when the map of this side is iterated.
Before(side, p, q) == IF side = "Buy" THEN p > q ELSE p < q

\* it is where an iteration over the prices S starts, End if there are none.
IsFirst(side, S, it) ==
  \/ S = {} /\ it = End
  \/ it \in S /\ \A q \in S \ {it} : Before(side, it, q)

First(side, S) == {it \in PriceIdx \cup {End} : IsFirst(side, S, it)}

\* Mutant: the scan starts at p itself.
AfterInclusive(side, m, p) == {q \in Active(m) : ~Before(side, q, p)}

\* The prices that follow p: ++ and erase go to the first of these.
After(side, m, p) == {q \in Active(m) : Before(side, p, q)}
=============================================================================
