-------------------------- MODULE OrderedPriceMap --------------------------
(***************************************************************************)
(* The price map as an abstract machine: a map, and the iterator through   *)
(* which its owner walks, updates and erases; a reverse iterator only      *)
(* walks.                                                                  *)
(***************************************************************************)
EXTENDS PriceMap

CONSTANTS Value, Default

VARIABLES side, map, it, reverse

vars == <<side, map, it, reverse>>

Init ==
  /\ side \in {"Buy", "Sell"}
  /\ map = [p \in PriceIdx |-> NoLimit]
  /\ it = End /\ reverse = FALSE

\* The side whose order is that of an iteration from the worst price to the best.
Other == IF side = "Buy" THEN "Sell" ELSE "Buy"

Forward(S) == it' \in First(side, S) /\ reverse' = FALSE
Backward(S) == it' \in First(Other, S) /\ reverse' = TRUE

begin == Forward(Active(map)) /\ UNCHANGED <<side, map>>

advance ==
  /\ ~reverse /\ it # End
  /\ Forward(After(side, map, it))
  /\ UNCHANGED <<side, map>>

rbegin == Backward(Active(map)) /\ UNCHANGED <<side, map>>

radvance ==
  /\ reverse /\ it # End
  /\ Backward(After(Other, map, it))
  /\ UNCHANGED <<side, map>>

find(p) == Forward(Active(map) \cap {p}) /\ UNCHANGED <<side, map>>

\* A price already in the map keeps its value.
Inserted(p, v) == IF p \in Active(map) THEN map ELSE [map EXCEPT ![p] = v]

emplace(p, v) == map' = Inserted(p, v) /\ Forward({p}) /\ UNCHANGED side

subscript(p) == map' = Inserted(p, Default) /\ UNCHANGED <<side, it, reverse>>

Assign(p, v) == map' = [map EXCEPT ![p] = v] /\ UNCHANGED <<side, it, reverse>>

update(v) == ~reverse /\ it # End /\ Assign(it, v)

at(p, v) == p \in Active(map) /\ Assign(p, v)

erase ==
  /\ ~reverse /\ it # End
  /\ map' = [map EXCEPT ![it] = NoLimit]
  /\ Forward(After(side, map, it))
  /\ UNCHANGED side

Next ==
  \/ begin \/ advance \/ erase
  \/ rbegin \/ radvance
  \/ \E p \in PriceIdx \cup {MAX_PRICE} : find(p)
  \/ \E p \in PriceIdx : subscript(p)
  \/ \E p \in PriceIdx, v \in Value : emplace(p, v) \/ at(p, v)
  \/ \E v \in Value : update(v)

Spec == Init /\ [][Next]_vars
=============================================================================
