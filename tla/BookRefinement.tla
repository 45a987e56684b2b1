--------------------------- MODULE BookRefinement ---------------------------
(***************************************************************************)
(* Book implements PriceTimeBook: although a call runs through many steps, *)
(* seen from outside it is one atomic step of the abstract book, taken     *)
(* when the call returns (or throws).  While a call runs the abstract book *)
(* is the one the call found, remembered in the history variable entry;    *)
(* asked is the number of shares the call came with.                       *)
(***************************************************************************)
EXTENDS Book, Functions

VARIABLES entry, asked

varsR == <<vars, entry, asked>>

\* The abstract book of this pool: the orders the id map leads to.
Resting ==
  [id \in {id \in Id : orderMap[id] # Nil} |->
     LET o == pool[orderMap[id]]
     IN  [side |-> o.side, price |-> o.price, shares |-> o.shares,
          ahead |-> {pool[j].id : j \in ahead[orderMap[id]]}]]

InitR == Init /\ entry = Resting /\ asked = 0

\* entry follows the book except during a call.
Remember ==
  /\ entry' = IF pc' \in {"level", "order"} THEN entry ELSE Resting'
  /\ asked' = IF pc' \notin {"level", "order"} THEN 0
              ELSE IF pc = "idle" THEN remainingShares' ELSE asked

NextR == Next /\ Remember

SpecR == InitR /\ [][NextR]_varsR

Abstract == INSTANCE PriceTimeBook WITH book <- entry, down <- (pc = "threw")

\* The step with which a call that ran through the loops ends, or throws.
Answer ==
  CASE call.op = "add"    -> Abstract!AddLimitOrder(call.id, call.side, asked, call.price)
    [] call.op = "modify" -> Abstract!ModifyLimitOrder(call.id, asked, call.price)
    [] call.op = "market" -> Abstract!MarketOrder(call.side, asked)

\* Each call has the effect of the abstract call with the same arguments.
SameCall ==
  /\ pc \in {"level", "order"} /\ pc' \in {"idle", "threw"} => Answer
  /\ \A id \in Id : CancelLimitOrder(id) => Abstract!CancelLimitOrder(id)
  /\ \A id \in Id, S \in Quantity, limit \in Price :
       ModifyToZero(id, S) \/ ModifyInPlace(id, S, limit)
         => Abstract!ModifyLimitOrder(id, S, limit)
  /\ Reset => Abstract!Reset

\* Every call of book.cpp, with its loops, lists and slot recycling, has
\* exactly the effect of one atomic price-time priority match.
ImplementsPriceTimeBook == Abstract!Spec /\ [][SameCall]_varsR

-----------------------------------------------------------------------------
\* In these B is the book a call trades with, A the orders of it against which
\* the call may trade, R what rests now, S the shares the call came with.

Entry == [side : Side, price : Nat, shares : Nat \ {0}, ahead : SUBSET Id]

\* Of any two orders of one side, one goes first.
WellRanked(B) ==
  /\ IsFiniteSet(DOMAIN B)
  /\ DOMAIN B \subseteq Id
  /\ B \in [DOMAIN B -> Entry]
  /\ \A i \in DOMAIN B : B[i].ahead \subseteq DOMAIN B \ {i}
  /\ \A i, j \in DOMAIN B : B[i].side = B[j].side =>
       i = j \/ Abstract!Outranks(B, i, j) \/ Abstract!Outranks(B, j, i)

\* The shares that orders of B have given up.
Taken(B, R) ==
  [i \in DOMAIN B |-> B[i].shares - (IF i \in DOMAIN R THEN R[i].shares ELSE 0)]

\* What rests is B less the shares taken from A by priority: before an order
\* gives up its first share, all that outrank it have given up their last, and
\* what is left of S was taken from nobody.
MatchedSoFar(B, A, R, remaining, S) ==
  /\ DOMAIN R \subseteq DOMAIN B
  /\ R = [i \in DOMAIN R |-> [B[i] EXCEPT !.shares = R[i].shares, !.ahead = @ \cap DOMAIN R]]
  /\ \A i \in DOMAIN R : R[i].shares \in 1 .. B[i].shares
  /\ \A i \in DOMAIN B : Taken(B, R)[i] > 0 =>
       i \in A /\ \A j \in A : Abstract!Outranks(B, j, i) => j \notin DOMAIN R
  /\ \A i \in DOMAIN R : Taken(B, R)[i] > 0 => remaining = 0
  /\ S = remaining + SumFunctionOnSet(Taken(B, R), A)

\* The book with which the call in progress trades, and whom it trades with.
Found == IF call.op = "modify" THEN Abstract!Without(entry, call.id) ELSE entry
Wanted == {i \in DOMAIN Found : Found[i].side = RestingSide /\ Crosses(Found[i].price)}

\* The call is still the one that was made: an add under a new id, or a modify
\* that the order's place does not survive.
CallStands ==
  /\ call.op # "none"
  /\ asked \in Quantity
  /\ call.op # "market" => call.price \in Price
  /\ call.op = "add" => call.id \notin DOMAIN entry
  /\ call.op = "modify" =>
       /\ call.id \in DOMAIN entry
       /\ entry[call.id].side = call.side
       /\ asked # 0
       /\ ~(call.price = entry[call.id].price /\ asked < entry[call.id].shares)

\* In the middle of a call the book is the one the call found, less what the
\* orders it accepts have given up to it, best price and oldest first; between
\* calls, and after an exception, nothing is pending.
MidCallInv ==
  /\ WellRanked(entry)
  /\ pc \in {"idle", "threw"} => entry = Resting /\ asked = 0
  /\ pc \in {"level", "order"} =>
       CallStands /\ MatchedSoFar(Found, Wanted, Resting, remainingShares, asked)
=============================================================================
