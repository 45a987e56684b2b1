---------------------------- MODULE MCExchange -----------------------------
(***************************************************************************)
(* Instances of Exchange for TLC.                                          *)
(***************************************************************************)
EXTENDS ExchangeProperties

\* A bid and an ask that trade with each other, an ask at price 0 that uses
\* the bid's id again, and one beyond the price map.
FourOrders ==
  {[id |-> 1, side |-> 0, shares |-> 2, price |-> 2],
   [id |-> 2, side |-> 1, shares |-> 1, price |-> 2],
   [id |-> 1, side |-> 2, shares |-> 1, price |-> 0],
   [id |-> 3, side |-> 1, shares |-> 1, price |-> MAX_PRICE]}

TwoGarbled ==
  {[id |-> 2, side |-> 1, shares |-> 1, price |-> 1],
   [id |-> 9, side |-> 0, shares |-> 1, price |-> MAX_PRICE + 1]}

NoFaults == {{}}

SomeFaults ==
  {{}, {"split"}, {"boot"}, {"accept"}, {"reset"}, {"loss"}, {"loss", "dup"}}
=============================================================================
