----------------------------- MODULE MCFlatMap -----------------------------
(***************************************************************************)
(* Instance of FlatMap for TLC: three words of two bits in use, so that a  *)
(* scan can stay in its word, go to the next one, or skip one, and, as     *)
(* with 200000 prices and 64 bits, a last word that is never used.         *)
(***************************************************************************)
EXTENDS FlatMap

CONSTANTS v1, v2

ProbeUpToLimit == 0 .. MAX_PRICE + 1
=============================================================================
