---------------------------- MODULE MCRingBuffer ----------------------------
(***************************************************************************)
(* Instance of SPSCRingBuffer for TLC.  The bitwise form of the index      *)
(* arithmetic is compared with the one of the model here.                  *)
(***************************************************************************)
EXTENDS SPSCRingBuffer, Bitwise

\* (i + 1) & (Capacity - 1), as the code has it, is what next(i) computes.
ASSUME BitwiseModulo ==
  \A i \in Index : (i + 1) & (Capacity - 1) = (i + 1) % Capacity
=============================================================================
