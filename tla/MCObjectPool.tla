---------------------------- MODULE MCObjectPool ----------------------------
(***************************************************************************)
(* Instance of ObjectPool for TLC.                                         *)
(***************************************************************************)
EXTENDS ObjectPool

CONSTANTS o1, o2
=============================================================================
