-------------------------- MODULE MCBookRefinement --------------------------
(***************************************************************************)
(* Instance of BookRefinement for TLC.                                     *)
(***************************************************************************)
EXTENDS BookRefinement, TLC

CONSTANTS i1, i2, i3, i4
FourIds == {i1, i2, i3, i4}
IdSymmetry == Permutations(Id)
=============================================================================
