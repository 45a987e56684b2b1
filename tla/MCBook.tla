------------------------------- MODULE MCBook -------------------------------
(***************************************************************************)
(* Instances of Book for TLC.  Ids are interchangeable.                    *)
(***************************************************************************)
EXTENDS BookProperties, TLC

CONSTANTS i1, i2, i3, i4

FourIds == {i1, i2, i3, i4}
ThreeIds == {i1, i2, i3}
IdSymmetry == Permutations(Id)
=============================================================================
