---------------------------- MODULE MCIPFragments ----------------------------
(* Identifications are interchangeable. *)
EXTENDS IPFragments, TLC
Symmetry == Permutations(Ids)
=============================================================================
