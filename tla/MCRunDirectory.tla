---------------------------- MODULE MCRunDirectory ----------------------------
(* The builders are interchangeable: no property tells one from another.    *)
EXTENDS RunDirectory, TLC

Symmetry == Permutations(Builders)
=============================================================================
