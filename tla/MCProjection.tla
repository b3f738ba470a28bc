---------------------------- MODULE MCProjection ----------------------------
(* Instances of Projection for TLC. *)
EXTENDS Projection, TLC

Symmetry == Permutations(Allocs)
=============================================================================
