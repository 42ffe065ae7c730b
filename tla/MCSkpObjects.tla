---------------------------- MODULE MCSkpObjects ----------------------------
(* Values for checking SkpObjects on small heaps.                          *)
EXTENDS SkpObjects, TLC

Symmetry == Permutations(Objects) \cup Permutations(Handles) \cup Permutations(Keys)
=============================================================================
