--------------------------- MODULE MCObjectTree ---------------------------
(* ObjectTree on a few rows; namespaces and words are alike. *)
EXTENDS ObjectTree

Symmetry == Permutations(Spaces) \cup Permutations(Words)
===========================================================================
