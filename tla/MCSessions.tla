------------------------------ MODULE MCSessions ------------------------------
(* Sessions for TLC: turns and papers are model values. *)
EXTENDS Sessions, TLC

Symmetry == Permutations(Turns) \union Permutations(Papers)
=============================================================================
