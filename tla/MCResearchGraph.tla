--------------------------- MODULE MCResearchGraph ---------------------------
(* ResearchGraph for TLC: search branches and chapters are model values. *)
EXTENDS ResearchGraph, TLC

Symmetry == Permutations(Searches) \union Permutations(Chapters)
=============================================================================
