------------------------------ MODULE MCMerger ------------------------------
(* Model-checking instance of Merger: symmetric descriptors and paths.      *)
EXTENDS Merger, TLC

Symmetry == Permutations(Paths) \cup Permutations(Descriptors)

=============================================================================
