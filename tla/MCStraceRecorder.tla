-------------------------- MODULE MCStraceRecorder --------------------------
(* Model-checking instance of StraceRecorder.                               *)
EXTENDS StraceRecorder, TLC

Symmetry == Permutations(Pids \ {Root})

=============================================================================
