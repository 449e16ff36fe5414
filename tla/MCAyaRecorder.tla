---------------------------- MODULE MCAyaRecorder ----------------------------
(* Model-checking instance of AyaRecorder.                                  *)
EXTENDS AyaRecorder, TLC

Symmetry == Permutations(Pids \ {Root}) \cup Permutations(Cpus)

=============================================================================
