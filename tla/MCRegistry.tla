----------------------------- MODULE MCRegistry -----------------------------
(* Model-checking instance of Registry: two complete recordings, one whose  *)
(* last session_end is PARTIAL and one without a session_end.               *)
EXTENDS Registry, TLC

CONSTANTS full1, full2, partial, endless

MCEnds == (full1 :> <<"complete">>) @@ (full2 :> <<"complete">>)
            @@ (partial :> <<"complete", "partial">>) @@ (endless :> <<>>)

Symmetry == Permutations(Users) \cup Permutations(Labels)
              \cup Permutations({full1, full2})

=============================================================================
