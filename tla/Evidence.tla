------------------------------ MODULE Evidence ------------------------------
(***************************************************************************)
(* What a recording promises whoever reads its stream, whichever backend   *)
(* wrote it: the abstract specification of recorder/src/session.rs.        *)
(*                                                                         *)
(* A recorder observes events, keeps some of them on the medium, and at    *)
(* the end declares the recording whole or partial.  A reader of the       *)
(* medium sees a verdict.  The promise is that "complete" is only ever     *)
(* seen when the recorder declared it and everything it observed is there, *)
(* and that a reader who was once told "partial" is never told "complete". *)
(***************************************************************************)
EXTENDS Naturals

VARIABLES
    observed,   \* events the recorder was handed
    kept,       \* how many of them, from the first on, the medium holds
    declared,   \* what the recorder declared at the end
    verdict     \* what a reader of the medium concludes

evidence == <<observed, kept, declared, verdict>>

Verdicts == {"unreadable", "partial", "complete"}

Init == /\ observed = 0
        /\ kept = 0
        /\ declared = "none"
        /\ verdict = "unreadable"

\* Buffered evidence may reach the medium at any step, and never leaves it.
Keep == kept' \in kept..observed'

Observe == /\ declared = "none"
           /\ observed' = observed + 1
           /\ Keep
           /\ UNCHANGED <<declared, verdict>>

Declare == /\ declared = "none"
           /\ declared' \in {"complete", "partial"}
           /\ UNCHANGED observed
           /\ Keep
           /\ UNCHANGED verdict

\* Something reached the medium, and a reader may now conclude otherwise.
Reveal == /\ UNCHANGED <<observed, declared>>
          /\ Keep
          /\ verdict' \in Verdicts
          /\ verdict' = "complete" =>
                /\ declared = "complete"
                /\ kept' = observed
                /\ verdict # "partial"
          /\ verdict' = "partial" => declared # "none"

Next == Observe \/ Declare \/ Reveal

Spec == Init /\ [][Next]_evidence

=============================================================================
