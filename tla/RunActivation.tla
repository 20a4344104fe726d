--------------------------- MODULE RunActivation ---------------------------
(***************************************************************************)
(* What one activation of the director promises to whoever started it,     *)
(* without saying how it works: it starts once, ends once, in one of three *)
(* ways or lost with the process; it ends "cancelled" only if it was told  *)
(* to; and once told it starts at most one more agent.  DirectorRun        *)
(* implements this for each of its activations, however requests, other    *)
(* activations and stops of the server interleave.                         *)
(***************************************************************************)
EXTENDS Naturals

VARIABLES
    phase,   \* "off", "running", "ended"
    told,    \* has it been told to cancel, or the process to stop?
    result,  \* "none" until it ends, then an outcome; lost if it stays "none"
    late     \* agents started after it was told

vars == <<phase, told, result, late>>

Init ==
    /\ phase = "off"
    /\ told = FALSE
    /\ result = "none"
    /\ late = 0

Start ==
    /\ phase = "off"
    /\ phase' = "running"
    /\ told' = FALSE
    /\ UNCHANGED <<result, late>>

\* What tells it is no business of the activation.
Tell ==
    /\ phase = "running"
    /\ told' = TRUE
    /\ UNCHANGED <<phase, result, late>>

LateAgent ==
    /\ phase = "running"
    /\ told /\ late = 0
    /\ late' = 1
    /\ UNCHANGED <<phase, told, result>>

End(outcome) ==
    /\ phase = "running"
    /\ outcome = "cancelled" => told \/ told'
    /\ phase' = "ended"
    /\ result' = outcome
    /\ told' \in {told, TRUE}
    /\ UNCHANGED late

\* The process died with it.
Lost ==
    /\ phase = "running"
    /\ phase' = "ended"
    /\ UNCHANGED <<told, result, late>>

\* The server is stopped while the outcome is being reported: the outcome
\* becomes "cancelled".
Overrule ==
    /\ phase = "ended"
    /\ result # "none"
    /\ result' = "cancelled"
    /\ told' = TRUE
    /\ UNCHANGED <<phase, late>>

Next ==
    \/ Start
    \/ Tell
    \/ LateAgent
    \/ \E outcome \in {"completed", "failed", "cancelled"} : End(outcome)
    \/ Lost
    \/ Overrule

Spec == Init /\ [][Next]_vars
=============================================================================
