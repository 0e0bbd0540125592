----------------------------- MODULE Navigation -----------------------------
(***************************************************************************)
(* What a file manager promises of where it is: it stays until it arrives, *)
(* and it arrives only where the user last asked to go.                    *)
(***************************************************************************)
CONSTANTS Dir, None

VARIABLES place, heading

vars == <<place, heading>>

Init == place = None /\ heading \in Dir

\* The user asks; what was asked before is forgotten.
Ask == place' = place /\ heading' \in Dir

Arrive == heading # None /\ place' = heading /\ heading' = None

\* It cannot be reached, or something else came in between.
GiveUp == place' = place /\ heading' = None

Next == Ask \/ Arrive \/ GiveUp

Spec == Init /\ [][Next]_vars
=============================================================================
