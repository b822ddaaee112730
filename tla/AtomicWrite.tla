------------------------------ MODULE AtomicWrite ------------------------------
(***************************************************************************)
(* What write_owned_regular_file promises its callers: one step replaces   *)
(* the target by the whole payload, and success means that it was taken.   *)
(* A temporary file may be in the directory before that step, and after it *)
(* only if the run has ended without having cleaned up.                    *)
(***************************************************************************)
CONSTANTS New, Old     \* the payload; what the target may be before

VARIABLES target, debris, outcome

Init == target \in Old /\ debris = FALSE /\ outcome = "none"

Prepare ==
  /\ outcome = "none" /\ target # New /\ ~debris
  /\ debris' = TRUE /\ UNCHANGED <<target, outcome>>

Commit ==
  /\ outcome = "none" /\ debris
  /\ target' = New /\ debris' = FALSE /\ UNCHANGED outcome

CleanUp == debris /\ debris' = FALSE /\ UNCHANGED <<target, outcome>>

Succeed ==
  /\ outcome = "none" /\ target = New /\ ~debris
  /\ outcome' = "ok" /\ UNCHANGED <<target, debris>>

Fail == outcome = "none" /\ outcome' = "fail" /\ UNCHANGED <<target, debris>>

Next == Prepare \/ Commit \/ CleanUp \/ Succeed \/ Fail

Spec == Init /\ [][Next]_<<target, debris, outcome>>
================================================================================
