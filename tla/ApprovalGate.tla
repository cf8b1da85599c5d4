------------------------------ MODULE ApprovalGate ------------------------------
(***************************************************************************)
(* What the human approval of a response plan promises: the plan is        *)
(* carried out only if the gate was opened and granted, and a gate that    *)
(* was decided, or withdrawn when its workflow ended, is never decided     *)
(* again.  InvestigationWorkflow implements it.                            *)
(***************************************************************************)
VARIABLES
    gate,       \* "shut", "open", "granted" or "refused"
    contained,  \* some of the plan's actions have been carried out
    over        \* the workflow is closed

vars == <<gate, contained, over>>

Init == gate = "shut" /\ contained = FALSE /\ over = FALSE

Open ==
    /\ gate = "shut" /\ ~over
    /\ gate' = "open"
    /\ UNCHANGED <<contained, over>>

\* A timeout refuses.
Decide ==
    /\ gate = "open" /\ ~over
    /\ gate' \in {"granted", "refused"}
    /\ UNCHANGED <<contained, over>>

\* Also after the workflow is closed, by an attempt that was given up.
Contain ==
    /\ gate = "granted"
    /\ contained' = TRUE
    /\ UNCHANGED <<gate, over>>

Close ==
    /\ ~over
    /\ over' = TRUE
    /\ gate' = IF gate = "open" THEN "shut" ELSE gate
    /\ UNCHANGED contained

Next == Open \/ Decide \/ Contain \/ Close

Spec == Init /\ [][Next]_vars
===============================================================================
