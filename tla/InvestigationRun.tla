---------------------------- MODULE InvestigationRun ----------------------------
(***************************************************************************)
(* What an investigation promises whichever way its phases are driven: it  *)
(* is triaged, investigated for a bounded number of rounds, given at most  *)
(* one response plan once the rounds are over, and brought to one verdict; *)
(* or it fails before it has a plan.  ReactSupervisor and StaticPipeline   *)
(* implement it.                                                           *)
(***************************************************************************)
EXTENDS Naturals

CONSTANT MaxIterations

VARIABLES stage, rounds, planned, verdict
vars == <<stage, rounds, planned, verdict>>

Init == stage = "started" /\ rounds = 0 /\ planned = FALSE /\ verdict = "none"

Triaged ==
    /\ stage = "started"
    /\ stage' = "investigating"
    /\ UNCHANGED <<rounds, planned, verdict>>

Round ==
    /\ stage = "investigating"
    /\ rounds < MaxIterations
    /\ rounds' = rounds + 1
    /\ UNCHANGED <<stage, planned, verdict>>

\* Without a plan: closed as benign, or the planning itself failed.
EndRounds ==
    /\ stage = "investigating"
    /\ stage' = "concluding"
    /\ planned' \in BOOLEAN
    /\ UNCHANGED <<rounds, verdict>>

Conclude ==
    /\ stage = "concluding"
    /\ stage' = "concluded"
    /\ verdict' \in {"low", "moderate", "high"}
    /\ UNCHANGED <<rounds, planned>>

Fail ==
    /\ stage \in {"started", "investigating"}
    /\ stage' = "failed"
    /\ UNCHANGED <<rounds, planned, verdict>>

Next == Triaged \/ Round \/ EndRounds \/ Conclude \/ Fail

Spec == Init /\ [][Next]_vars

\* Every run ends; each round of it does.
FairSpec == Spec /\ WF_vars(Next)
===============================================================================
