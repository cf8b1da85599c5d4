------------------------ MODULE MCInvestigationWorkflow ------------------------
(* Instances of InvestigationWorkflow for TLC. *)
EXTENDS InvestigationWorkflow

CONSTANTS e1

MCEntities == {e1}
MCConfidences == {40, 90}
MCLlmMessages == {Unresolved("REQUEST_EVIDENCE", "evidence_agent")}
MCNoMessages == {}
===============================================================================
