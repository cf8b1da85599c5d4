-------------------------- MODULE MCReactSupervisor --------------------------
(* Instances of ReactSupervisor for TLC. *)
EXTENDS ReactSupervisor, TLC

CONSTANTS e1, e2, e3

MCEntities == {e1, e2, e3}
MCOneEntity == {e1}
MCTwoEntities == {e1, e2}
MCConfidences == {40, 90}
MCLlmMessages == {Unresolved("REQUEST_EVIDENCE", "evidence_agent")}
MCNoMessages == {}
Symmetry == Permutations(MCEntities)
===============================================================================
