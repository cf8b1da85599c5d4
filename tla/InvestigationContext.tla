------------------------- MODULE InvestigationContext -------------------------
(***************************************************************************)
(* The blackboard every agent of an investigation reads and writes         *)
(* (services/investigation_context.py).  The module has no variables: it   *)
(* gives the record that stands for an InvestigationContext and one        *)
(* operator per method.  ReactSupervisor, StaticPipeline and               *)
(* InvestigationWorkflow hold such records in their variables.             *)
(*                                                                         *)
(* Confidences are percentages.  `rca` is the confidence_score of          *)
(* rca_findings, or NoRca while rca_findings is the empty dict.  Messages  *)
(* that agree in type, target and resolution are not told apart.           *)
(***************************************************************************)
EXTENDS Integers, FiniteSets

CONSTANTS
    Entities,            \* ids an investigation may come across
    Confidences,         \* percentages the RCA model may answer with
    MaxIterations,       \* InvestigationContext.max_iterations (15)
    MaxActionIterations  \* InvestigationContext.max_action_iterations (3)

ASSUME ContextAssumption ==
    /\ IsFiniteSet(Entities)
    /\ Confidences \subseteq 0..100
    /\ MaxIterations \in Nat
    /\ MaxActionIterations \in Nat \ {0}

-----------------------------------------------------------------------------
WorkActions == {"gather_evidence", "discover_network",
                "compress_events", "perform_rca"}
TerminalActions == {"terminate_benign", "finalize_response"}
Actions == WorkActions \cup TerminalActions

MessageTypes == {"REQUEST_EVIDENCE", "LOW_CONFIDENCE", "CHALLENGE", "FYI"}
Targets == {"evidence_agent", "rca_agent", "*"}
Message == [type : MessageTypes, target : Targets, resolved : BOOLEAN]

NoRca == -1
ReinvestigationThreshold == 70
HeuristicConfidence == 60      \* RCA confidence when the model call failed

Context == [entities  : SUBSET Entities,
            severe    : BOOLEAN,          \* severity is critical or high
            graph     : SUBSET Entities,  \* nodes of entity_graph
            timeline  : BOOLEAN,          \* compressed_events is not empty
            rca       : Int,
            messages  : SUBSET Message,
            iteration : Nat,
            counts    : [Actions -> Nat]] \* action_counts

EmptyContext == [entities  |-> {},
                 severe    |-> FALSE,
                 graph     |-> {},
                 timeline  |-> FALSE,
                 rca       |-> NoRca,
                 messages  |-> {},
                 iteration |-> 0,
                 counts    |-> [a \in Actions |-> 0]]

-----------------------------------------------------------------------------
\* rca_findings.get("confidence_score", 0.0)
RcaConfidence(c) == IF c.rca = NoRca THEN 0 ELSE c.rca

\* Mutant of RecordDecision: the quota is counted down.
RecordDecisionDown(c, action) == [c EXCEPT !.counts[action] = @ - 1]

RecordDecision(c, action) == [c EXCEPT !.counts[action] = @ + 1]

Unresolved(type, target) == [type |-> type, target |-> target, resolved |-> FALSE]

PostMessage(c, type, target) ==
    [c EXCEPT !.messages = @ \cup {Unresolved(type, target)}]

PendingFor(c, agent) ==
    {m \in c.messages : ~m.resolved /\ m.target \in {agent, "*"}}

ResolveFor(c, agent) ==
    [c EXCEPT !.messages =
        (@ \ PendingFor(c, agent))
            \cup {[m EXCEPT !.resolved = TRUE] : m \in PendingFor(c, agent)}]

EvidenceRequested(c) ==
    \E m \in c.messages : m.type = "REQUEST_EVIDENCE" /\ ~m.resolved

LowConfidence(c) ==
    RcaConfidence(c) > 0 /\ RcaConfidence(c) < ReinvestigationThreshold

\* Mutants of NeedsReinvestigation: requests are overlooked; the cap is dropped.
OverlooksRequests(c) ==
    /\ c.iteration < MaxIterations
    /\ LowConfidence(c)
    /\ c.counts["gather_evidence"] < MaxActionIterations
NeverGivesUp(c) ==
    /\ EvidenceRequested(c) \/ LowConfidence(c)
    /\ c.counts["gather_evidence"] < MaxActionIterations

NeedsReinvestigation(c) ==
    /\ c.iteration < MaxIterations
    /\ EvidenceRequested(c) \/ LowConfidence(c)
    /\ c.counts["gather_evidence"] < MaxActionIterations
===============================================================================
