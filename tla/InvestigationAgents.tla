-------------------------- MODULE InvestigationAgents --------------------------
(***************************************************************************)
(* What one execute() of each agent (services/orchestrator.py) does to the *)
(* blackboard.  Each operator is the context after the call; its           *)
(* parameters are the outcomes the call does not control: the answer of    *)
(* the language model, the entities found in the alert, whether the shared *)
(* risk tracker promoted an entity.  The discovery agent only reports.     *)
(***************************************************************************)
EXTENDS InvestigationContext

CONSTANTS
    LlmMessages, \* messages the models may ask to be posted
    Unnamed      \* the ids "unknown" and "": nothing is collected for them

ASSUME AgentAssumption == LlmMessages \subseteq [type     : MessageTypes,
                                                target   : Targets,
                                                resolved : {FALSE}]

PostAll(c, posted) == [c EXCEPT !.messages = @ \cup posted]

\* An entity whose cumulative risk crossed the threshold is broadcast.
Escalate(c, promoted) == IF promoted THEN PostMessage(c, "FYI", "*") ELSE c

RunTriage(c, seeds, severe, promoted) ==
    Escalate([c EXCEPT !.entities = seeds, !.severe = severe], promoted)

\* The entities the pending requests may name: a model's payload is its own.
Requested(c) ==
    IF \E m \in PendingFor(c, "evidence_agent") : m.type = "REQUEST_EVIDENCE"
    THEN SUBSET Entities ELSE {{}}

\* Every message pending for the evidence agent is resolved, broadcasts included.
RunEvidence(c, requested, promoted) ==
    Escalate([ResolveFor(c, "evidence_agent") EXCEPT
                 !.graph = @ \cup ((c.entities \cup requested) \ Unnamed)],
             promoted)

RunCompression(c) == [c EXCEPT !.timeline = TRUE]

\* AI-driven run: the model answered and chose the messages to post.
RunRcaAi(c, confidence, posted) ==
    PostAll([c EXCEPT !.rca = confidence], posted)

\* Static run: the messages follow from the confidence and from whether the
\* findings mention something unknown.
RunRcaStatic(c, confidence, mentionsUnknown) ==
    LET found == [c EXCEPT !.rca = confidence]
    IN  IF confidence >= ReinvestigationThreshold THEN found
        ELSE PostAll(found,
                     {Unresolved("LOW_CONFIDENCE", "*")}
                     \cup (IF mentionsUnknown
                           THEN {Unresolved("REQUEST_EVIDENCE", "evidence_agent")}
                           ELSE {}))

\* Mutant of RunRcaFallback: a percentage taken for a fraction.
RunRcaFallbackScaled(c) == [c EXCEPT !.rca = 100 * HeuristicConfidence]

\* The model call failed: structural fallback, nothing is posted.
RunRcaFallback(c) == [c EXCEPT !.rca = HeuristicConfidence]

RunResponseAi(c, posted) == PostAll(c, posted)

\* .get("confidence_score", 1.0): without findings there is no challenge.
RunResponseStatic(c) ==
    IF c.rca # NoRca /\ c.rca < 50
    THEN PostMessage(c, "CHALLENGE", "rca_agent")
    ELSE c

\* synthesize_reports: the verdict drawn from the confidence of a report.
VerdictFor(confidence) == IF confidence >= 80 THEN "high"
                          ELSE IF confidence >= 50 THEN "moderate"
                          ELSE "low"
===============================================================================
