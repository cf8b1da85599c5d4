--------------------------- MODULE BlackboardLemmas ---------------------------
(***************************************************************************)
(* What the operators on the blackboard return, for every well-typed       *)
(* context: the lemmas that the proofs about the autonomous, the static    *)
(* and the durable run share.  Each run's accounting of its budget and of  *)
(* its results rests on what an agent leaves alone.                        *)
(***************************************************************************)
EXTENDS InvestigationAgents, SupervisorAgent, TLAPS

USE DEF NoRca

(* Every operator keeps the blackboard a Context and touches only what it *)
(* names.                                                                  *)

\* c and d agree on everything the loop's accounting depends on.
SameProgress(c, d) == /\ d.counts = c.counts
                      /\ d.iteration = c.iteration
                      /\ d.timeline = c.timeline
                      /\ d.rca = c.rca

\* c and d agree on the budget: quotas, turns, and whether there is a timeline.
SameBudget(c, d) == /\ d.counts = c.counts
                    /\ d.iteration = c.iteration
                    /\ d.timeline = c.timeline

\* d is c after an analysis that ended with this confidence.
Analysed(c, d, confidence) == /\ d \in Context
                              /\ SameBudget(c, d)
                              /\ d.rca = confidence

LEMMA PostKeeps ==
    ASSUME NEW c \in Context, NEW t \in MessageTypes, NEW g \in Targets
    PROVE  PostMessage(c, t, g) \in Context /\ SameProgress(c, PostMessage(c, t, g))
<1>1. Unresolved(t, g) \in Message
  BY DEF Unresolved, Message
<1> QED
  BY <1>1 DEF PostMessage, Context, SameProgress

LEMMA PostAllKeeps ==
    ASSUME NEW c \in Context, NEW posted \in SUBSET LlmMessages
    PROVE  PostAll(c, posted) \in Context /\ SameProgress(c, PostAll(c, posted))
<1>1. posted \in SUBSET Message
  BY AgentAssumption DEF Message
<1> QED
  BY <1>1 DEF PostAll, Context, SameProgress

LEMMA EscalateKeeps ==
    ASSUME NEW c \in Context, NEW promoted \in BOOLEAN
    PROVE  Escalate(c, promoted) \in Context /\ SameProgress(c, Escalate(c, promoted))
<1>1. CASE promoted
  <2>1. "FYI" \in MessageTypes /\ "*" \in Targets
    BY DEF MessageTypes, Targets
  <2> QED
    BY <1>1, <2>1, PostKeeps DEF Escalate
<1>2. CASE ~promoted
  BY <1>2 DEF Escalate, SameProgress
<1> QED
  BY <1>1, <1>2

LEMMA TriageKeeps ==
    ASSUME NEW c \in Context, NEW seeds \in SUBSET Entities,
           NEW severe \in BOOLEAN, NEW promoted \in BOOLEAN
    PROVE  /\ RunTriage(c, seeds, severe, promoted) \in Context
           /\ SameProgress(c, RunTriage(c, seeds, severe, promoted))
<1> DEFINE d == [c EXCEPT !.entities = seeds, !.severe = severe]
<1>1. d \in Context /\ SameProgress(c, d)
  BY DEF Context, SameProgress
<1> HIDE DEF d
<1>2. RunTriage(c, seeds, severe, promoted) = Escalate(d, promoted)
  BY DEF RunTriage, d
<1> QED
  BY <1>1, <1>2, EscalateKeeps DEF SameProgress

LEMMA ResolveKeeps ==
    ASSUME NEW c \in Context, NEW agent
    PROVE  ResolveFor(c, agent) \in Context /\ SameProgress(c, ResolveFor(c, agent))
<1>1. {[m EXCEPT !.resolved = TRUE] : m \in PendingFor(c, agent)} \in SUBSET Message
  BY DEF PendingFor, Context, Message
<1> QED
  BY <1>1 DEF ResolveFor, Context, SameProgress

LEMMA EvidenceKeeps ==
    ASSUME NEW c \in Context, NEW requested \in SUBSET Entities, NEW promoted \in BOOLEAN
    PROVE  /\ RunEvidence(c, requested, promoted) \in Context
           /\ SameProgress(c, RunEvidence(c, requested, promoted))
<1> DEFINE r == ResolveFor(c, "evidence_agent")
           d == [r EXCEPT !.graph = @ \cup ((c.entities \cup requested) \ Unnamed)]
<1>1. r \in Context /\ SameProgress(c, r)
  BY ResolveKeeps
<1> HIDE DEF r
<1>2. d \in Context /\ SameProgress(c, d)
  BY <1>1 DEF Context, SameProgress
<1>3. RunEvidence(c, requested, promoted) = Escalate(d, promoted)
  BY DEF RunEvidence, r
<1> HIDE DEF d
<1> QED
  BY <1>2, <1>3, EscalateKeeps DEF SameProgress

LEMMA CompressionKeeps ==
    ASSUME NEW c \in Context
    PROVE  /\ RunCompression(c) \in Context /\ RunCompression(c).timeline
           /\ RunCompression(c).counts = c.counts
           /\ RunCompression(c).iteration = c.iteration
           /\ RunCompression(c).rca = c.rca
  BY DEF RunCompression, Context

\* The three ways an analysis ends: d is the blackboard with its confidence.
LEMMA RcaAiKeeps ==
    ASSUME NEW c \in Context, NEW confidence \in Confidences,
           NEW posted \in SUBSET LlmMessages
    PROVE  Analysed(c, RunRcaAi(c, confidence, posted), confidence)
<1> DEFINE d == [c EXCEPT !.rca = confidence]
<1>1. confidence \in Int
  BY ContextAssumption
<1>2. d \in Context /\ d.rca = confidence /\ SameBudget(c, d)
  BY <1>1 DEF Context, SameBudget
<1>3. RunRcaAi(c, confidence, posted) = PostAll(d, posted)
  BY DEF RunRcaAi
<1> HIDE DEF d
<1> QED
  BY <1>2, <1>3, PostAllKeeps DEF Analysed, SameProgress, SameBudget

LEMMA RcaStaticKeeps ==
    ASSUME NEW c \in Context, NEW confidence \in Confidences,
           NEW mentionsUnknown \in BOOLEAN
    PROVE  Analysed(c, RunRcaStatic(c, confidence, mentionsUnknown), confidence)
<1> DEFINE d == [c EXCEPT !.rca = confidence]
           posted == {Unresolved("LOW_CONFIDENCE", "*")}
                     \cup (IF mentionsUnknown
                           THEN {Unresolved("REQUEST_EVIDENCE", "evidence_agent")}
                           ELSE {})
           e == [d EXCEPT !.messages = @ \cup posted]
<1>1. confidence \in Int
  BY ContextAssumption
<1>2. d \in Context /\ d.rca = confidence /\ SameBudget(c, d)
  BY <1>1 DEF Context, SameBudget
<1>3. posted \in SUBSET Message
  <2>1. /\ Unresolved("LOW_CONFIDENCE", "*") \in Message
        /\ Unresolved("REQUEST_EVIDENCE", "evidence_agent") \in Message
    BY DEF Unresolved, Message, MessageTypes, Targets
  <2> QED
    BY <2>1
<1> HIDE DEF posted
<1>4. e \in Context /\ e.rca = confidence /\ SameBudget(c, e)
  BY <1>2, <1>3 DEF Context, SameBudget
<1>5. RunRcaStatic(c, confidence, mentionsUnknown) \in {d, e}
  BY DEF RunRcaStatic, PostAll, posted
<1> HIDE DEF d, e
<1> QED
  BY <1>2, <1>4, <1>5 DEF Analysed

LEMMA RcaFallbackKeeps ==
    ASSUME NEW c \in Context
    PROVE  Analysed(c, RunRcaFallback(c), HeuristicConfidence)
  BY DEF RunRcaFallback, Analysed, SameBudget, Context, HeuristicConfidence

LEMMA ResponseStaticKeeps ==
    ASSUME NEW c \in Context
    PROVE  /\ RunResponseStatic(c) \in Context
           /\ SameProgress(c, RunResponseStatic(c))
<1>1. "CHALLENGE" \in MessageTypes /\ "rca_agent" \in Targets
  BY DEF MessageTypes, Targets
<1>2. SameProgress(c, c)
  BY DEF SameProgress
<1> QED
  BY <1>1, <1>2, PostKeeps DEF RunResponseStatic

\* A challenge to the analysis is not a request for evidence.
LEMMA ResponseAsksNothing ==
    ASSUME NEW c \in Context
    PROVE  /\ EvidenceRequested(RunResponseStatic(c)) <=> EvidenceRequested(c)
           /\ LowConfidence(RunResponseStatic(c)) <=> LowConfidence(c)
  BY DEF RunResponseStatic, PostMessage, Unresolved, EvidenceRequested,
         LowConfidence, RcaConfidence, Context

-----------------------------------------------------------------------------
(* The supervisor's choice *)

\* What the quota check and the heuristic return for a well-typed context.
LEMMA HeuristicChoice ==
    ASSUME NEW c \in Context,
           NEW a, a = HeuristicDecision(c)
    PROVE  /\ a \in {"gather_evidence", "compress_events", "perform_rca",
                     "finalize_response"}
           /\ a # "finalize_response" => HasQuota(c, a)
           /\ a = "finalize_response" /\ c.rca < ReinvestigationThreshold
                 => ~HasQuota(c, "perform_rca")
  BY DEF HeuristicDecision, HasQuota

LEMMA ValidatedChoice ==
    ASSUME NEW c \in Context, NEW proposed \in Actions,
           NEW a, a = Validated(c, proposed)
    PROVE  /\ a \in Actions
           /\ HasQuota(c, a) \/ a = HeuristicDecision(c)
           /\ a = "finalize_response" /\ c.rca = NoRca => a = HeuristicDecision(c)
  BY HeuristicChoice
     DEF Validated, WithPrerequisite, Actions, WorkActions, TerminalActions

LEMMA FlagKeeps ==
    ASSUME NEW c \in Context, NEW a
    PROVE  FlagDrift(c, a) \in Context /\ SameProgress(c, FlagDrift(c, a))
<1>1. "FYI" \in MessageTypes /\ "*" \in Targets
  BY DEF MessageTypes, Targets
<1> QED
  BY <1>1, PostKeeps DEF FlagDrift, SameProgress
===============================================================================
