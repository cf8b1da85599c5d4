---------------------------- MODULE SupervisorAgent ----------------------------
(***************************************************************************)
(* The choice of the next action (services/supervisor.py), as operators on *)
(* the blackboard.  A decision comes from one of three places: the         *)
(* hypothesis swarm (only for a complex case that is stuck), the language  *)
(* model, or the deterministic heuristic when the model call fails.  The   *)
(* first two are validated, which may rewrite the action or replace it by  *)
(* the heuristic.                                                          *)
(***************************************************************************)
EXTENDS InvestigationContext

CONSTANT
    SwarmThreshold  \* InvestigationSwarm.COMPLEXITY_THRESHOLD (3)

ASSUME SwarmAssumption == SwarmThreshold \in Nat

\* Mutant of HasQuota: off by one at the quota.
HasQuotaOnceMore(c, action) == c.counts[action] <= MaxActionIterations

HasQuota(c, action) == c.counts[action] < MaxActionIterations

HeuristicDecision(c) ==
    IF c.graph = {} /\ HasQuota(c, "gather_evidence") THEN "gather_evidence"
    ELSE IF ~c.timeline /\ HasQuota(c, "compress_events") THEN "compress_events"
    ELSE IF c.rca < ReinvestigationThreshold /\ HasQuota(c, "perform_rca")
         THEN "perform_rca"
    ELSE "finalize_response"

\* Mutant of WithPrerequisite: a plan needs no root cause.
WithoutRcaPrerequisite(c, action) ==
    IF action = "perform_rca" /\ ~c.timeline THEN "compress_events" ELSE action

\* The order of the prerequisites an action is rewritten to.
WithPrerequisite(c, action) ==
    IF action = "perform_rca" /\ ~c.timeline THEN "compress_events"
    ELSE IF action = "finalize_response" /\ c.rca = NoRca THEN "perform_rca"
    ELSE action

Validated(c, action) ==
    IF HasQuota(c, WithPrerequisite(c, action))
    THEN WithPrerequisite(c, action)
    ELSE HeuristicDecision(c)

\* Mutant of Drifts: a premature benign closure is not noticed.
DriftsOnFinalizeOnly(c, action) == action = "finalize_response" /\ RcaConfidence(c) < 50

Drifts(c, action) ==
    \/ action = "finalize_response" /\ RcaConfidence(c) < 50
    \/ action = "terminate_benign" /\ c.severe /\ c.rca = NoRca

FlagDrift(c, action) == IF Drifts(c, action) THEN PostMessage(c, "FYI", "*") ELSE c

\* Mutant of Stuck: the swarm also runs once there is a root cause.
StuckWithRca(c) ==
    /\ Cardinality(c.entities) >= SwarmThreshold
    /\ c.counts["gather_evidence"] >= 2

\* should_swarm also counts distinct techniques, but triage records at most one.
Stuck(c) ==
    /\ Cardinality(c.entities) >= SwarmThreshold
    /\ c.counts["gather_evidence"] >= 2
    /\ c.rca = NoRca
===============================================================================
