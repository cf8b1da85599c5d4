-------------------------- MODULE RootCauseEngine --------------------------
(***************************************************************************)
(* Root cause analysis over an investigation package:                      *)
(* services/rca_engine.py on top of services/sx_truerca/causal_analyzer.py.*)
(* A package is a record with its impacted assets in order, its events,    *)
(* its suspected attack types, its quality score; the graph is a set of    *)
(* edges.  Risks are percentages, the factors of CausalFactors are tenths, *)
(* so a score of one is Unit.                                              *)
(***************************************************************************)
EXTENDS EntityNames, Integers, Sequences, FiniteSets, FiniteSetsExt

CONSTANTS
    DatabaseAssets,   \* asset names with "db" or "database" in them
    UnknownTarget

Unit == 100 * 10 * 10 * 10
NoPath == 999
MaxDepth == 10

-----------------------------------------------------------------------------
(* CausalAnalyzer *)

Nodes(assets, edges) == assets \cup {e[1] : e \in edges} \cup {e[2] : e \in edges}
Successors(S, edges) == {e[2] : e \in {f \in edges : f[1] \in S}}
Predecessors(n, edges) == {e[1] : e \in {f \in edges : f[2] = n}}

\* What S reaches in at most k steps along the edges.
Ball(S, edges, k) ==
    LET b[i \in 0..k] == IF i = 0 THEN {} ELSE b[i - 1] \cup Successors(S \cup b[i - 1], edges)
    IN  b[k]

Upstream(service, edges) == Ball({service}, edges, MaxDepth)

ShortestPathLength(source, target, edges) ==
    LET hops == {k \in 1..MaxDepth : target \in Ball({source}, edges, k)}
    IN  IF hops = {} THEN NoPath ELSE Min(hops)

\* The path is measured from the service to the target although upstream
\* services are found by following the edges from the target.
TopologyFactor(service, target, edges) ==
    LET hops == ShortestPathLength(service, target, edges)
    IN  IF service = target THEN 3
        ELSE IF service \in Upstream(target, edges)
             THEN IF hops = 1 THEN 20 ELSE IF hops = 2 THEN 15 ELSE 10
             ELSE 5

\* Times are in minutes, and the code's threshold is one: an anomaly up to a
\* minute before the target's is boosted moderately.
TemporalFactor(service, target, anomalies) ==
    LET times(s) == {a.time : a \in {b \in anomalies : b.entity = s}}
    IN  IF times(service) = {} \/ times(target) = {} THEN 10
        ELSE LET lead == Min(times(target)) - Min(times(service))
             IN  IF lead > 1 THEN 18 ELSE IF lead > 0 THEN 13 ELSE 7

Criticality(service, edges) == 10 + 3 * Cardinality(Predecessors(service, edges))

\* score_root_causes, and _score_without_topology when the target is unknown
\* to the graph; only services with an anomaly score are candidates.
ScoreRootCauses(target, scores, anomalies, assets, edges) ==
    IF target \notin Nodes(assets, edges)
    THEN [s \in DOMAIN scores |-> IF s = target THEN 300 * scores[s] ELSE 1000 * scores[s]]
    ELSE [s \in DOMAIN scores \cap (Upstream(target, edges) \cup {target}
                                      \cup {a.entity : a \in anomalies}) |->
            scores[s] * TopologyFactor(s, target, edges)
                      * TemporalFactor(s, target, anomalies)
                      * Criticality(s, edges)]

-----------------------------------------------------------------------------
(* RCAEngineIntegration *)

EventsOf(pkg) == {pkg.events[i] : i \in DOMAIN pkg.events}

IdentifyTargetService(pkg) ==
    LET databases == {i \in DOMAIN pkg.assets : pkg.assets[i] \in DatabaseAssets}
    IN  IF databases # {} THEN pkg.assets[Min(databases)]
        ELSE IF pkg.assets # <<>> THEN pkg.assets[1] ELSE UnknownTarget

\* Mutant: an impacted asset without a score counts as one half.
MutAnomalyScores(pkg) ==
    [s \in {pkg.assets[i] : i \in DOMAIN pkg.assets} |->
        LET own == {e.risk : e \in {f \in EventsOf(pkg) : f.entity = s}}
        IN  IF own = {} THEN 50 ELSE Max(own)]

AnomalyScores(pkg) ==
    [s \in {e.entity : e \in EventsOf(pkg)} |->
        Max({e.risk : e \in {f \in EventsOf(pkg) : f.entity = s}})]

ExtractAnomalies(pkg) == {e \in EventsOf(pkg) : e.risk > 30}

\* min(s / (s + 1), 0.99), one half for a zero score or no candidate.
Confidence(score) ==
    IF score > 0 THEN Min({(100 * score) \div (score + Unit), 99}) ELSE 50

ConfidenceLevel(c) ==
    IF c > 90 THEN "very_high" ELSE IF c > 70 THEN "high"
    ELSE IF c > 50 THEN "medium" ELSE IF c > 30 THEN "low" ELSE "very_low"

\* Every best candidate: the candidates are gathered in a set, so ties have no
\* order of their own.
RootCauses(pkg, edges) ==
    LET target == IdentifyTargetService(pkg)
        score  == ScoreRootCauses(target, AnomalyScores(pkg), ExtractAnomalies(pkg),
                                  {pkg.assets[i] : i \in DOMAIN pkg.assets}, edges)
        top    == Max({score[s] : s \in DOMAIN score})
    IN  IF DOMAIN score = {} THEN {[service |-> target, confidence |-> 50]}
        ELSE {[service |-> s, confidence |-> Confidence(top)] :
                 s \in {t \in DOMAIN score : score[t] = top}}

SupportingEvidence(pkg, root) ==
    SelectSeq(pkg.events, LAMBDA e : NamedIn(root, e.entity) /\ e.risk > 50)

\* The first five only.
ContradictingEvidence(pkg, root) ==
    LET against == SelectSeq(pkg.events, LAMBDA e : ~NamedIn(root, e.entity) /\ e.risk > 30)
    IN  SubSeq(against, 1, Min({5, Len(against)}))

\* All four are critical or high, so every one of them is immediate.
ResponseRecommendations(pkg) ==
    {"isolate_host", "enable_mfa"}
    \cup (IF "credential_compromise" \in pkg.types THEN {"reset_credentials"} ELSE {})
    \cup (IF "data_exfiltration" \in pkg.types THEN {"block_domain"} ELSE {})

InvestigationGaps(pkg) ==
    (IF Len(pkg.events) < 10 THEN {"incomplete_timeline"} ELSE {})
    \cup (IF pkg.quality < 60 THEN {"missing_logs"} ELSE {})

RemediationComplexity(pkg) ==
    IF Len(pkg.assets) > 10 THEN "complex"
    ELSE IF Len(pkg.assets) > 5 THEN "moderate" ELSE "simple"

\* analyze_investigation: every result it may return.
AnalyzeInvestigation(pkg, edges) ==
    {[root |-> r.service, confidence |-> r.confidence,
      level |-> ConfidenceLevel(r.confidence),
      supporting |-> SupportingEvidence(pkg, r.service),
      contradicting |-> ContradictingEvidence(pkg, r.service),
      actions |-> ResponseRecommendations(pkg), gaps |-> InvestigationGaps(pkg),
      complexity |-> RemediationComplexity(pkg),
      phase |-> IF pkg.phases = <<>> THEN "unknown" ELSE pkg.phases[1],
      escalate |-> r.confidence < 60] : r \in RootCauses(pkg, edges)}

=============================================================================
