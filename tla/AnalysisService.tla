-------------------------- MODULE AnalysisService --------------------------
(***************************************************************************)
(* The Phase 2 and 3 analysis API: /compress and /investigate of           *)
(* api/routes/correlation.py and /analyze of api/routes/rca.py, over the   *)
(* package builder of services/investigation_builder.py.                   *)
(*                                                                         *)
(* The router holds ONE InvestigationPackageBuilder for the process, so    *)
(* its entity graph and its list of relationships are state of the service.*)
(* A package copies the graph's keys when it is built but holds the list   *)
(* itself: edges found later show in packages built before.                *)
(***************************************************************************)
EXTENDS CorrelationEngine, RootCauseEngine

CONSTANTS
    Investigations,
    AnalysisLogs,    \* the event lists a caller may submit
    ActionPhases,    \* [action -> kill chain phases it matches]
    Halves,          \* [entity -> <<user, host>>, or <<>> for a plain name]
    MaxPackages      \* bound on the packages built

ASSUME AnalysisAssumption == MaxPackages \in Nat

PackageTypes == {"rapid_containment", "detailed_rca", "forensic_analysis", "executive_summary"}
KillChain == <<"reconnaissance", "weaponization", "delivery", "exploitation",
               "installation", "command_and_control", "action_on_objectives">>
None == [done |-> FALSE]

VARIABLES
    compressed,   \* compressed_packages: [investigation -> package or None]
    packages,     \* investigation_packages, in order of creation
    entities,     \* EntityGraphBuilder.entities, in insertion order
    edges,        \* EntityGraphBuilder.relationships, as pairs
    rca           \* rca_results: [package index -> result or None]

analysisVars == <<compressed, packages, entities, edges, rca>>

-----------------------------------------------------------------------------
(* EntityGraphBuilder *)

ByTime(events) ==
    LET order == SetToSortSeq(DOMAIN events,
                    LAMBDA i, j : \/ events[i].time < events[j].time
                                  \/ events[i].time = events[j].time /\ i < j)
    IN  [k \in DOMAIN order |-> events[order[k]]]

\* New entities go to the end, in the order of the events.
ExtractEntities(known, events) ==
    FoldLeft(LAMBDA acc, e : IF Contains(acc, e.entity) THEN acc ELSE Append(acc, e.entity),
             known, events)

\* user -> host for a compound id, and earlier -> later for neighbours in time.
ExtractRelationships(events) ==
    LET seq == ByTime(events)
    IN  {Halves[events[i].entity] : i \in {j \in DOMAIN events : Halves[events[j].entity] # <<>>}}
        \cup {<<seq[i].entity, seq[i + 1].entity>> :
                 i \in {j \in 1..(Len(seq) - 1) : seq[j].entity # seq[j + 1].entity}}

(* EvidenceSelector.  Confidence is 1.0 for every correlated event.  The    *)
(* detailed selection sorts the events of the compressed package in place. *)
ByRisk(events) ==
    LET order == SetToSortSeq(DOMAIN events,
                    LAMBDA i, j : \/ events[i].risk > events[j].risk
                                  \/ events[i].risk = events[j].risk /\ i < j)
    IN  [k \in DOMAIN order |-> events[order[k]]]

SelectedCount(type, events) ==
    IF type = "rapid_containment" THEN Min2(50, Len(SelectSeq(events, LAMBDA e : e.risk > 70)))
    ELSE IF type = "detailed_rca" THEN Min2(500, Len(events))
    ELSE IF type = "executive_summary" THEN Min2(20, Len(events))
    ELSE Len(events)

Quality(type, events) ==
    IF events # <<>> THEN (100 * SelectedCount(type, events)) \div Len(events)
    ELSE IF type = "executive_summary" THEN 50 ELSE 0

EventsAfter(type, events) == IF type = "detailed_rca" THEN ByRisk(events) ELSE events

(* AttackPhaseAnalyzer.analyze_phases, in the order of the kill chain *)
AnalyzePhases(events) ==
    SelectSeq(KillChain, LAMBDA p : \E i \in DOMAIN events : p \in ActionPhases[events[i].action])

\* _calculate_timeline_coherence: average distance of neighbours in time.
TimelineCoherence(timeline) ==
    LET times == {t.time : t \in timeline}
        span  == Max(times) - Min(times)
        hops  == Cardinality(timeline) - 1
    IN  IF hops < 1 THEN 50 ELSE IF span < 5 * hops THEN 90
        ELSE IF span < Hour * hops THEN 70 ELSE 40

-----------------------------------------------------------------------------
AnalysisInit ==
    /\ compressed = [i \in Investigations |-> None]
    /\ packages = <<>>
    /\ entities = <<>>
    /\ edges = {}
    /\ rca = [k \in 1..MaxPackages |-> None]

\* POST /compress: the investigation's package is replaced.
CompressRoute(inv) ==
    /\ \E log \in AnalysisLogs : compressed' = [compressed EXCEPT ![inv] = CompressEvents(log)]
    /\ UNCHANGED <<packages, entities, edges, rca>>

\* POST /investigate, build_package.
BuildPackage(inv, type) ==
    LET events == compressed[inv].events
        known  == ExtractEntities(entities, events)
    IN  /\ compressed[inv].done
        /\ Len(packages) < MaxPackages
        /\ entities' = known
        /\ edges' = edges \cup ExtractRelationships(events)
        /\ compressed' = [compressed EXCEPT ![inv].events = EventsAfter(type, events)]
        /\ packages' = Append(packages,
               [inv |-> inv, assets |-> known, events |-> EventsAfter(type, events),
                types |-> {p.type : p \in compressed[inv].patterns},
                phases |-> AnalyzePhases(events), quality |-> Quality(type, events),
                coherence |-> TimelineCoherence(compressed[inv].timeline)])
        /\ UNCHANGED rca

\* POST /analyze: the graph is read from the list the builder still fills.
AnalyzeRoute(k) ==
    /\ k \in DOMAIN packages
    /\ \E result \in AnalyzeInvestigation(packages[k], edges) :
           rca' = [rca EXCEPT ![k] = [done |-> TRUE, result |-> result]]
    /\ UNCHANGED <<compressed, packages, entities, edges>>

AnalysisNext ==
    \/ \E inv \in Investigations : CompressRoute(inv)
    \/ \E inv \in Investigations, type \in PackageTypes : BuildPackage(inv, type)
    \/ \E k \in 1..MaxPackages : AnalyzeRoute(k)

AnalysisSpec == AnalysisInit /\ [][AnalysisNext]_analysisVars

-----------------------------------------------------------------------------
(***************************************************************************)
(* Properties                                                              *)
(***************************************************************************)

OwnEntities(pkg) == {e.entity : e \in EventsOf(pkg)}

\* The root cause of an investigation is an entity of its own evidence as
\* soon as that evidence holds one anomaly, whatever other investigations
\* left in the shared graph and whichever asset was taken for the target.
CausedByOwnEvidence ==
    \A k \in DOMAIN packages :
        rca[k].done /\ ExtractAnomalies(packages[k]) # {} =>
            rca[k].result.root \in OwnEntities(packages[k])

\* The inductive strengthening: a result is of a package that was there, and
\* building another one changes neither.
AnalysisInvariant ==
    /\ Len(packages) \in 0..MaxPackages
    /\ packages = [k \in 1..Len(packages) |-> packages[k]]
    /\ DOMAIN rca = 1..MaxPackages
    /\ \A k \in 1..MaxPackages : rca[k].done => k \in 1..Len(packages)
    /\ CausedByOwnEvidence

=============================================================================
