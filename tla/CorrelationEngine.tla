------------------------- MODULE CorrelationEngine -------------------------
(***************************************************************************)
(* The seven stage compression of services/correlation_engine.py as        *)
(* operators over a sequence of raw events, and one action that compresses *)
(* a chosen input (compress_events contains no await: it is one step).     *)
(*                                                                         *)
(* Data: scores are percentages, times are minutes counted from the        *)
(* incident; NoTime is an event without a parsable timestamp.  An action   *)
(* is known by its fingerprint class (digits removed) and by the pattern   *)
(* keywords it contains.                                                   *)
(***************************************************************************)
EXTENDS EntityNames, Integers, Sequences, FiniteSets, SequencesExt

CONSTANTS
    CorrInputs,      \* the raw event sequences compressed
    ActionClass,     \* [action -> class of its normalized first 60 characters]
    ActionKinds,     \* [action -> the keyword lists of GraphAnalyzer it hits]
    Manageable,      \* 500 in the code: below it density is not looked at
    FailedLogins,    \* 5 in the code
    NoTime

ASSUME CorrAssumption ==
    /\ Manageable \in Nat /\ FailedLogins \in Nat
    /\ DOMAIN ActionClass = DOMAIN ActionKinds
    /\ \A raw \in CorrInputs :
          /\ Len(raw) \in Nat /\ DOMAIN raw = 1..Len(raw)
          /\ \A i \in DOMAIN raw : raw[i].risk \in 0..100

Window == 1440       \* window_hours = 24
Hour   == 60
NoPackage == [events |-> <<>>, done |-> FALSE]

VARIABLE corr        \* [in |-> raw events, out |-> package]

Max2(a, b) == IF a >= b THEN a ELSE b
Min2(a, b) == IF a <= b THEN a ELSE b
HasTime(e) == e.time # NoTime

-----------------------------------------------------------------------------
(* A list is a function on the positions its events had: a stage drops     *)
(* positions, and the order of those it keeps is that of the raw log.      *)

Size(list) == Cardinality(DOMAIN list)
Keep(list, Test(_)) == [i \in {j \in DOMAIN list : Test(list[j])} |-> list[i]]
OrAll(part, list) == IF DOMAIN part = {} THEN list ELSE part

\* The first position of every class of events that are the same.
Firsts(list, Same(_, _)) ==
    {i \in DOMAIN list : \A j \in DOMAIN list : Same(list[i], list[j]) => i <= j}

\* The list as a sequence.
InOrder(list) ==
    LET rank(i) == Cardinality({j \in DOMAIN list : j <= i})
    IN  [k \in 1..Size(list) |-> list[CHOOSE i \in DOMAIN list : rank(i) = k]]

-----------------------------------------------------------------------------
(* Stage 1, TemporalFilter.filter_events *)

DominantEpoch(raw) ==
    LET times == SortSeq([i \in DOMAIN SelectSeq(raw, HasTime) |->
                             SelectSeq(raw, HasTime)[i].time], <)
    IN  IF times = <<>> THEN NoTime ELSE times[Len(times) \div 2 + 1]

TimeOf(e, epoch) == IF HasTime(e) THEN e.time
                    ELSE IF epoch # NoTime THEN epoch ELSE 0

Around(raw, centre, epoch) ==
    Keep(raw, LAMBDA e : /\ centre - Window <= TimeOf(e, epoch)
                         /\ TimeOf(e, epoch) <= centre + Window)

\* The incident's window, unless it holds less than a tenth of the log: then
\* the window is anchored on the median event.
Relevant(raw) ==
    LET epoch  == DominantEpoch(raw)
        near   == Around(raw, 0, epoch)
        sparse == 10 * Size(near) < Min2(Len(raw), 50) /\ epoch # NoTime
    IN  OrAll(IF sparse THEN Around(raw, epoch, epoch) ELSE near, raw)

TemporalFilter(raw) ==
    LET epoch   == DominantEpoch(raw)
        near    == Relevant(raw)
        hour(e) == (TimeOf(e, epoch) + 1000 * Hour) \div Hour
        active(h) == 10 * Size(Keep(near, LAMBDA e : hour(e) = h)) >= Size(near)
    IN  IF Size(near) <= Manageable THEN near
        ELSE OrAll(Keep(near, LAMBDA e : active(hour(e)) \/ e.risk > 30), near)

-----------------------------------------------------------------------------
(* Stage 2, EntityCorrelator.correlate_events: one event per (entity,     *)
(* action), in the order the keys were first seen.                         *)

SameKey(e, f) == e.entity = f.entity /\ e.action = f.action

\* datetime.now() stands in for a missing timestamp: such an event is never
\* the earliest of a group that has a dated one.
AggregateEntityEvents(list, i) ==
    LET group == {j \in DOMAIN list : SameKey(list[i], list[j])}
    IN  [entity |-> list[i].entity, action |-> list[i].action,
         time   |-> Min({TimeOf(list[j], Window) : j \in group}),
         ratio  |-> Cardinality(group), raw |-> {list[j] : j \in group},
         risk   |-> Max({list[j].risk : j \in group})]

EntityCorrelator(list) == [i \in Firsts(list, SameKey) |-> AggregateEntityEvents(list, i)]

(* Stage 3, BehavioralFilter.filter_anomalies: baselines is never filled,  *)
(* so the score is the intel match, else the risk, else one half.          *)
AnomalyScore(e) ==
    IF \E r \in e.raw : r.intel THEN 99
    ELSE IF e.risk > 0 THEN e.risk ELSE 50

BehavioralFilter(events) == OrAll(Keep(events, LAMBDA e : AnomalyScore(e) >= 60), events)

(* Stage 4, EventDeduplicator.deduplicate: the first of a fingerprint wins. *)
SameFingerprint(e, f) == e.entity = f.entity /\ ActionClass[e.action] = ActionClass[f.action]

Deduplicate(events) == [i \in Firsts(events, SameFingerprint) |-> events[i]]

-----------------------------------------------------------------------------
(* Stage 5, GraphAnalyzer.analyze_relationships and the cut that follows. *)

PatternConfidence == [lateral_movement |-> 75, privilege_escalation |-> 80,
                      data_exfiltration |-> 85, ransomware |-> 85,
                      credential_compromise |-> 85]

EntityPatterns(events) ==
    UNION {{[type |-> k, entity |-> events[i].entity] :
                k \in ActionKinds[events[i].action]
                      \cap {"lateral_movement", "privilege_escalation",
                            "data_exfiltration", "ransomware"}} : i \in DOMAIN events}

\* Many failed logins and one success, or a credential dumping tool: the
\* only pattern that names no entity.
CredentialPatterns(events) ==
    LET hits(k) == {i \in DOMAIN events : k \in ActionKinds[events[i].action]}
    IN  IF \/ Cardinality(hits("login_failed")) > FailedLogins /\ hits("login_ok") # {}
           \/ hits("credential_dump") # {}
        THEN {[type |-> "credential_compromise", entity |-> "-"]} ELSE {}

Patterns(events) == EntityPatterns(events) \cup CredentialPatterns(events)

\* Mutant: the cut keeps only the entities of patterns and forgets the risk.
MutGraphCut(events, patterns) ==
    LET named == {p.entity : p \in patterns} \ {"-"}
    IN  IF named = {} THEN events ELSE OrAll(Keep(events, LAMBDA e : e.entity \in named), events)

GraphCut(events, patterns) ==
    LET named == {p.entity : p \in patterns} \ {"-"}
    IN  IF named = {} THEN events
        ELSE OrAll(Keep(events, LAMBDA e : e.entity \in named \/ e.risk >= 40), events)

-----------------------------------------------------------------------------
(* Stage 6, RiskScorer.score_risks *)

\* The entity's name is looked for in the text of the whole pattern: its
\* entity and its type, which stands for the text all patterns of it have.
Naming(e, patterns) ==
    {p \in patterns : NamedIn(e.entity, p.entity) \/ NamedIn(e.entity, p.type)}

\* Confidences add up to one at most; two of them always do.
PatternBoost(e, patterns) ==
    LET naming == Naming(e, patterns)
    IN  IF Cardinality(naming) > 1 THEN 100
        ELSE Max({0} \cup {PatternConfidence[p.type] : p \in naming})

Scored(e, patterns) ==
    [e EXCEPT !.risk = Max2(@, Min2(100, Min2(e.ratio, 100) + PatternBoost(e, patterns)))]

\* A low event within five minutes of a high one of the same entity is lifted.
Lifted(e, events) ==
    IF e.risk <= 30 /\ \E i \in DOMAIN events :
            /\ events[i].risk >= 70 /\ events[i].entity = e.entity
            /\ (e.time - events[i].time) \in -5..5
    THEN [e EXCEPT !.risk = 40] ELSE e

RiskScorer(events, patterns) ==
    LET scored == [i \in DOMAIN events |-> Scored(events[i], patterns)]
        lifted == [i \in DOMAIN scored |-> Lifted(scored[i], scored)]
        top    == Min2(Max2(5, Size(events) \div 5), Size(events))
        ranked == SetToSortSeq(DOMAIN lifted,
                      LAMBDA i, j : \/ lifted[i].risk > lifted[j].risk
                                    \/ lifted[i].risk = lifted[j].risk /\ i < j)
    IN  OrAll(Keep(lifted, LAMBDA e : e.risk >= 30), [k \in 1..top |-> lifted[ranked[k]]])

(* Stage 7, AbstractionEngine.abstract_events: per entity the first event  *)
(* of the highest risk.  Its list of raw events is emptied before those of *)
(* the group are gathered into it, so it gets the others' and loses its    *)
(* own; when it comes first it finds its list empty and puts in its action *)
(* alone, and otherwise it only repeats what the list has by then.         *)
SameEntity(e, f) == e.entity = f.entity
BareEvent(e) == [action |-> e.action]

AbstractEvents(events) ==
    LET group(i) == {j \in DOMAIN events : SameEntity(events[i], events[j])}
        best(i)  == CHOOSE k \in group(i) : \A j \in group(i) :
                        \/ events[j].risk < events[k].risk
                        \/ events[j].risk = events[k].risk /\ k <= j
    IN  [i \in Firsts(events, SameEntity) |->
            [events[best(i)] EXCEPT
                !.ratio = Cardinality(group(i)),
                !.raw   = UNION {events[j].raw : j \in group(i) \ {best(i)}}
                          \cup IF best(i) = i THEN {BareEvent(events[i])} ELSE {}]]

-----------------------------------------------------------------------------
(* _calculate_package_risk, in thousandths of a percent point *)
PackageRisk(events, patterns) ==
    IF DOMAIN events = {} THEN 0
    ELSE LET total == FoldFunction(+, 0, [i \in DOMAIN events |-> events[i].risk])
         IN  Min2(1000, (total * 6) \div Size(events)
                        + Min2(Cardinality(patterns) * 10, 100) * 4)

(* _build_timeline: compliance events are rolled up into one milestone *)
Timeline(events) ==
    LET audit == {i \in DOMAIN events : "compliance" \in ActionKinds[events[i].action]}
        plain == {[time |-> events[i].time, entity |-> events[i].entity] :
                     i \in DOMAIN events \ audit}
    IN  plain \cup IF audit = {} THEN {}
                   ELSE {[time |-> Min({events[i].time : i \in audit}), entity |-> "audit"]}

\* compress_events: the stages in their order.
CompressEvents(raw) ==
    LET correlated == EntityCorrelator(TemporalFilter(raw))
        deduped    == Deduplicate(BehavioralFilter(correlated))
        patterns   == Patterns(deduped)
        risky      == RiskScorer(GraphCut(deduped, patterns), patterns)
        summary    == InOrder(AbstractEvents(risky))
    IN  [events |-> summary, patterns |-> patterns, timeline |-> Timeline(summary),
         risk |-> PackageRisk(risky, patterns), done |-> TRUE]

-----------------------------------------------------------------------------
CorrIdle == corr = [in |-> <<>>, out |-> NoPackage]
CorrInit == corr \in [in : CorrInputs, out : {NoPackage}]

Compress ==
    /\ ~corr.out.done
    /\ corr' = [corr EXCEPT !.out = CompressEvents(corr.in)]

CorrNext == Compress

CorrSpec == CorrInit /\ [][CorrNext]_corr

-----------------------------------------------------------------------------
(***************************************************************************)
(* Properties                                                              *)
(***************************************************************************)

Reported(entity) ==
    {corr.out.events[i] : i \in {j \in DOMAIN corr.out.events :
                                   corr.out.events[j].entity = entity}}

\* An intel match lets a cooler event through the behavioral filter, where it
\* may stand for the hot one of its fingerprint: deduplicate keeps the first.
Masked(list, entity) ==
    \E j \in DOMAIN list : list[j].entity = entity /\ list[j].intel /\ list[j].risk < 60

\* Nothing hot is lost: however the seven filters combine, an entity with a
\* risk of at least 0.6 inside the window, and no cooler intel match, has
\* exactly one event in the package, still at 0.6 or more.  Each filter alone
\* has its own fallback and its own threshold; compress_events composes them.
\* Which raw events that event still carries is not part of it: see
\* AbstractEvents.
HotEntityReported ==
    corr.out.done =>
        LET near == Relevant(corr.in)
        IN  \A i \in DOMAIN near :
              LET e == near[i]
              IN  e.risk >= 60 /\ ~Masked(near, e.entity) =>
                    /\ Cardinality(Reported(e.entity)) = 1
                    /\ \A r \in Reported(e.entity) : r.risk >= 60

\* A package is what the stages make of its input: NoPackage until then.
CorrInvariant ==
    /\ corr = [in |-> corr.in, out |-> corr.out] /\ corr.in \in CorrInputs
    /\ corr.out.done => corr.out = CompressEvents(corr.in)

=============================================================================
