-------------------------- MODULE EvidenceCollection --------------------------
(***************************************************************************)
(* A round of the evidence agent (EvidenceAgent.execute in                 *)
(* services/orchestrator.py) with the collectors it runs side by side      *)
(* (services/evidence_collection.py): collect_for_entities, then the       *)
(* skills of each entity, then one merge into the entity graph, which the  *)
(* next round continues.  The answer of a collector or a skill is a risk   *)
(* score; a collector may raise.                                           *)
(*                                                                         *)
(* The collectors are registered by type, their nodes under the bare id,   *)
(* the graph under type and id: of two entities of one id only the first   *)
(* one's node is known at the merge.  Nothing is expanded: the depth limit *)
(* is never reached, because nothing recurses.                             *)
(***************************************************************************)
EXTENDS Integers, Sequences, SequencesExt, FiniteSets, FiniteSetsExt

CONSTANTS
    EvidenceSeeds,      \* context.entities as triage leaves it: Seq([type, id])
    EvidenceRequests,   \* entities another agent may ask evidence for
    EvidenceRisks,      \* answers of a collector or a skill, in tenths
    MaxParallelTasks,   \* max_parallel_tasks
    MaxEvidenceRounds   \* bound

EvidenceEntity == [type : STRING, id : STRING]

ASSUME EvidenceAssumption ==
    /\ \A s \in EvidenceSeeds : s \in Seq(EvidenceEntity)
    /\ EvidenceRequests \subseteq EvidenceEntity
    /\ EvidenceRisks \subseteq Nat
    /\ MaxParallelTasks \in Nat /\ MaxEvidenceRounds \in Nat

VARIABLES
    seeds,
    targets,    \* all_entities of the round
    task,       \* [target -> state of its collection]
    noderisk,   \* [target -> EntityNode.risk_score]
    skilled,    \* how many targets had their skills executed
    graph,      \* entity_graph: entity -> risk score
    links,      \* relationships: [from, to]
    fed,        \* entity -> times the risk tracker was fed
    gathering,  \* "idle", "collect", "skills"
    evRound,
    heard       \* history: every answer, [entity, risk, round, first]

evidenceVars == <<seeds, targets, task, noderisk, skilled, graph, links, fed,
                  gathering, evRound, heard>>

EntityTypes == {"user", "host", "process", "ip", "domain", "file",
                "network_flow", "application"}
\* EvidenceCollectorRegistry
CollectorTypes == EntityTypes \ {"network_flow", "application"}

\* collect_for_entities skips a type it does not know.
EvidenceNodes == {i \in DOMAIN targets : targets[i].type \in EntityTypes}
\* context['entities'] keeps the first node of an id.
Registered(i) ==
    i \in EvidenceNodes
    /\ \A j \in EvidenceNodes : targets[j].id = targets[i].id => i <= j

EvidenceInit ==
    /\ seeds \in EvidenceSeeds
    /\ targets = <<>> /\ task = <<>> /\ noderisk = <<>> /\ skilled = 0
    /\ graph = <<>> /\ links = {} /\ fed = <<>>
    /\ gathering = "idle" /\ evRound = 0 /\ heard = {}

\* The entities of the alert, then the one requested, each (type, id) once.
AllEntities(requested) ==
    IF ToSet(requested) \subseteq ToSet(seeds) THEN seeds ELSE seeds \o requested

StartRound(requested) ==
    /\ gathering = "idle" /\ evRound < MaxEvidenceRounds
    /\ targets' = AllEntities(requested)
    /\ task' = [i \in DOMAIN targets' |->
                  IF targets'[i].type \in CollectorTypes THEN "waiting" ELSE "none"]
    /\ noderisk' = [i \in DOMAIN targets' |-> 0]
    /\ skilled' = 0 /\ gathering' = "collect" /\ evRound' = evRound + 1
    /\ UNCHANGED <<seeds, graph, links, fed, heard>>

In(state) == {i \in DOMAIN task : task[i] = state}

\* The semaphore admits the waiting in their order.
StartTask(i) ==
    /\ gathering = "collect"
    /\ In("waiting") # {} /\ i = Min(In("waiting"))
    /\ Cardinality(In("running")) < MaxParallelTasks
    /\ task' = [task EXCEPT ![i] = "running"]
    /\ UNCHANGED <<seeds, targets, noderisk, skilled, graph, links, fed, gathering,
                   evRound, heard>>

Answer(i, risk, first) ==
    heard' = heard \cup {[entity |-> targets[i], risk |-> risk, round |-> evRound,
                          first |-> first]}

CollectorAnswers(i, risk) ==
    /\ gathering = "collect" /\ i \in In("running")
    /\ task' = [task EXCEPT ![i] = "collected"]
    /\ noderisk' = [noderisk EXCEPT ![i] = risk]
    /\ Answer(i, risk, \A j \in 1..(i - 1) : targets[j].id # targets[i].id)
    /\ UNCHANGED <<seeds, targets, skilled, graph, links, fed, gathering, evRound>>

\* _collect_and_enrich logs the exception and goes on.
CollectorRaises(i) ==
    /\ gathering = "collect" /\ i \in In("running")
    /\ task' = [task EXCEPT ![i] = "failed"]
    /\ UNCHANGED <<seeds, targets, noderisk, skilled, graph, links, fed, gathering,
                   evRound, heard>>

GatherReturns ==
    /\ gathering = "collect" /\ In("waiting") \cup In("running") = {}
    /\ gathering' = "skills"
    /\ UNCHANGED <<seeds, targets, task, noderisk, skilled, graph, links, fed, evRound, heard>>

\* Mutant: the newest answer replaces the risk.
MutRaised(old, risk) == risk
Raised(old, risk) == IF risk > old THEN risk ELSE old

\* A node that is there is updated, else it is made.
WithNode(g, e, risk) ==
    [k \in DOMAIN g \cup {e} |-> IF k # e THEN g[k]
                                ELSE IF e \in DOMAIN g THEN Raised(g[e], risk) ELSE risk]

\* The skills of one entity after the other; their scores count by the highest.
ExecuteSkills(risk) ==
    /\ gathering = "skills" /\ skilled < Len(targets)
    /\ skilled' = skilled + 1
    /\ graph' = WithNode(graph, targets[skilled'], risk)
    /\ Answer(skilled', risk, TRUE)
    /\ UNCHANGED <<seeds, targets, task, noderisk, links, fed, gathering, evRound>>

\* Processes and users are linked to the first host of the round.
HeuristicLinks ==
    LET hosts == {i \in DOMAIN targets : targets[i].type = "host"}
    IN  IF hosts = {} THEN {}
        ELSE {[from |-> e, to |-> targets[Min(hosts)]] :
                e \in {x \in ToSet(targets) : x.type \in {"process", "user"}}}

\* The registered nodes are of different entities, so their order is nothing.
NodeOf(e) == {i \in DOMAIN targets : Registered(i) /\ targets[i] = e}
MergedNodes(g) ==
    [e \in DOMAIN g \cup {targets[i] : i \in {j \in DOMAIN targets : Registered(j)}} |->
        IF NodeOf(e) = {} THEN g[e]
        ELSE WithNode(g, e, noderisk[Min(NodeOf(e))])[e]]

\* Everything after the last await; the risk tracker is fed the whole graph.
MergeRound ==
    /\ gathering = "skills" /\ skilled = Len(targets)
    /\ graph' = MergedNodes(graph)
    /\ links' = links \cup HeuristicLinks
    /\ fed' = [e \in DOMAIN graph' |->
                 (IF e \in DOMAIN fed THEN fed[e] ELSE 0) + IF graph'[e] > 0 THEN 1 ELSE 0]
    /\ gathering' = "idle"
    /\ targets' = <<>> /\ task' = <<>> /\ noderisk' = <<>> /\ skilled' = 0
    /\ UNCHANGED <<seeds, evRound, heard>>

EvidenceNext ==
    \/ \E e \in EvidenceRequests : StartRound(<<e>>)
    \/ StartRound(<<>>)
    \/ \E i \in DOMAIN targets :
         \/ StartTask(i) \/ CollectorRaises(i)
         \/ \E risk \in EvidenceRisks : CollectorAnswers(i, risk)
    \/ GatherReturns
    \/ \E risk \in EvidenceRisks : ExecuteSkills(risk)
    \/ MergeRound

EvidenceSpec == EvidenceInit /\ [][EvidenceNext]_evidenceVars

-----------------------------------------------------------------------------
(***************************************************************************)
(* Properties                                                              *)
(***************************************************************************)

\* The graph of the investigation is what was answered, over all the rounds
\* and in whatever order the collectors finish or fail: each entity's risk is
\* the highest score any answer gave it (a collector's counts unless an
\* earlier entity of the round has the same id), no round lowers it, and the
\* risk tracker was fed once for every round that ended since there was a
\* risk.  The limit on concurrent collectors holds throughout.
EvidenceAccounts ==
    /\ Cardinality(In("running")) <= MaxParallelTasks
    /\ gathering = "idle" =>
         \A e \in {h.entity : h \in heard} :
            LET mine == {h \in heard : h.entity = e}
                sure == {h.risk : h \in {x \in mine : x.first}}
                since == {h.round : h \in {x \in mine : x.risk > 0 /\ x.first}}
            IN  /\ e \in DOMAIN graph
                /\ graph[e] \in {h.risk : h \in mine}
                /\ \A r \in sure : graph[e] >= r
                /\ fed[e] <= evRound - Min({h.round : h \in mine}) + 1
                /\ since # {} => fed[e] >= evRound - Min(since) + 1

TaskStates == {"none", "waiting", "running", "collected", "failed"}
HeardAnswer == [entity : EvidenceEntity, risk : Nat, round : Nat, first : BOOLEAN]

EvidenceTypeOK ==
    /\ seeds \in Seq(EvidenceEntity) /\ targets \in Seq(EvidenceEntity)
    /\ task \in [DOMAIN targets -> TaskStates]
    /\ noderisk \in [DOMAIN targets -> Nat]
    /\ skilled \in 0..Len(targets)
    /\ graph \in [DOMAIN graph -> Nat] /\ fed \in [DOMAIN fed -> Nat]
    /\ links \subseteq [from : EvidenceEntity, to : EvidenceEntity]
    /\ gathering \in {"idle", "collect", "skills"}
    /\ evRound \in Nat /\ (gathering # "idle" => evRound > 0)
    /\ heard \subseteq HeardAnswer

\* Only what has a collector is collected.
TasksCollect ==
    \A i \in DOMAIN targets : task[i] # "none" => targets[i].type \in CollectorTypes

\* What a node or the graph says was answered; a target is in the graph once
\* its skills were executed, and the tracker knows no entity the graph lacks.
RisksHeard ==
    /\ \A i \in DOMAIN targets :
          noderisk[i] # 0 => \E h \in heard : h.entity = targets[i] /\ h.risk = noderisk[i]
    /\ \A e \in DOMAIN graph : \E h \in heard : h.entity = e /\ h.risk = graph[e]
    /\ \A i \in 1..skilled : targets[i] \in DOMAIN graph
    /\ DOMAIN fed \subseteq DOMAIN graph
    /\ gathering = "idle" => DOMAIN fed = DOMAIN graph

\* An answer counts in the graph, or its node waits for the merge.
HeardCounts ==
    \A h \in heard :
        /\ h.round \in 1..evRound
        /\ \/ h.entity \in DOMAIN graph /\ (h.first => graph[h.entity] >= h.risk)
           \/ /\ gathering # "idle" /\ h.round = evRound
              /\ \E i \in DOMAIN targets :
                    /\ targets[i] = h.entity /\ task[i] = "collected"
                    /\ h.first => Registered(i) /\ noderisk[i] >= h.risk

RoundsEnded == IF gathering = "idle" THEN evRound ELSE evRound - 1

\* The tracker was fed once for each round that ended since there was a risk.
FedEachRound ==
    /\ \A e \in DOMAIN fed :
          \E h \in heard : h.entity = e /\ fed[e] <= RoundsEnded - h.round + 1
    /\ \A h \in heard : h.first /\ h.risk > 0 /\ h.round <= RoundsEnded =>
          h.entity \in DOMAIN fed /\ fed[h.entity] >= RoundsEnded - h.round + 1

\* The inductive strengthening behind EvidenceAccounts.
EvidenceInvariant ==
    /\ EvidenceTypeOK
    /\ Cardinality(In("running")) <= MaxParallelTasks
    /\ TasksCollect
    /\ RisksHeard
    /\ HeardCounts
    /\ FedEachRound
=============================================================================
