# A TLA+ model of the AI-assisted SOC

TLA+ modules, TLC configurations and TLAPS proofs about the backend of this
repository: a multi-agent pipeline that takes a security alert, investigates it
with agents built on a language model, draws up a response plan, has it approved
and carries it out. All paths below are relative to `src/backend/services/`
unless they say otherwise.

1. [The system](#1-the-system)
2. [Which module models what](#2-which-module-models-what)
3. [What the runs check](#3-what-the-runs-check)
4. [What is proved](#4-what-is-proved)
5. [Where the code and its words disagree](#5-where-the-code-and-its-words-disagree)
6. [Limits of the model](#6-limits-of-the-model)
7. [Plan](#7-plan)

Use: `tlc -config MCReactSupervisor.cfg MCReactSupervisor`, `tlapm
ReactSupervisorProofs.tla`. `PROJECT.json` lists the runs, the source lines
behind every definition, the mutants that show each property can fail, the
hazards of the code, the properties that watch them, and the theorems.

## 1. The system

An alert enters through `alert_intake.py` or directly through `POST
/investigate` (`api/routes/orchestrator.py`). The orchestrator (`orchestrator.py`)
runs one investigation as an asyncio generator, or the same phases run as the
activities of a Temporal workflow (`temporal_workflows.py`). Every agent of an
investigation reads and writes one shared *blackboard*, the
`InvestigationContext`. There are two ways to drive the phases: the *static*
plan of `pipeline_core.py` and the *autonomous* loop in which a supervisor chooses
one action at a time (`supervisor.py`). A response plan is carried out by the
`ResponseOrchestrator`, behind a maturity gate, a kill switch and possibly a
person.

| Component | State | Operations | Interacts with | Hard behaviour | Correct when |
|---|---|---|---|---|---|
| **Blackboard** `investigation_context.py` | entities, graph, timeline, RCA findings, messages, `iteration`, `action_counts` | post, resolve, record decision, `needs_reinvestigation`, `to_dict`/`from_dict` | every agent | passed by reference on one path and by value on the other; two budgets kept by different callers | the adaptive loop stops, and stops with nothing left that its budget could serve |
| **Supervisor decision** `supervisor.py`, `hypothesis_swarm.py`, `agentic_security.py` | none of its own | heuristic decision, validation, swarm, goal drift | blackboard, language model | the chosen action is rewritten after it was chosen; a capped one is replaced by an unvalidated heuristic | quotas hold, no plan without a root cause, the stuck loop is left |
| **Autonomous run** `orchestrator.py` 1815-2010 | loop position, reports, ledger | triage, decide, four actions, respond, synthesize | supervisor, agents, ledger | unguarded agent calls, two budgets, report keys | the loop ends by a decision; one plan, one verdict |
| **Static run** `orchestrator.py` 1674-1812, `pipeline_core.py` | phase, reports | five phases, adaptive loop | agents | two agents in parallel; exceptions reported or swallowed | every task reported, nothing left open |
| **Agents** `orchestrator.py` 120-1290, `triage/`, `evidence/` | none | triage, evidence, discovery, compression, RCA, response | blackboard, language model, risk tracker | fall back to rules when the model fails | each leaves the blackboard as the next one expects |
| **Durable workflow** `temporal_workflows.py` | workflow state, signal, attempts, stores | phases as activities, approval wait, execution, persistence, cancel | Temporal, API, database | retries, attempts that outlive their timeout, signals before, during and after the wait, timer, cancellation, worker crashes | a plan runs only if it was granted; every workflow closes |
| **Response orchestrator** `response_orchestration.py` 80-490, `response/` | kill switch, `active_actions`, execution log | execute plan, approve, engage/disengage switch, schedule remediation | maturity gate, skills, Neo4j, callback | calls share one object and suspend in two places | nothing runs without a ground; summaries agree with the log; the switch covers all that is tracked |
| **Incidents, adaptive investigation** `response_orchestration.py` 491-752, `api/routes/rca.py` | incident records, results, reports | respond, close, report; analyze, adaptive loop | response orchestrator | ids with one-second resolution, two executions of one plan, two suspended requests holding one record or one result | record, response and report tell one story; a closed incident stays closed; a loop spends its own budget |
| **Investigation API, progress stream** `api/routes/orchestrator.py`, `temporal_client.py` | list of finished runs, rows; what a stream has shown | investigate, stream, list, details, verdict, cancel | workflow, stores, memory | polling turns differences into events; the same row written by the end of a run and by an analyst; three stores that may be down | a stream that ends told everything; a verdict is not overwritten; a listing is honest |
| **Alert intake** `alert_intake.py`, `alert_deduplicator.py`, `entity_risk.py`, `alert_normalizer.py` | queue, rows, fingerprints, decayed risk | ingest, merge, clean up, hand out, reset | database, risk tracker | handlers await nothing, so they are atomic; the faults are outages of the database and restarts; two places hold the pending alerts | no alert is forgotten or handed out of the table twice; one announcement per promotion |
| **Ledger** `investigation_ledger.py` | steps in memory and in the database | record, replay, clear | autonomous run | restart and failed inserts between the two stores, numbers that start again | a replay accounts for every step of the current life, in order |
| **Playbook engine** `playbook_engine.py`, `orchestrator.py` 1610-1672 | playbooks, step results | load, match, execute a step, retry, abort | response orchestrator, agents | a step fails in the middle; an orchestrator of its own per isolation | the recorded status is what happened |
| **LLM access** `llm_client.py`, `llm_cache.py`, `model_router.py`, `rate_limiter.py`, `prompt_manager.py` | tokens, cache in Redis or in memory | acquire, get, set | every agent | a token bucket that gives up waiting, a cache that changes its store under its callers | bursts stay within the bucket; nothing is served past its time |
| **Correlation** `correlation_engine.py` | none | seven stages from raw events to a compressed package | API | each stage has thresholds and a fallback of its own | no hot entity is lost between the stages |
| **RCA engine** `rca_engine.py`, `sx_truerca/` | none | anomalies, topology, scores, root cause, gaps | API, package builder | ties, empty inputs, entities that come from a shared graph | the root cause is in the investigation's own evidence |
| **Evidence, discovery** `evidence_collection.py`, `orchestrator.py` 525-846, `discovery/` | entity graph, relationships, enrichment | a round of parallel collectors, skills, one merge | blackboard, risk tracker | collectors finish in any order or raise; two keys for one entity | the graph is what was answered; risk never falls |
| **Log ingestion, local intelligence** `evidence/`, `threat_intel/` | indexes | parse, scan | evidence agent | parsing | I/O and parsing |
| **Detection, self play** `detection_engine.py`, `self_play/`, `mitre_mapper.py` | rules on disk and in a singleton, drafts | match, run a campaign, file a draft, review | governance routes | drafts filed while rules are loaded elsewhere; comparisons that raise | reported coverage is that of enabled rules |
| **Packages, graph, reports** `investigation_builder.py`, `report_generation.py`, `graph_ingest.py` | one entity graph for the process, packages | compress, build, analyze; render | correlation, RCA engine | packages share mutable state | see the RCA engine |
| **Memory, retrieval** `memory/`, `rag_service.py` | priors in memory, verdicts in rows | record a verdict, distil, adjust | triage, API | a prior of one process does not reach another | triage is nudged only by enough rulings |
| **Persistence** `database/` | rows | save, merge | all | none | I/O |
| **Evaluation** scripts, tests; **Frontend** `src/frontend` | | | | | not part of the running backend |

The hardest parts are the supervisor's rewritten decisions against two budgets, the
adaptive loop with failing agents, the workflow's signals, timers and retries, and
the response orchestrator's suspended calls against the kill switch: those have
modules, runs and proof modules of their own. Around them stand services
whose difficulty lies in shared mutable objects, in two stores that are meant to
agree, and in restarts; they share one run, and three proof modules.

## 2. Which module models what

```
InvestigationContext            the blackboard, as operators on a record
  InvestigationAgents           one operator per agent
  SupervisorAgent               decisions, validation, swarm, drift
    ReactSupervisor             the autonomous run     --implements--> InvestigationRun
    StaticPipeline              the static run         --implements--> InvestigationRun
    InvestigationWorkflow       the durable workflow   --implements--> ApprovalGate
ResponseOrchestrator            concurrent plans, gate, kill switch
BlackboardLemmas                what each agent and each decision keeps
  ReactSupervisorProofs, StaticPipelineProofs, InvestigationWorkflowProofs
ResponseOrchestratorProofs      theorems about the four runs

EntityNames                     a name as a part of another
CorrelationEngine               the seven stages       (operators, one action)
RootCauseEngine                 scores, root cause     (operators)
  AnalysisService               packages over both
IncidentResponse                requests, incidents, reports
AdaptiveInvestigation           loops over shared results
AlertIntake                     queue, table, duplicates, risk
InvestigationLedger             steps in two stores
LlmAccess                       token bucket, cache, call
ProgressStream                  the polling stream against the workflow's progress
InvestigationApi                runs, rows, verdicts, listing, memory
PlaybookEngine                  the playbook branch of the static run
EvidenceCollection              a round of the evidence agent
SelfPlay                        rules, campaigns, drafts
  MCServices                    all twelve, one moving per behaviour
IncidentProofs                  IncidentResponse, AdaptiveInvestigation,
                                AnalysisService, CorrelationEngine
IntakeProofs                    LlmAccess, AlertIntake, EvidenceCollection
ApiProofs                       ProgressStream, InvestigationLedger, InvestigationApi,
                                PlaybookEngine, SelfPlay

MC*.tla                         constants for TLC
```

**InvestigationContext** has no variables. A context is a record; `rca` is the
confidence of `rca_findings`, as a percentage, or `NoRca` while they are empty.
`entity_graph` is the set of its nodes, `compressed_events` a Boolean, and
messages are kept as a set: two with the same type, target and resolution are
not told apart, since every reader asks only whether there is one.
`RecordDecision`, `PostMessage`, `PendingFor`, `ResolveFor` and
`NeedsReinvestigation` are the methods.

**InvestigationAgents** gives the blackboard after one `execute()` of each agent.
What the model answers is a parameter: the confidence of an RCA, the
messages it asks to be posted, the entities of the alert, and those a request it
posted names (`Requested`). Nothing is collected for the ids in `Unnamed`. RCA and response have
an AI-driven and a static variant, as in the code, and RCA a fallback for a
failed model call, whose confidence is 60 and which posts nothing.

**SupervisorAgent** gives `HeuristicDecision`, `Validated` (the prerequisite
rewrite, then the quota check, then the heuristic), `Stuck` (`should_swarm`) and
`Drifts`. `InvestigationSwarm`'s outcome is the proposal to run an RCA, which goes
through the same validation.

**ReactSupervisor** is `_execute_stream_react_supervisor`. `pc` is the generator's
position: one action per agent call, since an investigation is a single
coroutine and shares nothing but the risk tracker with others (whose effect,
promotion, is a free choice). `SwarmDecides`, `ModelDecides` and
`HeuristicDecides` are the three sources of a decision. `AgentRaises` is an
exception out of an unguarded agent call, which ends the generator.

**StaticPipeline** is `_execute_stream_static` without the playbook branch:
triage, evidence and discovery in one `gather`, compression, RCA, the adaptive
loop, response, synthesis. In the phases an exception is a FAILED report; in the
adaptive loop it is swallowed. `EvidenceRaises` may come after the requests were
marked resolved, as in `orchestrator.py:546`.

**InvestigationRun** is the abstract specification of both: triaged, at most
`MaxIterations` rounds, at most one plan, one verdict, or a failure before the
plan, and it ends.

**InvestigationWorkflow** is `InvestigationWorkflow.run` on both paths, its signal
and its timer, the retry policy, the attempts of activities, persistence, and
the cancel request. `pc` is the await the workflow is suspended in; a
result or a failure moves it to the next await in one step, as Temporal does. The
context travels by value, so a failed attempt leaves no trace on it. A worker
that dies fails its attempt. `strays` are attempts at the response that Temporal
has given up while their code is still running; they may still carry out the
plan. `GateDecided` is a step of its own even when the decision was there before
the wait began.

**ApprovalGate** is what the workflow promises of the plan: shut, open, granted
or refused; decided once; carried out only when granted; withdrawn when the
workflow closes.

**ResponseOrchestrator** is one orchestrator shared by concurrent calls of
`execute_response_plan`. A coroutine is suspended at two points only, the approval
callback and the blast-radius lookup in Neo4j: the skill handlers await nothing.
Everything between two such points is one action. `active_actions` is split into
`active[c]`, the entry of the action call `c` is in, and `scheduled[c]`, the
remediation entries, which nothing ever executes. `grant[c]` is a history
variable: on what ground the current action was let through.

**CorrelationEngine** gives each stage of `compress_events` an operator (time window,
entity aggregation, behavioural filter, deduplication, relationships, risk,
abstraction) and composes them in one action, since the code awaits nothing. A list
is a function on the positions its events had in the raw log: a stage drops
positions and never reorders those it keeps, so "the first of a key" is the lowest
position, and a stage says what it keeps by a set. Only the package, and the
top of a list without risky events, are sequences again. Scores are percentages, times are
minutes. The scorer looks for the name of an entity in the text of a pattern, and RCA in the
entity of an event; which names are part of others is the constant `Within` (EntityNames).
`AbstractEvents` empties the representative's own raw events before it gathers those of its
group, as the code does. An action of an event is known by its fingerprint class and the
keywords it contains; the MC module gives both as functions.

**RootCauseEngine** is `rca_engine.py` over the causal analyzer: anomalies,
topology, scores with and without it, the root cause, hypotheses with evidence
for and against, gaps, and recommendations by number. Factors are tenths, so that
no division is rounded.

**AnalysisService** is the routes `/compress`, `/investigate` and `/analyze`. The
package builder is one object for the process, so its entity graph and its list of
relationships are variables. A package copies the keys of the graph and holds the
list itself, hence `edges` is read when a package is analyzed and not stored in it.

**IncidentResponse** is `/respond`, `/close-incident` and `/generate-reports`. A
request is suspended in the first and in the second execution of its plan; a plan is
its outcome here, as the inside is ResponseOrchestrator. `incidents` maps an id,
a second of the clock, to the index of a record, and a request holds such an index
too, as the code holds a reference.

**AdaptiveInvestigation** is `/adaptive-loop`, and `/analyze` again for the same
package. Results are objects with an identity: a loop raises the one it holds,
which may no longer be the stored one.

**AlertIntake** is ingest, merge, cleanup, hand-out and the reset of risk. Every
handler is one action because none awaits. An alert is one object in the duplicate
table and the queue. `store` is the kind of database: none, one that enforces
the width of the status column, one that does not.

**InvestigationLedger** has the two stores and what `replay` returned. `steps` is a
history variable: which steps there were, of which life of the process.

**LlmAccess** is the path of a supervisor's decision to its model: look into the
cache, wait for a token, call, store the answer. Whether there is a Redis is found out
once, at the first look; one that was found may fail and return later, and the
memory stands in for it meanwhile.

**ProgressStream** has the workflow reduced to what it shows (`shown`), and the
generator with its five cursors (`stream`). `told` is a history variable: what was
sent since the client connected.

**InvestigationApi** has two ways to run an investigation, in the serving process
or by a worker; the rows both write; the list in memory; the verdict of an analyst
and what the memory learns of it. The persist activity reads and writes in two
steps, since another process may write between them. A listing is an operator of
the state and of which stores answer.

**PlaybookEngine** is the loader with its validation, the match, the four step types
and the policies for a failed step. Each agent of an investigate step may raise.

**EvidenceCollection** is one round of `EvidenceAgent.execute`: the entities of the
alert and of the requests, collectors under a semaphore, skills per entity,
merge (`MergedNodes`: what the nodes of the round make of the graph). `heard` is a history variable of the answers. Collectors register under
the bare id and the graph is keyed by type and id, which the module keeps apart.

**SelfPlay** is the evaluation of rules with the types of their values (a
comparison of a text with a number raises), campaigns, drafts and their review.
Rules written by people (`AuthoredRules`, `VendoredRules`) come with ids no rule on
disk has. That such a rule matches the event of its own technique is not the code's
doing; it is the named hypothesis `RulesCatch`, which MCServices asserts of its constants.

**MCServices** instantiates these twelve. `focus` is chosen initially and says which
one moves in the behaviour, the rest keep their initial values. They share no
variables, so nothing is lost by it, and the state spaces add up instead
of multiplying. Each service has a specification of its own (`IntakeSpec`,
`LedgerSpec`, ...), which is what the theorems are about, and the inductive
invariant behind its properties (`IntakeInvariant`, `LedgerInvariant`, ...).

## 3. What the runs check

| Run | Module, configuration | Checks | Distinct states |
|---|---|---|---|
| `react` | MCReactSupervisor, MCReactSupervisor.cfg | the invariants of the autonomous run at the code's own budgets (15, 3, 3) | 557,622 |
| `react_budget` | MCReactSupervisor, MCReactBudget.cfg | termination and `InvestigationRun`, with a budget the loop can run out of and messages posted by models | 38,586 |
| `static` | MCStaticPipeline, MCStaticPipeline.cfg | the static run at the code's own budgets; implements `InvestigationRun` | 854,160 |
| `response` | MCResponseOrchestrator, ResponseApproval.cfg | two concurrent calls, the switch, tier 1 | 338,033 |
| `workflow` | MCInvestigationWorkflow, Workflow.cfg | both paths of the durable workflow; implements `ApprovalGate`; closes | 242,774 |
| `services` | MCServices, Services.cfg | the twelve services of the second half of section 2 | 1,845,109 |
| `react_verdict`, `static_cap`, `response_halt`, `workflow_unseen`, `playbook_switch`, `intake_lost` | as above, with ReactVerdict, StaticCap, ResponseHalt, WorkflowUnseen, PlaybookSwitch, IntakeLost.cfg | statements of the docs that do not hold (section 5) | up to the counterexample |

### react

`QuotaRespected`: no action is taken more than three times although the action is
rewritten *after* the model chose it and the heuristic that replaces a capped
action is not validated again. `NeverExhausted`: with 15 turns and four quotas of
three the loop always ends by a decision; the exhausted branch of the loop is dead
code at the default budgets. `ContainmentRestsOnRca`: no containment plan without a
root cause analysis. `SwarmNeverGathers`: the swarm's proposal passes through the
validation that turns proposals into their prerequisites, and still never becomes
the gathering it is there to break. `PrematureClosureFlagged`: a severe alert
closed as benign before any RCA leaves its message, and no plan follows.

Three entities are exactly the swarm's threshold; a fourth changes nothing, as the
code looks only at whether there are three. Confidences 40 and 90 lie on either
side of 50 (drift), 70 (re-investigation) and 80 (verdict); 60, the fallback's,
lies between. Models post no messages here, as no decision of this path reads
messages: `react_budget` has them. Entities are interchangeable, hence the
symmetry; no liveness is checked under it.

### react_budget

Budget 3, quota 2, one entity with a name and one without, so that `LoopExhausted` and a plan without a root cause
happen. `RunEnds` and `ImplementsRun`: a single run, whatever model and agents do,
takes at most three rounds, has at most one plan after the last of them and one
verdict after that, or fails before the plan.

### static

`NothingLeftOpen`: when planning starts with budget left, no request for evidence
is open and no confidence is between 0 and 70, however many rounds of the loop
failed and whatever they half did. A round that fails has marked its request resolved
before it collects (546), so a request lost that way counts as answered here as in the
code: this property does not find it. `EveryTaskReported`: a task ends as completed or
failed and never both, with two agents raising in parallel. `ImplementsRun` includes
that the loop ends. Confidence 69 is just below the threshold, 0 is the value for
which `needs_reinvestigation` is false.

### response

`KillSwitchCovers`: while the switch is engaged no tracked action counts as
running, with calls arriving, suspending and resuming around it.
`ActiveIsInFlight`: an action is in `active_actions` exactly while its call is
suspended in it; every one of the exits of `_execute_action` passes the finally
block. `SummaryMatchesLog`: a summary accounts for each action once and reports
success exactly for what the log holds as completed. `ExecutionJustified`: an
action above the tier that completed was granted by a person, if there was a
callback, or was of critical priority, if not. `CallsEnd`: a call without a callback
returns.

Two calls, of two and three actions, suffice for every pair of positions in which
one holds while the other moves; the state they share is the switch and two
tables keyed by call. The plans hold a skill the tier lets through (radius 0 and
1), ones it does not (2 and 4), critical and not, and one outside the registry.

### workflow

`ImplementsGate`: signals before, during and after the wait, the timer, retries,
attempts given up and still running, and cancellation never carry out a plan that
was not granted, and a decision acted on is final. `UnfinishedIsHarmless`: a
workflow that ends as failed or canceled has carried out nothing and will not.
`CompletedIsPersisted`: one that ends as completed is in the stores unless it was
being canceled. `PlanRestsOnRca`: on both paths, with the context handed around by
value, a plan rests on an RCA, unless a supervisor spent all its turns elsewhere.
`WorkflowCloses`: it closes, whatever fails and whoever stays silent.

Two attempts stand for three: one that is retried and the last one. Three turns
are enough for every decision to be followed by every other one, and for exhaustion.

### services

Each property belongs to the component named with it; the number is the distinct
states of its focus.

* `HotEntityReported` (correlation, 16,332): an entity with a risk of at least 0.6
  inside the window, and no cooler event that intelligence matched, has exactly one
  event in the package, still at 0.6 or more. Every stage has its own threshold and
  fallback, and only their composition could lose it. Which raw events it still carries is
  no part of the property: the abstraction discards the representative's own (section 5). The
  condition on cooler matches (`Masked`) is real: such an event passes the behavioural
  filter on its match, and `deduplicate` keeps the first event of a fingerprint and not
  the riskiest, so it may stand for the hot one and fall below 0.6. The
  attempt to prove the property without the condition showed it; `MCMasked` is such a
  log, on which TLC refutes the property without the condition.
* `CausedByOwnEvidence` (analysis, 18,417): with one anomaly in its evidence, the
  root cause of an investigation is an entity of that evidence, although the graph
  and the edges are shared with other investigations and grow after the package
  was built.
* `IncidentConsistent`, `ClosedIsFinal` (incidents, 81,970): what a record says was executed
  is the plan of the result it names, also when its id was taken over by another
  incident while the plan ran; with an id of its own, record, stored response and
  reports speak of one result; a closed incident is reopened only by a second execution
  that holds this very record. That it is reopened then is what the code does:
  `execute_incident_response` does not look at the status.
* `LoopSpendsItsBudget` (adaptive, 2,377): a loop stops because its result reached
  the threshold, names no gap, or the loop itself used three iterations; another
  loop on the same object never costs it one.
* `AlertsAccounted`, `PromotedOnce` (intake, 553,495): an accepted alert nobody
  was given waits in the queue or as a pending row, unless a restart took the queue
  and no row held it; none is handed out of the table twice, across outages and
  restarts; an entity above the threshold is promoted, and each
  promotion is announced once until it is reset.
* `ReplayAccounts` (ledger, 45,785): a replay tells each life of the process in
  order, and lacks a step only if its life is over and its insert failed or the
  list holds steps of a newer life.
* `CallersServed` (model access, 70,018): calls that took a token stay within what
  the bucket allows over every interval, and no answer is served past its time,
  whichever store it came from.
* `StreamTellsAll`, `StreamEnds` (stream, 37,356): a stream that ended on a snapshot
  announced every report, the plan and the last round, however many changes one
  poll covered, also after a reconnect; the stream of a completed workflow ends.
* `MemoryRestsOnRulings`, `ListingHonest` (API, 802,273): the end of a run does not
  overwrite a verdict the table took; triage is adjusted only where enough investigations
  of the signature were ruled on, and by a tenth at most: with three investigations and
  two rulings demanded the third is adjusted in the run (TLC refutes `adjusted = 0`); an investigation is listed once, as completed
  only if it is (or a verdict alone made the row and Temporal could not correct it).
* `PlaybookAccounts` (playbooks, 12,504): completed means every step was run and no
  aborting one failed; no step isolates more than twice; the synthesis rests on
  the reports of one whole investigation or of none.
* `EvidenceAccounts` (evidence, 175,936): the risk of an entity is the highest
  answer it got, over rounds and orders of completion; the semaphore holds.
* `CoverageHonest` (self play, 28,646): a technique counts as caught for enabled
  rules only; a filed draft changes no result until a person enables it, and then
  catches what it was drafted from.

`CHECK_DEADLOCK FALSE`: a service that has processed the inputs its bound allows
stops. In `playbook_switch` and `intake_lost` likewise.

### Bounds

Every bound is a CONSTANT: `MaxIterations`, `MaxActionIterations`,
`SwarmThreshold` and `MaxAttempts` are the code's own limits; only
`MaxUnlimitedAttempts` is the model's: it bounds the failed attempts of the two
activities that the code retries without limit.

In `services` the numbers of inputs are bounds of the model: two alerts, three
ingests, two hand-outs, one tick of half a life, one outage, one restart
(`MaxAlerts`, `MaxIngests`, `MaxCalls`, `LastTick`, `MaxOutages`, `MaxRestarts`): a
duplicate after a cleanup, a promotion by the second alert and an outage between
an ingest and a hand-out all happen. Two requests within two seconds (`LastSecond`)
share an id or do not. Four steps over three lives (`MaxSteps`, `MaxLives`) let a
number be used by two lives. Two callers of one key, six moments, an expiry
of three, two failures or returns of Redis (`LastMoment`, `TTL`, `MaxSwitches`); the bucket of one
token (`Capacity`) which is earned in two polls (`PollsPerToken`), with two polls
before a caller goes on without (`MaxPolls`), stands for the code's ratio. Three
investigations (`InvIds`) of one signature, of which two rulings are demanded
(`MinSamples`), so that the third may be adjusted; at most two of them under Temporal
(`MaxWorkflows`), whose worker never distils and so adjusts none. An id is
made up at the start of a run, so unused ones are taken in a fixed order. Two lives of the
API. Two packages of two investigations, two
results of an analysis (`MaxResults`), two evidence rounds with two collectors at a time
(`MaxParallelTasks`, ten in the code) and up to four entities, two campaigns and
two reviews. `Manageable` (500 in the code) and `FailedLogins` (5) are scaled to
inputs of three events, so that both sides of each happen.

### Fairness

* ReactSupervisor, StaticPipeline: weak fairness of `Next`. The run is one
  coroutine on the event loop and the code waits for no other party; it is assumed
  that every call to a model, a database or a scanner returns or raises.
* ResponseOrchestrator: weak fairness of each call's own steps. None on answers,
  since the code awaits the callback without a timeout, and none on the switch. So
  nothing is promised for calls with a callback.
* InvestigationWorkflow: weak fairness of `Progress \/ AttemptFails`: Temporal
  starts the next attempt or fires the timer, and an activity retried without end
  succeeds at last (this is an assumption about the stores and Neo4j; without it
  the workflow would hang in `persist` for ever). None on signals or cancel requests.
* MCServices: weak fairness of the stream's poll and of nothing else: the generator
  sleeps for half a second and polls again as long as its client is there. Workers,
  databases, requests and analysts may stay away for ever.

## 4. What is proved

`tlapm` checks every proof to its last leaf. Every safety invariant and every action
property that a passing run checks is also a theorem, so the runs show it on a small
instance and the theorem for every value of the constants that the named `ASSUME`s
admit. TLC evaluates the assumptions on every run.

| Module | About | Theorems |
|---|---|---|
| **ReactSupervisorProofs** | autonomous run | `TypeCorrect`, `QuotaTheorem`, `SwarmTheorem`, `ClosureTheorem`, `RunTheorem`; under `Budget` also `NeverExhaustedTheorem`, `ContainmentTheorem` |
| **StaticPipelineProofs** | static run | `TypeCorrect`, `NothingOpenTheorem`, `ReportedTheorem`, `RunTheorem` |
| **InvestigationWorkflowProofs** | durable workflow | `TypeCorrect`, `HarmlessTheorem`, `PersistedTheorem`, `PlanTheorem`, `GateTheorem` |
| **ResponseOrchestratorProofs** | concurrent plans | `TypeCorrect`, `KillSwitchTheorem`, `ActiveTheorem`, `SummaryTheorem`, `JustifiedTheorem` |
| **IncidentProofs** | incidents, adaptive loops, analysis, correlation | `ConsistentTheorem`, `ClosedTheorem`, `BudgetTheorem`, `AnalysisTheorem`, `CompressionTheorem` |
| **IntakeProofs** | model access, intake, evidence | `ServedTheorem`, `AccountedTheorem`, `PromotedTheorem`, `EvidenceTheorem` |
| **ApiProofs** | stream, ledger, API, playbooks, self play | `StreamTheorem`, `ReplayTheorem`, `RulingsTheorem`, `ListingTheorem`, `PlaybookTheorem`, `CoverageTheorem` |

Where an inductive invariant is more than a service's property and its types it is a
theorem as well (`InvariantHolds`, `IntakeInvariantHolds`, ...). **BlackboardLemmas**
holds what the three runs over the blackboard have in common: what each agent's turn
keeps and what the heuristic and the validation may choose.

### Assumptions

* The runs over the blackboard: entities are finite in number, confidences are
  percentages, budgets and quotas are natural numbers and a quota is positive;
  messages a model posts are unresolved when posted. `Budget`, `MaxIterations > 4 *
  MaxActionIterations` (15 > 12 in the code), is a hypothesis of two theorems only: with
  a smaller budget a loop may run out of turns and plan without an analysis.
* Services: severities are 1 to 5, risks and raised confidences 0 to 100, capacities and
  lifetimes positive, the finite sets finite. `LastTick \in 0..3` in AlertIntake is the
  range in which its integer halving of risk is exact. A technique is of one step, as
  in the eight of `purple_team.py`, and the six random digits of a draft's id never repeat.
  Bounds on the number of inputs are arbitrary.
* `CoverageTheorem` has the hypothesis `RulesCatch` (section 2).
* A theorem about a service is about its own specification; MCServices moves the same
  actions one service at a time.

### The arguments

None of the properties is inductive alone. What each needs:

* **Autonomous run.** Quotas hold since the heuristic's last resort, `finalize_response`,
  still has quota: the loop is left at once by a terminal decision (`ExitsOnce`). The
  loop never runs out of turns since each turn spends one work decision
  (`WorkAccounted`), so with the quotas `iteration` is at most `4 *
  MaxActionIterations`. A plan rests on an RCA since RCA and compression leave their
  result on the blackboard (`ResultsOnBoard`): as long as there is no RCA its quota is
  unspent, so neither the rewrite nor the heuristic can slip past it.
* **Static run.** The reports are exactly those of the tasks before the generator's
  location, and the quotas, which the loop's condition also reads, stay at zero; so the
  loop is left only with nothing open or no round left.
* **Workflow.** The invariant has two sides that share only `pc`. Up to the gate:
  without an RCA none was decided on, except the one being acted on, or the turns are
  spent (`RcaAccounted`). Behind it: what was carried out, or still may be by a stray
  attempt, was granted (`GateAccounted`).
* **Response orchestrator.** What is known of a suspended action (`GrantHeld`): the
  ground it holds justifies it, so the step that logs it needs to know nothing of the
  other calls; and indices stay within the plans, so that a call's log entries are never
  about the action it is at.
* **Incidents.** The record, the stored response and the reports of an id are compared
  only where one request owns the id, which no step preserves. What every step preserves
  is that whatever speaks of an id speaks of the result of some request that was given it
  (`IdsSpeakOfRequests`).
* **Adaptive loops.** Objects only rise, whichever loop raises them.
* **Compression.** One lemma per stage says what the stage does to the hot event of an
  entity: kept, aggregated at no less risk, or represented by an event as hot. The
  stages take minima and maxima of sets without an induction theorem: `NatMin` uses
  that the natural numbers are well founded, `RiskMax` turns a maximum round.
* **Root cause.** Whatever the shared graph holds and whichever asset was taken for the
  target, the candidates are among the scored entities, which are those of the package's
  events, and an anomaly is always one of them (`RootIsOwn`).
* **Model access.** Grants are an accounting: what was paid since a grant and what is
  left in the bucket was in a full bucket or earned since (`GrantsPaid`). Entries expire a
  time to live after the model gave them, in either store.
* **Intake.** A row is in progress just when it was handed out, and no alert is of a
  life to come (`RowsTellHanded`).
* **Evidence.** Every answer counts in the graph or waits on a node for the merge
  (`HeardCounts`), and the graph says nothing that was not answered (`RisksHeard`); the
  tracker was fed once per ended round (`FedEachRound`).
* **Stream.** The generator is never ahead of the workflow and what its cursors hold was
  told (`StreamKeepsUp`).
* **Ledger.** The list is the current life in order (`ListIsTheLife`); within a life the
  index orders the rows (`RowsInOrder`), so a replay that sorts by index tells each life
  in order although lives reuse numbers.
* **API.** The stores agree on each investigation (`StoresAgree`); priors count no more than
  what was ruled (`PriorsRest`). `ListingHonest` is no conjunct: it follows, source by
  source of the listing.
* **Playbooks.** Steps run in order (`StepsInOrder`); an isolation belongs to a step or to
  the attempt under way (`IsolationsOfSteps`); the blackboard has of an attempt what
  its agents left (`BoardOfAttempt`), so a step returns a whole investigation or none.
* **Self play.** Every rule is written by a person or a draft that says what the event of
  its step is (`RulesAccounted`), hence an enabled draft catches that event; ids are
  unique although drafts are filed while other rules are loaded.

### Refinements

`RunTheorem` (twice) and `GateTheorem`: the initial states map to initial states, and
under the inductive invariant every step maps to one of the abstract specification or
to a stutter. `Stage` maps the location; a turn of the loop is a `Round`, within the
budget because a turn is begun only with one left (`TurnLeft`); a decision shows only if
it ends the rounds. At the gate, entering the approval wait maps to `Open`, leaving it to
`Decide`, an attempt that carries out the plan to `Contain`, also one given up and also after
the workflow closed, and everything else to `Close` or a stutter. `GateTheorem` is the whole
property of the run; `RunTheorem` is the property of the runs without its fairness.

### Only model-checked

* Liveness: `RunEnds`, `CallsEnd`, `WorkflowCloses`, `StreamEnds`, and the fairness part
  of `ImplementsRun`. ENABLED and fairness are out of the prover's reach.
* What folds and sorts compute: the total behind a package's risk, the median that anchors
  the window, the scores of RootCauseEngine. They need induction over sequences, whose
  theorems the installed provers cannot instantiate. The theorems above hold whatever
  these values are.
* That the violated statements of section 5 are violated: a counterexample is a run.

## 5. Where the code and its words disagree

Each of the first six is a run in which TLC finds the counterexample.

* `react_verdict`: the loop stores its RCA report under
  `task-perform_rca-iter<n>` (`orchestrator.py:1929`) and synthesis looks for
  `task-rca` (`pipeline_core.py:255`), so the verdict of every autonomous run is that of a
  missing RCA.
* `static_cap`: ROADMAP.md:231 caps the adaptive loop at three rounds;
  the cap reads `action_counts`, which this path never increments. It stops at 15.
* `response_halt`: `response_orchestration.py:95` says in-flight actions are
  halted immediately; the flag is read once, before two awaits.
* `workflow_unseen`: `api/routes/orchestrator.py:851` approves "a response plan that
  is pending approval"; a signal sent before there is a plan is kept and approves it.

* `playbook_switch`: `playbook_engine.py:9` promises isolation the full kill-switch path;
  every isolation makes an orchestrator of its own (265), whose switch is not engaged.
* `intake_lost`: `alert_intake.py:161` returns "all alerts currently pending"; with a
  database that answers, an alert without a row stays in the queue, which is not read.

Noticed while modelling, and without a run:

* `correlation_engine.py:423`: duplicates are dropped by keeping the first event of a
  fingerprint, not the riskiest; an earlier event with an intel match and little risk
  replaces a hot one (see `HotEntityReported`).
* `correlation_engine.py:592`: the representative of an entity has its list of raw events
  emptied before those of the group are gathered into it, its own among them; alone, it
  ends with its action only. The entity graph takes its evidence from what is left
  (`investigation_builder.py:138`).
* `orchestrator.py:546`: a failed round of evidence forgets the request it was for.
* `response_orchestration.py:670`: a late response reopens a closed incident.
* `supervisor.py:271`: "do compression first" holds for an RCA the model proposes; one
  that stands in for an early `finalize_response` (276) runs without a timeline.
* `investigation_ledger.py:6`: "every" decision is recorded; heuristic ones are not.
* ARCHITECTURE.md:388: low confidence requests evidence; the static RCA does so only
  when its findings mention something unknown.
* `pipeline_core.py:242`: reports of the adaptive loop's rounds are read by nothing, so
  a verdict is that of the first RCA.
* `response_orchestration.py:252`: without a callback, critical priority is enough.
* `response/maturity_gate.py:38`: tier 0 is "No automation: every action must be
  manually approved"; the table (66-72) lets it run minimal-radius skills, and each
  further tier one radius more than its comment says.
* `temporal_workflows.py:410`: a retry policy for activities; the last two have none.
* `temporal_workflows.py:234`: the RCA row is not written on the supervisor's path.
* `investigation_context.py:28`: `from_dict` pops the messages out of the dict it is
  given; on the static path the response agent then sees none.
* `temporal_workflows.py:321`: the approved plan runs on an orchestrator of its own, whose
  kill switch is not the one of the routes either.
* `temporal_workflows.py:693`: the persist activity has no bound on its attempts; with a
  database that stays away the workflow never closes.
* `api/routes/orchestrator.py:139`: a playbook run sends no `agent_complete`, so its record
  has no reports, and an aborted one is recorded as completed (144).
* `api/routes/orchestrator.py:55`: the end of a run sets the `risk_score` that a verdict may
  have written before.
* `api/routes/orchestrator.py:327`: the stream of a failed or cancelled workflow polls on
  for ever; "failed" is a status no snapshot has.
* `scripts/run_distillation.py`: distils into the memory of its own process; a worker's triage
  never asks it.
* `entity_risk.py:101` and `orchestrator.py:26`: "cross-alert" cumulative risk; several rounds of
  evidence over a single alert promote as well.
* `evidence_collection.py`: collects "recursively" up to a depth limit; nothing recurses.
* `self_play/purple_team.py`: drafts are filed on disk; the routes show the rules loaded
  at import (`api/routes/ai_governance.py:34`), so no draft is listed before a restart.
* `api/routes/orchestrator.py:872`: a cancellation during the last two activities is
  swallowed and the workflow completes.

## 6. Limits of the model

* Texts, prompts, timings, token costs and the contents of findings are left out;
  the answer of a language model is a free choice within its schema.
* The services of `MCServices` are checked each by itself. Their interactions with the
  runs are inputs: the outcome of a plan, the answer of a skill, the end of a workflow.
* Techniques are not modelled: triage records at most one, so the swarm's count of
  techniques never reaches its threshold.
* The maturity tier is a CONSTANT; it is read from the environment at start.
* Stray attempts of activities other than the response are left out: their
  result is thrown away and what they write is written again by the next attempt.
* In AlertIntake and LlmAccess time passes in ticks chosen so that the code's
  thresholds (window, half life, expiry) lie between two of them.

### Not modelled

* Log parsing, threat intelligence, YARA and VirusTotal (`evidence/`, `threat_intel/`):
  parsers of formats and look-ups in tables, without state another component reads.
  What they say of an event is an input (`intel` in CorrelationEngine).
* The bodies of skills (`evidence/skill_handlers.py`, `triage/`, `response/`) and the
  network probes of `discovery/`: each is a call to something outside; its answer is an
  input of EvidenceCollection, ResponseOrchestrator and PlaybookEngine.
* The vendors' formats in `alert_normalizer.py`: field by field renaming. Their results
  are the alerts of AlertIntake.
* Model router and prompts (`model_router.py`, `prompt_manager.py`): a choice of a name and
  of a text; retrieval and exemplars (`rag_service.py`, `memory/`): vector search,
  external.
* MITRE tables (`mitre_mapper.py`): constant tables.
* Reports (`report_generation.py`) and the copy of packages into Neo4j
  (`graph_ingest.py`): rendering and one-way I/O. That reports exist and of what is in
  IncidentResponse.
* Paging, filters and sorting of listings, texts of events and answers.
* The database layer (`database/`): sessions and tables; what callers do with rows is in
  their modules.
* Scripts, tests and the frontend: not part of the running backend.

## 7. Plan

Written, in this order: InvestigationContext, SupervisorAgent, InvestigationAgents,
ReactSupervisor and its proofs; StaticPipeline; InvestigationRun;
ResponseOrchestrator and its proofs; InvestigationWorkflow and ApprovalGate;
CorrelationEngine, RootCauseEngine, AnalysisService; IncidentResponse,
AdaptiveInvestigation; AlertIntake, InvestigationLedger, LlmAccess; ProgressStream,
InvestigationApi; PlaybookEngine, EvidenceCollection, SelfPlay; MCServices.

Proved, in this order: the autonomous run and its refinement; the response
orchestrator; the static run and its refinement; the workflow and its gate; incidents
and adaptive loops; model access, intake and evidence; stream, ledger, API, playbooks
and self play; the compression and the root cause.

To prove: that one call of ResponseOrchestrator implements what IncidentResponse takes
for a plan's outcome; lemmas that bound the scores of RootCauseEngine.

To compose: IncidentResponse with the calls of ResponseOrchestrator in place of their
outcomes; ProgressStream with InvestigationWorkflow in place of what it shows.
