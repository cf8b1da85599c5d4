--------------------------- MODULE ReactSupervisor ---------------------------
(***************************************************************************)
(* The autonomous investigation of OrchestratorAgent                       *)
(* (_execute_stream_react_supervisor): triage, then the loop in which the  *)
(* SupervisorAgent picks one action at a time, then response planning and  *)
(* synthesis.                                                              *)
(***************************************************************************)
EXTENDS InvestigationAgents, SupervisorAgent

VARIABLES
    pc,         \* where the generator is
    ctx,        \* the InvestigationContext of the run
    decision,   \* the supervisor's last decision, "none" before the first
    decidedBy,  \* who took it: "none", "swarm", "model" or "heuristic"
    reports,    \* keys of all_reports
    verdict     \* synthesis["verdict"], "none" until it is computed

vars == <<pc, ctx, decision, decidedBy, reports, verdict>>

Locations == {"triage", "decide", "act", "respond", "synthesis", "done", "crashed"}

\* The four keys synthesis looks up; a step of the loop reports under a key
\* with an -iter<n> suffix, whose number is left out here.
StepReport == [gather_evidence  |-> "task-gather_evidence-iter",
               discover_network |-> "task-discover_network-iter",
               compress_events  |-> "task-compress_events-iter",
               perform_rca      |-> "task-perform_rca-iter"]
ReportKeys == {"task-triage", "task-compression", "task-rca", "task-response"}
                  \cup {StepReport[a] : a \in WorkActions}

Init ==
    /\ pc = "triage"
    /\ ctx = EmptyContext
    /\ decision = "none"
    /\ decidedBy = "none"
    /\ reports = {}
    /\ verdict = "none"

-----------------------------------------------------------------------------
(* The generator *)

Triage ==
    /\ pc = "triage"
    /\ \E seeds \in SUBSET Entities, severe, promoted \in BOOLEAN :
          ctx' = RunTriage(ctx, seeds, severe, promoted)
    /\ reports' = reports \cup {"task-triage"}
    /\ pc' = "decide"
    /\ UNCHANGED <<decision, decidedBy, verdict>>

LoopExit == [a \in Actions |-> IF a \in WorkActions THEN "act"
                               ELSE IF a = "terminate_benign" THEN "synthesis"
                               ELSE "respond"]

\* record_supervisor_decision and the two early exits of the loop.
Take(c, action, who) ==
    /\ ctx' = RecordDecision(c, action)
    /\ decision' = action
    /\ decidedBy' = who
    /\ pc' = LoopExit[action]
    /\ UNCHANGED <<reports, verdict>>

\* Mutant of InLoop: off by one at the budget.
InLoopOnceMore == pc = "decide" /\ ctx.iteration <= MaxIterations

InLoop == pc = "decide" /\ ctx.iteration < MaxIterations

SwarmDecides ==
    /\ InLoop
    /\ Stuck(ctx)
    /\ Take(ctx, Validated(ctx, "perform_rca"), "swarm")

\* Also after a swarm that failed.  A pivot the model names is registered first.
ModelDecides ==
    /\ InLoop
    /\ \E action \in Actions, pivots \in {{}} \cup {{e} : e \in Entities} :
          LET c == [ctx EXCEPT !.entities = @ \cup pivots]
              a == Validated(c, action)
          IN  Take(FlagDrift(c, a), a, "model")

HeuristicDecides ==
    /\ InLoop
    /\ Take(ctx, HeuristicDecision(ctx), "heuristic")

\* Mutant of LoopExhausted: off by one at the budget.
LoopExhaustedLate ==
    /\ pc = "decide"
    /\ ctx.iteration > MaxIterations
    /\ pc' = "respond"
    /\ UNCHANGED <<ctx, decision, decidedBy, reports, verdict>>

LoopExhausted ==
    /\ pc = "decide"
    /\ ctx.iteration >= MaxIterations
    /\ pc' = "respond"
    /\ UNCHANGED <<ctx, decision, decidedBy, reports, verdict>>

\* The end of one turn of the loop: the step's report and the iteration count.
StepDone(c) ==
    /\ ctx' = [c EXCEPT !.iteration = @ + 1]
    /\ reports' = reports \cup {StepReport[decision]}
    /\ pc' = "decide"
    /\ UNCHANGED <<decision, decidedBy, verdict>>

GatherEvidence ==
    /\ pc = "act" /\ decision = "gather_evidence"
    /\ \E requested \in Requested(ctx), promoted \in BOOLEAN :
          StepDone(RunEvidence(ctx, requested, promoted))

DiscoverNetwork ==
    /\ pc = "act" /\ decision = "discover_network"
    /\ StepDone(ctx)

CompressEvents ==
    /\ pc = "act" /\ decision = "compress_events"
    /\ StepDone(RunCompression(ctx))

PerformRca ==
    /\ pc = "act" /\ decision = "perform_rca"
    /\ \/ \E confidence \in Confidences, posted \in SUBSET LlmMessages :
             StepDone(RunRcaAi(ctx, confidence, posted))
       \/ StepDone(RunRcaFallback(ctx))

PlanResponse ==
    /\ pc = "respond"
    /\ \E posted \in SUBSET LlmMessages : ctx' = RunResponseAi(ctx, posted)
    /\ reports' = reports \cup {"task-response"}
    /\ pc' = "synthesis"
    /\ UNCHANGED <<decision, decidedBy, verdict>>

\* The lookup of "task-rca" decides the confidence the verdict is based on.
Synthesize ==
    /\ pc = "synthesis"
    /\ verdict' = VerdictFor(IF "task-rca" \in reports THEN RcaConfidence(ctx) ELSE 0)
    /\ pc' = "done"
    /\ UNCHANGED <<ctx, decision, decidedBy, reports>>

\* No agent call is guarded, so an exception ends the generator.  The
\* discovery agent alone catches what its scan raises.
AgentRaises ==
    /\ \/ pc \in {"triage", "respond"}
       \/ pc = "act" /\ decision # "discover_network"
    /\ pc' = "crashed"
    /\ UNCHANGED <<ctx, decision, decidedBy, reports, verdict>>

Decide == SwarmDecides \/ ModelDecides \/ HeuristicDecides
Act == GatherEvidence \/ DiscoverNetwork \/ CompressEvents \/ PerformRca

Next ==
    \/ Triage
    \/ Decide
    \/ LoopExhausted
    \/ Act
    \/ PlanResponse
    \/ Synthesize
    \/ AgentRaises

Spec == Init /\ [][Next]_vars

\* Every await in the generator returns or raises, and the event loop runs it.
FairSpec == Spec /\ WF_vars(Next)

-----------------------------------------------------------------------------
(* Properties *)

\* Types of the run's state.
TypeOK ==
    /\ pc \in Locations
    /\ ctx \in Context
    /\ ctx.rca \in Confidences \cup {NoRca, HeuristicConfidence}
    /\ decision \in Actions \cup {"none"}
    /\ decidedBy \in {"none", "swarm", "model", "heuristic"}
    /\ reports \in SUBSET ReportKeys
    /\ verdict \in {"none", "low", "moderate", "high"}

\* No action is taken more often than its quota, although the prerequisite
\* rewrite replaces the model's action after it was chosen and the heuristic
\* that replaces a capped action is not validated again.
QuotaRespected == \A a \in Actions : ctx.counts[a] <= MaxActionIterations

\* With the default budgets the loop always ends by a decision: the four work
\* actions' quotas run out before the iteration budget does.
NeverExhausted == pc = "decide" => ctx.iteration < MaxIterations

\* A containment plan is only drawn up when some root cause analysis has run,
\* whatever the model answered and however often it failed.
ContainmentRestsOnRca ==
    (pc = "respond" \/ "task-response" \in reports) => ctx.rca # NoRca

\* The swarm is there to break the evidence-gathering loop: its decision is
\* never turned back into another round of gathering by the validation.
SwarmNeverGathers ==
    decidedBy = "swarm" => decision \in {"compress_events", "perform_rca"}

\* Closing a severe alert as benign before any root cause analysis leaves a
\* goal-drift message on the blackboard, and no containment plan follows.
PrematureClosureFlagged ==
    decision = "terminate_benign" =>
        /\ "task-response" \notin reports
        /\ ctx.severe /\ ctx.rca = NoRca => Unresolved("FYI", "*") \in ctx.messages

\* Every run comes to an end: a synthesis, or an agent's exception.
RunEnds == <>(pc \in {"done", "crashed"})

\* Work decisions taken so far.
WorkTaken(c) == c.counts["gather_evidence"] + c.counts["discover_network"]
                + c.counts["compress_events"] + c.counts["perform_rca"]

\* Every turn of the loop spends one work decision, the one being acted on included.
WorkAccounted ==
    /\ pc \in {"triage", "decide"} => WorkTaken(ctx) = ctx.iteration
    /\ pc = "act" => WorkTaken(ctx) = ctx.iteration + 1

\* Compression and RCA leave their result on the blackboard: without a result
\* the only decision ever taken for them is the one being acted on.
Running(action) == pc = "act" /\ decision = action
ResultsOnBoard ==
    pc \in {"triage", "decide", "act"} =>
        /\ ctx.timeline \/ ctx.counts["compress_events"]
                              = (IF Running("compress_events") THEN 1 ELSE 0)
        /\ ctx.rca # NoRca \/ ctx.counts["perform_rca"]
                                = (IF Running("perform_rca") THEN 1 ELSE 0)

\* The loop is left at once by a terminal decision and response planning runs once.
ExitsOnce ==
    /\ pc \in {"triage", "decide", "act"} =>
          \A a \in TerminalActions : ctx.counts[a] = 0 /\ decision # a
    /\ pc = "act" => decision \in WorkActions
    /\ pc \in {"triage", "decide", "act", "respond"} => "task-response" \notin reports
    /\ decision = "terminate_benign" => pc \in {"synthesis", "done"}

\* The default budgets: 15 turns of the loop for four quotas of 3.
Budget == MaxIterations > 4 * MaxActionIterations

\* A turn is only begun with a turn left, whatever the budget.
TurnLeft == pc = "act" => ctx.iteration < MaxIterations

\* The inductive strengthening behind the properties above.  Only that a plan
\* rests on an RCA needs a budget that exceeds the four quotas together.
InductiveInvariant ==
    /\ TypeOK
    /\ QuotaRespected
    /\ WorkAccounted
    /\ TurnLeft
    /\ ResultsOnBoard
    /\ ExitsOnce
    /\ Budget => ContainmentRestsOnRca
    /\ SwarmNeverGathers
    /\ PrematureClosureFlagged

\* The autonomous run is an investigation run: its plan and its verdict come
\* once, in that order, after the last turn of the loop.
Stage == CASE pc = "triage" -> "started"
           [] pc \in {"decide", "act", "respond"} -> "investigating"
           [] pc = "synthesis" -> "concluding"
           [] pc = "done" -> "concluded"
           [] pc = "crashed" -> "failed"
Run == INSTANCE InvestigationRun WITH
           stage <- Stage, rounds <- ctx.iteration,
           planned <- "task-response" \in reports
ImplementsRun == Run!FairSpec

-----------------------------------------------------------------------------
(* What a docstring of the code says, and the code does not do. *)

\* pipeline_core.py:242 "Synthesise all agent reports into a final
\* investigation verdict": the loop's RCA report is stored under another key.
VerdictReflectsRca == pc = "done" /\ ctx.rca >= 80 => verdict = "high"
===============================================================================
