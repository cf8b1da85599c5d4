------------------------- MODULE InvestigationWorkflow -------------------------
(***************************************************************************)
(* The durable investigation (services/temporal_workflows.py): one         *)
(* workflow execution, the attempts of its activities, the approval signal *)
(* and its timer, and the cancel request of the API.                       *)
(*                                                                         *)
(* Temporal replays a workflow whose worker died, so a crash loses no      *)
(* workflow state; it loses the attempt the worker was on, which counts as *)
(* a failed attempt.  A result, a failure and a cancellation reach the     *)
(* workflow at the await it is suspended in, and it runs to its next await *)
(* in the same step.                                                       *)
(***************************************************************************)
EXTENDS InvestigationAgents, SupervisorAgent

CONSTANTS
    MaxAttempts,         \* maximum_attempts of the retry policy (3)
    MaxUnlimitedAttempts \* bound of the model on attempts that have no such limit

ASSUME WorkflowAssumption ==
    /\ MaxAttempts \in Nat \ {0}
    /\ MaxUnlimitedAttempts \in Nat \ {0}

VARIABLES
    ai,         \* input.use_ai_planner: the supervisor's path, or the static one
    pc,         \* the await the workflow is suspended in
    ctx,        \* context_dict
    decision,   \* action of the supervisor's last decision
    arrived,    \* activities of the static phase 2 whose result is in
    tries,      \* failed attempts of the activities being awaited
    reports,    \* keys of all_reports, without the number of an -iter<n> suffix
    approval,   \* _approval_decision
    seen,       \* the last signal came while the plan was waiting for it
    gate,       \* the decision the workflow acted on
    strays,     \* given-up attempts at the response that may still be running
    contained,  \* times the plan's actions have been carried out
    cancelled,  \* a cancel request was accepted
    outcome,    \* status of the workflow execution
    persisted   \* what the stores hold of the finished run

vars == <<ai, pc, ctx, decision, arrived, tries, reports, approval, seen, gate, strays,
          contained, cancelled, outcome, persisted>>

Locations == {"triage", "supervise", "act", "collect", "compress", "rca", "respond",
              "approval", "execute", "persist", "closed"}
Phases == {"triage", "supervise", "act", "collect", "compress", "rca", "respond"}
Activities == {"evidence", "discovery", "other"}

\* The loop's step reports carry the suffix, so their keys are not the static ones.
StepReport == [gather_evidence  |-> "task-evidence-iter",
               discover_network |-> "task-discovery-iter",
               compress_events  |-> "task-compression-iter",
               perform_rca      |-> "task-rca-iter"]
ReportKeys == {"task-triage", "task-evidence", "task-discovery", "task-compression",
               "task-rca", "task-response"} \cup {StepReport[a] : a \in WorkActions}

NotPersisted == [saved |-> FALSE, rca |-> FALSE]

Init ==
    /\ ai \in BOOLEAN
    /\ pc = "triage"
    /\ ctx = EmptyContext
    /\ decision = "none"
    /\ arrived = {}
    /\ tries = [a \in Activities |-> 0]
    /\ reports = {}
    /\ approval = "none" /\ seen = FALSE /\ gate = "none"
    /\ strays = 0 /\ contained = 0
    /\ cancelled = FALSE
    /\ outcome = "running"
    /\ persisted = NotPersisted

-----------------------------------------------------------------------------
(* Awaiting activities *)

\* The workflow moves on to its next await.
Goto(l) == pc' = l /\ tries' = [a \in Activities |-> 0]

AfterGate == UNCHANGED <<ai, approval, seen, gate, strays, contained, cancelled,
                         outcome, persisted>>

Report(key) == reports' = reports \cup {key}

Close(how) == Goto("closed") /\ outcome' = how

\* An attempt raised, timed out or died with its worker.  The retry policy
\* starts another one; after the last one the error leaves run().
AttemptFails ==
    /\ pc \in Phases
    /\ \E a \in IF pc = "collect" THEN {"evidence", "discovery"} \ arrived ELSE {"other"} :
          \/ /\ tries[a] + 1 < MaxAttempts
             /\ tries' = [tries EXCEPT ![a] = @ + 1]
             /\ UNCHANGED <<pc, outcome>>
          \/ /\ tries[a] + 1 >= MaxAttempts
             /\ Close("failed")
    /\ UNCHANGED <<ai, ctx, decision, arrived, reports, approval, seen, gate, strays,
                   contained, cancelled, persisted>>

Triage ==
    /\ pc = "triage"
    /\ \E seeds \in SUBSET Entities, severe, promoted \in BOOLEAN :
          ctx' = RunTriage(ctx, seeds, severe, promoted)
    /\ Report("task-triage")
    /\ Goto(IF ai THEN "supervise" ELSE "collect")
    /\ UNCHANGED <<decision, arrived>> /\ AfterGate

-----------------------------------------------------------------------------
(* The supervisor's path *)

Finished == [a \in Actions |-> IF a \in WorkActions THEN "act"
                               ELSE IF a = "terminate_benign" THEN "persist"
                               ELSE "respond"]

Take(c, action) ==
    /\ ctx' = RecordDecision(c, action)
    /\ decision' = action
    /\ Goto(Finished[action])
    /\ UNCHANGED <<arrived, reports>> /\ AfterGate

Supervise ==
    /\ pc = "supervise"
    /\ ctx.iteration < MaxIterations
    /\ \/ Stuck(ctx) /\ Take(ctx, Validated(ctx, "perform_rca"))
       \/ \E action \in Actions, pivots \in {{}} \cup {{e} : e \in Entities} :
             LET c == [ctx EXCEPT !.entities = @ \cup pivots]
                 a == Validated(c, action)
             IN  Take(FlagDrift(c, a), a)
       \/ Take(ctx, HeuristicDecision(ctx))

LoopExhausted ==
    /\ pc = "supervise"
    /\ ctx.iteration >= MaxIterations
    /\ Goto("respond")
    /\ UNCHANGED <<ctx, decision, arrived, reports>> /\ AfterGate

\* context_dict as the activity behind the decision may return it.
ActivityResults ==
    CASE decision = "gather_evidence" ->
            {RunEvidence(ctx, requested, promoted) :
                requested \in Requested(ctx), promoted \in BOOLEAN}
      [] decision = "discover_network" -> {ctx}
      [] decision = "compress_events" -> {RunCompression(ctx)}
      [] decision = "perform_rca" ->
            {RunRcaFallback(ctx)} \cup
            {RunRcaAi(ctx, confidence, posted) :
                confidence \in Confidences, posted \in SUBSET LlmMessages}

Act ==
    /\ pc = "act"
    /\ \E c \in ActivityResults : ctx' = [c EXCEPT !.iteration = @ + 1]
    /\ Report(StepReport[decision])
    /\ Goto("supervise")
    /\ UNCHANGED <<decision, arrived>> /\ AfterGate

-----------------------------------------------------------------------------
(* The static path *)

\* asyncio.gather: the phase is over when both results are in, and only the
\* evidence activity's context is kept.
CollectArrives(a) ==
    /\ pc = "collect"
    /\ a \in {"evidence", "discovery"} \ arrived
    /\ IF a = "evidence"
       THEN \E promoted \in BOOLEAN : ctx' = RunEvidence(ctx, {}, promoted)
       ELSE UNCHANGED ctx
    /\ IF arrived = {}
       THEN arrived' = {a} /\ UNCHANGED <<pc, tries, reports>>
       ELSE /\ arrived' = {}
            /\ reports' = reports \cup {"task-evidence", "task-discovery"}
            /\ Goto("compress")
    /\ UNCHANGED decision /\ AfterGate

Compress ==
    /\ pc = "compress"
    /\ ctx' = RunCompression(ctx)
    /\ Report("task-compression")
    /\ Goto("rca")
    /\ UNCHANGED <<decision, arrived>> /\ AfterGate

\* The loop check reads the context through from_dict, which pops the messages
\* from the dict; the dict is only rebuilt when the loop goes round again.
Rca ==
    /\ pc = "rca"
    /\ \E c \in {RunRcaFallback(ctx)} \cup
                {RunRcaStatic(ctx, confidence, mentionsUnknown) :
                    confidence \in Confidences, mentionsUnknown \in BOOLEAN} :
          IF NeedsReinvestigation(c)
          THEN ctx' = [c EXCEPT !.iteration = @ + 1] /\ Goto("collect")
          ELSE ctx' = [c EXCEPT !.messages = {}] /\ Goto("respond")
    /\ Report("task-rca")
    /\ UNCHANGED <<decision, arrived>> /\ AfterGate

-----------------------------------------------------------------------------
(* Response, approval, persistence *)

\* A model may recommend nothing; then there is no gate.
Respond ==
    /\ pc = "respond"
    /\ IF ai
       THEN \E posted \in SUBSET LlmMessages : ctx' = RunResponseAi(ctx, posted)
       ELSE ctx' \in {ctx, RunResponseStatic(ctx)}
    /\ Report("task-response")
    /\ \E recommended \in BOOLEAN : Goto(IF recommended THEN "approval" ELSE "persist")
    /\ UNCHANGED <<decision, arrived>> /\ AfterGate

\* approve_response overwrites the decision whenever it comes.
Signal ==
    /\ outcome = "running"
    /\ approval' \in {"approve", "reject"}
    /\ seen' = (pc = "approval")
    /\ UNCHANGED <<ai, pc, ctx, decision, arrived, tries, reports, gate, strays, contained,
                   cancelled, outcome, persisted>>

GateDecided ==
    /\ pc = "approval"
    /\ approval # "none"
    /\ gate' = approval
    /\ Goto(IF approval = "approve" THEN "execute" ELSE "persist")
    /\ UNCHANGED <<ai, ctx, decision, arrived, reports, approval, seen, strays, contained,
                   cancelled, outcome, persisted>>

\* Mutants of GateTimesOut: silence taken for consent; the timer is set again.
GateFailsOpen ==
    /\ pc = "approval"
    /\ approval = "none"
    /\ approval' = "timed_out" /\ gate' = "timed_out"
    /\ Goto("execute")
    /\ UNCHANGED <<ai, ctx, decision, arrived, reports, seen, strays, contained,
                   cancelled, outcome, persisted>>
GateTimerRestarts ==
    /\ pc = "approval"
    /\ approval = "none"
    /\ UNCHANGED vars

GateTimesOut ==
    /\ pc = "approval"
    /\ approval = "none"
    /\ approval' = "timed_out" /\ gate' = "timed_out"
    /\ Goto("persist")
    /\ UNCHANGED <<ai, ctx, decision, arrived, reports, seen, strays, contained, cancelled,
                   outcome, persisted>>

ExecuteSucceeds ==
    /\ pc = "execute"
    /\ contained' = contained + 1
    /\ Goto("persist")
    /\ UNCHANGED <<ai, ctx, decision, arrived, reports, approval, seen, gate, strays,
                   cancelled, outcome, persisted>>

\* This activity has no retry policy of its own, so Temporal retries it without
\* end.  The attempt may have carried out the plan before it failed (the audit
\* record comes last), or, given up after 60 seconds, may still do so.
ExecuteFails ==
    /\ pc = "execute"
    /\ tries["other"] < MaxUnlimitedAttempts
    /\ tries' = [tries EXCEPT !["other"] = @ + 1]
    /\ \/ contained' \in {contained, contained + 1} /\ UNCHANGED strays
       \/ strays' = strays + 1 /\ UNCHANGED contained
    /\ UNCHANGED <<ai, pc, ctx, decision, arrived, reports, approval, seen, gate,
                   cancelled, outcome, persisted>>

StrayRuns ==
    /\ strays > 0
    /\ strays' = strays - 1
    /\ contained' = contained + 1
    /\ UNCHANGED <<ai, pc, ctx, decision, arrived, tries, reports, approval, seen, gate,
                   cancelled, outcome, persisted>>

PersistSucceeds ==
    /\ pc = "persist"
    /\ persisted' = [saved |-> TRUE, rca |-> "task-rca" \in reports]
    /\ Close("completed")
    /\ UNCHANGED <<ai, ctx, decision, arrived, reports, approval, seen, gate, strays,
                   contained, cancelled>>

\* Mutant of PersistFails: a failed save is logged and forgotten.
PersistGivesUp ==
    /\ pc = "persist"
    /\ Close("completed")
    /\ UNCHANGED <<ai, ctx, decision, arrived, reports, approval, seen, gate, strays,
                   contained, cancelled, persisted>>

\* Retried without end as well; merge makes a second attempt harmless.
PersistFails ==
    /\ pc = "persist"
    /\ tries["other"] < MaxUnlimitedAttempts
    /\ tries' = [tries EXCEPT !["other"] = @ + 1]
    /\ UNCHANGED <<ai, pc, ctx, decision, arrived, reports, approval, seen, gate, strays,
                   contained, cancelled, outcome, persisted>>

\* Mutant of Cancel: the response activity does not swallow it.
CancelAnywhere ==
    /\ outcome = "running" /\ ~cancelled
    /\ cancelled' = TRUE
    /\ Close("canceled")
    /\ UNCHANGED <<ai, ctx, decision, arrived, reports, approval, seen, gate, strays,
                   contained, persisted>>

\* The cancellation is raised at the await.  Around the last two activities it
\* arrives as an ActivityError, which their except Exception swallows; an
\* attempt at the response that is under way goes on regardless.
Cancel ==
    /\ outcome = "running" /\ ~cancelled
    /\ cancelled' = TRUE
    /\ \/ /\ pc \in Phases \cup {"approval"}
          /\ Close("canceled")
          /\ UNCHANGED strays
       \/ /\ pc = "execute"
          /\ strays' \in {strays, strays + 1}
          /\ Goto("persist")
          /\ UNCHANGED outcome
       \/ /\ pc = "persist"
          /\ Close("completed")
          /\ UNCHANGED strays
    /\ UNCHANGED <<ai, ctx, decision, arrived, reports, approval, seen, gate, contained,
                   persisted>>

-----------------------------------------------------------------------------
Progress ==
    \/ Triage \/ Supervise \/ LoopExhausted \/ Act
    \/ CollectArrives("evidence") \/ CollectArrives("discovery") \/ Compress \/ Rca
    \/ Respond \/ GateDecided \/ GateTimesOut
    \/ ExecuteSucceeds \/ PersistSucceeds

Next == \/ Progress \/ AttemptFails \/ ExecuteFails \/ PersistFails
        \/ StrayRuns \/ Signal \/ Cancel

Spec == Init /\ [][Next]_vars

\* Temporal starts the next attempt of an activity or fires the timer, and an
\* activity that is retried without end succeeds at last.
FairSpec == Spec /\ WF_vars(Progress \/ AttemptFails)

-----------------------------------------------------------------------------
(* Properties *)

\* Types of the workflow's state.
TypeOK ==
    /\ ai \in BOOLEAN
    /\ pc \in Locations
    /\ ctx \in Context
    /\ decision \in Actions \cup {"none"}
    /\ arrived \in SUBSET {"evidence", "discovery"}
    /\ tries \in [Activities -> Nat]
    /\ reports \in SUBSET ReportKeys
    /\ approval \in {"none", "approve", "reject", "timed_out"}
    /\ seen \in BOOLEAN
    /\ gate \in {"none", "approve", "reject", "timed_out"}
    /\ strays \in Nat /\ contained \in Nat
    /\ cancelled \in BOOLEAN
    /\ outcome \in {"running", "completed", "failed", "canceled"}
    /\ persisted \in [saved : BOOLEAN, rca : BOOLEAN]

\* The workflow is an approval gate: signals before, during and after the wait,
\* the timer, retries, given-up attempts and cancellation never carry out a plan
\* that was not granted, and a decision that was acted on stands.
GateState == IF gate = "approve" THEN "granted"
             ELSE IF gate # "none" THEN "refused"
             ELSE IF pc = "approval" THEN "open"
             ELSE "shut"
Gate == INSTANCE ApprovalGate WITH
            gate <- GateState, contained <- contained > 0, over <- pc = "closed"
ImplementsGate == Gate!Spec

\* A workflow that ends as failed or canceled has carried out nothing and will
\* not: every step that can end it that way comes before the gate.
UnfinishedIsHarmless ==
    outcome \in {"failed", "canceled"} => contained = 0 /\ strays = 0

\* A run that ends as completed is in the stores unless it was being canceled.
CompletedIsPersisted == outcome = "completed" /\ ~cancelled => persisted.saved

\* A response plan is drawn up from a root cause analysis on either path, with
\* activities failing, being retried and handing the blackboard around by value.
\* The one exception is a supervisor that spent all its turns on other work.
PlanRestsOnRca ==
    "task-response" \in reports =>
        ctx.rca # NoRca \/ (ai /\ ctx.iteration >= MaxIterations)

\* The workflow is closed at last, whatever fails and whoever stays silent.
WorkflowCloses == <>(pc = "closed")

\* Nothing is carried out, now or by a given-up attempt, without a grant; the
\* response activity runs on one; no way of closing early lies behind one.
GateAccounted ==
    /\ pc \in Phases \cup {"approval"} => gate = "none"
    /\ pc = "execute" => gate = "approve"
    /\ gate # "approve" => contained = 0 /\ strays = 0
    /\ outcome = "running" <=> pc # "closed"
    /\ outcome \in {"failed", "canceled"} => gate # "approve"

\* On the supervisor's path a missing root cause means that no analysis has been
\* decided on, except the one being acted on; planning is then only reached by
\* running out of turns.
RcaAccounted ==
    /\ pc \in Phases => "task-response" \notin reports
    /\ pc \in {"supervise", "act"} => ai
    /\ pc = "act" => decision \in WorkActions
    /\ pc \in {"triage", "supervise", "act"} =>
          ctx.rca # NoRca
          \/ ctx.counts["perform_rca"] =
                (IF pc = "act" /\ decision = "perform_rca" THEN 1 ELSE 0)
    /\ pc = "respond" => ctx.rca # NoRca \/ (ai /\ ctx.iteration >= MaxIterations)

\* The inductive strengthening behind the properties above.
InductiveInvariant ==
    /\ TypeOK
    /\ GateAccounted
    /\ RcaAccounted
    /\ CompletedIsPersisted
    /\ PlanRestsOnRca

-----------------------------------------------------------------------------
(* What a docstring of the code says, and the code does not do. *)

\* routes/orchestrator.py:851 "Approve or reject a response plan that is pending
\* approval": a signal sent before there is a plan approves it unseen.
ApprovalSawPlan == gate = "approve" => seen
===============================================================================
