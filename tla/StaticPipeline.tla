---------------------------- MODULE StaticPipeline ----------------------------
(***************************************************************************)
(* The deterministic investigation of OrchestratorAgent                    *)
(* (_execute_stream_static, without its playbook branch): the five phases  *)
(* of pipeline_core's static plan over one shared blackboard, with the     *)
(* adaptive loop after the RCA phase.  An agent that raises is reported as *)
(* failed and the plan goes on; inside the adaptive loop the exception is  *)
(* swallowed.  action_counts is only kept by the supervisor, so it stays   *)
(* at zero here.                                                           *)
(***************************************************************************)
EXTENDS InvestigationAgents

VARIABLES
    pc,         \* where the generator is
    ctx,        \* the InvestigationContext of the run
    completed,  \* tasks whose report has status COMPLETED
    failed,     \* tasks whose report has status FAILED
    rcaReport,  \* confidence_score in the report stored under "task-rca"
    verdict     \* synthesis["verdict"], "none" until it is computed

vars == <<pc, ctx, completed, failed, rcaReport, verdict>>

Locations == {"triage", "collect", "compress", "rca", "adapt", "reEvidence", "reRca",
              "respond", "synthesis", "done"}
Tasks == {"task-triage", "task-evidence", "task-discovery", "task-compression",
          "task-rca", "task-response"}

Init ==
    /\ pc = "triage"
    /\ ctx = EmptyContext
    /\ completed = {}
    /\ failed = {}
    /\ rcaReport = NoRca
    /\ verdict = "none"

-----------------------------------------------------------------------------
Goto(l) == pc' = l

Reported(task, ok) ==
    /\ completed' = IF ok THEN completed \cup {task} ELSE completed
    /\ failed' = IF ok THEN failed ELSE failed \cup {task}

Triage ==
    /\ pc = "triage"
    /\ \/ /\ \E seeds \in SUBSET Entities, severe, promoted \in BOOLEAN :
                ctx' = RunTriage(ctx, seeds, severe, promoted)
          /\ Reported("task-triage", TRUE)
       \/ UNCHANGED ctx /\ Reported("task-triage", FALSE)
    /\ Goto("collect")
    /\ UNCHANGED <<rcaReport, verdict>>

\* The requests of this run give a reason and no entities.
EvidenceCollected == \E promoted \in BOOLEAN : ctx' = RunEvidence(ctx, {}, promoted)

\* Requests are marked resolved before the collection that may raise.
EvidenceRaises == ctx' \in {ctx, ResolveFor(ctx, "evidence_agent")}

\* asyncio.gather of evidence and discovery; discovery only reports.
Collect ==
    /\ pc = "collect"
    /\ \E evidence, discovery \in BOOLEAN :
          /\ IF evidence THEN EvidenceCollected ELSE EvidenceRaises
          /\ completed' = completed \cup (IF evidence THEN {"task-evidence"} ELSE {})
                                    \cup (IF discovery THEN {"task-discovery"} ELSE {})
          /\ failed' = failed \cup (IF evidence THEN {} ELSE {"task-evidence"})
                              \cup (IF discovery THEN {} ELSE {"task-discovery"})
    /\ Goto("compress")
    /\ UNCHANGED <<rcaReport, verdict>>

\* Mutant of Compress: an exception leaves no report.
CompressUnreported ==
    /\ pc = "compress"
    /\ \/ ctx' = RunCompression(ctx) /\ Reported("task-compression", TRUE)
       \/ UNCHANGED <<ctx, completed, failed>>
    /\ Goto("rca")
    /\ UNCHANGED <<rcaReport, verdict>>

Compress ==
    /\ pc = "compress"
    /\ \/ ctx' = RunCompression(ctx) /\ Reported("task-compression", TRUE)
       \/ UNCHANGED ctx /\ Reported("task-compression", FALSE)
    /\ Goto("rca")
    /\ UNCHANGED <<rcaReport, verdict>>

RcaAnswers ==
    \/ \E confidence \in Confidences, mentionsUnknown \in BOOLEAN :
          ctx' = RunRcaStatic(ctx, confidence, mentionsUnknown)
    \/ ctx' = RunRcaFallback(ctx)

Rca ==
    /\ pc = "rca"
    /\ \/ RcaAnswers /\ rcaReport' = ctx'.rca /\ Reported("task-rca", TRUE)
       \/ UNCHANGED <<ctx, rcaReport>> /\ Reported("task-rca", FALSE)
    /\ Goto("adapt")
    /\ UNCHANGED verdict

\* The adaptive loop.  Its reports go under -iter<n> keys that nothing reads.
Adapt ==
    /\ pc = "adapt"
    /\ NeedsReinvestigation(ctx)
    /\ ctx' = [ctx EXCEPT !.iteration = @ + 1]
    /\ Goto("reEvidence")
    /\ UNCHANGED <<completed, failed, rcaReport, verdict>>

ReEvidence ==
    /\ pc = "reEvidence"
    /\ EvidenceCollected \/ EvidenceRaises
    /\ Goto("reRca")
    /\ UNCHANGED <<completed, failed, rcaReport, verdict>>

ReRca ==
    /\ pc = "reRca"
    /\ RcaAnswers \/ UNCHANGED ctx
    /\ Goto("adapt")
    /\ UNCHANGED <<completed, failed, rcaReport, verdict>>

StopAdapting ==
    /\ pc = "adapt"
    /\ ~NeedsReinvestigation(ctx)
    /\ Goto("respond")
    /\ UNCHANGED <<ctx, completed, failed, rcaReport, verdict>>

\* The rule-based plan of a failed model call posts nothing.
Respond ==
    /\ pc = "respond"
    /\ \/ ctx' \in {ctx, RunResponseStatic(ctx)} /\ Reported("task-response", TRUE)
       \/ UNCHANGED ctx /\ Reported("task-response", FALSE)
    /\ Goto("synthesis")
    /\ UNCHANGED <<rcaReport, verdict>>

Synthesize ==
    /\ pc = "synthesis"
    /\ verdict' = VerdictFor(rcaReport)
    /\ Goto("done")
    /\ UNCHANGED <<ctx, completed, failed, rcaReport>>

Next == \/ Triage \/ Collect \/ Compress \/ Rca
        \/ Adapt \/ ReEvidence \/ ReRca \/ StopAdapting
        \/ Respond \/ Synthesize

Spec == Init /\ [][Next]_vars

\* Every await in the generator returns or raises, and the event loop runs it.
FairSpec == Spec /\ WF_vars(Next)

-----------------------------------------------------------------------------
(* Properties *)

\* Types of the run's state.
TypeOK ==
    /\ pc \in Locations
    /\ ctx \in Context
    /\ completed \in SUBSET Tasks
    /\ failed \in SUBSET Tasks
    /\ rcaReport \in Confidences \cup {NoRca, HeuristicConfidence}
    /\ verdict \in {"none", "low", "moderate", "high"}

\* The static run is an investigation run: whichever agents raise, and even if
\* the model never answers or keeps asking for evidence, the rounds are bounded,
\* and one plan and one verdict follow the last of them.
Stage == CASE pc = "triage" -> "started"
           [] pc = "synthesis" -> "concluding"
           [] pc = "done" -> "concluded"
           [] OTHER -> "investigating"
Run == INSTANCE InvestigationRun WITH
           stage <- Stage, rounds <- ctx.iteration,
           planned <- "task-response" \in completed
ImplementsRun == Run!FairSpec

\* When planning starts with budget left over, no request for evidence is open
\* and no confidence is low: not even when rounds of the loop have failed.
NothingLeftOpen ==
    pc \in {"respond", "synthesis", "done"} /\ ctx.iteration < MaxIterations =>
        ~EvidenceRequested(ctx) /\ ~LowConfidence(ctx)

\* A task is reported as completed or as failed, never both, and at the end
\* every task of the plan is.
EveryTaskReported ==
    /\ completed \cap failed = {}
    /\ pc = "done" => completed \cup failed = Tasks

\* The tasks that have been reported when the generator is at a location.
TasksBefore == [triage     |-> {},
                collect    |-> {"task-triage"},
                compress   |-> Tasks \ {"task-compression", "task-rca", "task-response"},
                rca        |-> Tasks \ {"task-rca", "task-response"},
                adapt      |-> Tasks \ {"task-response"},
                reEvidence |-> Tasks \ {"task-response"},
                reRca      |-> Tasks \ {"task-response"},
                respond    |-> Tasks \ {"task-response"},
                synthesis  |-> Tasks,
                done       |-> Tasks]

\* The inductive strengthening behind the properties above: at every location
\* exactly the tasks before it are reported, and the quotas, which the loop's
\* condition reads, are never spent on this path.
InductiveInvariant ==
    /\ TypeOK
    /\ ctx.rca \in Confidences \cup {NoRca, HeuristicConfidence}
    /\ \A a \in Actions : ctx.counts[a] = 0
    /\ completed \cap failed = {}
    /\ completed \cup failed = TasksBefore[pc]
    /\ NothingLeftOpen

-----------------------------------------------------------------------------
(* What a doc of the code says, and the code does not do. *)

\* ROADMAP.md:231 "Cap at 3 iterations to prevent infinite loops": the cap reads
\* action_counts, which this path never increments.
ReinvestigationCapped == ctx.iteration <= MaxActionIterations
===============================================================================
