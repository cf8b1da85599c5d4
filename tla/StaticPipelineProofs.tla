------------------------- MODULE StaticPipelineProofs -------------------------
(***************************************************************************)
(* Proofs about StaticPipeline for every set of entities, every set of     *)
(* confidences and every budget.  The invariant is InductiveInvariant of   *)
(* StaticPipeline: the reports are exactly those of the tasks before the   *)
(* generator's location, and the quotas stay at zero, so that the loop is  *)
(* only left with a round to spare when nothing is open.                   *)
(***************************************************************************)
EXTENDS StaticPipeline, BlackboardLemmas

USE DEF NoRca

-----------------------------------------------------------------------------
(* What an agent's turn may leave on the blackboard, raising or not. *)

LEMMA EvidenceTurn ==
    ASSUME ctx \in Context, EvidenceCollected \/ EvidenceRaises
    PROVE  ctx' \in Context /\ SameProgress(ctx, ctx')
<1>1. CASE EvidenceCollected
  BY <1>1, EvidenceKeeps DEF EvidenceCollected
<1>2. CASE EvidenceRaises
  <2>1. SameProgress(ctx, ctx)
    BY DEF SameProgress
  <2> QED
    BY <1>2, <2>1, ResolveKeeps DEF EvidenceRaises
<1> QED
  BY <1>1, <1>2

LEMMA RcaTurn ==
    ASSUME ctx \in Context, RcaAnswers
    PROVE  /\ ctx' \in Context /\ SameBudget(ctx, ctx')
           /\ ctx'.rca \in Confidences \cup {HeuristicConfidence}
<1>1. CASE ctx' = RunRcaFallback(ctx)
  BY <1>1, RcaFallbackKeeps DEF Analysed
<1>2. CASE \E confidence \in Confidences, mentionsUnknown \in BOOLEAN :
              ctx' = RunRcaStatic(ctx, confidence, mentionsUnknown)
  BY <1>2, RcaStaticKeeps DEF Analysed
<1> QED
  BY <1>1, <1>2 DEF RcaAnswers

\* The part of the invariant that only speaks of the blackboard.
BoardInvariant == /\ ctx \in Context
                  /\ ctx.rca \in Confidences \cup {NoRca, HeuristicConfidence}
                  /\ \A a \in Actions : ctx.counts[a] = 0

LEMMA ProgressKeepsBoard ==
    ASSUME BoardInvariant, ctx' \in Context, SameProgress(ctx, ctx')
    PROVE  BoardInvariant'
  BY DEF BoardInvariant, SameProgress

LEMMA RcaKeepsBoard ==
    ASSUME BoardInvariant, RcaAnswers
    PROVE  BoardInvariant'
  BY RcaTurn DEF BoardInvariant, SameBudget

\* The part that speaks of the reports.
ReportsMatch == /\ completed \cap failed = {}
                /\ completed \cup failed = TasksBefore[pc]

\* The invariant in the two parts each action is looked at in.
LEMMA InvariantParts ==
    InductiveInvariant <=>
        /\ BoardInvariant
        /\ ReportsMatch
        /\ NothingLeftOpen
        /\ pc \in Locations /\ completed \in SUBSET Tasks /\ failed \in SUBSET Tasks
        /\ rcaReport \in Confidences \cup {NoRca, HeuristicConfidence}
        /\ verdict \in {"none", "low", "moderate", "high"}
  BY DEF InductiveInvariant, BoardInvariant, ReportsMatch, TypeOK

LEMMA PartsRestore ==
    ASSUME BoardInvariant', ReportsMatch', NothingLeftOpen',
           pc' \in Locations, completed' \in SUBSET Tasks, failed' \in SUBSET Tasks,
           rcaReport' \in Confidences \cup {NoRca, HeuristicConfidence},
           verdict' \in {"none", "low", "moderate", "high"}
    PROVE  InductiveInvariant'
  BY DEF InductiveInvariant, BoardInvariant, ReportsMatch, TypeOK

-----------------------------------------------------------------------------
(* The invariant holds initially and is preserved by every step. *)

LEMMA InitInductive == Init => InductiveInvariant
<1> SUFFICES ASSUME Init PROVE InductiveInvariant
  OBVIOUS
<1> USE DEF Init, EmptyContext
<1>1. BoardInvariant
  BY DEF BoardInvariant, Context
<1>2. ReportsMatch
  BY DEF ReportsMatch, TasksBefore
<1>3. NothingLeftOpen
  BY DEF NothingLeftOpen
<1> QED
  BY <1>1, <1>2, <1>3, InvariantParts DEF Locations

LEMMA NextInductive ==
    ASSUME InductiveInvariant, [Next]_vars
    PROVE  InductiveInvariant'
<1>0. /\ BoardInvariant /\ ReportsMatch /\ NothingLeftOpen
      /\ completed \in SUBSET Tasks /\ failed \in SUBSET Tasks
      /\ rcaReport \in Confidences \cup {NoRca, HeuristicConfidence}
      /\ verdict \in {"none", "low", "moderate", "high"}
      /\ ctx \in Context /\ SameProgress(ctx, ctx)
  BY InvariantParts DEF BoardInvariant, SameProgress
<1> USE DEF Goto, Locations
<1>1. CASE Triage
  <2>1. ctx' \in Context /\ SameProgress(ctx, ctx')
    BY <1>0, <1>1, TriageKeeps DEF Triage
  <2>2. ReportsMatch'
    BY <1>0, <1>1 DEF Triage, Reported, ReportsMatch, TasksBefore, Tasks
  <2>3. NothingLeftOpen'
    BY <1>1 DEF Triage, NothingLeftOpen
  <2>4. completed' \in SUBSET Tasks /\ failed' \in SUBSET Tasks
    BY <1>0, <1>1 DEF Triage, Reported, Tasks
  <2> QED
    BY <1>0, <1>1, <2>1, <2>2, <2>3, <2>4, ProgressKeepsBoard, PartsRestore DEF Triage
<1>2. CASE Collect
  <2>1. ctx' \in Context /\ SameProgress(ctx, ctx')
    BY <1>0, <1>2, EvidenceTurn DEF Collect
  <2>2. PICK evidence \in BOOLEAN, discovery \in BOOLEAN :
          /\ completed' = completed \cup (IF evidence THEN {"task-evidence"} ELSE {})
                                    \cup (IF discovery THEN {"task-discovery"} ELSE {})
          /\ failed' = failed \cup (IF evidence THEN {} ELSE {"task-evidence"})
                              \cup (IF discovery THEN {} ELSE {"task-discovery"})
    BY <1>2 DEF Collect
  <2>3. ReportsMatch'
    <3>1. pc = "collect" /\ pc' = "compress"
      BY <1>2 DEF Collect
    <3>2. completed \cap failed = {} /\ completed \cup failed = {"task-triage"}
      BY <1>0, <3>1 DEF ReportsMatch, TasksBefore
    <3>3. completed' \cap failed' = {}
      BY <2>2, <3>2
    <3>4. completed' \cup failed' = {"task-triage", "task-evidence", "task-discovery"}
      BY <2>2, <3>2
    <3> QED
      BY <3>1, <3>3, <3>4 DEF ReportsMatch, TasksBefore, Tasks
  <2>4. NothingLeftOpen'
    BY <1>2 DEF Collect, NothingLeftOpen
  <2>5. completed' \in SUBSET Tasks /\ failed' \in SUBSET Tasks
    BY <1>0, <2>2 DEF Tasks
  <2> QED
    BY <1>0, <1>2, <2>1, <2>3, <2>4, <2>5, ProgressKeepsBoard, PartsRestore DEF Collect
<1>3. CASE Compress
  <2>1. BoardInvariant'
    BY <1>0, <1>3, CompressionKeeps DEF Compress, BoardInvariant
  <2>2. ReportsMatch'
    BY <1>0, <1>3 DEF Compress, Reported, ReportsMatch, TasksBefore, Tasks
  <2>3. NothingLeftOpen'
    BY <1>3 DEF Compress, NothingLeftOpen
  <2>4. completed' \in SUBSET Tasks /\ failed' \in SUBSET Tasks
    BY <1>0, <1>3 DEF Compress, Reported, Tasks
  <2> QED
    BY <1>0, <1>3, <2>1, <2>2, <2>3, <2>4, PartsRestore DEF Compress
<1>4. CASE Rca
  <2>1. BoardInvariant' /\ rcaReport' \in Confidences \cup {NoRca, HeuristicConfidence}
    <3>1. CASE RcaAnswers /\ rcaReport' = ctx'.rca
      BY <1>0, <3>1, RcaTurn, RcaKeepsBoard
    <3>2. CASE UNCHANGED <<ctx, rcaReport>>
      BY <1>0, <3>2, ProgressKeepsBoard
    <3> QED
      BY <1>4, <3>1, <3>2 DEF Rca
  <2>2. ReportsMatch'
    BY <1>0, <1>4 DEF Rca, Reported, ReportsMatch, TasksBefore, Tasks
  <2>3. NothingLeftOpen'
    BY <1>4 DEF Rca, NothingLeftOpen
  <2>4. completed' \in SUBSET Tasks /\ failed' \in SUBSET Tasks
    BY <1>0, <1>4 DEF Rca, Reported, Tasks
  <2> QED
    BY <1>0, <1>4, <2>1, <2>2, <2>3, <2>4, PartsRestore DEF Rca
<1>5. CASE Adapt
  <2>1. BoardInvariant'
    BY <1>0, <1>5 DEF Adapt, BoardInvariant, Context
  <2>2. ReportsMatch' /\ NothingLeftOpen'
    BY <1>0, <1>5 DEF Adapt, ReportsMatch, TasksBefore, NothingLeftOpen
  <2> QED
    BY <1>0, <1>5, <2>1, <2>2, PartsRestore DEF Adapt
<1>6. CASE ReEvidence
  <2>1. ctx' \in Context /\ SameProgress(ctx, ctx')
    BY <1>0, <1>6, EvidenceTurn DEF ReEvidence
  <2>2. ReportsMatch' /\ NothingLeftOpen'
    BY <1>0, <1>6 DEF ReEvidence, ReportsMatch, TasksBefore, NothingLeftOpen
  <2> QED
    BY <1>0, <1>6, <2>1, <2>2, ProgressKeepsBoard, PartsRestore DEF ReEvidence
<1>7. CASE ReRca
  <2>1. BoardInvariant'
    BY <1>0, <1>7, RcaKeepsBoard, ProgressKeepsBoard DEF ReRca
  <2>2. ReportsMatch' /\ NothingLeftOpen'
    BY <1>0, <1>7 DEF ReRca, ReportsMatch, TasksBefore, NothingLeftOpen
  <2> QED
    BY <1>0, <1>7, <2>1, <2>2, PartsRestore DEF ReRca
<1>8. CASE StopAdapting
  <2>1. ctx' = ctx /\ pc' = "respond" /\ pc = "adapt" /\ ~NeedsReinvestigation(ctx)
    BY <1>8 DEF StopAdapting
  <2>2. ctx.counts["gather_evidence"] < MaxActionIterations
    BY <1>0, ContextAssumption DEF BoardInvariant, Actions, WorkActions
  <2>3. NothingLeftOpen'
    BY <2>1, <2>2 DEF NothingLeftOpen, NeedsReinvestigation
  <2>4. BoardInvariant'
    BY <1>0, <2>1, ProgressKeepsBoard
  <2>5. ReportsMatch'
    BY <1>0, <1>8 DEF StopAdapting, ReportsMatch, TasksBefore
  <2> QED
    BY <1>0, <1>8, <2>3, <2>4, <2>5, PartsRestore DEF StopAdapting
<1>9. CASE Respond
  <2>1. ctx' \in {ctx, RunResponseStatic(ctx)} /\ pc = "respond" /\ pc' = "synthesis"
    BY <1>9 DEF Respond
  <2>2. ctx' \in Context /\ SameProgress(ctx, ctx')
    BY <1>0, <2>1, ResponseStaticKeeps
  <2>3. NothingLeftOpen'
    <3>1. /\ EvidenceRequested(ctx') <=> EvidenceRequested(ctx)
          /\ LowConfidence(ctx') <=> LowConfidence(ctx)
          /\ ctx'.iteration = ctx.iteration
      BY <1>0, <2>1, <2>2, ResponseAsksNothing DEF SameProgress
    <3> QED
      BY <1>0, <2>1, <3>1 DEF NothingLeftOpen
  <2>4. ReportsMatch'
    BY <1>0, <1>9 DEF Respond, Reported, ReportsMatch, TasksBefore, Tasks
  <2>5. completed' \in SUBSET Tasks /\ failed' \in SUBSET Tasks
    BY <1>0, <1>9 DEF Respond, Reported, Tasks
  <2> QED
    BY <1>0, <1>9, <2>2, <2>3, <2>4, <2>5, ProgressKeepsBoard, PartsRestore DEF Respond
<1>10. CASE Synthesize
  <2>1. BoardInvariant'
    BY <1>0, <1>10, ProgressKeepsBoard DEF Synthesize
  <2>2. ReportsMatch' /\ NothingLeftOpen'
    BY <1>0, <1>10 DEF Synthesize, ReportsMatch, TasksBefore, NothingLeftOpen
  <2>3. verdict' \in {"low", "moderate", "high"}
    BY <1>10 DEF Synthesize, VerdictFor
  <2> QED
    BY <1>0, <1>10, <2>1, <2>2, <2>3, PartsRestore DEF Synthesize
<1>11. CASE UNCHANGED vars
  BY <1>11 DEF vars, InductiveInvariant, TypeOK, NothingLeftOpen
<1> QED
  BY <1>1, <1>2, <1>3, <1>4, <1>5, <1>6, <1>7, <1>8, <1>9, <1>10, <1>11 DEF Next

-----------------------------------------------------------------------------
(* The theorems. *)

\* The strengthened invariant, which the remaining theorems follow from.
THEOREM InvariantHolds == Spec => []InductiveInvariant
  BY InitInductive, NextInductive, PTL DEF Spec

\* The state of a run is well typed.
THEOREM TypeCorrect == Spec => []TypeOK
<1>1. InductiveInvariant => TypeOK
  BY DEF InductiveInvariant
<1> QED
  BY <1>1, InvariantHolds, PTL

\* Planning that starts with budget left over finds no open request and no low
\* confidence, whichever agents raised in whichever rounds.
THEOREM NothingOpenTheorem == Spec => []NothingLeftOpen
<1>1. InductiveInvariant => NothingLeftOpen
  BY DEF InductiveInvariant
<1> QED
  BY <1>1, InvariantHolds, PTL

\* Every task of the plan is reported once, as completed or as failed.
THEOREM ReportedTheorem == Spec => []EveryTaskReported
<1>1. InductiveInvariant => EveryTaskReported
  BY DEF InductiveInvariant, EveryTaskReported, TasksBefore
<1> QED
  BY <1>1, InvariantHolds, PTL

-----------------------------------------------------------------------------
(* The static run implements InvestigationRun, step by step. *)

\* What the abstract specification sees of a state.
LEMMA StageOf ==
    ASSUME pc \in Locations
    PROVE  /\ pc = "triage" => Stage = "started"
           /\ pc \in {"collect", "compress", "rca", "adapt", "reEvidence", "reRca", "respond"}
                 => Stage = "investigating"
           /\ pc = "synthesis" => Stage = "concluding"
           /\ pc = "done" => Stage = "concluded"
  BY DEF Stage

LEMMA StageOfNext ==
    ASSUME pc' \in Locations
    PROVE  /\ pc' \in {"collect", "compress", "rca", "adapt", "reEvidence", "reRca", "respond"}
                 => Stage' = "investigating"
           /\ pc' = "synthesis" => Stage' = "concluding"
           /\ pc' = "done" => Stage' = "concluded"
  BY DEF Stage

LEMMA InitRefines == Init => Run!Init
  BY DEF Init, Run!Init, Stage, EmptyContext

LEMMA NextRefines ==
    ASSUME InductiveInvariant, [Next]_vars
    PROVE  [Run!Next]_Run!vars
<1>0. /\ BoardInvariant /\ ReportsMatch /\ ctx \in Context /\ SameProgress(ctx, ctx)
      /\ pc \in Locations
  BY InvariantParts DEF BoardInvariant, SameProgress
<1> DEFINE planned == "task-response" \in completed
<1>i. pc' \in Locations
  BY NextInductive DEF InductiveInvariant, TypeOK
<1> USE DEF Goto
<1>1. CASE Triage
  <2>1. SameProgress(ctx, ctx')
    BY <1>0, <1>1, TriageKeeps DEF Triage
  <2>2. Stage = "started" /\ Stage' = "investigating"
    BY <1>0, <1>i, <1>1, StageOf, StageOfNext DEF Triage
  <2>3. planned' = planned /\ verdict' = verdict
    BY <1>1 DEF Triage, Reported
  <2>4. Run!Triaged
    BY <2>1, <2>2, <2>3 DEF Run!Triaged, SameProgress
  <2> QED
    BY <2>4 DEF Run!Next
<1>2. ASSUME pc \in {"collect", "compress", "rca", "adapt", "reEvidence", "reRca"},
             pc' \in {"compress", "rca", "adapt", "reEvidence", "reRca", "respond"},
             ctx'.iteration = ctx.iteration, planned' = planned, verdict' = verdict
      PROVE  UNCHANGED Run!vars
  <2>1. Stage = "investigating" /\ Stage' = "investigating"
    BY <1>0, <1>i, <1>2, StageOf, StageOfNext
  <2> QED
    BY <1>2, <2>1 DEF Run!vars
<1>3. CASE Collect
  <2>1. SameProgress(ctx, ctx')
    BY <1>0, <1>3, EvidenceTurn DEF Collect
  <2>2. planned' = planned
    BY <1>3 DEF Collect
  <2> QED
    BY <1>2, <1>3, <2>1, <2>2 DEF Collect, SameProgress
<1>4. CASE Compress
  <2>1. ctx'.iteration = ctx.iteration
    BY <1>0, <1>4, CompressionKeeps DEF Compress
  <2> QED
    BY <1>2, <1>4, <2>1 DEF Compress, Reported
<1>5. CASE Rca
  <2>1. ctx'.iteration = ctx.iteration
    BY <1>0, <1>5, RcaTurn DEF Rca, SameBudget
  <2> QED
    BY <1>2, <1>5, <2>1 DEF Rca, Reported
<1>6. CASE Adapt
  <2>1. Stage = "investigating" /\ Stage' = "investigating"
    BY <1>0, <1>i, <1>6, StageOf, StageOfNext DEF Adapt
  <2>2. ctx.iteration < MaxIterations /\ ctx'.iteration = ctx.iteration + 1
    BY <1>0, <1>6 DEF Adapt, NeedsReinvestigation, Context
  <2>3. Run!Round
    BY <1>6, <2>1, <2>2 DEF Adapt, Run!Round
  <2> QED
    BY <2>3 DEF Run!Next
<1>7. CASE ReEvidence
  <2>1. SameProgress(ctx, ctx')
    BY <1>0, <1>7, EvidenceTurn DEF ReEvidence
  <2> QED
    BY <1>2, <1>7, <2>1 DEF ReEvidence, SameProgress
<1>8. CASE ReRca
  <2>1. ctx'.iteration = ctx.iteration
    BY <1>0, <1>8, RcaTurn DEF ReRca, SameBudget
  <2> QED
    BY <1>2, <1>8, <2>1 DEF ReRca
<1>9. CASE StopAdapting
  BY <1>2, <1>9 DEF StopAdapting
<1>10. CASE Respond
  <2>1. Stage = "investigating" /\ Stage' = "concluding"
    BY <1>0, <1>i, <1>10, StageOf, StageOfNext DEF Respond
  <2>2. ctx'.iteration = ctx.iteration
    BY <1>0, <1>10, ResponseStaticKeeps DEF Respond, SameProgress
  <2>3. Run!EndRounds
    BY <1>10, <2>1, <2>2 DEF Respond, Run!EndRounds
  <2> QED
    BY <2>3 DEF Run!Next
<1>11. CASE Synthesize
  <2>1. Stage = "concluding" /\ Stage' = "concluded"
    BY <1>0, <1>i, <1>11, StageOf, StageOfNext DEF Synthesize
  <2>2. verdict' \in {"low", "moderate", "high"}
    BY <1>11 DEF Synthesize, VerdictFor
  <2>3. Run!Conclude
    BY <1>11, <2>1, <2>2 DEF Synthesize, Run!Conclude
  <2> QED
    BY <2>3 DEF Run!Next
<1>12. CASE UNCHANGED vars
  BY <1>12 DEF vars, Run!vars, Stage
<1> QED
  BY <1>1, <1>3, <1>4, <1>5, <1>6, <1>7, <1>8, <1>9, <1>10, <1>11, <1>12 DEF Next

\* Every behaviour of the static run is one of an investigation run: rounds
\* within the budget, then at most one plan, then one verdict.
THEOREM RunTheorem == Spec => Run!Spec
<1>1. InductiveInvariant /\ [Next]_vars => [Run!Next]_Run!vars
  BY NextRefines
<1> QED
  BY <1>1, InitRefines, InvariantHolds, PTL DEF Spec, Run!Spec
=============================================================================
