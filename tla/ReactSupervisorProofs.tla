------------------------ MODULE ReactSupervisorProofs ------------------------
(***************************************************************************)
(* Proofs about ReactSupervisor for every set of entities and messages,    *)
(* every set of confidences, every quota and every budget.  The invariant  *)
(* is InductiveInvariant of ReactSupervisor.  Where the budget exceeds     *)
(* what the four work actions' quotas allow (Budget), the loop is only     *)
(* left by a decision, and no plan is drawn up without an analysis.        *)
(***************************************************************************)
EXTENDS ReactSupervisor, BlackboardLemmas

USE DEF NoRca

-----------------------------------------------------------------------------
(* The invariant holds initially and is preserved by each kind of step. *)

LEMMA InitInductive == Init => InductiveInvariant
<1> SUFFICES ASSUME Init PROVE InductiveInvariant
  OBVIOUS
<1> USE DEF Init, EmptyContext
<1>1. ctx \in Context
  BY DEF Context, Actions
<1>2. TypeOK
  BY <1>1 DEF TypeOK, Locations
<1>3. QuotaRespected
  BY ContextAssumption DEF QuotaRespected
<1>4. WorkAccounted /\ TurnLeft /\ ResultsOnBoard /\ ExitsOnce
  BY DEF WorkAccounted, WorkTaken, TurnLeft, ResultsOnBoard, Running, ExitsOnce,
         Actions, WorkActions, TerminalActions
<1>5. ContainmentRestsOnRca /\ SwarmNeverGathers /\ PrematureClosureFlagged
  BY DEF ContainmentRestsOnRca, SwarmNeverGathers, PrematureClosureFlagged
<1> QED
  BY <1>2, <1>3, <1>4, <1>5 DEF InductiveInvariant

\* A decision, whoever took it: its quota allows it or the heuristic chose it.
LEMMA TakeInductive ==
    ASSUME InductiveInvariant, InLoop,
           NEW c \in Context, SameProgress(ctx, c),
           NEW a \in Actions, HasQuota(c, a) \/ a = HeuristicDecision(c),
           NEW who \in {"swarm", "model", "heuristic"},
           a = "finalize_response" /\ c.rca = NoRca => a = HeuristicDecision(c),
           who = "swarm" => a \in {"compress_events", "perform_rca"},
           a = "terminate_benign" /\ c.severe /\ c.rca = NoRca
              => Unresolved("FYI", "*") \in c.messages,
           Take(c, a, who)
    PROVE  InductiveInvariant'
<1> USE DEF InductiveInvariant, Take, InLoop
<1> DEFINE r == RecordDecision(c, a)
<1>1. /\ r \in Context
      /\ r.counts = [c.counts EXCEPT ![a] = @ + 1]
      /\ r.iteration = c.iteration /\ r.timeline = c.timeline
      /\ r.rca = c.rca /\ r.severe = c.severe /\ r.messages = c.messages
  BY DEF RecordDecision, Context
<1>2. c.counts \in [Actions -> Nat] /\ ctx.counts = c.counts
      /\ c.timeline \in BOOLEAN /\ c.rca \in Int /\ c.iteration \in Nat
  BY DEF Context, SameProgress
<1>3. pc' = LoopExit[a] /\ pc' \in {"act", "synthesis", "respond"}
      /\ (pc' = "act" <=> a \in WorkActions)
      /\ (pc' = "respond" <=> a = "finalize_response")
      /\ (pc' = "synthesis" <=> a = "terminate_benign")
  BY DEF LoopExit, Actions, WorkActions, TerminalActions
<1>4. a = "finalize_response" => c.rca # NoRca
  <2>1. SUFFICES ASSUME a = "finalize_response", c.rca = NoRca PROVE FALSE
    OBVIOUS
  <2>2. ~HasQuota(c, "perform_rca")
    BY <2>1, HeuristicChoice DEF ReinvestigationThreshold
  <2>3. ctx.counts["perform_rca"] = 0
    BY <2>1, <1>2 DEF ResultsOnBoard, SameProgress, Running
  <2> QED
    BY <2>2, <2>3, <1>2, ContextAssumption DEF HasQuota
<1>5. HasQuota(c, a)
  <2>1. CASE a = "finalize_response"
    BY <2>1, <1>2, ContextAssumption DEF HasQuota, ExitsOnce, TerminalActions
  <2>2. CASE a # "finalize_response"
    BY <2>2, HeuristicChoice
  <2> QED
    BY <2>1, <2>2
<1>6. TypeOK'
  <2>1. ctx' \in Context /\ ctx'.rca \in Confidences \cup {NoRca, HeuristicConfidence}
    BY <1>1 DEF TypeOK, SameProgress
  <2> QED
    BY <2>1, <1>3 DEF TypeOK, Locations
<1>7. QuotaRespected'
  <2> SUFFICES ASSUME NEW b \in Actions
               PROVE  r.counts[b] <= MaxActionIterations
    BY DEF QuotaRespected
  <2>1. CASE b = a
    BY <2>1, <1>1, <1>2, <1>5, ContextAssumption DEF HasQuota
  <2>2. CASE b # a
    BY <2>2, <1>1, <1>2 DEF QuotaRespected
  <2> QED
    BY <2>1, <2>2
<1>8. WorkAccounted'
  <2>1. CASE a \in WorkActions
    <3>1. WorkTaken(r) = WorkTaken(c) + 1
      BY <2>1, <1>1, <1>2 DEF WorkTaken, Actions, WorkActions
    <3>2. WorkTaken(c) = c.iteration
      BY <1>2 DEF WorkAccounted, WorkTaken, SameProgress
    <3> QED
      BY <2>1, <3>1, <3>2, <1>1, <1>3 DEF WorkAccounted
  <2>2. CASE a \notin WorkActions
    BY <2>2, <1>3 DEF WorkAccounted
  <2> QED
    BY <2>1, <2>2
<1>9. ResultsOnBoard'
  <2>1. /\ c.timeline \/ c.counts["compress_events"] = 0
        /\ c.rca # NoRca \/ c.counts["perform_rca"] = 0
    BY DEF ResultsOnBoard, SameProgress, Running
  <2>2. CASE a \in WorkActions
    <3>1. r.counts["compress_events"] = c.counts["compress_events"]
                                          + (IF a = "compress_events" THEN 1 ELSE 0)
          /\ r.counts["perform_rca"] = c.counts["perform_rca"]
                                          + (IF a = "perform_rca" THEN 1 ELSE 0)
      BY <1>1, <1>2 DEF Actions, WorkActions
    <3>2. pc' = "act" /\ decision' = a /\ ctx' = r
      BY <2>2, <1>3
    <3>3. r.timeline \/ r.counts["compress_events"]
                           = (IF a = "compress_events" THEN 1 ELSE 0)
      BY <2>1, <3>1, <1>1, <1>2 DEF Actions, WorkActions
    <3>4. r.rca # NoRca \/ r.counts["perform_rca"]
                             = (IF a = "perform_rca" THEN 1 ELSE 0)
      BY <2>1, <3>1, <1>1, <1>2 DEF Actions, WorkActions
    <3> HIDE DEF r
    <3> QED
      BY <3>2, <3>3, <3>4 DEF ResultsOnBoard, Running
  <2>3. CASE a \notin WorkActions
    BY <2>3, <1>3 DEF ResultsOnBoard
  <2> QED
    BY <2>2, <2>3
<1>10. ExitsOnce'
  <2>1. CASE a \in WorkActions
    BY <2>1, <1>1, <1>2, <1>3
       DEF ExitsOnce, Actions, WorkActions, TerminalActions
  <2>2. CASE a \notin WorkActions
    BY <2>2, <1>3 DEF ExitsOnce, Actions
  <2> QED
    BY <2>1, <2>2
<1>11. ContainmentRestsOnRca'
  <2>1. "task-response" \notin reports'
    BY DEF ExitsOnce
  <2> QED
    BY <2>1, <1>1, <1>3, <1>4 DEF ContainmentRestsOnRca
<1>12. SwarmNeverGathers'
  BY DEF SwarmNeverGathers
<1>13. PrematureClosureFlagged'
  <2>1. "task-response" \notin reports'
    BY DEF ExitsOnce
  <2> QED
    BY <2>1, <1>1 DEF PrematureClosureFlagged
<1>14. TurnLeft'
  BY <1>1, <1>2 DEF TurnLeft, SameProgress
<1> QED
  BY <1>6, <1>7, <1>8, <1>9, <1>10, <1>11, <1>12, <1>13, <1>14

\* The end of a turn: what the agent changed besides its own result is not
\* part of the accounting.
LEMMA StepInductive ==
    ASSUME InductiveInvariant, pc = "act",
           NEW c \in Context, c.counts = ctx.counts, c.iteration = ctx.iteration,
           c.rca \in Confidences \cup {NoRca, HeuristicConfidence},
           c.timeline \/ (c.timeline = ctx.timeline /\ decision # "compress_events"),
           c.rca # NoRca \/ (c.rca = ctx.rca /\ decision # "perform_rca"),
           StepDone(c)
    PROVE  InductiveInvariant'
<1> USE DEF InductiveInvariant, StepDone
<1> DEFINE r == [c EXCEPT !.iteration = @ + 1]
<1>1. /\ r \in Context
      /\ r.iteration = ctx.iteration + 1 /\ r.counts = ctx.counts
      /\ r.timeline = c.timeline /\ r.rca = c.rca
  BY DEF Context
<1>2. decision \in WorkActions /\ decision \in Actions
  BY DEF ExitsOnce, Actions
<1>3. TypeOK'
  <2>1. StepReport[decision] \in ReportKeys
    BY <1>2 DEF ReportKeys
  <2> QED
    BY <1>1, <2>1 DEF TypeOK, Locations
<1>4. QuotaRespected'
  BY <1>1 DEF QuotaRespected
<1>5. WorkAccounted' /\ TurnLeft'
  BY <1>1 DEF WorkAccounted, WorkTaken, TurnLeft
<1>6. ResultsOnBoard'
  <2>1. r.timeline \/ r.counts["compress_events"] = 0
    BY <1>1 DEF ResultsOnBoard, Running
  <2>2. r.rca # NoRca \/ r.counts["perform_rca"] = 0
    BY <1>1 DEF ResultsOnBoard, Running
  <2> HIDE DEF r
  <2> QED
    BY <2>1, <2>2 DEF ResultsOnBoard, Running
<1>7. "task-response" \notin reports'
  BY <1>2 DEF ExitsOnce, StepReport, WorkActions
<1>8. ExitsOnce'
  BY <1>1, <1>7 DEF ExitsOnce
<1>9. ContainmentRestsOnRca' /\ SwarmNeverGathers'
  BY <1>7 DEF ContainmentRestsOnRca, SwarmNeverGathers
<1>10. PrematureClosureFlagged'
  BY <1>2 DEF PrematureClosureFlagged, WorkActions
<1> QED
  BY <1>3, <1>4, <1>5, <1>6, <1>8, <1>9, <1>10

-----------------------------------------------------------------------------
\* The four quotas together are smaller than the iteration budget.
LEMMA BudgetLeft ==
    ASSUME Budget, InductiveInvariant
    PROVE  NeverExhausted
<1> SUFFICES ASSUME pc = "decide" PROVE ctx.iteration < MaxIterations
  BY DEF NeverExhausted
<1>1. ctx.counts \in [Actions -> Nat] /\ ctx.iteration \in Nat
  BY DEF InductiveInvariant, TypeOK, Context
<1>2. \A a \in WorkActions : ctx.counts[a] \in Nat /\ ctx.counts[a] <= MaxActionIterations
  BY <1>1 DEF InductiveInvariant, QuotaRespected, Actions
<1>3. WorkTaken(ctx) <= 4 * MaxActionIterations
  BY <1>2, ContextAssumption DEF WorkTaken, WorkActions
<1>4. ctx.iteration = WorkTaken(ctx)
  BY DEF InductiveInvariant, WorkAccounted
<1> QED
  BY <1>1, <1>3, <1>4, ContextAssumption DEF Budget

LEMMA NextInductive ==
    ASSUME InductiveInvariant, [Next]_vars
    PROVE  InductiveInvariant'
<1> USE DEF InductiveInvariant
<1>0. ctx \in Context /\ ctx.rca \in Confidences \cup {NoRca, HeuristicConfidence}
  BY DEF TypeOK
<1>1. CASE Triage
  <2>1. PICK seeds \in SUBSET Entities, severe \in BOOLEAN, promoted \in BOOLEAN :
           ctx' = RunTriage(ctx, seeds, severe, promoted)
    BY <1>1 DEF Triage
  <2>2. ctx' \in Context /\ SameProgress(ctx, ctx')
    BY <2>1, <1>0, TriageKeeps
  <2>3. TypeOK'
    BY <1>0, <1>1, <2>2 DEF Triage, TypeOK, SameProgress, ReportKeys, Locations
  <2>4. QuotaRespected'
    BY <2>2 DEF QuotaRespected, SameProgress
  <2>5. WorkAccounted' /\ TurnLeft' /\ ResultsOnBoard'
    BY <1>1, <2>2
       DEF Triage, WorkAccounted, WorkTaken, TurnLeft, ResultsOnBoard, Running, SameProgress
  <2>6. ExitsOnce'
    BY <1>1, <2>2 DEF Triage, ExitsOnce, SameProgress
  <2>7. ContainmentRestsOnRca' /\ SwarmNeverGathers' /\ PrematureClosureFlagged'
    BY <1>1, <2>2 DEF Triage, ContainmentRestsOnRca, SwarmNeverGathers,
                      PrematureClosureFlagged, ExitsOnce
  <2> QED
    BY <2>3, <2>4, <2>5, <2>6, <2>7
<1>2. CASE SwarmDecides
  <2> DEFINE a == Validated(ctx, "perform_rca")
  <2>1. InLoop /\ Stuck(ctx) /\ Take(ctx, a, "swarm")
    BY <1>2 DEF SwarmDecides
  <2>2. ctx.counts \in [Actions -> Nat]
    BY <1>0 DEF Context
  <2>3. a \in {"compress_events", "perform_rca"}
    <3>1. ctx.counts["perform_rca"] = 0
      BY <2>1 DEF Stuck, InLoop, ResultsOnBoard, Running
    <3>2. ~ctx.timeline => ctx.counts["compress_events"] = 0
      BY <2>1 DEF InLoop, ResultsOnBoard, Running
    <3> QED
      BY <3>1, <3>2, ContextAssumption DEF Validated, WithPrerequisite, HasQuota
  <2>4. "perform_rca" \in Actions
    BY DEF Actions, WorkActions
  <2>5. a \in Actions /\ (HasQuota(ctx, a) \/ a = HeuristicDecision(ctx))
    BY <1>0, <2>4, ValidatedChoice
  <2>6. SameProgress(ctx, ctx)
    BY DEF SameProgress
  <2> HIDE DEF a
  <2> QED
    BY <1>0, <2>1, <2>3, <2>5, <2>6, TakeInductive
<1>3. CASE ModelDecides
  <2>1. PICK action \in Actions, pivots \in {{}} \cup {{e} : e \in Entities} :
           LET c == [ctx EXCEPT !.entities = @ \cup pivots]
               a == Validated(c, action)
           IN  Take(FlagDrift(c, a), a, "model")
    BY <1>3 DEF ModelDecides
  <2> DEFINE c == [ctx EXCEPT !.entities = @ \cup pivots]
             a == Validated(c, action)
             d == FlagDrift(c, a)
  <2>2. c \in Context /\ SameProgress(ctx, c)
    BY <1>0 DEF Context, SameProgress
  <2>3. Take(d, a, "model") /\ InLoop
    BY <1>3, <2>1 DEF ModelDecides
  <2> HIDE DEF c
  <2>4. d \in Context /\ SameProgress(c, d)
    BY <2>2, FlagKeeps
  <2>5. SameProgress(ctx, d) /\ d.graph = c.graph /\ d.severe = c.severe
    BY <2>2, <2>4 DEF SameProgress, FlagDrift, PostMessage, Context
  <2>6. /\ a \in Actions
        /\ HasQuota(c, a) \/ a = HeuristicDecision(c)
        /\ a = "finalize_response" /\ c.rca = NoRca => a = HeuristicDecision(c)
    BY <2>2, ValidatedChoice
  <2>7. /\ HasQuota(d, a) <=> HasQuota(c, a)
        /\ HeuristicDecision(d) = HeuristicDecision(c)
        /\ d.rca = c.rca
    BY <2>4, <2>5 DEF HasQuota, HeuristicDecision, SameProgress
  <2>8. a = "terminate_benign" /\ d.severe /\ d.rca = NoRca
          => Unresolved("FYI", "*") \in d.messages
    BY <2>2, <2>5, <2>7 DEF FlagDrift, Drifts, PostMessage, Context
  <2> HIDE DEF a, d
  <2> QED
    BY <2>3, <2>4, <2>5, <2>6, <2>7, <2>8, TakeInductive
<1>4. CASE HeuristicDecides
  <2> DEFINE a == HeuristicDecision(ctx)
  <2>1. InLoop /\ Take(ctx, a, "heuristic")
    BY <1>4 DEF HeuristicDecides
  <2>2. a \in Actions /\ a # "terminate_benign"
    BY <1>0, HeuristicChoice DEF Actions, WorkActions, TerminalActions
  <2>3. SameProgress(ctx, ctx)
    BY DEF SameProgress
  <2> QED
    BY <1>0, <2>1, <2>2, <2>3, TakeInductive
<1>5. CASE LoopExhausted
  <2>1. TypeOK' /\ QuotaRespected' /\ WorkAccounted' /\ TurnLeft' /\ ResultsOnBoard'
    BY <1>5 DEF LoopExhausted, TypeOK, Locations, QuotaRespected, WorkAccounted, TurnLeft,
                ResultsOnBoard
  <2>2. ExitsOnce' /\ SwarmNeverGathers' /\ PrematureClosureFlagged'
    BY <1>5 DEF LoopExhausted, ExitsOnce, SwarmNeverGathers, PrematureClosureFlagged
  <2>3. ~Budget
    BY <1>0, <1>5, BudgetLeft, ContextAssumption
       DEF LoopExhausted, NeverExhausted, Context
  <2> QED
    BY <2>1, <2>2, <2>3
<1>6. CASE GatherEvidence
  <2>1. PICK requested \in SUBSET Entities, promoted \in BOOLEAN :
           StepDone(RunEvidence(ctx, requested, promoted))
    BY <1>6 DEF GatherEvidence, Requested
  <2> DEFINE c == RunEvidence(ctx, requested, promoted)
  <2>2. c \in Context /\ SameProgress(ctx, c)
    BY <1>0, EvidenceKeeps
  <2>3. pc = "act" /\ decision = "gather_evidence"
    BY <1>6 DEF GatherEvidence
  <2> HIDE DEF c
  <2> QED
    BY <1>0, <2>1, <2>2, <2>3, StepInductive DEF SameProgress, c
<1>7. CASE DiscoverNetwork
  BY <1>0, <1>7, StepInductive DEF DiscoverNetwork
<1>8. CASE CompressEvents
  <2>1. RunCompression(ctx) \in Context /\ RunCompression(ctx).timeline
        /\ RunCompression(ctx).counts = ctx.counts
        /\ RunCompression(ctx).iteration = ctx.iteration
        /\ RunCompression(ctx).rca = ctx.rca
    BY <1>0 DEF RunCompression, Context
  <2> QED
    BY <1>0, <1>8, <2>1, StepInductive DEF CompressEvents
<1>9. CASE PerformRca
  <2>1. PICK confidence \in Confidences \cup {HeuristicConfidence},
             posted \in SUBSET LlmMessages :
           StepDone(PostAll([ctx EXCEPT !.rca = confidence], posted))
    <3>1. CASE StepDone(RunRcaFallback(ctx))
      <4>1. RunRcaFallback(ctx) = PostAll([ctx EXCEPT !.rca = HeuristicConfidence], {})
        BY <1>0 DEF RunRcaFallback, PostAll, Context
      <4> QED
        BY <3>1, <4>1
    <3> QED
      BY <1>9, <3>1 DEF PerformRca, RunRcaAi
  <2> DEFINE d == [ctx EXCEPT !.rca = confidence]
             c == PostAll(d, posted)
  <2>2. confidence \in Int /\ confidence # NoRca
    BY ContextAssumption DEF HeuristicConfidence
  <2>3. d \in Context /\ d.rca = confidence /\ d.timeline = ctx.timeline
        /\ d.counts = ctx.counts /\ d.iteration = ctx.iteration
    BY <1>0, <2>2 DEF Context
  <2> HIDE DEF d
  <2>4. c \in Context /\ SameProgress(d, c)
    BY <2>3, PostAllKeeps
  <2>5. StepDone(c) /\ pc = "act" /\ decision = "perform_rca"
    BY <1>9, <2>1 DEF PerformRca, d
  <2> HIDE DEF c
  <2> QED
    BY <2>2, <2>3, <2>4, <2>5, StepInductive DEF SameProgress
<1>10. CASE PlanResponse
  <2>1. PICK posted \in SUBSET LlmMessages : ctx' = PostAll(ctx, posted)
    BY <1>10 DEF PlanResponse, RunResponseAi
  <2>2. ctx' \in Context /\ SameProgress(ctx, ctx')
    BY <1>0, <2>1, PostAllKeeps
  <2>3. TypeOK'
    BY <1>0, <1>10, <2>2 DEF PlanResponse, TypeOK, SameProgress, ReportKeys, Locations
  <2>4. QuotaRespected'
    BY <2>2 DEF QuotaRespected, SameProgress
  <2>5. WorkAccounted' /\ TurnLeft' /\ ResultsOnBoard' /\ ExitsOnce'
    BY <1>10 DEF PlanResponse, WorkAccounted, TurnLeft, ResultsOnBoard, ExitsOnce
  <2>6. (Budget => ContainmentRestsOnRca)' /\ SwarmNeverGathers' /\ PrematureClosureFlagged'
    BY <1>10, <2>2 DEF PlanResponse, ContainmentRestsOnRca, SwarmNeverGathers,
                       PrematureClosureFlagged, ExitsOnce, SameProgress
  <2> QED
    BY <2>3, <2>4, <2>5, <2>6
<1>11. CASE Synthesize
  BY <1>11 DEF Synthesize, VerdictFor, TypeOK, Locations, QuotaRespected, WorkAccounted,
               TurnLeft, ResultsOnBoard, ExitsOnce, ContainmentRestsOnRca,
               SwarmNeverGathers, PrematureClosureFlagged
<1>12. CASE AgentRaises
  BY <1>12 DEF AgentRaises, TypeOK, Locations, QuotaRespected, WorkAccounted,
               TurnLeft, ResultsOnBoard, ExitsOnce, ContainmentRestsOnRca,
               SwarmNeverGathers, PrematureClosureFlagged
<1>13. CASE UNCHANGED vars
  BY <1>13 DEF vars, TypeOK, QuotaRespected, WorkAccounted, WorkTaken, TurnLeft, ResultsOnBoard,
               Running, ExitsOnce, ContainmentRestsOnRca, SwarmNeverGathers,
               PrematureClosureFlagged
<1> QED
  BY <1>1, <1>2, <1>3, <1>4, <1>5, <1>6, <1>7, <1>8, <1>9, <1>10, <1>11, <1>12, <1>13
     DEF Next, Decide, Act

-----------------------------------------------------------------------------
(* The theorems. *)

\* The strengthened invariant, which the remaining theorems follow from.
THEOREM InvariantHolds == Spec => []InductiveInvariant
<1>1. InductiveInvariant /\ [Next]_vars => InductiveInvariant'
  BY NextInductive
<1> QED
  BY <1>1, InitInductive, PTL DEF Spec

\* The state of a run is well typed.
THEOREM TypeCorrect == Spec => []TypeOK
<1>1. InductiveInvariant => TypeOK
  BY DEF InductiveInvariant
<1> QED
  BY <1>1, InvariantHolds, PTL

\* No supervisor action, work or terminal, exceeds its quota.
THEOREM QuotaTheorem == Spec => []QuotaRespected
<1>1. InductiveInvariant => QuotaRespected
  BY DEF InductiveInvariant
<1> QED
  BY <1>1, InvariantHolds, PTL

\* With a budget above the four quotas the loop only ends by a decision.
THEOREM NeverExhaustedTheorem == Budget => (Spec => []NeverExhausted)
<1> SUFFICES ASSUME Budget PROVE Spec => []NeverExhausted
  OBVIOUS
<1>1. InductiveInvariant => NeverExhausted
  BY BudgetLeft
<1> QED
  BY <1>1, InvariantHolds, PTL

\* With such a budget a containment plan is preceded by a root cause analysis
\* that ran; a loop that runs out of turns may plan without one.
THEOREM ContainmentTheorem == Budget => (Spec => []ContainmentRestsOnRca)
<1> SUFFICES ASSUME Budget PROVE Spec => []ContainmentRestsOnRca
  OBVIOUS
<1>1. InductiveInvariant => ContainmentRestsOnRca
  BY DEF InductiveInvariant
<1> QED
  BY <1>1, InvariantHolds, PTL

\* The swarm's decision never becomes another round of evidence gathering.
THEOREM SwarmTheorem == Spec => []SwarmNeverGathers
<1>1. InductiveInvariant => SwarmNeverGathers
  BY DEF InductiveInvariant
<1> QED
  BY <1>1, InvariantHolds, PTL

\* A severe alert closed as benign before any analysis carries a drift flag,
\* and no containment is planned for it.
THEOREM ClosureTheorem == Spec => []PrematureClosureFlagged
<1>1. InductiveInvariant => PrematureClosureFlagged
  BY DEF InductiveInvariant
<1> QED
  BY <1>1, InvariantHolds, PTL

-----------------------------------------------------------------------------
(* The autonomous run implements InvestigationRun, step by step. *)

LEMMA InitRefines == Init => Run!Init
  BY DEF Init, Run!Init, Stage, EmptyContext

\* A decision ends the rounds or does not show.
LEMMA TakeRefines ==
    ASSUME InductiveInvariant, InLoop, NEW c \in Context, SameProgress(ctx, c),
           NEW a \in Actions, NEW who, Take(c, a, who)
    PROVE  [Run!Next]_Run!vars
<1>1. ctx'.iteration = ctx.iteration /\ UNCHANGED <<reports, verdict>>
  BY DEF Take, RecordDecision, SameProgress, Context
<1>2. pc' \in {"act", "synthesis", "respond"} /\ Stage = "investigating"
  BY DEF Take, LoopExit, InLoop, Stage, Actions, WorkActions, TerminalActions
<1>3. CASE pc' = "synthesis"
  <2>1. Stage' = "concluding"
    BY <1>3 DEF Stage
  <2>2. Run!EndRounds
    BY <1>1, <1>2, <2>1 DEF Run!EndRounds
  <2> QED
    BY <2>2 DEF Run!Next
<1>4. CASE pc' \in {"act", "respond"}
  <2>1. Stage' = "investigating"
    BY <1>4 DEF Stage
  <2> QED
    BY <1>1, <1>2, <2>1 DEF Run!vars
<1> QED
  BY <1>2, <1>3, <1>4

\* The end of a turn is one round, within the budget.
LEMMA StepRefines ==
    ASSUME InductiveInvariant, pc = "act",
           NEW c \in Context, c.iteration = ctx.iteration, StepDone(c)
    PROVE  Run!Round
<1>1. ctx.iteration < MaxIterations
  BY DEF InductiveInvariant, TurnLeft
<1>2. ctx'.iteration = ctx.iteration + 1
  BY DEF StepDone, Context
<1>3. Stage = "investigating" /\ Stage' = "investigating"
  BY DEF Stage, StepDone
<1>4. StepReport[decision] # "task-response"
  BY DEF InductiveInvariant, ExitsOnce, StepReport, WorkActions
<1> QED
  BY <1>1, <1>2, <1>3, <1>4 DEF Run!Round, StepDone

LEMMA NextRefines ==
    ASSUME InductiveInvariant, [Next]_vars
    PROVE  [Run!Next]_Run!vars
<1>0. ctx \in Context /\ SameProgress(ctx, ctx)
  BY DEF InductiveInvariant, TypeOK, SameProgress
<1>1. CASE Triage
  <2>1. ctx'.iteration = ctx.iteration
    BY <1>0, <1>1, TriageKeeps DEF Triage, SameProgress
  <2>2. Stage = "started" /\ Stage' = "investigating"
    BY <1>1 DEF Triage, Stage
  <2>3. Run!Triaged
    BY <1>1, <2>1, <2>2 DEF Triage, Run!Triaged
  <2> QED
    BY <2>3 DEF Run!Next
<1>2. CASE SwarmDecides
  <2> DEFINE a == Validated(ctx, "perform_rca")
  <2>1. a \in Actions
    BY <1>0, ValidatedChoice DEF Actions, WorkActions
  <2> HIDE DEF a
  <2> QED
    BY <1>0, <1>2, <2>1, TakeRefines DEF SwarmDecides, a
<1>3. CASE ModelDecides
  <2>1. PICK action \in Actions, pivots \in {{}} \cup {{e} : e \in Entities} :
           LET c == [ctx EXCEPT !.entities = @ \cup pivots]
               a == Validated(c, action)
           IN  Take(FlagDrift(c, a), a, "model")
    BY <1>3 DEF ModelDecides
  <2> DEFINE c == [ctx EXCEPT !.entities = @ \cup pivots]
             a == Validated(c, action)
             d == FlagDrift(c, a)
  <2>2. c \in Context /\ SameProgress(ctx, c)
    BY <1>0 DEF Context, SameProgress
  <2>3. Take(d, a, "model") /\ InLoop
    BY <1>3, <2>1 DEF ModelDecides
  <2> HIDE DEF c
  <2>4. d \in Context /\ SameProgress(ctx, d) /\ a \in Actions
    BY <2>2, FlagKeeps, ValidatedChoice DEF SameProgress
  <2> HIDE DEF a, d
  <2> QED
    BY <2>3, <2>4, TakeRefines
<1>4. CASE HeuristicDecides
  <2>1. HeuristicDecision(ctx) \in Actions
    BY <1>0, HeuristicChoice DEF Actions, WorkActions, TerminalActions
  <2> QED
    BY <1>0, <1>4, <2>1, TakeRefines DEF HeuristicDecides
<1>5. CASE LoopExhausted
  BY <1>5 DEF LoopExhausted, Stage, Run!vars
<1>6. CASE GatherEvidence
  <2>1. PICK requested \in SUBSET Entities, promoted \in BOOLEAN :
           StepDone(RunEvidence(ctx, requested, promoted))
    BY <1>6 DEF GatherEvidence, Requested
  <2>2. /\ RunEvidence(ctx, requested, promoted) \in Context
        /\ RunEvidence(ctx, requested, promoted).iteration = ctx.iteration
    BY <1>0, EvidenceKeeps DEF SameProgress
  <2>3. Run!Round
    BY <1>6, <2>1, <2>2, StepRefines DEF GatherEvidence
  <2> QED
    BY <2>3 DEF Run!Next
<1>7. CASE DiscoverNetwork
  BY <1>0, <1>7, StepRefines DEF DiscoverNetwork, Run!Next
<1>8. CASE CompressEvents
  BY <1>0, <1>8, CompressionKeeps, StepRefines DEF CompressEvents, Run!Next
<1>9. CASE PerformRca
  <2>1. PICK c \in Context : c.iteration = ctx.iteration /\ StepDone(c)
    BY <1>0, <1>9, RcaAiKeeps, RcaFallbackKeeps DEF PerformRca, Analysed, SameBudget
  <2>2. Run!Round
    BY <1>9, <2>1, StepRefines DEF PerformRca
  <2> QED
    BY <2>2 DEF Run!Next
<1>10. CASE PlanResponse
  <2>1. ctx'.iteration = ctx.iteration
    BY <1>0, <1>10, PostAllKeeps DEF PlanResponse, RunResponseAi, SameProgress
  <2>2. Stage = "investigating" /\ Stage' = "concluding"
    BY <1>10 DEF PlanResponse, Stage
  <2>3. Run!EndRounds
    BY <1>10, <2>1, <2>2 DEF PlanResponse, Run!EndRounds
  <2> QED
    BY <2>3 DEF Run!Next
<1>11. CASE Synthesize
  <2>1. Stage = "concluding" /\ Stage' = "concluded"
    BY <1>11 DEF Synthesize, Stage
  <2>2. verdict' \in {"low", "moderate", "high"}
    BY <1>11 DEF Synthesize, VerdictFor
  <2>3. Run!Conclude
    BY <1>11, <2>1, <2>2 DEF Synthesize, Run!Conclude
  <2> QED
    BY <2>3 DEF Run!Next
<1>12. CASE AgentRaises
  <2>1. Stage \in {"started", "investigating"} /\ Stage' = "failed"
    BY <1>12 DEF AgentRaises, Stage
  <2>2. Run!Fail
    BY <1>12, <2>1 DEF AgentRaises, Run!Fail
  <2> QED
    BY <2>2 DEF Run!Next
<1>13. CASE UNCHANGED vars
  BY <1>13 DEF vars, Run!vars, Stage
<1> QED
  BY <1>1, <1>2, <1>3, <1>4, <1>5, <1>6, <1>7, <1>8, <1>9, <1>10, <1>11, <1>12, <1>13
     DEF Next, Decide, Act

\* Every behaviour of the autonomous run is one of an investigation run, which
\* an agent's exception may end before it has a plan.
THEOREM RunTheorem == Spec => Run!Spec
<1>1. InductiveInvariant /\ [Next]_vars => [Run!Next]_Run!vars
  BY NextRefines
<1> QED
  BY <1>1, InitRefines, InvariantHolds, PTL DEF Spec, Run!Spec
=============================================================================
