---------------------- MODULE InvestigationWorkflowProofs ----------------------
(***************************************************************************)
(* Proofs about InvestigationWorkflow for every number of attempts, every  *)
(* quota and every budget.  The invariant is InductiveInvariant of         *)
(* InvestigationWorkflow.  It has two sides that share only pc: the        *)
(* blackboard up to the response plan, and the gate behind it; an action   *)
(* moves one of them and leaves the other one to a lemma.                  *)
(***************************************************************************)
EXTENDS InvestigationWorkflow, BlackboardLemmas

USE DEF NoRca

-----------------------------------------------------------------------------
(* The two sides of the invariant *)

BoardTypes == /\ ai \in BOOLEAN
              /\ ctx \in Context
              /\ decision \in Actions \cup {"none"}
              /\ arrived \in SUBSET {"evidence", "discovery"}
              /\ tries \in [Activities -> Nat]
              /\ reports \in SUBSET ReportKeys

GateTypes == /\ approval \in {"none", "approve", "reject", "timed_out"}
             /\ seen \in BOOLEAN
             /\ gate \in {"none", "approve", "reject", "timed_out"}
             /\ strays \in Nat /\ contained \in Nat
             /\ cancelled \in BOOLEAN
             /\ outcome \in {"running", "completed", "failed", "canceled"}
             /\ persisted \in [saved : BOOLEAN, rca : BOOLEAN]

BoardSide == BoardTypes /\ RcaAccounted /\ PlanRestsOnRca
GateSide == GateTypes /\ GateAccounted /\ CompletedIsPersisted

LEMMA Sides == InductiveInvariant <=> pc \in Locations /\ BoardSide /\ GateSide
  BY DEF InductiveInvariant, TypeOK, BoardSide, BoardTypes, GateSide, GateTypes

LEMMA SidesRestore ==
    ASSUME pc' \in Locations, BoardSide', GateSide'
    PROVE  InductiveInvariant'
  BY DEF InductiveInvariant, TypeOK, BoardSide, BoardTypes, GateSide, GateTypes

\* Attempts are counted afresh at the next await.
LEMMA GotoResets ==
    ASSUME NEW l, Goto(l)
    PROVE  pc' = l /\ tries' \in [Activities -> Nat]
  BY DEF Goto

\* Up to the gate nothing on its side changes.
LEMMA GateWaits ==
    ASSUME GateSide, AfterGate, pc \in Phases,
           pc' \in Phases \cup {"approval", "persist"}
    PROVE  GateSide'
  BY DEF GateSide, GateTypes, GateAccounted, CompletedIsPersisted, AfterGate, Phases

\* From the gate on, and when an attempt fails, the blackboard stays as it is.
LEMMA BoardStays ==
    ASSUME BoardSide, UNCHANGED <<ai, ctx, decision, arrived, reports>>,
           tries' \in [Activities -> Nat],
           pc' = pc \/ pc' \in {"execute", "persist", "closed"}
    PROVE  BoardSide'
  BY DEF BoardSide, BoardTypes, RcaAccounted, PlanRestsOnRca, Phases

-----------------------------------------------------------------------------
(* The supervisor's path *)

\* A decision, whoever took it.
LEMMA TakeKeeps ==
    ASSUME BoardSide, pc = "supervise", ctx.iteration < MaxIterations,
           NEW c \in Context, SameProgress(ctx, c),
           NEW a \in Actions,
           a = "finalize_response" /\ c.rca = NoRca => a = HeuristicDecision(c),
           Take(c, a)
    PROVE  BoardSide' /\ pc' \in {"act", "respond", "persist"}
<1> USE DEF BoardSide, Take
<1> DEFINE r == RecordDecision(c, a)
<1>1. /\ r \in Context
      /\ r.counts = [c.counts EXCEPT ![a] = @ + 1]
      /\ r.rca = c.rca
  BY DEF RecordDecision, Context
<1>2. c.counts \in [Actions -> Nat] /\ ctx.counts = c.counts /\ c.rca = ctx.rca
  BY DEF Context, SameProgress
<1>3. /\ pc' = Finished[a] /\ pc' \in {"act", "respond", "persist"}
      /\ pc' = "act" <=> a \in WorkActions
      /\ pc' = "respond" <=> a = "finalize_response"
      /\ tries' \in [Activities -> Nat]
  BY GotoResets DEF Finished, Actions, WorkActions, TerminalActions
<1>4. "task-response" \notin reports /\ ai
      /\ (c.rca # NoRca \/ c.counts["perform_rca"] = 0)
  BY <1>2 DEF RcaAccounted, Phases
<1>5. a = "finalize_response" => c.rca # NoRca
  <2>1. SUFFICES ASSUME a = "finalize_response", c.rca = NoRca PROVE FALSE
    OBVIOUS
  <2>2. ~HasQuota(c, "perform_rca")
    BY <2>1, HeuristicChoice DEF ReinvestigationThreshold
  <2> QED
    BY <2>1, <2>2, <1>2, <1>4, ContextAssumption DEF HasQuota
<1>6. BoardTypes'
  BY <1>1, <1>3 DEF BoardTypes, AfterGate
<1>7. r.rca # NoRca \/ r.counts["perform_rca"] = (IF a = "perform_rca" THEN 1 ELSE 0)
  BY <1>1, <1>2, <1>4 DEF Actions, WorkActions
<1>8. /\ ctx' = r /\ decision' = a
      /\ UNCHANGED <<ai, reports>>
  BY DEF AfterGate
<1> HIDE DEF r
<1>9. RcaAccounted'
  BY <1>1, <1>3, <1>4, <1>5, <1>7, <1>8 DEF RcaAccounted, Phases
<1>10. PlanRestsOnRca'
  BY <1>4, <1>8 DEF PlanRestsOnRca
<1> QED
  BY <1>3, <1>6, <1>9, <1>10

LEMMA SuperviseKeeps ==
    ASSUME BoardSide, Supervise
    PROVE  BoardSide' /\ AfterGate /\ pc' \in {"act", "respond", "persist"}
<1>0. ctx \in Context /\ SameProgress(ctx, ctx) /\ pc = "supervise"
      /\ ctx.iteration < MaxIterations
  BY DEF BoardSide, BoardTypes, SameProgress, Supervise
<1>1. CASE Stuck(ctx) /\ Take(ctx, Validated(ctx, "perform_rca"))
  <2> DEFINE a == Validated(ctx, "perform_rca")
  <2>1. /\ a \in Actions
        /\ a = "finalize_response" /\ ctx.rca = NoRca => a = HeuristicDecision(ctx)
    BY <1>0, ValidatedChoice DEF Actions, WorkActions
  <2> HIDE DEF a
  <2>2. Take(ctx, a)
    BY <1>1 DEF a
  <2> QED
    BY <1>0, <2>1, <2>2, TakeKeeps DEF Take
<1>2. CASE \E action \in Actions, pivots \in {{}} \cup {{e} : e \in Entities} :
              LET c == [ctx EXCEPT !.entities = @ \cup pivots]
                  a == Validated(c, action)
              IN  Take(FlagDrift(c, a), a)
  <2>1. PICK action \in Actions, pivots \in {{}} \cup {{e} : e \in Entities} :
           LET c == [ctx EXCEPT !.entities = @ \cup pivots]
               a == Validated(c, action)
           IN  Take(FlagDrift(c, a), a)
    BY <1>2
  <2> DEFINE c == [ctx EXCEPT !.entities = @ \cup pivots]
             a == Validated(c, action)
             d == FlagDrift(c, a)
  <2>2. c \in Context /\ SameProgress(ctx, c)
    BY <1>0 DEF Context, SameProgress
  <2>3. Take(d, a)
    BY <2>1
  <2> HIDE DEF c
  <2>4. /\ d \in Context /\ SameProgress(c, d)
        /\ d.graph = c.graph
    BY <2>2, FlagKeeps DEF FlagDrift, PostMessage, Context
  <2>5. /\ a \in Actions
        /\ a = "finalize_response" /\ c.rca = NoRca => a = HeuristicDecision(c)
    BY <2>2, ValidatedChoice
  <2>6. HeuristicDecision(d) = HeuristicDecision(c) /\ d.rca = c.rca
    BY <2>4 DEF HasQuota, HeuristicDecision, SameProgress
  <2>7. SameProgress(ctx, d)
    BY <2>2, <2>4 DEF SameProgress
  <2> HIDE DEF a, d
  <2> QED
    BY <1>0, <2>3, <2>4, <2>5, <2>6, <2>7, TakeKeeps DEF Take
<1>3. CASE Take(ctx, HeuristicDecision(ctx))
  <2>1. HeuristicDecision(ctx) \in Actions
    BY <1>0, HeuristicChoice DEF Actions, WorkActions, TerminalActions
  <2> QED
    BY <1>0, <1>3, <2>1, TakeKeeps DEF Take
<1> QED
  BY <1>1, <1>2, <1>3 DEF Supervise

\* What the activity behind a decision returns.
LEMMA ResultKeeps ==
    ASSUME ctx \in Context, decision \in WorkActions, NEW c \in ActivityResults
    PROVE  /\ c \in Context /\ c.counts = ctx.counts
           /\ c.rca # NoRca \/ (c.rca = ctx.rca /\ decision # "perform_rca")
<1>1. CASE decision = "gather_evidence"
  <2>1. PICK requested \in SUBSET Entities, promoted \in BOOLEAN :
           c = RunEvidence(ctx, requested, promoted)
    BY <1>1 DEF ActivityResults, Requested
  <2> QED
    BY <1>1, <2>1, EvidenceKeeps DEF SameProgress
<1>2. CASE decision = "discover_network"
  BY <1>2 DEF ActivityResults
<1>3. CASE decision = "compress_events"
  BY <1>3, CompressionKeeps DEF ActivityResults
<1>4. CASE decision = "perform_rca"
  <2>1. \/ c = RunRcaFallback(ctx)
        \/ \E confidence \in Confidences, posted \in SUBSET LlmMessages :
              c = RunRcaAi(ctx, confidence, posted)
    BY <1>4 DEF ActivityResults
  <2>2. \E confidence \in Confidences \cup {HeuristicConfidence} :
           Analysed(ctx, c, confidence)
    BY <2>1, RcaFallbackKeeps, RcaAiKeeps
  <2> QED
    BY <2>2, ContextAssumption DEF Analysed, SameBudget, HeuristicConfidence
<1> QED
  BY <1>1, <1>2, <1>3, <1>4 DEF WorkActions

LEMMA ActKeeps ==
    ASSUME BoardSide, Act
    PROVE  BoardSide' /\ AfterGate /\ pc' = "supervise"
<1>0. /\ BoardTypes /\ RcaAccounted /\ pc = "act" /\ ai
      /\ ctx \in Context /\ decision \in WorkActions
      /\ "task-response" \notin reports
  BY DEF BoardSide, BoardTypes, RcaAccounted, Act, Phases
<1>1. PICK c \in ActivityResults : ctx' = [c EXCEPT !.iteration = @ + 1]
  BY DEF Act
<1>2. /\ c \in Context /\ c.counts = ctx.counts
      /\ c.rca # NoRca \/ (c.rca = ctx.rca /\ decision # "perform_rca")
  BY <1>0, <1>1, ResultKeeps
<1>3. ctx' \in Context /\ ctx'.counts = ctx.counts /\ ctx'.rca = c.rca
  BY <1>1, <1>2 DEF Context
<1>4. /\ pc' = "supervise" /\ tries' \in [Activities -> Nat]
      /\ UNCHANGED <<ai, decision, arrived>> /\ AfterGate
      /\ reports' = reports \cup {StepReport[decision]}
  BY GotoResets DEF Act, AfterGate, Report
<1>5. StepReport[decision] \in ReportKeys /\ StepReport[decision] # "task-response"
  BY <1>0 DEF StepReport, ReportKeys, WorkActions
<1>6. BoardTypes'
  BY <1>0, <1>3, <1>4, <1>5 DEF BoardTypes
<1>7. ctx'.rca # NoRca \/ ctx'.counts["perform_rca"] = 0
  BY <1>0, <1>2, <1>3 DEF RcaAccounted
<1>8. RcaAccounted' /\ PlanRestsOnRca'
  BY <1>0, <1>4, <1>5, <1>7 DEF RcaAccounted, PlanRestsOnRca
<1> QED
  BY <1>4, <1>6, <1>8 DEF BoardSide

-----------------------------------------------------------------------------
(* Triage, the static path and the plan *)

LEMMA TriageKeepsSide ==
    ASSUME BoardSide, Triage
    PROVE  BoardSide' /\ AfterGate /\ pc' \in {"supervise", "collect"}
<1>1. ctx' \in Context /\ SameProgress(ctx, ctx')
  BY TriageKeeps DEF Triage, BoardSide, BoardTypes
<1>2. /\ pc = "triage" /\ pc' = (IF ai THEN "supervise" ELSE "collect")
      /\ tries' \in [Activities -> Nat]
      /\ UNCHANGED <<ai, decision, arrived>> /\ AfterGate
      /\ reports' = reports \cup {"task-triage"}
  BY GotoResets DEF Triage, AfterGate, Report
<1>3. BoardTypes'
  BY <1>1, <1>2 DEF BoardSide, BoardTypes, ReportKeys
<1>4. RcaAccounted' /\ PlanRestsOnRca'
  BY <1>1, <1>2 DEF BoardSide, RcaAccounted, PlanRestsOnRca, SameProgress, Phases
<1> QED
  BY <1>2, <1>3, <1>4 DEF BoardSide

\* A step of the static path that keeps the counters; it reports one or two
\* tasks, and only planning needs the analysis that comes before it.
LEMMA PhaseKeeps ==
    ASSUME BoardSide, pc \in {"collect", "compress", "rca"},
           pc' \in {"collect", "compress", "rca", "respond"},
           pc' = "respond" => ctx'.rca # NoRca,
           ctx' \in Context, arrived' \in SUBSET {"evidence", "discovery"},
           tries' \in [Activities -> Nat], UNCHANGED <<ai, decision>>,
           NEW keys \in SUBSET (ReportKeys \ {"task-response"}),
           reports' = reports \cup keys
    PROVE  BoardSide'
<1>1. BoardTypes'
  BY DEF BoardSide, BoardTypes
<1>2. RcaAccounted'
  BY DEF BoardSide, RcaAccounted, Phases
<1>3. PlanRestsOnRca'
  BY DEF BoardSide, RcaAccounted, PlanRestsOnRca, Phases
<1> QED
  BY <1>1, <1>2, <1>3 DEF BoardSide

LEMMA CollectKeeps ==
    ASSUME BoardSide, NEW a, CollectArrives(a)
    PROVE  BoardSide' /\ AfterGate /\ pc' \in {"collect", "compress"}
<1>0. ctx \in Context /\ tries \in [Activities -> Nat]
  BY DEF BoardSide, BoardTypes
<1>1. ctx' \in Context
  BY <1>0, EvidenceKeeps DEF CollectArrives
<1>2. AfterGate /\ UNCHANGED <<ai, decision>> /\ pc = "collect"
  BY DEF CollectArrives, AfterGate
<1>3. CASE arrived = {}
  <2>1. arrived' \in SUBSET {"evidence", "discovery"} /\ UNCHANGED <<pc, tries, reports>>
    BY <1>3 DEF CollectArrives
  <2>2. {} \in SUBSET (ReportKeys \ {"task-response"}) /\ reports' = reports \cup {}
    BY <2>1
  <2> QED
    BY <1>0, <1>1, <1>2, <2>1, <2>2, PhaseKeeps
<1>4. CASE arrived # {}
  <2>1. /\ arrived' = {} /\ pc' = "compress" /\ tries' \in [Activities -> Nat]
        /\ reports' = reports \cup {"task-evidence", "task-discovery"}
    BY <1>4, GotoResets DEF CollectArrives
  <2>2. {"task-evidence", "task-discovery"} \in SUBSET (ReportKeys \ {"task-response"})
    BY DEF ReportKeys
  <2> QED
    BY <1>1, <1>2, <2>1, <2>2, PhaseKeeps
<1> QED
  BY <1>3, <1>4

LEMMA CompressKeeps ==
    ASSUME BoardSide, Compress
    PROVE  BoardSide' /\ AfterGate /\ pc' = "rca"
<1>1. ctx' \in Context
  BY CompressionKeeps DEF Compress, BoardSide, BoardTypes
<1>2. /\ pc = "compress" /\ pc' = "rca" /\ tries' \in [Activities -> Nat]
      /\ AfterGate /\ UNCHANGED <<ai, decision, arrived>>
      /\ reports' = reports \cup {"task-compression"}
  BY GotoResets DEF Compress, AfterGate, Report
<1>3. {"task-compression"} \in SUBSET (ReportKeys \ {"task-response"})
      /\ arrived' \in SUBSET {"evidence", "discovery"}
  BY <1>2 DEF ReportKeys, BoardSide, BoardTypes
<1> QED
  BY <1>1, <1>2, <1>3, PhaseKeeps

LEMMA RcaKeeps ==
    ASSUME BoardSide, Rca
    PROVE  BoardSide' /\ AfterGate /\ pc' \in {"collect", "respond"}
<1>1. /\ ctx' \in Context /\ ctx'.rca # NoRca
      /\ pc' \in {"collect", "respond"} /\ tries' \in [Activities -> Nat]
  <2>1. PICK c \in {RunRcaFallback(ctx)} \cup
                   {RunRcaStatic(ctx, confidence, mentionsUnknown) :
                       confidence \in Confidences, mentionsUnknown \in BOOLEAN} :
           IF NeedsReinvestigation(c)
           THEN ctx' = [c EXCEPT !.iteration = @ + 1] /\ Goto("collect")
           ELSE ctx' = [c EXCEPT !.messages = {}] /\ Goto("respond")
    BY DEF Rca
  <2>2. \E confidence \in Confidences \cup {HeuristicConfidence} : Analysed(ctx, c, confidence)
    BY <2>1, RcaFallbackKeeps, RcaStaticKeeps DEF BoardSide, BoardTypes
  <2>3. c \in Context /\ c.rca # NoRca
    BY <2>2, ContextAssumption DEF Analysed, HeuristicConfidence
  <2>4. ctx' \in Context /\ ctx'.rca # NoRca
    BY <2>1, <2>3 DEF Context
  <2> QED
    BY <2>1, <2>4, GotoResets
<1>2. /\ pc = "rca" /\ AfterGate /\ UNCHANGED <<ai, decision>> /\ arrived' = arrived
      /\ reports' = reports \cup {"task-rca"}
  BY DEF Rca, AfterGate, Report
<1>3. {"task-rca"} \in SUBSET (ReportKeys \ {"task-response"})
      /\ arrived' \in SUBSET {"evidence", "discovery"}
  BY <1>2 DEF ReportKeys, BoardSide, BoardTypes
<1> QED
  BY <1>1, <1>2, <1>3, PhaseKeeps

LEMMA RespondKeeps ==
    ASSUME BoardSide, Respond
    PROVE  BoardSide' /\ AfterGate /\ pc' \in {"approval", "persist"}
<1>0. ctx \in Context /\ SameProgress(ctx, ctx)
  BY DEF BoardSide, BoardTypes, SameProgress
<1>1. ctx' \in Context /\ SameProgress(ctx, ctx')
  BY <1>0, PostAllKeeps, ResponseStaticKeeps DEF Respond, RunResponseAi
<1>2. /\ pc = "respond" /\ pc' \in {"approval", "persist"}
      /\ tries' \in [Activities -> Nat]
      /\ AfterGate /\ UNCHANGED <<ai, decision, arrived>>
      /\ reports' = reports \cup {"task-response"}
  BY GotoResets DEF Respond, AfterGate, Report
<1>3. BoardTypes'
  BY <1>1, <1>2 DEF BoardSide, BoardTypes, ReportKeys
<1>4. RcaAccounted'
  BY <1>2 DEF RcaAccounted, Phases
<1>5. PlanRestsOnRca'
  BY <1>1, <1>2 DEF BoardSide, RcaAccounted, PlanRestsOnRca, SameProgress
<1> QED
  BY <1>2, <1>3, <1>4, <1>5 DEF BoardSide

-----------------------------------------------------------------------------
(* The invariant holds initially and is preserved by every step. *)

LEMMA InitInductive == Init => InductiveInvariant
<1> SUFFICES ASSUME Init PROVE InductiveInvariant
  OBVIOUS
<1> USE DEF Init, EmptyContext
<1>1. BoardTypes
  BY DEF BoardTypes, Context, Actions
<1>2. RcaAccounted /\ PlanRestsOnRca
  BY DEF RcaAccounted, PlanRestsOnRca, Actions, WorkActions
<1>3. GateSide
  BY DEF GateSide, GateTypes, GateAccounted, CompletedIsPersisted, NotPersisted
<1> QED
  BY <1>1, <1>2, <1>3, Sides DEF BoardSide, Locations

LEMMA NextInductive ==
    ASSUME InductiveInvariant, [Next]_vars
    PROVE  InductiveInvariant'
<1>0. pc \in Locations /\ BoardSide /\ GateSide /\ tries \in [Activities -> Nat]
  BY Sides DEF BoardSide, BoardTypes
<1>1. ASSUME BoardSide', AfterGate, pc \in Phases,
             pc' \in Phases \cup {"approval", "persist"}
      PROVE  InductiveInvariant'
  BY <1>0, <1>1, GateWaits, SidesRestore DEF Phases, Locations
<1>2. CASE Triage
  BY <1>0, <1>1, <1>2, TriageKeepsSide DEF Triage, Phases
<1>3. CASE Supervise
  BY <1>0, <1>1, <1>3, SuperviseKeeps DEF Supervise, Phases
<1>4. CASE LoopExhausted
  <2>1. /\ pc = "supervise" /\ pc' = "respond" /\ tries' \in [Activities -> Nat]
        /\ UNCHANGED <<ai, ctx, decision, arrived, reports>> /\ AfterGate
    BY <1>4, GotoResets DEF LoopExhausted, AfterGate
  <2>2. BoardSide'
    BY <1>0, <1>4, <2>1
       DEF LoopExhausted, BoardSide, BoardTypes, RcaAccounted, PlanRestsOnRca, Phases
  <2> QED
    BY <1>1, <2>1, <2>2 DEF Phases
<1>5. CASE Act
  BY <1>0, <1>1, <1>5, ActKeeps DEF Act, Phases
<1>6. CASE CollectArrives("evidence") \/ CollectArrives("discovery")
  BY <1>0, <1>1, <1>6, CollectKeeps DEF CollectArrives, Phases
<1>7. CASE Compress
  BY <1>0, <1>1, <1>7, CompressKeeps DEF Compress, Phases
<1>8. CASE Rca
  BY <1>0, <1>1, <1>8, RcaKeeps DEF Rca, Phases
<1>9. CASE Respond
  BY <1>0, <1>1, <1>9, RespondKeeps DEF Respond, Phases
<1> USE DEF GateSide, GateTypes, GateAccounted, CompletedIsPersisted
<1>10. CASE AttemptFails
  <2>1. tries' \in [Activities -> Nat] /\ (pc' = pc \/ pc' = "closed")
    BY <1>0, <1>10, GotoResets DEF AttemptFails, Close, Activities
  <2>2. BoardSide'
    BY <1>0, <1>10, <2>1, BoardStays DEF AttemptFails
  <2>3. GateSide'
    BY <1>0, <1>10 DEF AttemptFails, Close, Goto, Phases
  <2> QED
    BY <1>0, <2>1, <2>2, <2>3, SidesRestore DEF Locations
<1>11. CASE Signal
  <2>1. BoardSide'
    BY <1>0, <1>11, BoardStays DEF Signal
  <2>2. GateSide'
    BY <1>0, <1>11 DEF Signal, Phases
  <2> QED
    BY <1>0, <1>11, <2>1, <2>2, SidesRestore DEF Signal
<1>12. CASE GateDecided \/ GateTimesOut
  <2>1. pc' \in {"execute", "persist"} /\ tries' \in [Activities -> Nat]
    BY <1>12, GotoResets DEF GateDecided, GateTimesOut
  <2>2. BoardSide'
    BY <1>0, <1>12, <2>1, BoardStays DEF GateDecided, GateTimesOut
  <2>3. GateSide'
    BY <1>0, <1>12 DEF GateDecided, GateTimesOut, Goto, Phases
  <2> QED
    BY <2>1, <2>2, <2>3, SidesRestore DEF Locations
<1>13. CASE ExecuteSucceeds
  <2>1. pc' = "persist" /\ tries' \in [Activities -> Nat]
    BY <1>13, GotoResets DEF ExecuteSucceeds
  <2>2. BoardSide'
    BY <1>0, <1>13, <2>1, BoardStays DEF ExecuteSucceeds
  <2>3. GateSide'
    BY <1>0, <1>13 DEF ExecuteSucceeds, Goto, Phases
  <2> QED
    BY <2>1, <2>2, <2>3, SidesRestore DEF Locations
<1>14. CASE ExecuteFails
  <2>1. pc' = pc /\ tries' \in [Activities -> Nat]
    BY <1>0, <1>14 DEF ExecuteFails, Activities
  <2>2. BoardSide'
    BY <1>0, <1>14, <2>1, BoardStays DEF ExecuteFails
  <2>3. GateSide'
    BY <1>0, <1>14 DEF ExecuteFails, Phases
  <2> QED
    BY <1>0, <2>1, <2>2, <2>3, SidesRestore
<1>15. CASE StrayRuns
  <2>1. BoardSide'
    BY <1>0, <1>15, BoardStays DEF StrayRuns
  <2>2. GateSide'
    BY <1>0, <1>15 DEF StrayRuns, Phases
  <2> QED
    BY <1>0, <1>15, <2>1, <2>2, SidesRestore DEF StrayRuns
<1>16. CASE PersistSucceeds
  <2>1. pc' = "closed" /\ tries' \in [Activities -> Nat]
    BY <1>16, GotoResets DEF PersistSucceeds, Close
  <2>2. BoardSide'
    BY <1>0, <1>16, <2>1, BoardStays DEF PersistSucceeds
  <2>3. GateSide'
    BY <1>0, <1>16 DEF PersistSucceeds, Close, Goto, Phases
  <2> QED
    BY <2>1, <2>2, <2>3, SidesRestore DEF Locations
<1>17. CASE PersistFails
  <2>1. pc' = pc /\ tries' \in [Activities -> Nat]
    BY <1>0, <1>17 DEF PersistFails, Activities
  <2>2. BoardSide'
    BY <1>0, <1>17, <2>1, BoardStays DEF PersistFails
  <2>3. GateSide'
    BY <1>0, <1>17 DEF PersistFails, Phases
  <2> QED
    BY <1>0, <2>1, <2>2, <2>3, SidesRestore
<1>18. CASE Cancel
  <2>1. pc' \in {"persist", "closed"} /\ tries' \in [Activities -> Nat]
    BY <1>18, GotoResets DEF Cancel, Close
  <2>2. BoardSide'
    BY <1>0, <1>18, <2>1, BoardStays DEF Cancel
  <2>3. GateSide'
    BY <1>0, <1>18 DEF Cancel, Close, Goto, Phases
  <2> QED
    BY <2>1, <2>2, <2>3, SidesRestore DEF Locations
<1>19. CASE UNCHANGED vars
  <2>1. BoardSide'
    BY <1>0, <1>19, BoardStays DEF vars
  <2>2. GateSide'
    BY <1>0, <1>19 DEF vars
  <2> QED
    BY <1>0, <1>19, <2>1, <2>2, SidesRestore DEF vars
<1> QED
  BY <1>2, <1>3, <1>4, <1>5, <1>6, <1>7, <1>8, <1>9, <1>10, <1>11, <1>12, <1>13,
     <1>14, <1>15, <1>16, <1>17, <1>18, <1>19 DEF Next, Progress

-----------------------------------------------------------------------------
(* The theorems. *)

\* The strengthened invariant, which the remaining theorems follow from.
THEOREM InvariantHolds == Spec => []InductiveInvariant
  BY InitInductive, NextInductive, PTL DEF Spec

\* The state of a workflow is well typed.
THEOREM TypeCorrect == Spec => []TypeOK
<1>1. InductiveInvariant => TypeOK
  BY DEF InductiveInvariant
<1> QED
  BY <1>1, InvariantHolds, PTL

\* A workflow that failed or was canceled has carried out nothing, and no
\* attempt that was given up can still do so.
THEOREM HarmlessTheorem == Spec => []UnfinishedIsHarmless
<1>1. InductiveInvariant => UnfinishedIsHarmless
  BY DEF InductiveInvariant, GateAccounted, UnfinishedIsHarmless
<1> QED
  BY <1>1, InvariantHolds, PTL

\* A workflow that completed without being canceled is in the stores.
THEOREM PersistedTheorem == Spec => []CompletedIsPersisted
<1>1. InductiveInvariant => CompletedIsPersisted
  BY DEF InductiveInvariant
<1> QED
  BY <1>1, InvariantHolds, PTL

\* A response plan rests on an analysis, or on a supervisor out of turns.
THEOREM PlanTheorem == Spec => []PlanRestsOnRca
<1>1. InductiveInvariant => PlanRestsOnRca
  BY DEF InductiveInvariant
<1> QED
  BY <1>1, InvariantHolds, PTL

-----------------------------------------------------------------------------
(* The workflow implements ApprovalGate, step by step. *)

\* What the abstract gate shows, given that it is decided only behind the wait.
LEMMA GateOf ==
    ASSUME GateSide
    PROVE  /\ pc \in Phases => GateState = "shut"
           /\ pc = "approval" => GateState = "open"
           /\ gate = "approve" <=> GateState = "granted"
           /\ contained \in Nat
  BY DEF GateSide, GateTypes, GateAccounted, GateState, Phases

LEMMA InitRefines == Init => Gate!Init
  BY DEF Init, Gate!Init, GateState

\* A step that changes neither the decision nor what has been carried out is
\* invisible, or opens the gate, or closes the workflow.
LEMMA QuietRefines ==
    ASSUME InductiveInvariant, UNCHANGED <<gate, contained>>,
           pc' # pc => /\ pc # "closed"
                       /\ pc = "approval" => pc' = "closed"
                       /\ pc' = "approval" => pc = "respond"
    PROVE  [Gate!Next]_Gate!vars
<1>0. GateSide /\ gate \in {"none", "approve", "reject", "timed_out"}
  BY Sides DEF GateSide, GateTypes
<1>1. CASE pc' = pc
  BY <1>1 DEF Gate!vars, GateState
<1>2. CASE pc' # pc /\ pc' = "closed"
  <2>1. GateState' = IF GateState = "open" THEN "shut" ELSE GateState
    BY <1>2 DEF GateState
  <2>2. Gate!Close
    BY <1>2, <2>1 DEF Gate!Close
  <2> QED
    BY <2>2 DEF Gate!Next
<1>3. CASE pc' # pc /\ pc' = "approval"
  <2>1. gate = "none"
    BY <1>0, <1>3 DEF GateSide, GateAccounted, Phases
  <2>2. Gate!Open
    BY <1>3, <2>1 DEF Gate!Open, GateState
  <2> QED
    BY <2>2 DEF Gate!Next
<1>4. CASE pc' # pc /\ pc' \notin {"closed", "approval"}
  BY <1>4 DEF Gate!vars, GateState
<1> QED
  BY <1>1, <1>2, <1>3, <1>4

\* Something is carried out behind an open gate only.
LEMMA ContainRefines ==
    ASSUME InductiveInvariant, gate = "approve", gate' = gate,
           contained' \in {contained, contained + 1}, pc' = "closed" <=> pc = "closed"
    PROVE  [Gate!Next]_Gate!vars
<1>1. contained \in Nat /\ GateState = "granted" /\ GateState' = "granted"
  BY Sides, GateOf DEF GateState
<1>2. CASE contained' = contained
  BY <1>1, <1>2 DEF Gate!vars
<1>3. CASE contained' = contained + 1
  <2>1. contained' > 0
    BY <1>1, <1>3
  <2>2. Gate!Contain
    BY <1>1, <2>1 DEF Gate!Contain
  <2> QED
    BY <2>2 DEF Gate!Next
<1> QED
  BY <1>2, <1>3

LEMMA NextRefines ==
    ASSUME InductiveInvariant, [Next]_vars
    PROVE  [Gate!Next]_Gate!vars
<1>0. pc \in Locations /\ BoardSide /\ GateSide /\ GateAccounted
  BY Sides DEF GateSide
<1>1. ASSUME AfterGate, pc \in Phases,
             pc' \in (Phases \ {"triage"}) \cup {"persist"} \/ (pc = "respond" /\ pc' = "approval")
      PROVE  [Gate!Next]_Gate!vars
  BY <1>1, QuietRefines DEF AfterGate, Phases
<1>2. CASE Triage
  BY <1>0, <1>1, <1>2, TriageKeepsSide DEF Triage, Phases
<1>3. CASE Supervise
  BY <1>0, <1>1, <1>3, SuperviseKeeps DEF Supervise, Phases
<1>4. CASE LoopExhausted
  BY <1>1, <1>4 DEF LoopExhausted, Goto, Phases
<1>5. CASE Act
  BY <1>0, <1>1, <1>5, ActKeeps DEF Act, Phases
<1>6. CASE CollectArrives("evidence") \/ CollectArrives("discovery")
  BY <1>0, <1>1, <1>6, CollectKeeps DEF CollectArrives, Phases
<1>7. CASE Compress
  BY <1>0, <1>1, <1>7, CompressKeeps DEF Compress, Phases
<1>8. CASE Rca
  BY <1>0, <1>1, <1>8, RcaKeeps DEF Rca, Phases
<1>9. CASE Respond
  BY <1>0, <1>1, <1>9, RespondKeeps DEF Respond, Phases
<1>10. CASE AttemptFails
  BY <1>10, QuietRefines DEF AttemptFails, Close, Goto, Phases
<1>11. CASE Signal
  BY <1>11, QuietRefines DEF Signal
<1>12. CASE GateDecided \/ GateTimesOut
  <2>1. GateState = "open" /\ pc = "approval" /\ pc' # "closed" /\ contained' = contained
    BY <1>0, <1>12, GateOf DEF GateDecided, GateTimesOut, Goto
  <2>2. gate' \in {"approve", "reject", "timed_out"}
    BY <1>0, <1>12 DEF GateDecided, GateTimesOut, GateSide, GateTypes
  <2>3. GateState' \in {"granted", "refused"}
    BY <2>2 DEF GateState
  <2>4. Gate!Decide
    BY <2>1, <2>3 DEF Gate!Decide
  <2> QED
    BY <2>4 DEF Gate!Next
<1>13. CASE ExecuteSucceeds
  BY <1>0, <1>13, ContainRefines DEF ExecuteSucceeds, Goto, GateAccounted
<1>14. CASE ExecuteFails
  BY <1>0, <1>14, ContainRefines DEF ExecuteFails, GateAccounted
<1>15. CASE StrayRuns
  <2>1. gate = "approve"
    BY <1>0, <1>15 DEF StrayRuns, GateAccounted
  <2> QED
    BY <1>15, <2>1, ContainRefines DEF StrayRuns
<1>16. CASE PersistSucceeds
  BY <1>16, QuietRefines DEF PersistSucceeds, Close, Goto
<1>17. CASE PersistFails
  BY <1>17, QuietRefines DEF PersistFails
<1>18. CASE Cancel
  BY <1>18, QuietRefines DEF Cancel, Close, Goto, Phases
<1>19. CASE UNCHANGED vars
  BY <1>19 DEF vars, Gate!vars, GateState
<1> QED
  BY <1>2, <1>3, <1>4, <1>5, <1>6, <1>7, <1>8, <1>9, <1>10, <1>11, <1>12, <1>13,
     <1>14, <1>15, <1>16, <1>17, <1>18, <1>19 DEF Next, Progress

\* Every behaviour of the workflow is one of an approval gate: no plan is carried
\* out without a grant, and a decision that was acted on stands.
THEOREM GateTheorem == Spec => ImplementsGate
<1>1. InductiveInvariant /\ [Next]_vars => [Gate!Next]_Gate!vars
  BY NextRefines
<1> QED
  BY <1>1, InitRefines, InvariantHolds, PTL DEF Spec, ImplementsGate, Gate!Spec
=============================================================================
