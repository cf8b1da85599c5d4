----------------------------- MODULE ApiProofs -----------------------------
(***************************************************************************)
(* What an API client is told: the progress stream, the ledger's replay,   *)
(* the memory of verdicts, the playbook engine and the coverage campaigns  *)
(* report keep their properties for every value of the constants.          *)
(***************************************************************************)
EXTENDS ProgressStream, InvestigationLedger, InvestigationApi,
        PlaybookEngine, SelfPlay, FiniteSetTheorems, TLAPS

-----------------------------------------------------------------------------
(* The progress stream *)

ProgressRecord == [status : Statuses, phase : Nat, listed : Nat, iteration : Nat,
             turns : Nat, reports : SUBSET Tasks]

LEMMA PhaseTasks ==
    /\ \A k \in 1..5 : StaticPhases[k] \subseteq Tasks
    /\ \A n \in Nat : {Task("triage", 0), Task("response", 0), Task("work", n)} \subseteq Tasks
    /\ Len(StaticPhases) = 5
<1>1. \A k \in 1..5 : k = 1 \/ k = 2 \/ k = 3 \/ k = 4 \/ k = 5
  OBVIOUS
<1>2. \A k \in 1..5 : StaticPhases[k] \subseteq Tasks
  BY <1>1 DEF StaticPhases, Tasks, Task
<1> QED
  BY <1>2 DEF StaticPhases, Tasks, Task

\* The workflow's own steps: something is shown that the old progress led to.
Advances ==
    /\ shown.status # "completed"
    /\ shown' \in ProgressRecord /\ shown'.status # "unknown" /\ shown'.listed > 0
    /\ shown.reports \subseteq shown'.reports /\ shown.iteration <= shown'.iteration
    /\ mode' \in {"static", "supervised"}
    /\ mode' = "static" => shown'.phase \in 1..5
    /\ UNCHANGED <<execution, answering, stream, told, reconnects>>

LEMMA AdvancesKeeps ==
    ASSUME StreamInvariant, Advances
    PROVE  StreamInvariant'
<1> USE DEF StreamInvariant, Advances
<1>1. StreamTypeOK'
  BY DEF StreamTypeOK, ProgressRecord
<1>2. ProgressShaped'
  BY DEF ProgressShaped
<1>3. shown.iteration \in Nat /\ shown'.iteration \in Nat /\ stream.iteration \in Nat
  BY DEF StreamTypeOK, ProgressRecord
<1>4. StreamKeepsUp'
  BY <1>3 DEF StreamKeepsUp
<1>5. ~(stream.ended = "run_complete" /\ told.whole)
  BY DEF EndedOnTheLast
<1>6. EndedOnTheLast' /\ StreamTellsAll'
  BY <1>5 DEF EndedOnTheLast, StreamTellsAll
<1> QED
  BY <1>1, <1>2, <1>4, <1>6

\* Steps that show nothing and ask nothing.
LEMMA QuietKeeps ==
    ASSUME StreamInvariant, UNCHANGED <<shown, mode, stream, told>>,
           execution' \in {"running", "completed", "failed"},
           answering' \in BOOLEAN, reconnects' \in Nat
    PROVE  StreamInvariant'
BY DEF StreamInvariant, StreamTypeOK, ProgressShaped, StreamKeepsUp, EndedOnTheLast,
       StreamTellsAll

LEMMA StartKeeps ==
    ASSUME StreamInvariant, NEW m \in {"static", "supervised"}, Start(m)
    PROVE  StreamInvariant'
<1> DEFINE n == IF m = "static" THEN Len(StaticPhases) ELSE 1
<1>1. n \in Nat /\ n > 0
  BY PhaseTasks
<1>2. shown' = [shown EXCEPT !.status = "running", !.phase = 1, !.listed = n]
  BY DEF Start, Show
<1> HIDE DEF n
<1>3. shown \in ProgressRecord /\ shown.status = "unknown" /\ shown.iteration \in Nat
  BY DEF Start, StreamInvariant, StreamTypeOK, ProgressShaped, ProgressRecord
<1>4. /\ shown' \in ProgressRecord /\ shown'.status = "running" /\ shown'.listed = n
      /\ shown'.phase = 1 /\ shown'.reports = shown.reports
      /\ shown'.iteration = shown.iteration
  BY <1>1, <1>2, <1>3 DEF ProgressRecord, Statuses
<1>5. Advances
  BY <1>1, <1>3, <1>4 DEF Start, Show, Advances
<1> QED
  BY <1>5, AdvancesKeeps

\* The facts every working step starts from.
LEMMA WhileWorking ==
    ASSUME StreamInvariant, shown.status \in {"running", "pending_approval", "executing_response"}
    PROVE  /\ shown \in ProgressRecord /\ shown.status # "completed" /\ shown.listed > 0
           /\ mode \in {"static", "supervised"} /\ (mode = "static" => shown.phase \in 1..5)
BY DEF StreamInvariant, StreamTypeOK, ProgressShaped, ProgressRecord

LEMMA GateKeeps ==
    ASSUME StreamInvariant, Working,
           NEW q \in ProgressRecord, q.listed > 0, q.iteration = shown.iteration,
           shown.reports \subseteq q.reports, mode = "static" => q.phase \in 1..5,
           NEW p \in Gate(q), Show(p), UNCHANGED <<mode, execution>>
    PROVE  StreamInvariant'
<1>1. PICK s \in {"pending_approval", "completed"} : shown' = [q EXCEPT !.status = s]
  BY DEF Gate, Show
<1>2. shown.iteration \in Nat
  BY WhileWorking DEF Working, ProgressRecord
<1>3. Advances
  BY <1>1, <1>2, WhileWorking DEF Working, Show, Advances, ProgressRecord, Statuses
<1> QED
  BY <1>3, AdvancesKeeps

LEMMA StaticPhaseKeeps ==
    ASSUME StreamInvariant, StaticPhaseDone
    PROVE  StreamInvariant'
<1> DEFINE with == shown.reports \cup StaticPhases[shown.phase]
<1>1. /\ mode = "static" /\ Working /\ UNCHANGED <<mode, execution>>
      /\ shown \in ProgressRecord /\ shown.listed > 0 /\ shown.phase \in 1..5
  BY WhileWorking DEF StaticPhaseDone, Working
<1>2. with \in SUBSET Tasks /\ shown.reports \subseteq with
  BY <1>1, PhaseTasks DEF ProgressRecord
<1> HIDE DEF with
<1>3. CASE shown.phase # 5 /\ Show([shown EXCEPT !.reports = with, !.phase = @ + 1])
  <2>1. shown.phase + 1 \in 1..5 /\ shown.phase + 1 \in Nat /\ shown.iteration \in Nat
    BY <1>1, <1>3 DEF ProgressRecord
  <2>2. /\ shown' \in ProgressRecord /\ shown'.status = shown.status
        /\ shown'.listed = shown.listed /\ shown'.phase = shown.phase + 1
        /\ shown'.reports = with /\ shown'.iteration = shown.iteration
    BY <1>1, <1>2, <1>3, <2>1 DEF Show, ProgressRecord
  <2>3. Advances
    BY <1>1, <1>2, <1>3, <2>1, <2>2 DEF Working, Show, Advances
  <2> QED
    BY <2>3, AdvancesKeeps
<1>4. CASE Show([[shown EXCEPT !.reports = with, !.phase = @ + 1]
                     EXCEPT !.phase = 2, !.iteration = @ + 1])
  <2>1. shown.iteration + 1 \in Nat /\ shown.iteration <= shown.iteration + 1
    BY <1>1 DEF ProgressRecord
  <2>2. /\ shown' \in ProgressRecord /\ shown'.status = shown.status
        /\ shown'.listed = shown.listed /\ shown'.phase = 2
        /\ shown'.reports = with /\ shown'.iteration = shown.iteration + 1
    BY <1>1, <1>2, <1>4, <2>1 DEF Show, ProgressRecord
  <2>3. Advances
    BY <1>1, <1>2, <1>4, <2>1, <2>2 DEF Working, Show, Advances
  <2> QED
    BY <2>3, AdvancesKeeps
<1>5. CASE \E p \in Gate([shown EXCEPT !.reports = with]) : Show(p)
  <2> DEFINE q == [shown EXCEPT !.reports = with]
  <2>1. /\ q \in ProgressRecord /\ q.listed > 0 /\ q.iteration = shown.iteration
        /\ q.reports = with /\ q.phase \in 1..5
    BY <1>1, <1>2 DEF ProgressRecord
  <2>2. PICK p \in Gate(q) : Show(p)
    BY <1>5
  <2> HIDE DEF q
  <2> QED
    BY <1>1, <1>2, <2>1, <2>2, GateKeeps
<1> QED
  BY <1>3, <1>4, <1>5 DEF StaticPhaseDone, with

LEMMA SupervisedTriageKeeps ==
    ASSUME StreamInvariant, SupervisedTriage
    PROVE  StreamInvariant'
<1>1. shown.iteration \in Nat /\ {Task("triage", 0)} \subseteq Tasks
  BY WhileWorking, PhaseTasks DEF SupervisedTriage, Working, ProgressRecord
<1>2. Advances
  BY <1>1, WhileWorking DEF SupervisedTriage, Working, Show, Advances, ProgressRecord
<1> QED
  BY <1>2, AdvancesKeeps

LEMMA SupervisedTurnKeeps ==
    ASSUME StreamInvariant, SupervisedTurn
    PROVE  StreamInvariant'
<1>0. /\ shown \in ProgressRecord /\ shown.listed > 0 /\ mode = "supervised" /\ Working
      /\ UNCHANGED <<mode, execution>>
  BY WhileWorking DEF SupervisedTurn, Working
<1>1. /\ shown.iteration \in Nat /\ shown.turns + 1 \in Nat /\ shown.phase + 1 \in Nat
      /\ shown.listed + 1 \in Nat /\ shown.listed + 1 > 0
  BY <1>0 DEF ProgressRecord
<1>2. CASE Show(NextPhase([shown EXCEPT !.turns = @ + 1]))
  <2>1. /\ shown' \in ProgressRecord /\ shown'.status = shown.status
        /\ shown'.listed = shown.listed + 1 /\ shown'.reports = shown.reports
        /\ shown'.iteration = shown.iteration
    BY <1>0, <1>1, <1>2 DEF Show, NextPhase, ProgressRecord
  <2>2. Advances
    BY <1>0, <1>1, <1>2, <2>1 DEF Working, Show, Advances
  <2> QED
    BY <2>2, AdvancesKeeps
<1>3. CASE Show([shown EXCEPT !.turns = @ + 1, !.status = "completed"])
  <2>1. /\ shown' \in ProgressRecord /\ shown'.status = "completed"
        /\ shown'.listed = shown.listed /\ shown'.reports = shown.reports
        /\ shown'.iteration = shown.iteration
    BY <1>0, <1>1, <1>3 DEF Show, ProgressRecord, Statuses
  <2>2. Advances
    BY <1>0, <1>1, <1>3, <2>1 DEF Working, Show, Advances
  <2> QED
    BY <2>2, AdvancesKeeps
<1> QED
  BY <1>2, <1>3 DEF SupervisedTurn

LEMMA SupervisedWorkKeeps ==
    ASSUME StreamInvariant, SupervisedWork
    PROVE  StreamInvariant'
<1>1. /\ shown \in ProgressRecord /\ shown.listed > 0 /\ mode = "supervised" /\ Working
      /\ UNCHANGED <<mode, execution>>
  BY WhileWorking DEF SupervisedWork, Working
<1>2. /\ shown.iteration \in Nat /\ shown.iteration + 1 \in Nat
      /\ shown.iteration <= shown.iteration + 1 /\ shown.turns \in Nat
  BY <1>1 DEF ProgressRecord
<1>3. /\ shown.reports \cup {Task("work", shown.turns)} \subseteq Tasks
      /\ shown.reports \cup {Task("response", 0)} \subseteq Tasks
  BY <1>1, <1>2, PhaseTasks DEF ProgressRecord
<1>4. CASE Show([shown EXCEPT !.reports = @ \cup {Task("work", shown.turns)},
                              !.iteration = @ + 1])
  <2>1. Advances
    BY <1>1, <1>2, <1>3, <1>4, WhileWorking DEF Working, Show, Advances, ProgressRecord
  <2> QED
    BY <2>1, AdvancesKeeps
<1>5. CASE \E p \in Gate([shown EXCEPT !.reports = @ \cup {Task("response", 0)}]) : Show(p)
  <2> DEFINE q == [shown EXCEPT !.reports = @ \cup {Task("response", 0)}]
  <2>1. /\ q \in ProgressRecord /\ q.listed > 0 /\ q.iteration = shown.iteration
        /\ shown.reports \subseteq q.reports
    BY <1>1, <1>3 DEF ProgressRecord
  <2>2. PICK p \in Gate(q) : Show(p)
    BY <1>5
  <2> HIDE DEF q
  <2> QED
    BY <1>1, <2>1, <2>2, GateKeeps
<1> QED
  BY <1>4, <1>5 DEF SupervisedWork

LEMMA SupervisedExhaustedKeeps ==
    ASSUME StreamInvariant, SupervisedExhausted
    PROVE  StreamInvariant'
<1> DEFINE q == NextPhase([shown EXCEPT !.reports = @ \cup {Task("response", 0)}])
<1>1. /\ shown \in ProgressRecord /\ shown.listed > 0 /\ mode = "supervised" /\ Working
      /\ UNCHANGED <<mode, execution>>
  BY WhileWorking DEF SupervisedExhausted, Working
<1>2. /\ shown.listed + 1 \in Nat /\ shown.listed + 1 > 0 /\ shown.phase + 1 \in Nat
      /\ shown.reports \cup {Task("response", 0)} \subseteq Tasks
  BY <1>1, PhaseTasks DEF ProgressRecord
<1>3. /\ q \in ProgressRecord /\ q.listed > 0 /\ q.iteration = shown.iteration
      /\ shown.reports \subseteq q.reports
  BY <1>1, <1>2 DEF ProgressRecord, NextPhase
<1>4. PICK p \in Gate(q) : Show(p)
  BY DEF SupervisedExhausted
<1> HIDE DEF q
<1> QED
  BY <1>1, <1>3, <1>4, GateKeeps

LEMMA DecidedKeeps ==
    ASSUME StreamInvariant, Decided
    PROVE  StreamInvariant'
<1>1. PICK s \in {"executing_response", "completed"} : Show([shown EXCEPT !.status = s])
  BY DEF Decided
<1>2. shown.iteration \in Nat
  BY WhileWorking DEF Decided, ProgressRecord
<1>3. Advances
  BY <1>1, <1>2, WhileWorking DEF Decided, Show, Advances, ProgressRecord, Statuses
<1> QED
  BY <1>3, AdvancesKeeps

\* Whatever a poll was answered, a snapshot is of the workflow or of nothing.
LEMMA SnapshotsShaped ==
    ASSUME StreamInvariant, NEW p \in Snapshots
    PROVE  /\ p \in ProgressRecord /\ p.reports \subseteq shown.reports
           /\ p.iteration \in {0, shown.iteration}
           /\ p.status \in {"unknown", "completed"} \/ p.listed > 0
           /\ p.listed > 0 => p = shown /\ p.status # "unknown"
           /\ p.listed = 0 => p.status = "completed" \/ p.status = "unknown"
<1>1. CASE p = shown /\ mode # "none"
  BY <1>1 DEF StreamInvariant, StreamTypeOK, ProgressShaped, ProgressRecord
<1>2. CASE p = Unanswered
  BY <1>2 DEF Unanswered, Unknown, NothingShown, ProgressRecord, Statuses
<1> QED
  BY <1>1, <1>2 DEF Snapshots

LEMMA PollKeeps ==
    ASSUME StreamInvariant, PollNow
    PROVE  StreamInvariant'
<1>1. PICK p \in Snapshots : PollProgress(p)
  BY DEF PollNow
<1>2. /\ p \in ProgressRecord /\ p.reports \subseteq shown.reports
      /\ p.iteration \in {0, shown.iteration}
      /\ p.listed > 0 => p = shown /\ p.status # "unknown"
      /\ p.listed = 0 => p.status = "completed" \/ p.status = "unknown"
  BY SnapshotsShaped
<1>3. /\ p.status \in Statuses /\ p.phase \in Nat /\ p.listed \in Nat /\ p.turns \in Nat
      /\ p.iteration \in Nat /\ p.reports \subseteq Tasks /\ shown.iteration \in Nat
      /\ stream.iteration \in Nat /\ stream.phase \in Nat /\ stream.turns \in Nat
      /\ stream.iteration <= shown.iteration
  BY <1>2 DEF ProgressRecord, StreamInvariant, StreamTypeOK, StreamKeepsUp
<1>4. UNCHANGED <<shown, mode, execution, answering, reconnects>> /\ stream.ended = "no"
  BY <1>1 DEF PollProgress
<1>5. /\ stream'.reports = stream.reports \cup p.reports
      /\ stream'.status = p.status
      /\ stream'.iteration = IF p.iteration > stream.iteration THEN p.iteration
                             ELSE stream.iteration
      /\ stream'.ended = IF p.status = "completed" THEN "run_complete" ELSE "no"
      /\ stream' \in [phase : Nat, reports : SUBSET Tasks, iteration : Nat,
                      status : Statuses, turns : Nat, asked : BOOLEAN,
                      ended : {"no", "run_complete"}]
  <2>1. stream \in [phase : Nat, reports : SUBSET Tasks, iteration : Nat, status : Statuses,
                    turns : Nat, asked : BOOLEAN, ended : {"no", "run_complete"}]
    BY DEF StreamInvariant, StreamTypeOK
  <2>2. p.status # "failed"
    BY <1>3 DEF Statuses
  <2> QED
    BY <1>1, <1>3, <1>4, <2>1, <2>2 DEF PollProgress, Announced
<1>6. /\ told'.plan = IF ~NewPlan(p) THEN told.plan
                      ELSE IF p.listed = 0 THEN "empty" ELSE "listed"
      /\ told'.tasks = told.tasks \cup (p.reports \ stream.reports)
      /\ told'.rounds = IF p.iteration > stream.iteration
                        THEN told.rounds \cup {p.iteration} ELSE told.rounds
      /\ told'.whole = (p.listed > 0)
      /\ told' \in [plan : {"none", "empty", "listed"}, phases : SUBSET Nat,
                    tasks : SUBSET Tasks, rounds : SUBSET Nat, asked : BOOLEAN,
                    whole : BOOLEAN]
  <2>1. told \in [plan : {"none", "empty", "listed"}, phases : SUBSET Nat,
                  tasks : SUBSET Tasks, rounds : SUBSET Nat, asked : BOOLEAN,
                  whole : BOOLEAN]
    BY DEF StreamInvariant, StreamTypeOK
  <2> DEFINE asked == told.asked \/ p.status = "pending_approval"
             whole == p.listed > 0
             plan == IF ~NewPlan(p) THEN told.plan
                     ELSE IF p.listed = 0 THEN "empty" ELSE "listed"
             phases == IF NewPhase(p) THEN told.phases \cup {p.phase} ELSE told.phases
             tasks == told.tasks \cup (p.reports \ stream.reports)
             rounds == IF p.iteration > stream.iteration
                       THEN told.rounds \cup {p.iteration} ELSE told.rounds
  <2>2. /\ asked \in BOOLEAN /\ whole \in BOOLEAN /\ plan \in {"none", "empty", "listed"}
        /\ phases \subseteq Nat /\ tasks \subseteq Tasks /\ rounds \subseteq Nat
    BY <1>3, <2>1
  <2>3. told' = [told EXCEPT !.plan = plan, !.phases = phases, !.tasks = tasks,
                             !.rounds = rounds, !.asked = asked, !.whole = whole]
    BY <1>1 DEF PollProgress, Announced
  <2>4. told'.plan = plan /\ told'.tasks = tasks /\ told'.rounds = rounds
    BY <2>1, <2>3
  <2>5. told'.whole = whole
    BY <2>1, <2>3
  <2>6. told' \in [plan : {"none", "empty", "listed"}, phases : SUBSET Nat,
                   tasks : SUBSET Tasks, rounds : SUBSET Nat, asked : BOOLEAN,
                   whole : BOOLEAN]
    <3> HIDE DEF asked, whole, plan, phases, tasks, rounds
    <3> QED
      BY <2>1, <2>2, <2>3
  <2> QED
    BY <2>4, <2>5, <2>6
<1>7. StreamTypeOK' /\ ProgressShaped'
  BY <1>4, <1>5, <1>6 DEF StreamInvariant, StreamTypeOK, ProgressShaped
<1>8. told'.tasks = stream'.reports /\ stream'.reports \subseteq shown.reports
  BY <1>2, <1>5, <1>6 DEF StreamInvariant, StreamKeepsUp
<1>9. /\ stream'.iteration <= shown.iteration
      /\ stream'.iteration # 0 => stream'.iteration \in told'.rounds
  BY <1>2, <1>3, <1>5, <1>6 DEF StreamInvariant, StreamKeepsUp
<1>10. p.listed > 0 => told'.plan = "listed"
  <2>1. p.listed > 0 => p.status # "planning"
    BY <1>3 DEF Statuses
  <2>2. CASE stream.status = "unknown"
    BY <1>3, <1>6, <2>1, <2>2 DEF NewPlan
  <2>3. CASE stream.status # "unknown"
    <3>1. stream.status # "planning"
      BY DEF StreamInvariant, StreamTypeOK, Statuses
    <3>2. told.plan = "listed"
      BY <1>4, <2>3 DEF StreamInvariant, StreamKeepsUp
    <3> QED
      BY <1>6, <2>3, <3>1, <3>2 DEF NewPlan
  <2> QED
    BY <2>2, <2>3
<1>11. p.listed > 0 \/ p.listed = 0
  BY <1>3
<1>12. StreamKeepsUp'
  BY <1>2, <1>4, <1>5, <1>8, <1>9, <1>10, <1>11 DEF StreamKeepsUp
<1>13. stream'.ended = "run_complete" /\ told'.whole => p = shown /\ p.status = "completed"
  BY <1>2, <1>5, <1>6
<1>14. EndedOnTheLast'
  BY <1>4, <1>13 DEF EndedOnTheLast
<1>15. p = shown => stream'.iteration = shown.iteration /\ stream'.reports = shown.reports
  BY <1>2, <1>3, <1>5, <1>8
<1>16. StreamTellsAll'
  BY <1>4, <1>6, <1>8, <1>9, <1>10, <1>13, <1>15 DEF StreamTellsAll
<1> QED
  BY <1>7, <1>12, <1>14, <1>16 DEF StreamInvariant

LEMMA ReconnectKeeps ==
    ASSUME StreamInvariant, Reconnect
    PROVE  StreamInvariant'
<1>1. /\ stream' = Fresh /\ told' = NothingTold /\ reconnects' = reconnects + 1
      /\ UNCHANGED <<shown, mode, execution, answering>>
  BY DEF Reconnect
<1>2. shown.iteration \in Nat /\ reconnects \in Nat
  BY DEF StreamInvariant, StreamTypeOK
<1> QED
  BY <1>1, <1>2 DEF StreamInvariant, StreamTypeOK, ProgressShaped, StreamKeepsUp,
                    EndedOnTheLast, StreamTellsAll, Fresh, NothingTold, Statuses

\* The generator and the workflow it polls keep the strengthened invariant.
THEOREM StreamInvariantHolds == StreamSpec => []StreamInvariant
<1>1. StreamInit => StreamInvariant
  BY DEF StreamInit, StreamInvariant, StreamTypeOK, ProgressShaped, StreamKeepsUp,
         EndedOnTheLast, StreamTellsAll, NothingShown, Fresh, NothingTold, Statuses
<1>2. StreamInvariant /\ [StreamNext]_streamVars => StreamInvariant'
  <2> SUFFICES ASSUME StreamInvariant, [StreamNext]_streamVars
               PROVE  StreamInvariant'
    OBVIOUS
  <2>1. ASSUME NEW m \in {"static", "supervised"}, Start(m) PROVE StreamInvariant'
    BY <2>1, StartKeeps
  <2>2. CASE Close \/ WorkerStops \/ WorkerStarts \/ UNCHANGED streamVars
    <3>1. /\ execution' \in {"running", "completed", "failed"} /\ answering' \in BOOLEAN
          /\ reconnects' \in Nat /\ UNCHANGED <<shown, mode, stream, told>>
      BY <2>2 DEF Close, WorkerStops, WorkerStarts, streamVars, StreamInvariant,
                  StreamTypeOK
    <3> QED
      BY <3>1, QuietKeeps
  <2> QED
    BY <2>1, <2>2, StaticPhaseKeeps, SupervisedTriageKeeps, SupervisedTurnKeeps,
       SupervisedWorkKeeps, SupervisedExhaustedKeeps, DecidedKeeps, PollKeeps,
       ReconnectKeeps DEF StreamNext
<1> QED
  BY <1>1, <1>2, PTL DEF StreamSpec

\* StreamTellsAll (sse_poll of api/routes/orchestrator.py): a stream that
\* ended on a snapshot of the workflow told every report, a plan with phases
\* and the last round, whatever was unanswered or skipped before.
THEOREM StreamTheorem == StreamSpec => []StreamTellsAll
  BY StreamInvariantHolds, PTL DEF StreamInvariant

-----------------------------------------------------------------------------
(* The investigation ledger *)

LEMMA StepsTyped ==
    ASSUME LedgerInvariant
    PROVE  /\ Len(steps) \in Nat /\ DOMAIN steps = 1..Len(steps)
           /\ \A s \in DOMAIN steps : /\ steps[s] \in [inv : LedgerIds, life : Nat]
                                     /\ steps[s].inv \in LedgerIds /\ steps[s].life \in Nat
<1> DEFINE S == [inv : LedgerIds, life : Nat]
<1>1. steps \in Seq(S)
  BY DEF LedgerInvariant, LedgerTypeOK
<1>2. \A x \in S : x.inv \in LedgerIds /\ x.life \in Nat
  OBVIOUS
<1> HIDE DEF S
<1>3. Len(steps) \in Nat /\ DOMAIN steps = 1..Len(steps) /\ \A s \in DOMAIN steps : steps[s] \in S
  BY <1>1
<1> QED
  BY <1>2, <1>3 DEF S

LEMMA RecordKeeps ==
    ASSUME LedgerInvariant, NEW inv \in LedgerIds, Record(inv)
    PROVE  LedgerInvariant'
<1> DEFINE step == Len(steps) + 1
           row == [inv |-> inv, index |-> Len(entries[inv]), step |-> step]
<1>1. /\ steps' = Append(steps, [inv |-> inv, life |-> life[inv]]) /\ life' = life
      /\ entries' = [entries EXCEPT ![inv] = Append(entries[inv], step)]
      /\ rows' \in {rows, rows \cup {row}} /\ replayed' = NoReplay
  BY DEF Record, Remembered
<1>2. /\ steps \in Seq([inv : LedgerIds, life : Nat]) /\ life \in [LedgerIds -> Nat]
      /\ entries \in [LedgerIds -> Seq(DOMAIN steps)]
      /\ rows \subseteq [inv : LedgerIds, index : Nat, step : DOMAIN steps]
      /\ IsFiniteSet(rows)
  BY DEF LedgerInvariant, LedgerTypeOK
<1>3. /\ step \in Nat /\ DOMAIN steps = 1..(step - 1) /\ DOMAIN steps' = 1..step
      /\ step \in 1..step
      /\ steps' \in Seq([inv : LedgerIds, life : Nat])
      /\ steps'[step] = [inv |-> inv, life |-> life[inv]]
      /\ \A s \in DOMAIN steps : steps'[s] = steps[s]
  <2> DEFINE S == [inv : LedgerIds, life : Nat]
             new == [inv |-> inv, life |-> life[inv]]
  <2>1. steps \in Seq(S) /\ new \in S /\ steps' = Append(steps, new)
    BY <1>1, <1>2
  <2> HIDE DEF S, new
  <2>2. /\ Len(steps) \in Nat /\ DOMAIN steps = 1..Len(steps)
        /\ Len(steps') = Len(steps) + 1 /\ steps' \in Seq(S)
        /\ steps'[Len(steps) + 1] = new
        /\ \A s \in 1..Len(steps) : steps'[s] = steps[s]
    BY <2>1
  <2>3. DOMAIN steps' = 1..Len(steps')
    BY <2>2
  <2>4. (Len(steps) + 1) - 1 = Len(steps) /\ Len(steps) + 1 \in Nat
        /\ Len(steps) + 1 \in 1..(Len(steps) + 1)
    BY <2>2
  <2> QED
    BY <2>2, <2>3, <2>4 DEF S, new
<1>4. \A s \in DOMAIN steps : s \in DOMAIN steps' /\ s \in Nat /\ s < step
  BY <1>3
<1> HIDE DEF step
<1>5. \A i \in LedgerIds : entries[i] \in Seq(DOMAIN steps) /\ entries[i] \in Seq(DOMAIN steps')
  <2> TAKE i \in LedgerIds
  <2>1. entries[i] \in Seq(DOMAIN steps)
    BY <1>2
  <2>2. Len(entries[i]) \in Nat /\ entries[i] \in [1..Len(entries[i]) -> DOMAIN steps]
    BY <2>1
  <2>3. entries[i] \in [1..Len(entries[i]) -> DOMAIN steps']
    BY <2>2, <1>4
  <2> QED
    BY <2>1, <2>2, <2>3
<1>7. LedgerTypeOK'
  <2>1. entries' \in [LedgerIds -> Seq(DOMAIN steps')]
    <3>1. Append(entries[inv], step) \in Seq(DOMAIN steps')
      BY <1>3, <1>5
    <3> QED
      BY <1>1, <1>2, <1>5, <3>1
  <2>2. Len(entries[inv]) \in Nat
    BY <1>5
  <2>3. rows' \subseteq [inv : LedgerIds, index : Nat, step : DOMAIN steps']
    BY <1>1, <1>2, <1>4, <1>3, <2>2
  <2>4. IsFiniteSet(rows')
    <3>1. IsFiniteSet(rows \cup {row})
      BY <1>2, FS_AddElement
    <3> QED
      BY <1>1, <1>2, <3>1
  <2> QED
    BY <1>1, <1>2, <1>3, <2>1, <2>3, <2>4 DEF LedgerTypeOK
<1>8. ListIsTheLife'
  <2> SUFFICES ASSUME NEW i \in LedgerIds
      PROVE  /\ {entries'[i][k] : k \in DOMAIN entries'[i]}
                  = {s \in DOMAIN steps' : steps'[s] = [inv |-> i, life |-> life[i]]}
             /\ \A j, k \in DOMAIN entries'[i] : j < k => entries'[i][j] < entries'[i][k]
             /\ \A s \in DOMAIN steps' : steps'[s].inv = i => steps'[s].life <= life[i]
    BY <1>1 DEF ListIsTheLife
  <2> DEFINE list == entries[i]
             current == {s \in DOMAIN steps : steps[s] = [inv |-> i, life |-> life[i]]}
  <2>1. /\ {list[k] : k \in DOMAIN list} = current
        /\ \A j, k \in DOMAIN list : j < k => list[j] < list[k]
        /\ \A s \in DOMAIN steps : steps[s].inv = i => steps[s].life <= life[i]
    BY DEF LedgerInvariant, ListIsTheLife
  <2>2. list \in Seq(DOMAIN steps) /\ Len(list) \in Nat /\ life[i] \in Nat
    BY <1>2, <1>5
  <2>3. \A s \in DOMAIN steps' : s \in DOMAIN steps \/ s = step
    BY <1>3
  <2>4. \A s \in DOMAIN steps' : steps'[s].inv = i => steps'[s].life <= life[i]
    BY <1>3, <2>1, <2>2, <2>3
  <2>5. CASE i = inv
    <3>1. entries'[i] = Append(list, step)
      BY <1>1, <1>2, <2>5
    <3>2. /\ DOMAIN entries'[i] = 1..(Len(list) + 1) /\ entries'[i][Len(list) + 1] = step
          /\ DOMAIN list = 1..Len(list)
          /\ \A k \in DOMAIN list : entries'[i][k] = list[k] /\ list[k] \in DOMAIN steps
      BY <2>2, <3>1
    <3>3. {s \in DOMAIN steps' : steps'[s] = [inv |-> i, life |-> life[i]]}
              = current \cup {step}
      BY <1>3, <1>4, <2>3, <2>5
    <3>4. {entries'[i][k] : k \in DOMAIN entries'[i]}
              = {list[k] : k \in DOMAIN list} \cup {step}
      <4>1. \A k \in DOMAIN entries'[i] : k \in DOMAIN list \/ k = Len(list) + 1
        BY <2>2, <3>2
      <4>2. DOMAIN list \subseteq DOMAIN entries'[i] /\ Len(list) + 1 \in DOMAIN entries'[i]
        BY <2>2, <3>2
      <4> QED
        BY <3>2, <4>1, <4>2
    <3>5. \A j, k \in DOMAIN entries'[i] : j < k => entries'[i][j] < entries'[i][k]
      <4> SUFFICES ASSUME NEW j \in DOMAIN entries'[i], NEW k \in DOMAIN entries'[i], j < k
                   PROVE  entries'[i][j] < entries'[i][k]
        OBVIOUS
      <4>1. j \in DOMAIN list
        BY <2>2, <3>2
      <4>2. CASE k \in DOMAIN list
        BY <2>1, <3>2, <4>1, <4>2
      <4>3. CASE k = Len(list) + 1
        BY <1>4, <3>2, <4>1, <4>3
      <4> QED
        BY <2>2, <3>2, <4>2, <4>3
    <3> QED
      BY <2>1, <2>4, <3>3, <3>4, <3>5
  <2>6. CASE i # inv
    <3>1. entries'[i] = list
      BY <1>1, <1>2, <2>6
    <3>2. {s \in DOMAIN steps' : steps'[s] = [inv |-> i, life |-> life[i]]} = current
      BY <1>3, <1>4, <2>3, <2>6
    <3> QED
      BY <2>1, <2>4, <3>1, <3>2
  <2> QED
    BY <2>5, <2>6
<1>9. RowsInOrder'
  <2>1. \A r \in rows : /\ r.inv \in LedgerIds /\ r.step \in DOMAIN steps /\ r.step < step
                        /\ steps'[r.step] = steps[r.step] /\ r.index \in Nat
    BY <1>2, <1>3, <1>4
  <2>2. \A i \in LedgerIds : /\ Len(entries[i]) \in Nat
                             /\ Len(entries'[i]) = Len(entries[i]) + (IF i = inv THEN 1 ELSE 0)
    BY <1>1, <1>2, <1>5
  <2>3. \A r \in rows : /\ steps'[r.step].inv = r.inv
                        /\ steps'[r.step].life = life[r.inv] =>
                              r.index < Len(entries[r.inv]) /\ r.index < Len(entries'[r.inv])
    <3> SUFFICES ASSUME NEW r \in rows
                 PROVE  /\ steps'[r.step].inv = r.inv
                        /\ steps'[r.step].life = life[r.inv] =>
                              r.index < Len(entries[r.inv]) /\ r.index < Len(entries'[r.inv])
      OBVIOUS
    <3>1. /\ steps[r.step].inv = r.inv
          /\ steps[r.step].life = life[r.inv] => r.index < Len(entries[r.inv])
      BY DEF LedgerInvariant, RowsInOrder
    <3>2. /\ r.index \in Nat /\ Len(entries[r.inv]) \in Nat
          /\ Len(entries'[r.inv]) = Len(entries[r.inv]) + (IF r.inv = inv THEN 1 ELSE 0)
      BY <2>1, <2>2
    <3>3. r.index < Len(entries[r.inv]) => r.index < Len(entries'[r.inv])
      <4> DEFINE a == Len(entries[r.inv])
                 b == Len(entries'[r.inv])
                 x == r.index
      <4>1. x \in Nat /\ a \in Nat
        BY <3>2
      <4>2. b = a + (IF r.inv = inv THEN 1 ELSE 0)
        BY <3>2
      <4> HIDE DEF a, b, x
      <4>3. CASE r.inv = inv
        <5>1. b = a + 1
          BY <4>2, <4>3
        <5> QED
          BY <4>1, <5>1 DEF a, b, x
      <4>4. CASE r.inv # inv
        <5>1. b = a
          BY <4>1, <4>2, <4>4
        <5> QED
          BY <4>1, <5>1 DEF a, b, x
      <4> QED
        BY <4>3, <4>4
    <3> QED
      BY <2>1, <3>1, <3>3
  <2>4. \A r, q \in rows : q.inv = r.inv /\ steps'[q.step].life = steps'[r.step].life =>
            (q.step < r.step => q.index < r.index) /\ (q.step = r.step => q = r)
    BY <2>1 DEF LedgerInvariant, RowsInOrder
  <2>5. /\ row.inv = inv /\ row.step = step /\ row.index = Len(entries[inv])
        /\ steps'[row.step].inv = inv /\ steps'[row.step].life = life[inv]
        /\ row.index < Len(entries'[inv])
    <3>1. Len(entries[inv]) \in Nat /\ Len(entries'[inv]) = Len(entries[inv]) + 1
      BY <2>2
    <3>2. Len(entries[inv]) < Len(entries'[inv])
      BY <3>1
    <3> QED
      BY <1>3, <3>2
  <2>6. \A q \in rows : q.inv = row.inv /\ steps'[q.step].life = steps'[row.step].life =>
            q.step < row.step /\ q.index < row.index
    BY <2>1, <2>3, <2>5
  <2>7. \A q \in rows : /\ q.step \in Nat /\ row.step \in Nat
                        /\ ~(row.step < q.step) /\ row.step # q.step
    BY <1>3, <1>4, <2>1, <2>5
  <2>8. row.step \in Nat /\ ~(row.step < row.step)
    BY <1>3, <2>5
  <2> HIDE DEF row
  <2>9. \A r \in rows' : r \in rows \/ r = row
    BY <1>1
  <2>10. \A r \in rows' : /\ steps'[r.step].inv = r.inv
                          /\ steps'[r.step].life = life'[r.inv] =>
                                r.index < Len(entries'[r.inv])
    BY <1>1, <2>3, <2>5, <2>9
  <2>11. \A r, q \in rows' : q.inv = r.inv /\ steps'[q.step].life = steps'[r.step].life =>
            (q.step < r.step => q.index < r.index) /\ (q.step = r.step => q = r)
    BY <2>4, <2>6, <2>7, <2>8, <2>9
  <2> QED
    BY <2>10, <2>11 DEF RowsInOrder
<1>10. ReplayAccounts'
  BY <1>1 DEF ReplayAccounts
<1> QED
  BY <1>7, <1>8, <1>9, <1>10 DEF LedgerInvariant

\* The list is emptied and a new life begins, for one investigation or for all.
Forgets(which) ==
    /\ entries' = [i \in LedgerIds |-> IF i \in which THEN <<>> ELSE entries[i]]
    /\ life' = [i \in LedgerIds |-> IF i \in which THEN life[i] + 1 ELSE life[i]]
    /\ replayed' = NoReplay /\ UNCHANGED <<rows, steps>>

LEMMA ForgetsKeeps ==
    ASSUME LedgerInvariant, NEW which \in SUBSET LedgerIds, Forgets(which)
    PROVE  LedgerInvariant'
<1>1. /\ \A i \in LedgerIds : /\ entries'[i] = IF i \in which THEN <<>> ELSE entries[i]
                              /\ life'[i] = IF i \in which THEN life[i] + 1 ELSE life[i]
      /\ replayed' = NoReplay /\ rows' = rows /\ steps' = steps
  BY DEF Forgets
<1>2. /\ steps \in Seq([inv : LedgerIds, life : Nat]) /\ life \in [LedgerIds -> Nat]
      /\ entries \in [LedgerIds -> Seq(DOMAIN steps)]
      /\ rows \subseteq [inv : LedgerIds, index : Nat, step : DOMAIN steps]
      /\ IsFiniteSet(rows)
  BY DEF LedgerInvariant, LedgerTypeOK
<1>3. LedgerTypeOK'
  <2>1. \A i \in LedgerIds : /\ entries[i] \in Seq(DOMAIN steps)
                             /\ life[i] \in Nat /\ life[i] + 1 \in Nat
    BY <1>2
  <2>2. <<>> \in Seq(DOMAIN steps)
    OBVIOUS
  <2>3. entries' \in [LedgerIds -> Seq(DOMAIN steps)]
    BY <2>1, <2>2 DEF Forgets
  <2>4. life' \in [LedgerIds -> Nat]
    BY <2>1 DEF Forgets
  <2> QED
    BY <1>1, <1>2, <2>3, <2>4 DEF LedgerTypeOK
<1>4. \A s \in DOMAIN steps : steps[s].inv \in LedgerIds /\ steps[s].life \in Nat
  BY StepsTyped
<1>5. ListIsTheLife'
  <2> SUFFICES ASSUME NEW i \in LedgerIds
      PROVE  /\ {entries'[i][k] : k \in DOMAIN entries'[i]}
                  = {s \in DOMAIN steps : steps[s] = [inv |-> i, life |-> life'[i]]}
             /\ \A j, k \in DOMAIN entries'[i] : j < k => entries'[i][j] < entries'[i][k]
             /\ \A s \in DOMAIN steps : steps[s].inv = i => steps[s].life <= life'[i]
    BY <1>1 DEF ListIsTheLife
  <2>1. /\ {entries[i][k] : k \in DOMAIN entries[i]}
              = {s \in DOMAIN steps : steps[s] = [inv |-> i, life |-> life[i]]}
        /\ \A j, k \in DOMAIN entries[i] : j < k => entries[i][j] < entries[i][k]
        /\ \A s \in DOMAIN steps : steps[s].inv = i => steps[s].life <= life[i]
    BY DEF LedgerInvariant, ListIsTheLife
  <2>2. CASE i \in which
    <3>1. entries'[i] = <<>> /\ life'[i] = life[i] + 1 /\ life[i] \in Nat
      BY <1>1, <1>2, <2>2
    <3>2. \A s \in DOMAIN steps : steps[s].inv = i =>
              steps[s].life < life'[i] /\ steps[s].life # life'[i]
      BY <1>4, <2>1, <3>1
    <3>3. {s \in DOMAIN steps : steps[s] = [inv |-> i, life |-> life'[i]]} = {}
      BY <3>2
    <3> QED
      BY <1>4, <3>1, <3>2, <3>3
  <2>3. CASE i \notin which
    BY <1>1, <2>1, <2>3
  <2> QED
    BY <2>2, <2>3
<1>6. RowsInOrder'
  <2>1. \A r \in rows : r.inv \in LedgerIds /\ r.step \in DOMAIN steps
    BY <1>2
  <2>2. ASSUME NEW r \in rows, steps[r.step].life = life'[r.inv]
        PROVE  r.index < Len(entries'[r.inv])
    <3>1. steps[r.step].inv = r.inv
      BY DEF LedgerInvariant, RowsInOrder
    <3>2. steps[r.step].life <= life[r.inv]
      BY <2>1, <3>1 DEF LedgerInvariant, ListIsTheLife
    <3>3. r.inv \notin which
      BY <1>1, <1>2, <1>4, <2>1, <2>2, <3>2
    <3> QED
      BY <1>1, <2>1, <2>2, <3>3 DEF LedgerInvariant, RowsInOrder
  <2> QED
    BY <1>1, <2>2 DEF LedgerInvariant, RowsInOrder
<1> QED
  BY <1>1, <1>3, <1>5, <1>6 DEF LedgerInvariant, ReplayAccounts

\* The table's answer has every row of the investigation, once.
LEMMA OrdersComplete ==
    ASSUME LedgerInvariant, NEW inv \in LedgerIds, NEW s \in DatabaseOrders(inv)
    PROVE  /\ \A k \in DOMAIN s : s[k] \in rows /\ s[k].inv = inv
           /\ \A r \in rows : r.inv = inv => \E k \in DOMAIN s : s[k] = r
           /\ \A j, k \in DOMAIN s : j # k => s[j] # s[k]
           /\ \A j, k \in DOMAIN s : j < k => s[j].index <= s[k].index
           /\ DOMAIN s \subseteq Nat
<1> DEFINE D == 1..Cardinality(RowsOf(inv))
<1>1. IsFiniteSet(RowsOf(inv)) /\ RowsOf(inv) \subseteq rows
  <2>1. IsFiniteSet(rows) /\ RowsOf(inv) \in SUBSET rows
    BY DEF LedgerInvariant, LedgerTypeOK, RowsOf
  <2> QED
    BY <2>1, FS_Subset
<1>2. /\ s \in [D -> RowsOf(inv)] /\ \A j, k \in D : j # k => s[j] # s[k]
      /\ \A j, k \in DOMAIN s : j < k => s[j].index <= s[k].index
  BY DEF DatabaseOrders, SetToSeqs
<1>3. Cardinality(RowsOf(inv)) \in Nat
  BY <1>1, FS_CardinalityType
<1>4. Cardinality(D) = Cardinality(RowsOf(inv))
  BY <1>3, FS_Interval
<1>5. s \in Injection(D, RowsOf(inv))
  BY <1>2 DEF Injection, IsInjective
<1>6. s \in Surjection(D, RowsOf(inv))
  <2> HIDE DEF D
  <2> QED
    BY <1>1, <1>4, <1>5, FS_Injection
<1>7. \A r \in RowsOf(inv) : \E k \in D : s[k] = r
  BY <1>6 DEF Surjection
<1> QED
  BY <1>1, <1>2, <1>3, <1>7 DEF RowsOf

LEMMA ReplayKeeps ==
    ASSUME LedgerInvariant, NEW inv \in LedgerIds, Replay(inv)
    PROVE  LedgerInvariant'
<1>1. UNCHANGED <<entries, rows, steps, life>>
  BY DEF Replay
<1>2. LedgerTypeOK' /\ ListIsTheLife' /\ RowsInOrder'
  BY <1>1 DEF LedgerInvariant, LedgerTypeOK, ListIsTheLife, RowsInOrder
<1>3. /\ steps \in Seq([inv : LedgerIds, life : Nat]) /\ life \in [LedgerIds -> Nat]
      /\ entries[inv] \in Seq(DOMAIN steps)
      /\ rows \subseteq [inv : LedgerIds, index : Nat, step : DOMAIN steps]
      /\ DOMAIN steps \subseteq Nat
  BY DEF LedgerInvariant, LedgerTypeOK
<1>4. /\ {entries[inv][k] : k \in DOMAIN entries[inv]}
            = {s \in DOMAIN steps : steps[s] = [inv |-> inv, life |-> life[inv]]}
      /\ \A j, k \in DOMAIN entries[inv] : j < k => entries[inv][j] < entries[inv][k]
      /\ \A s \in DOMAIN steps : steps[s].inv = inv => steps[s].life <= life[inv]
  BY DEF LedgerInvariant, ListIsTheLife
<1>5. ASSUME NEW s \in DOMAIN steps, steps[s].inv = inv,
             s \notin {entries[inv][k] : k \in DOMAIN entries[inv]}
      PROVE  steps[s].life < life[inv]
  <2>1. steps[s] \in [inv : LedgerIds, life : Nat] /\ life[inv] \in Nat
    BY <1>3, StepsTyped
  <2>2. steps[s] # [inv |-> inv, life |-> life[inv]]
    BY <1>4, <1>5
  <2>3. steps[s].life # life[inv]
    BY <1>5, <2>1, <2>2
  <2>4. steps[s].life <= life[inv]
    BY <1>4, <1>5
  <2> QED
    BY <2>1, <2>3, <2>4
<1>6. ReplayAccounts'
  <2>1. CASE replayed' = NoReplay
    BY <2>1 DEF ReplayAccounts
  <2>2. CASE entries[inv] # <<>> /\ replayed' = [inv |-> inv, seq |-> entries[inv]]
    <3>1. replayed'.inv = inv /\ replayed'.seq = entries[inv]
      BY <2>2
    <3>2. ToSet(entries[inv]) = {entries[inv][k] : k \in DOMAIN entries[inv]}
      BY <1>3 DEF ToSet
    <3> QED
      BY <1>1, <1>4, <1>5, <2>2, <3>1, <3>2 DEF ReplayAccounts
  <2>3. ASSUME entries[inv] = <<>>, NEW s \in DatabaseOrders(inv),
               replayed' = [inv |-> inv, seq |-> [i \in DOMAIN s |-> s[i].step]]
        PROVE  ReplayAccounts'
    <3> DEFINE seq == [i \in DOMAIN s |-> s[i].step]
    <3>1. replayed'.inv = inv /\ replayed'.seq = seq
      BY <2>3
    <3>2. /\ DOMAIN seq = DOMAIN s
          /\ \A k \in DOMAIN s : seq[k] = s[k].step /\ s[k] \in rows /\ s[k].inv = inv
      BY OrdersComplete
    <3>3. \A k \in DOMAIN s : seq[k] \in Nat /\ s[k].index \in Nat
      BY <1>3, <3>2
    <3>4. \A i, j \in DOMAIN seq :
              i < j /\ steps[seq[i]].life = steps[seq[j]].life => seq[i] < seq[j]
      <4> SUFFICES ASSUME NEW i \in DOMAIN s, NEW j \in DOMAIN s, i < j,
                          steps[seq[i]].life = steps[seq[j]].life
                   PROVE  seq[i] < seq[j]
        BY <3>2
      <4> HIDE DEF seq
      <4>1. i \in Nat /\ j \in Nat /\ i # j
        BY OrdersComplete
      <4>2. s[i] # s[j] /\ s[i].index <= s[j].index
        BY <4>1, OrdersComplete
      <4>3. /\ s[j].step < s[i].step => s[j].index < s[i].index
            /\ s[j].step = s[i].step => s[j] = s[i]
        BY <3>2 DEF LedgerInvariant, RowsInOrder
      <4> QED
        BY <3>2, <3>3, <4>2, <4>3
    <3>5. ToSet(seq) = {seq[k] : k \in DOMAIN s}
      BY <3>2 DEF ToSet
    <3>6. {entries[inv][k] : k \in DOMAIN entries[inv]} = {}
      BY <2>3
    <3>7. ASSUME NEW x \in DOMAIN steps, steps[x].inv = inv, x \notin ToSet(seq)
          PROVE  steps[x].life < life[inv] /\ ~\E r \in rows : r.step = x
      <4>1. steps[x].life < life[inv]
        BY <1>5, <3>6, <3>7
      <4>2. ASSUME NEW r \in rows, r.step = x PROVE FALSE
        <5>1. r.inv = inv
          BY <3>7, <4>2 DEF LedgerInvariant, RowsInOrder
        <5>2. PICK k \in DOMAIN s : s[k] = r
          BY <5>1, OrdersComplete
        <5> QED
          BY <3>2, <3>5, <3>7, <4>2, <5>2
      <4> QED
        BY <4>1, <4>2
    <3> HIDE DEF seq
    <3> QED
      BY <1>1, <3>1, <3>4, <3>7 DEF ReplayAccounts
  <2> QED
    BY <2>1, <2>2, <2>3 DEF Replay
<1> QED
  BY <1>2, <1>6 DEF LedgerInvariant

\* Lists, rows and lives of the ledger keep the strengthened invariant.
THEOREM LedgerInvariantHolds == LedgerSpec => []LedgerInvariant
<1>1. LedgerInit => LedgerInvariant
  <2> SUFFICES ASSUME LedgerInit PROVE LedgerInvariant
    OBVIOUS
  <2>1. LedgerTypeOK
    BY FS_EmptySet DEF LedgerInit, LedgerTypeOK
  <2> QED
    BY <2>1 DEF LedgerInit, LedgerInvariant, ListIsTheLife, RowsInOrder, ReplayAccounts
<1>2. LedgerInvariant /\ [LedgerNext]_ledgerVars => LedgerInvariant'
  <2> SUFFICES ASSUME LedgerInvariant, [LedgerNext]_ledgerVars
               PROVE  LedgerInvariant'
    OBVIOUS
  <2>1. ASSUME NEW inv \in LedgerIds, ClearLedger(inv) PROVE LedgerInvariant'
    <3>1. Forgets({inv})
      BY <2>1 DEF ClearLedger, Forgets, LedgerInvariant, LedgerTypeOK
    <3> QED
      BY <3>1, ForgetsKeeps
  <2>2. CASE LedgerRestart
    <3>1. Forgets(LedgerIds)
      BY <2>2 DEF LedgerRestart, Forgets
    <3> QED
      BY <3>1, ForgetsKeeps
  <2>3. CASE UNCHANGED ledgerVars
    BY <2>3 DEF ledgerVars, LedgerInvariant, LedgerTypeOK, ListIsTheLife, RowsInOrder,
                ReplayAccounts
  <2> QED
    BY <2>1, <2>2, <2>3, RecordKeeps, ReplayKeeps DEF LedgerNext
<1> QED
  BY <1>1, <1>2, PTL DEF LedgerSpec

\* ReplayAccounts (replay of services/investigation_ledger.py): each life is
\* told in its order, and a step is missing only if its life is over and its
\* insert failed or the list holds steps of a newer life.
THEOREM ReplayTheorem == LedgerSpec => []ReplayAccounts
  BY LedgerInvariantHolds, PTL DEF LedgerInvariant

-----------------------------------------------------------------------------
(* The investigation routes and the memory of verdicts *)

RunRecord == [progress : {"unknown", "running", "pending_approval", "completed"},
              execution : {"none", "running", "completed", "dropped", "canceled", "failed"},
              severity : {"high"} \cup Severities, adjusted : Int]
Row == [status : {"absent", "none", "completed"}, severity : {"none", "high"} \cup Severities,
        verdict : Verdicts, risk : Int]

\* The nudge of a tenth: what the priors weigh, divided by their number.
LEMMA TenthAtMost ==
    ASSUME NEW t \in Nat \ {0}, NEW f \in Nat, f <= t
    PROVE  (10 * (t - 2 * f)) \div t \in -10..10
<1> DEFINE a == 10 * (t - 2 * f)
           q == a \div t
<1>1. a \in Int /\ a <= 10 * t /\ -10 * t <= a
  OBVIOUS
<1> HIDE DEF a
<1>2. q \in Int /\ t * q <= a /\ a < t * q + t
  BY <1>1
<1> HIDE DEF q
<1>3. ~(q >= 11)
  <2> SUFFICES ASSUME q >= 11 PROVE FALSE
    OBVIOUS
  <2>1. t * q >= t * 11
    BY <1>2
  <2> QED
    BY <1>1, <1>2, <2>1
<1>4. ~(q <= -11)
  <2> SUFFICES ASSUME q <= -11 PROVE FALSE
    OBVIOUS
  <2>1. t * q <= t * (-11)
    BY <1>2
  <2> QED
    BY <1>1, <1>2, <2>1
<1>5. q \in -10..10
  BY <1>2, <1>3, <1>4
<1> QED
  BY <1>5 DEF q, a

AdjustedRests(i) ==
    run[i].adjusted # 0 => /\ run[i].adjusted \in -10..10
                           /\ Cardinality(RuledOn(Signature[i])) >= MinSamples

LEMMA ApiTyped ==
    ASSUME ApiInvariant
    PROVE  /\ run \in [InvIds -> RunRecord] /\ record \in [InvIds -> Row]
           /\ setup.temporal \in BOOLEAN /\ setup.database \in BOOLEAN
           /\ memory \in Seq(InvIds)
           /\ triaged \in [InvIds -> SUBSET {"list", "table", "worker"}]
           /\ persist \in [InvIds -> {"none", "due", "insert", "update"}]
           /\ \A i \in InvIds : AdjustedRests(i)
BY DEF ApiInvariant, ApiTypeOK, RunRecord, Row, AdjustedRests, MemoryRestsOnRulings, RuledOn

\* The steps of one investigation that leave the rulings and the priors alone.
LEMMA ByInvestigation ==
    ASSUME ApiInvariant, NEW i \in InvIds,
           run' \in [InvIds -> RunRecord], record' \in [InvIds -> Row],
           memory' \in Seq(InvIds),
           triaged' \in [InvIds -> SUBSET {"list", "table", "worker"}],
           persist' \in [InvIds -> {"none", "due", "insert", "update"}],
           UNCHANGED <<setup, ruling, ruled, priors, apiLife, rulings>>,
           \A j \in InvIds : j # i =>
               /\ run'[j] = run[j] /\ record'[j] = record[j]
               /\ persist'[j] = persist[j] /\ triaged'[j] = triaged[j]
               /\ j \in ToSet(memory') => j \in ToSet(memory),
           setup.temporal => memory' = <<>>,
           run[i].execution # "none" => run'[i].execution # "none",
           record[i] # NoRow => record'[i] # NoRow,
           StoresAgree(i)', AdjustedRests(i)'
    PROVE  ApiInvariant'
<1>1. ApiTypeOK'
  BY DEF ApiInvariant, ApiTypeOK, RunRecord, Row
<1>2. ASSUME NEW j \in InvIds PROVE StoresAgree(j)' /\ AdjustedRests(j)'
  <2>1. CASE j = i
    BY <2>1
  <2>2. CASE j # i
    <3>1. StoresAgree(j) /\ AdjustedRests(j)
      BY ApiTyped DEF ApiInvariant
    <3>2. StoresAgree(j)'
      BY <2>2, <3>1 DEF StoresAgree
    <3>3. AdjustedRests(j)'
      BY <2>2, <3>1 DEF AdjustedRests, RuledOn
    <3> QED
      BY <3>2, <3>3
  <2> QED
    BY <2>1, <2>2
<1>3. RulingRests'
  <2> SUFFICES ASSUME ruling # NoRuling
               PROVE  /\ run'[ruling.inv].execution # "none"
                      /\ ruling.found => record'[ruling.inv] # NoRow
    BY DEF RulingRests
  <2>1. ruling.inv \in InvIds
    BY DEF ApiInvariant, ApiTypeOK
  <2>2. run[ruling.inv].execution # "none" /\ (ruling.found => record[ruling.inv] # NoRow)
    BY DEF ApiInvariant, RulingRests
  <2> QED
    BY <2>1, <2>2
<1>4. PriorsRest'
  BY DEF ApiInvariant, PriorsRest, RuledOn
<1>5. MemoryRestsOnRulings'
  BY <1>2 DEF MemoryRestsOnRulings, StoresAgree, AdjustedRests, RuledOn
<1> QED
  BY <1>1, <1>2, <1>3, <1>4, <1>5 DEF ApiInvariant

LEMMA InvestigateKeeps ==
    ASSUME ApiInvariant, NEW i \in InvIds, Investigate(i)
    PROVE  ApiInvariant'
<1>1. PICK severity \in Severities :
          run' = [run EXCEPT ![i].progress = "running", ![i].execution = "running",
                             ![i].severity = severity]
  BY DEF Investigate
<1>2. /\ run' = [run EXCEPT ![i] = [run[i] EXCEPT !.progress = "running",
                                    !.execution = "running", !.severity = severity]]
      /\ run \in [InvIds -> RunRecord] /\ run[i] \in RunRecord
      /\ AdjustedRests(i) /\ StoresAgree(i)
  BY <1>1, ApiTyped DEF ApiInvariant
<1>3. /\ run'[i].progress = "running" /\ run'[i].execution = "running"
      /\ run'[i].adjusted = run[i].adjusted /\ run'[i] \in RunRecord
  BY <1>2 DEF RunRecord
<1>4. run' \in [InvIds -> RunRecord] /\ \A j \in InvIds : j # i => run'[j] = run[j]
  BY <1>2, <1>3
<1>5. UNCHANGED <<setup, memory, record, triaged, ruling, persist, ruled, priors,
                  apiLife, rulings>> /\ run[i].execution = "none"
  BY DEF Investigate
<1>6. StoresAgree(i)'
  BY <1>2, <1>3, <1>5 DEF StoresAgree
<1>7. AdjustedRests(i)'
  BY <1>2, <1>3, <1>5 DEF AdjustedRests, RuledOn
<1> QED
  BY <1>3, <1>4, <1>5, <1>6, <1>7, ApiTyped, ByInvestigation DEF ApiInvariant

\* Steps that move the run alone, and perhaps its persist activity.
Moves(i, progress, ends) ==
    /\ run' = [run EXCEPT ![i] = [@ EXCEPT !.progress = progress, !.execution = ends]]
    /\ UNCHANGED <<setup, ruling, ruled, priors, apiLife, rulings>>

LEMMA MovesFacts ==
    ASSUME ApiInvariant, NEW i \in InvIds,
           NEW progress \in {"unknown", "running", "pending_approval", "completed"},
           NEW ends \in {"running", "completed", "dropped", "canceled", "failed"},
           Moves(i, progress, ends)
    PROVE  /\ run' \in [InvIds -> RunRecord] /\ \A j \in InvIds : j # i => run'[j] = run[j]
           /\ run'[i].progress = progress /\ run'[i].execution = ends
           /\ run'[i].severity = run[i].severity
           /\ AdjustedRests(i)'
<1>1. /\ run \in [InvIds -> RunRecord] /\ run[i] \in RunRecord /\ AdjustedRests(i)
      /\ run' = [run EXCEPT ![i] = [run[i] EXCEPT !.progress = progress,
                                                  !.execution = ends]]
  BY ApiTyped DEF Moves
<1>2. /\ run'[i] = [run[i] EXCEPT !.progress = progress, !.execution = ends]
      /\ \A j \in InvIds : j # i => run'[j] = run[j]
  BY <1>1
<1>3. /\ run'[i].progress = progress /\ run'[i].execution = ends
      /\ run'[i].adjusted = run[i].adjusted /\ run'[i] \in RunRecord
      /\ run'[i].severity = run[i].severity
  BY <1>1, <1>2 DEF RunRecord
<1>4. AdjustedRests(i)'
  BY <1>1, <1>3 DEF AdjustedRests, RuledOn, Moves
<1> QED
  BY <1>1, <1>2, <1>3, <1>4

LEMMA MovesWith ==
    ASSUME ApiInvariant, NEW i \in InvIds,
           NEW progress \in {"unknown", "running", "pending_approval", "completed"},
           NEW ends \in {"running", "completed", "dropped", "canceled", "failed"},
           run' = [run EXCEPT ![i].progress = progress, ![i].execution = ends],
           UNCHANGED <<setup, ruling, ruled, priors, apiLife, rulings>>
    PROVE  Moves(i, progress, ends)
<1>1. run \in [InvIds -> RunRecord]
  BY ApiTyped
<1> QED
  BY <1>1 DEF Moves

LEMMA MovesExecution ==
    ASSUME ApiInvariant, NEW i \in InvIds,
           NEW ends \in {"running", "completed", "dropped", "canceled", "failed"},
           run' = [run EXCEPT ![i].execution = ends],
           UNCHANGED <<setup, ruling, ruled, priors, apiLife, rulings>>
    PROVE  Moves(i, run[i].progress, ends)
<1>1. run \in [InvIds -> RunRecord] /\ run[i] \in RunRecord
  BY ApiTyped
<1>2. [run[i] EXCEPT !.execution = ends]
          = [run[i] EXCEPT !.progress = run[i].progress, !.execution = ends]
  BY <1>1 DEF RunRecord
<1> QED
  BY <1>1, <1>2 DEF Moves

LEMMA MovesProgress ==
    ASSUME ApiInvariant, NEW i \in InvIds,
           NEW progress \in {"unknown", "running", "pending_approval", "completed"},
           run' = [run EXCEPT ![i].progress = progress],
           UNCHANGED <<setup, ruling, ruled, priors, apiLife, rulings>>
    PROVE  Moves(i, progress, run[i].execution)
<1>1. run \in [InvIds -> RunRecord] /\ run[i] \in RunRecord
  BY ApiTyped
<1>2. [run[i] EXCEPT !.progress = progress]
          = [run[i] EXCEPT !.progress = progress, !.execution = run[i].execution]
  BY <1>1 DEF RunRecord
<1> QED
  BY <1>1, <1>2 DEF Moves

LEMMA RowEnded ==
    ASSUME NEW r \in Row, NEW severity \in {"none", "high"} \cup Severities,
           NEW q, q = [r EXCEPT !.status = "completed", !.risk = 0, !.severity = severity]
    PROVE  q \in Row /\ q.status = "completed" /\ q.verdict = r.verdict
<1>1. q \in Row
  <2> DEFINE ended == [r EXCEPT !.status = "completed"]
             unscored == [ended EXCEPT !.risk = 0]
  <2>1. ended \in Row
    BY DEF Row
  <2>2. unscored \in Row
    <3> HIDE DEF ended
    <3> QED
      BY <2>1 DEF Row
  <2>3. q = [unscored EXCEPT !.severity = severity]
    OBVIOUS
  <2> HIDE DEF unscored
  <2> QED
    BY <2>2, <2>3 DEF Row
<1>2. q.status = "completed" /\ q.verdict = r.verdict
  BY DEF Row
<1> QED
  BY <1>1, <1>2

\* The end of a run in the table: the verdict is not among its columns.
LEMMA MergedKeepsVerdict ==
    ASSUME ApiInvariant, NEW i \in InvIds, NEW severity \in {"none", "high"} \cup Severities,
           record' = [record EXCEPT ![i] = Merged(i, severity)]
    PROVE  /\ record' \in [InvIds -> Row]
           /\ \A j \in InvIds : j # i => record'[j] = record[j]
           /\ record'[i].status = "completed" /\ record'[i].verdict = record[i].verdict
           /\ record'[i] # NoRow
<1> DEFINE s == IF severity = "none" THEN record[i].severity ELSE severity
<1>1. record \in [InvIds -> Row] /\ record[i] \in Row
  BY ApiTyped
<1>2. s \in {"none", "high"} \cup Severities
  BY <1>1 DEF Row
<1>3. record' = [record EXCEPT ![i] = [record[i] EXCEPT !.status = "completed", !.risk = 0,
                                                        !.severity = s]]
  BY DEF Merged
<1> HIDE DEF s
<1>4. /\ record'[i] = [record[i] EXCEPT !.status = "completed", !.risk = 0, !.severity = s]
      /\ \A j \in InvIds : j # i => record'[j] = record[j]
  BY <1>1, <1>3
<1>5. /\ record'[i] \in Row /\ record'[i].status = "completed"
      /\ record'[i].verdict = record[i].verdict
  <2> DEFINE old == record[i]
             new == record'[i]
  <2>1. /\ old \in Row
        /\ new = [old EXCEPT !.status = "completed", !.risk = 0, !.severity = s]
    BY <1>1, <1>4
  <2> HIDE DEF old, new
  <2>2. new \in Row /\ new.status = "completed" /\ new.verdict = old.verdict
    BY <1>2, <2>1, RowEnded
  <2> QED
    BY <2>2 DEF old, new
<1>6. record'[i] # NoRow
  BY <1>5 DEF NoRow
<1> QED
  BY <1>1, <1>3, <1>4, <1>5, <1>6

LEMMA AdjustmentRests ==
    ASSUME ApiInvariant, NEW i \in InvIds, Adjustment(Signature[i]) # 0
    PROVE  /\ Adjustment(Signature[i]) \in -10..10
           /\ Cardinality(RuledOn(Signature[i])) >= MinSamples
<1> DEFINE s == Signature[i]
<1>1. s \in Signatures
  BY DEF Signatures
<1>2. /\ priors[s] \in [total : Nat, false : Nat]
      /\ priors[s].false <= priors[s].total /\ priors[s].total <= Cardinality(RuledOn(s))
  BY <1>1 DEF ApiInvariant, ApiTypeOK, PriorsRest
<1>3. RuledOn(s) \in SUBSET InvIds
  BY DEF RuledOn
<1>4. Cardinality(RuledOn(s)) \in Nat
  BY <1>3, FS_Subset, FS_CardinalityType, ApiAssumption
<1>5. ~(priors[s].total < MinSamples)
  BY DEF Adjustment
<1> DEFINE t == priors[s].total
           f == priors[s].false
           c == Cardinality(RuledOn(s))
<1>6. t \in Nat /\ f \in Nat /\ c \in Nat /\ f <= t /\ t <= c /\ ~(t < MinSamples)
  BY <1>2, <1>4, <1>5
<1>7. Adjustment(s) = (10 * (t - 2 * f)) \div t
  BY <1>5 DEF Adjustment
<1> HIDE DEF t, f, c
<1>8. t \in Nat \ {0} /\ c >= MinSamples
  BY <1>6, ApiAssumption
<1>9. (10 * (t - 2 * f)) \div t \in -10..10
  BY <1>6, <1>8, TenthAtMost
<1> QED
  BY <1>7, <1>8, <1>9 DEF c

LEMMA TriageKeeps ==
    ASSUME ApiInvariant, NEW i \in InvIds, TriageDone(i)
    PROVE  ApiInvariant'
<1> DEFINE a == IF setup.temporal THEN 0 ELSE Adjustment(Signature[i])
<1>1. /\ run' = [run EXCEPT ![i].adjusted = a]
      /\ UNCHANGED <<setup, memory, record, ruling, persist, ruled, priors, apiLife, rulings>>
      /\ run[i].execution = "running"
  BY DEF TriageDone, Running
<1>2. PICK sources \in SUBSET {"list", "table", "worker"} :
          triaged' = [triaged EXCEPT ![i] = sources]
  BY DEF TriageDone
<1>3. a # 0 => a \in -10..10 /\ Cardinality(RuledOn(Signature[i])) >= MinSamples
  BY AdjustmentRests
<1>4. a \in Int
  <2>1. a = 0 \/ a \in -10..10
    BY <1>3
  <2> QED
    BY <2>1
<1> HIDE DEF a
<1>5. /\ run \in [InvIds -> RunRecord] /\ run[i] \in RunRecord
      /\ run' = [run EXCEPT ![i] = [run[i] EXCEPT !.adjusted = a]]
      /\ StoresAgree(i)
  BY <1>1, ApiTyped DEF ApiInvariant
<1>6. /\ run'[i].progress = run[i].progress /\ run'[i].execution = run[i].execution
      /\ run'[i].adjusted = a /\ run'[i] \in RunRecord
  BY <1>4, <1>5 DEF RunRecord
<1>7. /\ run' \in [InvIds -> RunRecord] /\ \A j \in InvIds : j # i => run'[j] = run[j]
  BY <1>5, <1>6
<1>8. /\ triaged' \in [InvIds -> SUBSET {"list", "table", "worker"}]
      /\ \A j \in InvIds : j # i => triaged'[j] = triaged[j]
  BY <1>2, ApiTyped
<1>9. StoresAgree(i)'
  BY <1>1, <1>5, <1>6 DEF StoresAgree
<1>10. AdjustedRests(i)'
  BY <1>1, <1>3, <1>6 DEF AdjustedRests, RuledOn
<1> QED
  BY <1>1, <1>6, <1>7, <1>8, <1>9, <1>10, ApiTyped, ByInvestigation DEF ApiInvariant

LEMMA RunCompletesKeeps ==
    ASSUME ApiInvariant, NEW i \in InvIds, RunCompletes(i)
    PROVE  ApiInvariant'
<1>1. /\ memory' = <<i>> \o memory /\ ~setup.temporal /\ run[i].execution = "running"
      /\ run' = [run EXCEPT ![i].progress = "completed", ![i].execution = "completed"]
      /\ UNCHANGED <<setup, triaged, ruling, persist, ruled, priors, apiLife, rulings>>
  BY DEF RunCompletes, Running
<1>2. Moves(i, "completed", "completed")
  BY <1>1, MovesWith
<1>3. /\ run' \in [InvIds -> RunRecord] /\ \A j \in InvIds : j # i => run'[j] = run[j]
      /\ run'[i].progress = "completed" /\ run'[i].execution = "completed"
      /\ AdjustedRests(i)'
  BY <1>2, MovesFacts
<1>4. /\ memory' \in Seq(InvIds)
      /\ \A j \in InvIds : j # i => (j \in ToSet(memory') => j \in ToSet(memory))
  <2>1. memory \in Seq(InvIds)
    BY ApiTyped
  <2>2. memory' \in Seq(InvIds)
    BY <1>1, <2>1
  <2>3. \A k \in DOMAIN memory' : memory'[k] = i \/ \E l \in DOMAIN memory : memory'[k] = memory[l]
    BY <1>1, <2>1
  <2> QED
    BY <2>2, <2>3 DEF ToSet
<1>5. run[i].severity \in {"none", "high"} \cup Severities
  BY ApiTyped DEF RunRecord
<1>6. /\ record' \in [InvIds -> Row] /\ \A j \in InvIds : j # i => record'[j] = record[j]
      /\ record'[i].verdict = record[i].verdict
      /\ \/ record' = record
         \/ record'[i].status = "completed" /\ record'[i] # NoRow
  <2>1. CASE record' = [record EXCEPT ![i] = Merged(i, run[i].severity)]
    BY <1>5, <2>1, MergedKeepsVerdict
  <2>2. CASE record' = record
    BY <2>2, ApiTyped
  <2> QED
    BY <2>1, <2>2 DEF RunCompletes
<1>7. StoresAgree(i)'
  BY <1>1, <1>3, <1>6 DEF ApiInvariant, StoresAgree
<1> QED
  BY <1>1, <1>3, <1>4, <1>6, <1>7, ApiTyped, ByInvestigation

\* Steps that leave the row alone.
LEMMA MovesKeeps ==
    ASSUME ApiInvariant, NEW i \in InvIds,
           NEW progress \in {"unknown", "running", "pending_approval", "completed"},
           NEW ends \in {"running", "completed", "dropped", "canceled", "failed"},
           Moves(i, progress, ends), UNCHANGED <<memory, record, triaged>>,
           ends = "completed" => progress = "completed",
           run[i].progress = "completed" => progress = "completed",
           NEW p \in {"none", "due", "insert", "update"},
           persist' = [persist EXCEPT ![i] = p],
           p = "none" \/ progress = "completed"
    PROVE  ApiInvariant'
<1>1. /\ run' \in [InvIds -> RunRecord] /\ \A j \in InvIds : j # i => run'[j] = run[j]
      /\ run'[i].progress = progress /\ run'[i].execution = ends
      /\ AdjustedRests(i)'
  BY MovesFacts
<1>2. /\ persist' \in [InvIds -> {"none", "due", "insert", "update"}] /\ persist'[i] = p
      /\ \A j \in InvIds : j # i => persist'[j] = persist[j]
  BY ApiTyped
<1>3. UNCHANGED <<setup, ruling, ruled, priors, apiLife, rulings>>
  BY DEF Moves
<1>4. StoresAgree(i)'
  BY <1>1, <1>2, <1>3 DEF ApiInvariant, StoresAgree
<1> QED
  BY <1>1, <1>2, <1>3, <1>4, ApiTyped, ByInvestigation DEF ApiInvariant

LEMMA PersistSame ==
    ASSUME ApiInvariant, NEW i \in InvIds
    PROVE  /\ persist = [persist EXCEPT ![i] = persist[i]]
           /\ persist[i] \in {"none", "due", "insert", "update"}
           /\ run[i].progress \in {"unknown", "running", "pending_approval", "completed"}
           /\ persist[i] # "none" => run[i].progress = "completed"
BY ApiTyped DEF ApiInvariant, StoresAgree, RunRecord

LEMMA AbandonKeeps ==
    ASSUME ApiInvariant, NEW i \in InvIds, Abandon(i)
    PROVE  ApiInvariant'
<1>1. /\ run' = [run EXCEPT ![i].execution = "dropped"]
      /\ UNCHANGED <<setup, memory, record, triaged, ruling, persist, ruled, priors, apiLife,
                     rulings>>
  BY DEF Abandon, RecordedAtEnd
<1>2. Moves(i, run[i].progress, "dropped")
  BY <1>1, MovesExecution
<1> QED
  BY <1>1, <1>2, PersistSame, MovesKeeps

LEMMA WorkflowEndsKeeps ==
    ASSUME ApiInvariant, NEW i \in InvIds, NEW how \in {"canceled", "failed"},
           WorkflowEnds(i, how)
    PROVE  ApiInvariant'
<1> DEFINE p == IF persist[i] = "due" THEN "none" ELSE persist[i]
<1>1. /\ run' = [run EXCEPT ![i].execution = how]
      /\ persist' = [persist EXCEPT ![i] = p]
      /\ UNCHANGED <<setup, memory, record, triaged, ruling, ruled, priors, apiLife, rulings>>
  BY DEF WorkflowEnds
<1>2. Moves(i, run[i].progress, how)
  BY <1>1, MovesExecution
<1>3. p \in {"none", "due", "insert", "update"} /\ (p = "none" \/ run[i].progress = "completed")
  BY PersistSame
<1> HIDE DEF p
<1> QED
  BY <1>1, <1>2, <1>3, PersistSame, MovesKeeps

LEMMA ReachGateKeeps ==
    ASSUME ApiInvariant, NEW i \in InvIds, ReachGate(i)
    PROVE  ApiInvariant'
<1>1. /\ run' = [run EXCEPT ![i].progress = "pending_approval"]
      /\ run[i].execution = "running" /\ run[i].progress = "running"
      /\ UNCHANGED <<setup, memory, record, triaged, ruling, persist, ruled, priors, apiLife,
                     rulings>>
  BY DEF ReachGate, Running
<1>2. Moves(i, "pending_approval", "running")
  BY <1>1, MovesProgress
<1> QED
  BY <1>1, <1>2, PersistSame, MovesKeeps

LEMMA WorkflowCompletesKeeps ==
    ASSUME ApiInvariant, NEW i \in InvIds, WorkflowCompletes(i)
    PROVE  ApiInvariant'
<1>1. /\ run' = [run EXCEPT ![i].progress = "completed"]
      /\ persist' = [persist EXCEPT ![i] = "due"]
      /\ run[i].execution = "running"
      /\ UNCHANGED <<setup, memory, record, triaged, ruling, ruled, priors, apiLife, rulings>>
  BY DEF WorkflowCompletes, Running
<1>2. Moves(i, "completed", "running")
  BY <1>1, MovesProgress
<1> QED
  BY <1>1, <1>2, MovesKeeps

\* The activity's own steps between reading the row and writing it.
LEMMA PersistMoves ==
    ASSUME ApiInvariant, NEW i \in InvIds, PersistReads(i) \/ PersistRetries(i)
    PROVE  ApiInvariant'
<1>1. UNCHANGED <<setup, run, memory, record, triaged, ruling, ruled, priors, apiLife, rulings>>
  BY DEF PersistReads, PersistRetries
<1>2. PICK p \in {"none", "due", "insert", "update"} : persist' = [persist EXCEPT ![i] = p]
  BY DEF PersistReads, PersistRetries
<1>3. persist[i] # "none"
  BY DEF PersistReads, PersistRetries
<1>4. /\ persist' \in [InvIds -> {"none", "due", "insert", "update"}]
      /\ \A j \in InvIds : j # i => persist'[j] = persist[j]
  BY <1>2, ApiTyped
<1>5. StoresAgree(i)'
  BY <1>1, <1>3 DEF ApiInvariant, StoresAgree
<1>6. AdjustedRests(i)'
  BY <1>1, ApiTyped DEF AdjustedRests, RuledOn
<1> QED
  BY <1>1, <1>4, <1>5, <1>6, ApiTyped, ByInvestigation DEF ApiInvariant

LEMMA PersistWritesKeeps ==
    ASSUME ApiInvariant, NEW i \in InvIds, PersistWrites(i)
    PROVE  ApiInvariant'
<1> DEFINE e == IF Running(i) THEN "completed" ELSE run[i].execution
<1>1. /\ record' = [record EXCEPT ![i] = Merged(i, "none")]
      /\ persist' = [persist EXCEPT ![i] = "none"]
      /\ run' = [run EXCEPT ![i].execution = e]
      /\ persist[i] # "none"
      /\ UNCHANGED <<setup, memory, triaged, ruling, ruled, priors, apiLife, rulings>>
  BY DEF PersistWrites
<1>2. run[i].progress = "completed" /\ run[i].execution # "none" /\ run[i] \in RunRecord
  BY <1>1, ApiTyped DEF ApiInvariant, StoresAgree
<1>3. e \in {"running", "completed", "dropped", "canceled", "failed"}
  BY <1>2 DEF RunRecord
<1> HIDE DEF e
<1>4. Moves(i, "completed", e)
  BY <1>1, <1>2, <1>3, MovesExecution
<1>5. /\ run' \in [InvIds -> RunRecord] /\ \A j \in InvIds : j # i => run'[j] = run[j]
      /\ run'[i].progress = "completed" /\ run'[i].execution = e
      /\ AdjustedRests(i)'
  BY <1>3, <1>4, MovesFacts
<1>6. /\ record' \in [InvIds -> Row] /\ \A j \in InvIds : j # i => record'[j] = record[j]
      /\ record'[i].status = "completed" /\ record'[i].verdict = record[i].verdict
      /\ record'[i] # NoRow
  BY <1>1, MergedKeepsVerdict
<1>7. /\ persist' \in [InvIds -> {"none", "due", "insert", "update"}]
      /\ \A j \in InvIds : j # i => persist'[j] = persist[j]
  BY <1>1, ApiTyped
<1>8. StoresAgree(i)'
  BY <1>1, <1>3, <1>5, <1>6 DEF ApiInvariant, StoresAgree
<1> QED
  BY <1>1, <1>3, <1>5, <1>6, <1>7, <1>8, ApiTyped, ByInvestigation DEF ApiInvariant

LEMMA SubmitKeeps ==
    ASSUME ApiInvariant, NEW i \in InvIds, NEW request \in VerdictRequests,
           SubmitVerdict(i, request)
    PROVE  ApiInvariant'
<1>1. /\ ruling' = [inv |-> i, verdict |-> request.verdict, risk |-> request.risk,
                    found |-> record[i] # NoRow]
      /\ rulings' = rulings + 1 /\ triaged[i] # {}
      /\ UNCHANGED <<setup, run, memory, record, triaged, persist, ruled, priors, apiLife>>
  BY DEF SubmitVerdict
<1>2. request \in [verdict : {"false_positive", "confirmed_incident"}, risk : Int]
  BY ApiAssumption
<1>3. ruling' \in [inv : InvIds, verdict : Verdicts \ {"none"}, risk : Int, found : BOOLEAN]
  <2> DEFINE f == record[i] # NoRow
  <2>1. f \in BOOLEAN
    OBVIOUS
  <2> HIDE DEF f
  <2>2. request.verdict \in Verdicts \ {"none"} /\ request.risk \in Int
    BY <1>2 DEF Verdicts
  <2>3. ruling' = [inv |-> i, verdict |-> request.verdict, risk |-> request.risk, found |-> f]
    BY <1>1 DEF f
  <2> QED
    BY <2>1, <2>2, <2>3
<1>4. ApiTypeOK'
  BY <1>1, <1>3 DEF ApiInvariant, ApiTypeOK
<1>5. RulingRests'
  <2>1. ruling'.inv = i /\ ruling'.found = (record[i] # NoRow)
    BY <1>1
  <2>2. run[i].execution # "none"
    BY <1>1 DEF ApiInvariant, StoresAgree
  <2> QED
    BY <1>1, <2>1, <2>2 DEF RulingRests
<1> QED
  BY <1>1, <1>4, <1>5 DEF ApiInvariant, StoresAgree, PriorsRest, MemoryRestsOnRulings, RuledOn

\* No commit takes a ruling back, so what was counted stays enough.
LEMMA CountsGrow ==
    ASSUME NEW s, \A j \in InvIds : ruled[j] # "none" => ruled'[j] # "none"
    PROVE  Cardinality(RuledOn(s)) <= Cardinality(RuledOn(s)')
           /\ Cardinality(RuledOn(s)) \in Nat /\ Cardinality(RuledOn(s)') \in Nat
<1> DEFINE before == {j \in InvIds : Signature[j] = s /\ ruled[j] # "none"}
           after == {j \in InvIds : Signature[j] = s /\ ruled'[j] # "none"}
<1>1. before \in SUBSET after /\ after \in SUBSET InvIds
  OBVIOUS
<1> HIDE DEF before, after
<1>2. IsFiniteSet(after) /\ IsFiniteSet(before)
  BY <1>1, FS_Subset, ApiAssumption
<1>3. /\ Cardinality(before) <= Cardinality(after)
      /\ Cardinality(before) \in Nat /\ Cardinality(after) \in Nat
  BY <1>1, <1>2, FS_Subset, FS_CardinalityType
<1> QED
  BY <1>3 DEF before, after, RuledOn

LEMMA CommitKeeps ==
    ASSUME ApiInvariant, CommitVerdict
    PROVE  ApiInvariant'
<1> DEFINE i == ruling.inv
<1>1. /\ ruling # NoRuling /\ ruling' = NoRuling
      /\ UNCHANGED <<setup, run, memory, triaged, persist, priors, apiLife, rulings>>
  BY DEF CommitVerdict
<1>2. /\ i \in InvIds /\ ruling.verdict \in Verdicts \ {"none"} /\ ruling.risk \in Int
      /\ run[i].execution # "none" /\ (ruling.found => record[i] # NoRow)
  BY <1>1 DEF ApiInvariant, ApiTypeOK, RulingRests
<1>3. ruled \in [InvIds -> Verdicts] /\ record \in [InvIds -> Row]
  BY ApiTyped DEF ApiInvariant, ApiTypeOK
<1> DEFINE before == IF ruling.found THEN record[i] ELSE NewRow
           risk == IF ruling.risk = 0 THEN before.risk ELSE ruling.risk
           row == [before EXCEPT !.verdict = ruling.verdict, !.risk = risk]
<1>4. /\ before \in Row /\ before.status # "absent"
      /\ before.status = "completed" => record[i].status = "completed"
  <2>1. CASE ruling.found
    <3>1. before = record[i] /\ StoresAgree(i)
      BY <1>2, <2>1 DEF ApiInvariant
    <3> QED
      BY <1>2, <1>3, <2>1, <3>1 DEF StoresAgree
  <2>2. CASE ~ruling.found
    <3>1. before = [status |-> "none", severity |-> "none", verdict |-> "none", risk |-> 0]
      BY <2>2 DEF NewRow, NoRow
    <3> QED
      BY <3>1 DEF Row, Verdicts
  <2> QED
    BY <2>1, <2>2
<1>5. row \in Row /\ row.verdict = ruling.verdict /\ row.status = before.status
  <2>1. before.risk \in Int
    BY <1>4 DEF Row
  <2>2. risk \in Int
    BY <1>2, <2>1
  <2>3. before \in Row
    BY <1>4
  <2> DEFINE verdict == ruling.verdict
  <2>4. verdict \in Verdicts
    BY <1>2
  <2>5. row = [before EXCEPT !.verdict = verdict, !.risk = risk]
    OBVIOUS
  <2> HIDE DEF before, risk, row, verdict
  <2>6. row \in Row
    BY <2>2, <2>3, <2>4, <2>5 DEF Row
  <2>7. row.verdict = verdict /\ row.status = before.status
    BY <2>3, <2>5 DEF Row
  <2> QED
    BY <2>6, <2>7 DEF verdict
<1>6. row # NoRow
  <2> HIDE DEF row
  <2> QED
    BY <1>2, <1>5 DEF NoRow
<1>7. \/ record' = [record EXCEPT ![i] = row] /\ ruled' = [ruled EXCEPT ![i] = ruling.verdict]
      \/ record' = record /\ ruled' = ruled
  BY DEF CommitVerdict
<1> HIDE DEF i, before, risk, row
<1>8. /\ ruled' \in [InvIds -> Verdicts] /\ record' \in [InvIds -> Row]
      /\ \A j \in InvIds : ruled[j] # "none" => ruled'[j] # "none"
  BY <1>2, <1>3, <1>5, <1>7
<1>9. ApiTypeOK'
  BY <1>1, <1>8 DEF ApiInvariant, ApiTypeOK, Row
<1>10. ASSUME NEW j \in InvIds PROVE StoresAgree(j)'
  <2>1. CASE j # i \/ (record' = record /\ ruled' = ruled)
    <3>1. record'[j] = record[j] /\ ruled'[j] = ruled[j]
      BY <1>3, <1>7, <2>1
    <3> QED
      BY <1>1, <3>1 DEF ApiInvariant, StoresAgree
  <2>2. CASE j = i /\ record' = [record EXCEPT ![i] = row]
                   /\ ruled' = [ruled EXCEPT ![i] = ruling.verdict]
    <3>1. record'[j] = row /\ ruled'[j] = ruling.verdict
      BY <1>2, <1>3, <2>2
    <3> QED
      BY <1>1, <1>2, <1>4, <1>5, <1>6, <2>2, <3>1 DEF ApiInvariant, StoresAgree
  <2> QED
    BY <1>7, <2>1, <2>2
<1>11. PriorsRest'
  <2> SUFFICES ASSUME NEW s \in Signatures
               PROVE  /\ priors[s].false <= priors[s].total
                      /\ priors[s].total <= Cardinality(RuledOn(s)')
    BY <1>1 DEF PriorsRest
  <2>1. /\ priors[s].false <= priors[s].total /\ priors[s].total <= Cardinality(RuledOn(s))
        /\ priors[s].total \in Nat
    BY DEF ApiInvariant, ApiTypeOK, PriorsRest
  <2>2. /\ Cardinality(RuledOn(s)) <= Cardinality(RuledOn(s)')
        /\ Cardinality(RuledOn(s)) \in Nat /\ Cardinality(RuledOn(s)') \in Nat
    BY <1>8, CountsGrow
  <2> QED
    BY <2>1, <2>2
<1>12. ASSUME NEW j \in InvIds PROVE AdjustedRests(j)'
  <2>1. AdjustedRests(j)
    BY ApiTyped
  <2>2. /\ Cardinality(RuledOn(Signature[j])) <= Cardinality(RuledOn(Signature[j])')
        /\ Cardinality(RuledOn(Signature[j])) \in Nat
        /\ Cardinality(RuledOn(Signature[j])') \in Nat
    BY <1>8, CountsGrow
  <2>3. MinSamples \in Nat
    BY ApiAssumption
  <2>4. Cardinality(RuledOn(Signature[j])) >= MinSamples =>
            Cardinality(RuledOn(Signature[j])') >= MinSamples
    BY <2>2, <2>3
  <2> QED
    BY <1>1, <2>1, <2>4 DEF AdjustedRests
<1>13. MemoryRestsOnRulings'
  BY <1>10, <1>12 DEF MemoryRestsOnRulings, StoresAgree, AdjustedRests, RuledOn
<1>14. RulingRests'
  BY <1>1 DEF RulingRests
<1> QED
  BY <1>1, <1>9, <1>10, <1>11, <1>13, <1>14 DEF ApiInvariant

LEMMA DistilKeeps ==
    ASSUME ApiInvariant, Distil
    PROVE  ApiInvariant'
<1>1. UNCHANGED <<setup, run, memory, record, triaged, ruling, persist, ruled, apiLife, rulings>>
  BY DEF Distil
<1>2. ASSUME NEW s \in Signatures
      PROVE  /\ Distilled(s) \in [total : Nat, false : Nat]
             /\ Distilled(s).false <= Distilled(s).total
             /\ Distilled(s).total = Cardinality(RuledOn(s))
             /\ Cardinality(RuledOn(s)) \in Nat
  <2> DEFINE all == Ruled(s)
             wrong == {i \in all : record[i].verdict = "false_positive"}
  <2>1. all = RuledOn(s) /\ all \in SUBSET InvIds
    BY DEF Ruled, RuledOn, ApiInvariant, StoresAgree
  <2>2. wrong \in SUBSET all /\ Distilled(s) = [total |-> Cardinality(all),
                                                false |-> Cardinality(wrong)]
    BY DEF Distilled
  <2> HIDE DEF all, wrong
  <2>3. IsFiniteSet(all) /\ IsFiniteSet(wrong) /\ Cardinality(wrong) <= Cardinality(all)
    BY <2>1, <2>2, FS_Subset, ApiAssumption
  <2>4. Cardinality(all) \in Nat /\ Cardinality(wrong) \in Nat
    BY <2>3, FS_CardinalityType
  <2> QED
    BY <2>1, <2>2, <2>3, <2>4
<1>3. /\ priors' \in [Signatures -> [total : Nat, false : Nat]]
      /\ \A s \in Signatures : /\ priors'[s].false <= priors'[s].total
                               /\ priors'[s].total <= Cardinality(RuledOn(s))
  <2>1. CASE setup.database
    <3>1. priors' = [s \in Signatures |-> Distilled(s)]
      BY <2>1 DEF Distil
    <3>2. \A s \in Signatures : priors'[s] = Distilled(s)
      BY <3>1
    <3>3. priors' \in [Signatures -> [total : Nat, false : Nat]]
      BY <1>2, <3>1
    <3> QED
      BY <1>2, <3>2, <3>3
  <2>2. CASE ~setup.database
    <3>1. priors' = [s \in Signatures |-> [total |-> 0, false |-> 0]]
      BY <2>2 DEF Distil, NoPriors
    <3> QED
      BY <1>2, <3>1
  <2> QED
    BY <2>1, <2>2
<1>4. ApiTypeOK'
  BY <1>1, <1>3 DEF ApiInvariant, ApiTypeOK
<1>5. PriorsRest'
  BY <1>1, <1>3 DEF PriorsRest, RuledOn
<1> QED
  BY <1>1, <1>4, <1>5 DEF ApiInvariant, StoresAgree, RulingRests, MemoryRestsOnRulings, RuledOn

LEMMA ApiRestartKeeps ==
    ASSUME ApiInvariant, ApiRestart
    PROVE  ApiInvariant'
<1>1. /\ memory' = <<>> /\ priors' = NoPriors /\ ruling' = NoRuling
      /\ apiLife' = apiLife + 1
      /\ UNCHANGED <<setup, record, persist, ruled, rulings>>
  BY DEF ApiRestart
<1>2. /\ \A i \in InvIds : /\ triaged'[i] = triaged[i] \ {"list"}
                           /\ \/ run'[i] = run[i]
                              \/ /\ run[i].execution = "running"
                                 /\ run'[i] = [run[i] EXCEPT !.execution = "dropped"]
      /\ DOMAIN triaged' = InvIds /\ DOMAIN run' = InvIds
      /\ triaged' = [i \in InvIds |-> triaged'[i]] /\ run' = [i \in InvIds |-> run'[i]]
  BY DEF ApiRestart, Running
<1>3. ASSUME NEW i \in InvIds
      PROVE  /\ run'[i] \in RunRecord /\ run'[i].progress = run[i].progress
             /\ run'[i].adjusted = run[i].adjusted
             /\ \/ run'[i].execution = run[i].execution
                \/ run[i].execution = "running" /\ run'[i].execution = "dropped"
  <2>1. run[i] \in RunRecord
    BY ApiTyped
  <2> QED
    BY <1>2, <2>1 DEF RunRecord
<1>4. /\ run' \in [InvIds -> RunRecord]
      /\ triaged' \in [InvIds -> SUBSET {"list", "table", "worker"}]
  BY <1>2, <1>3, ApiTyped
<1>5. priors' = [s \in Signatures |-> [total |-> 0, false |-> 0]]
  BY <1>1 DEF NoPriors
<1>6. priors' \in [Signatures -> [total : Nat, false : Nat]]
  BY <1>5
<1>7. ApiTypeOK'
  BY <1>1, <1>4, <1>6 DEF ApiInvariant, ApiTypeOK, RunRecord
<1>8. ASSUME NEW i \in InvIds PROVE StoresAgree(i)' /\ AdjustedRests(i)'
  <2>1. StoresAgree(i) /\ AdjustedRests(i)
    BY ApiTyped DEF ApiInvariant
  <2>2. i \notin ToSet(memory')
    BY <1>1 DEF ToSet
  <2>3. triaged'[i] # {} => triaged[i] # {}
    BY <1>2
  <2>4. StoresAgree(i)'
    BY <1>1, <1>3, <2>1, <2>2, <2>3 DEF StoresAgree
  <2>5. AdjustedRests(i)'
    BY <1>1, <1>3, <2>1 DEF AdjustedRests, RuledOn
  <2> QED
    BY <2>4, <2>5
<1>9. PriorsRest'
  <2> SUFFICES ASSUME NEW s \in Signatures
               PROVE  /\ priors'[s].false <= priors'[s].total
                      /\ priors'[s].total <= Cardinality(RuledOn(s))
    BY <1>1 DEF PriorsRest, RuledOn
  <2>1. priors'[s] = [total |-> 0, false |-> 0]
    BY <1>5
  <2>2. RuledOn(s) \in SUBSET InvIds
    BY DEF RuledOn
  <2>3. Cardinality(RuledOn(s)) \in Nat
    BY <2>2, FS_Subset, FS_CardinalityType, ApiAssumption
  <2> QED
    BY <2>1, <2>3
<1>10. RulingRests' /\ (setup.temporal => memory' = <<>>)
  BY <1>1 DEF RulingRests
<1>11. MemoryRestsOnRulings'
  BY <1>8 DEF MemoryRestsOnRulings, StoresAgree, AdjustedRests, RuledOn
<1> QED
  BY <1>1, <1>7, <1>8, <1>9, <1>10, <1>11 DEF ApiInvariant

LEMMA ApiStarts ==
    ASSUME ApiInit
    PROVE  ApiInvariant
<1>1. /\ \A i \in InvIds :
            /\ run[i] = [progress |-> "unknown", execution |-> "none", severity |-> "high",
                         adjusted |-> 0]
            /\ record[i] = NoRow /\ triaged[i] = {} /\ persist[i] = "none" /\ ruled[i] = "none"
      /\ memory = <<>> /\ ruling = NoRuling
  BY DEF ApiInit
<1>2. ApiTypeOK
  BY DEF ApiInit, ApiTypeOK, NoRow, Verdicts, NoPriors
<1>3. \A i \in InvIds : StoresAgree(i)
  BY <1>1 DEF StoresAgree, NoRow, ToSet
<1>4. PriorsRest
  <2> SUFFICES ASSUME NEW s \in Signatures
               PROVE  /\ priors[s].false <= priors[s].total
                      /\ priors[s].total <= Cardinality(RuledOn(s))
    BY DEF PriorsRest
  <2>1. priors[s] = [total |-> 0, false |-> 0]
    BY DEF ApiInit, NoPriors
  <2>2. RuledOn(s) \in SUBSET InvIds
    BY DEF RuledOn
  <2>3. Cardinality(RuledOn(s)) \in Nat
    BY <2>2, FS_Subset, FS_CardinalityType, ApiAssumption
  <2> QED
    BY <2>1, <2>3
<1>5. RulingRests /\ MemoryRestsOnRulings
  BY <1>1 DEF RulingRests, MemoryRestsOnRulings
<1> QED
  BY <1>1, <1>2, <1>3, <1>4, <1>5 DEF ApiInvariant

\* The routes, the workflow's persist activity and the memory keep the
\* strengthened invariant, in every setup.
THEOREM ApiInvariantHolds == ApiSpec => []ApiInvariant
<1>1. ApiInvariant /\ [ApiNext]_apiVars => ApiInvariant'
  <2> SUFFICES ASSUME ApiInvariant, [ApiNext]_apiVars
               PROVE  ApiInvariant'
    OBVIOUS
  <2>1. CASE UNCHANGED apiVars
    BY <2>1 DEF apiVars, ApiInvariant, ApiTypeOK, StoresAgree, RulingRests, PriorsRest,
                MemoryRestsOnRulings, RuledOn
  <2> QED
    BY <2>1, InvestigateKeeps, TriageKeeps, RunCompletesKeeps, AbandonKeeps, ReachGateKeeps,
       WorkflowCompletesKeeps, PersistMoves, PersistWritesKeeps, WorkflowEndsKeeps,
       SubmitKeeps, CommitKeeps, DistilKeeps, ApiRestartKeeps DEF ApiNext
<1> QED
  BY <1>1, ApiStarts, PTL DEF ApiSpec

\* MemoryRestsOnRulings (record_verdict and distill of
\* services/memory/distillation.py): a verdict the table took stays although
\* the end of the run writes the same row, and triage is nudged by a tenth at
\* most, on enough rulings.
THEOREM RulingsTheorem == ApiSpec => []MemoryRestsOnRulings
  BY ApiInvariantHolds, PTL DEF ApiInvariant

OneEach(entriesOf) == \A e, f \in entriesOf : f.id = e.id => f = e

LEMMA OverOneEach ==
    ASSUME NEW lower, NEW upper, OneEach(lower), OneEach(upper)
    PROVE  /\ OneEach(Over(lower, upper))
           /\ \A e \in Over(lower, upper) :
                 e \in upper \/ (e \in lower /\ \A u \in upper : u.id # e.id)
BY DEF Over, OneEach

\* A row is listed by its status; one without a status as completed.
LEMMA RowsListed ==
    ASSUME NEW table \in BOOLEAN
    PROVE  /\ OneEach(RowEntries(table))
           /\ \A e \in RowEntries(table) :
                 /\ e.id \in InvIds /\ table /\ setup.database /\ record[e.id] # NoRow
                 /\ e.status = IF record[e.id].status = "none" THEN "completed"
                               ELSE record[e.id].status
<1> DEFINE status == [i \in InvIds |-> IF record[i].status = "none" THEN "completed"
                                       ELSE record[i].status]
           severity == [i \in InvIds |-> IF record[i].severity # "none" THEN record[i].severity
                                         ELSE IF record[i].risk > 8 THEN "critical"
                                         ELSE IF record[i].risk > 5 THEN "high" ELSE "medium"]
<1>1. ASSUME NEW e \in RowEntries(table)
      PROVE  \E i \in InvIds : /\ table /\ setup.database /\ record[i] # NoRow
                               /\ e = [id |-> i, status |-> status[i], severity |-> severity[i]]
  BY <1>1 DEF RowEntries, Entry
<1>2. \A i \in InvIds : status[i] = IF record[i].status = "none" THEN "completed"
                                    ELSE record[i].status
  OBVIOUS
<1> HIDE DEF status, severity
<1>3. ASSUME NEW e \in RowEntries(table)
      PROVE  /\ e.id \in InvIds /\ table /\ setup.database /\ record[e.id] # NoRow
             /\ e = [id |-> e.id, status |-> status[e.id], severity |-> severity[e.id]]
             /\ e.status = status[e.id]
  BY <1>1, <1>3
<1>4. OneEach(RowEntries(table))
  BY <1>3 DEF OneEach
<1> QED
  BY <1>2, <1>3, <1>4

LEMMA MemoryListed ==
    ASSUME ApiInvariant
    PROVE  /\ OneEach(MemoryEntries)
           /\ \A e \in MemoryEntries : /\ e.id \in InvIds /\ e.id \in ToSet(memory)
                                       /\ e.status = "completed"
           /\ \A i \in ToSet(memory) : \E e \in MemoryEntries : e.id = i
<1>1. ToSet(memory) \subseteq InvIds
  BY ApiTyped DEF ToSet
<1>2. \A e \in MemoryEntries :
          /\ e.id \in ToSet(memory) /\ e.status = "completed"
          /\ e = [id |-> e.id, status |-> "completed", severity |-> run[e.id].severity]
  BY DEF MemoryEntries, Entry
<1>3. OneEach(MemoryEntries)
  BY <1>2 DEF OneEach
<1>4. ASSUME NEW i \in ToSet(memory) PROVE \E e \in MemoryEntries : e.id = i
  <2> DEFINE entry == Entry(i, "completed", run[i].severity)
  <2>1. entry \in MemoryEntries /\ entry.id = i
    BY DEF MemoryEntries, Entry
  <2> QED
    BY <2>1
<1> QED
  BY <1>1, <1>2, <1>3, <1>4

\* Temporal lists every workflow it knows, by the progress it was told.
LEMMA WorkflowsListed ==
    ASSUME NEW temporal \in {"answers", "silent", "down"}, NEW existing
    PROVE  /\ OneEach(TemporalEntries(temporal, existing))
           /\ \A e \in TemporalEntries(temporal, existing) :
                 /\ e.id \in InvIds /\ setup.temporal /\ temporal # "down"
                 /\ e.status = Progress(e.id, temporal)
           /\ \A i \in InvIds :
                 setup.temporal /\ temporal # "down" /\ run[i].execution # "none" =>
                     \E e \in TemporalEntries(temporal, existing) : e.id = i
<1> DEFINE known == {j \in InvIds : setup.temporal /\ temporal # "down"
                                    /\ run[j].execution # "none"}
           status == [i \in known |-> Progress(i, temporal)]
           severity == [i \in known |->
               IF temporal = "answers" /\ triaged[i] # {} THEN run[i].severity
               ELSE IF \E e \in existing : e.id = i
                    THEN (CHOOSE e \in existing : e.id = i).severity
               ELSE "high"]
<1>1. TemporalEntries(temporal, existing) =
          {[id |-> i, status |-> status[i], severity |-> severity[i]] : i \in known}
  BY DEF TemporalEntries, Entry
<1>2. \A i \in known : status[i] = Progress(i, temporal)
  OBVIOUS
<1>3. \A i \in InvIds : i \in known <=> /\ setup.temporal /\ temporal # "down"
                                        /\ run[i].execution # "none"
  OBVIOUS
<1>4. known \subseteq InvIds
  OBVIOUS
<1> HIDE DEF known, status, severity
<1>5. ASSUME NEW e \in TemporalEntries(temporal, existing)
      PROVE  /\ e.id \in known /\ e.status = status[e.id]
             /\ e = [id |-> e.id, status |-> status[e.id], severity |-> severity[e.id]]
  BY <1>1, <1>5
<1>6. OneEach(TemporalEntries(temporal, existing))
  BY <1>5 DEF OneEach
<1>7. ASSUME NEW i \in known PROVE \E e \in TemporalEntries(temporal, existing) : e.id = i
  <2> DEFINE entry == [id |-> i, status |-> status[i], severity |-> severity[i]]
  <2>1. entry \in TemporalEntries(temporal, existing) /\ entry.id = i
    BY <1>1
  <2> QED
    BY <2>1
<1> QED
  BY <1>2, <1>3, <1>4, <1>5, <1>6, <1>7

LEMMA ListedOnce ==
    ASSUME ApiInvariant, NEW table \in BOOLEAN,
           NEW temporal \in {"answers", "silent", "down"}
    PROVE  /\ OneEach(Listing(table, temporal))
           /\ \A e \in Listing(table, temporal) :
                 /\ e.id \in InvIds
                 /\ \/ /\ setup.temporal /\ temporal # "down"
                       /\ e.status = Progress(e.id, temporal)
                    \/ /\ setup.temporal => temporal = "down" \/ run[e.id].execution = "none"
                       /\ \/ e.id \in ToSet(memory) /\ e.status = "completed"
                          \/ /\ e.id \notin ToSet(memory)
                             /\ table /\ setup.database /\ record[e.id] # NoRow
                             /\ e.status = IF record[e.id].status = "none" THEN "completed"
                                           ELSE record[e.id].status
<1> DEFINE kept == Over(RowEntries(table), MemoryEntries)
           live == TemporalEntries(temporal, kept)
<1>1. Listing(table, temporal) = Over(kept, live)
  BY DEF Listing
<1>2. OneEach(RowEntries(table)) /\ OneEach(MemoryEntries)
  BY RowsListed, MemoryListed
<1>3. /\ OneEach(kept)
      /\ \A e \in kept : e \in MemoryEntries
                         \/ (e \in RowEntries(table) /\ \A u \in MemoryEntries : u.id # e.id)
  BY <1>2, OverOneEach
<1>4. /\ OneEach(live)
      /\ \A e \in live : /\ e.id \in InvIds /\ setup.temporal /\ temporal # "down"
                         /\ e.status = Progress(e.id, temporal)
      /\ \A i \in InvIds : setup.temporal /\ temporal # "down" /\ run[i].execution # "none" =>
             \E e \in live : e.id = i
  BY WorkflowsListed
<1>5. \A e \in kept :
          /\ e.id \in InvIds
          /\ \/ e.id \in ToSet(memory) /\ e.status = "completed"
             \/ /\ e.id \notin ToSet(memory)
                /\ table /\ setup.database /\ record[e.id] # NoRow
                /\ e.status = IF record[e.id].status = "none" THEN "completed"
                              ELSE record[e.id].status
  BY <1>3, RowsListed, MemoryListed
<1> HIDE DEF kept, live
<1>6. /\ OneEach(Listing(table, temporal))
      /\ \A e \in Listing(table, temporal) :
            e \in live \/ (e \in kept /\ \A u \in live : u.id # e.id)
  BY <1>1, <1>3, <1>4, OverOneEach
<1>7. \A e \in kept : (\A u \in live : u.id # e.id) =>
          (setup.temporal => temporal = "down" \/ run[e.id].execution = "none")
  BY <1>4, <1>5
<1> QED
  BY <1>4, <1>5, <1>6, <1>7

LEMMA HonestEntry ==
    ASSUME ApiInvariant, NEW table \in BOOLEAN,
           NEW temporal \in {"answers", "silent", "down"},
           NEW e \in Listing(table, temporal)
    PROVE  /\ e.status = "completed" =>
                 \/ run[e.id].progress = "completed"
                 \/ ruled[e.id] # "none" /\ (setup.temporal => temporal = "down")
           /\ e.id \in PendingApprovals(temporal) => e.status = "pending_approval"
           /\ DetailsStatus(e.id, table, temporal) # e.status =>
                 setup.temporal /\ temporal = "silent" /\ record[e.id].status = "completed"
<1> DEFINE i == e.id
<1>1. i \in InvIds
  BY ListedOnce
<1>2. /\ StoresAgree(i) /\ record[i] \in Row /\ setup.temporal \in BOOLEAN
      /\ setup.temporal => i \notin ToSet(memory)
  BY <1>1, ApiTyped DEF ApiInvariant, ToSet
<1>3. record[i].status \in {"absent", "none", "completed"}
  BY <1>2 DEF Row
<1>4. CASE setup.temporal /\ temporal # "down" /\ e.status = Progress(i, temporal)
  <2>1. /\ temporal = "answers" => e.status = run[i].progress
        /\ temporal = "silent" => e.status = IF run[i].execution = "completed"
                                             THEN "completed" ELSE "unknown"
    BY <1>4 DEF Progress
  <2>2. e.status = "completed" => run[i].progress = "completed"
    BY <1>2, <1>4, <2>1 DEF StoresAgree
  <2>3. i \in PendingApprovals(temporal) => e.status = "pending_approval"
    BY <2>1 DEF PendingApprovals
  <2>4. DetailsStatus(i, table, temporal) # e.status => record[i].status = "completed"
    BY <1>2, <1>3, <1>4 DEF DetailsStatus
  <2>5. DetailsStatus(i, table, temporal) # e.status => temporal = "silent"
    <3>1. SUFFICES ASSUME temporal = "answers", DetailsStatus(i, table, temporal) # e.status
                   PROVE  FALSE
      BY <1>4
    <3>2. e.status = "completed"
      BY <1>2, <2>1, <2>4, <3>1 DEF StoresAgree
    <3>3. DetailsStatus(i, table, temporal) \in {"completed", e.status}
      BY <1>2, <1>3, <1>4 DEF DetailsStatus
    <3> QED
      BY <3>1, <3>2, <3>3
  <2> QED
    BY <1>4, <2>2, <2>3, <2>4, <2>5
<1>5. CASE /\ setup.temporal => temporal = "down" \/ run[i].execution = "none"
           /\ i \in ToSet(memory) /\ e.status = "completed"
  <2>1. run[i].progress = "completed" /\ run[i].execution # "none"
    BY <1>2, <1>5 DEF StoresAgree
  <2>2. i \notin PendingApprovals(temporal) /\ DetailsStatus(i, table, temporal) = "completed"
    BY <1>5, <2>1 DEF PendingApprovals, DetailsStatus
  <2> QED
    BY <1>5, <2>1, <2>2
<1>6. CASE /\ setup.temporal => temporal = "down" \/ run[i].execution = "none"
           /\ i \notin ToSet(memory) /\ table /\ setup.database /\ record[i] # NoRow
           /\ e.status = IF record[i].status = "none" THEN "completed" ELSE record[i].status
  <2>1. /\ setup.temporal => temporal = "down"
        /\ record[i].status \in {"none", "completed"} /\ e.status = "completed"
    BY <1>2, <1>3, <1>6 DEF StoresAgree
  <2>2. i \notin PendingApprovals(temporal)
    BY <2>1 DEF PendingApprovals
  <2>3. DetailsStatus(i, table, temporal) = "completed"
    BY <1>6, <2>1 DEF DetailsStatus
  <2>4. run[i].progress = "completed" \/ ruled[i] # "none"
    BY <1>2, <2>1 DEF StoresAgree
  <2> QED
    BY <2>1, <2>2, <2>3, <2>4
<1> QED
  BY <1>4, <1>5, <1>6, ListedOnce

\* ListingHonest (list_investigations, details and pending approvals of
\* api/routes/orchestrator.py): whichever stores answer, an investigation is
\* listed once, as completed only if it is or was ruled on, never so while it
\* waits for approval, and the details differ only where Temporal was silent.
THEOREM ListingTheorem == ApiSpec => []ListingHonest
<1>1. ApiInvariant => ListingHonest
  <2> SUFFICES ASSUME ApiInvariant, NEW table \in BOOLEAN,
                      NEW temporal \in {"answers", "silent", "down"},
                      NEW e \in Listing(table, temporal)
      PROVE  /\ \A f \in Listing(table, temporal) : f.id = e.id => f = e
             /\ e.status = "completed" =>
                   \/ run[e.id].progress = "completed"
                   \/ ruled[e.id] # "none" /\ (setup.temporal => temporal = "down")
             /\ e.id \in PendingApprovals(temporal) => e.status = "pending_approval"
             /\ DetailsStatus(e.id, table, temporal) # e.status =>
                   setup.temporal /\ temporal = "silent" /\ record[e.id].status = "completed"
    BY DEF ListingHonest
  <2>1. \A f \in Listing(table, temporal) : f.id = e.id => f = e
    BY ListedOnce DEF OneEach
  <2> QED
    BY <2>1, HonestEntry
<1> QED
  BY <1>1, ApiInvariantHolds, PTL

-----------------------------------------------------------------------------
(* The playbook engine *)

StepOutcome == [status : {"success", "failed"}, retried : BOOLEAN, reports : SUBSET PhaseReport]

LEMMA AgentsFour ==
    /\ Len(Agents) = 4 /\ ToSet(Agents) = {Agents[k] : k \in 1..4}
    /\ \A k \in 1..4 : Agents[k] \in ToSet(Agents)
BY DEF Agents, ToSet

LEMMA PlaybookTyped ==
    ASSUME PlaybookInvariant
    PROVE  /\ Len(playbook) \in Nat /\ DOMAIN playbook = 1..Len(playbook)
           /\ Len(results) \in Nat /\ DOMAIN results = 1..Len(results)
           /\ At = Len(results) + 1 /\ At \in Nat /\ Len(results) <= Len(playbook)
           /\ attempt.n \in 1..2 /\ attempt.agents \in 0..3
           /\ results \in Seq(StepOutcome)
           /\ \A i \in DOMAIN results : results[i] \in StepOutcome
<1>1. results \in Seq(StepOutcome)
  BY DEF PlaybookInvariant, PlaybookTypeOK, StepOutcome
<1>2. Len(results) \in Nat /\ DOMAIN results = 1..Len(results)
      /\ \A i \in DOMAIN results : results[i] \in StepOutcome
  BY <1>1
<1>3. Len(playbook) \in Nat /\ DOMAIN playbook = 1..Len(playbook)
  BY DEF PlaybookInvariant, PlaybookTypeOK
<1>4. Len(results) <= Len(playbook) /\ attempt.n \in 1..2 /\ attempt.agents \in 0..3
  BY DEF PlaybookInvariant, PlaybookTypeOK, StepsInOrder
<1> QED
  BY <1>1, <1>2, <1>3, <1>4 DEF At

\* A whole attempt is what its four agents left.
LEMMA WholeAttempt ==
    ASSUME NEW s, NEW n
    PROVE  Whole(s, n) = {[phase |-> Agents[k], step |-> s, n |-> n] : k \in 1..4}
<1>1. ASSUME NEW k \in 1..4
      PROVE  [phase |-> Agents[k], step |-> s, n |-> n] \in Whole(s, n)
  BY AgentsFour DEF Whole
<1>2. ASSUME NEW r \in Whole(s, n)
      PROVE  \E k \in 1..4 : r = [phase |-> Agents[k], step |-> s, n |-> n]
  <2>1. /\ r.phase \in ToSet(Agents)
        /\ r = [phase |-> r.phase, step |-> s, n |-> n]
    BY DEF Whole
  <2>2. PICK k \in 1..4 : r.phase = Agents[k]
    BY <2>1, AgentsFour
  <2> QED
    BY <2>1, <2>2
<1> QED
  BY <1>1, <1>2

\* The step's result is appended: the next step starts with nothing done.
LEMMA StepEndsKeeps ==
    ASSUME PlaybookInvariant, playing = "steps", At <= Len(playbook),
           NEW row \in StepOutcome, results' = Append(results, row),
           row.retried = (attempt.n > 1),
           row.reports = {} \/ row.reports = Whole(At, attempt.n),
           attempt' = FirstAttempt,
           playing' = IF row.status = "failed" /\ playbook[At].policy = "abort"
                      THEN "aborted" ELSE "steps",
           UNCHANGED <<playbook, engaged, outcome>>,
           board' \subseteq PhaseReport, \A r \in board' : r.step <= At,
           isolations' \subseteq [step : Nat, n : 1..2, engaged : BOOLEAN],
           \A d \in isolations' : d \in isolations \/ (d.step = At /\ d.n = attempt.n)
    PROVE  PlaybookInvariant'
<1>1. /\ Len(results) \in Nat /\ DOMAIN results = 1..Len(results) /\ At = Len(results) + 1
      /\ Len(playbook) \in Nat /\ At \in Nat /\ attempt.n \in 1..2
      /\ results \in Seq(StepOutcome)
  BY PlaybookTyped
<1>2. /\ results' \in Seq(StepOutcome) /\ Len(results') = At /\ DOMAIN results' = 1..At
      /\ results'[At] = row /\ \A i \in DOMAIN results : results'[i] = results[i]
      /\ DOMAIN results \subseteq DOMAIN results' /\ At \in DOMAIN results'
      /\ \A i \in DOMAIN results' : i \in DOMAIN results \/ i = At
      /\ \A i \in DOMAIN results : i < At
  BY <1>1
<1>3. At' = At + 1 /\ attempt'.n = 1 /\ attempt'.agents = 0
  BY <1>2 DEF At, FirstAttempt
<1>4. PlaybookTypeOK'
  <2>1. attempt' \in [n : 1..2, agents : 0..3]
    BY DEF FirstAttempt
  <2>2. results' \in Seq([status : {"success", "failed"}, retried : BOOLEAN,
                         reports : SUBSET PhaseReport])
    BY <1>2 DEF StepOutcome
  <2> QED
    BY <2>1, <2>2 DEF PlaybookInvariant, PlaybookTypeOK
<1>5. StepsInOrder'
  <2>1. \A i \in DOMAIN results : ~(results[i].status = "failed" /\ playbook[i].policy = "abort")
    BY DEF PlaybookInvariant, StepsInOrder
  <2>2. \A i \in DOMAIN results' :
            results'[i].status = "failed" /\ playbook[i].policy = "abort" =>
                i = At /\ playing' = "aborted"
    BY <1>2, <2>1
  <2>3. playing' = "aborted" => /\ results'[At].status = "failed"
                                /\ playbook[At].policy = "abort" /\ results' # <<>>
    BY <1>1, <1>2
  <2> QED
    BY <1>2, <1>3, <2>2, <2>3 DEF StepsInOrder
<1>6. IsolationsOfSteps'
  <2> SUFFICES ASSUME NEW d \in isolations'
      PROVE  /\ d.step \in DOMAIN results'
             /\ d.n > 1 => playbook[d.step].policy = "retry" /\ results'[d.step].retried
    BY DEF IsolationsOfSteps
  <2>1. d.n \in Nat
    OBVIOUS
  <2>2. CASE /\ d.step \in DOMAIN results
             /\ d.n > 1 => playbook[d.step].policy = "retry" /\ results[d.step].retried
    BY <1>2, <2>2
  <2>3. CASE d.step = At /\ d.n <= attempt.n
    <3>1. d.n > 1 => attempt.n > 1
      BY <1>1, <2>1, <2>3
    <3>2. attempt.n > 1 => playbook[At].policy = "retry"
      BY DEF PlaybookInvariant, StepsInOrder
    <3> QED
      BY <1>2, <2>3, <3>1, <3>2
  <2> QED
    BY <1>1, <2>2, <2>3 DEF PlaybookInvariant, IsolationsOfSteps
<1>7. BoardOfAttempt'
  <2>1. \A r \in board' : r.step \in Nat /\ r.step < At + 1 /\ r.step # At + 1
    BY <1>1 DEF PhaseReport
  <2>2. {r \in board' : r.step = At + 1 /\ r.n = 1} = {}
    BY <2>1
  <2>3. {[phase |-> Agents[k], step |-> At + 1, n |-> 1] : k \in 1..0} = {}
    OBVIOUS
  <2>4. \A r \in board' : r.step <= At + 1 /\ (r.step = At + 1 => r.n <= 1)
    BY <1>1, <2>1
  <2> QED
    BY <1>3, <2>2, <2>3, <2>4 DEF BoardOfAttempt
<1>8. ReportsWhole'
  <2>1. \A i \in DOMAIN results' : results'[i].reports = {}
                                   \/ \E n \in 1..2 : results'[i].reports = Whole(i, n)
    BY <1>1, <1>2 DEF PlaybookInvariant, ReportsWhole
  <2>2. CASE row.reports = {}
    <3>1. CASE \A i \in DOMAIN results : results[i].reports = {}
      BY <1>2, <2>1, <2>2, <3>1 DEF ReportsWhole
    <3>2. ASSUME NEW s \in DOMAIN results, results[s].reports # {},
                 \A i \in DOMAIN results : i > s => results[i].reports = {}
          PROVE  ReportsWhole'
      <4>1. /\ s \in DOMAIN results' /\ results'[s].reports # {}
            /\ \A i \in DOMAIN results' : i > s => results'[i].reports = {}
        BY <1>2, <2>2, <3>2
      <4> QED
        BY <2>1, <4>1 DEF ReportsWhole
    <3> QED
      BY <3>1, <3>2 DEF PlaybookInvariant, ReportsWhole
  <2>3. CASE row.reports # {}
    <3>1. /\ At \in DOMAIN results' /\ results'[At].reports # {}
          /\ \A i \in DOMAIN results' : i > At => results'[i].reports = {}
      BY <1>1, <1>2, <2>3
    <3> QED
      BY <2>1, <3>1 DEF ReportsWhole
  <2> QED
    BY <2>2, <2>3
<1>9. PlaybookAccounts'
  BY DEF PlaybookAccounts
<1> QED
  BY <1>4, <1>5, <1>6, <1>7, <1>8, <1>9 DEF PlaybookInvariant

\* The step is tried again from its first agent.
LEMMA RetryKeeps ==
    ASSUME PlaybookInvariant, playing = "steps", At <= Len(playbook),
           playbook[At].policy = "retry", attempt.n = 1,
           attempt' = [n |-> 2, agents |-> 0],
           UNCHANGED <<playbook, playing, results, engaged, outcome>>,
           board' \subseteq PhaseReport,
           \A r \in board' : r.step <= At /\ (r.step = At => r.n <= attempt.n),
           isolations' \subseteq [step : Nat, n : 1..2, engaged : BOOLEAN],
           \A d \in isolations' : d \in isolations \/ (d.step = At /\ d.n = attempt.n)
    PROVE  PlaybookInvariant'
<1>1. At' = At /\ attempt'.n = 2 /\ attempt'.agents = 0 /\ At \in Nat
  BY PlaybookTyped DEF At
<1>2. PlaybookTypeOK'
  BY DEF PlaybookInvariant, PlaybookTypeOK
<1>3. StepsInOrder'
  BY <1>1 DEF PlaybookInvariant, StepsInOrder
<1>4. IsolationsOfSteps'
  <2> SUFFICES ASSUME NEW d \in isolations'
      PROVE  \/ /\ d.step \in DOMAIN results
                /\ d.n > 1 => playbook[d.step].policy = "retry" /\ results[d.step].retried
             \/ d.step = At /\ d.n <= 2
    BY <1>1 DEF IsolationsOfSteps
  <2>1. d.n \in Nat /\ (d.n <= 1 => d.n <= 2)
    OBVIOUS
  <2> QED
    BY <2>1 DEF PlaybookInvariant, IsolationsOfSteps
<1>5. BoardOfAttempt'
  <2>1. \A r \in board' : r.n \in Nat /\ (r.step = At => r.n # 2 /\ r.n <= 2)
    BY DEF PhaseReport
  <2>2. {r \in board' : r.step = At /\ r.n = 2} = {}
    BY <2>1
  <2>3. {[phase |-> Agents[k], step |-> At, n |-> 2] : k \in 1..0} = {}
    OBVIOUS
  <2> QED
    BY <1>1, <2>1, <2>2, <2>3 DEF BoardOfAttempt
<1>6. ReportsWhole' /\ PlaybookAccounts'
  BY DEF PlaybookInvariant, ReportsWhole, PlaybookAccounts
<1> QED
  BY <1>2, <1>3, <1>4, <1>5, <1>6 DEF PlaybookInvariant

LEMMA StepReturnsKeeps ==
    ASSUME PlaybookInvariant, playing = "steps", At <= Len(playbook),
           NEW status \in {"success", "failed"}, NEW reports \in SUBSET PhaseReport,
           reports = {} \/ (status = "success" /\ reports = Whole(At, attempt.n)),
           StepReturns(status, reports),
           board' \subseteq PhaseReport,
           \A r \in board' : r.step <= At /\ (r.step = At => r.n <= attempt.n),
           isolations' \subseteq [step : Nat, n : 1..2, engaged : BOOLEAN],
           \A d \in isolations' : d \in isolations \/ (d.step = At /\ d.n = attempt.n)
    PROVE  PlaybookInvariant'
<1>1. CASE Retries(status)
  <2>1. playbook[At].policy = "retry" /\ attempt.n = 1
    BY <1>1 DEF Retries
  <2>2. /\ attempt' = [n |-> 2, agents |-> 0]
        /\ UNCHANGED <<playbook, playing, results, engaged, outcome>>
    BY <1>1, <2>1 DEF StepReturns
  <2> QED
    BY <2>1, <2>2, RetryKeeps
<1>2. CASE ~Retries(status)
  <2> DEFINE again == attempt.n > 1
             row == [status |-> status, retried |-> again, reports |-> reports]
  <2>1. again \in BOOLEAN
    OBVIOUS
  <2>2. row \in StepOutcome /\ row.retried = again /\ row.reports = reports
        /\ row.status = status
    <3> HIDE DEF again
    <3> QED
      BY <2>1 DEF StepOutcome
  <2>3. /\ results' = Append(results, row) /\ attempt' = FirstAttempt
        /\ playing' = IF status = "failed" /\ playbook[At].policy = "abort"
                      THEN "aborted" ELSE "steps"
        /\ UNCHANGED <<playbook, engaged, outcome>>
    BY <1>2 DEF StepReturns
  <2> HIDE DEF row
  <2> QED
    BY <2>2, <2>3, StepEndsKeeps
<1> QED
  BY <1>1, <1>2

LEMMA FindPlaybookKeeps ==
    ASSUME PlaybookInvariant, NEW alert \in PlaybookAlerts, FindPlaybook(alert)
    PROVE  PlaybookInvariant'
<1>1. /\ results = <<>> /\ results' = <<>> /\ attempt' = FirstAttempt
      /\ board' = {} /\ isolations' = {}
      /\ UNCHANGED <<engaged, outcome>> /\ playing' \in {"static", "steps"}
  BY DEF FindPlaybook, PlaybookInvariant, StepsInOrder
<1>2. playbook' \in Seq([type : STRING, policy : STRING])
  <2>1. CASE UNCHANGED playbook
    BY <2>1 DEF PlaybookInvariant, PlaybookTypeOK
  <2>2. CASE \E first \in MatchingPlaybooks(alert) : playbook' = PlaybookFiles[first].steps
    BY <2>2, PlaybookAssumption DEF MatchingPlaybooks, Loaded
  <2> QED
    BY <2>1, <2>2 DEF FindPlaybook
<1>3. /\ Len(results') = 0 /\ DOMAIN results' = {} /\ Len(playbook') \in Nat
      /\ attempt'.n = 1 /\ attempt'.agents = 0
  BY <1>1, <1>2 DEF FirstAttempt
<1>4. PlaybookTypeOK'
  <2>1. attempt' \in [n : 1..2, agents : 0..3]
    BY <1>1 DEF FirstAttempt
  <2>2. results' \in Seq([status : {"success", "failed"}, retried : BOOLEAN,
                         reports : SUBSET PhaseReport])
    BY <1>1
  <2> QED
    BY <1>1, <1>2, <2>1, <2>2 DEF PlaybookInvariant, PlaybookTypeOK
<1>5. StepsInOrder'
  BY <1>1, <1>3 DEF StepsInOrder
<1>6. IsolationsOfSteps' /\ ReportsWhole' /\ PlaybookAccounts'
  BY <1>1, <1>3 DEF IsolationsOfSteps, ReportsWhole, PlaybookAccounts
<1>7. BoardOfAttempt'
  <2>1. \A x : {[phase |-> Agents[k], step |-> x, n |-> 1] : k \in 1..0} = {}
    OBVIOUS
  <2> QED
    BY <1>1, <1>3, <2>1 DEF BoardOfAttempt
<1> QED
  BY <1>4, <1>5, <1>6, <1>7 DEF PlaybookInvariant

LEMMA IsolateHostKeeps ==
    ASSUME PlaybookInvariant, IsolateHost
    PROVE  PlaybookInvariant'
<1>1. playing = "steps" /\ At <= Len(playbook) /\ At \in Nat /\ attempt.n \in 1..2
  BY PlaybookTyped DEF IsolateHost, InStep
<1>2. PICK status \in {"success", "failed"} : StepReturns(status, {})
  BY DEF IsolateHost
<1>3. board' \subseteq PhaseReport
      /\ \A r \in board' : r.step <= At /\ (r.step = At => r.n <= attempt.n)
  BY DEF IsolateHost, PlaybookInvariant, PlaybookTypeOK, BoardOfAttempt
<1> DEFINE one == [step |-> At, n |-> attempt.n, engaged |-> engaged]
<1>4. one \in [step : Nat, n : 1..2, engaged : BOOLEAN] /\ one.step = At /\ one.n = attempt.n
  BY <1>1 DEF PlaybookInvariant, PlaybookTypeOK
<1>5. isolations' = isolations \cup {one}
  BY DEF IsolateHost
<1> HIDE DEF one
<1>6. /\ isolations' \subseteq [step : Nat, n : 1..2, engaged : BOOLEAN]
      /\ \A d \in isolations' : d \in isolations \/ (d.step = At /\ d.n = attempt.n)
  BY <1>4, <1>5 DEF PlaybookInvariant, PlaybookTypeOK
<1>7. {} \in SUBSET PhaseReport
  OBVIOUS
<1> QED
  BY <1>1, <1>2, <1>3, <1>6, <1>7, StepReturnsKeeps

\* A step that leaves the board and the isolations alone and has no reports.
LEMMA PlainStepKeeps ==
    ASSUME PlaybookInvariant, playing = "steps", At <= Len(playbook),
           NEW status \in {"success", "failed"}, StepReturns(status, {}),
           UNCHANGED <<board, isolations>>
    PROVE  PlaybookInvariant'
<1>1. /\ board' \subseteq PhaseReport
      /\ \A r \in board' : r.step <= At /\ (r.step = At => r.n <= attempt.n)
      /\ isolations' \subseteq [step : Nat, n : 1..2, engaged : BOOLEAN]
      /\ \A d \in isolations' : d \in isolations
  BY DEF PlaybookInvariant, PlaybookTypeOK, BoardOfAttempt
<1>2. {} \in SUBSET PhaseReport
  OBVIOUS
<1> QED
  BY <1>1, <1>2, StepReturnsKeeps

\* One more agent of the current attempt leaves its report.
LEMMA AgentReports ==
    ASSUME PlaybookInvariant,
           NEW mine, mine = [phase |-> Agents[attempt.agents + 1], step |-> At, n |-> attempt.n],
           board' = board \cup {mine}
    PROVE  /\ board' \subseteq PhaseReport
           /\ \A r \in board' : r.step <= At /\ (r.step = At => r.n <= attempt.n)
           /\ {r \in board' : r.step = At /\ r.n = attempt.n}
                = {[phase |-> Agents[k], step |-> At, n |-> attempt.n]
                      : k \in 1..(attempt.agents + 1)}
<1>1. /\ At \in Nat /\ attempt.n \in 1..2 /\ attempt.agents \in 0..3
      /\ attempt.agents + 1 \in 1..4
  BY PlaybookTyped
<1>2. mine \in PhaseReport /\ mine.step = At /\ mine.n = attempt.n
  BY <1>1, AgentsFour DEF PhaseReport
<1>3. board' \subseteq PhaseReport
      /\ \A r \in board' : r.step <= At /\ (r.step = At => r.n <= attempt.n)
  BY <1>1, <1>2 DEF PlaybookInvariant, PlaybookTypeOK, BoardOfAttempt
<1>4. {r \in board' : r.step = At /\ r.n = attempt.n}
        = {r \in board : r.step = At /\ r.n = attempt.n} \cup {mine}
  BY <1>2
<1>5. {r \in board : r.step = At /\ r.n = attempt.n}
        = {[phase |-> Agents[k], step |-> At, n |-> attempt.n] : k \in 1..attempt.agents}
  BY DEF PlaybookInvariant, BoardOfAttempt
<1>6. 1..(attempt.agents + 1) = 1..attempt.agents \cup {attempt.agents + 1}
  BY <1>1
<1>7. {[phase |-> Agents[k], step |-> At, n |-> attempt.n] : k \in 1..(attempt.agents + 1)}
        = {[phase |-> Agents[k], step |-> At, n |-> attempt.n] : k \in 1..attempt.agents}
            \cup {mine}
  BY <1>6
<1> QED
  BY <1>3, <1>4, <1>5, <1>7

LEMMA InvestigatedKeeps ==
    ASSUME PlaybookInvariant, NEW raises \in BOOLEAN, Investigated(raises)
    PROVE  PlaybookInvariant'
<1>1. playing = "steps" /\ At <= Len(playbook) /\ At \in Nat /\ UNCHANGED isolations
  BY PlaybookTyped DEF Investigated, InStep
<1>2. attempt.n \in 1..2 /\ attempt.agents \in 0..3 /\ Len(Agents) = 4
  BY PlaybookTyped, AgentsFour
<1>3. CASE raises
  <2>1. StepReturns("failed", {}) /\ UNCHANGED board
    BY <1>3 DEF Investigated, ReportsOnRaise
  <2> QED
    BY <1>1, <2>1, PlainStepKeeps
<1>4. CASE ~raises
  <2> DEFINE mine == [phase |-> Agents[attempt.agents + 1], step |-> At, n |-> attempt.n]
  <2>1. board' = board \cup {mine}
    BY <1>4 DEF Investigated
  <2>2. /\ board' \subseteq PhaseReport
        /\ \A r \in board' : r.step <= At /\ (r.step = At => r.n <= attempt.n)
        /\ {r \in board' : r.step = At /\ r.n = attempt.n}
             = {[phase |-> Agents[k], step |-> At, n |-> attempt.n]
                   : k \in 1..(attempt.agents + 1)}
    BY <2>1, AgentReports
  <2>3. CASE attempt.agents < 3
    <3>1. /\ attempt' = [attempt EXCEPT !.agents = @ + 1]
          /\ UNCHANGED <<playbook, playing, results, engaged, outcome>>
      BY <1>2, <1>4, <2>3 DEF Investigated
    <3>2. /\ attempt' \in [n : 1..2, agents : 0..3] /\ attempt'.n = attempt.n
          /\ attempt'.agents = attempt.agents + 1
      BY <1>2, <2>3, <3>1 DEF PlaybookInvariant, PlaybookTypeOK
    <3>3. At' = At
      BY <3>1 DEF At
    <3>4. PlaybookTypeOK'
      BY <1>1, <2>2, <3>1, <3>2 DEF PlaybookInvariant, PlaybookTypeOK
    <3>5. StepsInOrder' /\ IsolationsOfSteps'
      BY <1>1, <3>1, <3>2, <3>3 DEF PlaybookInvariant, StepsInOrder, IsolationsOfSteps
    <3>6. BoardOfAttempt'
      BY <2>2, <3>2, <3>3 DEF BoardOfAttempt
    <3>7. ReportsWhole' /\ PlaybookAccounts'
      BY <1>1, <3>1 DEF PlaybookInvariant, ReportsWhole, PlaybookAccounts
    <3> QED
      BY <3>4, <3>5, <3>6, <3>7 DEF PlaybookInvariant
  <2>4. CASE attempt.agents = 3
    <3> DEFINE given == {r \in board' : r.step = At /\ r.n = attempt.n}
    <3>1. StepReturns("success", given)
      BY <1>2, <1>4, <2>4 DEF Investigated
    <3>2. given = Whole(At, attempt.n) /\ given \in SUBSET PhaseReport
      BY <2>2, <2>4, WholeAttempt
    <3>3. isolations' \subseteq [step : Nat, n : 1..2, engaged : BOOLEAN]
          /\ \A d \in isolations' : d \in isolations
      BY <1>1 DEF PlaybookInvariant, PlaybookTypeOK
    <3> HIDE DEF given
    <3> QED
      BY <1>1, <2>2, <3>1, <3>2, <3>3, StepReturnsKeeps
  <2> QED
    BY <1>2, <2>3, <2>4
<1> QED
  BY <1>3, <1>4

\* The reports collected are those of the last step that returned any.
LEMMA CollectedWhole ==
    ASSUME PlaybookInvariant
    PROVE  /\ Collected \in SUBSET PhaseReport
           /\ \/ Collected = {}
              \/ \E s \in DOMAIN playbook, n \in 1..2 : Collected = Whole(s, n)
<1> DEFINE given == UNION {results[i].reports : i \in DOMAIN results}
<1>1. /\ DOMAIN results = 1..Len(results) /\ DOMAIN playbook = 1..Len(playbook)
      /\ Len(results) \in Nat /\ Len(playbook) \in Nat /\ Len(results) <= Len(playbook)
      /\ \A i \in DOMAIN results : results[i] \in StepOutcome
  BY PlaybookTyped
<1>2. given \in SUBSET PhaseReport
  BY <1>1 DEF StepOutcome
<1>3. Collected = {r \in given : \A q \in given : q.phase = r.phase => q.step <= r.step}
  BY DEF Collected
<1>4. \A r \in given : \E i \in DOMAIN results : r \in results[i].reports
  OBVIOUS
<1>5. \A i \in DOMAIN results : results[i].reports \subseteq given
  OBVIOUS
<1> HIDE DEF given
<1>6. CASE \A i \in DOMAIN results : results[i].reports = {}
  <2>1. given = {}
    BY <1>4, <1>6
  <2> QED
    BY <1>3, <2>1
<1>7. ASSUME NEW s \in DOMAIN results, results[s].reports # {},
             \A i \in DOMAIN results : i > s => results[i].reports = {}
      PROVE  \E n \in 1..2 : Collected = Whole(s, n)
  <2>1. PICK n \in 1..2 : results[s].reports = Whole(s, n)
    BY <1>7 DEF PlaybookInvariant, ReportsWhole
  <2>2. ASSUME NEW r \in given
        PROVE  /\ r.step <= s /\ r.step \in Nat /\ r.phase \in ToSet(Agents)
               /\ r.step = s => r \in Whole(s, n)
    <3>1. PICK i \in DOMAIN results : r \in results[i].reports
      BY <1>4
    <3>2. PICK m \in 1..2 : results[i].reports = Whole(i, m)
      BY <3>1 DEF PlaybookInvariant, ReportsWhole
    <3>3. r.step = i /\ r.phase \in ToSet(Agents)
      BY <3>1, <3>2 DEF Whole
    <3>4. i <= s
      BY <1>1, <1>7, <3>1
    <3> QED
      BY <1>1, <2>1, <3>1, <3>3, <3>4
  <2>3. ASSUME NEW r \in Collected
        PROVE  r \in Whole(s, n)
    <3>1. r \in given
      BY <1>3
    <3> DEFINE q == [phase |-> r.phase, step |-> s, n |-> n]
    <3>2. q \in Whole(s, n) /\ q.phase = r.phase /\ q.step = s
      BY <2>2, <3>1 DEF Whole
    <3>3. q \in given
      BY <1>5, <2>1, <3>2
    <3>4. s <= r.step
      BY <1>3, <3>2, <3>3
    <3> QED
      BY <1>1, <2>2, <3>1, <3>4
  <2>4. ASSUME NEW r \in Whole(s, n)
        PROVE  r \in Collected
    <3>1. r \in given /\ r.step = s
      BY <1>5, <2>1 DEF Whole
    <3> QED
      BY <1>3, <2>2, <3>1
  <2> QED
    BY <2>3, <2>4
<1>8. Collected \in SUBSET PhaseReport
  BY <1>2, <1>3
<1> QED
  BY <1>1, <1>6, <1>7, <1>8 DEF PlaybookInvariant, ReportsWhole

LEMMA PlaybookEndsKeeps ==
    ASSUME PlaybookInvariant, PlaybookEnds
    PROVE  PlaybookInvariant'
<1>1. /\ playing' = "done"
      /\ UNCHANGED <<playbook, attempt, results, board, isolations, engaged>>
      /\ outcome' = [status |-> IF playing = "aborted" THEN "aborted" ELSE "completed",
                     reports |-> Collected]
  BY DEF PlaybookEnds
<1>2. /\ outcome' \in [status : {"none", "completed", "aborted"}, reports : SUBSET PhaseReport]
      /\ outcome'.status = IF playing = "aborted" THEN "aborted" ELSE "completed"
      /\ outcome'.reports = Collected
  BY <1>1, CollectedWhole
<1>3. /\ DOMAIN results = 1..Len(results) /\ Len(results) \in Nat /\ Len(playbook) \in Nat
      /\ At = Len(results) + 1 /\ Len(results) <= Len(playbook) /\ attempt.n \in 1..2
  BY PlaybookTyped
<1>4. attempt.n = 1
  BY <1>3 DEF PlaybookEnds, PlaybookInvariant, StepsInOrder
<1>5. At' = At
  BY <1>1 DEF At
<1>6. PlaybookTypeOK'
  BY <1>1, <1>2 DEF PlaybookInvariant, PlaybookTypeOK
<1>7. StepsInOrder'
  BY <1>1, <1>4, <1>5 DEF PlaybookInvariant, PlaybookEnds, StepsInOrder
<1>8. IsolationsOfSteps' /\ BoardOfAttempt' /\ ReportsWhole'
  BY <1>1, <1>5 DEF PlaybookInvariant, IsolationsOfSteps, BoardOfAttempt, ReportsWhole
<1>9. PlaybookAccounts'
  <2> DEFINE Fatal(i) == results[i].status = "failed" /\ playbook[i].policy = "abort"
  <2>1. playing # "aborted" => /\ Len(results) = Len(playbook)
                               /\ \A i \in DOMAIN results : ~Fatal(i)
    BY <1>3 DEF PlaybookEnds, PlaybookInvariant, StepsInOrder
  <2>2. ASSUME playing = "aborted"
        PROVE  {i \in DOMAIN results : Fatal(i)} = {Len(results)}
    <3>1. Fatal(Len(results)) /\ Len(results) \in DOMAIN results
      BY <1>3, <2>2 DEF PlaybookInvariant, PlaybookTypeOK, StepsInOrder
    <3>2. \A i \in DOMAIN results : Fatal(i) => i = Len(results)
      BY DEF PlaybookInvariant, StepsInOrder
    <3> QED
      BY <3>1, <3>2
  <2>3. ASSUME NEW d \in isolations, d.n > 1
        PROVE  d.n = 2 /\ playbook[d.step].policy = "retry" /\ results[d.step].retried
    <3>1. d.n = 2
      BY <2>3 DEF PlaybookInvariant, PlaybookTypeOK
    <3> QED
      BY <1>4, <2>3, <3>1 DEF PlaybookInvariant, IsolationsOfSteps
  <2>4. \/ Collected = {}
        \/ \E s \in DOMAIN playbook, n \in 1..2 :
              Collected = [phase : ToSet(Agents), step : {s}, n : {n}]
    BY CollectedWhole DEF Whole
  <2>5. /\ outcome'.status = "completed" =>
             Len(results) = Len(playbook) /\ \A i \in DOMAIN results : ~Fatal(i)
        /\ outcome'.status = "aborted" => {i \in DOMAIN results : Fatal(i)} = {Len(results)}
    BY <1>2, <2>1, <2>2
  <2> QED
    BY <1>1, <1>2, <2>3, <2>4, <2>5 DEF PlaybookAccounts
<1> QED
  BY <1>6, <1>7, <1>8, <1>9 DEF PlaybookInvariant

LEMMA PlaybookRests ==
    ASSUME PlaybookInvariant,
           UNCHANGED <<playbook, playing, attempt, results, board, isolations, outcome>>,
           engaged' \in BOOLEAN
    PROVE  PlaybookInvariant'
<1>1. At' = At
  BY DEF At
<1>2. PlaybookTypeOK' /\ StepsInOrder'
  BY <1>1 DEF PlaybookInvariant, PlaybookTypeOK, StepsInOrder
<1>3. IsolationsOfSteps' /\ BoardOfAttempt' /\ ReportsWhole' /\ PlaybookAccounts'
  BY <1>1 DEF PlaybookInvariant, IsolationsOfSteps, BoardOfAttempt, ReportsWhole,
              PlaybookAccounts
<1> QED
  BY <1>2, <1>3 DEF PlaybookInvariant

LEMMA PlaybookStarts == PlaybookInit => PlaybookInvariant
<1> SUFFICES ASSUME PlaybookInit PROVE PlaybookInvariant
  OBVIOUS
<1>1. /\ Len(results) = 0 /\ DOMAIN results = {} /\ Len(playbook) = 0
      /\ attempt.n = 1 /\ attempt.agents = 0
  BY DEF PlaybookInit, FirstAttempt
<1>2. attempt \in [n : 1..2, agents : 0..3]
  BY DEF PlaybookInit, FirstAttempt
<1>3. outcome \in [status : {"none", "completed", "aborted"}, reports : SUBSET PhaseReport]
  BY DEF PlaybookInit, NoOutcome
<1>4. PlaybookTypeOK
  <2>1. results \in Seq([status : {"success", "failed"}, retried : BOOLEAN,
                        reports : SUBSET PhaseReport])
    BY DEF PlaybookInit
  <2>2. playbook \in Seq([type : STRING, policy : STRING])
    BY DEF PlaybookInit
  <2> QED
    BY <1>2, <1>3, <2>1, <2>2 DEF PlaybookInit, PlaybookTypeOK
<1>5. StepsInOrder /\ IsolationsOfSteps /\ ReportsWhole /\ PlaybookAccounts
  BY <1>1 DEF PlaybookInit, StepsInOrder, IsolationsOfSteps, ReportsWhole, PlaybookAccounts
<1>6. BoardOfAttempt
  <2>1. \A x : {[phase |-> Agents[k], step |-> x, n |-> 1] : k \in 1..0} = {}
    OBVIOUS
  <2> QED
    BY <1>1, <2>1 DEF PlaybookInit, BoardOfAttempt
<1> QED
  BY <1>4, <1>5, <1>6 DEF PlaybookInvariant

\* PlaybookInvariant (PlaybookEngine.execute and its step runners): every
\* step of the engine keeps the steps in order, every isolation with the
\* attempt it belongs to, and every step's reports whole or absent.
THEOREM PlaybookInvariantHolds == PlaybookSpec => []PlaybookInvariant
<1>1. PlaybookInvariant /\ [PlaybookNext]_playbookVars => PlaybookInvariant'
  <2> SUFFICES ASSUME PlaybookInvariant, [PlaybookNext]_playbookVars
               PROVE  PlaybookInvariant'
    OBVIOUS
  <2>1. ASSUME NEW alert \in PlaybookAlerts, FindPlaybook(alert)
        PROVE  PlaybookInvariant'
    BY <2>1, FindPlaybookKeeps
  <2>2. CASE IsolateHost
    BY <2>2, IsolateHostKeeps
  <2>3. ASSUME NEW raises \in BOOLEAN, Investigated(raises)
        PROVE  PlaybookInvariant'
    BY <2>3, InvestigatedKeeps
  <2>4. CASE Notify
    BY <2>4, PlainStepKeeps DEF Notify, InStep
  <2>5. CASE GenerateReport
    BY <2>5, PlainStepKeeps DEF GenerateReport, InStep
  <2>6. CASE PlaybookEnds
    BY <2>6, PlaybookEndsKeeps
  <2>7. CASE SwitchToggles
    BY <2>7, PlaybookRests DEF SwitchToggles
  <2>8. CASE UNCHANGED playbookVars
    <3>1. engaged' \in BOOLEAN
      BY <2>8 DEF playbookVars, PlaybookInvariant, PlaybookTypeOK
    <3> QED
      BY <2>8, <3>1, PlaybookRests DEF playbookVars
  <2> QED
    BY <2>1, <2>2, <2>3, <2>4, <2>5, <2>6, <2>7, <2>8 DEF PlaybookNext
<1> QED
  BY <1>1, PlaybookStarts, PTL DEF PlaybookSpec

\* PlaybookAccounts (PlaybookEngine.execute, _run_playbook's run_complete): a
\* finished playbook's outcome accounts for its steps, no step isolates a
\* host twice unless it is a retry, and the synthesis rests on one whole
\* investigation or on none.
THEOREM PlaybookTheorem == PlaybookSpec => []PlaybookAccounts
<1>1. PlaybookInvariant => PlaybookAccounts
  BY DEF PlaybookInvariant
<1> QED
  BY <1>1, PlaybookInvariantHolds, PTL

-----------------------------------------------------------------------------
(* Rules and the campaigns that test them *)

Step(n, i) == Campaigns[n][i]

LEMMA CampaignSteps ==
    ASSUME NEW n \in DOMAIN Campaigns
    PROVE  /\ IsFiniteSet(DOMAIN Campaigns[n])
           /\ \A i \in DOMAIN Campaigns[n] : /\ Step(n, i).technique \in STRING
                                             /\ Step(n, i).technique \in Techniques
                                             /\ DOMAIN Step(n, i).event # {}
           /\ \A i \in DOMAIN Campaigns[n] : \A f \in DOMAIN Step(n, i).event :
                 /\ f \in STRING /\ Step(n, i).event[f] \in Value
                 /\ Step(n, i).event[f].kind # "none"
<1>1. Len(Campaigns[n]) \in Nat /\ DOMAIN Campaigns[n] = 1..Len(Campaigns[n])
  BY SelfPlayAssumption
<1>2. IsFiniteSet(DOMAIN Campaigns[n])
  BY <1>1, FS_Interval
<1>3. \A i \in DOMAIN Campaigns[n] : Step(n, i).technique \in Techniques
  BY DEF Techniques, ToSet, Step
<1> QED
  BY <1>2, <1>3, SelfPlayAssumption DEF Step

LEMMA OneStep ==
    ASSUME NEW n \in DOMAIN Campaigns, NEW i \in DOMAIN Campaigns[n],
           NEW m \in DOMAIN Campaigns, NEW j \in DOMAIN Campaigns[m],
           Step(n, i).technique = Step(m, j).technique
    PROVE  n = m /\ i = j
  BY SelfPlayAssumption DEF Step

\* An enabled draft matches the event it was filed for.
LEMMA DraftCatches ==
    ASSUME NEW n \in DOMAIN Campaigns, NEW i \in DOMAIN Campaigns[n],
           NEW r, r.enabled, DraftOfStep(r, Step(n, i))
    PROVE  RuleMatches(r, Step(n, i).event)
<1> DEFINE event == Step(n, i).event
<1>1. r.mode = "all" /\ r.conditions = DraftConditions(event)
  BY DEF DraftOfStep
<1>2. /\ DOMAIN event # {}
      /\ \A f \in DOMAIN event : event[f] \in Value /\ event[f].kind # "none"
  BY CampaignSteps
<1> HIDE DEF event
<1>3. r.conditions # {}
  BY <1>1, <1>2 DEF DraftConditions
<1>4. ASSUME NEW c \in r.conditions PROVE Holds(c, event)
  <2>1. PICK f \in DOMAIN event :
            c = [field |-> f, op |-> DraftOp(event[f]), value |-> event[f]]
    BY <1>1 DEF DraftConditions
  <2>2. c.field = f /\ c.op = DraftOp(event[f]) /\ c.value = event[f]
    BY <2>1
  <2>3. Actual(event, c.field) = event[f]
    BY <2>2 DEF Actual
  <2>4. event[f] # Absent /\ event[f].v \in Int
    BY <1>2 DEF Absent, Value
  <2>5. CASE c.op = "gte"
    BY <2>2, <2>3, <2>4, <2>5 DEF Holds, Compares, Compared
  <2>6. CASE c.op = "equals"
    BY <2>2, <2>3, <2>6 DEF Holds
  <2> QED
    BY <2>2, <2>5, <2>6 DEF DraftOp
<1> QED
  BY <1>1, <1>3, <1>4 DEF RuleMatches, Evaluates, event

LEMMA WrittenCatches ==
    ASSUME RulesCatch, NEW n \in DOMAIN Campaigns, NEW i \in DOMAIN Campaigns[n],
           NEW r, r.enabled, Written(r), r.technique = Step(n, i).technique
    PROVE  RuleMatches(r, Step(n, i).event)
<1>1. PICK w \in VendoredRules \cup AuthoredRules : r = w \/ r = [w EXCEPT !.enabled = TRUE]
  BY DEF Written
<1>2. w \in Rule
  BY SelfPlayAssumption
<1>3. w.technique = r.technique /\ r = [w EXCEPT !.enabled = TRUE]
  <2>1. CASE r = [w EXCEPT !.enabled = TRUE]
    BY <1>2, <2>1 DEF Rule
  <2>2. CASE r = w
    <3>1. w.enabled = TRUE
      BY <1>2, <2>2 DEF Rule
    <3>2. [w EXCEPT !.enabled = TRUE] = w
      BY <1>2, <3>1 DEF Rule
    <3> QED
      BY <2>2, <3>2
  <2> QED
    BY <1>1, <2>1, <2>2
<1> QED
  BY <1>3 DEF RulesCatch, Step

\* A draft's identity has the technique and a number not given before.
LEMMA DraftTyped ==
    ASSUME SelfPlayTypeOK, NEW n \in DOMAIN Campaigns, NEW i \in DOMAIN Campaigns[n]
    PROVE  LET d == Draft(Step(n, i))
               t == Step(n, i).technique
           IN  /\ d \in Rule /\ d.technique = t /\ d.enabled = FALSE /\ d.mode = "all"
               /\ d.id = <<t, drafts[t] + 1>> /\ d.conditions = DraftConditions(Step(n, i).event)
               /\ drafts[t] \in Nat
<1> DEFINE t == Step(n, i).technique
           k == drafts[t]
           event == Step(n, i).event
           d == Draft(Step(n, i))
<1>1. t \in STRING /\ t \in Techniques /\ k \in Nat
  BY CampaignSteps DEF SelfPlayTypeOK
<1>2. \A f \in DOMAIN event : f \in STRING /\ event[f] \in Value
  BY CampaignSteps
<1>3. d = [id |-> <<t, k + 1>>, technique |-> t, enabled |-> FALSE, mode |-> "all",
           conditions |-> DraftConditions(event)]
  BY DEF Draft
<1> HIDE DEF t, k, event, d
<1>4. DraftConditions(event) \in SUBSET Condition
  <2> SUFFICES ASSUME NEW f \in DOMAIN event
      PROVE  [field |-> f, op |-> DraftOp(event[f]), value |-> event[f]] \in Condition
    BY DEF DraftConditions
  <2>1. DraftOp(event[f]) \in Ops
    BY DEF DraftOp, Ops, Compared
  <2> DEFINE op == DraftOp(event[f])
             value == event[f]
  <2>2. f \in STRING /\ value \in Value /\ op \in Ops
    BY <1>2, <2>1
  <2> HIDE DEF op, value
  <2>3. [field |-> f, op |-> op, value |-> value] \in [field : STRING, op : Ops, value : Value]
    BY <2>2, Zenon
  <2> QED
    BY <2>3 DEF Condition, op, value
<1>5. <<t, k + 1>> \in STRING \X Nat
  <2> DEFINE m == k + 1
  <2>0. k \in Nat /\ t \in STRING
    BY <1>1
  <2>1. m \in Nat
    BY <2>0
  <2> HIDE DEF m
  <2>2. <<t, m>> \in STRING \X Nat
    BY <2>0, <2>1
  <2> QED
    BY <2>2 DEF m
<1>6. d \in Rule
  BY <1>1, <1>3, <1>4, <1>5 DEF Rule
<1>7. /\ d.technique = t /\ d.enabled = FALSE /\ d.mode = "all"
      /\ d.id = <<t, k + 1>> /\ d.conditions = DraftConditions(event)
  BY <1>3
<1> QED
  BY <1>1, <1>6, <1>7 DEF t, k, event, d

\* No rule on disk has the identity of the next draft.
LEMMA DraftIsNew ==
    ASSUME SelfPlayInvariant, NEW r \in rules,
           NEW n \in DOMAIN Campaigns, NEW i \in DOMAIN Campaigns[n]
    PROVE  r.id # <<Step(n, i).technique, drafts[Step(n, i).technique] + 1>>
<1> DEFINE t == Step(n, i).technique
           k == drafts[t]
<1>1. k \in Nat
  BY DraftTyped DEF SelfPlayInvariant
<1> HIDE DEF t, k
<1> SUFFICES ASSUME r.id = <<t, k + 1>> PROVE FALSE
  BY DEF t, k
<1>2. r.id[1] = t /\ r.id[2] = k + 1
  OBVIOUS
<1>3. CASE Written(r)
  <2>1. PICK w \in VendoredRules \cup AuthoredRules : r = w \/ r = [w EXCEPT !.enabled = TRUE]
    BY <1>3 DEF Written
  <2>2. w \in Rule /\ w.id[2] = 0
    BY SelfPlayAssumption
  <2>3. r.id = w.id
    BY <2>1, <2>2 DEF Rule
  <2> QED
    BY <1>1, <1>2, <2>2, <2>3
<1>4. ASSUME NEW m \in DOMAIN Campaigns, NEW j \in DOMAIN Campaigns[m],
             DraftOfStep(r, Campaigns[m][j])
      PROVE  FALSE
  <2>1. Campaigns[m][j].technique = t /\ r.id[2] \in 1..drafts[t]
    BY <1>2, <1>4 DEF DraftOfStep
  <2> QED
    BY <1>1, <1>2, <2>1 DEF k
<1> QED
  BY <1>3, <1>4 DEF SelfPlayInvariant, RulesAccounted

\* A campaign files at most one draft per technique, and counts it.
LEMMA FiledCounted ==
    ASSUME SelfPlayInvariant, NEW n \in DOMAIN Campaigns,
           NEW chosen \in SUBSET (DOMAIN Campaigns[n]), NEW filed,
           filed = {Draft(Step(n, i)) : i \in chosen},
           drafts' = [t \in DOMAIN drafts |->
                        drafts[t] + Cardinality({d \in filed : d.technique = t})]
    PROVE  /\ drafts' \in [Techniques -> Nat]
           /\ \A t \in Techniques : drafts'[t] >= drafts[t]
           /\ \A i \in chosen : drafts'[Step(n, i).technique] >= drafts[Step(n, i).technique] + 1
<1>1. IsFiniteSet(filed)
  <2>1. IsFiniteSet(chosen)
    BY CampaignSteps, FS_Subset
  <2> DEFINE f == [i \in chosen |-> Draft(Step(n, i))]
  <2>2. f \in Surjection(chosen, filed)
    <3>1. filed = {f[i] : i \in chosen}
      OBVIOUS
    <3>2. f \in [chosen -> filed]
      OBVIOUS
    <3> HIDE DEF f
    <3> QED
      BY <3>1, <3>2 DEF Surjection
  <2> HIDE DEF f
  <2> QED
    BY <2>1, <2>2, FS_Surjection
<1>2. ASSUME NEW t \in Techniques
      PROVE  /\ Cardinality({d \in filed : d.technique = t}) \in Nat
             /\ {d \in filed : d.technique = t} # {} =>
                    Cardinality({d \in filed : d.technique = t}) # 0
  <2> DEFINE own == {d \in filed : d.technique = t}
  <2>1. own \in SUBSET filed
    OBVIOUS
  <2> HIDE DEF own
  <2>2. IsFiniteSet(own)
    BY <1>1, <2>1, FS_Subset
  <2>3. Cardinality(own) \in Nat /\ (Cardinality(own) = 0 <=> own = {})
    BY <2>2, FS_CardinalityType, FS_EmptySet
  <2> QED
    BY <2>3 DEF own
<1>3. drafts \in [Techniques -> Nat] /\ DOMAIN drafts = Techniques
      /\ \A t \in Techniques : drafts[t] \in Nat
  BY DEF SelfPlayInvariant, SelfPlayTypeOK
<1>4. ASSUME NEW t \in Techniques
      PROVE  drafts'[t] \in Nat /\ drafts'[t] >= drafts[t]
  BY <1>2, <1>3
<1>5. ASSUME NEW i \in chosen
      PROVE  drafts'[Step(n, i).technique] >= drafts[Step(n, i).technique] + 1
  <2> DEFINE t == Step(n, i).technique
             c == Cardinality({d \in filed : d.technique = t})
  <2>1. i \in DOMAIN Campaigns[n] /\ t \in Techniques
    BY CampaignSteps
  <2>2. Draft(Step(n, i)) \in filed /\ Draft(Step(n, i)).technique = t
    BY <2>1, DraftTyped DEF SelfPlayInvariant
  <2>3. c \in Nat /\ c # 0
    BY <1>2, <2>1, <2>2
  <2>4. drafts'[t] = drafts[t] + c /\ drafts[t] \in Nat
    BY <1>3, <2>1
  <2> HIDE DEF t, c
  <2>5. drafts'[t] >= drafts[t] + 1
    BY <2>3, <2>4
  <2> QED
    BY <2>5 DEF t
<1>6. drafts' \in [Techniques -> Nat]
  BY <1>3, <1>4
<1> QED
  BY <1>4, <1>5, <1>6

\* What is filed is a draft of its step, with a number of its own.
LEMMA FiledAccounted ==
    ASSUME SelfPlayInvariant, NEW n \in DOMAIN Campaigns,
           NEW chosen \in SUBSET (DOMAIN Campaigns[n]), NEW filed,
           filed = {Draft(Step(n, i)) : i \in chosen},
           rules' = rules \cup filed,
           drafts' = [t \in DOMAIN drafts |->
                        drafts[t] + Cardinality({d \in filed : d.technique = t})]
    PROVE  /\ rules' \subseteq Rule /\ drafts' \in [Techniques -> Nat]
           /\ RulesAccounted'
<1>1. /\ drafts' \in [Techniques -> Nat] /\ drafts \in [Techniques -> Nat]
      /\ \A t \in Techniques : drafts'[t] >= drafts[t] /\ drafts'[t] \in Nat /\ drafts[t] \in Nat
      /\ \A i \in chosen : drafts'[Step(n, i).technique] >= drafts[Step(n, i).technique] + 1
  BY FiledCounted DEF SelfPlayInvariant, SelfPlayTypeOK
<1>2. \A d \in filed : \E i \in chosen : d = Draft(Step(n, i))
  OBVIOUS
<1>3. ASSUME NEW i \in chosen
      PROVE  /\ Draft(Step(n, i)) \in Rule
             /\ Draft(Step(n, i)).id = <<Step(n, i).technique, drafts[Step(n, i).technique] + 1>>
             /\ Draft(Step(n, i)).technique = Step(n, i).technique
             /\ Draft(Step(n, i)).mode = "all"
             /\ Draft(Step(n, i)).conditions = DraftConditions(Step(n, i).event)
             /\ Step(n, i).technique \in Techniques
  BY DraftTyped, CampaignSteps DEF SelfPlayInvariant
<1>4. rules' \subseteq Rule
  <2>1. filed \subseteq Rule
    BY <1>2, <1>3
  <2> QED
    BY <2>1 DEF SelfPlayInvariant, SelfPlayTypeOK
<1>5. ASSUME NEW r \in rules'
      PROVE  \/ Written(r)
             \/ \E m \in DOMAIN Campaigns : \E j \in DOMAIN Campaigns[m] :
                   DraftOfStep(r, Campaigns[m][j])'
  <2>1. CASE r \in rules
    <3>1. ASSUME NEW m \in DOMAIN Campaigns, NEW j \in DOMAIN Campaigns[m],
                 DraftOfStep(r, Campaigns[m][j])
          PROVE  DraftOfStep(r, Campaigns[m][j])'
      <4> DEFINE t == Campaigns[m][j].technique
      <4>1. t \in Techniques
        BY CampaignSteps DEF Step
      <4>2. r.id[2] \in 1..drafts[t]
        BY <3>1 DEF DraftOfStep
      <4>3. drafts'[t] >= drafts[t] /\ drafts'[t] \in Nat /\ drafts[t] \in Nat
        BY <1>1, <4>1
      <4>4. r.id[2] \in 1..drafts'[t]
        BY <4>2, <4>3
      <4> QED
        BY <3>1, <4>4 DEF DraftOfStep
    <3> QED
      BY <2>1, <3>1 DEF SelfPlayInvariant, RulesAccounted
  <2>2. CASE r \in filed
    <3>1. PICK i \in chosen : r = Draft(Step(n, i))
      BY <1>2, <2>2
    <3> DEFINE t == Step(n, i).technique
    <3>2. /\ r.id = <<t, drafts[t] + 1>> /\ r.technique = t /\ r.mode = "all"
          /\ r.conditions = DraftConditions(Step(n, i).event)
          /\ t \in Techniques
      BY <1>3, <3>1
    <3>3. drafts[t] \in Nat /\ drafts'[t] \in Nat /\ drafts'[t] >= drafts[t] + 1
      BY <1>1, <3>2
    <3>4. r.id[1] = t /\ r.id[2] = drafts[t] + 1
      BY <3>2
    <3>5. r.id[2] \in 1..drafts'[t]
      BY <3>3, <3>4
    <3>6. DraftOfStep(r, Campaigns[n][i])'
      BY <3>2, <3>4, <3>5 DEF DraftOfStep, Step
    <3> QED
      BY <3>6
  <2> QED
    BY <2>1, <2>2
<1>6. ASSUME NEW q \in rules', NEW r \in rules', q.id = r.id
      PROVE  q = r
  <2>1. CASE q \in rules /\ r \in rules
    BY <1>6, <2>1 DEF SelfPlayInvariant, RulesAccounted
  <2>2. ASSUME NEW x \in rules, NEW d \in filed PROVE x.id # d.id
    <3>1. PICK i \in chosen : d = Draft(Step(n, i))
      BY <1>2
    <3>2. d.id = <<Step(n, i).technique, drafts[Step(n, i).technique] + 1>>
      BY <1>3, <3>1
    <3> QED
      BY <3>2, DraftIsNew
  <2>3. CASE q \in filed /\ r \in filed
    <3>1. PICK i \in chosen : q = Draft(Step(n, i))
      BY <1>2, <2>3
    <3>2. PICK j \in chosen : r = Draft(Step(n, j))
      BY <1>2, <2>3
    <3>3. q.id[1] = Step(n, i).technique /\ r.id[1] = Step(n, j).technique
      BY <1>3, <3>1, <3>2
    <3>4. i = j
      BY <1>6, <3>3, OneStep
    <3> QED
      BY <3>1, <3>2, <3>4
  <2> QED
    BY <1>6, <2>1, <2>2, <2>3
<1>7. RulesAccounted'
  BY <1>5, <1>6 DEF RulesAccounted, Written
<1> QED
  BY <1>1, <1>4, <1>7

LEMMA RunCampaignKeeps ==
    ASSUME RulesCatch, SelfPlayInvariant, NEW n \in DOMAIN Campaigns, RunCampaign(n)
    PROVE  SelfPlayInvariant'
<1> DEFINE bad == {i \in DOMAIN Campaigns[n] : \E r \in rules : RuleRaises(r, Campaigns[n][i].event)}
           reached == {i \in DOMAIN Campaigns[n] : \A j \in bad : i < j}
           missed == {i \in reached : MatchEvent(rules, Campaigns[n][i].event) = {}}
<1>1. PICK unwritten \in SUBSET missed :
        LET filed == {Draft(Campaigns[n][i]) : i \in missed \ unwritten}
        IN  /\ rules' = rules \cup filed
            /\ drafts' = [t \in DOMAIN drafts |->
                            drafts[t] + Cardinality({d \in filed : d.technique = t})]
            /\ campaign' =
                 IF bad # {} THEN [NoCampaign EXCEPT !.name = n, !.status = "404"]
                 ELSE [name |-> n, status |-> "ok",
                       detected |-> [i \in DOMAIN Campaigns[n] |->
                          {r.id : r \in MatchEvent(rules, Campaigns[n][i].event)}],
                       filed |-> {d.id : d \in filed}]
  BY DEF RunCampaign
<1> DEFINE chosen == missed \ unwritten
           filed == {Draft(Step(n, i)) : i \in chosen}
<1>2. inForce' = rules /\ runs' = runs + 1 /\ UNCHANGED <<singleton, reviews>>
  BY DEF RunCampaign
<1>3. chosen \in SUBSET (DOMAIN Campaigns[n])
  OBVIOUS
<1>4. /\ rules' = rules \cup filed
      /\ drafts' = [t \in DOMAIN drafts |->
                      drafts[t] + Cardinality({d \in filed : d.technique = t})]
  BY <1>1 DEF Step
<1>5. rules' \subseteq Rule /\ drafts' \in [Techniques -> Nat] /\ RulesAccounted'
  <2> HIDE DEF chosen
  <2> QED
    BY <1>3, <1>4, FiledAccounted
<1>6. CASE bad # {}
  <2>1. campaign'.status = "404"
    BY <1>1, <1>6 DEF NoCampaign
  <2>2. CoverageHonest'
    BY <2>1 DEF CoverageHonest
  <2>3. SelfPlayTypeOK'
    BY <1>2, <1>5, <2>1 DEF SelfPlayInvariant, SelfPlayTypeOK
  <2> QED
    BY <1>5, <2>2, <2>3 DEF SelfPlayInvariant
<1>7. CASE bad = {}
  <2>1. /\ campaign'.status = "ok" /\ campaign'.name = n
        /\ campaign'.detected = [i \in DOMAIN Campaigns[n] |->
                                   {r.id : r \in MatchEvent(rules, Step(n, i).event)}]
        /\ campaign'.filed = {d.id : d \in filed}
    BY <1>1, <1>7 DEF Step
  <2>2. \A i \in chosen : MatchEvent(rules, Step(n, i).event) = {}
    BY DEF Step
  <2> HIDE DEF chosen
  <2>3. ASSUME NEW x \in campaign'.filed
        PROVE  \E i \in chosen : x = <<Step(n, i).technique, drafts[Step(n, i).technique] + 1>>
    <3>1. PICK d \in filed : x = d.id
      BY <2>1, <2>3
    <3>2. PICK i \in chosen : d = Draft(Step(n, i))
      OBVIOUS
    <3>3. i \in DOMAIN Campaigns[n]
      BY <1>3
    <3>4. Draft(Step(n, i)).id =
            <<Step(n, i).technique, drafts[Step(n, i).technique] + 1>>
      BY <3>3, DraftTyped DEF SelfPlayInvariant
    <3> QED
      BY <3>1, <3>2, <3>4
  <2> HIDE DEF filed
  <2>4. ASSUME NEW i \in DOMAIN Campaigns[n]
        PROVE  LET caught == campaign'.detected[i]
                   mine == {r \in inForce' : r.enabled /\ r.technique = Campaigns[n][i].technique}
               IN  /\ \A r \in inForce' : r.id \in caught => r.enabled
                   /\ mine # {} => caught # {}
                   /\ caught # {} => \A k \in 1..MaxCampaigns :
                                       <<Campaigns[n][i].technique, k>> \notin campaign'.filed
                   /\ caught \cap campaign'.filed = {}
    <3> DEFINE caught == campaign'.detected[i]
               event == Step(n, i).event
               t == Step(n, i).technique
    <3>1. caught = {r.id : r \in MatchEvent(rules, event)}
      BY <2>1
    <3>2. ASSUME NEW r \in rules, r.id \in caught PROVE r.enabled
      <4>1. PICK q \in MatchEvent(rules, event) : q.id = r.id
        BY <3>1, <3>2
      <4>2. q \in rules /\ q.enabled
        BY <4>1 DEF MatchEvent, RuleMatches, Evaluates
      <4> QED
        BY <4>1, <4>2 DEF SelfPlayInvariant, RulesAccounted
    <3>3. ASSUME NEW r \in rules, r.enabled, r.technique = t PROVE caught # {}
      <4>1. CASE Written(r)
        <5>1. RuleMatches(r, event)
          BY <3>3, <4>1, WrittenCatches
        <5> QED
          BY <3>1, <5>1 DEF MatchEvent
      <4>2. ASSUME NEW m \in DOMAIN Campaigns, NEW j \in DOMAIN Campaigns[m],
                   DraftOfStep(r, Campaigns[m][j])
            PROVE  caught # {}
        <5>1. Step(m, j).technique = Step(n, i).technique /\ DraftOfStep(r, Step(m, j))
          BY <3>3, <4>2 DEF DraftOfStep, Step
        <5>2. m = n /\ j = i
          BY <5>1, OneStep
        <5>3. RuleMatches(r, event)
          BY <3>3, <5>1, <5>2, DraftCatches
        <5> QED
          BY <3>1, <5>3 DEF MatchEvent
      <4> QED
        BY <4>1, <4>2 DEF SelfPlayInvariant, RulesAccounted
    <3>4. ASSUME caught # {}, NEW k \in 1..MaxCampaigns, <<t, k>> \in campaign'.filed
          PROVE  FALSE
      <4>1. PICK j \in chosen :
                <<t, k>> = <<Step(n, j).technique, drafts[Step(n, j).technique] + 1>>
        BY <2>3, <3>4
      <4>2. Step(n, j).technique = t /\ j \in DOMAIN Campaigns[n]
        BY <1>3, <4>1
      <4>3. j = i
        BY <4>2, OneStep
      <4> QED
        BY <2>2, <3>1, <3>4, <4>3
    <3>5. ASSUME NEW x \in caught, x \in campaign'.filed PROVE FALSE
      <4>1. PICK q \in rules : q.id = x
        BY <3>1 DEF MatchEvent
      <4>2. PICK j \in chosen :
                x = <<Step(n, j).technique, drafts[Step(n, j).technique] + 1>>
        BY <2>3, <3>5
      <4> QED
        BY <1>3, <4>1, <4>2, DraftIsNew
    <3> QED
      BY <1>2, <3>2, <3>3, <3>4, <3>5 DEF Step
  <2>5. CoverageHonest'
    BY <2>1, <2>4 DEF CoverageHonest
  <2>6. SelfPlayTypeOK'
    BY <1>2, <1>5, <2>1 DEF SelfPlayInvariant, SelfPlayTypeOK
  <2> QED
    BY <1>5, <2>5, <2>6 DEF SelfPlayInvariant
<1> QED
  BY <1>6, <1>7

\* An added or changed rule is accounted for, and its name is its own.
LEMMA RulesChange ==
    ASSUME SelfPlayInvariant, NEW kept \in SUBSET rules, NEW added \in SUBSET Rule,
           rules' = kept \cup added, added = {} \/ \E a : added = {a},
           \A a \in added : /\ \A q \in kept : q.id # a.id
                            /\ \/ Written(a)
                               \/ \E n \in DOMAIN Campaigns : \E i \in DOMAIN Campaigns[n] :
                                     DraftOfStep(a, Campaigns[n][i]),
           reviews' \in Nat, UNCHANGED <<singleton, campaign, inForce, drafts, runs>>
    PROVE  SelfPlayInvariant'
<1>1. SelfPlayTypeOK'
  BY DEF SelfPlayInvariant, SelfPlayTypeOK
<1>2. \A r \in rules' : \/ Written(r)
                        \/ \E n \in DOMAIN Campaigns : \E i \in DOMAIN Campaigns[n] :
                              DraftOfStep(r, Campaigns[n][i])
  BY DEF SelfPlayInvariant, RulesAccounted
<1>3. \A q, r \in rules' : q.id = r.id => q = r
  BY DEF SelfPlayInvariant, RulesAccounted
<1>4. RulesAccounted'
  BY <1>2, <1>3 DEF RulesAccounted, Written, DraftOfStep
<1>5. CoverageHonest'
  BY DEF SelfPlayInvariant, CoverageHonest
<1> QED
  BY <1>1, <1>4, <1>5 DEF SelfPlayInvariant

LEMMA AuthorKeeps ==
    ASSUME SelfPlayInvariant, NEW r \in AuthoredRules, Author(r)
    PROVE  SelfPlayInvariant'
<1>1. /\ rules' = rules \cup {r} /\ reviews' = reviews + 1 /\ \A q \in rules : q.id # r.id
      /\ UNCHANGED <<singleton, campaign, inForce, drafts, runs>>
  BY DEF Author
<1>2. r \in Rule /\ Written(r)
  BY SelfPlayAssumption DEF Written
<1>3. reviews' \in Nat
  BY <1>1 DEF SelfPlayInvariant, SelfPlayTypeOK
<1>4. rules \in SUBSET rules /\ {r} \in SUBSET Rule
  BY <1>2
<1> QED
  BY <1>1, <1>2, <1>3, <1>4, RulesChange

LEMMA ReviewKeeps ==
    ASSUME SelfPlayInvariant, NEW r \in rules, Review(r)
    PROVE  SelfPlayInvariant'
<1>1. /\ reviews' = reviews + 1 /\ UNCHANGED <<singleton, campaign, inForce, drafts, runs>>
      /\ reviews' \in Nat
  BY DEF Review, SelfPlayInvariant, SelfPlayTypeOK
<1>2. CASE rules' = rules \ {r}
  <2>1. rules' = (rules \ {r}) \cup {} /\ rules \ {r} \in SUBSET rules /\ {} \in SUBSET Rule
    BY <1>2
  <2> QED
    BY <1>1, <2>1, RulesChange
<1>3. CASE rules' = (rules \ {r}) \cup {[r EXCEPT !.enabled = TRUE]}
  <2> DEFINE a == [r EXCEPT !.enabled = TRUE]
  <2>1. r \in Rule
    BY DEF SelfPlayInvariant, SelfPlayTypeOK
  <2>2. /\ a \in Rule /\ a.id = r.id /\ a.technique = r.technique /\ a.mode = r.mode
        /\ a.conditions = r.conditions
    BY <2>1 DEF Rule
  <2>3. Written(r) => Written(a)
    <3> SUFFICES ASSUME Written(r) PROVE Written(a)
      OBVIOUS
    <3>1. PICK w \in VendoredRules \cup AuthoredRules : r = w \/ r = [w EXCEPT !.enabled = TRUE]
      BY DEF Written
    <3>2. w \in Rule
      BY SelfPlayAssumption
    <3>3. a = [w EXCEPT !.enabled = TRUE]
      BY <3>1, <3>2 DEF Rule
    <3> QED
      BY <3>3 DEF Written
  <2>4. \A step : DraftOfStep(r, step) => DraftOfStep(a, step)
    BY <2>2 DEF DraftOfStep
  <2>5. \A q \in rules \ {r} : q.id # a.id
    BY <2>2 DEF SelfPlayInvariant, RulesAccounted
  <2>6. \/ Written(a)
        \/ \E n \in DOMAIN Campaigns : \E i \in DOMAIN Campaigns[n] :
              DraftOfStep(a, Campaigns[n][i])
    BY <2>3, <2>4 DEF SelfPlayInvariant, RulesAccounted
  <2>7. rules' = (rules \ {r}) \cup {a}
    BY <1>3
  <2> HIDE DEF a
  <2>8. rules \ {r} \in SUBSET rules /\ {a} \in SUBSET Rule
    BY <2>2
  <2> QED
    BY <1>1, <2>5, <2>6, <2>7, <2>8, RulesChange
<1> QED
  BY <1>2, <1>3 DEF Review

LEMMA SelfPlayRests ==
    ASSUME SelfPlayInvariant, UNCHANGED <<rules, campaign, inForce, drafts, runs, reviews>>,
           singleton' \subseteq Rule
    PROVE  SelfPlayInvariant'
<1>1. SelfPlayTypeOK' /\ CoverageHonest'
  BY DEF SelfPlayInvariant, SelfPlayTypeOK, CoverageHonest
<1>2. RulesAccounted'
  BY DEF SelfPlayInvariant, RulesAccounted, Written, DraftOfStep
<1> QED
  BY <1>1, <1>2 DEF SelfPlayInvariant

LEMMA SelfPlayStarts == SelfPlayInit => SelfPlayInvariant
<1> SUFFICES ASSUME SelfPlayInit PROVE SelfPlayInvariant
  OBVIOUS
<1>1. VendoredRules \subseteq Rule /\ \A q, r \in VendoredRules : q.id = r.id => q = r
  BY SelfPlayAssumption
<1>2. campaign.status = "none"
  BY DEF SelfPlayInit, NoCampaign
<1>3. drafts \in [Techniques -> Nat]
  BY DEF SelfPlayInit
<1>4. SelfPlayTypeOK
  BY <1>1, <1>2, <1>3 DEF SelfPlayInit, SelfPlayTypeOK
<1>5. RulesAccounted
  BY <1>1 DEF SelfPlayInit, RulesAccounted, Written
<1>6. CoverageHonest
  BY <1>2 DEF CoverageHonest
<1> QED
  BY <1>4, <1>5, <1>6 DEF SelfPlayInvariant

\* SelfPlayInvariant (SelfPlayCampaign and the rule files), for rules that
\* match the events of their techniques: every file is a rule somebody wrote
\* or the draft of a step, under a name of its own.
THEOREM SelfPlayInvariantHolds == RulesCatch => (SelfPlaySpec => []SelfPlayInvariant)
<1>1. RulesCatch /\ SelfPlayInvariant /\ [SelfPlayNext]_selfPlayVars => SelfPlayInvariant'
  <2> SUFFICES ASSUME RulesCatch, SelfPlayInvariant, [SelfPlayNext]_selfPlayVars
               PROVE  SelfPlayInvariant'
    OBVIOUS
  <2>1. ASSUME NEW n \in DOMAIN Campaigns, RunCampaign(n)
        PROVE  SelfPlayInvariant'
    BY <2>1, RunCampaignKeeps
  <2>2. ASSUME NEW r \in rules, Review(r)
        PROVE  SelfPlayInvariant'
    BY <2>2, ReviewKeeps
  <2>3. ASSUME NEW r \in AuthoredRules, Author(r)
        PROVE  SelfPlayInvariant'
    BY <2>3, AuthorKeeps
  <2>4. CASE Restarts
    <3>1. rules \subseteq Rule
      BY DEF SelfPlayInvariant, SelfPlayTypeOK
    <3> QED
      BY <2>4, <3>1, SelfPlayRests DEF Restarts
  <2>5. CASE UNCHANGED selfPlayVars
    <3>1. singleton \subseteq Rule
      BY DEF SelfPlayInvariant, SelfPlayTypeOK
    <3> QED
      BY <2>5, <3>1, SelfPlayRests DEF selfPlayVars
  <2> QED
    BY <2>1, <2>2, <2>3, <2>4, <2>5 DEF SelfPlayNext
<1> SUFFICES ASSUME RulesCatch PROVE SelfPlaySpec => []SelfPlayInvariant
  OBVIOUS
<1>2. SelfPlayInvariant /\ [SelfPlayNext]_selfPlayVars => SelfPlayInvariant'
  BY <1>1
<1> QED
  BY <1>2, SelfPlayStarts, PTL DEF SelfPlaySpec

\* CoverageHonest (SelfPlayCampaign.run_campaign): a campaign counts a
\* technique as caught for rules that were enabled and always for those, and
\* what it files is a gap and changes no result, over any campaigns, rules
\* that match the events of their techniques, reviews and restarts.
THEOREM CoverageTheorem == RulesCatch => (SelfPlaySpec => []CoverageHonest)
<1> SUFFICES ASSUME RulesCatch PROVE SelfPlaySpec => []CoverageHonest
  OBVIOUS
<1>1. SelfPlayInvariant => CoverageHonest
  BY DEF SelfPlayInvariant
<1>2. SelfPlaySpec => []SelfPlayInvariant
  BY SelfPlayInvariantHolds
<1> QED
  BY <1>1, <1>2, PTL

=============================================================================
