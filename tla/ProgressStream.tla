--------------------------- MODULE ProgressStream ---------------------------
(***************************************************************************)
(* GET /investigate/{id}/stream of api/routes/orchestrator.py: a generator *)
(* polls a workflow's progress (services/temporal_client.py) and turns the *)
(* differences between two snapshots into events.                          *)
(*                                                                         *)
(* The workflow is reduced to the progress it shows: the assignments       *)
(* between two awaits of InvestigationWorkflow.run are one step, so        *)
(* "pending", "planning" and "approval_timed_out" are never seen.  The     *)
(* progress of a failed or cancelled workflow stays what it was.           *)
(***************************************************************************)
EXTENDS Integers, Sequences, FiniteSets

CONSTANTS
    MaxRounds,       \* bound on adaptive rounds and supervisor turns
    MaxReconnects        \* bound

\* A report's key; turn is the iteration a supervised report is numbered with.
Task(name, turn) == [name |-> name, turn |-> turn]
StaticPhases == <<{Task("triage", 0)}, {Task("evidence", 0), Task("discovery", 0)},
                  {Task("compression", 0)}, {Task("rca", 0)}, {Task("response", 0)}>>

VARIABLES
    shown,      \* InvestigationProgress: status, phase, listed, iteration, turns, reports
    mode,       \* "static", "supervised", or "none" before the first activation
    execution,  \* Temporal's view: "running", "completed", "failed"
    answering,  \* a worker answers queries
    stream,     \* the generator's locals, and how it ended
    told,       \* events sent: [plan, phases, tasks, rounds, asked], and
                \* whether the last snapshot was the workflow's own
    reconnects

streamVars == <<shown, mode, execution, answering, stream, told, reconnects>>

NothingTold == [plan |-> "none", phases |-> {}, tasks |-> {}, rounds |-> {}, asked |-> FALSE,
                whole |-> FALSE]
Fresh == [phase |-> 0, reports |-> {}, iteration |-> 0, status |-> "unknown",
          turns |-> 0, asked |-> FALSE, ended |-> "no"]
NothingShown == [status |-> "unknown", phase |-> 0, listed |-> 0, iteration |-> 0,
                 turns |-> 0, reports |-> {}]

StreamInit ==
    /\ shown = NothingShown /\ mode = "none" /\ execution = "running"
    /\ answering = TRUE /\ stream = Fresh /\ told = NothingTold /\ reconnects = 0

-----------------------------------------------------------------------------
(* The workflow, as its progress shows it *)

Show(update) == shown' = update /\ UNCHANGED <<answering, stream, told, reconnects>>
Working == execution = "running" /\ shown.status = "running"

Start(m) ==
    /\ mode = "none" /\ execution = "running"
    /\ mode' = m
    /\ Show([shown EXCEPT !.status = "running", !.phase = 1,
                          !.listed = IF m = "static" THEN Len(StaticPhases) ELSE 1])
    /\ UNCHANGED execution

\* After the last report: the gate, if the plan has actions, or the end.
Gate(progress) == {[progress EXCEPT !.status = s] : s \in {"pending_approval", "completed"}}

StaticPhaseDone ==
    LET with == shown.reports \cup StaticPhases[shown.phase]
        next == [shown EXCEPT !.reports = with, !.phase = @ + 1]
    IN  /\ mode = "static" /\ Working
        /\ \/ shown.phase # 5 /\ Show(next)
           \/ /\ shown.phase = 4 /\ shown.iteration < MaxRounds
              /\ Show([next EXCEPT !.phase = 2, !.iteration = @ + 1])
           \/ shown.phase = 5 /\ \E p \in Gate([shown EXCEPT !.reports = with]) : Show(p)
        /\ UNCHANGED <<mode, execution>>

\* The supervised loop alternates a decision and an activity: one turn is
\* shown more than there are iterations while the activity runs.
Deciding == Task("triage", 0) \in shown.reports /\ shown.turns = shown.iteration
NextPhase(progress) == [progress EXCEPT !.phase = @ + 1, !.listed = @ + 1]

SupervisedTriage ==
    /\ mode = "supervised" /\ Working /\ shown.reports = {}
    /\ Show([shown EXCEPT !.reports = {Task("triage", 0)}])
    /\ UNCHANGED <<mode, execution>>

SupervisedTurn ==
    /\ mode = "supervised" /\ Working /\ Deciding /\ shown.iteration < MaxRounds
    /\ \/ Show(NextPhase([shown EXCEPT !.turns = @ + 1]))
       \/ Show([shown EXCEPT !.turns = @ + 1, !.status = "completed"])   \* terminate_benign
    /\ UNCHANGED <<mode, execution>>

\* The report of a turn has the id of its iteration; the last turn finalizes.
SupervisedWork ==
    /\ mode = "supervised" /\ Working /\ shown.turns > shown.iteration
    /\ \/ Show([shown EXCEPT !.reports = @ \cup {Task("work", shown.turns)}, !.iteration = @ + 1])
       \/ \E p \in Gate([shown EXCEPT !.reports = @ \cup {Task("response", 0)}]) : Show(p)
    /\ UNCHANGED <<mode, execution>>

\* The loop ran out of iterations and the response is planned.
SupervisedExhausted ==
    /\ mode = "supervised" /\ Working /\ Deciding /\ shown.iteration = MaxRounds
    /\ \E p \in Gate(NextPhase([shown EXCEPT !.reports = @ \cup {Task("response", 0)}])) : Show(p)
    /\ UNCHANGED <<mode, execution>>

\* Approved, rejected, or timed out; executed or not, it completes.
Decided ==
    /\ execution = "running" /\ shown.status \in {"pending_approval", "executing_response"}
    /\ \/ shown.status = "pending_approval" /\ Show([shown EXCEPT !.status = "executing_response"])
       \/ Show([shown EXCEPT !.status = "completed"])
    /\ UNCHANGED <<mode, execution>>

\* Temporal closes the execution once the results were persisted, or an
\* activity used up its attempts, or it was cancelled while it worked or
\* waited for the approval.
Close ==
    /\ execution = "running"
    /\ \/ shown.status = "completed" /\ execution' = "completed"
       \/ shown.status \in {"unknown", "running", "pending_approval"} /\ execution' = "failed"
    /\ UNCHANGED <<shown, mode, answering, stream, told, reconnects>>

\* The worker stops, or starts again; nothing needs it once the execution is
\* closed, and it may then stay away.
WorkerStops ==
    /\ answering /\ answering' = FALSE
    /\ UNCHANGED <<shown, mode, execution, stream, told, reconnects>>
WorkerStarts ==
    /\ ~answering /\ answering' = TRUE
    /\ UNCHANGED <<shown, mode, execution, stream, told, reconnects>>

-----------------------------------------------------------------------------
(* temporal_client.get_investigation_status *)

Unknown == [NothingShown EXCEPT !.status = "unknown"]

\* Mutant: a query that fails is reported as such, whatever became of the workflow.
MutUnanswered == Unknown
\* The query failed: the result, if there is one, without reports or phases.
Unanswered ==
    IF execution = "completed" THEN [NothingShown EXCEPT !.status = "completed"] ELSE Unknown

\* A query fails without a worker, and now and then with one.
Snapshots == (IF answering /\ mode # "none" THEN {shown} ELSE {}) \cup {Unanswered}

-----------------------------------------------------------------------------
(* sse_poll *)

NewPlan(p) == p.status # "planning" /\ stream.status \in {"unknown", "planning"}
NewPhase(p) == p.phase > stream.phase /\ p.phase <= p.listed

\* Mutant: the terminal state is looked at before the reports.
MutAnnounced(p) == IF p.status = "completed" THEN {} ELSE p.reports \ stream.reports
Announced(p) == p.reports \ stream.reports

\* One turn of the loop on one snapshot.
PollProgress(p) ==
    /\ stream.ended = "no"
    /\ stream' = [stream EXCEPT
           !.status = p.status,
           !.turns = IF p.turns > @ THEN p.turns ELSE @,
           !.phase = IF NewPhase(p) THEN p.phase ELSE @,
           !.iteration = IF p.iteration > @ THEN p.iteration ELSE @,
           !.reports = @ \cup Announced(p),
           !.asked = @ \/ p.status = "pending_approval",
           !.ended = IF p.status = "completed" THEN "run_complete"
                     ELSE IF p.status = "failed" THEN "run_error" ELSE @]
    /\ told' = [told EXCEPT
           !.plan = IF ~NewPlan(p) THEN @ ELSE IF p.listed = 0 THEN "empty" ELSE "listed",
           !.phases = IF NewPhase(p) THEN @ \cup {p.phase} ELSE @,
           !.tasks = @ \cup Announced(p),
           !.rounds = IF p.iteration > stream.iteration THEN @ \cup {p.iteration} ELSE @,
           !.asked = @ \/ p.status = "pending_approval",
           !.whole = p.listed > 0]
    /\ UNCHANGED <<shown, mode, execution, answering, reconnects>>

\* The browser goes away and comes back: a generator with fresh locals.
Reconnect ==
    /\ stream.ended = "no" /\ reconnects < MaxReconnects
    /\ reconnects' = reconnects + 1 /\ stream' = Fresh /\ told' = NothingTold
    /\ UNCHANGED <<shown, mode, execution, answering>>

PollNow == \E p \in Snapshots : PollProgress(p)

StreamNext ==
    \/ \E m \in {"static", "supervised"} : Start(m)
    \/ StaticPhaseDone \/ SupervisedTriage \/ SupervisedTurn \/ SupervisedWork
    \/ SupervisedExhausted \/ Decided \/ Close \/ WorkerStops \/ WorkerStarts
    \/ PollNow \/ Reconnect

StreamSpec == StreamInit /\ [][StreamNext]_streamVars

-----------------------------------------------------------------------------
(***************************************************************************)
(* Properties                                                              *)
(***************************************************************************)

\* A stream that ended on a snapshot of the workflow told all of it, whatever
\* was unanswered before and however many changes one poll covered: every
\* report there ever was, a plan with phases, and the last round.
StreamTellsAll ==
    stream.ended = "run_complete" /\ told.whole =>
        /\ told.tasks = shown.reports
        /\ told.plan = "listed"
        /\ shown.iteration # 0 => shown.iteration \in told.rounds

\* The stream of a workflow that completed ends, even if no worker ever
\* answers a query again: the loop polls, and the result stands in.  (The
\* stream of a failed or cancelled workflow does not: its progress is never
\* "failed".)
StreamEnds == (execution = "completed") ~> (stream.ended # "no")

Tasks == [name : {"triage", "evidence", "discovery", "compression", "rca", "response", "work"},
          turn : Nat]
Statuses == {"unknown", "running", "pending_approval", "executing_response", "completed"}

StreamTypeOK ==
    /\ shown \in [status : Statuses, phase : Nat, listed : Nat, iteration : Nat,
                  turns : Nat, reports : SUBSET Tasks]
    /\ mode \in {"none", "static", "supervised"}
    /\ execution \in {"running", "completed", "failed"}
    /\ answering \in BOOLEAN
    /\ stream \in [phase : Nat, reports : SUBSET Tasks, iteration : Nat, status : Statuses,
                   turns : Nat, asked : BOOLEAN, ended : {"no", "run_complete"}]
    /\ told \in [plan : {"none", "empty", "listed"}, phases : SUBSET Nat,
                 tasks : SUBSET Tasks, rounds : SUBSET Nat, asked : BOOLEAN, whole : BOOLEAN]
    /\ reconnects \in Nat

\* What the progress shows before the workflow started, and the static phases.
ProgressShaped ==
    /\ mode = "none" <=> shown.status = "unknown"
    /\ mode # "none" => shown.listed > 0
    /\ mode = "static" => shown.phase \in 1..5

\* The generator is never ahead of the workflow, and what its locals hold
\* was told: a round only by the comparison that raised its own counter, the
\* phases by the poll that left the status "unknown", which another poll
\* without an answer may bring back.
StreamKeepsUp ==
    /\ told.tasks = stream.reports
    /\ stream.reports \subseteq shown.reports
    /\ stream.iteration <= shown.iteration
    /\ stream.iteration # 0 => stream.iteration \in told.rounds
    /\ stream.ended = "no" /\ stream.status # "unknown" => told.plan = "listed"

\* Nothing is shown after the snapshot that ended the stream.
EndedOnTheLast ==
    stream.ended = "run_complete" /\ told.whole => shown.status = "completed"

\* The inductive strengthening behind StreamTellsAll.
StreamInvariant ==
    StreamTypeOK /\ ProgressShaped /\ StreamKeepsUp /\ EndedOnTheLast /\ StreamTellsAll

=============================================================================
