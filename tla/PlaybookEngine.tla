--------------------------- MODULE PlaybookEngine ---------------------------
(***************************************************************************)
(* services/playbook_engine.py, and the playbook branch of                 *)
(* OrchestratorAgent._execute_stream_static: an alert that matches a       *)
(* trigger is handled by the steps of a playbook instead of the static     *)
(* plan.                                                                   *)
(*                                                                         *)
(* Every isolation makes a ResponseOrchestrator of its own: its action is  *)
(* critical and there is no callback, so the gate never holds it, and the  *)
(* kill switch of the orchestrator the other routes share is not looked    *)
(* at.  A skill is its outcome; each phase agent may raise.                *)
(***************************************************************************)
EXTENDS Integers, Sequences, SequencesExt, FiniteSets

CONSTANTS
    PlaybookFiles,   \* the files, in the order of their names:
                     \* [severities, tags, steps : Seq([type, policy])]
    PlaybookAlerts   \* [severity, tags]

ASSUME PlaybookAssumption ==
    \A k \in DOMAIN PlaybookFiles : PlaybookFiles[k].steps \in Seq([type : STRING, policy : STRING])

StepTypes == {"isolate_host", "investigate", "notify", "generate_report"}
Policies == {"abort", "continue", "retry"}
Agents == <<"triage", "evidence", "compression", "rca">>

VARIABLES
    playbook,   \* the steps being executed, <<>> when none matched
    playing,    \* "idle", "steps", "aborted", "done"; "static" when none matched
    attempt,    \* [n, agents]: attempts of the current step, agents done in this one
    results,    \* step_results: [status, retried, reports]
    board,      \* what the agents left on the blackboard: [phase, step, n]
    isolations, \* isolations executed: [step, n, engaged]
    engaged,    \* kill switch of the shared orchestrator
    outcome     \* run_complete: [status, reports]

playbookVars == <<playbook, playing, attempt, results, board, isolations, engaged, outcome>>

FirstAttempt == [n |-> 1, agents |-> 0]
NoOutcome == [status |-> "none", reports |-> {}]

\* PlaybookLoader: a file that does not validate is skipped.
Valid(file) == \A i \in DOMAIN file.steps :
                  file.steps[i].type \in StepTypes /\ file.steps[i].policy \in Policies
Loaded == {k \in DOMAIN PlaybookFiles : Valid(PlaybookFiles[k])}

\* An empty list of severities or tags matches every alert.
Matches(alert, trigger) ==
    /\ trigger.severities = {} \/ alert.severity \in trigger.severities
    /\ trigger.tags = {} \/ alert.tags \cap trigger.tags # {}
MatchingPlaybooks(alert) == {k \in Loaded : Matches(alert, PlaybookFiles[k])}

PlaybookInit ==
    /\ playbook = <<>> /\ playing = "idle" /\ attempt = FirstAttempt
    /\ results = <<>> /\ board = {} /\ isolations = {} /\ engaged = FALSE
    /\ outcome = NoOutcome

FindPlaybook(alert) ==
    /\ playing = "idle"
    /\ LET found == MatchingPlaybooks(alert)
       IN  \/ found = {} /\ playing' = "static" /\ UNCHANGED playbook
           \/ \E first \in found :
                 /\ \A k \in found : first <= k
                 /\ playing' = "steps" /\ playbook' = PlaybookFiles[first].steps
    /\ UNCHANGED <<attempt, results, board, isolations, engaged, outcome>>

At == Len(results) + 1
InStep(type) == playing = "steps" /\ At <= Len(playbook) /\ playbook[At].type = type

Retries(status) == status = "failed" /\ playbook[At].policy = "retry" /\ attempt.n = 1

\* The step ends, is tried again, or ends the playbook.
StepReturns(status, reports) ==
    /\ IF Retries(status)
       THEN attempt' = [n |-> attempt.n + 1, agents |-> 0] /\ UNCHANGED <<results, playing>>
       ELSE /\ results' = Append(results, [status |-> status, retried |-> attempt.n > 1,
                                           reports |-> reports])
            /\ attempt' = FirstAttempt
            /\ playing' = IF status = "failed" /\ playbook[At].policy = "abort"
                          THEN "aborted" ELSE "steps"
    /\ UNCHANGED <<playbook, engaged, outcome>>

\* _run_isolate_host: the host may be isolated also when the call failed.
IsolateHost ==
    /\ InStep("isolate_host")
    /\ isolations' = isolations \cup {[step |-> At, n |-> attempt.n, engaged |-> engaged]}
    /\ \E status \in {"success", "failed"} : StepReturns(status, {})
    /\ UNCHANGED board

\* Mutant: the reports of the agents that did run are returned.
MutReportsOnRaise == {r \in board : r.step = At}
ReportsOnRaise == {}

\* _run_investigate: one agent after the other; one that raises ends the
\* step and takes the reports with it, its work stays on the blackboard.
Investigated(raises) ==
    LET mine == [phase |-> Agents[attempt.agents + 1], step |-> At, n |-> attempt.n]
    IN  /\ InStep("investigate")
        /\ IF raises
           THEN StepReturns("failed", ReportsOnRaise) /\ UNCHANGED board
           ELSE /\ board' = board \cup {mine}
                /\ IF attempt.agents + 1 < Len(Agents)
                   THEN /\ attempt' = [attempt EXCEPT !.agents = @ + 1]
                        /\ UNCHANGED <<playbook, playing, results, engaged, outcome>>
                   ELSE StepReturns("success",
                            {r \in board' : r.step = At /\ r.n = attempt.n})
        /\ UNCHANGED isolations

Notify ==
    /\ InStep("notify")
    /\ \E status \in {"success", "failed"} : StepReturns(status, {})
    /\ UNCHANGED <<board, isolations>>

GenerateReport ==
    /\ InStep("generate_report")
    /\ StepReturns("success", {})
    /\ UNCHANGED <<board, isolations>>

\* all_reports: of two reports of one phase the later step's stays.
Collected ==
    LET told == UNION {results[i].reports : i \in DOMAIN results}
    IN  {r \in told : \A q \in told : q.phase = r.phase => q.step <= r.step}

\* Only now are the steps' events, the synthesis and run_complete sent.
PlaybookEnds ==
    /\ \/ playing = "aborted"
       \/ playing = "steps" /\ At > Len(playbook)
    /\ outcome' = [status |-> IF playing = "aborted" THEN "aborted" ELSE "completed",
                   reports |-> Collected]
    /\ playing' = "done"
    /\ UNCHANGED <<playbook, attempt, results, board, isolations, engaged>>

SwitchToggles ==
    /\ playing \in {"idle", "steps"}
    /\ engaged' = ~engaged
    /\ UNCHANGED <<playbook, playing, attempt, results, board, isolations, outcome>>

PlaybookNext ==
    \/ \E alert \in PlaybookAlerts : FindPlaybook(alert)
    \/ IsolateHost \/ (\E raises \in BOOLEAN : Investigated(raises))
    \/ Notify \/ GenerateReport \/ PlaybookEnds \/ SwitchToggles

PlaybookSpec == PlaybookInit /\ [][PlaybookNext]_playbookVars

-----------------------------------------------------------------------------
(***************************************************************************)
(* Properties                                                              *)
(***************************************************************************)

\* A finished run accounts for its playbook: completed means every step was
\* run and none that aborts failed, aborted means the last one run did; no
\* host was isolated more than twice by one step, a second time only where
\* the playbook asks for a retry, as the result says; and the synthesis
\* rests on the reports of one whole investigation or on none, although the
\* agents of a failed attempt left theirs on the blackboard.
PlaybookAccounts ==
    playing = "done" =>
        LET Fatal(i) == results[i].status = "failed" /\ playbook[i].policy = "abort"
        IN  /\ outcome.status = "completed" =>
                 Len(results) = Len(playbook) /\ \A i \in DOMAIN results : ~Fatal(i)
            /\ outcome.status = "aborted" =>
                 {i \in DOMAIN results : Fatal(i)} = {Len(results)}
            /\ \A d \in isolations : d.n > 1 =>
                 d.n = 2 /\ playbook[d.step].policy = "retry" /\ results[d.step].retried
            /\ \/ outcome.reports = {}
               \/ \E s \in DOMAIN playbook, n \in 1..2 : outcome.reports =
                    [phase : ToSet(Agents), step : {s}, n : {n}]

\* "full Maturity Gate / kill-switch / skill-authorization safety stack, same
\* path as any other response action": no playbook isolates a host while the
\* kill switch of the shared orchestrator is engaged.
PlaybookObeysSwitch == \A d \in isolations : ~d.engaged

PhaseReport == [phase : ToSet(Agents), step : Nat, n : 1..2]

PlaybookTypeOK ==
    /\ playbook \in Seq([type : STRING, policy : STRING])
    /\ playing \in {"idle", "static", "steps", "aborted", "done"}
    /\ attempt \in [n : 1..2, agents : 0..3]
    /\ results \in Seq([status : {"success", "failed"}, retried : BOOLEAN,
                        reports : SUBSET PhaseReport])
    /\ board \subseteq PhaseReport
    /\ isolations \subseteq [step : Nat, n : 1..2, engaged : BOOLEAN]
    /\ engaged \in BOOLEAN
    /\ outcome \in [status : {"none", "completed", "aborted"}, reports : SUBSET PhaseReport]

\* Steps are run in order, a second time only for a retry, and none after
\* one that failed and aborts.
StepsInOrder ==
    /\ Len(results) <= Len(playbook)
    /\ playing = "idle" =>
          results = <<>> /\ attempt = FirstAttempt /\ board = {} /\ isolations = {}
    /\ attempt.n > 1 =>
          playing = "steps" /\ At <= Len(playbook) /\ playbook[At].policy = "retry"
    /\ \A i \in DOMAIN results : results[i].status = "failed" /\ playbook[i].policy = "abort" =>
          i = Len(results) /\ playing \in {"aborted", "done"}
    /\ playing = "aborted" =>
          LET last == Len(results)
          IN  /\ results # <<>> /\ results[last].status = "failed"
              /\ playbook[last].policy = "abort"

\* An isolation is of a step that ended, and says so if it was the second, or
\* of an attempt of the current one.
IsolationsOfSteps ==
    \A d \in isolations :
        \/ /\ d.step \in DOMAIN results
           /\ d.n > 1 => playbook[d.step].policy = "retry" /\ results[d.step].retried
        \/ d.step = At /\ d.n <= attempt.n

\* The blackboard has of the current attempt what its agents left, and of no
\* later one anything.
BoardOfAttempt ==
    /\ {r \in board : r.step = At /\ r.n = attempt.n}
         = {[phase |-> Agents[k], step |-> At, n |-> attempt.n] : k \in 1..attempt.agents}
    /\ \A r \in board : r.step <= At /\ (r.step = At => r.n <= attempt.n)

\* What the agents of one whole attempt leave.
Whole(s, n) == [phase : ToSet(Agents), step : {s}, n : {n}]

\* A step returns a whole investigation or nothing; of those that returned
\* one there is a last.
ReportsWhole ==
    /\ \A i \in DOMAIN results :
          results[i].reports = {} \/ \E n \in 1..2 : results[i].reports = Whole(i, n)
    /\ \/ \A i \in DOMAIN results : results[i].reports = {}
       \/ \E s \in DOMAIN results :
             /\ results[s].reports # {}
             /\ \A i \in DOMAIN results : i > s => results[i].reports = {}

\* The inductive strengthening behind PlaybookAccounts.
PlaybookInvariant ==
    /\ PlaybookTypeOK
    /\ StepsInOrder
    /\ IsolationsOfSteps
    /\ BoardOfAttempt
    /\ ReportsWhole
    /\ PlaybookAccounts
=============================================================================
