------------------------- MODULE ResponseOrchestrator -------------------------
(***************************************************************************)
(* One ResponseOrchestrator (services/response_orchestration.py) shared by *)
(* concurrent calls of execute_response_plan, with the automation maturity *)
(* gate (services/response/maturity_gate.py) and the kill switch.          *)
(*                                                                         *)
(* A coroutine runs until it awaits something that suspends it: the        *)
(* approval callback and the Neo4j blast-radius lookup.  What happens      *)
(* between two such points is one action here.  The skill handlers contain *)
(* no await of their own, so running a skill is one step.                  *)
(***************************************************************************)
EXTENDS Integers, Sequences

CONSTANTS
    Calls,             \* calls of execute_response_plan
    Plans,             \* sequences of immediate actions a call may be given
    ApprovalRequired,  \* approval_required of the orchestrator
    Tier               \* automation tier, 0 (observe) to 4 (full auto)

Skills == {"notify-soc-team", "enable-mfa", "quarantine-file", "update-firewall",
           "patch-system", "block-ip", "block-domain", "reset-credentials",
           "kill-process", "isolate-host", "unmapped"}

\* `critical`: the action's priority is "critical".
Action == [skill : Skills, critical : BOOLEAN]

ASSUME ResponseAssumption ==
    /\ Plans \subseteq Seq(Action)
    /\ ApprovalRequired \in BOOLEAN
    /\ Tier \in 0..4

VARIABLES
    killed,    \* _kill_switch_engaged
    pc,        \* where each call is
    plan,      \* the immediate actions of each call
    callback,  \* each call was given an approval callback
    at,        \* index of the action each call is at
    active,    \* entry of active_actions for the call's current action
    scheduled, \* entries of active_actions for the call's remediation actions
    grant,     \* on what ground the current action was let through
    log,       \* execution_log
    executed,  \* actions_executed of each call's summary, as indices
    failed     \* actions_failed of each call's summary, as indices

vars == <<killed, pc, plan, callback, at, active, scheduled, grant, log, executed, failed>>

Locations == {"idle", "next", "approval", "lookup", "done"}
InFlight == {"approval", "lookup"}
Grants == {"none", "bypass", "gate", "human", "priority"}

-----------------------------------------------------------------------------
(* MaturityGate *)

\* BlastRadius: 0 minimal, 1 low, 2 medium, 3 high, 4 critical.  A skill the
\* registry does not know is treated as critical.
BlastRadius(skill) ==
    IF skill = "notify-soc-team" THEN 0
    ELSE IF skill \in {"enable-mfa", "quarantine-file"} THEN 1
    ELSE IF skill \in {"update-firewall", "patch-system", "block-ip", "block-domain"}
         THEN 2
    ELSE IF skill \in {"reset-credentials", "kill-process"} THEN 3
    ELSE 4

\* MIN_TIER_FOR_AUTO_EXECUTE maps each radius to the tier of the same rank.
AutoExecutes(skill) == Tier >= BlastRadius(skill)

-----------------------------------------------------------------------------
Init ==
    /\ killed = FALSE
    /\ pc = [c \in Calls |-> "idle"]
    /\ plan = [c \in Calls |-> <<>>]
    /\ callback = [c \in Calls |-> FALSE]
    /\ at = [c \in Calls |-> 1]
    /\ active = [c \in Calls |-> "none"]
    /\ scheduled = [c \in Calls |-> "none"]
    /\ grant = [c \in Calls |-> "none"]
    /\ log = {}
    /\ executed = [c \in Calls |-> {}]
    /\ failed = [c \in Calls |-> {}]

Begin(c, p, asks) ==
    /\ pc[c] = "idle"
    /\ pc' = [pc EXCEPT ![c] = "next"]
    /\ plan' = [plan EXCEPT ![c] = p]
    /\ callback' = [callback EXCEPT ![c] = asks]
    /\ UNCHANGED <<killed, at, active, scheduled, grant, log, executed, failed>>

AtAction(c) == pc[c] = "next" /\ at[c] <= Len(plan[c])
Current(c) == plan[c][at[c]]

\* Mutant of Return: no finally block.
ReturnWithoutFinally(c, success) ==
    /\ executed' = IF success THEN [executed EXCEPT ![c] = @ \cup {at[c]}] ELSE executed
    /\ failed' = IF success THEN failed ELSE [failed EXCEPT ![c] = @ \cup {at[c]}]
    /\ grant' = [grant EXCEPT ![c] = "none"]
    /\ at' = [at EXCEPT ![c] = @ + 1]
    /\ pc' = [pc EXCEPT ![c] = "next"]
    /\ UNCHANGED active

\* _execute_action returns to the loop: the summary gets its entry, the finally
\* block drops the active action.
Return(c, success) ==
    /\ executed' = IF success THEN [executed EXCEPT ![c] = @ \cup {at[c]}] ELSE executed
    /\ failed' = IF success THEN failed ELSE [failed EXCEPT ![c] = @ \cup {at[c]}]
    /\ active' = [active EXCEPT ![c] = "none"]
    /\ grant' = [grant EXCEPT ![c] = "none"]
    /\ at' = [at EXCEPT ![c] = @ + 1]
    /\ pc' = [pc EXCEPT ![c] = "next"]

Logged(c, status) ==
    log' = log \cup {[call |-> c, index |-> at[c], status |-> status, grant |-> grant[c]]}

\* The current action waits at `where`, let through on ground g.
Suspend(c, where, g) ==
    /\ pc' = [pc EXCEPT ![c] = where]
    /\ active' = [active EXCEPT ![c] = "running"]
    /\ grant' = [grant EXCEPT ![c] = g]
    /\ UNCHANGED <<killed, plan, callback, at, scheduled, log, executed, failed>>

Refuse(c) ==
    /\ AtAction(c)
    /\ killed
    /\ Return(c, FALSE)
    /\ UNCHANGED <<killed, plan, callback, scheduled, log>>

\* Mutant of NeedsApproval: off by one against the tier.
NeedsApprovalAbove(c) == ApprovalRequired /\ BlastRadius(Current(c).skill) > Tier + 1

NeedsApproval(c) == ApprovalRequired /\ ~AutoExecutes(Current(c).skill)

\* Mutant of Autonomous: the switch is not looked at.
AutonomousUnchecked(c) ==
    /\ AtAction(c)
    /\ ~NeedsApproval(c)
    /\ Suspend(c, "lookup", IF ApprovalRequired THEN "gate" ELSE "bypass")

Autonomous(c) ==
    /\ AtAction(c)
    /\ ~killed
    /\ ~NeedsApproval(c)
    /\ Suspend(c, "lookup", IF ApprovalRequired THEN "gate" ELSE "bypass")

AskHuman(c) ==
    /\ AtAction(c)
    /\ ~killed
    /\ NeedsApproval(c)
    /\ callback[c]
    /\ Suspend(c, "approval", "none")

\* Mutant of DecideAlone: a request that is not critical waits for nobody.
DecideAloneWaits(c) ==
    /\ AtAction(c)
    /\ ~killed
    /\ NeedsApproval(c)
    /\ ~callback[c]
    /\ Current(c).critical
    /\ Suspend(c, "lookup", "priority")

\* Without a callback the request is only noted, and critical ones pass.
DecideAlone(c) ==
    /\ AtAction(c)
    /\ ~killed
    /\ NeedsApproval(c)
    /\ ~callback[c]
    /\ \/ /\ Current(c).critical
          /\ Suspend(c, "lookup", "priority")
       \/ /\ ~Current(c).critical
          /\ Return(c, FALSE)
          /\ UNCHANGED <<killed, plan, callback, scheduled, log>>

Approve(c) ==
    /\ pc[c] = "approval"
    /\ pc' = [pc EXCEPT ![c] = "lookup"]
    /\ grant' = [grant EXCEPT ![c] = "human"]
    /\ UNCHANGED <<killed, plan, callback, at, active, scheduled, log, executed, failed>>

Deny(c) ==
    /\ pc[c] = "approval"
    /\ Return(c, FALSE)
    /\ UNCHANGED <<killed, plan, callback, scheduled, log>>

CallbackRaises(c) ==
    /\ pc[c] = "approval"
    /\ Logged(c, "failed")
    /\ Return(c, FALSE)
    /\ UNCHANGED <<killed, plan, callback, scheduled>>

\* Mutant of Execute: logged as completed whatever the skill returned.
ExecuteLogsSuccess(c) ==
    /\ pc[c] = "lookup"
    /\ Logged(c, "completed")
    /\ \E success \in BOOLEAN : Return(c, success)
    /\ UNCHANGED <<killed, plan, callback, scheduled>>

\* The lookup came back (its errors are swallowed) and the skill runs.
Execute(c) ==
    /\ pc[c] = "lookup"
    /\ \E success \in BOOLEAN :
          /\ Logged(c, IF success THEN "completed" ELSE "failed")
          /\ Return(c, success)
    /\ UNCHANGED <<killed, plan, callback, scheduled>>

\* The long-term remediation, if any, is put on the books and the summary returned.
Finish(c) ==
    /\ pc[c] = "next"
    /\ at[c] > Len(plan[c])
    /\ \E remediation \in {"none", "pending"} :
          scheduled' = [scheduled EXCEPT ![c] = remediation]
    /\ pc' = [pc EXCEPT ![c] = "done"]
    /\ UNCHANGED <<killed, plan, callback, at, active, grant, log, executed, failed>>

\* Mutant of Halted: a status the other code does not know.
HaltedAsFailed(status) == IF status = "none" THEN "none" ELSE "failed"

\* Also what rotate_credentials_if_compromised does, besides its audit record.
Halted(status) == IF status = "none" THEN "none" ELSE "halted"
EngageKillSwitch ==
    /\ killed' = TRUE
    /\ active' = [c \in Calls |-> Halted(active[c])]
    /\ scheduled' = [c \in Calls |-> Halted(scheduled[c])]
    /\ UNCHANGED <<pc, plan, callback, at, grant, log, executed, failed>>

DisengageKillSwitch ==
    /\ killed
    /\ killed' = FALSE
    /\ UNCHANGED <<pc, plan, callback, at, active, scheduled, grant, log, executed, failed>>

Answer(c) == Approve(c) \/ Deny(c) \/ CallbackRaises(c)

Step(c) ==
    \/ Refuse(c)
    \/ Autonomous(c)
    \/ AskHuman(c)
    \/ DecideAlone(c)
    \/ Execute(c)
    \/ Finish(c)

Next ==
    \/ \E c \in Calls, p \in Plans, asks \in BOOLEAN : Begin(c, p, asks)
    \/ \E c \in Calls : Step(c) \/ Answer(c)
    \/ EngageKillSwitch
    \/ DisengageKillSwitch

Spec == Init /\ [][Next]_vars

\* The event loop resumes every call whose lookup came back.  Nobody has to touch
\* the switch or to answer a callback, which the code waits for without a timeout.
FairSpec == Spec /\ \A c \in Calls : WF_vars(Step(c))

-----------------------------------------------------------------------------
(* Properties *)

LogEntry == [call : Calls, index : Nat \ {0}, status : {"completed", "failed"},
             grant : Grants]

\* Types of the orchestrator's state.
TypeOK ==
    /\ killed \in BOOLEAN
    /\ pc \in [Calls -> Locations]
    /\ plan \in [Calls -> Seq(Action)]
    /\ callback \in [Calls -> BOOLEAN]
    /\ at \in [Calls -> Nat \ {0}]
    /\ active \in [Calls -> {"none", "running", "halted"}]
    /\ scheduled \in [Calls -> {"none", "pending", "halted"}]
    /\ grant \in [Calls -> Grants]
    /\ log \in SUBSET LogEntry
    /\ executed \in [Calls -> SUBSET Nat]
    /\ failed \in [Calls -> SUBSET Nat]

\* While the switch is engaged no tracked action counts as running, even though
\* calls keep arriving, suspending and resuming around the switch.
KillSwitchCovers == killed => \A c \in Calls : active[c] # "running"

\* active_actions holds a call's current action exactly while the call is
\* suspended inside it, on every way out of _execute_action.
ActiveIsInFlight == \A c \in Calls : (active[c] # "none") <=> (pc[c] \in InFlight)

\* A summary accounts for each action passed exactly once, and reports success
\* exactly for the actions the execution log holds as completed.
SummaryMatchesLog ==
    \A c \in Calls :
        /\ executed[c] \cup failed[c] = 1..(at[c] - 1)
        /\ executed[c] \cap failed[c] = {}
        /\ executed[c] = {e.index : e \in {f \in log : f.call = c /\ f.status = "completed"}}

\* What let a skill above the automation tier through: a person, or for lack of
\* a callback the priority of the action.
Justified(action, asks, g) ==
    \/ ~ApprovalRequired
    \/ AutoExecutes(action.skill)
    \/ IF asks THEN g = "human" ELSE action.critical

\* Every completed action was let through on such a ground, however many calls
\* were waiting for answers at the same time.
ExecutionJustified ==
    \A e \in log : e.status = "completed" =>
        Justified(plan[e.call][e.index], callback[e.call], e.grant)

\* A call that was begun without a callback returns a summary, whatever the
\* switch does, whichever actions are refused or fail, and however long other
\* calls wait for a person.
CallsEnd == \A c \in Calls : (pc[c] = "next" /\ ~callback[c]) ~> (pc[c] = "done")

\* What is known of a suspended action, and of the log's place in the plans.
GrantHeld ==
    \A c \in Calls :
        /\ pc[c] \in InFlight => at[c] <= Len(plan[c])
        /\ pc[c] = "approval" => callback[c]
        /\ pc[c] = "lookup" => Justified(Current(c), callback[c], grant[c])
        /\ pc[c] = "idle" => at[c] = 1
LogInPlans == \A e \in log : e.index < at[e.call] /\ at[e.call] <= Len(plan[e.call]) + 1
AtInPlans == \A c \in Calls : pc[c] # "idle" => at[c] <= Len(plan[c]) + 1

\* The inductive strengthening behind the properties above.
InductiveInvariant ==
    /\ TypeOK
    /\ KillSwitchCovers
    /\ ActiveIsInFlight
    /\ GrantHeld
    /\ AtInPlans
    /\ LogInPlans
    /\ SummaryMatchesLog
    /\ ExecutionJustified

-----------------------------------------------------------------------------
(* What a docstring of the code says, and the code does not do. *)

\* response_orchestration.py:95 "Halt all in-flight and future response actions
\* immediately": an action past the check at the top runs to completion.
KillSwitchHalts == [][killed /\ killed' => log' = log]_vars
===============================================================================
