---------------------- MODULE ResponseOrchestratorProofs ----------------------
(***************************************************************************)
(* Proofs about ResponseOrchestrator for every set of calls and plans,     *)
(* every tier, with or without approval and callbacks.  A step of a call    *)
(* either suspends it inside its current action or returns from that       *)
(* action, so the invariant is shown for those two kinds of step once and  *)
(* the actions cite them.                                                  *)
(***************************************************************************)
EXTENDS ResponseOrchestrator, TLAPS

USE ResponseAssumption

LEMMA InitInductive == Init => InductiveInvariant
<1> SUFFICES ASSUME Init PROVE InductiveInvariant
  OBVIOUS
<1>1. TypeOK
  <2>1. <<>> \in Seq(Action)
    OBVIOUS
  <2>2. plan \in [Calls -> Seq(Action)] /\ log \in SUBSET LogEntry
    BY <2>1 DEF Init
  <2>3. executed \in [Calls -> SUBSET Nat] /\ failed \in [Calls -> SUBSET Nat]
    BY DEF Init
  <2>4. at \in [Calls -> Nat \ {0}]
    BY DEF Init
  <2>5. active \in [Calls -> {"none", "running", "halted"}]
        /\ scheduled \in [Calls -> {"none", "pending", "halted"}]
    BY DEF Init
  <2>6. callback \in [Calls -> BOOLEAN]
    BY DEF Init
  <2>7. pc \in [Calls -> Locations] /\ grant \in [Calls -> Grants] /\ killed \in BOOLEAN
    BY DEF Init, Locations, Grants
  <2> QED
    BY <2>2, <2>3, <2>4, <2>5, <2>6, <2>7 DEF TypeOK
<1>2. KillSwitchCovers /\ ActiveIsInFlight /\ GrantHeld /\ AtInPlans /\ LogInPlans
  BY DEF Init, KillSwitchCovers, ActiveIsInFlight, GrantHeld, AtInPlans, LogInPlans,
         InFlight
<1>3. SummaryMatchesLog /\ ExecutionJustified
  BY DEF Init, SummaryMatchesLog, ExecutionJustified
<1> QED
  BY <1>1, <1>2, <1>3 DEF InductiveInvariant

-----------------------------------------------------------------------------
(* Suspending *)

\* A call that suspends inside its current action, on a ground that justifies
\* it if the approval is behind it, keeps the invariant.
LEMMA SuspendKeeps ==
    ASSUME InductiveInvariant, NEW c \in Calls, NEW where \in InFlight, NEW g \in Grants,
           AtAction(c), ~killed, Suspend(c, where, g),
           where = "approval" => callback[c],
           where = "lookup" => Justified(Current(c), callback[c], g)
    PROVE  InductiveInvariant'
<1> USE DEF InductiveInvariant, AtAction, Suspend
<1>1. TypeOK'
  BY DEF TypeOK, InFlight, Locations
<1>2. KillSwitchCovers' /\ ActiveIsInFlight'
  BY DEF TypeOK, KillSwitchCovers, ActiveIsInFlight, InFlight
<1>3. GrantHeld'
  BY DEF TypeOK, GrantHeld, InFlight, Current, Justified, AutoExecutes, BlastRadius
<1>4. AtInPlans' /\ LogInPlans'
  BY DEF TypeOK, AtInPlans, LogInPlans
<1>5. SummaryMatchesLog' /\ ExecutionJustified'
  BY DEF TypeOK, SummaryMatchesLog, ExecutionJustified, Justified, AutoExecutes, BlastRadius
<1> QED
  BY <1>1, <1>2, <1>3, <1>4, <1>5

-----------------------------------------------------------------------------
(* Returning *)

\* The parts of the invariant that a return disturbs whatever was logged.
LEMMA ReturnKeeps ==
    ASSUME InductiveInvariant, NEW c \in Calls, NEW success \in BOOLEAN,
           pc[c] # "idle", pc[c] # "done", at[c] <= Len(plan[c]),
           Return(c, success), UNCHANGED <<killed, plan, callback, scheduled>>,
           log' \in SUBSET LogEntry,
           \A e \in log' : e \in log \/ (e.call = c /\ e.index = at[c])
    PROVE  TypeOK' /\ KillSwitchCovers' /\ ActiveIsInFlight' /\ GrantHeld'
           /\ AtInPlans' /\ LogInPlans'
<1> USE DEF InductiveInvariant, Return
<1>1. at[c] \in Nat \ {0} /\ Len(plan[c]) \in Nat
  BY DEF TypeOK
<1>2. TypeOK'
  BY <1>1 DEF TypeOK, Locations, Grants
<1>3. KillSwitchCovers' /\ ActiveIsInFlight'
  BY DEF TypeOK, KillSwitchCovers, ActiveIsInFlight, InFlight
<1>4. GrantHeld'
  BY DEF TypeOK, GrantHeld, InFlight, Current, Justified, AutoExecutes, BlastRadius
<1>5. AtInPlans'
  BY <1>1 DEF TypeOK, AtInPlans
<1>6. LogInPlans'
  <2> SUFFICES ASSUME NEW e \in log'
               PROVE  e.index < at'[e.call] /\ at'[e.call] <= Len(plan[e.call]) + 1
    BY DEF LogInPlans
  <2>1. CASE e.call = c
    <3>1. e.index <= at[c]
      BY <1>1, <2>1 DEF LogInPlans, LogEntry
    <3>2. at'[c] = at[c] + 1 /\ plan'[c] = plan[c]
      BY DEF TypeOK
    <3>3. e.index \in Nat
      BY DEF LogEntry
    <3> QED
      BY <1>1, <2>1, <3>1, <3>2, <3>3
  <2>2. CASE e.call # c
    BY <2>2 DEF TypeOK, LogInPlans, LogEntry
  <2> QED
    BY <2>1, <2>2
<1> QED
  BY <1>2, <1>3, <1>4, <1>5, <1>6

\* The completed entries of a call, as SummaryMatchesLog counts them.
Completed(l, c) == {e.index : e \in {f \in l : f.call = c /\ f.status = "completed"}}

\* The summary stays in step with the log when the return counts the action as
\* executed exactly if it logged its completion.
LEMMA SummaryKeeps ==
    ASSUME InductiveInvariant, NEW c \in Calls, NEW success \in BOOLEAN,
           Return(c, success),
           \A d \in Calls : Completed(log', d)
               = Completed(log, d) \cup (IF d = c /\ success THEN {at[c]} ELSE {})
    PROVE  SummaryMatchesLog'
<1> USE DEF InductiveInvariant, Return
<1> SUFFICES ASSUME NEW d \in Calls
             PROVE  /\ executed'[d] \cup failed'[d] = 1..(at'[d] - 1)
                    /\ executed'[d] \cap failed'[d] = {}
                    /\ executed'[d] = Completed(log', d)
  BY DEF SummaryMatchesLog, Completed
<1>1. /\ executed[d] \cup failed[d] = 1..(at[d] - 1)
      /\ executed[d] \cap failed[d] = {}
      /\ executed[d] = Completed(log, d)
  BY DEF SummaryMatchesLog, Completed
<1>2. CASE d # c
  BY <1>1, <1>2 DEF TypeOK
<1>3. CASE d = c
  <2>1. at[c] \in Nat \ {0} /\ at'[c] = at[c] + 1
    BY DEF TypeOK
  <2>2. 1..(at'[c] - 1) = (1..(at[c] - 1)) \cup {at[c]}
    BY <2>1
  <2>3. at[c] \notin executed[c] /\ at[c] \notin failed[c]
    BY <1>1, <1>3, <2>1
  <2>4. /\ executed'[c] = executed[c] \cup (IF success THEN {at[c]} ELSE {})
        /\ failed'[c] = failed[c] \cup (IF success THEN {} ELSE {at[c]})
    BY DEF TypeOK
  <2>5. executed'[c] \cup failed'[c] = 1..(at'[c] - 1)
    BY <1>1, <1>3, <2>2, <2>4
  <2>6. executed'[c] \cap failed'[c] = {}
    BY <1>1, <1>3, <2>3, <2>4
  <2>7. executed'[c] = Completed(log', c)
    BY <1>1, <1>3, <2>4
  <2> QED
    BY <1>3, <2>5, <2>6, <2>7
<1> QED
  BY <1>2, <1>3

\* A return that logs nothing: refused, denied, or not critical enough.
LEMMA SilentReturn ==
    ASSUME InductiveInvariant, NEW c \in Calls,
           pc[c] # "idle", pc[c] # "done", at[c] <= Len(plan[c]),
           Return(c, FALSE), UNCHANGED <<killed, plan, callback, scheduled, log>>
    PROVE  InductiveInvariant'
<1>1. TypeOK' /\ KillSwitchCovers' /\ ActiveIsInFlight' /\ GrantHeld'
      /\ AtInPlans' /\ LogInPlans'
  <2>1. log \in SUBSET LogEntry
    BY DEF InductiveInvariant, TypeOK
  <2> QED
    BY <2>1, ReturnKeeps
<1>2. SummaryMatchesLog'
  BY SummaryKeeps DEF Completed
<1>3. ExecutionJustified'
  BY DEF InductiveInvariant, ExecutionJustified, Justified, AutoExecutes, BlastRadius
<1> QED
  BY <1>1, <1>2, <1>3 DEF InductiveInvariant

\* A return that logs its outcome, completed only on a ground that justifies it.
LEMMA LoggedReturn ==
    ASSUME InductiveInvariant, NEW c \in Calls, NEW success \in BOOLEAN,
           pc[c] \in InFlight, success => pc[c] = "lookup",
           Logged(c, IF success THEN "completed" ELSE "failed"),
           Return(c, success), UNCHANGED <<killed, plan, callback, scheduled>>
    PROVE  InductiveInvariant'
<1> DEFINE entry == [call   |-> c, index |-> at[c],
                     status |-> IF success THEN "completed" ELSE "failed",
                     grant  |-> grant[c]]
<1>1. log' = log \cup {entry}
  BY DEF Logged
<1>2. entry \in LogEntry
  BY DEF InductiveInvariant, TypeOK, LogEntry
<1>3. at[c] <= Len(plan[c])
  BY DEF InductiveInvariant, GrantHeld
<1>4. log' \in SUBSET LogEntry
  BY <1>1, <1>2 DEF InductiveInvariant, TypeOK
<1>5. TypeOK' /\ KillSwitchCovers' /\ ActiveIsInFlight' /\ GrantHeld'
      /\ AtInPlans' /\ LogInPlans'
  <2>1. \A e \in log' : e \in log \/ (e.call = c /\ e.index = at[c])
    BY <1>1
  <2>2. pc[c] # "idle" /\ pc[c] # "done"
    BY DEF InFlight
  <2> QED
    BY <1>3, <1>4, <2>1, <2>2, ReturnKeeps
<1>6. SummaryMatchesLog'
  <2>1. ASSUME NEW d \in Calls
        PROVE  Completed(log', d)
                 = Completed(log, d) \cup (IF d = c /\ success THEN {at[c]} ELSE {})
    <3>1. CASE d = c /\ success
      <4>1. {f \in log' : f.call = d /\ f.status = "completed"}
              = {f \in log : f.call = d /\ f.status = "completed"} \cup {entry}
        BY <1>1, <3>1
      <4> HIDE DEF entry
      <4>2. entry.index = at[c]
        BY DEF entry
      <4> QED
        BY <3>1, <4>1, <4>2 DEF Completed
    <3>2. CASE ~(d = c /\ success)
      <4>1. {f \in log' : f.call = d /\ f.status = "completed"}
              = {f \in log : f.call = d /\ f.status = "completed"}
        BY <1>1, <3>2
      <4> QED
        BY <3>2, <4>1 DEF Completed
    <3> QED
      BY <3>1, <3>2
  <2> QED
    BY <2>1, SummaryKeeps
<1>7. ExecutionJustified'
  <2> SUFFICES ASSUME NEW e \in log', e.status = "completed"
               PROVE  Justified(plan[e.call][e.index], callback[e.call], e.grant)
    BY DEF ExecutionJustified, Justified, AutoExecutes, BlastRadius
  <2>1. CASE e \in log
    BY <2>1 DEF InductiveInvariant, ExecutionJustified
  <2>2. CASE e = entry
    BY <2>2 DEF InductiveInvariant, GrantHeld, Current
  <2> QED
    BY <1>1, <2>1, <2>2
<1> QED
  BY <1>5, <1>6, <1>7 DEF InductiveInvariant

-----------------------------------------------------------------------------
(* The steps of a call *)

LEMMA StepInductive ==
    ASSUME InductiveInvariant, NEW c \in Calls, Step(c) \/ Answer(c)
    PROVE  InductiveInvariant'
<1>1. CASE Refuse(c)
  BY <1>1, SilentReturn DEF Refuse, AtAction
<1>2. CASE Autonomous(c)
  <2> DEFINE g == IF ApprovalRequired THEN "gate" ELSE "bypass"
  <2>1. Justified(Current(c), callback[c], g)
    BY <1>2 DEF Autonomous, NeedsApproval, Justified
  <2> QED
    BY <1>2, <2>1, SuspendKeeps DEF Autonomous, InFlight, Grants
<1>3. CASE AskHuman(c)
  BY <1>3, SuspendKeeps DEF AskHuman, InFlight, Grants
<1>4. CASE DecideAlone(c)
  <2>1. CASE Current(c).critical /\ Suspend(c, "lookup", "priority")
    BY <1>4, <2>1, SuspendKeeps DEF DecideAlone, InFlight, Grants, Justified
  <2>2. CASE Return(c, FALSE) /\ UNCHANGED <<killed, plan, callback, scheduled, log>>
    BY <1>4, <2>2, SilentReturn DEF DecideAlone, AtAction
  <2> QED
    BY <1>4, <2>1, <2>2 DEF DecideAlone
<1>5. CASE Approve(c)
  <2> USE <1>5 DEF InductiveInvariant, Approve
  <2>1. TypeOK'
    BY DEF TypeOK, Locations, Grants
  <2>2. KillSwitchCovers' /\ ActiveIsInFlight'
    BY DEF TypeOK, KillSwitchCovers, ActiveIsInFlight, InFlight
  <2>3. GrantHeld'
    BY DEF TypeOK, GrantHeld, InFlight, Current, Justified, AutoExecutes, BlastRadius
  <2>4. AtInPlans' /\ LogInPlans' /\ SummaryMatchesLog'
    BY DEF TypeOK, AtInPlans, LogInPlans, SummaryMatchesLog
  <2>5. ExecutionJustified'
    BY DEF ExecutionJustified, Justified, AutoExecutes, BlastRadius
  <2> QED
    BY <2>1, <2>2, <2>3, <2>4, <2>5
<1>6. CASE Deny(c)
  BY <1>6, SilentReturn DEF Deny, InductiveInvariant, GrantHeld, InFlight
<1>7. CASE CallbackRaises(c)
  BY <1>7, LoggedReturn DEF CallbackRaises, InFlight
<1>8. CASE Execute(c)
  BY <1>8, LoggedReturn DEF Execute, InFlight
<1>9. CASE Finish(c)
  <2> USE <1>9 DEF InductiveInvariant, Finish
  <2>1. TypeOK'
    BY DEF TypeOK, Locations
  <2>2. KillSwitchCovers' /\ ActiveIsInFlight'
    BY DEF TypeOK, KillSwitchCovers, ActiveIsInFlight, InFlight
  <2>3. GrantHeld' /\ AtInPlans' /\ LogInPlans' /\ SummaryMatchesLog'
    BY DEF TypeOK, GrantHeld, InFlight, Current, Justified, AutoExecutes, BlastRadius,
           AtInPlans, LogInPlans, SummaryMatchesLog
  <2>4. ExecutionJustified'
    BY DEF ExecutionJustified, Justified, AutoExecutes, BlastRadius
  <2> QED
    BY <2>1, <2>2, <2>3, <2>4
<1> QED
  BY <1>1, <1>2, <1>3, <1>4, <1>5, <1>6, <1>7, <1>8, <1>9 DEF Step, Answer

-----------------------------------------------------------------------------
(* The orchestrator *)

LEMMA BeginInductive ==
    ASSUME InductiveInvariant, NEW c \in Calls, NEW p \in Plans, NEW asks \in BOOLEAN,
           Begin(c, p, asks)
    PROVE  InductiveInvariant'
<1> USE DEF InductiveInvariant, Begin
<1>1. at[c] = 1 /\ p \in Seq(Action) /\ Len(p) \in Nat
  BY DEF GrantHeld
<1>2. TypeOK'
  BY <1>1 DEF TypeOK, Locations
<1>3. KillSwitchCovers' /\ ActiveIsInFlight'
  BY DEF TypeOK, KillSwitchCovers, ActiveIsInFlight, InFlight
<1>4. GrantHeld'
  BY DEF TypeOK, GrantHeld, InFlight, Current, Justified, AutoExecutes, BlastRadius
<1>5. AtInPlans'
  BY <1>1 DEF TypeOK, AtInPlans
<1>6. \A e \in log : e.call # c
  BY <1>1 DEF TypeOK, LogInPlans, LogEntry
<1>7. LogInPlans' /\ SummaryMatchesLog' /\ ExecutionJustified'
  BY <1>6 DEF TypeOK, LogEntry, LogInPlans, SummaryMatchesLog, ExecutionJustified,
              Justified, AutoExecutes, BlastRadius
<1> QED
  BY <1>2, <1>3, <1>4, <1>5, <1>7

\* Neither direction of the switch touches what the calls have done.
LEMMA SwitchInductive ==
    ASSUME InductiveInvariant, EngageKillSwitch \/ DisengageKillSwitch
    PROVE  InductiveInvariant'
<1> USE DEF InductiveInvariant, EngageKillSwitch, DisengageKillSwitch
<1>1. TypeOK'
  BY DEF TypeOK, Halted
<1>2. KillSwitchCovers' /\ ActiveIsInFlight'
  BY DEF TypeOK, KillSwitchCovers, ActiveIsInFlight, Halted
<1>3. GrantHeld' /\ AtInPlans' /\ LogInPlans' /\ SummaryMatchesLog' /\ ExecutionJustified'
  BY DEF GrantHeld, Current, AtInPlans, LogInPlans, SummaryMatchesLog, ExecutionJustified,
         Justified, AutoExecutes, BlastRadius
<1> QED
  BY <1>1, <1>2, <1>3

LEMMA NextInductive == InductiveInvariant /\ [Next]_vars => InductiveInvariant'
<1> SUFFICES ASSUME InductiveInvariant, [Next]_vars PROVE InductiveInvariant'
  OBVIOUS
<1>1. CASE Next
  BY <1>1, BeginInductive, StepInductive, SwitchInductive DEF Next
<1>2. CASE UNCHANGED vars
  BY <1>2 DEF vars, InductiveInvariant, TypeOK, KillSwitchCovers, ActiveIsInFlight,
              GrantHeld, InFlight, Current, AtInPlans, LogInPlans, SummaryMatchesLog,
              ExecutionJustified, Justified, AutoExecutes, BlastRadius
<1> QED
  BY <1>1, <1>2

\* The strengthened invariant holds throughout every behaviour.
THEOREM InvariantHolds == Spec => []InductiveInvariant
<1> QED
  BY InitInductive, NextInductive, PTL DEF Spec

\* The orchestrator's state keeps its types.
THEOREM TypeCorrect == Spec => []TypeOK
<1>1. InductiveInvariant => TypeOK
  BY DEF InductiveInvariant
<1> QED
  BY <1>1, InvariantHolds, PTL

\* With the switch engaged no tracked action counts as running.
THEOREM KillSwitchTheorem == Spec => []KillSwitchCovers
<1>1. InductiveInvariant => KillSwitchCovers
  BY DEF InductiveInvariant
<1> QED
  BY <1>1, InvariantHolds, PTL

\* active_actions holds exactly the actions calls are suspended in.
THEOREM ActiveTheorem == Spec => []ActiveIsInFlight
<1>1. InductiveInvariant => ActiveIsInFlight
  BY DEF InductiveInvariant
<1> QED
  BY <1>1, InvariantHolds, PTL

\* Every summary accounts for each action once and agrees with the log.
THEOREM SummaryTheorem == Spec => []SummaryMatchesLog
<1>1. InductiveInvariant => SummaryMatchesLog
  BY DEF InductiveInvariant
<1> QED
  BY <1>1, InvariantHolds, PTL

\* Nothing above the automation tier completes without its ground.
THEOREM JustifiedTheorem == Spec => []ExecutionJustified
<1>1. InductiveInvariant => ExecutionJustified
  BY DEF InductiveInvariant
<1> QED
  BY <1>1, InvariantHolds, PTL
===============================================================================
