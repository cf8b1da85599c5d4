------------------------ MODULE AdaptiveInvestigation ------------------------
(***************************************************************************)
(* POST /adaptive-loop and a repeated POST /analyze of api/routes/rca.py   *)
(* over AdaptiveInvestigationManager of services/response_orchestration.py.*)
(*                                                                         *)
(* A result is a mutable object: the loop reads the stored one, is         *)
(* suspended while data is collected, raises that object's confidence in   *)
(* place and stores it again at the end.  An analysis of the same package  *)
(* in between stores a new object under the same rca id.                   *)
(***************************************************************************)
EXTENDS Integers, Sequences

CONSTANTS
    Loops,         \* callers of /adaptive-loop
    Confidences,   \* what an analysis may conclude, in percent
    MaxResults     \* bound on the analyses

ASSUME AdaptiveAssumption == Confidences \subseteq 0..100

Threshold == 70      \* confidence_threshold
MaxIterations == 3   \* max_iterations

VARIABLES
    result,   \* result objects in order of creation: [conf, gaps, events]
    stored,   \* rca_results[rca_id]: the object the id names
    loop      \* [caller -> program counter, object held, iterations]

adaptiveVars == <<result, stored, loop>>

AdaptiveInit ==
    /\ \E c \in Confidences, g \in BOOLEAN : result = <<[conf |-> c, gaps |-> g, raised |-> 0]>>
    /\ stored = 1
    /\ loop = [l \in Loops |-> [pc |-> "idle", held |-> 0, n |-> 0]]

\* /analyze again: a new object, its gaps identified anew.
Reanalyze ==
    /\ Len(result) < MaxResults
    /\ \E c \in Confidences, g \in BOOLEAN :
          result' = Append(result, [conf |-> c, gaps |-> g, raised |-> 0])
    /\ stored' = Len(result')
    /\ UNCHANGED loop

\* Mutant: the limit counts the iterations of all callers, as the list the
\* manager keeps of them does.
MutMayIterate(obj, n) == n + obj.raised < MaxIterations /\ obj.conf < Threshold
\* The loop condition.
MayIterate(obj, n) == n < MaxIterations /\ obj.conf < Threshold

\* Where a loop goes after n iterations on object o: it collects data for the
\* gaps, or it is over.
Continue(o, n) ==
    IF MayIterate(result'[o], n) /\ result'[o].gaps THEN "collecting" ELSE "over"

StartLoop(l) ==
    /\ loop[l].pc = "idle"
    /\ UNCHANGED <<result, stored>>
    /\ loop' = [loop EXCEPT ![l] = [pc |-> Continue(stored, 0), held |-> stored, n |-> 0]]

Improvement(c) == IF (100 - c) \div 2 < 15 THEN (100 - c) \div 2 ELSE 15

\* Data arrived: the object is raised in place and the condition looked at.
DataCollected(l) ==
    LET o == loop[l].held
    IN  /\ loop[l].pc = "collecting"
        /\ result' = [result EXCEPT ![o].conf = @ + Improvement(@), ![o].raised = @ + 1]
        /\ loop' = [loop EXCEPT ![l].n = @ + 1, ![l].pc = Continue(o, loop[l].n + 1)]
        /\ UNCHANGED stored

\* The route stores the object it started from.
StoreResult(l) ==
    /\ loop[l].pc = "over"
    /\ stored' = loop[l].held
    /\ loop' = [loop EXCEPT ![l].pc = "done"]
    /\ UNCHANGED result

AdaptiveNext ==
    \/ Reanalyze
    \/ \E l \in Loops : StartLoop(l) \/ DataCollected(l) \/ StoreResult(l)

AdaptiveSpec == AdaptiveInit /\ [][AdaptiveNext]_adaptiveVars

-----------------------------------------------------------------------------
(***************************************************************************)
(* Properties                                                              *)
(***************************************************************************)

\* A loop gives up for one of three reasons: the result it holds reached the
\* threshold, it names no gap, or the caller used its own three iterations;
\* loops of other callers on the same object never cost it one.
LoopSpendsItsBudget ==
    \A l \in Loops : loop[l].pc \in {"over", "done"} =>
        LET obj == result[loop[l].held]
        IN  obj.conf >= Threshold \/ ~obj.gaps \/ loop[l].n = MaxIterations

AdaptiveTypeOK ==
    /\ result \in Seq([conf : 0..100, gaps : BOOLEAN, raised : Nat])
    /\ stored \in DOMAIN result
    /\ loop \in [Loops -> [pc : {"idle", "collecting", "over", "done"},
                           held : Nat, n : 0..MaxIterations]]

\* The inductive strengthening: a loop holds an object once it started, and
\* collects only while it has an iteration left.  That another loop raises the
\* same object meanwhile only brings it nearer to the threshold.
AdaptiveInvariant ==
    /\ AdaptiveTypeOK
    /\ \A l \in Loops : loop[l].pc # "idle" => loop[l].held \in DOMAIN result
    /\ \A l \in Loops : loop[l].pc = "collecting" => loop[l].n < MaxIterations
    /\ LoopSpendsItsBudget

=============================================================================
