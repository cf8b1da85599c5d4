-------------------------- MODULE InvestigationApi --------------------------
(***************************************************************************)
(* The investigation routes of api/routes/orchestrator.py, the table they  *)
(* share with the workflow's persist activity, and the memory learnt from  *)
(* analysts' verdicts (services/memory/distillation.py).                   *)
(*                                                                         *)
(* One process serves the routes; without Temporal it also runs the        *)
(* investigations, with Temporal a worker process runs them.  A route that *)
(* does not await keeps its process to itself, but not the other one.      *)
(* services/memory/distillation.py is asked by triage in the process that  *)
(* triages; only the serving process ever distils into its own memory.     *)
(* The 100 rows and 50 workflows of a listing are never exceeded here.     *)
(***************************************************************************)
EXTENDS Integers, Sequences, FiniteSets, SequencesExt

CONSTANTS
    InvIds,          \* investigations (workflow_id)
    Signature,       \* [InvIds -> alert signature of its triage]
    MinSamples,      \* MIN_SAMPLES_FOR_ADJUSTMENT
    Severities,      \* severity of a synthesis
    VerdictRequests, \* [verdict, risk]; "benign" counts as "confirmed_incident"
    MaxRulings, MaxApiLives,   \* bounds
    MaxWorkflows     \* bound on the investigations Temporal runs

ASSUME ApiAssumption ==
    /\ IsFiniteSet(InvIds)
    /\ MinSamples \in Nat \ {0}
    /\ VerdictRequests \subseteq [verdict : {"false_positive", "confirmed_incident"}, risk : Int]

VARIABLES
    setup,      \* [temporal, database]: USE_TEMPORAL, SessionLocal
    run,        \* [InvIds -> [progress, execution, severity, adjusted]]
    memory,     \* IN_MEMORY_INVESTIGATIONS, newest first
    record,     \* InvestigationRecord, the table's row: [InvIds -> row, or NoRow]
    triaged,    \* [InvIds -> where its triage entry can be replayed from]
    ruling,     \* the verdict route under way, or NoRuling
    persist,    \* [InvIds -> the worker's persist activity]
    ruled,      \* [InvIds -> the last verdict committed]
    priors,     \* CompoundingMemory._priors of the serving process
    apiLife, rulings

apiVars == <<setup, run, memory, record, triaged, ruling, persist, ruled, priors, apiLife, rulings>>

Signatures == {Signature[i] : i \in InvIds}
NoRow == [status |-> "absent", severity |-> "none", verdict |-> "none", risk |-> 0]
NewRow == [NoRow EXCEPT !.status = "none"]
NoRuling == [inv |-> "none", verdict |-> "none", risk |-> 0, found |-> FALSE]
NoPriors == [s \in Signatures |-> [total |-> 0, false |-> 0]]

ApiInit ==
    /\ setup \in [temporal : BOOLEAN, database : BOOLEAN]
    /\ run = [i \in InvIds |-> [progress |-> "unknown", execution |-> "none",
                                severity |-> "high", adjusted |-> 0]]
    /\ memory = <<>> /\ record = [i \in InvIds |-> NoRow]
    /\ triaged = [i \in InvIds |-> {}] /\ ruling = NoRuling
    /\ persist = [i \in InvIds |-> "none"] /\ ruled = [i \in InvIds |-> "none"]
    /\ priors = NoPriors /\ apiLife = 1 /\ rulings = 0

Serving == ruling = NoRuling    \* the serving process is not inside a route
Running(i) == run[i].execution = "running"
Runner(i) == setup.temporal \/ Serving   \* the process that runs investigation i is free

-----------------------------------------------------------------------------
(* Compounding memory *)

\* get_memory_verdict_adjustment, in hundredths.
Adjustment(s) ==
    LET p == priors[s]
    IN  IF p.total < MinSamples THEN 0 ELSE (10 * (p.total - 2 * p.false)) \div p.total

\* Mutant: every row counts as a sample.
MutRuled(s) == {i \in InvIds : Signature[i] = s /\ record[i] # NoRow}
Ruled(s) == {i \in InvIds : Signature[i] = s /\ record[i].verdict # "none"}

Distilled(s) ==
    [total |-> Cardinality(Ruled(s)),
     false |-> Cardinality({i \in Ruled(s) : record[i].verdict = "false_positive"})]

\* distill, by POST /memory/distill; the script fills the memory of its own
\* process only.  Without a database the priors are emptied; a query that
\* fails leaves them.
Distil ==
    /\ Serving
    /\ priors' = IF setup.database THEN [s \in Signatures |-> Distilled(s)] ELSE NoPriors
    /\ UNCHANGED <<setup, run, memory, record, triaged, ruling, persist, ruled, apiLife, rulings>>

-----------------------------------------------------------------------------
(* The investigations *)

\* An id is made up when the run starts: which of those not yet used, with the
\* same signature to come, is immaterial.
Unused(s) == {j \in InvIds : Signature[j] = s /\ run[j].execution = "none"}
Investigate(i) ==
    /\ Serving /\ run[i].execution = "none" /\ i = CHOOSE j \in Unused(Signature[i]) : TRUE
    /\ setup.temporal => Cardinality({j \in InvIds : run[j].execution # "none"}) < MaxWorkflows
    /\ \E severity \in Severities :
         run' = [run EXCEPT ![i].progress = "running", ![i].execution = "running",
                            ![i].severity = severity]
    /\ UNCHANGED <<setup, memory, record, triaged, ruling, persist, ruled, priors, apiLife, rulings>>

\* Triage takes the adjustment of its own process and records its entry; the
\* list is its own process's too, the table takes it if it can.
TriageDone(i) ==
    /\ Running(i) /\ Runner(i) /\ triaged[i] = {}
    /\ run' = [run EXCEPT ![i].adjusted = IF setup.temporal THEN 0 ELSE Adjustment(Signature[i])]
    /\ \E stored \in {{}} \cup (IF setup.database THEN {{"table"}} ELSE {}) :
         triaged' = [triaged EXCEPT ![i] =
                        stored \cup {IF setup.temporal THEN "worker" ELSE "list"}]
    /\ UNCHANGED <<setup, memory, record, ruling, persist, ruled, priors, apiLife, rulings>>

\* The columns either writer sets are merged into the row; both look for the
\* score under keys the synthesis does not have, and write a risk of 0.
\* Mutant: the whole row is replaced.
MutMerged(i, severity) == [NewRow EXCEPT !.status = "completed", !.severity = severity]
Merged(i, severity) ==
    [record[i] EXCEPT !.status = "completed", !.risk = 0,
                   !.severity = IF severity = "none" THEN record[i].severity ELSE severity]

\* run_complete passes through event_generator: also for an aborted playbook.
RunCompletes(i) ==
    /\ ~setup.temporal /\ Serving /\ Running(i) /\ triaged[i] # {}
    /\ run' = [run EXCEPT ![i].progress = "completed", ![i].execution = "completed"]
    /\ memory' = <<i>> \o memory
    /\ \/ setup.database /\ record' = [record EXCEPT ![i] = Merged(i, run[i].severity)]
       \/ UNCHANGED record
    /\ UNCHANGED <<setup, triaged, ruling, persist, ruled, priors, apiLife, rulings>>

\* The client leaves, or the orchestrator raises: run_complete is never seen.
\* Mutant: the record is kept whichever way the generator ends.
MutRecordedAtEnd(i) == <<i>> \o memory
RecordedAtEnd(i) == memory
Abandon(i) ==
    /\ ~setup.temporal /\ Serving /\ Running(i)
    /\ run' = [run EXCEPT ![i].execution = "dropped"]
    /\ memory' = RecordedAtEnd(i)
    /\ UNCHANGED <<setup, record, triaged, ruling, persist, ruled, priors, apiLife, rulings>>

\* The workflow reaches its gate, decides it (a signal, or the timer) and
\* completes; a plan without actions has no gate.
ReachGate(i) ==
    /\ setup.temporal /\ Running(i) /\ run[i].progress = "running" /\ triaged[i] # {}
    /\ run' = [run EXCEPT ![i].progress = "pending_approval"]
    /\ UNCHANGED <<setup, memory, record, triaged, ruling, persist, ruled, priors, apiLife, rulings>>

WorkflowCompletes(i) ==
    /\ setup.temporal /\ Running(i) /\ triaged[i] # {}
    /\ run[i].progress \in {"running", "pending_approval"}
    /\ run' = [run EXCEPT ![i].progress = "completed"]
    /\ persist' = [persist EXCEPT ![i] = "due"]
    /\ UNCHANGED <<setup, memory, record, triaged, ruling, ruled, priors, apiLife, rulings>>

\* An attempt of the activity: merge reads the row, commit writes it; without
\* a database it fails and is tried again.
PersistReads(i) ==
    /\ persist[i] = "due" /\ setup.database /\ Running(i)
    /\ persist' = [persist EXCEPT ![i] = IF record[i] = NoRow THEN "insert" ELSE "update"]
    /\ UNCHANGED <<setup, run, memory, record, triaged, ruling, ruled, priors, apiLife, rulings>>

PersistWrites(i) ==
    /\ persist[i] \in {"insert", "update"}
    /\ persist[i] = "insert" => record[i] = NoRow
    /\ record' = [record EXCEPT ![i] = Merged(i, "none")]
    /\ persist' = [persist EXCEPT ![i] = "none"]
    /\ run' = [run EXCEPT ![i].execution = IF Running(i) THEN "completed" ELSE @]
    /\ UNCHANGED <<setup, memory, triaged, ruling, ruled, priors, apiLife, rulings>>

\* The key is taken by now, or the database fails: the attempt is repeated
\* as long as the workflow waits for it.
PersistRetries(i) ==
    /\ persist[i] \in {"insert", "update"}
    /\ persist' = [persist EXCEPT ![i] = IF Running(i) THEN "due" ELSE "none"]
    /\ UNCHANGED <<setup, run, memory, record, triaged, ruling, ruled, priors, apiLife, rulings>>

\* DELETE /investigate/{id}, or a failure of the workflow itself; an attempt
\* under way still writes.
WorkflowEnds(i, how) ==
    /\ setup.temporal /\ Running(i)
    /\ how = "canceled" => Serving
    /\ run' = [run EXCEPT ![i].execution = how]
    /\ persist' = [persist EXCEPT ![i] = IF @ = "due" THEN "none" ELSE @]
    /\ UNCHANGED <<setup, memory, record, triaged, ruling, ruled, priors, apiLife, rulings>>

-----------------------------------------------------------------------------
(* POST /investigations/{id}/verdict *)

\* The triage entry must be found: in the list of this process, or the table.
SubmitVerdict(i, request) ==
    /\ Serving /\ rulings < MaxRulings /\ setup.database
    /\ triaged[i] \cap {"list", "table"} # {}
    /\ ruling' = [inv |-> i, verdict |-> request.verdict, risk |-> request.risk,
                  found |-> record[i] # NoRow]
    /\ rulings' = rulings + 1
    /\ UNCHANGED <<setup, run, memory, record, triaged, persist, ruled, priors, apiLife>>

\* record_verdict commits, or swallows its failure: also that of an insert
\* whose key the worker took in between.  The answer is "recorded" anyway.
CommitVerdict ==
    LET i == ruling.inv
        before == IF ruling.found THEN record[i] ELSE NewRow
    IN  /\ ruling # NoRuling
        /\ \/ /\ ruling.found \/ record[i] = NoRow
              /\ record' = [record EXCEPT ![i] = [before EXCEPT
                            !.verdict = ruling.verdict,
                            !.risk = IF ruling.risk = 0 THEN @ ELSE ruling.risk]]
              /\ ruled' = [ruled EXCEPT ![i] = ruling.verdict]
           \/ UNCHANGED <<record, ruled>>
        /\ ruling' = NoRuling
        /\ UNCHANGED <<setup, run, memory, triaged, persist, priors, apiLife, rulings>>

\* The serving process starts anew.
ApiRestart ==
    /\ apiLife < MaxApiLives
    /\ apiLife' = apiLife + 1
    /\ memory' = <<>> /\ priors' = NoPriors /\ ruling' = NoRuling
    /\ triaged' = [i \in InvIds |-> triaged[i] \ {"list"}]
    /\ run' = [i \in InvIds |->
                  IF ~setup.temporal /\ Running(i) THEN [run[i] EXCEPT !.execution = "dropped"]
                  ELSE run[i]]
    /\ UNCHANGED <<setup, record, persist, ruled, rulings>>

ApiNext ==
    \/ \E i \in InvIds :
         \/ Investigate(i) \/ TriageDone(i) \/ RunCompletes(i) \/ Abandon(i)
         \/ ReachGate(i) \/ WorkflowCompletes(i)
         \/ PersistReads(i) \/ PersistWrites(i) \/ PersistRetries(i)
         \/ \E how \in {"canceled", "failed"} : WorkflowEnds(i, how)
         \/ \E request \in VerdictRequests : SubmitVerdict(i, request)
    \/ CommitVerdict \/ Distil \/ ApiRestart

ApiSpec == ApiInit /\ [][ApiNext]_apiVars

-----------------------------------------------------------------------------
(* GET /investigations, /investigations/{id}/details, /approvals/pending.   *)
(* rows: the database answers; temporal: it "answers" the queries too, only *)
(* the listing while queries stay "silent", or is "down".                   *)

Entry(i, status, severity) == [id |-> i, status |-> status, severity |-> severity]

RowEntries(rows) ==
    {Entry(i, IF record[i].status = "none" THEN "completed" ELSE record[i].status,
           IF record[i].severity # "none" THEN record[i].severity
           ELSE IF record[i].risk > 8 THEN "critical"
           ELSE IF record[i].risk > 5 THEN "high" ELSE "medium") :
        i \in {j \in InvIds : rows /\ setup.database /\ record[j] # NoRow}}

\* A synthesis carries its severity.
MemoryEntries == {Entry(i, "completed", run[i].severity) : i \in ToSet(memory)}

\* get_investigation_status
Progress(i, temporal) ==
    IF temporal = "answers" THEN run[i].progress
    ELSE IF run[i].execution = "completed" THEN "completed" ELSE "unknown"

\* The store asked later wins; the progress hides that a workflow failed.
TemporalEntries(temporal, existing) ==
    {Entry(i, Progress(i, temporal),
           IF temporal = "answers" /\ triaged[i] # {} THEN run[i].severity
           ELSE IF \E e \in existing : e.id = i THEN (CHOOSE e \in existing : e.id = i).severity
           ELSE "high") :
        i \in {j \in InvIds : setup.temporal /\ temporal # "down" /\ run[j].execution # "none"}}

Over(lower, upper) == upper \cup {e \in lower : ~\E u \in upper : u.id = e.id}
Listing(rows, temporal) ==
    LET stored == Over(RowEntries(rows), MemoryEntries)
    IN  Over(stored, TemporalEntries(temporal, stored))

\* get_investigation_details: the row's status stands over the workflow's.
DetailsStatus(i, rows, temporal) ==
    LET first == IF setup.temporal /\ temporal # "down" THEN Progress(i, temporal)
                 ELSE "completed"
        second == IF rows /\ setup.database /\ record[i].status \notin {"absent", "none"}
                  THEN record[i].status ELSE first
    IN  IF i \in ToSet(memory) THEN "completed" ELSE second

PendingApprovals(temporal) ==
    {i \in InvIds : setup.temporal /\ temporal = "answers" /\ Running(i)
                    /\ run[i].progress = "pending_approval"}

-----------------------------------------------------------------------------
(***************************************************************************)
(* Properties                                                              *)
(***************************************************************************)

\* A verdict the table once took stays until the next verdict, although the
\* end of the run writes the same row from the same or another process, with
\* an attempt repeated after a conflict of keys; and triage was nudged only
\* where as many investigations of the signature as the code demands were
\* ruled on, each counted once however often it was, and by a tenth at most.
MemoryRestsOnRulings ==
    /\ \A i \in InvIds : ruled[i] # "none" => record[i].verdict = ruled[i]
    /\ \A i \in InvIds : run[i].adjusted # 0 =>
          /\ run[i].adjusted \in -10..10
          /\ Cardinality({j \in InvIds : Signature[j] = Signature[i] /\ ruled[j] # "none"})
                >= MinSamples

\* Whichever stores answer: an investigation is listed once; one listed as
\* completed has completed, or an analyst ruled on it and Temporal could not
\* correct the empty row that made; what waits for approval is not listed as
\* completed; the details show another status only where the workflow itself
\* did not answer and the row did.
ListingHonest ==
    \A rows \in BOOLEAN, temporal \in {"answers", "silent", "down"} :
        LET shown == Listing(rows, temporal)
        IN  \A e \in shown :
              /\ \A f \in shown : f.id = e.id => f = e
              /\ e.status = "completed" =>
                    \/ run[e.id].progress = "completed"
                    \/ ruled[e.id] # "none" /\ (setup.temporal => temporal = "down")
              /\ e.id \in PendingApprovals(temporal) => e.status = "pending_approval"
              /\ DetailsStatus(e.id, rows, temporal) # e.status =>
                    setup.temporal /\ temporal = "silent" /\ record[e.id].status = "completed"

Verdicts == {"none", "false_positive", "confirmed_incident"}

ApiTypeOK ==
    /\ setup \in [temporal : BOOLEAN, database : BOOLEAN]
    /\ run \in [InvIds -> [progress : {"unknown", "running", "pending_approval", "completed"},
                           execution : {"none", "running", "completed", "dropped",
                                        "canceled", "failed"},
                           severity : {"high"} \cup Severities, adjusted : Int]]
    /\ memory \in Seq(InvIds)
    /\ record \in [InvIds -> [status : {"absent", "none", "completed"},
                              severity : {"none", "high"} \cup Severities,
                              verdict : Verdicts, risk : Int]]
    /\ triaged \in [InvIds -> SUBSET {"list", "table", "worker"}]
    /\ ruling \in {NoRuling} \cup [inv : InvIds, verdict : Verdicts \ {"none"},
                                   risk : Int, found : BOOLEAN]
    /\ persist \in [InvIds -> {"none", "due", "insert", "update"}]
    /\ ruled \in [InvIds -> Verdicts]
    /\ priors \in [Signatures -> [total : Nat, false : Nat]]
    /\ apiLife \in Nat /\ rulings \in Nat

\* What the stores say of one investigation: the row has the verdict last
\* committed, exists only once the run was started, is "completed" only once
\* the run is, as is the memory's entry and the end of the execution; a row
\* without a status is the verdict's own.
StoresAgree(i) ==
    /\ record[i].verdict = ruled[i]
    /\ record[i] # NoRow => record[i].status # "absent" /\ run[i].execution # "none"
    /\ record[i].status = "completed" => run[i].progress = "completed"
    /\ record[i].status = "none" => ruled[i] # "none"
    /\ run[i].execution = "none" => run[i].progress = "unknown"
    /\ run[i].execution = "completed" => run[i].progress = "completed"
    /\ persist[i] # "none" \/ i \in ToSet(memory) => run[i].progress = "completed"
    /\ triaged[i] # {} => run[i].execution # "none"

\* A verdict under way is on a run that started, and a row it found is there.
RulingRests ==
    ruling # NoRuling => /\ run[ruling.inv].execution # "none"
                         /\ ruling.found => record[ruling.inv] # NoRow

\* What was distilled counts no more than what was ruled; rulings only grow.
RuledOn(s) == {j \in InvIds : Signature[j] = s /\ ruled[j] # "none"}
PriorsRest ==
    \A s \in Signatures : /\ priors[s].false <= priors[s].total
                          /\ priors[s].total <= Cardinality(RuledOn(s))

\* The inductive strengthening behind MemoryRestsOnRulings and ListingHonest.
ApiInvariant ==
    /\ ApiTypeOK
    /\ \A i \in InvIds : StoresAgree(i)
    /\ setup.temporal => memory = <<>>
    /\ RulingRests
    /\ PriorsRest
    /\ MemoryRestsOnRulings
=============================================================================
