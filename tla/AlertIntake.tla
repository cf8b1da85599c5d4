----------------------------- MODULE AlertIntake -----------------------------
(***************************************************************************)
(* Alert intake: services/alert_intake.py with alert_deduplicator.py and   *)
(* entity_risk.py, behind the routes of api/routes/alerts.py.  Every       *)
(* handler runs without an await, so each is one step; the faults are the  *)
(* database going away, and the process restarting.                        *)
(*                                                                         *)
(* An alert is an object shared by the duplicate table and the queue.  The *)
(* column that holds a row's status has room for 20 characters and         *)
(* "pending_evidence_collection" has 27: an enforcing store refuses the    *)
(* insert, a lenient one takes it, and the refusal is swallowed.           *)
(*                                                                         *)
(* A tick is the half life of risk (12 hours), longer than the window of   *)
(* the deduplicator (30 minutes).                                          *)
(***************************************************************************)
EXTENDS Integers, Sequences, FiniteSets

CONSTANTS
    AlertKinds,     \* what arrives: [fp, severity, entities]
    RiskEntities,
    Stores,         \* the databases explored: "none", "lenient", "enforcing"
    MaxAlerts,      \* bound on distinct alerts
    MaxIngests, MaxCalls, LastTick, MaxOutages, MaxRestarts   \* bounds

\* Scores are hundredths, times 2^LastTick so that halving stays exact.
Scale == 8
Score == <<5 * Scale, 20 * Scale, 50 * Scale, 80 * Scale, 95 * Scale>>
PromotionThreshold == 120 * Scale

ASSUME IntakeAssumption == LastTick \in 0..3 /\ \A k \in AlertKinds : k.severity \in 1..5

VARIABLES
    store, up,     \* the database configured, and whether it answers
    tick,
    alert,         \* alert objects: [fp, severity, entities, count, born, life];
                   \* entities of distinct types: merging adds the types missing
    known,         \* alert_fingerprints: set of alert indices still tracked
    queue,         \* in_memory_alerts, by index
    row,           \* AlertRecord.status of each alert, or "absent"
    handed,        \* [alert -> times handed out, by channel]
    risk,          \* [entity -> cumulative, last_updated, promoted, announced]
    calls,         \* GET /pending calls so far
    spent          \* bounds used: [ingests, outages, restarts]

intakeVars == <<store, up, tick, alert, known, queue, row, handed, risk, calls, spent>>

Alerts == DOMAIN alert
NoRisk == [cumulative |-> 0, last |-> 0, promoted |-> FALSE, announced |-> 0]
Pending == "pending_evidence_collection"

IntakeInit ==
    /\ store \in Stores /\ up = (store # "none")
    /\ tick = 0 /\ alert = <<>> /\ known = {} /\ queue = <<>> /\ row = <<>>
    /\ handed = <<>>
    /\ risk = [e \in RiskEntities |-> NoRisk]
    /\ calls = 0 /\ spent = [ingests |-> 0, outages |-> 0, restarts |-> 0]

-----------------------------------------------------------------------------
(* entity_risk.record_alert *)

Halved(x, n) == x \div 2^n

\* Mutant: promotion is announced whenever the risk is over the threshold.
MutRecordRisk(r, score) ==
    LET total   == Halved(r.cumulative, tick - r.last) + score
        crosses == total >= PromotionThreshold
    IN  [cumulative |-> total, last |-> tick, promoted |-> r.promoted \/ crosses,
         announced |-> r.announced + IF crosses THEN 1 ELSE 0]

RecordRisk(r, score) ==
    LET total   == Halved(r.cumulative, tick - r.last) + score
        crosses == total >= PromotionThreshold /\ ~r.promoted
    IN  [cumulative |-> total, last |-> tick, promoted |-> r.promoted \/ crosses,
         announced |-> r.announced + IF crosses THEN 1 ELSE 0]

\* The merged alert's severity counts, for each of its entities.
RiskAfter(a) ==
    [e \in RiskEntities |-> IF e \in a.entities THEN RecordRisk(risk[e], Score[a.severity])
                            ELSE risk[e]]

-----------------------------------------------------------------------------
(* ingest_alert *)

Parent(fp) == {a \in known : alert[a].fp = fp}

\* The insert succeeds in a store that answers and takes the long status;
\* a second insert of the same alert id does not.
RowAfter(a, rows) ==
    IF up /\ store = "lenient" /\ rows[a] = "absent" THEN [rows EXCEPT ![a] = Pending] ELSE rows

\* deduplicate merges into the parent whatever its age.
IngestDuplicate(kind) ==
    /\ spent.ingests < MaxIngests
    /\ \E a \in Parent(kind.fp) :
         LET merged == [alert[a] EXCEPT !.count = @ + 1,
                            !.severity = IF kind.severity > @ THEN kind.severity ELSE @,
                            !.entities = @ \cup kind.entities]
         IN  /\ alert' = [alert EXCEPT ![a] = merged]
             /\ queue' = Append(queue, a)
             /\ row' = RowAfter(a, row)
             /\ risk' = RiskAfter(merged)
    /\ spent' = [spent EXCEPT !.ingests = @ + 1]
    /\ UNCHANGED <<store, up, tick, known, handed, calls>>

IngestNew(kind) ==
    /\ spent.ingests < MaxIngests
    /\ Parent(kind.fp) = {} /\ Len(alert) < MaxAlerts
    /\ LET a   == Len(alert) + 1
           new == [fp |-> kind.fp, severity |-> kind.severity, entities |-> kind.entities,
                   count |-> 1, born |-> tick, life |-> spent.restarts]
       IN  /\ alert' = Append(alert, new)
           /\ known' = known \cup {a}
           /\ queue' = Append(queue, a)
           /\ row' = RowAfter(a, Append(row, "absent"))
           /\ handed' = Append(handed, [database |-> 0, memory |-> 0])
           /\ risk' = RiskAfter(new)
    /\ spent' = [spent EXCEPT !.ingests = @ + 1]
    /\ UNCHANGED <<store, up, tick, calls>>

\* get_pending_alerts with a database that answers: the rows that wait, and
\* nothing of the queue.
Waiting == {a \in Alerts : row[a] = Pending}
\* Mutant: the queue is emptied although the database was asked.
MutQueueAfterDatabase == <<>>
QueueAfterDatabase == queue
RowsAfterDatabase == [a \in Alerts |-> IF a \in Waiting THEN "in_progress" ELSE row[a]]

PendingFromDatabase ==
    /\ up /\ calls < MaxCalls
    /\ handed' = [a \in Alerts |-> IF a \in Waiting
                     THEN [handed[a] EXCEPT !.database = @ + 1] ELSE handed[a]]
    /\ row' = RowsAfterDatabase
    /\ queue' = QueueAfterDatabase
    /\ calls' = calls + 1
    /\ UNCHANGED <<store, up, tick, alert, known, risk, spent>>

\* No database, or it does not answer: the queue is handed out and cleared.
PendingFromMemory ==
    /\ ~up /\ calls < MaxCalls
    /\ handed' = [a \in Alerts |-> IF \E i \in DOMAIN queue : queue[i] = a
                     THEN [handed[a] EXCEPT !.memory = 1] ELSE handed[a]]
    /\ queue' = <<>>
    /\ calls' = calls + 1
    /\ UNCHANGED <<store, up, tick, alert, known, row, risk, spent>>

\* cleanup_expired, when an operator or a scheduler calls it.
CleanupExpired ==
    /\ known' = {a \in known : alert[a].born = tick}
    /\ known' # known
    /\ UNCHANGED <<store, up, tick, alert, queue, row, handed, risk, calls, spent>>

\* entity_risk.reset
ResetRisk(e) ==
    /\ risk[e] # NoRisk
    /\ risk' = [risk EXCEPT ![e] = NoRisk]
    /\ UNCHANGED <<store, up, tick, alert, known, queue, row, handed, calls, spent>>

HalfLife ==
    /\ tick < LastTick
    /\ tick' = tick + 1
    /\ UNCHANGED <<store, up, alert, known, queue, row, handed, risk, calls, spent>>

DatabaseFails ==
    /\ up /\ spent.outages < MaxOutages
    /\ up' = FALSE /\ spent' = [spent EXCEPT !.outages = @ + 1]
    /\ UNCHANGED <<store, tick, alert, known, queue, row, handed, risk, calls>>

DatabaseReturns ==
    /\ ~up /\ store # "none"
    /\ up' = TRUE
    /\ UNCHANGED <<store, tick, alert, known, queue, row, handed, risk, calls, spent>>

\* Everything but the database is lost.
IntakeRestart ==
    /\ spent.restarts < MaxRestarts
    /\ known' = {} /\ queue' = <<>>
    /\ risk' = [e \in RiskEntities |-> NoRisk]
    /\ spent' = [spent EXCEPT !.restarts = @ + 1]
    /\ UNCHANGED <<store, up, tick, alert, row, handed, calls>>

IntakeNext ==
    \/ \E kind \in AlertKinds : IngestNew(kind) \/ IngestDuplicate(kind)
    \/ PendingFromDatabase \/ PendingFromMemory
    \/ CleanupExpired \/ HalfLife \/ IntakeRestart
    \/ DatabaseFails \/ DatabaseReturns
    \/ \E e \in RiskEntities : ResetRisk(e)

IntakeSpec == IntakeInit /\ [][IntakeNext]_intakeVars

-----------------------------------------------------------------------------
(***************************************************************************)
(* Properties                                                              *)
(***************************************************************************)

Handed(a) == handed[a].database + handed[a].memory > 0

\* An accepted alert that nobody was given still waits somewhere: in the
\* queue, or as a pending row; only a restart takes the queue with it, and
\* then only what no row holds.
NothingForgotten ==
    \A a \in Alerts : Handed(a) \/ row[a] = Pending
                      \/ (\E i \in DOMAIN queue : queue[i] = a)
                      \/ (row[a] = "absent" /\ alert[a].life < spent.restarts)

\* A row is handed out of the database at most once, across outages and
\* restarts (the same alert may still come once more out of the queue).
DatabaseHandsOnce == \A a \in Alerts : handed[a].database <= 1

\* Both: between the queue, the table, outages and restarts an alert is
\* neither forgotten nor handed out of the table again.
AlertsAccounted == NothingForgotten /\ DatabaseHandsOnce

\* An entity is promoted as soon as its decayed sum crosses the threshold,
\* and each promotion is announced exactly once until the entity is reset,
\* however often the same fingerprint is merged and counted again.
PromotedOnce ==
    \A e \in RiskEntities :
        /\ risk[e].cumulative >= PromotionThreshold => risk[e].promoted
        /\ risk[e].announced = IF risk[e].promoted THEN 1 ELSE 0

\* "Get all alerts currently pending evidence collection": after a call, no
\* alert accepted by this process is still without a taker.
PendingReturnsAll ==
    [][calls' > calls => \A a \in Alerts : Handed(a)']_intakeVars

AlertObject == [fp : {k.fp : k \in AlertKinds}, severity : 1..5,
                entities : SUBSET UNION {k.entities : k \in AlertKinds},
                count : Nat \ {0}, born : 0..LastTick, life : Nat]

IntakeTypeOK ==
    /\ up \in BOOLEAN /\ tick \in 0..LastTick
    /\ alert \in Seq(AlertObject) /\ known \subseteq Alerts /\ queue \in Seq(Alerts)
    /\ row \in Seq({"absent", Pending, "in_progress"}) /\ Len(row) = Len(alert)
    /\ handed \in Seq([database : 0..1, memory : 0..1]) /\ Len(handed) = Len(alert)
    /\ risk = [e \in RiskEntities |-> risk[e]]
    /\ \A e \in RiskEntities : risk[e].promoted \in BOOLEAN
    /\ spent \in [ingests : Nat, outages : Nat, restarts : Nat]

\* A row is in progress just when its alert was handed out of the table, so
\* that it never waits there again; no alert is from a life to come.
RowsTellHanded ==
    \A a \in Alerts : /\ row[a] = "in_progress" <=> handed[a].database = 1
                      /\ alert[a].life <= spent.restarts

\* The inductive strengthening behind AlertsAccounted and PromotedOnce.
IntakeInvariant == /\ IntakeTypeOK
                   /\ RowsTellHanded
                   /\ NothingForgotten
                   /\ PromotedOnce

=============================================================================
