-------------------------- MODULE IncidentResponse --------------------------
(***************************************************************************)
(* POST /respond, /close-incident and /generate-reports of                 *)
(* api/routes/rca.py over IncidentLifecycleManager of                      *)
(* services/response_orchestration.py.                                     *)
(*                                                                         *)
(* A response request is a coroutine.  It is suspended twice, inside the   *)
(* two executions of the plan, and other requests run meanwhile.  An       *)
(* incident is a mutable record; the incidents table maps an id to a       *)
(* record, and the id is the wall clock in seconds: two incidents of one   *)
(* second share the id, and the later record replaces the earlier.         *)
(***************************************************************************)
EXTENDS Integers, Sequences, FiniteSets

CONSTANTS
    Requests,      \* callers of /respond
    Rcas,          \* stored root cause results
    Plan,          \* [rca -> set of actions its plan recommends]
    BlastRadius,   \* [rca -> estimated blast radius]
    LastSecond     \* bound on the clock

NoRecord == 0

ASSUME IncidentAssumption == IsFiniteSet(Requests) /\ LastSecond \in Nat \ {0}

VARIABLES
    second,     \* the clock incident ids are made of
    incident,   \* incident records, in order of creation
    table,      \* IncidentLifecycleManager.incidents: [second -> record or NoRecord]
    request,    \* [request -> program counter and locals]
    created,    \* incidents_created: [second -> rca of the last writer, or "none"]
    report      \* reports generated: set of [id, rca]

incidentVars == <<second, incident, table, request, created, report>>

Idle == [pc |-> "idle", rca |-> "none", id |-> 0, held |-> NoRecord, ran |-> {}]
Held(r) == request[r].held

\* The plan was carried out, or every action was refused (kill switch).
Outcomes(rca) == {Plan[rca], {}}

AssessSeverity(rca) ==
    LET radius == BlastRadius[rca]
    IN  IF radius > 100 THEN "critical" ELSE IF radius > 50 THEN "high"
        ELSE IF radius > 10 THEN "medium" ELSE "low"

IncidentInit ==
    /\ second = 1
    /\ incident = <<>>
    /\ table = [s \in 1..LastSecond |-> NoRecord]
    /\ request = [r \in Requests |-> Idle]
    /\ created = [s \in 1..LastSecond |-> "none"]
    /\ report = {}

Tick == /\ second < LastSecond
        /\ second' = second + 1
        /\ UNCHANGED <<incident, table, request, created, report>>

\* Mutant: an id that is taken has its record opened anew.
MutOpened(record) ==
    IF table[second] = NoRecord THEN Append(incident, record)
    ELSE [incident EXCEPT ![table[second]] = record]
Opened(record) == Append(incident, record)

\* create_incident, then into the first execution of the plan.
Respond(r, rca) ==
    /\ request[r].pc = "idle"
    /\ incident' = Opened([rca |-> rca, status |-> "open",
                           severity |-> AssessSeverity(rca), executed |-> {},
                           timeline |-> <<"incident_created">>])
    /\ table' = [table EXCEPT ![second] = Len(incident')]
    /\ request' = [request EXCEPT ![r] = [pc |-> "first", rca |-> rca, id |-> second,
                                          held |-> NoRecord, ran |-> {}]]
    /\ UNCHANGED <<second, created, report>>

\* The plan of the request's own result is done; execute_incident_response
\* takes the record its id now names and runs that record's plan.
FirstPlanDone(r) ==
    /\ request[r].pc = "first"
    /\ \E done \in Outcomes(request[r].rca) :
         request' = [request EXCEPT ![r].pc = "second", ![r].ran = done,
                                    ![r].held = table[request[r].id]]
    /\ UNCHANGED <<second, incident, table, created, report>>

\* Mutant: the record is looked up again after the plan was run.
MutUpdated(r) == table[request[r].id]
\* The record the second execution updates: the one read before it.
Updated(r) == Held(r)

StoredId(r) == request[r].id

\* The second execution is done: the record read before it is updated, the
\* timeline entry goes to the record the id names now.
SecondPlanDone(r) ==
    /\ request[r].pc = "second"
    /\ \E done \in Outcomes(incident[Held(r)].rca) :
         LET changed == [incident EXCEPT ![Updated(r)].status = "responding",
                                         ![Updated(r)].executed = done]
         IN  incident' = [changed EXCEPT ![table[request[r].id]].timeline =
                              Append(@, "response_executed")]
    /\ created' = [created EXCEPT ![StoredId(r)] = request[r].rca]
    /\ request' = [request EXCEPT ![r].pc = "done", ![r].held = NoRecord]
    /\ UNCHANGED <<second, table, report>>

\* close_incident: whatever the status is.
CloseIncident(id) ==
    /\ table[id] # NoRecord
    /\ incident[table[id]].status # "closed"   \* a second close only adds notes
    /\ incident' = [incident EXCEPT ![table[id]].status = "closed",
                                    ![table[id]].timeline = Append(@, "incident_closed")]
    /\ UNCHANGED <<second, table, request, created, report>>

\* generate_reports: known once the response was stored.
GenerateReports(id) ==
    /\ created[id] # "none"
    /\ report' = report \cup {[id |-> id, rca |-> created[id]]}
    /\ UNCHANGED <<second, incident, table, request, created>>

IncidentNext ==
    \/ Tick
    \/ \E r \in Requests, rca \in Rcas : Respond(r, rca)
    \/ \E r \in Requests : FirstPlanDone(r) \/ SecondPlanDone(r)
    \/ \E id \in 1..LastSecond : CloseIncident(id) \/ GenerateReports(id)

IncidentSpec == IncidentInit /\ [][IncidentNext]_incidentVars

-----------------------------------------------------------------------------
(***************************************************************************)
(* Properties                                                              *)
(***************************************************************************)

\* What an incident says was executed is the plan of the very result it
\* records, or nothing, also when its id was taken over by another incident
\* while the plan ran.
RecordMatchesPlan ==
    \A i \in DOMAIN incident :
        incident[i].executed # {} => incident[i].executed = Plan[incident[i].rca]

\* An incident whose id no other request was given is consistent throughout:
\* its stored response, its reports and its record speak of one result.
ReportMatchesIncident ==
    \A id \in 1..LastSecond :
        Cardinality({r \in Requests : request[r].pc # "idle" /\ request[r].id = id}) = 1 =>
            /\ created[id] # "none" => created[id] = incident[table[id]].rca
            /\ \A d \in report : d.id = id => d.rca = incident[table[id]].rca

\* Both: whatever requests share, a record, its stored response and its
\* reports tell one story.
IncidentConsistent == RecordMatchesPlan /\ ReportMatchesIncident

\* A closed incident is reopened only by a response that already holds this
\* very record, the code's execute_incident_response (which never looks at the
\* status): neither by a later incident of its second, which takes its id, nor
\* by the response to that one.
ClosedIsFinal ==
    [][\A i \in DOMAIN incident :
          /\ incident[i].status = "closed"
          /\ ~\E r \in Requests : request[r].pc = "second" /\ Held(r) = i
          => incident'[i].status = "closed"]_incidentVars

Incident == [rca : Rcas, status : {"open", "responding", "closed"},
             severity : {"critical", "high", "medium", "low"},
             executed : {{}} \cup {Plan[rca] : rca \in Rcas},
             timeline : Seq({"incident_created", "response_executed", "incident_closed"})]

IncidentTypeOK ==
    /\ second \in 1..LastSecond
    /\ incident \in Seq(Incident)
    /\ table \in [1..LastSecond -> 0..Len(incident)]
    /\ request \in [Requests -> [pc : {"idle", "first", "second", "done"},
                                 rca : Rcas \cup {"none"}, id : 0..LastSecond,
                                 held : 0..Len(incident),
                                 ran : {{}} \cup {Plan[rca] : rca \in Rcas}]]
    /\ created \in [1..LastSecond -> Rcas \cup {"none"}]
    /\ report \subseteq [id : 1..LastSecond, rca : Rcas \cup {"none"}]

\* A request that left "idle" was given an id, which names a record from then
\* on; while it is suspended in the second execution it holds one.
RequestsHoldRecords ==
    \A r \in Requests : request[r].pc # "idle" =>
        /\ request[r].rca \in Rcas
        /\ request[r].id # 0 /\ table[request[r].id] # NoRecord
        /\ request[r].pc = "second" => Held(r) # NoRecord

\* The results of the requests that were given an id.
Sharing(id) == {r \in Requests : request[r].pc # "idle" /\ request[r].id = id}
Told(id) == {request[r].rca : r \in Sharing(id)}

\* Whatever speaks of an id, its record, its stored response or a report,
\* speaks of the result of a request that was given the id.
IdsSpeakOfRequests ==
    \A id \in 1..LastSecond :
        /\ table[id] # NoRecord => incident[table[id]].rca \in Told(id)
        /\ created[id] # "none" => created[id] \in Told(id)
        /\ \A d \in report : d.id = id => d.rca \in Told(id)

\* The inductive strengthening behind IncidentConsistent.
IncidentInvariant ==
    /\ IncidentTypeOK
    /\ RequestsHoldRecords
    /\ RecordMatchesPlan
    /\ IdsSpeakOfRequests

=============================================================================
