--------------------------- MODULE IncidentProofs ---------------------------
(***************************************************************************)
(* Proofs about IncidentResponse and AdaptiveInvestigation, the two        *)
(* services whose coroutines are suspended between reading a record and    *)
(* writing it, for every set of callers, results and plans, and about the  *)
(* analysis before them: the compression of a log and the root cause of a  *)
(* package, for every log and every graph of entities.                     *)
(*                                                                         *)
(* The property of the incidents compares the record, the stored response  *)
(* and the reports of an id only where one request owns the id, which no   *)
(* step preserves.  What every step does preserve is that whatever speaks  *)
(* of an id speaks of the result of some request that was given it; with   *)
(* one such request the three coincide.                                    *)
(***************************************************************************)
EXTENDS IncidentResponse, AdaptiveInvestigation, AnalysisService, FiniteSetTheorems,
        SequenceTheorems, WellFoundedInduction, TLAPS

USE DEF NoRecord

-----------------------------------------------------------------------------
(* The records of the incidents *)

LEMMA NewIncident ==
    ASSUME IncidentTypeOK, NEW r \in Requests, NEW about \in Rcas, Respond(r, about)
    PROVE  /\ incident' \in Seq(Incident) /\ Len(incident') = Len(incident) + 1
           /\ incident'[Len(incident')].rca = about
           /\ incident'[Len(incident')].executed = {}
           /\ \A i \in 1..Len(incident) : incident'[i] = incident[i]
<1> DEFINE new == [rca |-> about, status |-> "open", severity |-> AssessSeverity(about),
                   executed |-> {}, timeline |-> <<"incident_created">>]
<1>1. new \in Incident
  BY DEF Incident, AssessSeverity
<1>2. incident' = Append(incident, new) /\ incident \in Seq(Incident)
  BY DEF Respond, Opened, IncidentTypeOK
<1> QED
  BY <1>1, <1>2

\* A line in the timeline, with or without the status that goes with it.
LEMMA NotedIncident ==
    ASSUME NEW i \in Incident,
           NEW entry \in {"incident_created", "response_executed", "incident_closed"}
    PROVE  /\ [i EXCEPT !.timeline = Append(@, entry)] \in Incident
           /\ [i EXCEPT !.timeline = Append(@, entry)].rca = i.rca
           /\ [i EXCEPT !.timeline = Append(@, entry)].executed = i.executed
           /\ [i EXCEPT !.timeline = Append(@, entry)].status = i.status
           /\ [i EXCEPT !.status = "closed", !.timeline = Append(@, entry)] \in Incident
           /\ [i EXCEPT !.status = "closed", !.timeline = Append(@, entry)].rca = i.rca
           /\ [i EXCEPT !.status = "closed", !.timeline = Append(@, entry)].executed = i.executed
           /\ [i EXCEPT !.status = "closed", !.timeline = Append(@, entry)].status = "closed"
<1> DEFINE Entries == {"incident_created", "response_executed", "incident_closed"}
<1>1. i.timeline \in Seq(Entries)
  BY DEF Incident
<1>2. Append(i.timeline, entry) \in Seq(Entries)
  BY <1>1
<1> QED
  BY <1>2 DEF Incident

-----------------------------------------------------------------------------
(* Who was given an id *)

LEMMA ToldIs ==
    ASSUME NEW id, NEW x
    PROVE  x \in Told(id) <=> \E r \in Requests : /\ request[r].pc # "idle"
                                                 /\ request[r].id = id
                                                 /\ request[r].rca = x
  BY DEF Told, Sharing

LEMMA ToldNextIs ==
    ASSUME NEW id, NEW x
    PROVE  x \in Told(id)' <=> \E r \in Requests : /\ request'[r].pc # "idle"
                                                  /\ request'[r].id = id
                                                  /\ request'[r].rca = x
  BY DEF Told, Sharing

\* A request that was given an id keeps it: the set of results told only grows.
LEMMA ToldGrows ==
    ASSUME NEW id,
           \A r \in Requests : request[r].pc # "idle" =>
               /\ request'[r].pc # "idle" /\ request'[r].id = request[r].id
               /\ request'[r].rca = request[r].rca
    PROVE  Told(id) \subseteq Told(id)'
  BY ToldIs, ToldNextIs

-----------------------------------------------------------------------------
(* The invariant, step by step *)

LEMMA IncidentInitInductive == IncidentInit => IncidentInvariant
<1> SUFFICES ASSUME IncidentInit PROVE IncidentInvariant
  OBVIOUS
<1>1. IncidentTypeOK
  BY IncidentAssumption DEF IncidentInit, IncidentTypeOK, Idle
<1>2. RequestsHoldRecords
  BY DEF IncidentInit, RequestsHoldRecords, Idle
<1>3. RecordMatchesPlan
  BY DEF IncidentInit, RecordMatchesPlan
<1>4. IdsSpeakOfRequests
  BY DEF IncidentInit, IdsSpeakOfRequests
<1> QED
  BY <1>1, <1>2, <1>3, <1>4 DEF IncidentInvariant

LEMMA TickKeeps ==
    ASSUME IncidentInvariant, Tick
    PROVE  IncidentInvariant'
<1> USE DEF Tick
<1>1. IncidentTypeOK'
  BY IncidentAssumption DEF IncidentInvariant, IncidentTypeOK
<1>2. RequestsHoldRecords'
  BY DEF IncidentInvariant, RequestsHoldRecords, Held
<1>3. RecordMatchesPlan'
  BY DEF IncidentInvariant, RecordMatchesPlan
<1>4. IdsSpeakOfRequests'
  BY DEF IncidentInvariant, IdsSpeakOfRequests, Told, Sharing
<1> QED
  BY <1>1, <1>2, <1>3, <1>4 DEF IncidentInvariant

LEMMA RespondKeeps ==
    ASSUME IncidentInvariant, NEW r \in Requests, NEW about \in Rcas, Respond(r, about)
    PROVE  IncidentInvariant'
<1> DEFINE new == [pc |-> "first", rca |-> about, id |-> second, held |-> NoRecord, ran |-> {}]
<1>0. /\ IncidentTypeOK /\ RequestsHoldRecords /\ RecordMatchesPlan /\ IdsSpeakOfRequests
      /\ request[r].pc = "idle"
      /\ table' = [table EXCEPT ![second] = Len(incident')]
      /\ request' = [request EXCEPT ![r] = new]
      /\ UNCHANGED <<second, created, report>>
  BY DEF IncidentInvariant, Respond
<1>1. /\ incident' \in Seq(Incident) /\ Len(incident') = Len(incident) + 1
      /\ incident'[Len(incident')].rca = about
      /\ incident'[Len(incident')].executed = {}
      /\ \A i \in 1..Len(incident) : incident'[i] = incident[i]
  BY <1>0, NewIncident
<1>2. /\ second \in 1..LastSecond /\ incident \in Seq(Incident)
      /\ table \in [1..LastSecond -> 0..Len(incident)] /\ Len(incident) \in Nat
  BY <1>0 DEF IncidentTypeOK
<1>3. request' = [q \in Requests |-> IF q = r THEN new ELSE request[q]]
  BY <1>0 DEF IncidentTypeOK
<1>4. IncidentTypeOK'
  <2>1. table' \in [1..LastSecond -> 0..Len(incident')]
    BY <1>0, <1>1, <1>2
  <2>2. new \in [pc : {"idle", "first", "second", "done"}, rca : Rcas \cup {"none"},
                 id : 0..LastSecond, held : 0..Len(incident'),
                 ran : {{}} \cup {Plan[x] : x \in Rcas}]
    BY <1>1, <1>2
  <2>3. \A q \in Requests : request[q] \in
            [pc : {"idle", "first", "second", "done"}, rca : Rcas \cup {"none"},
             id : 0..LastSecond, held : 0..Len(incident'),
             ran : {{}} \cup {Plan[x] : x \in Rcas}]
    BY <1>0, <1>1, <1>2 DEF IncidentTypeOK
  <2>4. request' \in
            [Requests -> [pc : {"idle", "first", "second", "done"}, rca : Rcas \cup {"none"},
             id : 0..LastSecond, held : 0..Len(incident'),
             ran : {{}} \cup {Plan[x] : x \in Rcas}]]
    <3> HIDE DEF new
    <3> QED
      BY <1>3, <2>2, <2>3
  <2> QED
    BY <1>0, <1>1, <2>1, <2>4 DEF IncidentTypeOK
<1>5. RequestsHoldRecords'
  <2> SUFFICES ASSUME NEW q \in Requests, request'[q].pc # "idle"
               PROVE  /\ request'[q].rca \in Rcas
                      /\ request'[q].id # 0 /\ table'[request'[q].id] # NoRecord
                      /\ request'[q].pc = "second" => request'[q].held # NoRecord
    BY DEF RequestsHoldRecords, Held
  <2>1. CASE q = r
    BY <2>1, <1>0, <1>1, <1>2, <1>3
  <2>2. CASE q # r
    <3>1. request'[q] = request[q] /\ request[q].id \in 0..LastSecond
      BY <2>2, <1>0, <1>3 DEF IncidentTypeOK
    <3> QED
      BY <3>1, <1>0, <1>1, <1>2 DEF RequestsHoldRecords, Held
  <2> QED
    BY <2>1, <2>2
<1>6. RecordMatchesPlan'
  <2>1. DOMAIN incident' = 1..(Len(incident) + 1) /\ DOMAIN incident = 1..Len(incident)
    BY <1>1, <1>2
  <2> SUFFICES ASSUME NEW i \in 1..(Len(incident) + 1), incident'[i].executed # {}
               PROVE  incident'[i].executed = Plan[incident'[i].rca]
    BY <2>1 DEF RecordMatchesPlan
  <2>2. i \in 1..Len(incident)
    BY <1>1, <1>2
  <2> QED
    BY <2>1, <2>2, <1>0, <1>1 DEF RecordMatchesPlan
<1>7. IdsSpeakOfRequests'
  <2> SUFFICES ASSUME NEW id \in 1..LastSecond
               PROVE  /\ table'[id] # NoRecord => incident'[table'[id]].rca \in Told(id)'
                      /\ created[id] # "none" => created[id] \in Told(id)'
                      /\ \A d \in report : d.id = id => d.rca \in Told(id)'
    BY <1>0 DEF IdsSpeakOfRequests
  <2>1. Told(id) \subseteq Told(id)'
    BY <1>0, <1>3, ToldGrows
  <2>2. CASE id = second
    <3>1. incident'[table'[id]].rca = about
      BY <2>2, <1>0, <1>1, <1>2
    <3>2. about \in Told(id)'
      BY <2>2, <1>3, ToldNextIs
    <3> QED
      BY <2>1, <3>1, <3>2, <1>0 DEF IdsSpeakOfRequests
  <2>3. CASE id # second
    <3>1. table'[id] = table[id] /\ (table[id] # NoRecord => table[id] \in 1..Len(incident))
      BY <2>3, <1>0, <1>2
    <3> QED
      BY <2>1, <3>1, <1>0, <1>1 DEF IdsSpeakOfRequests
  <2> QED
    BY <2>2, <2>3
<1> QED
  BY <1>4, <1>5, <1>6, <1>7 DEF IncidentInvariant

\* The steps of a request that was given its id: it keeps the id and the result.
RequestMoves(r, pc, held, ran) ==
    request' = [request EXCEPT ![r] = [@ EXCEPT !.pc = pc, !.held = held, !.ran = ran]]

LEMMA RequestStep ==
    ASSUME IncidentTypeOK, NEW r \in Requests, request[r].pc # "idle",
           NEW pc \in {"first", "second", "done"}, NEW held \in 0..Len(incident),
           NEW ran \in {{}} \cup {Plan[x] : x \in Rcas},
           RequestMoves(r, pc, held, ran)
    PROVE  /\ request' \in [Requests -> [pc : {"idle", "first", "second", "done"},
                                          rca : Rcas \cup {"none"}, id : 0..LastSecond,
                                          held : 0..Len(incident),
                                          ran : {{}} \cup {Plan[x] : x \in Rcas}]]
           /\ request'[r].pc = pc /\ request'[r].held = held
           /\ request'[r].id = request[r].id /\ request'[r].rca = request[r].rca
           /\ \A q \in Requests : q # r => request'[q] = request[q]
<1> DEFINE Locals == [pc : {"idle", "first", "second", "done"}, rca : Rcas \cup {"none"},
                      id : 0..LastSecond, held : 0..Len(incident),
                      ran : {{}} \cup {Plan[x] : x \in Rcas}]
           new == [request[r] EXCEPT !.pc = pc, !.held = held, !.ran = ran]
<1>1. request \in [Requests -> Locals]
  BY DEF IncidentTypeOK
<1>2. /\ new \in Locals /\ new.pc = pc /\ new.held = held
      /\ new.id = request[r].id /\ new.rca = request[r].rca
  BY <1>1
<1>3. request' = [request EXCEPT ![r] = new]
  BY DEF RequestMoves
<1> HIDE DEF new, Locals
<1>4. request' \in [Requests -> Locals] /\ request'[r] = new
      /\ \A q \in Requests : q # r => request'[q] = request[q]
  BY <1>1, <1>2, <1>3
<1> QED
  BY <1>2, <1>4 DEF Locals

LEMMA ToldStays ==
    ASSUME NEW r \in Requests, request[r].pc # "idle", request'[r].pc # "idle",
           request'[r].id = request[r].id, request'[r].rca = request[r].rca,
           \A q \in Requests : q # r => request'[q] = request[q]
    PROVE  \A id : Told(id) \subseteq Told(id)'
  BY ToldGrows

LEMMA FirstPlanDoneKeeps ==
    ASSUME IncidentInvariant, NEW r \in Requests, FirstPlanDone(r)
    PROVE  IncidentInvariant'
<1>0. /\ IncidentTypeOK /\ RequestsHoldRecords /\ RecordMatchesPlan /\ IdsSpeakOfRequests
      /\ request[r].pc = "first"
      /\ UNCHANGED <<second, incident, table, created, report>>
  BY DEF IncidentInvariant, FirstPlanDone
<1>1. /\ request[r].rca \in Rcas /\ request[r].id \in 1..LastSecond
      /\ table[request[r].id] \in 0..Len(incident) /\ table[request[r].id] # NoRecord
  BY <1>0 DEF RequestsHoldRecords, IncidentTypeOK
<1>2. PICK done \in Outcomes(request[r].rca) :
          request' = [request EXCEPT ![r].pc = "second", ![r].ran = done,
                                     ![r].held = table[request[r].id]]
  BY DEF FirstPlanDone
<1> DEFINE new == [request[r] EXCEPT !.pc = "second", !.held = table[request[r].id],
                                     !.ran = done]
<1>9. request' = [request EXCEPT ![r] = new]
  BY <1>0, <1>2 DEF IncidentTypeOK
<1>10. RequestMoves(r, "second", table[request[r].id], done)
  BY <1>9 DEF RequestMoves
<1>3. done \in {{}} \cup {Plan[x] : x \in Rcas}
  BY <1>1, <1>2 DEF Outcomes
<1>4. /\ request' \in [Requests -> [pc : {"idle", "first", "second", "done"},
                                     rca : Rcas \cup {"none"}, id : 0..LastSecond,
                                     held : 0..Len(incident),
                                     ran : {{}} \cup {Plan[x] : x \in Rcas}]]
      /\ request'[r].pc = "second" /\ request'[r].held = table[request[r].id]
      /\ request'[r].id = request[r].id /\ request'[r].rca = request[r].rca
      /\ \A q \in Requests : q # r => request'[q] = request[q]
  BY <1>0, <1>1, <1>10, <1>3, RequestStep
<1>5. IncidentTypeOK'
  BY <1>0, <1>4 DEF IncidentTypeOK
<1>6. RequestsHoldRecords'
  BY <1>0, <1>1, <1>4 DEF RequestsHoldRecords, Held
<1>7. RecordMatchesPlan'
  BY <1>0 DEF RecordMatchesPlan
<1>8. IdsSpeakOfRequests'
  BY <1>0, <1>4, ToldStays DEF IdsSpeakOfRequests
<1> QED
  BY <1>5, <1>6, <1>7, <1>8 DEF IncidentInvariant

\* What is preserved whenever records change but not whose result they are of.
LEMMA RecordsKeepResults ==
    ASSUME IncidentTypeOK, IdsSpeakOfRequests,
           incident' \in Seq(Incident), Len(incident') = Len(incident),
           \A i \in 1..Len(incident) : incident'[i].rca = incident[i].rca,
           \A id : Told(id) \subseteq Told(id)',
           table' = table, report' = report,
           \A id \in 1..LastSecond : created'[id] = created[id] \/ created'[id] \in Told(id)'
    PROVE  IdsSpeakOfRequests'
<1> SUFFICES ASSUME NEW id \in 1..LastSecond
             PROVE  /\ table[id] # NoRecord => incident'[table[id]].rca \in Told(id)'
                    /\ created'[id] # "none" => created'[id] \in Told(id)'
                    /\ \A d \in report : d.id = id => d.rca \in Told(id)'
  BY DEF IdsSpeakOfRequests
<1>1. table[id] # NoRecord => table[id] \in 1..Len(incident)
  BY DEF IncidentTypeOK
<1> QED
  BY <1>1 DEF IdsSpeakOfRequests

\* The record that is updated is of one result throughout, so that it gets the
\* outcome of its own plan, also when another request took its id meanwhile;
\* that request's record only gets the line of the timeline.
LEMMA SecondPlanDoneKeeps ==
    ASSUME IncidentInvariant, NEW r \in Requests, SecondPlanDone(r)
    PROVE  /\ IncidentInvariant'
           /\ \A i \in 1..Len(incident) :
                 i # Held(r) => incident'[i].status = incident[i].status
<1> DEFINE h == Held(r)
           k == table[request[r].id]
<1>0. /\ IncidentTypeOK /\ RequestsHoldRecords /\ RecordMatchesPlan /\ IdsSpeakOfRequests
      /\ request[r].pc = "second"
      /\ created' = [created EXCEPT ![request[r].id] = request[r].rca]
      /\ UNCHANGED <<second, table, report>>
  BY DEF IncidentInvariant, SecondPlanDone, StoredId
<1>1. /\ request[r].rca \in Rcas /\ request[r].id \in 1..LastSecond
      /\ request[r].ran \in {{}} \cup {Plan[x] : x \in Rcas}
      /\ k \in 1..Len(incident) /\ h \in 1..Len(incident)
      /\ incident \in Seq(Incident)
  <2>1. /\ request[r].rca \in Rcas /\ request[r].id # 0
        /\ table[request[r].id] # NoRecord /\ Held(r) # NoRecord
    BY <1>0 DEF RequestsHoldRecords
  <2>2. /\ request[r].id \in 0..LastSecond /\ request[r].held \in 0..Len(incident)
        /\ request[r].ran \in {{}} \cup {Plan[x] : x \in Rcas}
        /\ incident \in Seq(Incident) /\ table \in [1..LastSecond -> 0..Len(incident)]
    BY <1>0 DEF IncidentTypeOK
  <2>3. request[r].id \in 1..LastSecond
    BY <2>1, <2>2, IncidentAssumption
  <2> QED
    BY <2>1, <2>2, <2>3 DEF Held
<1>2. PICK done \in Outcomes(incident[h].rca) :
          incident' = [[incident EXCEPT ![h].status = "responding", ![h].executed = done]
                          EXCEPT ![k].timeline = Append(@, "response_executed")]
  BY DEF SecondPlanDone, Updated
<1> DEFINE answered == [incident[h] EXCEPT !.status = "responding", !.executed = done]
           changed == [incident EXCEPT ![h] = answered]
           noted == [changed[k] EXCEPT !.timeline = Append(@, "response_executed")]
<1>3. answered \in Incident /\ answered.rca = incident[h].rca /\ answered.executed = done
  <2>1. incident[h] \in Incident
    BY <1>1
  <2>2. done \in {{}} \cup {Plan[x] : x \in Rcas}
    BY <2>1, <1>2 DEF Outcomes, Incident
  <2> QED
    BY <2>1, <2>2 DEF Incident
<1>4. changed \in Seq(Incident) /\ Len(changed) = Len(incident)
  BY <1>1, <1>3
<1>5. noted \in Incident /\ noted.rca = changed[k].rca /\ noted.executed = changed[k].executed
      /\ noted.status = changed[k].status
  <2>1. changed[k] \in Incident
    BY <1>1, <1>4
  <2> HIDE DEF changed
  <2> QED
    BY <2>1, NotedIncident
<1>6. incident' = [changed EXCEPT ![k] = noted]
  <2>1. changed = [incident EXCEPT ![h].status = "responding", ![h].executed = done]
    BY <1>1
  <2> QED
    BY <1>1, <1>2, <1>4, <2>1
<1>7. /\ incident' \in Seq(Incident) /\ Len(incident') = Len(incident)
      /\ \A i \in 1..Len(incident) : incident'[i].rca = incident[i].rca
      /\ \A i \in 1..Len(incident) : i # h => incident'[i].executed = incident[i].executed
      /\ incident'[h].executed = done
      /\ \A i \in 1..Len(incident) : i # h => incident'[i].status = incident[i].status
  <2>1. /\ incident' \in Seq(Incident) /\ Len(incident') = Len(changed)
        /\ \A i \in 1..Len(changed) : /\ incident'[i].rca = changed[i].rca
                                      /\ incident'[i].executed = changed[i].executed
                                      /\ incident'[i].status = changed[i].status
    <3> HIDE DEF noted, changed
    <3> QED
      BY <1>1, <1>4, <1>5, <1>6
  <2>2. \A i \in 1..Len(incident) : /\ changed[i].rca = incident[i].rca
                                    /\ i # h => changed[i].executed = incident[i].executed
                                    /\ i # h => changed[i].status = incident[i].status
    BY <1>1, <1>3
  <2>3. changed[h].executed = done
    BY <1>1, <1>3
  <2> QED
    BY <1>1, <1>4, <2>1, <2>2, <2>3
<1> HIDE DEF answered, changed, noted
<1>8. RequestMoves(r, "done", NoRecord, request[r].ran)
  <2> DEFINE new == [request[r] EXCEPT !.pc = "done", !.held = NoRecord]
  <2>1. request' = [request EXCEPT ![r] = new]
    BY <1>0 DEF SecondPlanDone, IncidentTypeOK
  <2>2. new = [request[r] EXCEPT !.pc = "done", !.held = NoRecord, !.ran = request[r].ran]
    BY <1>0 DEF IncidentTypeOK
  <2> HIDE DEF new
  <2> QED
    BY <2>1, <2>2 DEF RequestMoves
<1>9. /\ request' \in [Requests -> [pc : {"idle", "first", "second", "done"},
                                     rca : Rcas \cup {"none"}, id : 0..LastSecond,
                                     held : 0..Len(incident),
                                     ran : {{}} \cup {Plan[x] : x \in Rcas}]]
      /\ request'[r].pc = "done" /\ request'[r].held = NoRecord
      /\ request'[r].id = request[r].id /\ request'[r].rca = request[r].rca
      /\ \A q \in Requests : q # r => request'[q] = request[q]
  <2>1. NoRecord \in 0..Len(incident)
    BY <1>1
  <2> QED
    BY <1>0, <1>1, <1>8, <2>1, RequestStep
<1>10. IncidentTypeOK'
  <2>1. created' \in [1..LastSecond -> Rcas \cup {"none"}]
    BY <1>0, <1>1 DEF IncidentTypeOK
  <2> QED
    BY <1>0, <1>7, <1>9, <2>1 DEF IncidentTypeOK
<1>11. RequestsHoldRecords'
  BY <1>0, <1>1, <1>9 DEF RequestsHoldRecords, Held
<1>12. RecordMatchesPlan'
  <2> SUFFICES ASSUME NEW i \in 1..Len(incident), incident'[i].executed # {}
               PROVE  incident'[i].executed = Plan[incident'[i].rca]
    BY <1>7 DEF RecordMatchesPlan
  <2>1. CASE i = h
    BY <2>1, <1>1, <1>2, <1>7 DEF Outcomes
  <2>2. CASE i # h
    BY <2>2, <1>0, <1>1, <1>7 DEF RecordMatchesPlan
  <2> QED
    BY <2>1, <2>2
<1>13. IdsSpeakOfRequests'
  <2>1. \A id : Told(id) \subseteq Told(id)'
    BY <1>0, <1>9, ToldStays
  <2>2. \A id : id = request[r].id => request[r].rca \in Told(id)'
    BY <1>9, ToldNextIs
  <2>3. \A id \in 1..LastSecond : created'[id] = created[id] \/ created'[id] \in Told(id)'
    <3> SUFFICES ASSUME NEW id \in 1..LastSecond
                 PROVE  created'[id] = created[id] \/ created'[id] \in Told(id)'
      OBVIOUS
    <3>1. CASE id = request[r].id
      <4>1. created'[id] = request[r].rca
        BY <3>1, <1>0, <1>1 DEF IncidentTypeOK
      <4>2. request[r].rca \in Told(id)'
        BY <3>1, <2>2
      <4> QED
        BY <4>1, <4>2
    <3>2. CASE id # request[r].id
      BY <3>2, <1>0, <1>1 DEF IncidentTypeOK
    <3> QED
      BY <3>1, <3>2
  <2> QED
    BY <1>0, <1>7, <2>1, <2>3, RecordsKeepResults
<1> QED
  BY <1>7, <1>10, <1>11, <1>12, <1>13 DEF IncidentInvariant

LEMMA CloseIncidentKeeps ==
    ASSUME IncidentInvariant, NEW id \in 1..LastSecond, CloseIncident(id)
    PROVE  /\ IncidentInvariant'
           /\ Len(incident') = Len(incident)
           /\ \A i \in 1..Len(incident) : incident[i].status = "closed" => incident'[i].status = "closed"
<1> DEFINE k == table[id]
           new == [incident[k] EXCEPT !.status = "closed",
                                      !.timeline = Append(@, "incident_closed")]
<1>0. /\ IncidentTypeOK /\ RequestsHoldRecords /\ RecordMatchesPlan /\ IdsSpeakOfRequests
      /\ UNCHANGED <<second, table, request, created, report>>
  BY DEF IncidentInvariant, CloseIncident
<1>1. k \in 1..Len(incident) /\ incident \in Seq(Incident)
  BY <1>0 DEF CloseIncident, IncidentTypeOK
<1>2. new \in Incident /\ new.rca = incident[k].rca /\ new.executed = incident[k].executed
      /\ new.status = "closed"
  <2>1. incident[k] \in Incident
    BY <1>1
  <2> QED
    BY <2>1, NotedIncident
<1>3. incident' = [incident EXCEPT ![k] = new]
  BY <1>1 DEF CloseIncident
<1> HIDE DEF new
<1>4. /\ incident' \in Seq(Incident) /\ Len(incident') = Len(incident)
      /\ \A i \in 1..Len(incident) : /\ incident'[i].rca = incident[i].rca
                                     /\ incident'[i].executed = incident[i].executed
      /\ \A i \in 1..Len(incident) :
            incident[i].status = "closed" => incident'[i].status = "closed"
  BY <1>1, <1>2, <1>3
<1>5. IncidentTypeOK'
  BY <1>0, <1>4 DEF IncidentTypeOK
<1>6. RequestsHoldRecords'
  BY <1>0 DEF RequestsHoldRecords, Held
<1>7. RecordMatchesPlan'
  BY <1>0, <1>1, <1>4 DEF RecordMatchesPlan
<1>8. IdsSpeakOfRequests'
  BY <1>0, <1>4, RecordsKeepResults DEF Told, Sharing
<1> QED
  BY <1>4, <1>5, <1>6, <1>7, <1>8 DEF IncidentInvariant

LEMMA GenerateReportsKeeps ==
    ASSUME IncidentInvariant, NEW id \in 1..LastSecond, GenerateReports(id)
    PROVE  IncidentInvariant'
<1>0. /\ IncidentTypeOK /\ RequestsHoldRecords /\ RecordMatchesPlan /\ IdsSpeakOfRequests
      /\ created[id] # "none" /\ report' = report \cup {[id |-> id, rca |-> created[id]]}
      /\ UNCHANGED <<second, incident, table, request, created>>
  BY DEF IncidentInvariant, GenerateReports
<1>1. IncidentTypeOK'
  BY <1>0 DEF IncidentTypeOK
<1>2. RequestsHoldRecords' /\ RecordMatchesPlan'
  BY <1>0 DEF RequestsHoldRecords, Held, RecordMatchesPlan
<1>3. IdsSpeakOfRequests'
  <2>1. \A x : Told(x)' = Told(x)
    BY <1>0 DEF Told, Sharing
  <2> QED
    BY <1>0, <2>1 DEF IdsSpeakOfRequests
<1> QED
  BY <1>1, <1>2, <1>3 DEF IncidentInvariant

LEMMA IncidentNextInductive ==
    IncidentInvariant /\ [IncidentNext]_incidentVars => IncidentInvariant'
<1> SUFFICES ASSUME IncidentInvariant, [IncidentNext]_incidentVars
             PROVE  IncidentInvariant'
  OBVIOUS
<1>1. CASE UNCHANGED incidentVars
  <2>1. IncidentTypeOK' /\ RequestsHoldRecords'
    BY <1>1 DEF incidentVars, IncidentInvariant, IncidentTypeOK, RequestsHoldRecords, Held
  <2>2. RecordMatchesPlan' /\ IdsSpeakOfRequests'
    BY <1>1 DEF incidentVars, IncidentInvariant, RecordMatchesPlan, IdsSpeakOfRequests,
                Told, Sharing
  <2> QED
    BY <2>1, <2>2 DEF IncidentInvariant
<1>2. CASE IncidentNext
  BY <1>2, TickKeeps, RespondKeeps, FirstPlanDoneKeeps, SecondPlanDoneKeeps,
     CloseIncidentKeeps, GenerateReportsKeeps DEF IncidentNext
<1> QED
  BY <1>1, <1>2

\* Records, stored responses and reports speak of requests that were given
\* their id, at every moment of every interleaving of the coroutines.
THEOREM IncidentInvariantHolds == IncidentSpec => []IncidentInvariant
  BY IncidentInitInductive, IncidentNextInductive, PTL DEF IncidentSpec

\* With one request for an id, all that speaks of the id tells its result.
LEMMA OneStory ==
    ASSUME IncidentInvariant
    PROVE  ReportMatchesIncident
<1> SUFFICES ASSUME NEW id \in 1..LastSecond, Cardinality(Sharing(id)) = 1
             PROVE  /\ created[id] # "none" => created[id] = incident[table[id]].rca
                    /\ \A d \in report : d.id = id => d.rca = incident[table[id]].rca
  BY DEF ReportMatchesIncident, Sharing
<1>1. IsFiniteSet(Sharing(id))
  BY IncidentAssumption, FS_Subset DEF Sharing
<1>2. PICK r : Sharing(id) = {r}
  BY <1>1, FS_Singleton
<1>3. r \in Requests /\ request[r].pc # "idle" /\ request[r].id = id
  BY <1>2 DEF Sharing
<1>4. Told(id) = {request[r].rca}
  BY <1>2 DEF Told
<1>5. table[id] # NoRecord
  BY <1>3 DEF IncidentInvariant, RequestsHoldRecords
<1> QED
  BY <1>4, <1>5 DEF IncidentInvariant, IdsSpeakOfRequests

\* IncidentConsistent, for all callers, results and plans: a record tells of
\* its own plan, and an id that one request was given tells one story.
THEOREM ConsistentTheorem == IncidentSpec => []IncidentConsistent
<1>1. IncidentInvariant => IncidentConsistent
  BY OneStory DEF IncidentConsistent, IncidentInvariant
<1> QED
  BY <1>1, IncidentInvariantHolds, PTL

\* ClosedIsFinal, for all requests and plans: nothing reopens an incident but
\* a second execution that holds its record.
THEOREM ClosedTheorem == IncidentSpec => ClosedIsFinal
<1> DEFINE Final == \A i \in DOMAIN incident :
                        /\ incident[i].status = "closed"
                        /\ ~\E r \in Requests : request[r].pc = "second" /\ Held(r) = i
                        => incident'[i].status = "closed"
<1>1. IncidentInvariant /\ [IncidentNext]_incidentVars => [Final]_incidentVars
  <2> SUFFICES ASSUME IncidentInvariant, IncidentNext,
                      NEW i \in 1..Len(incident), incident[i].status = "closed",
                      ~\E r \in Requests : request[r].pc = "second" /\ Held(r) = i
               PROVE  incident'[i].status = "closed"
    BY DEF IncidentInvariant, IncidentTypeOK
  <2>1. CASE UNCHANGED incident
    BY <2>1
  <2>2. CASE \E r \in Requests, about \in Rcas : Respond(r, about)
    BY <2>2, NewIncident DEF IncidentInvariant
  <2>3. CASE \E id \in 1..LastSecond : CloseIncident(id)
    BY <2>3, CloseIncidentKeeps
  <2>4. ASSUME NEW r \in Requests, SecondPlanDone(r)
        PROVE  incident'[i].status = "closed"
    <3>1. Held(r) # i
      BY <2>4 DEF SecondPlanDone
    <3> QED
      BY <2>4, <3>1, SecondPlanDoneKeeps
  <2> QED
    BY <2>1, <2>2, <2>3, <2>4 DEF IncidentNext, Tick, FirstPlanDone, GenerateReports
<1> QED
  BY <1>1, IncidentInvariantHolds, PTL DEF IncidentSpec, ClosedIsFinal

-----------------------------------------------------------------------------
(* The adaptive loop *)

Result == [conf : 0..100, gaps : BOOLEAN, raised : Nat]
Caller == [pc : {"idle", "collecting", "over", "done"}, held : Nat, n : 0..MaxIterations]

\* Data only ever raises a confidence, and never past 100.
LEMMA ImprovementRaises ==
    ASSUME NEW c \in 0..100
    PROVE  c + Improvement(c) \in c..100
  BY DEF Improvement

\* Why a loop that took n turns on an object may be over.
Spent(obj, n) == obj.conf >= Threshold \/ ~obj.gaps \/ n = MaxIterations

\* A loop goes on only while it has an iteration left, and else is over for
\* one of the three reasons.
LEMMA ContinueDecides ==
    ASSUME NEW o, NEW n \in 0..MaxIterations, result'[o] \in Result
    PROVE  /\ Continue(o, n) \in {"collecting", "over"}
           /\ Continue(o, n) = "collecting" => n < MaxIterations
           /\ Continue(o, n) = "over" => Spent(result'[o], n)
  BY DEF Continue, MayIterate, Spent, Result, MaxIterations, Threshold

LEMMA ConfidenceIsNumber == \A obj \in Result : obj.conf \in Int
  BY DEF Result

\* The same object, or the same object raised.
LEMMA RaisedObject ==
    ASSUME NEW obj \in Result
    PROVE  /\ obj.conf >= obj.conf
           /\ [obj EXCEPT !.conf = @ + Improvement(@), !.raised = @ + 1] \in Result
           /\ [obj EXCEPT !.conf = @ + Improvement(@), !.raised = @ + 1].conf >= obj.conf
           /\ [obj EXCEPT !.conf = @ + Improvement(@), !.raised = @ + 1].gaps = obj.gaps
<1> DEFINE conf == obj.conf + Improvement(obj.conf)
           raised == obj.raised + 1
           new == [obj EXCEPT !.conf = conf, !.raised = raised]
<1>1. obj.conf \in 0..100 /\ obj.raised \in Nat
  BY DEF Result
<1>2. conf \in 0..100 /\ conf >= obj.conf /\ raised \in Nat
  BY <1>1, ImprovementRaises
<1> HIDE DEF conf, raised
<1>3. new \in Result
  BY <1>2 DEF Result
<1>4. new.conf = conf /\ new.gaps = obj.gaps
  BY DEF Result
<1> QED
  BY <1>1, <1>2, <1>3, <1>4 DEF conf, raised

LEMMA AdaptiveInitInductive == AdaptiveInit => AdaptiveInvariant
<1> SUFFICES ASSUME AdaptiveInit PROVE AdaptiveInvariant
  OBVIOUS
<1>1. PICK c \in Confidences, g \in BOOLEAN :
          result = <<[conf |-> c, gaps |-> g, raised |-> 0]>>
  BY DEF AdaptiveInit
<1>2. result \in Seq(Result) /\ DOMAIN result = {1}
  BY <1>1, AdaptiveAssumption DEF Result
<1>3. stored = 1 /\ loop = [l \in Loops |-> [pc |-> "idle", held |-> 0, n |-> 0]]
  BY DEF AdaptiveInit
<1> QED
  BY <1>2, <1>3 DEF AdaptiveInvariant, AdaptiveTypeOK, LoopSpendsItsBudget, Result, MaxIterations

\* The invariant when the loops stay and no object they know loses confidence.
LEMMA ObjectsOnlyRise ==
    ASSUME AdaptiveInvariant, result' \in Seq(Result), Len(result') >= Len(result),
           \A o \in 1..Len(result) : /\ result'[o].conf >= result[o].conf
                                     /\ result'[o].gaps = result[o].gaps,
           NEW l \in Loops, loop'[l] = loop[l]
    PROVE  /\ loop'[l] \in Caller
           /\ loop'[l].pc # "idle" => loop'[l].held \in DOMAIN result'
           /\ loop'[l].pc = "collecting" => loop'[l].n < MaxIterations
           /\ loop'[l].pc \in {"over", "done"} => Spent(result'[loop'[l].held], loop'[l].n)
<1>1. loop[l] \in Caller /\ result \in Seq(Result)
  BY DEF AdaptiveInvariant, AdaptiveTypeOK, Caller, Result
<1>2. loop[l].pc # "idle" => loop[l].held \in 1..Len(result)
  BY <1>1 DEF AdaptiveInvariant
<1>3. loop[l].pc = "collecting" => loop[l].n < MaxIterations
  BY DEF AdaptiveInvariant
<1>4. ASSUME loop[l].pc \in {"over", "done"}
      PROVE  Spent(result'[loop[l].held], loop[l].n)
  <2> DEFINE o == loop[l].held
  <2>1. o \in 1..Len(result)
    BY <1>2, <1>4
  <2>2. Spent(result[o], loop[l].n)
    BY <1>4 DEF AdaptiveInvariant, LoopSpendsItsBudget, Spent
  <2>3. result[o] \in Result /\ result'[o] \in Result
    BY <1>1, <2>1
  <2>4. result[o].conf \in Int /\ result'[o].conf \in Int
    BY <2>3, ConfidenceIsNumber
  <2>5. result'[o].conf >= result[o].conf /\ result'[o].gaps = result[o].gaps
    BY <2>1
  <2>6. result[o].conf >= Threshold => result'[o].conf >= Threshold
    BY <2>4, <2>5 DEF Threshold
  <2>7. ~result[o].gaps => ~result'[o].gaps
    BY <2>5, Zenon
  <2> QED
    BY <2>2, <2>6, <2>7 DEF Spent
<1> QED
  BY <1>1, <1>2, <1>3, <1>4

\* The invariant, as what holds of each loop.
LEMMA AdaptiveByLoop ==
    ASSUME result' \in Seq(Result), stored' \in DOMAIN result', DOMAIN loop' = Loops,
           loop' = [l \in Loops |-> loop'[l]],
           \A l \in Loops :
               /\ loop'[l] \in Caller
               /\ loop'[l].pc # "idle" => loop'[l].held \in DOMAIN result'
               /\ loop'[l].pc = "collecting" => loop'[l].n < MaxIterations
               /\ loop'[l].pc \in {"over", "done"} => Spent(result'[loop'[l].held], loop'[l].n)
    PROVE  AdaptiveInvariant'
<1>1. loop' \in [Loops -> Caller]
  BY Zenon
<1>2. AdaptiveTypeOK'
  BY <1>1 DEF AdaptiveTypeOK, Result, Caller
<1> QED
  BY <1>2 DEF AdaptiveInvariant, LoopSpendsItsBudget, Spent

LEMMA ReanalyzeKeeps ==
    ASSUME AdaptiveInvariant, Reanalyze
    PROVE  AdaptiveInvariant'
<1>0. result \in Seq(Result) /\ loop \in [Loops -> Caller] /\ loop' = loop
  BY DEF AdaptiveInvariant, AdaptiveTypeOK, Result, Caller, Reanalyze
<1>1. PICK c \in Confidences, g \in BOOLEAN :
          result' = Append(result, [conf |-> c, gaps |-> g, raised |-> 0])
  BY DEF Reanalyze
<1>2. [conf |-> c, gaps |-> g, raised |-> 0] \in Result
  BY AdaptiveAssumption DEF Result
<1>3. /\ result' \in Seq(Result) /\ Len(result') = Len(result) + 1
      /\ \A o \in 1..Len(result) : result'[o] = result[o]
  BY <1>0, <1>1, <1>2
<1>4. stored' \in DOMAIN result'
  BY <1>0, <1>3 DEF Reanalyze
<1>5. \A o \in 1..Len(result) : /\ result'[o].conf >= result[o].conf
                                /\ result'[o].gaps = result[o].gaps
  <2> SUFFICES ASSUME NEW o \in 1..Len(result)
               PROVE  result'[o].conf >= result[o].conf /\ result'[o].gaps = result[o].gaps
    OBVIOUS
  <2>1. result[o] \in Result
    BY <1>0
  <2> QED
    BY <2>1, <1>3, RaisedObject
<1>6. Len(result') >= Len(result)
  BY <1>0, <1>3
<1> QED
  BY <1>0, <1>3, <1>4, <1>5, <1>6, ObjectsOnlyRise, AdaptiveByLoop

LEMMA StartLoopKeeps ==
    ASSUME AdaptiveInvariant, NEW m \in Loops, StartLoop(m)
    PROVE  AdaptiveInvariant'
<1>0. /\ result \in Seq(Result) /\ loop \in [Loops -> Caller] /\ stored \in DOMAIN result
      /\ result' = result /\ stored' = stored
      /\ loop' = [loop EXCEPT ![m] = [pc |-> Continue(stored, 0), held |-> stored, n |-> 0]]
  BY DEF AdaptiveInvariant, AdaptiveTypeOK, Result, Caller, StartLoop
<1>1. result'[stored] \in Result /\ stored \in Nat /\ 0 \in 0..MaxIterations
  BY <1>0 DEF MaxIterations
<1>2. /\ Continue(stored, 0) \in {"collecting", "over"}
      /\ Continue(stored, 0) = "collecting" => 0 < MaxIterations
      /\ Continue(stored, 0) = "over" => Spent(result'[stored], 0)
  BY <1>1, ContinueDecides
<1>3. \A o \in 1..Len(result) : /\ result'[o].conf >= result[o].conf
                                /\ result'[o].gaps = result[o].gaps
  <2> SUFFICES ASSUME NEW o \in 1..Len(result)
               PROVE  result'[o].conf >= result[o].conf /\ result'[o].gaps = result[o].gaps
    OBVIOUS
  <2>1. result[o] \in Result
    BY <1>0
  <2> QED
    BY <2>1, <1>0, RaisedObject
<1>4. ASSUME NEW l \in Loops, l # m
      PROVE  /\ loop'[l] \in Caller
             /\ loop'[l].pc # "idle" => loop'[l].held \in DOMAIN result'
             /\ loop'[l].pc = "collecting" => loop'[l].n < MaxIterations
             /\ loop'[l].pc \in {"over", "done"} => Spent(result'[loop'[l].held], loop'[l].n)
  <2>1. loop'[l] = loop[l] /\ Len(result') >= Len(result)
    BY <1>0, <1>4
  <2> QED
    BY <2>1, <1>0, <1>3, ObjectsOnlyRise
<1>5. /\ loop'[m] = [pc |-> Continue(stored, 0), held |-> stored, n |-> 0]
      /\ loop'[m] \in Caller
  BY <1>0, <1>1, <1>2 DEF Caller
<1>6. /\ loop'[m].pc # "idle" => loop'[m].held \in DOMAIN result'
      /\ loop'[m].pc = "collecting" => loop'[m].n < MaxIterations
      /\ loop'[m].pc \in {"over", "done"} => Spent(result'[loop'[m].held], loop'[m].n)
  BY <1>0, <1>2, <1>5
<1> QED
  BY <1>0, <1>4, <1>5, <1>6, AdaptiveByLoop

\* The object of one loop is raised: every other loop on it is served as well.
LEMMA DataCollectedKeeps ==
    ASSUME AdaptiveInvariant, NEW m \in Loops, DataCollected(m)
    PROVE  AdaptiveInvariant'
<1> DEFINE o == loop[m].held
           n == loop[m].n + 1
           new == [result[o] EXCEPT !.conf = @ + Improvement(@), !.raised = @ + 1]
<1>0. /\ result \in Seq(Result) /\ loop \in [Loops -> Caller] /\ stored \in DOMAIN result
      /\ stored' = stored /\ loop[m].pc = "collecting"
      /\ o \in 1..Len(result) /\ loop[m].n < MaxIterations
  BY DEF AdaptiveInvariant, AdaptiveTypeOK, Result, Caller, DataCollected
<1>1. result' = [result EXCEPT ![o] = new]
  BY <1>0 DEF DataCollected
<1>2. new \in Result /\ new.conf >= result[o].conf /\ new.gaps = result[o].gaps
  <2>1. result[o] \in Result
    BY <1>0
  <2> QED
    BY <2>1, RaisedObject
<1> HIDE DEF new
<1>3. /\ result' \in Seq(Result) /\ Len(result') = Len(result)
      /\ \A p \in 1..Len(result) : p # o => result'[p] = result[p]
      /\ result'[o] = new
  BY <1>0, <1>1, <1>2
<1>4. \A p \in 1..Len(result) : /\ result'[p].conf >= result[p].conf
                                /\ result'[p].gaps = result[p].gaps
  <2> SUFFICES ASSUME NEW p \in 1..Len(result)
               PROVE  result'[p].conf >= result[p].conf /\ result'[p].gaps = result[p].gaps
    OBVIOUS
  <2>1. result[p] \in Result
    BY <1>0
  <2> QED
    BY <2>1, <1>2, <1>3, RaisedObject
<1>5. n \in 0..MaxIterations /\ result'[o] \in Result
  BY <1>0, <1>2, <1>3 DEF Caller, MaxIterations
<1>6. /\ Continue(o, n) \in {"collecting", "over"}
      /\ Continue(o, n) = "collecting" => n < MaxIterations
      /\ Continue(o, n) = "over" => Spent(result'[o], n)
  BY <1>5, ContinueDecides
<1>7. /\ loop'[m].pc = Continue(o, n) /\ loop'[m].held = o /\ loop'[m].n = n
      /\ \A l \in Loops : l # m => loop'[l] = loop[l]
      /\ DOMAIN loop' = Loops /\ loop' = [l \in Loops |-> loop'[l]]
      /\ loop'[m] \in Caller
  <2> DEFINE moved == [loop[m] EXCEPT !.n = @ + 1, !.pc = Continue(o, n)]
  <2>1. loop' = [loop EXCEPT ![m] = moved]
    BY <1>0 DEF DataCollected
  <2>2. moved \in Caller /\ moved.pc = Continue(o, n) /\ moved.held = o /\ moved.n = n
    BY <1>0, <1>5, <1>6 DEF Caller
  <2> HIDE DEF moved
  <2> QED
    BY <1>0, <2>1, <2>2
<1>8. ASSUME NEW l \in Loops, l # m
      PROVE  /\ loop'[l] \in Caller
             /\ loop'[l].pc # "idle" => loop'[l].held \in DOMAIN result'
             /\ loop'[l].pc = "collecting" => loop'[l].n < MaxIterations
             /\ loop'[l].pc \in {"over", "done"} => Spent(result'[loop'[l].held], loop'[l].n)
  <2>1. loop'[l] = loop[l] /\ Len(result') >= Len(result)
    BY <1>0, <1>3, <1>7, <1>8
  <2> QED
    BY <2>1, <1>3, <1>4, ObjectsOnlyRise
<1>9. /\ loop'[m].pc # "idle" => loop'[m].held \in DOMAIN result'
      /\ loop'[m].pc = "collecting" => loop'[m].n < MaxIterations
      /\ loop'[m].pc \in {"over", "done"} => Spent(result'[loop'[m].held], loop'[m].n)
  BY <1>0, <1>3, <1>6, <1>7
<1>10. stored' \in DOMAIN result'
  BY <1>0, <1>3
<1> QED
  BY <1>3, <1>7, <1>8, <1>9, <1>10, AdaptiveByLoop

LEMMA StoreResultKeeps ==
    ASSUME AdaptiveInvariant, NEW m \in Loops, StoreResult(m)
    PROVE  AdaptiveInvariant'
<1>0. /\ result \in Seq(Result) /\ loop \in [Loops -> Caller]
      /\ result' = result /\ stored' = loop[m].held /\ loop[m].pc = "over"
      /\ loop' = [loop EXCEPT ![m].pc = "done"]
      /\ loop[m].held \in DOMAIN result
  BY DEF AdaptiveInvariant, AdaptiveTypeOK, Result, Caller, StoreResult
<1>1. /\ loop' \in [Loops -> Caller] /\ loop'[m].pc = "done"
      /\ \A l \in Loops : /\ loop'[l].held = loop[l].held /\ loop'[l].n = loop[l].n
                           /\ l # m => loop'[l].pc = loop[l].pc
  BY <1>0 DEF Caller
<1> QED
  BY <1>0, <1>1 DEF AdaptiveInvariant, AdaptiveTypeOK, LoopSpendsItsBudget, Result, Caller

LEMMA AdaptiveNextInductive ==
    AdaptiveInvariant /\ [AdaptiveNext]_adaptiveVars => AdaptiveInvariant'
<1> SUFFICES ASSUME AdaptiveInvariant, [AdaptiveNext]_adaptiveVars
             PROVE  AdaptiveInvariant'
  OBVIOUS
<1>1. CASE UNCHANGED adaptiveVars
  BY <1>1 DEF adaptiveVars, AdaptiveInvariant, AdaptiveTypeOK, LoopSpendsItsBudget
<1>2. CASE AdaptiveNext
  BY <1>2, ReanalyzeKeeps, StartLoopKeeps, DataCollectedKeeps, StoreResultKeeps
     DEF AdaptiveNext
<1> QED
  BY <1>1, <1>2

\* LoopSpendsItsBudget, for any number of loops on any results: concurrent
\* loops raise each other's objects but never take an iteration.
THEOREM BudgetTheorem == AdaptiveSpec => []LoopSpendsItsBudget
<1>1. AdaptiveInvariant => LoopSpendsItsBudget
  BY DEF AdaptiveInvariant
<1> QED
  BY <1>1, AdaptiveInitInductive, AdaptiveNextInductive, PTL DEF AdaptiveSpec

-----------------------------------------------------------------------------
(* The analysis of a package *)

\* A root cause is a candidate, and the candidates are the entities of the
\* events, whatever the target and the edges are.
LEMMA RootIsOwn ==
    ASSUME NEW pkg, NEW graph, ExtractAnomalies(pkg) # {},
           NEW found \in AnalyzeInvestigation(pkg, graph)
    PROVE  found.root \in OwnEntities(pkg)
<1> DEFINE target == IdentifyTargetService(pkg)
           scores == AnomalyScores(pkg)
           anomalies == ExtractAnomalies(pkg)
           assets == {pkg.assets[i] : i \in DOMAIN pkg.assets}
           score == ScoreRootCauses(target, scores, anomalies, assets, graph)
<1>1. PICK r \in RootCauses(pkg, graph) : found.root = r.service
  BY DEF AnalyzeInvestigation
<1>2. DOMAIN scores = OwnEntities(pkg)
  BY DEF AnomalyScores, OwnEntities
<1>3. PICK e \in EventsOf(pkg) : e \in anomalies
  BY DEF ExtractAnomalies
<1>4. e.entity \in DOMAIN scores
  BY <1>2, <1>3 DEF OwnEntities
<1> HIDE DEF target, scores, assets
<1>5. DOMAIN score \subseteq DOMAIN scores /\ DOMAIN score # {}
  <2>1. CASE target \notin Nodes(assets, graph)
    <3>1. DOMAIN score = DOMAIN scores
      BY <2>1 DEF ScoreRootCauses
    <3> QED
      BY <1>4, <3>1
  <2>2. CASE target \in Nodes(assets, graph)
    <3>1. DOMAIN score = DOMAIN scores \cap (Upstream(target, graph) \cup {target}
                                               \cup {a.entity : a \in anomalies})
      BY <2>2 DEF ScoreRootCauses
    <3>2. e.entity \in {a.entity : a \in anomalies}
      BY <1>3
    <3> QED
      BY <1>4, <3>1, <3>2
  <2> QED
    BY <2>1, <2>2
<1>6. r.service \in DOMAIN score
  <2> DEFINE top == Max({score[s] : s \in DOMAIN score})
  <2>1. RootCauses(pkg, graph) = {[service |-> s, confidence |-> Confidence(top)] :
                                     s \in {t \in DOMAIN score : score[t] = top}}
    BY <1>5 DEF RootCauses, target, scores, assets
  <2> HIDE DEF score, top
  <2> QED
    BY <1>1, <2>1
<1> QED
  BY <1>1, <1>2, <1>5, <1>6

LEMMA AnalyzeKeeps ==
    ASSUME AnalysisInvariant, NEW k \in 1..MaxPackages, AnalyzeRoute(k)
    PROVE  AnalysisInvariant'
<1>1. PICK found \in AnalyzeInvestigation(packages[k], edges) :
          rca' = [rca EXCEPT ![k] = [done |-> TRUE, result |-> found]]
  BY DEF AnalyzeRoute
<1>2. k \in DOMAIN packages /\ UNCHANGED packages
  BY DEF AnalyzeRoute
<1>3. /\ rca'[k] = [done |-> TRUE, result |-> found]
      /\ DOMAIN rca' = DOMAIN rca /\ k \in DOMAIN rca
      /\ \A j \in DOMAIN rca : j # k => rca'[j] = rca[j]
  BY <1>1 DEF AnalysisInvariant
<1>4. DOMAIN packages = 1..Len(packages)
  BY DEF AnalysisInvariant
<1>5. ASSUME NEW j \in DOMAIN packages, rca'[j].done, ExtractAnomalies(packages[j]) # {}
      PROVE  rca'[j].result.root \in OwnEntities(packages[j])
  <2>1. CASE j = k
    <3>1. found.root \in OwnEntities(packages[k])
      BY <1>5, <2>1, RootIsOwn
    <3>2. rca'[k].result = found /\ found.root \in OwnEntities(packages[k])
      BY <1>3, <3>1
    <3>3. rca'[k].result.root \in OwnEntities(packages[k])
      BY <3>2, Zenon
    <3> QED
      BY <2>1, <3>3, Zenon
  <2>2. CASE j # k
    <3>1. j \in DOMAIN rca
      BY <1>4, AnalysisAssumption DEF AnalysisInvariant
    <3>2. rca'[j] = rca[j]
      BY <1>3, <2>2, <3>1
    <3>3. CausedByOwnEvidence
      BY DEF AnalysisInvariant
    <3>4. rca[j].done /\ ExtractAnomalies(packages[j]) # {}
      BY <1>5, <3>2
    <3>5. rca[j].result.root \in OwnEntities(packages[j])
      BY <3>3, <3>4 DEF CausedByOwnEvidence
    <3> QED
      BY <3>2, <3>5
  <2> QED
    BY <2>1, <2>2
<1>6. CausedByOwnEvidence'
  BY <1>2, <1>5 DEF CausedByOwnEvidence, ExtractAnomalies, OwnEntities, EventsOf
<1> QED
  BY <1>2, <1>3, <1>4, <1>6 DEF AnalysisInvariant

LEMMA BuildKeeps ==
    ASSUME AnalysisInvariant, NEW inv, NEW type, BuildPackage(inv, type)
    PROVE  AnalysisInvariant'
<1>1. PICK new : packages' = Append(packages, new) /\ Len(packages) < MaxPackages
                 /\ UNCHANGED rca
  BY DEF BuildPackage
<1> DEFINE n == Len(packages)
           S == {packages[k] : k \in 1..n} \cup {new}
<1>2. n \in Nat /\ DOMAIN packages = 1..n /\ packages = [k \in 1..n |-> packages[k]]
  BY DEF AnalysisInvariant
<1>3. packages \in Seq(S)
  <2>1. [k \in 1..n |-> packages[k]] \in [1..n -> S]
    OBVIOUS
  <2> HIDE DEF S
  <2> QED
    BY <1>2, <2>1, SeqDef
<1> HIDE DEF S
<1>4. new \in S
  BY DEF S
<1>5. /\ packages' \in Seq(S) /\ Len(packages') = n + 1
      /\ \A k \in 1..n : packages'[k] = packages[k]
  BY <1>1, <1>3, <1>4, AppendProperties
<1>6. packages' = [k \in 1..Len(packages') |-> packages'[k]]
  BY <1>5
<1>7. Len(packages') \in 0..MaxPackages
  BY <1>1, <1>2, <1>5, AnalysisAssumption
<1>8. ~rca[n + 1].done
  BY <1>1, <1>2, AnalysisAssumption DEF AnalysisInvariant
<1>9. ASSUME NEW k \in DOMAIN packages', rca'[k].done, ExtractAnomalies(packages'[k]) # {}
      PROVE  rca'[k].result.root \in OwnEntities(packages'[k])
  <2>1. k \in 1..n
    BY <1>1, <1>2, <1>5, <1>6, <1>8, <1>9
  <2> QED
    BY <1>1, <1>2, <1>5, <1>9, <2>1 DEF AnalysisInvariant, CausedByOwnEvidence
<1>10. CausedByOwnEvidence'
  BY <1>9 DEF CausedByOwnEvidence, ExtractAnomalies, OwnEntities, EventsOf
<1>11. \A k \in 1..MaxPackages : rca'[k].done => k \in 1..Len(packages')
  BY <1>1, <1>2, <1>5 DEF AnalysisInvariant
<1> QED
  BY <1>1, <1>6, <1>7, <1>10, <1>11 DEF AnalysisInvariant

\* CausedByOwnEvidence (analyze_investigation over one shared graph): whatever
\* other investigations left in the graph and whichever asset was taken for the
\* target, the root cause of a package with an anomaly is one of its entities.
THEOREM AnalysisTheorem == AnalysisSpec => []CausedByOwnEvidence
<1>1. AnalysisInit => AnalysisInvariant
  BY AnalysisAssumption DEF AnalysisInit, AnalysisInvariant, CausedByOwnEvidence, None
<1>2. AnalysisInvariant /\ [AnalysisNext]_analysisVars => AnalysisInvariant'
  <2> SUFFICES ASSUME AnalysisInvariant, [AnalysisNext]_analysisVars
               PROVE  AnalysisInvariant'
    OBVIOUS
  <2>1. ASSUME UNCHANGED <<packages, rca>> PROVE AnalysisInvariant'
    BY <2>1 DEF AnalysisInvariant, CausedByOwnEvidence
  <2>2. ASSUME NEW inv \in Investigations, CompressRoute(inv) PROVE AnalysisInvariant'
    BY <2>1, <2>2 DEF CompressRoute
  <2>3. ASSUME NEW inv \in Investigations, NEW type \in PackageTypes, BuildPackage(inv, type)
        PROVE  AnalysisInvariant'
    BY <2>3, BuildKeeps
  <2>4. ASSUME NEW k \in 1..MaxPackages, AnalyzeRoute(k) PROVE AnalysisInvariant'
    BY <2>4, AnalyzeKeeps
  <2>5. CASE UNCHANGED analysisVars
    BY <2>1, <2>5 DEF analysisVars
  <2> QED
    BY <2>2, <2>3, <2>4, <2>5 DEF AnalysisNext
<1>3. AnalysisInvariant => CausedByOwnEvidence
  BY DEF AnalysisInvariant
<1> QED
  BY <1>1, <1>2, <1>3, PTL DEF AnalysisSpec

-----------------------------------------------------------------------------
(* The stages of the compression                                           *)

\* A set of naturals has a least element, and one of risks a greatest.
LEMMA NatMin ==
    ASSUME NEW S \in SUBSET Nat, S # {}
    PROVE  Min(S) \in S /\ \A y \in S : Min(S) <= y
<1> DEFINE R == OpToRel(<, Nat)
<1>1. IsWellFoundedOn(R, Nat)
  BY NatLessThanWellFounded
<1>2. \A x, y \in Nat : <<y, x>> \in R <=> y < x
  BY Zenon DEF OpToRel
<1> HIDE DEF R
<1>3. PICK x \in S : \A y \in S : ~(<<y, x>> \in R)
  BY <1>1, WFMin
<1>4. ASSUME NEW y \in S PROVE x <= y
  <2>1. x \in Nat /\ y \in Nat
    OBVIOUS
  <2>2. ~(y < x)
    BY <1>2, <1>3, <2>1
  <2> QED
    BY <2>1, <2>2
<1> QED
  BY <1>4 DEF Min

LEMMA RiskMax ==
    ASSUME NEW S \in SUBSET (0..100), S # {}
    PROVE  Max(S) \in S /\ \A y \in S : y <= Max(S)
<1> DEFINE T == {100 - y : y \in S}
<1>1. T \in SUBSET Nat /\ T # {}
  <2>1. \A y \in S : y \in 0..100
    OBVIOUS
  <2>2. \A y \in 0..100 : 100 - y \in Nat
    OBVIOUS
  <2> QED
    BY <2>1, <2>2
<1>2. \A y \in S : 100 - y \in T
  OBVIOUS
<1>3. \A t \in T : \E y \in S : t = 100 - y
  OBVIOUS
<1> HIDE DEF T
<1>4. Min(T) \in T /\ \A t \in T : Min(T) <= t
  BY <1>1, NatMin
<1>5. PICK x \in S : Min(T) = 100 - x
  BY <1>3, <1>4
<1>6. \A y \in S : y <= x
  <2> SUFFICES ASSUME NEW y \in S PROVE y <= x
    OBVIOUS
  <2>1. 100 - x <= 100 - y
    BY <1>2, <1>4, <1>5
  <2>2. x \in Int /\ y \in Int
    OBVIOUS
  <2> QED
    BY <2>1, <2>2
<1> QED
  BY <1>6 DEF Max

\* A list of any stage: positions of the raw log, correlated events on them.
IsList(list) == IsFiniteSet(DOMAIN list) /\ DOMAIN list \subseteq Nat
IsEvent(e) ==
    /\ e = [entity |-> e.entity, action |-> e.action, time |-> e.time, ratio |-> e.ratio,
            raw |-> e.raw, risk |-> e.risk]
    /\ e.risk \in 0..100 /\ e.ratio \in Nat
AreEvents(list) == IsList(list) /\ \A i \in DOMAIN list : IsEvent(list[i])
Hot(list, x) == \E i \in DOMAIN list : list[i].entity = x /\ list[i].risk >= 60
AllHot(list, x) == \A i \in DOMAIN list : list[i].entity = x => list[i].risk >= 60

\* A list that drops positions of another one.
PartOf(part, list) == /\ DOMAIN part \subseteq DOMAIN list
                      /\ \A i \in DOMAIN part : part[i] = list[i]

LEMMA PartIsList ==
    ASSUME NEW list, NEW part, PartOf(part, list)
    PROVE  /\ IsList(list) => IsList(part)
           /\ AreEvents(list) => AreEvents(part)
           /\ \A x : AllHot(list, x) => AllHot(part, x)
<1>1. IsList(list) => IsList(part)
  BY FS_Subset DEF PartOf, IsList
<1>2. AreEvents(list) => AreEvents(part)
  BY <1>1 DEF PartOf, AreEvents
<1>3. \A x : AllHot(list, x) => AllHot(part, x)
  BY DEF PartOf, AllHot
<1> QED
  BY <1>1, <1>2, <1>3

LEMMA WindowKeeps ==
    ASSUME NEW raw \in CorrInputs
    PROVE  /\ PartOf(Relevant(raw), raw) /\ PartOf(TemporalFilter(raw), Relevant(raw))
           /\ \A i \in DOMAIN Relevant(raw) :
                 Relevant(raw)[i].risk > 30 => i \in DOMAIN TemporalFilter(raw)
<1>1. \A c, epoch : PartOf(Around(raw, c, epoch), raw)
  BY DEF Around, Keep, PartOf
<1>2. PartOf(Relevant(raw), raw)
  BY <1>1 DEF Relevant, OrAll, PartOf
<1> DEFINE near == Relevant(raw)
           epoch == DominantEpoch(raw)
           hour(e) == (TimeOf(e, epoch) + 1000 * Hour) \div Hour
           active(h) == 10 * Size(Keep(near, LAMBDA e : hour(e) = h)) >= Size(near)
           dense == Keep(near, LAMBDA e : active(hour(e)) \/ e.risk > 30)
<1>3. TemporalFilter(raw) = IF Size(near) <= Manageable THEN near ELSE OrAll(dense, near)
  BY Zenon DEF TemporalFilter
<1>4. /\ DOMAIN dense \subseteq DOMAIN near
      /\ \A i \in DOMAIN dense : dense[i] = near[i]
      /\ \A i \in DOMAIN near : near[i].risk > 30 => i \in DOMAIN dense
  BY DEF Keep
<1> HIDE DEF near, dense
<1>5. /\ PartOf(OrAll(dense, near), near) /\ PartOf(near, near)
      /\ \A i \in DOMAIN near : near[i].risk > 30 => i \in DOMAIN OrAll(dense, near)
  BY <1>4 DEF OrAll, PartOf
<1> QED
  BY <1>2, <1>3, <1>5 DEF near

\* A group has the greatest risk of its events.
LEMMA CorrelatorKeeps ==
    ASSUME NEW list, IsList(list), \A i \in DOMAIN list : list[i].risk \in 0..100,
           NEW i \in DOMAIN list, list[i].risk >= 60, ~Masked(list, list[i].entity)
    PROVE  LET out == EntityCorrelator(list)
               x == list[i].entity
           IN  /\ AreEvents(out) /\ Hot(out, x)
               /\ \A k \in DOMAIN out : out[k].entity = x /\ (\E r \in out[k].raw : r.intel)
                                          => out[k].risk >= 60
<1> DEFINE group(k) == {j \in DOMAIN list : SameKey(list[k], list[j])}
           risks(k) == {list[j].risk : j \in group(k)}
           out == EntityCorrelator(list)
<1>1. ASSUME NEW k \in DOMAIN list
      PROVE  /\ k \in group(k) /\ Max(risks(k)) \in 0..100
             /\ \A j \in group(k) : list[j].risk <= Max(risks(k))
             /\ Cardinality(group(k)) \in Nat
  <2>1. k \in group(k) /\ group(k) \subseteq DOMAIN list
    BY DEF SameKey
  <2>2. risks(k) \in SUBSET (0..100) /\ risks(k) # {}
    BY <2>1
  <2>3. \A j \in group(k) : list[j].risk \in risks(k)
    OBVIOUS
  <2> HIDE DEF risks, group
  <2>4. Max(risks(k)) \in risks(k) /\ \A y \in risks(k) : y <= Max(risks(k))
    BY <2>2, RiskMax
  <2>5. Max(risks(k)) \in 0..100
    BY <2>2, <2>4
  <2>6. \A j \in group(k) : list[j].risk <= Max(risks(k))
    BY <2>3, <2>4
  <2>7. IsFiniteSet(group(k))
    BY <2>1, FS_Subset DEF IsList
  <2>8. Cardinality(group(k)) \in Nat
    BY <2>7, FS_CardinalityType
  <2> QED
    BY <2>1, <2>5, <2>6, <2>8
<1>2. DOMAIN out = Firsts(list, SameKey) /\ DOMAIN out \subseteq DOMAIN list
  BY DEF EntityCorrelator, Firsts
<1>3. ASSUME NEW k \in DOMAIN out
      PROVE  /\ out[k] = [entity |-> out[k].entity, action |-> out[k].action,
                          time |-> out[k].time, ratio |-> out[k].ratio,
                          raw |-> out[k].raw, risk |-> out[k].risk]
             /\ out[k].entity = list[k].entity /\ out[k].risk = Max(risks(k))
             /\ out[k].ratio = Cardinality(group(k)) /\ out[k].raw = {list[j] : j \in group(k)}
  <2> DEFINE t == Min({TimeOf(list[j], Window) : j \in group(k)})
             c == Cardinality(group(k))
             w == {list[j] : j \in group(k)}
             m == Max(risks(k))
             o == out[k]
  <2>1. o = [entity |-> list[k].entity, action |-> list[k].action, time |-> t,
             ratio |-> c, raw |-> w, risk |-> m]
    BY <1>2 DEF EntityCorrelator, AggregateEntityEvents
  <2> HIDE DEF t, c, w, m, o
  <2>2. /\ o.entity = list[k].entity /\ o.action = list[k].action /\ o.time = t
        /\ o.ratio = c /\ o.raw = w /\ o.risk = m
    BY <2>1
  <2>3. o = [entity |-> o.entity, action |-> o.action, time |-> o.time,
             ratio |-> o.ratio, raw |-> o.raw, risk |-> o.risk]
    BY <2>1, <2>2
  <2> QED
    BY <2>2, <2>3 DEF c, w, m, o
<1> HIDE DEF out
<1>4. ASSUME NEW k \in DOMAIN out
      PROVE  IsEvent(out[k])
  <2>1. k \in DOMAIN list
    BY <1>2
  <2>2. /\ out[k].entity = list[k].entity /\ out[k].risk = Max(risks(k))
        /\ out[k].ratio = Cardinality(group(k)) /\ out[k].raw = {list[j] : j \in group(k)}
    BY <1>3
  <2>3. out[k].risk \in 0..100 /\ out[k].ratio \in Nat
    BY <1>1, <2>1, <2>2
  <2> QED
    BY <1>3, <2>3 DEF IsEvent
<1>5. IsList(out)
  BY <1>2, FS_Subset DEF IsList
<1>6. Hot(out, list[i].entity)
  <2> DEFINE m == Min(group(i))
  <2>1. group(i) \in SUBSET Nat /\ group(i) # {}
    BY <1>1 DEF IsList
  <2> HIDE DEF group, m
  <2>2. m \in group(i) /\ \A y \in group(i) : m <= y
    BY <2>1, NatMin DEF m
  <2>3. m \in DOMAIN list /\ SameKey(list[i], list[m])
    BY <2>2 DEF group
  <2>4. \A j \in DOMAIN list : SameKey(list[m], list[j]) => j \in group(i)
    BY <2>3 DEF SameKey, group
  <2>5. m \in DOMAIN out
    BY <1>2, <2>2, <2>3, <2>4 DEF Firsts
  <2>6. i \in group(m)
    BY <2>3 DEF SameKey, group
  <2>7. out[m].entity = list[i].entity /\ out[m].risk = Max(risks(m))
    BY <1>3, <2>3, <2>5 DEF SameKey
  <2>8. list[i].risk <= Max(risks(m)) /\ Max(risks(m)) \in 0..100
    BY <1>1, <2>3, <2>6
  <2>9. out[m].risk >= 60
    BY <2>7, <2>8
  <2> QED
    BY <2>5, <2>7, <2>9 DEF Hot
<1>7. ASSUME NEW k \in DOMAIN out, out[k].entity = list[i].entity,
             NEW r \in out[k].raw, r.intel
      PROVE  out[k].risk >= 60
  <2>1. out[k].entity = list[k].entity /\ out[k].risk = Max(risks(k))
        /\ out[k].raw = {list[j] : j \in group(k)}
    BY <1>3
  <2>2. PICK j \in group(k) : r = list[j]
    BY <1>7, <2>1
  <2>3. list[j].entity = list[i].entity /\ j \in DOMAIN list
    BY <1>7, <2>1, <2>2 DEF SameKey
  <2>4. list[j].risk >= 60
    BY <1>7, <2>2, <2>3 DEF Masked
  <2>5. list[j].risk <= Max(risks(k)) /\ Max(risks(k)) \in 0..100
    BY <1>1, <1>2, <2>2
  <2>6. list[j].risk \in 0..100
    BY <2>3
  <2> HIDE DEF risks
  <2> QED
    BY <2>1, <2>4, <2>5, <2>6
<1> QED
  BY <1>4, <1>5, <1>6, <1>7 DEF AreEvents, out

\* What the behavioral filter leaves of an entity with a hot event is hot.
LEMMA BehavioralKeeps ==
    ASSUME NEW list, AreEvents(list), NEW x, Hot(list, x),
           \A k \in DOMAIN list : list[k].entity = x /\ (\E r \in list[k].raw : r.intel)
                                    => list[k].risk >= 60
    PROVE  LET out == BehavioralFilter(list)
           IN  AreEvents(out) /\ Hot(out, x) /\ AllHot(out, x)
<1> DEFINE odd == Keep(list, LAMBDA e : AnomalyScore(e) >= 60)
<1>1. /\ DOMAIN odd = {k \in DOMAIN list : AnomalyScore(list[k]) >= 60}
      /\ \A k \in DOMAIN odd : odd[k] = list[k]
  BY DEF Keep
<1>2. BehavioralFilter(list) = OrAll(odd, list)
  BY Zenon DEF BehavioralFilter
<1> HIDE DEF odd
<1>3. \A k \in DOMAIN list : list[k].risk \in 0..100
  BY DEF AreEvents, IsEvent
<1>4. \A k \in DOMAIN list : list[k].risk >= 60 => AnomalyScore(list[k]) >= 60
  BY <1>3 DEF AnomalyScore
<1>5. PICK k \in DOMAIN list : list[k].entity = x /\ list[k].risk >= 60
  BY DEF Hot
<1>6. k \in DOMAIN odd /\ OrAll(odd, list) = odd
  BY <1>1, <1>4, <1>5 DEF OrAll
<1>7. PartOf(odd, list)
  BY <1>1 DEF PartOf
<1>8. Hot(odd, x)
  BY <1>1, <1>5, <1>6 DEF Hot
<1>9. AllHot(odd, x)
  BY <1>1, <1>3 DEF AllHot, AnomalyScore
<1>10. AreEvents(odd)
  BY <1>7, PartIsList
<1>11. BehavioralFilter(list) = odd
  BY <1>2, <1>6
<1> QED
  BY <1>8, <1>9, <1>10, <1>11

LEMMA DeduplicateKeeps ==
    ASSUME NEW list, AreEvents(list), NEW x, Hot(list, x), AllHot(list, x)
    PROVE  LET out == Deduplicate(list)
           IN  AreEvents(out) /\ Hot(out, x) /\ AllHot(out, x)
<1> DEFINE out == Deduplicate(list)
<1>1. DOMAIN out = Firsts(list, SameFingerprint) /\ PartOf(out, list)
  BY DEF Deduplicate, Firsts, PartOf
<1> HIDE DEF out
<1>2. PICK i \in DOMAIN list : list[i].entity = x /\ list[i].risk >= 60
  BY DEF Hot
<1> DEFINE group == {j \in DOMAIN list : SameFingerprint(list[i], list[j])}
           m == Min(group)
<1>3. group \in SUBSET Nat /\ i \in group
  BY DEF AreEvents, IsList, SameFingerprint
<1>4. \A j : j \in group <=> j \in DOMAIN list /\ SameFingerprint(list[i], list[j])
  OBVIOUS
<1> HIDE DEF group, m
<1>5. m \in group /\ \A j \in group : m <= j
  BY <1>3, NatMin DEF m
<1>6. \A j \in DOMAIN list : SameFingerprint(list[m], list[j]) => j \in group
  BY <1>4, <1>5 DEF SameFingerprint
<1>7. m \in DOMAIN out
  BY <1>1, <1>4, <1>5, <1>6 DEF Firsts
<1>8. list[m].entity = x /\ out[m] = list[m] /\ m \in DOMAIN list
  BY <1>1, <1>2, <1>4, <1>5, <1>7 DEF SameFingerprint, PartOf
<1>9. Hot(out, x)
  BY <1>7, <1>8 DEF Hot, AllHot
<1> QED
  BY <1>1, <1>9, PartIsList DEF out

LEMMA CutKeeps ==
    ASSUME NEW list, AreEvents(list), NEW x, Hot(list, x), NEW patterns
    PROVE  AreEvents(GraphCut(list, patterns)) /\ Hot(GraphCut(list, patterns), x)
<1> DEFINE named == {p.entity : p \in patterns} \ {"-"}
           tied == Keep(list, LAMBDA e : e.entity \in named \/ e.risk >= 40)
<1>1. GraphCut(list, patterns) = IF named = {} THEN list ELSE OrAll(tied, list)
  BY Zenon DEF GraphCut
<1>2. /\ DOMAIN tied = {k \in DOMAIN list : list[k].entity \in named \/ list[k].risk >= 40}
      /\ \A k \in DOMAIN tied : tied[k] = list[k]
  BY DEF Keep
<1> HIDE DEF tied, named
<1>3. PICK k \in DOMAIN list : list[k].entity = x /\ list[k].risk >= 60
  BY DEF Hot
<1>4. list[k].risk \in 0..100
  BY DEF AreEvents, IsEvent
<1>5. k \in DOMAIN tied
  BY <1>2, <1>3, <1>4
<1>6. PartOf(tied, list) /\ OrAll(tied, list) = tied
  BY <1>2, <1>5 DEF PartOf, OrAll
<1>7. AreEvents(tied) /\ Hot(tied, x)
  BY <1>2, <1>3, <1>5, <1>6, PartIsList DEF Hot
<1> QED
  BY <1>1, <1>6, <1>7

LEMMA RiskSet ==
    ASSUME NEW e, IsEvent(e), NEW r \in 0..100
    PROVE  LET s == [e EXCEPT !.risk = r]
           IN  IsEvent(s) /\ s.entity = e.entity /\ s.risk = r
<1> DEFINE en == e.entity
           ac == e.action
           ti == e.time
           ra == e.ratio
           rw == e.raw
           ri == e.risk
           s == [e EXCEPT !.risk = r]
<1>1. e = [entity |-> en, action |-> ac, time |-> ti, ratio |-> ra, raw |-> rw, risk |-> ri]
  BY DEF IsEvent
<1>2. ra \in Nat
  BY DEF IsEvent
<1> HIDE DEF en, ac, ti, ra, rw, ri
<1>3. s = [entity |-> en, action |-> ac, time |-> ti, ratio |-> ra, raw |-> rw, risk |-> r]
  BY <1>1
<1> HIDE DEF s
<1>4. /\ s.entity = en /\ s.action = ac /\ s.time = ti /\ s.ratio = ra
      /\ s.raw = rw /\ s.risk = r
  BY <1>3
<1>5. IsEvent(s)
  BY <1>2, <1>3, <1>4 DEF IsEvent
<1> QED
  BY <1>4, <1>5 DEF s, en

\* The patterns of a list are rated by confidences.
Rated(patterns) == \A p \in patterns : PatternConfidence[p.type] \in 0..100

LEMMA PatternsRated == ASSUME NEW list PROVE Rated(Patterns(list))
<1>1. \A k \in DOMAIN PatternConfidence : PatternConfidence[k] \in 0..100
  BY DEF PatternConfidence
<1>2. \A p \in EntityPatterns(list) : p.type \in DOMAIN PatternConfidence
  BY DEF EntityPatterns, PatternConfidence
<1>3. \A p \in CredentialPatterns(list) : p.type \in DOMAIN PatternConfidence
  BY DEF CredentialPatterns, PatternConfidence
<1> QED
  BY <1>1, <1>2, <1>3 DEF Patterns, Rated

\* A score is raised, never lowered.
LEMMA ScoreRaises ==
    ASSUME NEW e, IsEvent(e), NEW patterns, Rated(patterns)
    PROVE  LET s == Scored(e, patterns)
           IN  IsEvent(s) /\ s.entity = e.entity /\ s.risk >= e.risk
<1> DEFINE boost == PatternBoost(e, patterns)
           r == Max2(e.risk, Min2(100, Min2(e.ratio, 100) + boost))
<1>1. boost \in 0..100
  <2> DEFINE S == {0} \cup {PatternConfidence[p.type] : p \in Naming(e, patterns)}
  <2>1. Naming(e, patterns) \subseteq patterns
    BY DEF Naming
  <2>2. S \in SUBSET (0..100) /\ S # {}
    BY <2>1 DEF Rated
  <2>3. PatternBoost(e, patterns) \in {100, Max(S)}
    BY Zenon DEF PatternBoost
  <2> HIDE DEF S
  <2>4. Max(S) \in 0..100
    BY <2>2, RiskMax
  <2> QED
    BY <2>3, <2>4
<1>2. e.risk \in 0..100 /\ e.ratio \in Nat
  BY DEF IsEvent
<1>3. Scored(e, patterns) = [e EXCEPT !.risk = r]
  BY Zenon DEF Scored
<1> HIDE DEF boost
<1>4. r \in 0..100 /\ r >= e.risk
  BY <1>1, <1>2 DEF Max2, Min2
<1> HIDE DEF r
<1> DEFINE s == [e EXCEPT !.risk = r]
<1>5. IsEvent(s) /\ s.entity = e.entity /\ s.risk = r
  BY <1>4, RiskSet
<1>6. Scored(e, patterns) = s
  BY <1>3
<1> HIDE DEF s
<1>7. IsEvent(s) /\ s.entity = e.entity /\ s.risk >= e.risk
  BY <1>4, <1>5
<1> QED
  BY <1>6, <1>7

LEMMA LiftRaises ==
    ASSUME NEW e, IsEvent(e), NEW events
    PROVE  LET s == Lifted(e, events)
           IN  IsEvent(s) /\ s.entity = e.entity /\ s.risk >= e.risk
<1> DEFINE up == [e EXCEPT !.risk = 40]
<1>1. Lifted(e, events) = e \/ (e.risk <= 30 /\ Lifted(e, events) = up)
  BY DEF Lifted
<1>2. e.risk \in 0..100
  BY DEF IsEvent
<1>3. IsEvent(up) /\ up.entity = e.entity /\ up.risk = 40
  <2>1. 40 \in 0..100
    OBVIOUS
  <2> QED
    BY <2>1, RiskSet
<1> HIDE DEF up
<1>4. CASE Lifted(e, events) = e
  BY <1>2, <1>4
<1>5. CASE e.risk <= 30 /\ Lifted(e, events) = up
  <2>1. up.risk >= e.risk
    BY <1>2, <1>3, <1>5
  <2> QED
    BY <1>3, <1>5, <2>1
<1> QED
  BY <1>1, <1>4, <1>5

LEMMA ScorerKeeps ==
    ASSUME NEW list, AreEvents(list), NEW x, Hot(list, x), NEW patterns, Rated(patterns)
    PROVE  AreEvents(RiskScorer(list, patterns)) /\ Hot(RiskScorer(list, patterns), x)
<1> DEFINE scored == [i \in DOMAIN list |-> Scored(list[i], patterns)]
           lifted == [i \in DOMAIN scored |-> Lifted(scored[i], scored)]
           high == Keep(lifted, LAMBDA e : e.risk >= 30)
<1>1. PICK rest : RiskScorer(list, patterns) = OrAll(high, rest)
  BY Zenon DEF RiskScorer
<1>2. /\ DOMAIN scored = DOMAIN list
      /\ \A i \in DOMAIN list : scored[i] = Scored(list[i], patterns)
  OBVIOUS
<1>3. /\ DOMAIN lifted = DOMAIN scored
      /\ \A i \in DOMAIN scored : lifted[i] = Lifted(scored[i], scored)
  OBVIOUS
<1>4. /\ DOMAIN high = {i \in DOMAIN lifted : lifted[i].risk >= 30}
      /\ \A i \in DOMAIN high : high[i] = lifted[i]
  BY DEF Keep
<1> HIDE DEF scored, lifted, high
<1>5. ASSUME NEW i \in DOMAIN list
      PROVE  /\ IsEvent(lifted[i]) /\ lifted[i].entity = list[i].entity
             /\ lifted[i].risk >= list[i].risk
  <2>1. IsEvent(list[i])
    BY DEF AreEvents
  <2>2. /\ IsEvent(scored[i]) /\ scored[i].entity = list[i].entity
        /\ scored[i].risk >= list[i].risk
    BY <1>2, <2>1, ScoreRaises
  <2>3. /\ IsEvent(lifted[i]) /\ lifted[i].entity = scored[i].entity
        /\ lifted[i].risk >= scored[i].risk
    BY <1>2, <1>3, <2>2, LiftRaises
  <2>4. lifted[i].risk \in Int /\ scored[i].risk \in Int /\ list[i].risk \in Int
    BY <2>1, <2>2, <2>3 DEF IsEvent
  <2>5. lifted[i].risk >= list[i].risk
    BY <2>2, <2>3, <2>4
  <2> QED
    BY <2>2, <2>3, <2>5
<1>6. PICK k \in DOMAIN list : list[k].entity = x /\ list[k].risk >= 60
  BY DEF Hot
<1>7. lifted[k].risk >= 60
  <2>1. lifted[k].risk >= list[k].risk /\ IsEvent(lifted[k]) /\ IsEvent(list[k])
    BY <1>5 DEF AreEvents
  <2>2. lifted[k].risk \in Int /\ list[k].risk \in Int
    BY <2>1 DEF IsEvent
  <2> QED
    BY <1>6, <2>1, <2>2
<1>8. k \in DOMAIN high
  BY <1>2, <1>3, <1>4, <1>5, <1>7 DEF IsEvent
<1>9. RiskScorer(list, patterns) = high
  BY <1>1, <1>8 DEF OrAll
<1>10. IsList(high)
  <2>1. DOMAIN high \in SUBSET (DOMAIN list)
    BY <1>2, <1>3, <1>4
  <2> QED
    BY <2>1, FS_Subset DEF IsList, AreEvents
<1>11. AreEvents(high)
  BY <1>2, <1>3, <1>4, <1>5, <1>10 DEF AreEvents
<1>12. Hot(high, x)
  BY <1>4, <1>5, <1>6, <1>7, <1>8 DEF Hot
<1> QED
  BY <1>9, <1>11, <1>12

\* The representative of an entity is its first event of the highest risk.
LEMMA AbstractionKeeps ==
    ASSUME NEW list, AreEvents(list), NEW x, Hot(list, x)
    PROVE  LET out == AbstractEvents(list)
           IN  /\ IsList(out)
               /\ \E m \in DOMAIN out :
                     /\ \A k \in DOMAIN out : out[k].entity = x <=> k = m
                     /\ out[m].risk >= 60
<1> DEFINE group(i) == {j \in DOMAIN list : SameEntity(list[i], list[j])}
           first(i, k) == \A j \in group(i) : \/ list[j].risk < list[k].risk
                                              \/ list[j].risk = list[k].risk /\ k <= j
           best(i) == CHOOSE k \in group(i) : first(i, k)
           raws(i) == UNION {list[j].raw : j \in group(i) \ {best(i)}}
                      \cup IF best(i) = i THEN {BareEvent(list[i])} ELSE {}
           out == AbstractEvents(list)
<1>1. ASSUME NEW i \in DOMAIN list
      PROVE  best(i) \in group(i) /\ first(i, best(i))
  <2> DEFINE risks == {list[j].risk : j \in group(i)}
             top == {j \in group(i) : list[j].risk = Max(risks)}
             m == Min(top)
  <2>1. i \in group(i) /\ group(i) \subseteq DOMAIN list
    BY DEF SameEntity
  <2>2. \A j \in group(i) : list[j].risk \in 0..100
    BY <2>1 DEF AreEvents, IsEvent
  <2>3. risks \in SUBSET (0..100) /\ risks # {}
    BY <2>1, <2>2
  <2>4. Max(risks) \in risks /\ \A y \in risks : y <= Max(risks)
    <3> HIDE DEF risks
    <3> QED
      BY <2>3, RiskMax
  <2>5. /\ \A j \in group(i) : list[j].risk <= Max(risks)
        /\ \E j \in group(i) : list[j].risk = Max(risks)
    BY <2>4
  <2>6. \A j \in group(i) : j \in Nat
    BY <2>1 DEF AreEvents, IsList
  <2> HIDE DEF risks, group
  <2>7. top \in SUBSET Nat /\ top # {}
    BY <2>5, <2>6
  <2>8. m \in top /\ \A j \in top : m <= j
    <3> HIDE DEF top
    <3> QED
      BY <2>7, NatMin
  <2>9. m \in group(i) /\ list[m].risk = Max(risks)
    BY <2>8
  <2> HIDE DEF m
  <2>10. ASSUME NEW j \in group(i)
         PROVE  \/ list[j].risk < list[m].risk
                \/ list[j].risk = list[m].risk /\ m <= j
    <3>1. list[j].risk \in Int /\ list[m].risk \in Int /\ list[j].risk <= list[m].risk
      BY <2>2, <2>5, <2>9
    <3>2. CASE list[j].risk = Max(risks)
      BY <2>8, <2>9, <3>2
    <3>3. CASE list[j].risk # Max(risks)
      BY <2>9, <3>1, <3>3
    <3> QED
      BY <3>2, <3>3
  <2>11. first(i, m)
    BY <2>10
  <2> HIDE DEF first
  <2> QED
    BY <2>9, <2>11
<1>2. DOMAIN out = Firsts(list, SameEntity) /\ DOMAIN out \subseteq DOMAIN list
  BY DEF AbstractEvents, Firsts
<1>3. ASSUME NEW i \in DOMAIN out
      PROVE  out[i] = [list[best(i)] EXCEPT !.ratio = Cardinality(group(i)), !.raw = raws(i)]
  BY <1>2, Zenon DEF AbstractEvents
<1> HIDE DEF out, best
<1>4. ASSUME NEW i \in DOMAIN out
      PROVE  out[i].entity = list[i].entity /\ out[i].risk = list[best(i)].risk
  <2> DEFINE e == list[best(i)]
             c == Cardinality(group(i))
             w == raws(i)
             o == out[i]
  <2>1. best(i) \in DOMAIN list /\ e.entity = list[i].entity
    BY <1>1, <1>2 DEF SameEntity
  <2>2. e = [entity |-> e.entity, action |-> e.action, time |-> e.time, ratio |-> e.ratio,
             raw |-> e.raw, risk |-> e.risk]
    BY <2>1 DEF AreEvents, IsEvent
  <2>3. o = [e EXCEPT !.ratio = c, !.raw = w]
    BY <1>3
  <2> HIDE DEF e, c, w, o
  <2>4. o.entity = e.entity /\ o.risk = e.risk
    BY <2>2, <2>3
  <2> QED
    BY <2>1, <2>4 DEF e, o
<1>5. IsList(out)
  BY <1>2, FS_Subset DEF IsList, AreEvents
<1>6. PICK i \in DOMAIN list : list[i].entity = x /\ list[i].risk >= 60
  BY DEF Hot
<1> DEFINE m == Min(group(i))
<1>7. group(i) \in SUBSET Nat /\ group(i) # {}
  BY DEF AreEvents, IsList, SameEntity
<1>8. m \in group(i) /\ \A j \in group(i) : m <= j
  <2> HIDE DEF group
  <2> QED
    BY <1>7, NatMin
<1> HIDE DEF m
<1>9. m \in DOMAIN list /\ list[m].entity = x
  BY <1>6, <1>8 DEF SameEntity
<1>10. m \in DOMAIN out
  BY <1>2, <1>6, <1>8, <1>9 DEF Firsts, SameEntity
<1>11. ASSUME NEW k \in DOMAIN out, out[k].entity = x PROVE k = m
  <2>1. k \in DOMAIN list /\ list[k].entity = x
    BY <1>2, <1>4, <1>11
  <2>2. m <= k
    BY <1>6, <1>8, <2>1 DEF SameEntity
  <2>3. k <= m
    BY <1>2, <1>9, <2>1 DEF Firsts, SameEntity
  <2> QED
    BY <1>9, <2>1, <2>2, <2>3 DEF AreEvents, IsList
<1>12. out[m].entity = x
  BY <1>4, <1>9, <1>10
<1>13. out[m].risk >= 60
  <2>1. i \in group(m)
    BY <1>6, <1>9 DEF SameEntity
  <2>2. best(m) \in DOMAIN list /\ (\/ list[i].risk < list[best(m)].risk
                                    \/ list[i].risk = list[best(m)].risk)
    BY <1>1, <1>9, <2>1
  <2>3. list[i].risk \in Int /\ list[best(m)].risk \in Int
    BY <2>2 DEF AreEvents, IsEvent
  <2>4. list[best(m)].risk >= 60
    BY <1>6, <2>2, <2>3
  <2> QED
    BY <1>4, <1>10, <2>4
<1> QED
  BY <1>5, <1>10, <1>11, <1>12, <1>13 DEF out

\* The sequence has the events of the list and no other.
LEMMA OrderKeeps ==
    ASSUME NEW list, IsList(list)
    PROVE  /\ \A k \in DOMAIN InOrder(list) : \E i \in DOMAIN list : InOrder(list)[k] = list[i]
           /\ \A i \in DOMAIN list : \E k \in DOMAIN InOrder(list) : InOrder(list)[k] = list[i]
<1> DEFINE D == DOMAIN list
           n == Size(list)
           upto(i) == {j \in D : j <= i}
           rank(i) == Cardinality(upto(i))
           f == [i \in D |-> rank(i)]
<1>1. IsFiniteSet(D) /\ n = Cardinality(D) /\ n \in Nat /\ \A i \in D : i \in Nat
  BY FS_CardinalityType DEF IsList, Size
<1>2. ASSUME NEW i \in D
      PROVE  rank(i) \in 1..n
  <2>1. upto(i) \in SUBSET D
    OBVIOUS
  <2>2. i \in upto(i)
    BY <1>1
  <2> HIDE DEF upto
  <2>3. IsFiniteSet(upto(i)) /\ Cardinality(upto(i)) <= Cardinality(D)
    BY <1>1, <2>1, FS_Subset
  <2>4. Cardinality(upto(i)) \in Nat /\ Cardinality(upto(i)) # 0
    BY <2>2, <2>3, FS_CardinalityType, FS_EmptySet
  <2> QED
    BY <1>1, <2>3, <2>4
<1>3. ASSUME NEW i \in D, NEW j \in D, i < j PROVE rank(i) # rank(j)
  <2>1. upto(i) \in SUBSET upto(j)
    BY <1>1, <1>3
  <2>2. j \in upto(j) /\ j \notin upto(i)
    BY <1>1, <1>3
  <2>3. upto(j) \in SUBSET D
    OBVIOUS
  <2> HIDE DEF upto
  <2>4. IsFiniteSet(upto(j))
    BY <1>1, <2>3, FS_Subset
  <2>5. Cardinality(upto(j)) = Cardinality(upto(i)) => upto(j) = upto(i)
    BY <2>1, <2>4, FS_Subset
  <2> QED
    BY <2>2, <2>5
<1>4. \A i, j \in D : rank(i) = rank(j) => i = j
  BY <1>1, <1>3
<1>5. f \in Injection(D, 1..n)
  <2>1. f \in [D -> 1..n] /\ \A i \in D : f[i] = rank(i)
    BY <1>2
  <2> HIDE DEF f, rank
  <2> QED
    BY <1>4, <2>1 DEF Injection, IsInjective
<1>6. IsFiniteSet(1..n) /\ Cardinality(1..n) = Cardinality(D)
  <2>1. Cardinality(1..n) = IF 1 > n THEN 0 ELSE n - 1 + 1
    BY <1>1, FS_Interval
  <2>2. IsFiniteSet(1..n)
    BY <1>1, FS_Interval
  <2> QED
    BY <1>1, <2>1, <2>2
<1>7. f \in Surjection(D, 1..n)
  <2> HIDE DEF f, n, D
  <2> QED
    BY <1>5, <1>6, FS_Injection
<1>8. \A k \in 1..n : \E i \in D : rank(i) = k
  <2>1. \A i \in D : f[i] = rank(i)
    OBVIOUS
  <2> HIDE DEF f, rank
  <2> QED
    BY <1>7, <2>1 DEF Surjection
<1>9. /\ DOMAIN InOrder(list) = 1..n
      /\ \A k \in 1..n : InOrder(list)[k] = list[CHOOSE i \in D : rank(i) = k]
  BY DEF InOrder
<1> HIDE DEF n, rank
<1>10. \A k \in 1..n : (CHOOSE i \in D : rank(i) = k) \in D
                       /\ rank(CHOOSE i \in D : rank(i) = k) = k
  BY <1>8
<1>11. \A i \in D : (CHOOSE j \in D : rank(j) = rank(i)) = i
  BY <1>2, <1>4, <1>10
<1> QED
  BY <1>2, <1>9, <1>10, <1>11

\* The seven stages, one after the other.
LEMMA CompressionKeeps ==
    ASSUME NEW raw \in CorrInputs, NEW i \in DOMAIN Relevant(raw),
           Relevant(raw)[i].risk >= 60, ~Masked(Relevant(raw), Relevant(raw)[i].entity)
    PROVE  LET x == Relevant(raw)[i].entity
               events == CompressEvents(raw).events
               told == {events[k] : k \in {j \in DOMAIN events : events[j].entity = x}}
           IN  \E e : told = {e} /\ e.risk >= 60
<1> DEFINE near == Relevant(raw)
           x == near[i].entity
           kept == TemporalFilter(raw)
           correlated == EntityCorrelator(kept)
           odd == BehavioralFilter(correlated)
           deduped == Deduplicate(odd)
           patterns == Patterns(deduped)
           cut == GraphCut(deduped, patterns)
           risky == RiskScorer(cut, patterns)
           summary == AbstractEvents(risky)
<1>1. /\ PartOf(near, raw) /\ PartOf(kept, near)
      /\ \A k \in DOMAIN near : near[k].risk > 30 => k \in DOMAIN kept
  BY WindowKeeps
<1>2. CompressEvents(raw).events = InOrder(summary)
  BY DEF CompressEvents
<1> HIDE DEF near, kept
<1>3. IsList(raw) /\ \A k \in DOMAIN raw : raw[k].risk \in 0..100
  <2>1. Len(raw) \in Nat /\ DOMAIN raw = 1..Len(raw) /\ \A k \in DOMAIN raw : raw[k].risk \in 0..100
    BY CorrAssumption
  <2>2. IsFiniteSet(1..Len(raw))
    BY <2>1, FS_Interval
  <2> QED
    BY <2>1, <2>2 DEF IsList
<1>4. IsList(kept) /\ \A k \in DOMAIN kept : kept[k].risk \in 0..100
  BY <1>1, <1>3, PartIsList DEF PartOf
<1>5. near[i].risk >= 60 /\ near[i].risk \in 0..100 /\ i \in DOMAIN near
  BY <1>1, <1>3 DEF near, PartOf
<1>6. i \in DOMAIN kept /\ kept[i] = near[i]
  BY <1>1, <1>5 DEF PartOf
<1>7. ~Masked(kept, kept[i].entity)
  BY <1>1, <1>6 DEF near, Masked, PartOf
<1>8. /\ AreEvents(correlated) /\ Hot(correlated, x)
      /\ \A k \in DOMAIN correlated :
            correlated[k].entity = x /\ (\E r \in correlated[k].raw : r.intel)
              => correlated[k].risk >= 60
  BY <1>4, <1>5, <1>6, <1>7, CorrelatorKeeps
<1> HIDE DEF correlated
<1>9. AreEvents(odd) /\ Hot(odd, x) /\ AllHot(odd, x)
  BY <1>8, BehavioralKeeps
<1> HIDE DEF odd
<1>10. AreEvents(deduped) /\ Hot(deduped, x) /\ Rated(patterns)
  BY <1>9, DeduplicateKeeps, PatternsRated
<1> HIDE DEF deduped, patterns
<1>11. AreEvents(cut) /\ Hot(cut, x)
  BY <1>10, CutKeeps
<1> HIDE DEF cut
<1>12. AreEvents(risky) /\ Hot(risky, x)
  BY <1>10, <1>11, ScorerKeeps
<1> HIDE DEF risky
<1>13. /\ IsList(summary)
       /\ \E m \in DOMAIN summary :
             /\ \A k \in DOMAIN summary : summary[k].entity = x <=> k = m
             /\ summary[m].risk >= 60
  BY <1>12, AbstractionKeeps
<1> HIDE DEF summary
<1>14. PICK m \in DOMAIN summary :
             /\ \A k \in DOMAIN summary : summary[k].entity = x <=> k = m
             /\ summary[m].risk >= 60
  BY <1>13
<1> DEFINE events == InOrder(summary)
           told == {events[k] : k \in {j \in DOMAIN events : events[j].entity = x}}
<1>15. /\ \A k \in DOMAIN events : \E j \in DOMAIN summary : events[k] = summary[j]
       /\ \A j \in DOMAIN summary : \E k \in DOMAIN events : events[k] = summary[j]
  BY <1>13, OrderKeeps
<1> HIDE DEF events
<1>16. told = {summary[m]}
  <2>1. \A k \in DOMAIN events : events[k].entity = x => events[k] = summary[m]
    BY <1>14, <1>15
  <2>2. \E k \in DOMAIN events : events[k].entity = x /\ events[k] = summary[m]
    BY <1>14, <1>15
  <2> QED
    BY <2>1, <2>2
<1> QED
  BY <1>2, <1>14, <1>16 DEF near, events

\* HotEntityReported (compress_events): for any logs, an entity with a risk of
\* at least 0.6 in the window, and no cooler intel match, is reported by one
\* event, still at 0.6 or more, whatever the other events are.
THEOREM CompressionTheorem == CorrSpec => []HotEntityReported
<1>1. CorrInit => CorrInvariant
  BY DEF CorrInit, CorrInvariant, NoPackage
<1>2. CorrInvariant /\ [CorrNext]_corr => CorrInvariant'
  BY DEF CorrInvariant, CorrNext, Compress
<1>3. CorrInvariant => HotEntityReported
  <2> SUFFICES ASSUME CorrInvariant, corr.out.done, NEW i \in DOMAIN Relevant(corr.in),
                      Relevant(corr.in)[i].risk >= 60,
                      ~Masked(Relevant(corr.in), Relevant(corr.in)[i].entity)
               PROVE  LET x == Relevant(corr.in)[i].entity
                      IN  /\ Cardinality(Reported(x)) = 1
                          /\ \A r \in Reported(x) : r.risk >= 60
    BY DEF HotEntityReported
  <2> DEFINE x == Relevant(corr.in)[i].entity
  <2>1. corr.in \in CorrInputs /\ corr.out = CompressEvents(corr.in)
    BY DEF CorrInvariant
  <2> DEFINE events == CompressEvents(corr.in).events
             told == {events[k] : k \in {j \in DOMAIN events : events[j].entity = x}}
  <2>2. PICK e : told = {e} /\ e.risk >= 60
    BY <2>1, CompressionKeeps
  <2>3. Reported(x) = told
    BY <2>1 DEF Reported
  <2>4. Cardinality({e}) = 1
    BY FS_Singleton
  <2> HIDE DEF x, told
  <2> QED
    BY <2>2, <2>3, <2>4 DEF x
<1> QED
  BY <1>1, <1>2, <1>3, PTL DEF CorrSpec

=============================================================================
