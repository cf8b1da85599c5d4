------------------------------ MODULE SelfPlay ------------------------------
(***************************************************************************)
(* Detection rules (services/detection_engine.py) and the campaigns that   *)
(* test them (services/self_play/purple_team.py): run_campaign loads the   *)
(* rules from disk, replays the events of a campaign and files a disabled  *)
(* draft for each event no rule matched.  A person reviews the drafts.     *)
(* The engine the governance routes show was loaded at import.             *)
(*                                                                         *)
(* A value is [kind, v]; float() of a text raises, and the exception       *)
(* leaves evaluate, match_event and run_campaign.                          *)
(***************************************************************************)
EXTENDS Integers, Sequences, SequencesExt, FiniteSets

CONSTANTS
    Campaigns,      \* CANNED_CAMPAIGNS: campaign -> Seq([technique, event])
    VendoredRules,  \* the rules of the repository: [id, technique, enabled, mode, conditions]
    AuthoredRules,  \* the rules people may write
    TextMatches,    \* pairs of values: the first occurs in, lists or matches the second
    MaxCampaigns, MaxReviews   \* bounds

Value == [kind : STRING, v : Int]
Compared == {"gte", "lte", "gt", "lt"}
Related == {"contains", "in_list", "regex"}
Ops == Compared \cup Related \cup {"equals", "not_equals", "exists", "unknown"}
Condition == [field : STRING, op : Ops, value : Value]
Rule == [id : STRING \X Nat, technique : STRING, enabled : BOOLEAN, mode : {"all", "any"},
         conditions : SUBSET Condition]
Techniques == UNION {{s.technique : s \in ToSet(Campaigns[n])} : n \in DOMAIN Campaigns}

\* A technique is of one step; the rules people wrote have names of their
\* own, where a draft's has a number (uuid).
ASSUME SelfPlayAssumption ==
    /\ \A n \in DOMAIN Campaigns :
          /\ Len(Campaigns[n]) \in Nat /\ DOMAIN Campaigns[n] = 1..Len(Campaigns[n])
          /\ \A i \in DOMAIN Campaigns[n] :
                LET step == Campaigns[n][i]
                IN  /\ step.technique \in STRING /\ DOMAIN step.event # {}
                    /\ \A f \in DOMAIN step.event :
                          /\ f \in STRING /\ step.event[f] \in Value
                          /\ step.event[f].kind # "none"
    /\ \A n, m \in DOMAIN Campaigns :
          \A i \in DOMAIN Campaigns[n], j \in DOMAIN Campaigns[m] :
             Campaigns[n][i].technique = Campaigns[m][j].technique => n = m /\ i = j
    /\ \A r \in VendoredRules \cup AuthoredRules : r \in Rule /\ r.id[2] = 0
    /\ \A q, r \in VendoredRules : q.id = r.id => q = r
    /\ MaxCampaigns \in Nat /\ MaxReviews \in Nat

VARIABLES
    rules,      \* YAML files: [id, technique, enabled, mode, conditions]
    singleton,  \* rules of detection_engine, loaded at import
    campaign,   \* last result: [name, detected : technique -> ids, filed, status]
    inForce,    \* history: the rules the last campaign loaded
    drafts,     \* history: drafts filed per technique
    runs, reviews

selfPlayVars == <<rules, singleton, campaign, inForce, drafts, runs, reviews>>

Absent == [kind |-> "none", v |-> 0]
Actual(event, field) == IF field \in DOMAIN event THEN event[field] ELSE Absent

Compares(op, a, b) == CASE op = "gte" -> a >= b
                        [] op = "lte" -> a <= b
                        [] op = "gt" -> a > b
                        [] op = "lt" -> a < b

\* A flag is a number to float().
Raises(c, event) ==
    /\ c.op \in Compared
    /\ LET actual == Actual(event, c.field)
       IN  actual # Absent /\ (actual.kind = "text" \/ c.value.kind = "text")

\* DetectionCondition.evaluate, when it does not raise.
Holds(c, event) ==
    LET actual == Actual(event, c.field)
    IN  \/ c.op = "equals" /\ actual = c.value
        \/ c.op = "not_equals" /\ actual # c.value
        \/ c.op \in Compared /\ actual # Absent /\ Compares(c.op, actual.v, c.value.v)
        \/ c.op \in Related /\ <<c.value, actual>> \in TextMatches
        \/ c.op = "exists" /\ actual # Absent

\* DetectionRule.evaluate: every condition is evaluated, whatever the mode.
Evaluates(r) == r.enabled /\ r.conditions # {}
RuleRaises(r, event) == Evaluates(r) /\ \E c \in r.conditions : Raises(c, event)
RuleMatches(r, event) ==
    Evaluates(r) /\ IF r.mode = "any" THEN \E c \in r.conditions : Holds(c, event)
                    ELSE \A c \in r.conditions : Holds(c, event)

MatchEvent(loaded, event) == {r \in loaded : RuleMatches(r, event)}

NoCampaign == [name |-> "none", detected |-> <<>>, filed |-> {}, status |-> "none"]

SelfPlayInit ==
    /\ rules = VendoredRules /\ singleton = VendoredRules /\ inForce = VendoredRules
    /\ campaign = NoCampaign
    /\ drafts = [t \in Techniques |-> 0]
    /\ runs = 0 /\ reviews = 0

\* Mutant: a number has to be exceeded.
MutDraftOp(value) == IF value.kind = "number" THEN "gt" ELSE "equals"
DraftOp(value) == IF value.kind = "number" THEN "gte" ELSE "equals"

DraftConditions(event) ==
    {[field |-> f, op |-> DraftOp(event[f]), value |-> event[f]] : f \in DOMAIN event}
Draft(step) ==
    [id |-> <<step.technique, drafts[step.technique] + 1>>, technique |-> step.technique,
     enabled |-> FALSE, mode |-> "all", conditions |-> DraftConditions(step.event)]

\* run_campaign over the steps that were reached; a draft that cannot be
\* written is dropped.  The route answers a ValueError with 404.
RunCampaign(name) ==
    /\ runs < MaxCampaigns
    /\ LET steps   == Campaigns[name]
           bad     == {i \in DOMAIN steps : \E r \in rules : RuleRaises(r, steps[i].event)}
           reached == {i \in DOMAIN steps : \A j \in bad : i < j}
           missed  == {i \in reached : MatchEvent(rules, steps[i].event) = {}}
       IN  \E unwritten \in SUBSET missed :
             LET filed == {Draft(steps[i]) : i \in missed \ unwritten}
             IN  /\ rules' = rules \cup filed
                 /\ drafts' = [t \in DOMAIN drafts |->
                                 drafts[t] + Cardinality({d \in filed : d.technique = t})]
                 /\ campaign' =
                      IF bad # {} THEN [NoCampaign EXCEPT !.name = name, !.status = "404"]
                      ELSE [name |-> name, status |-> "ok",
                            detected |-> [i \in DOMAIN steps |->
                               {r.id : r \in MatchEvent(rules, steps[i].event)}],
                            filed |-> {d.id : d \in filed}]
    /\ inForce' = rules /\ runs' = runs + 1
    /\ UNCHANGED <<singleton, reviews>>

\* A person adds a rule's file, enables a draft as it is, deletes a file.  A
\* file is named by its rule's id, so a new one has a new id.
Author(r) ==
    /\ reviews < MaxReviews /\ \A q \in rules : q.id # r.id
    /\ rules' = rules \cup {r} /\ reviews' = reviews + 1
    /\ UNCHANGED <<singleton, campaign, inForce, drafts, runs>>

Review(r) ==
    /\ reviews < MaxReviews
    /\ \/ ~r.enabled /\ rules' = (rules \ {r}) \cup {[r EXCEPT !.enabled = TRUE]}
       \/ rules' = rules \ {r}
    /\ reviews' = reviews + 1
    /\ UNCHANGED <<singleton, campaign, inForce, drafts, runs>>

\* The singleton follows the files at the next start only.
Restarts ==
    /\ singleton # rules /\ singleton' = rules
    /\ UNCHANGED <<rules, campaign, inForce, drafts, runs, reviews>>

SelfPlayNext ==
    \/ \E name \in DOMAIN Campaigns : RunCampaign(name)
    \/ \E r \in rules : Review(r)
    \/ \E r \in AuthoredRules : Author(r)
    \/ Restarts

SelfPlaySpec == SelfPlayInit /\ [][SelfPlayNext]_selfPlayVars

-----------------------------------------------------------------------------
(***************************************************************************)
(* Properties                                                              *)
(***************************************************************************)

\* "harmless even if immediately reloaded by a live DetectionEngine": what is
\* filed changes no result until a person enables it, and then closes the gap.
\* A campaign reports a technique as caught only for rules that were enabled
\* when it started, and always when one of them is an enabled draft of that
\* technique; every gap it files a draft for was one, and the draft is not
\* among the rules that caught anything.
CoverageHonest ==
    campaign.status = "ok" =>
        LET steps == Campaigns[campaign.name]
        IN  \A i \in DOMAIN steps :
              LET caught == campaign.detected[i]
                  mine   == {r \in inForce : r.enabled /\ r.technique = steps[i].technique}
              IN  /\ \A r \in inForce : r.id \in caught => r.enabled
                  /\ mine # {} => caught # {}
                  /\ caught # {} => \A k \in 1..MaxCampaigns :
                                      <<steps[i].technique, k>> \notin campaign.filed
                  /\ caught \cap campaign.filed = {}

\* The rules people write for the technique of a step match its event, once
\* they are enabled: nothing in the code makes them.
RulesCatch ==
    \A r \in VendoredRules \cup AuthoredRules, n \in DOMAIN Campaigns :
        \A i \in DOMAIN Campaigns[n] : r.technique = Campaigns[n][i].technique =>
            RuleMatches([r EXCEPT !.enabled = TRUE], Campaigns[n][i].event)

SelfPlayTypeOK ==
    /\ rules \subseteq Rule /\ singleton \subseteq Rule /\ inForce \subseteq Rule
    /\ campaign.status \in {"none", "404", "ok"}
    /\ campaign.status = "ok" => campaign.name \in DOMAIN Campaigns
    /\ drafts \in [Techniques -> Nat]
    /\ runs \in Nat /\ reviews \in Nat

Written(r) == \E w \in VendoredRules \cup AuthoredRules :
                 r = w \/ r = [w EXCEPT !.enabled = TRUE]

\* A draft says what its step's event is, and has a number already given.
DraftOfStep(r, step) ==
    /\ r.technique = step.technique /\ r.id[1] = step.technique
    /\ r.id[2] \in 1..drafts[step.technique]
    /\ r.mode = "all" /\ r.conditions = DraftConditions(step.event)

RulesAccounted ==
    /\ \A r \in rules : \/ Written(r)
                        \/ \E n \in DOMAIN Campaigns : \E i \in DOMAIN Campaigns[n] :
                              DraftOfStep(r, Campaigns[n][i])
    /\ \A q, r \in rules : q.id = r.id => q = r

\* The inductive strengthening behind CoverageHonest.
SelfPlayInvariant == SelfPlayTypeOK /\ RulesAccounted /\ CoverageHonest
=============================================================================
