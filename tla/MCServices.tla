----------------------------- MODULE MCServices -----------------------------
EXTENDS AnalysisService, IncidentResponse, AdaptiveInvestigation, AlertIntake,
        InvestigationLedger, LlmAccess, ProgressStream, InvestigationApi, PlaybookEngine,
        EvidenceCollection, SelfPlay, TLC

VARIABLE focus   \* the component that moves in this behaviour

MCActionClass == [login |-> "login", failed |-> "login", failed2 |-> "login",
                  sudo |-> "sudo", export |-> "export", encrypt |-> "encrypt",
                  audit |-> "audit", idle |-> "idle", idle2 |-> "idle"]
MCActionKinds == [login |-> {"lateral_movement", "login_ok"},
                  failed |-> {"lateral_movement", "login_failed"},
                  failed2 |-> {"lateral_movement", "login_failed"},
                  sudo |-> {"privilege_escalation"},
                  export |-> {"data_exfiltration"}, encrypt |-> {"ransomware"},
                  audit |-> {"compliance"}, idle |-> {}, idle2 |-> {}]
MCActionPhases == [login |-> {}, failed |-> {}, failed2 |-> {}, sudo |-> {},
                   export |-> {"action_on_objectives"},
                   encrypt |-> {"action_on_objectives"}, audit |-> {}, idle |-> {},
                   idle2 |-> {}]
MCEvent(e, a, t, r) == [entity |-> e, action |-> a, time |-> t, risk |-> r, intel |-> FALSE]
MCSmall == [entity : {"db", "web"}, action : {"login", "audit", "idle"},
            time : {0, 1500}, risk : {0, 35, 60}, intel : {FALSE}]
           \cup [entity : {"db"}, action : {"failed", "export"}, time : {NoTime, 5},
                 risk : {20, 75}, intel : BOOLEAN]
\* A cool intelligence match ahead of a hot event of the same fingerprint.
MCMasked == <<[MCEvent("db", "idle", 5, 10) EXCEPT !.intel = TRUE],
              MCEvent("db", "idle2", 5, 80)>>
MCCorrInputs == {<<>>, MCMasked} \cup [1..1 -> MCSmall] \cup [1..2 -> MCSmall]
                \cup {<<a, b, c>> : a \in MCSmall, b \in {MCEvent("web", "idle", 0, 20)},
                                    c \in MCSmall}
                \cup {<<a, b, c>> : a \in MCSmall, b \in {MCEvent("db", "failed2", 5, 75)},
                                    c \in MCSmall}
MCHalves == [e \in {"db", "web", "web@db"} |->
                IF e = "web@db" THEN <<"web", "db">> ELSE <<>>]
MCWithin == {<<"web", "web@db">>, <<"db", "web@db">>}
\* Before the database's anomaly by a minute and by more, after it, alone.
MCAnalysisLogs == {<<MCEvent("web", "login", 0, 60), MCEvent("db", "export", 1, 80)>>,
                   <<MCEvent("web@db", "encrypt", 15, 90), MCEvent("web", "sudo", 0, 65)>>,
                   <<MCEvent("web", "export", 20, 70), MCEvent("db", "login", 5, 65)>>,
                   <<MCEvent("web@db", "idle", 5, 35)>>}

MCPlan == [intrusion |-> {"isolate", "notify"}, malware |-> {"isolate", "scan"}]
MCBlastRadius == [intrusion |-> 12, malware |-> 101]
MCAlertKinds == {[fp |-> "f", severity |-> 5, entities |-> {"db"}],
                 [fp |-> "f", severity |-> 2, entities |-> {"web"}],
                 [fp |-> "g", severity |-> 4, entities |-> {"db", "web"}]}

MCSignature == [w1 |-> "s", w2 |-> "s", w3 |-> "s"]
MCVerdicts == {[verdict |-> "false_positive", risk |-> 0],
               [verdict |-> "confirmed_incident", risk |-> 9]}
MCStep(type, policy) == [type |-> type, policy |-> policy]
MCPlaybookFiles ==
    <<[severities |-> {"high"}, tags |-> {"phishing"}, steps |-> <<MCStep("block", "abort")>>],
      [severities |-> {"critical", "high"}, tags |-> {"ransomware"},
       steps |-> <<MCStep("isolate_host", "continue"), MCStep("investigate", "abort"),
                   MCStep("notify", "continue"), MCStep("generate_report", "continue")>>],
      [severities |-> {"high"}, tags |-> {},
       steps |-> <<MCStep("investigate", "retry"), MCStep("isolate_host", "retry"),
                   MCStep("investigate", "continue"), MCStep("notify", "abort")>>]>>
MCPlaybookAlerts == {[severity |-> "critical", tags |-> {"ransomware"}],
                     [severity |-> "high", tags |-> {"phishing"}],
                     [severity |-> "low", tags |-> {"ransomware"}]}

MCEntity(type, id) == [type |-> type, id |-> id]
MCSeeds == {<<MCEntity("user", "x"), MCEntity("host", "x")>>,
            <<MCEntity("hash", "x"), MCEntity("application", "x"), MCEntity("host", "x")>>}
MCEvidenceRequests == {MCEntity("process", "x"), MCEntity("host", "x")}

MCValue(kind, v) == [kind |-> kind, v |-> v]
MCCondition(field, op, value) == [field |-> field, op |-> op, value |-> value]
MCRule(id, technique, combine, conditions) ==
    [id |-> <<id, 0>>, technique |-> technique, enabled |-> TRUE, mode |-> combine,
     conditions |-> conditions]
MCCampaigns ==
    [ransomware |-> <<[technique |-> "T1566", event |-> [event_type |-> MCValue("text", 1),
                                                        macro |-> MCValue("flag", 1)]],
                      [technique |-> "T1486", event |-> [event_type |-> MCValue("text", 2),
                                                        files |-> MCValue("number", 5000)]]>>,
     theft |-> <<[technique |-> "T1048", event |-> [event_type |-> MCValue("text", 5),
                                                   port |-> MCValue("number", 8443),
                                                   logon |-> MCValue("number", 1)]],
                 [technique |-> "T1021", event |-> [event_type |-> MCValue("text", 3),
                                                   logon |-> MCValue("text", 4)]]>>]
MCVendored == {MCRule("risk", "TA0002", "all",
                      {MCCondition("risk_score", "gte", MCValue("number", 6)),
                       MCCondition("event_type", "not_equals", MCValue("text", 9))}),
               MCRule("port", "T1071", "all",
                      {MCCondition("suspicious", "equals", MCValue("flag", 1))})}
MCAuthored == {MCRule("dump", "T1003", "any",
                      {MCCondition("event_type", "contains", MCValue("text", 0)),
                       MCCondition("logon", "lt", MCValue("number", 3))}),
               MCRule("mass", "T1486", "any",
                      {MCCondition("files", "gt", MCValue("number", 100)),
                       MCCondition("event_type", "contains", MCValue("text", 0))})}
MCTextMatches == {<<MCValue("text", 0), MCValue("text", 1)>>}
\* The hypothesis CoverageTheorem needs: these rules match their techniques.
ASSUME MCRulesCatch == RulesCatch

-----------------------------------------------------------------------------
(* One component moves in a behaviour, the others keep their initial value. *)

CorrNow == focus = "corr" /\ CorrNext
    /\ UNCHANGED <<focus, analysisVars, incidentVars, adaptiveVars, intakeVars, ledgerVars, llmVars,
                   streamVars, apiVars, playbookVars, evidenceVars, selfPlayVars>>
AnalysisNow == focus = "analysis" /\ AnalysisNext
    /\ UNCHANGED <<focus, corr, incidentVars, adaptiveVars, intakeVars, ledgerVars, llmVars,
                   streamVars, apiVars, playbookVars, evidenceVars, selfPlayVars>>
IncidentNow == focus = "incident" /\ IncidentNext
    /\ UNCHANGED <<focus, corr, analysisVars, adaptiveVars, intakeVars, ledgerVars, llmVars,
                   streamVars, apiVars, playbookVars, evidenceVars, selfPlayVars>>
AdaptiveNow == focus = "adaptive" /\ AdaptiveNext
    /\ UNCHANGED <<focus, corr, analysisVars, incidentVars, intakeVars, ledgerVars, llmVars,
                   streamVars, apiVars, playbookVars, evidenceVars, selfPlayVars>>
IntakeNow == focus = "intake" /\ IntakeNext
    /\ UNCHANGED <<focus, corr, analysisVars, incidentVars, adaptiveVars, ledgerVars, llmVars,
                   streamVars, apiVars, playbookVars, evidenceVars, selfPlayVars>>
LedgerNow == focus = "ledger" /\ LedgerNext
    /\ UNCHANGED <<focus, corr, analysisVars, incidentVars, adaptiveVars, intakeVars, llmVars,
                   streamVars, apiVars, playbookVars, evidenceVars, selfPlayVars>>
LlmNow == focus = "llm" /\ LlmNext
    /\ UNCHANGED <<focus, corr, analysisVars, incidentVars, adaptiveVars, intakeVars, ledgerVars,
                   streamVars, apiVars, playbookVars, evidenceVars, selfPlayVars>>
StreamNow == focus = "stream" /\ StreamNext
    /\ UNCHANGED <<focus, corr, analysisVars, incidentVars, adaptiveVars, intakeVars, ledgerVars,
                   llmVars, apiVars, playbookVars, evidenceVars, selfPlayVars>>
ApiNow == focus = "api" /\ ApiNext
    /\ UNCHANGED <<focus, corr, analysisVars, incidentVars, adaptiveVars, intakeVars, ledgerVars,
                   llmVars, streamVars, playbookVars, evidenceVars, selfPlayVars>>
PlaybookNow == focus = "playbook" /\ PlaybookNext
    /\ UNCHANGED <<focus, corr, analysisVars, incidentVars, adaptiveVars, intakeVars, ledgerVars,
                   llmVars, streamVars, apiVars, evidenceVars, selfPlayVars>>
EvidenceNow == focus = "evidence" /\ EvidenceNext
    /\ UNCHANGED <<focus, corr, analysisVars, incidentVars, adaptiveVars, intakeVars, ledgerVars,
                   llmVars, streamVars, apiVars, playbookVars, selfPlayVars>>
SelfPlayNow == focus = "selfplay" /\ SelfPlayNext
    /\ UNCHANGED <<focus, corr, analysisVars, incidentVars, adaptiveVars, intakeVars, ledgerVars,
                   llmVars, streamVars, apiVars, playbookVars, evidenceVars>>

Init == /\ focus \in {"corr", "analysis", "incident", "adaptive", "intake", "ledger",
                       "llm", "stream", "api", "playbook", "evidence", "selfplay"}
        /\ IF focus = "corr" THEN CorrInit ELSE CorrIdle
        /\ AnalysisInit /\ IncidentInit
        /\ AdaptiveInit /\ (focus # "adaptive" => ~result[1].gaps /\ result[1].conf = 20)
        /\ IntakeInit /\ (focus # "intake" => store = "none")
        /\ LedgerInit /\ LlmInit /\ StreamInit /\ PlaybookInit
        /\ ApiInit /\ (focus # "api" => setup = [temporal |-> FALSE, database |-> FALSE])
        /\ EvidenceInit /\ (focus # "evidence" => seeds = CHOOSE s \in EvidenceSeeds : TRUE)
        /\ SelfPlayInit
Next == CorrNow \/ AnalysisNow \/ IncidentNow \/ AdaptiveNow \/ IntakeNow \/ LedgerNow
        \/ LlmNow \/ StreamNow \/ ApiNow \/ PlaybookNow \/ EvidenceNow \/ SelfPlayNow
allVars == <<focus, corr, analysisVars, incidentVars, adaptiveVars, intakeVars, ledgerVars,
             llmVars, streamVars, apiVars, playbookVars, evidenceVars, selfPlayVars>>

\* A generator that is not abandoned polls again after its half second.
PollsOn == focus = "stream" /\ PollNow
    /\ UNCHANGED <<focus, corr, analysisVars, incidentVars, adaptiveVars, intakeVars, ledgerVars,
                   llmVars, apiVars, playbookVars, evidenceVars, selfPlayVars>>
Spec == Init /\ [][Next]_allVars /\ WF_allVars(PollsOn)
=============================================================================
