\* response_orchestration.py:95 on in-flight actions.
SPECIFICATION Spec
CONSTANTS
    c1 = c1
    c2 = c2
    Calls <- MCCalls
    Plans <- MCPlans
    ApprovalRequired = FALSE
    Tier = 1
PROPERTIES
    KillSwitchHalts
