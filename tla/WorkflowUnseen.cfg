\* routes/orchestrator.py:851 on approvals before the plan.
SPECIFICATION Spec
CONSTANTS
    e1 = e1
    Entities <- MCEntities
    Confidences <- MCConfidences
    LlmMessages <- MCNoMessages
    Unnamed = {}
    MaxIterations = 3
    MaxActionIterations = 1
    SwarmThreshold = 1
    MaxAttempts = 2
    MaxUnlimitedAttempts = 2
INVARIANTS
    ApprovalSawPlan
\* A closed workflow takes no further step.
CHECK_DEADLOCK FALSE
