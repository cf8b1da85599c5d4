\* Both paths, with a budget that the supervisor's loop can run out of.
SPECIFICATION FairSpec
CONSTANTS
    e1 = e1
    Entities <- MCEntities
    Confidences <- MCConfidences
    LlmMessages <- MCNoMessages
    Unnamed = {}
    MaxIterations = 3
    MaxActionIterations = 1
    SwarmThreshold = 1
    MaxAttempts = 2
    MaxUnlimitedAttempts = 2
INVARIANTS
    TypeOK
    UnfinishedIsHarmless
    CompletedIsPersisted
    PlanRestsOnRca
PROPERTIES
    ImplementsGate
    WorkflowCloses
\* A closed workflow takes no further step.
CHECK_DEADLOCK FALSE
