\* The code's own budgets; three entities are just enough for the swarm.
SPECIFICATION Spec
CONSTANTS
    e1 = e1
    e2 = e2
    e3 = e3
    Entities <- MCEntities
    Confidences <- MCConfidences
    LlmMessages <- MCNoMessages
    Unnamed = {}
    MaxIterations = 15
    MaxActionIterations = 3
    SwarmThreshold = 3
SYMMETRY Symmetry
INVARIANTS
    TypeOK
    QuotaRespected
    NeverExhausted
    ContainmentRestsOnRca
    SwarmNeverGathers
    PrematureClosureFlagged
\* A finished or crashed run takes no further step.
CHECK_DEADLOCK FALSE
