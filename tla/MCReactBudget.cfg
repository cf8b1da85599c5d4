\* An iteration budget below the quotas, so that the loop can run out of turns,
\* and messages posted by the models that may ask for a named or an unnamed entity.
\* No symmetry: RunEnds is a liveness property.
SPECIFICATION FairSpec
CONSTANTS
    e1 = e1
    e2 = e2
    e3 = e3
    Entities <- MCTwoEntities
    Confidences <- MCConfidences
    LlmMessages <- MCLlmMessages
    Unnamed = {e2}
    MaxIterations = 3
    MaxActionIterations = 2
    SwarmThreshold = 1
PROPERTIES
    RunEnds
    ImplementsRun
CHECK_DEADLOCK FALSE
