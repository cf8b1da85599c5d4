\* ROADMAP.md:231 on the iteration cap.
SPECIFICATION Spec
CONSTANTS
    e1 = e1
    Entities <- MCEntities
    Confidences <- MCConfidences
    LlmMessages <- MCNoMessages
    Unnamed = {}
    MaxIterations = 15
    MaxActionIterations = 3
INVARIANTS
    ReinvestigationCapped
\* A finished run takes no further step.
CHECK_DEADLOCK FALSE
