\* pipeline_core.py:242 on a verdict that does not see the RCA.
SPECIFICATION Spec
CONSTANTS
    e1 = e1
    e2 = e2
    e3 = e3
    Entities <- MCOneEntity
    Confidences <- MCConfidences
    LlmMessages <- MCNoMessages
    Unnamed = {}
    MaxIterations = 15
    MaxActionIterations = 3
    SwarmThreshold = 3
INVARIANTS
    VerdictReflectsRca
CHECK_DEADLOCK FALSE
