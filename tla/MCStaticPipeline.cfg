\* The code's own budgets; 69 sits just below the re-investigation threshold.
SPECIFICATION FairSpec
CONSTANTS
    e1 = e1
    Entities <- MCEntities
    Confidences <- MCConfidences
    LlmMessages <- MCNoMessages
    Unnamed = {}
    MaxIterations = 15
    MaxActionIterations = 3
INVARIANTS
    TypeOK
    NothingLeftOpen
    EveryTaskReported
PROPERTIES
    ImplementsRun
\* A finished run takes no further step.
CHECK_DEADLOCK FALSE
