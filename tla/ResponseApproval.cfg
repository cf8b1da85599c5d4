\* The gate at its default tier.  Each call decides whether a human is behind a
\* callback.  No symmetry: CallsEnd is a liveness property.
SPECIFICATION FairSpec
CONSTANTS
    c1 = c1
    c2 = c2
    Calls <- MCCalls
    Plans <- MCPlans
    ApprovalRequired = TRUE
    Tier = 1
INVARIANTS
    TypeOK
    KillSwitchCovers
    ActiveIsInFlight
    SummaryMatchesLog
    ExecutionJustified
PROPERTIES
    CallsEnd
