SPECIFICATION Spec
CONSTANTS
  CorrInputs <- MCCorrInputs
  ActionClass <- MCActionClass
  ActionKinds <- MCActionKinds
  ActionPhases <- MCActionPhases
  Manageable = 2
  FailedLogins = 1
  NoTime = NoTime
  Within <- MCWithin
  DatabaseAssets = {"db", "web@db"}
  UnknownTarget = "unknown_target"
  Investigations = {"i1", "i2"}
  AnalysisLogs <- MCAnalysisLogs
  Halves <- MCHalves
  MaxPackages = 2
  Requests = {"q1", "q2"}
  Rcas = {"intrusion", "malware"}
  Plan <- MCPlan
  BlastRadius <- MCBlastRadius
  LastSecond = 2
  Loops = {"l1", "l2"}
  Confidences = {20, 62, 90}
  MaxResults = 2
  AlertKinds <- MCAlertKinds
  RiskEntities = {"db", "web"}
  Stores = {"enforcing"}
  MaxAlerts = 2
  MaxIngests = 3
  MaxCalls = 2
  LastTick = 1
  MaxOutages = 0
  MaxRestarts = 0
  LedgerIds = {"i1", "i2"}
  MaxSteps = 4
  MaxLives = 3
  Callers = {"c1", "c2"}
  Keys = {"k1"}
  Capacity = 1
  PollsPerToken = 2
  MaxPolls = 2
  TTL = 3
  LastMoment = 6
  MaxSwitches = 2
  MaxRounds = 2
  MaxReconnects = 1
  InvIds = {"w1", "w2", "w3"}
  Signature <- MCSignature
  MinSamples = 2
  Severities = {"high"}
  VerdictRequests <- MCVerdicts
  MaxRulings = 2
  MaxApiLives = 2
  MaxWorkflows = 2
  PlaybookFiles <- MCPlaybookFiles
  PlaybookAlerts <- MCPlaybookAlerts
  EvidenceSeeds <- MCSeeds
  EvidenceRequests <- MCEvidenceRequests
  EvidenceRisks = {0, 9}
  MaxParallelTasks = 2
  MaxEvidenceRounds = 2
  Campaigns <- MCCampaigns
  VendoredRules <- MCVendored
  AuthoredRules <- MCAuthored
  TextMatches <- MCTextMatches
  MaxCampaigns = 2
  MaxReviews = 2
PROPERTY PendingReturnsAll
CHECK_DEADLOCK FALSE
