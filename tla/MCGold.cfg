SPECIFICATION Spec
CONSTANTS
  DAY_ANCHOR = 4
  TERM_LENGTH_DAYS = 3
  REPORT_LAG_MIN_DAYS = 1
  Lines = {1, 2}
  DeductibleLines = {1}
  Limits = {10, 20}
  Deductibles = {1, 2}
  Locations = {home, away}
  Agents = {ann, bob}
  Amounts = {9, 18}
  StartLimits = {10}
  StartDeductibles = {2}
  MaxClaims = 2
  MaxEvents = 3
  PATTERN_CLAIM_WINDOW_DAYS = 1
  PATTERN_CLUSTER_SPAN_DAYS = 1
  PATTERN_CLUSTER_MIN_CHANGES = 3
  PATTERN_VEHICLE_ADDRESS_DAYS = 1
  PATTERN_LIMIT_RAISED_WINDOW_DAYS = 1
  RECENT_BEFORE_LOSS_DAYS = 1
  RELEVANT_CHANGE_DAYS = 1
  SEVERITY_CUTS <- MCSeverityCuts
  PRIOR_WINDOWS <- MCPriorWindows
  QUESTION_WINDOWS <- MCPriorWindows
  ROUTING_DAYS = 2
  SEQUENCE_DAYS = 2
  SettleLags = {0, 3}
SYMMETRY MCSymmetry
CHECK_DEADLOCK FALSE
INVARIANTS
  DatasetTypeOK
  VersionsInForce
  ChangesRoundTrip
  GapsAgree
  PatternsMeanWhatTheySay
  EvidenceAgrees
  SnapshotsAgree
  TimelineTells
  ValidatorAgrees
  PipelinePasses
