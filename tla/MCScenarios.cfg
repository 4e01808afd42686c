SPECIFICATION ScenarioSpec
CONSTANTS
  DAY_ANCHOR = 400
  TERM_LENGTH_DAYS = 365
  REPORT_LAG_MIN_DAYS = 1
  Lines = {2, 3, 4}
  COLL = 2
  COMP = 3
  DeductibleLines = {2, 3}
  Limits = {5000, 10000, 15000, 25000}
  Deductibles = {250, 1000}
  Locations = {home, away}
  Agents = {ann}
  Amounts = {2000, 9000, 40000}
  StartLimits = {10000}
  StartDeductibles = {1000}
  MaxClaims = 2
  MaxEvents = 7
  PATTERN_CLAIM_WINDOW_DAYS = 60
  PATTERN_CLUSTER_SPAN_DAYS = 30
  PATTERN_CLUSTER_MIN_CHANGES = 3
  PATTERN_VEHICLE_ADDRESS_DAYS = 60
  PATTERN_LIMIT_RAISED_WINDOW_DAYS = 90
  RECENT_BEFORE_LOSS_DAYS = 30
  RELEVANT_CHANGE_DAYS = 60
  MaxBackgroundChanges = 1
  MaxBackgroundClaims = 1
  ReportLags = {1, 12}
  SEVERITY_CUTS <- MCSeverityCuts
  PRIOR_WINDOWS <- MCPriorWindows
  QUESTION_WINDOWS <- MCPriorWindows
  ROUTING_DAYS = 90
  SEQUENCE_DAYS = 365
  SettleLags = {9, 94}
SYMMETRY MCSymmetry
CHECK_DEADLOCK FALSE
INVARIANTS
  ShapesHold
  ScenariosShow
