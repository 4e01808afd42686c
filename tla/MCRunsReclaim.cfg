\* An app killed during a Run, and the nightly pass after it.
SPECIFICATION Spec
CONSTANTS
  c1 = c1
  c2 = c2
  Claims <- OneClaim
  RuleClaims <- NoClaims
  ReportRank <- MCReportRank
  Runs = {r1, r2}
  NoClaim = NoClaim
  NoRun = NoRun
  NightlyCap = 20
  DemoHold = FALSE
  MaxCrashes = 1
  Timely = TRUE
  Drops = FALSE
  LostAcks = FALSE
  BranchFaults = FALSE
SYMMETRY MCSymmetry
CHECK_DEADLOCK FALSE
PROPERTY NightlyReclaimsStale
