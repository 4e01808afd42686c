\* A connection may drop after the commit.
SPECIFICATION Spec
CONSTANTS
  c1 = c1
  c2 = c2
  Claims <- OneClaim
  RuleClaims <- OneClaim
  ReportRank <- MCReportRank
  Runs = {r1, r2}
  NoClaim = NoClaim
  NoRun = NoRun
  NightlyCap = 20
  DemoHold = FALSE
  MaxCrashes = 0
  Timely = TRUE
  Drops = TRUE
  LostAcks = TRUE
  BranchFaults = FALSE
SYMMETRY MCSymmetry
CHECK_DEADLOCK FALSE
INVARIANT FailedRunsPromoteNothing
