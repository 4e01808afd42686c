\* Fair threads, no crash and no dropped connection; everything else may fail.
SPECIFICATION FairSpec
CONSTANTS
  c1 = c1
  c2 = c2
  Claims <- TwoClaims
  RuleClaims <- OneClaim
  ReportRank <- MCReportRank
  Runs = {r1, r2}
  NoClaim = NoClaim
  NoRun = NoRun
  NightlyCap = 20
  DemoHold = TRUE
  MaxCrashes = 0
  Timely = TRUE
  Drops = FALSE
  LostAcks = FALSE
  BranchFaults = TRUE
CHECK_DEADLOCK FALSE
PROPERTIES
  ClaimsSettle
  WaitersEnd
