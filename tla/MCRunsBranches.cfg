\* No crash, no branch fault, no demo hold; the connections to main still drop.
SPECIFICATION Spec
CONSTANTS
  c1 = c1
  c2 = c2
  Claims <- TwoClaims
  RuleClaims <- TwoClaims
  ReportRank <- MCReportRank
  Runs = {r1, r2}
  NoClaim = NoClaim
  NoRun = NoRun
  NightlyCap = 20
  DemoHold = FALSE
  MaxCrashes = 0
  Timely = FALSE
  Drops = TRUE
  LostAcks = TRUE
  BranchFaults = FALSE
SYMMETRY MCSymmetry
CHECK_DEADLOCK FALSE
INVARIANT BranchesAreAttended
