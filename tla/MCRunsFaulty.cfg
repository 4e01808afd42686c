\* Everything may go wrong: zombie Runs, lost acknowledgements, crashes, branch faults.
SPECIFICATION Spec
CONSTANTS
  c1 = c1
  c2 = c2
  Claims <- OneClaim
  RuleClaims <- OneClaim
  ReportRank <- MCReportRank
  Runs = {r1, r2}
  NoClaim = NoClaim
  NoRun = NoRun
  NightlyCap = 20
  DemoHold = TRUE
  MaxCrashes = 1
  Timely = FALSE
  Drops = TRUE
  LostAcks = TRUE
  BranchFaults = TRUE
SYMMETRY MCSymmetry
CHECK_DEADLOCK FALSE
INVARIANTS
  ClaimRowsCoherent
PROPERTIES
  RecordSpec
