\* Runs end well within the stale window; connections drop, but never after a commit.
SPECIFICATION Spec
CONSTANTS
  c1 = c1
  c2 = c2
  Claims <- OneClaim
  RuleClaims <- OneClaim
  ReportRank <- MCReportRank
  Runs = {r1, r2, r3}
  NoClaim = NoClaim
  NoRun = NoRun
  NightlyCap = 20
  DemoHold = TRUE
  MaxCrashes = 2
  Timely = TRUE
  Drops = TRUE
  LostAcks = FALSE
  BranchFaults = TRUE
SYMMETRY MCSymmetry
CHECK_DEADLOCK FALSE
INVARIANTS
  TypeOK
  OwnersAreActive
  BriefsAreFinal
  DispositionsFitBriefs
PROPERTIES
  KeepsPromise
  ServesTheApi
