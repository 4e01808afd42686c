\* The panel to its end, for a user who waits.
SPECIFICATION FairSpec
CONSTANTS
  Claims = {c1}
  Runs = {r1, r2}
  NoClaim = NoClaim
  NoRun = NoRun
  MaxMisses = 2
  MaxCalls = 2
  Patient = TRUE
CHECK_DEADLOCK FALSE
PROPERTIES
  WatchedRunsConclude
  PollingEnds
