SPECIFICATION Spec
CONSTANTS
  Claims = {c1, c2}
  Runs = {r1, r2}
  NoClaim = NoClaim
  NoRun = NoRun
  MaxMisses = 2
  MaxCalls = 2
  Patient = TRUE
SYMMETRY MCSymmetry
CHECK_DEADLOCK FALSE
INVARIANTS
  ViewTypeOK
  ShowsItsOwnRun
  ShowsSelectedClaim
