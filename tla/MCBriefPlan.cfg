\* The budgets of the code; a deadline that bites and calls of 0 to 2 ticks.
SPECIFICATION PlanSpec
CONSTANTS
  RunTimeout = 3
  MaxCall = 2
  MaxSentenceTurns = 3
  MaxScratch = 8
CHECK_DEADLOCK FALSE
INVARIANTS
  PlanTypeOK
  BriefIsWhole
  OverrunIsBounded
  BudgetsHold
