SPECIFICATION FairSpec
CONSTANTS
  Policies = {p1}
  NoPolicy = NoPolicy
  MaxQuestions = 2
  MaxRestarts = 1
  Seed = NoPolicy
  NoSeed = NoSeed
  MaxReloads = 1
CHECK_DEADLOCK FALSE
INVARIANTS
  TypeOK
  OverlapsFollowFailures
  OneCarriedConversation
  TrailInOrder
  NodesAreWarm
PROPERTIES
  QuestionsEnd
  TimelinesSettle
