SPECIFICATION FairSpec
CONSTANTS
  Murmur <- SomeMurmur
  Lossy <- LossyUpTo46
  Scenarios <- AllScenarios
  Divergence = {0, 1, 3}
  Junk <- SomeJunk
  MaxRuns = 2
INVARIANTS TypeOK TrainedUnderOwnFile CountsGrowTogether WrittenIsReadBack TrainingIsSaved
INVARIANTS OneResultPerFlow EveryModelHasItsTurn OneFlowPerConnection BinsInRange ProbabilitiesAddUp
PROPERTIES LatestDatabaseKept LimitsRespected EveryRunEnds
CHECK_DEADLOCK FALSE
