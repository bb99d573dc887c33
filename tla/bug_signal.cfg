CONSTANTS
  Files <- TwoQueues
  MaxQueues = 2
  MaxWorkers = 1
  MaxPackets = 1
  MaxPrints = 1
SPECIFICATION FairSpec
CHECK_DEADLOCK FALSE
PROPERTY ExitsCleanly
