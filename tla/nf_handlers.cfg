CONSTANTS
  Files <- SomeFiles
  MaxQueues = 2
  MaxWorkers = 1
  MaxPackets = 2
  MaxPrints = 1
SPECIFICATION FairSpec
INVARIANTS TypeOK BufferFreedOnce DeletedHasVerdict AcceptedBeforeQueued StatsAddUp
INVARIANTS HandlersOutliveSignal LateVerdicts
CHECK_DEADLOCK FALSE
PROPERTIES EveryPacketDecided SignalEndsProcess
