CONSTANTS
  u = u  x = x
  Key = {x}
  UdpKey <- NoUdp
  NumWorkers = 1
  QueueSize = 2
  UdpFlowTimeout = 1
  TcpFlowTimeout = 2
  TcpFlowCloseWaitTimeout = 1
  Traffic <- TcpOnly
  MaxPackets = 1
  MaxClock = 0
  CanShutdown = FALSE
  CanFinish = TRUE
  MayClassify = FALSE
SPECIFICATION FairSpec
PROPERTIES FinishedReturns
CHECK_DEADLOCK FALSE
