CONSTANTS
  u = u  x = x
  Key = {x}
  UdpKey <- NoUdp
  NumWorkers = 2
  QueueSize = 2
  UdpFlowTimeout = 1
  TcpFlowTimeout = 2
  TcpFlowCloseWaitTimeout = 0
  Traffic <- TcpOnly
  MaxPackets = 3
  MaxClock = 1
  CanShutdown = TRUE
  CanFinish = FALSE
  MayClassify = FALSE
SPECIFICATION Spec
INVARIANTS TypeOK OnePlace CountsAddUp ClosedFlowAwaited
PROPERTIES DecidesOnce
CHECK_DEADLOCK FALSE
