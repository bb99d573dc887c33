CONSTANTS
  u = u  x = x
  Key = {u}
  UdpKey = {u}
  NumWorkers = 2
  QueueSize = 2
  UdpFlowTimeout = 1
  TcpFlowTimeout = 2
  TcpFlowCloseWaitTimeout = 1
  Traffic <- UdpOnly
  MaxPackets = 3
  MaxClock = 2
  CanShutdown = FALSE
  CanFinish = TRUE
  MayClassify = TRUE
SPECIFICATION Spec
INVARIANTS UdpCountExact UdpOneWorker UdpClassifiedOnce UdpReportedOnce
CHECK_DEADLOCK FALSE
