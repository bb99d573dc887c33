CONSTANTS
  u = u  x = x
  Key = {x}
  UdpKey <- NoUdp
  NumWorkers = 1
  QueueSize = 2
  UdpFlowTimeout = 1
  TcpFlowTimeout = 2
  TcpFlowCloseWaitTimeout = 1
  Traffic <- TcpOnly
  MaxPackets = 3
  MaxClock = 3
  CanShutdown = FALSE
  CanFinish = FALSE
  MayClassify = FALSE
SPECIFICATION Spec
PROPERTIES IdleTcpTimesOut
