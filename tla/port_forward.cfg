SPECIFICATION FairSpec
CONSTANTS
  http = http
  dns = dns
  web = web
  Empty = Empty
  Names <- MCNames
  MaxPort = 7
  Int32 = 8
  Objects <- MCObjects
  PodPorts <- MCPodPorts
  CommandLines <- MCCommandLines
  MaxPods = 2
CHECK_DEADLOCK FALSE
INVARIANTS TypeOK ForwardsByNumber  RefusedForAReason StopIsClosedOnce
PROPERTY InterruptEnds
