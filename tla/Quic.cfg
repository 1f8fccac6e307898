CONSTANTS
  Mbuf <- Buffers
  RxDesc = 2
  TxDesc = 2
  DataRoom = 2
  Page = 4096
  RingRoom = 1
  Scenes <- AllScenes
  max_rx_burst = 2
  max_tx_burst = 2
  busy_poll_budget = 1
  PortFirst = 49152
  PortCount = 4
  PortMod = 8
  SockQueue = 2
  MaxFaults = 1
  MaxBinds = 2
SPECIFICATION Spec
   
PROPERTIES LoopProgress
CHECK_DEADLOCK FALSE
