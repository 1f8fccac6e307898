SPECIFICATION LiveSpec
CONSTANTS
  Capacity = 2
  RingCapacity = 2
  Threads <- PipelineThreads
  MaxFrees = 0
  NumWorkers = 2
  Receivers = {1, 2}
  Arrivals <- SmallArrivals
  Connections <- ToPeer
  Mode <- BlockAndPoll
  MaxPackets = 3
  MaxBurst = 2
  QueueMax = 1
INVARIANTS Exclusive FramesConserved ReceivedInOrder
 
CHECK_DEADLOCK FALSE
