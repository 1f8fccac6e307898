SPECIFICATION Spec
CONSTANTS
  Binders <- Ab
  Users <- Uv
  Callers <- Pqr
  PortModulus = 5
  RANGE_START = 3
  Capacity = 2
  SampleRate = 1
  Latencies = {1, 2}
  FirstPort = 1
  LastPort = 3
  IsStub = FALSE
  Lcores = 4
  NicMaxRx = 2
  NicMaxTx = 2
  EnvQueues <- NoQueues
  MaxReporters = 3
INVARIANTS  EphemeralPortsDiffer OneThreadEach 
 
CHECK_DEADLOCK FALSE
