CONSTANTS
  Addresses <- AllAddresses
  Macs <- AllMacs
  Sockets <- TwoSockets
  Threads <- FourThreads
  Scenes <- AllScenes
  MaxFrames = 2
  MaxBurst = 2
  MaxPackets = 2
  MaxBytes = 2
  MAX_ERROR_QUEUE = 1
  MAX_ATTEMPTS = 1
  POLLS_PER_ATTEMPT = 2
  MaxRefused = 1
  MIN_IDLE_THRESHOLD = 2
  SLEEP_STEP = 1
  OFF = 100
SPECIFICATION AsyncSpec
INVARIANTS LockOrder  ReceivedOnceInOrder CachesHonest RoutedToNeighbour
CHECK_DEADLOCK FALSE
