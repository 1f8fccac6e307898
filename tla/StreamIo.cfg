CONSTANTS
  Threads <- AppThreads
  Scenes <- AllScenes
  Capacity = 2
  Window = 2
  MaxBytes = 2
  MaxEvents = 2
SPECIFICATION Spec
INVARIANTS StreamSerialised SleepersWake  LastHandleCloses
CHECK_DEADLOCK FALSE
