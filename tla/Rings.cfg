SPECIFICATION RingsSpec
CONSTANTS
  Byte = {0, 1}
  ZeroByte = 0
  Capacity = 4
  Word = 8
  MaxLen = 2
  Producers = {p1, p2}
  MpscCapacity = 2
  MaxItems = 3
  MaxBatch = 2
INVARIANTS NoCopyRace SlotExclusive DequeuedInClaimOrder
PROPERTIES ImplementsQueue RefusedOnlyWhenFull
