CONSTANTS
  MAX_FRAME_SIZE = 130
  Links <- OffloadLinks
  Payloads <- Pings
  Segments <- NoSegments
  Noisy <- NoPayloads
  Bits <- EveryBit
  Bounces <- NoBounces
  Crafts <- NoCrafts
  GeneveHead <- TwoOptions
  Ip4A <- Addr4A
  Ip4B <- Addr4B
SPECIFICATION Spec
INVARIANT EchoMirrors
