CONSTANTS
  MAX_FRAME_SIZE = 130
  Links <- AllLinks
  Payloads <- AllPayloads
  Segments <- AllSegments
  Noisy <- NoisyPayloads
  Bits <- EveryBit
  Bounces <- AllBounces
  Crafts <- AllCrafts
  GeneveHead <- TwoOptions
  Ip4A <- Addr4A
  Ip4B <- Addr4B
SPECIFICATION Spec
INVARIANTS BuiltIsParsed  OffloadIsTransparent ControlAnswered
