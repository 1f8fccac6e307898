SPECIFICATION LiveSpec
CONSTANTS
  SeqMod = 32
  Mss = 2
  RingCap = 8
  RcvWnd = 7
  RcvScale = 0
  IwFloor = 10
  Infinite = 1000
  Conn = {c1}
  c1 = c1
  c2 = c2
  IsnStep = 8
  Backlog = 1
  KaCount = 1
  Scenes <- LiveScenes
PROPERTIES WrittenIsDelivered HandshakesEnd
CHECK_DEADLOCK FALSE
