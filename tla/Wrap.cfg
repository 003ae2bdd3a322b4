\* More messages than sequence numbers.
SPECIFICATION Spec
CONSTANTS
  A = A
  B = B
  Node = {A, B}
  NoPacket = NoPacket
  Setting <- FiveFromA
  Size = {1}
  MAX_SEQ_N = 4
  WINDOW_SZ = 2
  TRANSMIT_FIFO = 2
  MAX_UNACK_PACKETS = 3
  MAX_TRANSIT = 2
  MAX_NOW = 2
INVARIANTS
  InOrder
  ReleasedIsDelivered
  AckLoopEnds
  WindowsFit
CHECK_DEADLOCK FALSE
