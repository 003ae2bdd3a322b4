\* More messages than sequence numbers, under fairness.
SPECIFICATION FairSpec
CONSTANTS
  A = A
  B = B
  Node = {A, B}
  NoPacket = NoPacket
  Setting <- FiveFromA
  Size = {1}
  MAX_SEQ_N = 4
  WINDOW_SZ = 2
  TRANSMIT_FIFO = 5
  MAX_UNACK_PACKETS = 3
  MAX_TRANSIT = 1
  MAX_NOW = 2
PROPERTIES
  AllDelivered
CHECK_DEADLOCK FALSE
