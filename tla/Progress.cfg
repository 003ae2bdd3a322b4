\* Three messages of A under fairness, each of one byte or of the 65536 bytes the
\* header cannot tell from none; nothing shares an instant.
SPECIFICATION FairSpec
CONSTANTS
  A = A
  B = B
  Node = {A, B}
  NoPacket = NoPacket
  Setting <- ThreeFromA
  Size = {1, 65536}
  MAX_SEQ_N = 4
  WINDOW_SZ = 2
  TRANSMIT_FIFO = 3
  MAX_UNACK_PACKETS = 3
  MAX_TRANSIT = 2
  MAX_NOW = 2
PROPERTIES
  AllDelivered
  RetransmissionEnds
CHECK_DEADLOCK FALSE
