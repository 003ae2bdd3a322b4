\* The third message uses sequence number WINDOW_SZ.
SPECIFICATION Spec
CONSTANTS
  A = A
  B = B
  Node = {A, B}
  NoPacket = NoPacket
  Setting <- ThreeFromA
  Size = {1}
  MAX_SEQ_N = 4
  WINDOW_SZ = 2
  TRANSMIT_FIFO = 3
  MAX_UNACK_PACKETS = 3
  MAX_TRANSIT = 2
  MAX_NOW = 2
INVARIANTS
  StaysInStorage
CHECK_DEADLOCK FALSE
