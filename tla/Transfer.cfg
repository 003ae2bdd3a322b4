\* Three messages of A and one of B over a FIFO link, or three of A over a link
\* on which packets overtake each other; nothing shares an instant.
SPECIFICATION Spec
CONSTANTS
  A = A
  B = B
  Node = {A, B}
  NoPacket = NoPacket
  Setting <- ThreeAndOne
  Size = {1}
  MAX_SEQ_N = 4
  WINDOW_SZ = 2
  TRANSMIT_FIFO = 3
  MAX_UNACK_PACKETS = 3
  MAX_TRANSIT = 2
  MAX_NOW = 2
INVARIANTS
  TypeOK
  ReleasedIsDelivered
  AckedIsReceived
  TimerDiscipline
PROPERTIES
  TransferSpec
CHECK_DEADLOCK FALSE
