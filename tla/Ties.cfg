\* B closes its socket and opens it again at any time, while calls, arrivals and
\* timers of a node may share an instant; or A does, with one more message.
SPECIFICATION Spec
CONSTANTS
  A = A
  B = B
  Node = {A, B}
  NoPacket = NoPacket
  Setting <- Reopenings
  Size = {1}
  MAX_SEQ_N = 4
  WINDOW_SZ = 2
  TRANSMIT_FIFO = 2
  MAX_UNACK_PACKETS = 2
  MAX_TRANSIT = 1
  MAX_NOW = 2
INVARIANTS
  InOrder
  OnceAcrossReopening
PROPERTIES
  ClosedIsSilent
CHECK_DEADLOCK FALSE
