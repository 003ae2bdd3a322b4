\* Two packets arrive corrupt, the second while the reset after the first is under way.
SPECIFICATION Spec
CONSTANTS
  A = A
  B = B
  Node = {A, B}
  SPW_DELAY = 12800
  SPW_HALF_DELAY = 6400
  EXCHANGE_OF_SILENCE = 850
  APPROACH_TIME = 850
  DELAY = 48
  PERIOD = 50
  LATENCY = 11
  HANDLING = 100000000
  MAX_SEND = 3
  Traffic <- ThreeShortPackets
  QUEUE_SZ = 2
  Offset = {0}
  Gap = {0, 40, 900}
  ShutdownIn = {}
  MAX_ERRORS = 2
  OneAtATime = FALSE
INVARIANT CompletesInBusy
CHECK_DEADLOCK FALSE
