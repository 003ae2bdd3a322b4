\* Start-up with the second device later by an offset in step or out of step,
\* packets, errors one at a time, shutdown of an idle device.
SPECIFICATION FairSpec
CONSTANTS
  A = A
  B = B
  Node = {A, B}
  SPW_DELAY = 12800
  SPW_HALF_DELAY = 6400
  EXCHANGE_OF_SILENCE = 850
  APPROACH_TIME = 850
  DELAY = 48
  PERIOD = 50
  LATENCY = 11
  HANDLING = 100000000
  MAX_SEND = 3
  Traffic <- ThreePackets
  QUEUE_SZ = 2
  Offset = {0, 12, 39, 1700, 16000, 31990}
  Gap = {0, 900, 99996000}
  ShutdownIn = {"RUN"}
  MAX_ERRORS = 2
  OneAtATime = TRUE
INVARIANTS
  TypeOK
  BusyCompletes
  NothingWaits
  EstablishedIsQuiet
  MeetsInStep
  ArrivedWasSent
PROPERTIES
  Recovers
  ErrorEmptiesChannel
  LinkSpec
CHECK_DEADLOCK FALSE
