\* Node 0 with up to three ports, calls for its own and three other addresses, and
\* the sizes at both ends of a header's 16 bits.  The program may end: a node
\* started as its own peer answers data through a device it has not got.
SPECIFICATION Spec
CONSTANTS
  self_address = 0
  TimerId = {0, 1, 255}
  Address = {0, 1, 2, 3}
  DataSize = {0, 1, 65535, 65536, 65537}
  Memory = {0, 3, 255}
  MAX_PORTS = 3
INVARIANTS
  TypeOK
  Connectionless
  ArrivalFindsSocket
  OneSocketEach
  HeaderTells
PROPERTY ConnectionsSpec
CHECK_DEADLOCK FALSE
