\* Three timers at most, calls more than two microseconds apart.
SPECIFICATION Spec
CONSTANTS
  SeqNumber = {s1, s2, s3, s4}
  MAX_UNACK_PACKETS = 3
  DURATION = 8
  MICROS_T = 32
  GRAIN = 2
  GAP = 5
  MAX_SLIPS = 2
SYMMETRY Symmetry
INVARIANTS
  TypeOK
  HardwareRuns
  OnTime
PROPERTIES
  TimersSpec
