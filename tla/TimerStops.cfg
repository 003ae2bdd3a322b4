\* Calls at any instants: a timer can be left waiting with no event to fire it.
SPECIFICATION Spec
CONSTANTS
  SeqNumber = {s1, s2}
  MAX_UNACK_PACKETS = 2
  DURATION = 4
  MICROS_T = 32
  GRAIN = 2
  GAP = 0
  MAX_SLIPS = 2
SYMMETRY Symmetry
INVARIANT
  HardwareRuns
