SPECIFICATION Spec
CONSTANTS
  MaxNumEvents = 4
  Midnight = 8
  KeyTicks = 2
  ArpTicks = 2
  RebootTicks = 3
  BootTimes = {0, 5}
  Word = 2
  MaxLag = 3
  AgeCap = 14
INVARIANTS NextEventPending
CHECK_DEADLOCK FALSE
