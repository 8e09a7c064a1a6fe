SPECIFICATION FairSpec
CONSTANTS
  MaxNumEvents = 4
  Midnight = 8
  KeyTicks = 2
  ArpTicks = 2
  RebootTicks = 3
  BootTimes = {0, 5}
  Word = 2
  MaxLag = 2
  AgeCap = 10
INVARIANTS TypeOK NextEventKept NeverLate PeriodicArmed UptimeExact
PROPERTIES PeriodicServed
CHECK_DEADLOCK FALSE
