SPECIFICATION Spec
CONSTANTS
  Managers = {m1, m2}
  NumLists = 2
  MaxCommands = 4
  MaxFaults = 2
SYMMETRY Symmetry
INVARIANTS TypeOK RestartKeeps MixedFromFile
PROPERTIES UndisturbedLoads
CHECK_DEADLOCK FALSE
