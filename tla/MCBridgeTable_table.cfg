SPECIFICATION Spec
CONSTANTS
  MaxNumAddresses = 2
  NumWords = 2
  Stations <- ThreeStations
  Groups <- OnlyEveryone
  Frames <- Talk
  Hash <- HashTwo
  Cards = {c1, c2}
SYMMETRY Symmetry
INVARIANTS TypeOK ChainsUnbroken KnownStays BoardIsCurrent
PROPERTIES FilterJustified UndisturbedLearns
CHECK_DEADLOCK FALSE
