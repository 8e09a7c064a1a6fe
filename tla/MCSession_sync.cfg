SPECIFICATION Spec
CONSTANTS
  m1 = m1
  m2 = m2
  p1 = p1
  p2 = p2
  Managers = {m1, m2}
  Persistent = {m1}
  Halves <- EnoughHalves
  Garbage = 0
  Passwords = {p1, p2}
  Installed = p1
  Plans <- SomePlans
INVARIANTS TypeOK NoReplay PositionsAgree
PROPERTIES AckMeansRan NewkeyLasts Served
CHECK_DEADLOCK FALSE
