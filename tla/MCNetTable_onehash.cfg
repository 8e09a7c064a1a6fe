SPECIFICATION Spec
CONSTANTS
  n1 = n1
  n2 = n2
  n3 = n3
  n4 = n4
  Networks = {n1, n2, n3, n4}
  NoNetwork = NoNetwork
  NoHandle = NoHandle
  Junk = Junk
  Hash <- OneHash
  MaxNumNetworks = 3
  MaxNumNewNetworks = 1
  NumBlocks = 1
  Indices = {i1}
  Handles = {h1, h2, h3, h4}
  Ways = {w1}
SYMMETRY Symmetry
INVARIANTS BlocksOwned CacheCoherent Findable Persisted
CHECK_DEADLOCK FALSE
