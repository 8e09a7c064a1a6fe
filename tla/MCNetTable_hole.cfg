SPECIFICATION Spec
CONSTANTS
  n1 = n1
  n2 = n2
  n3 = n3
  n4 = n4
  Networks = {n1, n2, n3}
  NoNetwork = NoNetwork
  NoHandle = NoHandle
  Junk = Junk
  Hash <- TwoHashes
  MaxNumNetworks = 4
  MaxNumNewNetworks = 1
  NumBlocks = 1
  Indices = {i1}
  Handles = {h1, h2, h3, h4, h5}
  Ways = {w1}
INVARIANT Findable
CHECK_DEADLOCK FALSE
