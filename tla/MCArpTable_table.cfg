SPECIFICATION FairSpec
CONSTANTS
  ArpTableSize = 2
  ArpRetries = 1
  EntryTimeout = 3
  RetryTimeout = 2
  Addresses <- Mixed
  Hardware = {m1, mAll}
  Broadcast = mAll
  Stations = {m1}
  Packets = {p1, p2}
INVARIANTS PacketsOwned OnePending
PROPERTIES NoEndlessWait
CHECK_DEADLOCK FALSE
