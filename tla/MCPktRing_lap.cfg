SPECIFICATION Spec
CONSTANTS
  NumRxBuf = 3
  EthMax = 1
  Counts = {1, 2}
  Handles = {h1}
  MyHandle = h1
  NoHandle = h0
  Data = {d1}
  NoData = d0
  Word = 2
  Target = "realmode"
  SplitUpcalls = FALSE
  AppCalls = {"receive", "free"}
PROPERTIES UpcallAppends
