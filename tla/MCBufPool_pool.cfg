SPECIFICATION FairSpec
CONSTANTS
  Bufs = {b1, b2, b3, b4}
  Overhead = 1
  Internet = internet
  Campus = campus
  Listen = {internet, campus}
  MaxSends = 2
  MaxBurst = 1
  NoBuf = none
INVARIANTS BuffersConserved ReserveKept SendsCounted
PROPERTIES QuietDrains
