CONSTANTS
  Keys = {"user:a", "ip:b"}
  Capacity = 2
  UnitsPerToken = 3
  Rate = 2
  MinTtl = 1
  MsPerSecond = 2
  MaxTime = 7
  MaxBacks = 0
  MaxLosses = 1
SPECIFICATION SteadySpec
PROPERTIES
  IsIdeal
