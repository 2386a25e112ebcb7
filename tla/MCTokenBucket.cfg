CONSTANTS
  Keys = {"user:a"}
  Capacity = 2
  UnitsPerToken = 5
  Rate = 2
  MinTtl = 1
  MsPerSecond = 2
  MaxTime = 14
  MaxBacks = 1
  MaxLosses = 1
SPECIFICATION Spec
INVARIANTS
  BucketInv
  RateBound
  RetryExact
  HeaderExact
