CONSTANTS
  Calls = {c1, c2}
  alice = alice
  h1 = h1
  h2 = h2
  p1 = p1
  p2 = p2
  None = None
  Callers <- MCCallers
  Configs <- MCConfigs
  Capacity = 1
  MaxRetries = 1
  MaxRefill = 1
SYMMETRY Alike
SPECIFICATION Spec
INVARIANTS IInv RateKept OnlyBreaksOvercharge
PROPERTY KeepsLedger
\* Every call is decided.
CHECK_DEADLOCK FALSE
