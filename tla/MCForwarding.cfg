CONSTANTS
  None = None
  id1 = id1
  id2 = id2
  alice = alice
  bob = bob
  junk = junk
  Minted = Minted
  Ids = {id1, id2}
  Users = {alice, bob}
  Values = {junk}
  Tokens <- MCTokens
  Clients <- MCClients
  Configs <- MCConfigs
  Leeway = 1
  MaxTime = 3
SPECIFICATION Spec
INVARIANTS
  IInv
  TrustedHeaders
  ChargedAsTold
  OneId
\* A call ends.
CHECK_DEADLOCK FALSE
