CONSTANTS
  alice = alice
  bob = bob
  NoUser = NoUser
  Users <- MCUsers
  Configs <- MCConfigs
  Requests <- MCRequests
  MaxResp = 3
  Window = 1
  TextSize = 2
SPECIFICATION Spec
INVARIANTS
  AbortIsTold
\* The exchange ends.
CHECK_DEADLOCK FALSE
