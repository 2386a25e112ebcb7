CONSTANTS
  a = a
  b = b
  k = k
  h = h
  g = g
  Upstreams = {a, b}
  Keys = {k}
  Configs <- MCConfigs
  Servers <- MCServers
  Calls <- MCCalls
  ServerOf <- MCServerOf
SPECIFICATION GatewaySpec
INVARIANTS
  NothingLeaks
  RoutesLead
  ClosedUnused
\* The process exits.
CHECK_DEADLOCK FALSE
