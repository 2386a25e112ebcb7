CONSTANTS
  h1 = h1
  h2 = h2
  g1 = g1
  g2 = g2
  Servers <- MCServers
  Calls <- MCCalls
  ServerOf <- MCServerOf
SPECIFICATION Spec
INVARIANTS
  LifecycleInv
  GracefulExit
  HandlersBeforeRegistry
  GraceUntilDeadline
PROPERTIES
  ShutdownEnds
\* The process exits.
CHECK_DEADLOCK FALSE
