CONSTANTS
  a = a
  b = b
  u = u
  v = v
  Slash = Slash
  Symbols = {a, b, Slash}
  Upstreams = {u, v}
  Tables <- MCTables
  Methods <- MCMethods
  NoRoute = NoRoute
SPECIFICATION Spec
INVARIANT LongestWins
\* A refused table ends it.
CHECK_DEADLOCK FALSE
