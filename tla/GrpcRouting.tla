----------------------------- MODULE GrpcRouting -----------------------------
(***************************************************************************)
(* The gRPC route table: New checks the configured routes one by one and   *)
(* sorts them by the length of their prefixes; Match takes the first whose *)
(* prefix the method has.  Names are sequences of symbols.                 *)
(***************************************************************************)
EXTENDS Naturals, Sequences, SequencesExt

CONSTANTS
  Symbols, Slash, \* of names, and the one that every name starts with
  Upstreams,
  Tables,         \* sequences of routes that New may be given
  Methods,        \* full methods of calls
  NoRoute

Route == [prefix : Seq(Symbols), upstream : Upstreams]

ASSUME RoutingAssumption ==
  /\ Slash \in Symbols
  /\ Tables \subseteq Seq(Route)
  /\ Methods \subseteq Seq(Symbols)
  /\ NoRoute \notin Route

VARIABLES
  routes,   \* as configured
  phase,
  turn,     \* turns of New's loop
  copied,   \* the routes found good so far
  table,    \* the Table's routes
  method,   \* of the last call
  answer    \* what Match returned for it

vars == <<routes, phase, turn, copied, table, method, answer>>

TypeOK ==
  /\ routes \in Tables
  /\ phase \in {"checking", "refused", "ready"}
  /\ turn \in 0..Len(routes)
  /\ copied \in Seq(Route) /\ table \in Seq(Route)
  /\ method \in Seq(Symbols)
  /\ answer \in Route \cup {NoRoute}

Init ==
  /\ routes \in Tables
  /\ phase = "checking" /\ turn = 0
  /\ copied = <<>> /\ table = <<>>
  /\ method = <<>> /\ answer = NoRoute

\* strings.HasPrefix.
HasPrefix(s, p) == IsPrefix(p, s)

-----------------------------------------------------------------------------
Good(r) == r.prefix # <<>> /\ r.prefix[1] = Slash

\* One turn of New's loop.
Add ==
  /\ phase = "checking" /\ turn < Len(routes)
  /\ LET r == routes[turn + 1] IN
     IF Good(r) /\ \A i \in DOMAIN copied : copied[i].prefix # r.prefix
     THEN copied' = Append(copied, r) /\ UNCHANGED phase
     ELSE phase' = "refused" /\ UNCHANGED copied
  /\ turn' = turn + 1
  /\ UNCHANGED <<routes, table, method, answer>>

\* Mutant: the least function has its operands swapped.
ShortestFirst(t) ==
  \A i, j \in DOMAIN t : i < j => Len(t[i].prefix) <= Len(t[j].prefix)
LongestFirst(t) ==
  \A i, j \in DOMAIN t : i < j => Len(t[i].prefix) >= Len(t[j].prefix)

\* sort.SliceStable; that equally long prefixes keep their order decides
\* nothing, and is left open.
Sort ==
  /\ phase = "checking" /\ turn = Len(routes)
  /\ \E t \in [DOMAIN copied -> Range(copied)] :
       Range(t) = Range(copied) /\ LongestFirst(t) /\ table' = t
  /\ phase' = "ready"
  /\ UNCHANGED <<routes, turn, copied, method, answer>>

\* Match, for a call of method m.
Match(m) ==
  /\ phase = "ready"
  /\ method' = m
  /\ \/ \E i \in DOMAIN table :
          /\ HasPrefix(m, table[i].prefix)
          /\ \A j \in 1..(i - 1) : ~HasPrefix(m, table[j].prefix)
          /\ answer' = table[i]
     \/ /\ \A i \in DOMAIN table : ~HasPrefix(m, table[i].prefix)
        /\ answer' = NoRoute
  /\ UNCHANGED <<routes, phase, turn, copied, table>>

Next == Add \/ Sort \/ \E m \in Methods : Match(m)

Spec == Init /\ [][Next]_vars

-----------------------------------------------------------------------------
Fits(r) == r \in Range(routes) /\ HasPrefix(method, r.prefix)

\* A call is routed by the one configured route whose prefix is the longest
\* that its method has, in whatever order the routes are configured; it goes
\* unrouted only if no configured route fits.
LongestWins ==
  /\ answer # NoRoute =>
       /\ Fits(answer)
       /\ \A r \in Range(routes) :
            Fits(r) /\ r # answer => Len(r.prefix) < Len(answer.prefix)
  /\ phase = "ready" /\ method # <<>> /\ answer = NoRoute =>
       \A r \in Range(routes) : ~Fits(r)

\* The table is the configured routes, each prefix once, the longest first.
Tabled ==
  /\ phase # "refused" => Len(copied) = turn /\ \A i \in 1..turn : copied[i] = routes[i]
  /\ \A i, j \in DOMAIN copied : copied[i].prefix = copied[j].prefix => i = j
  /\ phase = "ready" =>
       turn = Len(routes) /\ Range(table) = Range(copied) /\ LongestFirst(table)
  /\ phase # "ready" => table = <<>> /\ method = <<>> /\ answer = NoRoute
IInv == TypeOK /\ Tabled /\ LongestWins
=============================================================================
