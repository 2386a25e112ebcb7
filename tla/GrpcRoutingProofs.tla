-------------------------- MODULE GrpcRoutingProofs --------------------------
(***************************************************************************)
(* Proofs about GrpcRouting, for any names, routes and methods.            *)
(*                                                                         *)
(* Two prefixes of one method that are equally long are equal, and the     *)
(* table has each prefix once: so the first route of the table that fits   *)
(* is the only one of its length, and those before it are the longer ones. *)
(***************************************************************************)
EXTENDS GrpcRouting, SequenceTheorems, TLAPS

\* Prefixes of one name that are equally long are equal.
LEMMA EqualPrefixes ==
  ASSUME NEW m \in Seq(Symbols), NEW p \in Seq(Symbols), NEW q \in Seq(Symbols),
         HasPrefix(m, p), HasPrefix(m, q), Len(p) = Len(q)
  PROVE  p = q
  <1>1. SubSeq(p, 1, Len(p)) = p /\ SubSeq(q, 1, Len(q)) = q
    OBVIOUS
  <1>2. QED
    BY <1>1 DEF HasPrefix, IsPrefix

LEMMA InvInit == Init => IInv
  BY RoutingAssumption DEF Init, IInv, TypeOK, Tabled, LongestWins, Range, HasPrefix

LEMMA RoutesType ==
  ASSUME TypeOK
  PROVE  /\ routes \in Seq(Route) /\ Len(routes) \in Nat
         /\ \A i \in 1..Len(routes) : routes[i] \in Route
         /\ Range(routes) = {routes[i] : i \in 1..Len(routes)}
  BY RoutingAssumption DEF TypeOK, Range

LEMMA AddKeeps ==
  ASSUME IInv, Add
  PROVE  IInv'
  <1> DEFINE r == routes[turn + 1]
  <1>0. /\ phase = "checking" /\ turn \in Nat /\ turn < Len(routes) /\ turn' = turn + 1
        /\ UNCHANGED <<routes, table, method, answer>>
        /\ answer = NoRoute /\ table = <<>> /\ method = <<>>
        /\ Len(copied) = turn /\ copied \in Seq(Route)
    BY DEF Add, IInv, TypeOK, Tabled
  <1>1. r \in Route
    BY <1>0, RoutesType DEF IInv
  <1>2. CASE Good(r) /\ \A i \in DOMAIN copied : copied[i].prefix # r.prefix
    <2>1. copied' = Append(copied, r) /\ phase' = phase
      BY <1>2 DEF Add
    <2> HIDE DEF r
    <2>2. /\ copied' \in Seq(Route) /\ Len(copied') = turn + 1
          /\ DOMAIN copied' = 1..(turn + 1) /\ DOMAIN copied = 1..turn
          /\ \A i \in 1..turn : copied'[i] = copied[i]
          /\ copied'[turn + 1] = r
      BY <1>0, <1>1, <2>1
    <2>3. TypeOK'
      BY <1>0, <2>1, <2>2, RoutesType DEF IInv, TypeOK
    <2>4. \A i \in 1..turn' : copied'[i] = routes'[i]
      BY <1>0, <2>2 DEF IInv, Tabled, r
    <2>5. \A i, j \in DOMAIN copied' : copied'[i].prefix = copied'[j].prefix => i = j
      BY <1>0, <1>2, <2>2 DEF IInv, Tabled
    <2>6. Tabled'
      BY <1>0, <2>1, <2>2, <2>4, <2>5 DEF Tabled
    <2>7. LongestWins'
      BY <1>0, <2>1 DEF LongestWins
    <2>8. QED
      BY <2>3, <2>6, <2>7 DEF IInv
  <1>3. CASE ~(Good(r) /\ \A i \in DOMAIN copied : copied[i].prefix # r.prefix)
    <2>1. copied' = copied /\ phase' = "refused"
      BY <1>3 DEF Add
    <2> HIDE DEF r
    <2>2. TypeOK'
      BY <1>0, <2>1, RoutesType DEF IInv, TypeOK
    <2>3. Tabled' /\ LongestWins'
      BY <1>0, <2>1 DEF IInv, Tabled, LongestWins
    <2>4. QED
      BY <2>2, <2>3 DEF IInv
  <1>4. QED
    BY <1>2, <1>3

LEMMA SortKeeps ==
  ASSUME IInv, Sort
  PROVE  IInv'
  <1>1. PICK t \in [DOMAIN copied -> Range(copied)] :
          Range(t) = Range(copied) /\ LongestFirst(t) /\ table' = t
    BY DEF Sort
  <1>0. /\ phase = "checking" /\ phase' = "ready" /\ turn = Len(routes)
        /\ answer = NoRoute
        /\ UNCHANGED <<routes, turn, copied, method, answer>>
    BY DEF Sort, IInv, Tabled
  <1>2. t \in Seq(Route)
    <2>1. copied \in Seq(Route)
      BY DEF IInv, TypeOK
    <2>2. Len(copied) \in Nat /\ DOMAIN copied = 1..Len(copied) /\ Range(copied) \subseteq Route
      BY <2>1 DEF Range
    <2>3. t \in [1..Len(copied) -> Route]
      BY <2>2
    <2>4. QED
      BY <2>2, <2>3
  <1>3. TypeOK'
    BY <1>0, <1>1, <1>2 DEF IInv, TypeOK
  <1>4. Tabled'
    BY <1>0, <1>1 DEF IInv, Tabled, LongestFirst
  <1>5. method = <<>>
    BY <1>0 DEF IInv, Tabled
  <1>6. LongestWins'
    BY <1>0, <1>5 DEF LongestWins
  <1>7. QED
    BY <1>3, <1>4, <1>6 DEF IInv

LEMMA MatchKeeps ==
  ASSUME IInv, NEW m \in Methods, Match(m)
  PROVE  IInv'
  <1>0. /\ phase = "ready" /\ method' = m /\ m \in Seq(Symbols)
        /\ UNCHANGED <<routes, phase, turn, copied, table>>
    BY RoutingAssumption DEF Match
  <1>1. /\ table \in Seq(Route) /\ LongestFirst(table)
        /\ Range(table) = Range(routes)
        /\ \A x, y \in Range(routes) : x.prefix = y.prefix => x = y
    <2>1. /\ Len(copied) = Len(routes) /\ \A i \in 1..Len(routes) : copied[i] = routes[i]
          /\ copied \in Seq(Route) /\ routes \in Seq(Route)
      BY <1>0, RoutesType DEF IInv, TypeOK, Tabled
    <2>2. Range(routes) = Range(copied)
      BY <2>1 DEF Range
    <2>3. /\ table \in Seq(Route) /\ LongestFirst(table) /\ Range(table) = Range(copied)
          /\ \A i, j \in DOMAIN copied : copied[i].prefix = copied[j].prefix => i = j
      BY <1>0 DEF IInv, TypeOK, Tabled
    <2>4. \A x, y \in Range(copied) : x.prefix = y.prefix => x = y
      BY <2>3 DEF Range
    <2>5. QED
      BY <2>2, <2>3, <2>4
  <1>2. answer' \in Route \cup {NoRoute}
    BY <1>1 DEF Match
  <1>3. TypeOK'
    BY <1>0, <1>2 DEF IInv, TypeOK
  <1>4. Tabled'
    BY <1>0 DEF IInv, Tabled
  <1>5. ASSUME answer' # NoRoute
        PROVE  /\ Fits(answer)'
               /\ \A r \in Range(routes) :
                    Fits(r)' /\ r # answer' => Len(r.prefix) < Len(answer'.prefix)
    <2>1. PICK i \in DOMAIN table :
            /\ HasPrefix(m, table[i].prefix)
            /\ \A j \in 1..(i - 1) : ~HasPrefix(m, table[j].prefix)
            /\ answer' = table[i]
      BY <1>5 DEF Match
    <2>2. table[i] \in Range(routes)
      BY <1>1 DEF Range
    <2>3. Fits(answer)'
      BY <1>0, <2>1, <2>2 DEF Fits, HasPrefix, IsPrefix
    <2>4. ASSUME NEW r \in Range(routes), HasPrefix(m, r.prefix), r # table[i]
          PROVE  Len(r.prefix) < Len(table[i].prefix)
      <3>1. PICK j \in DOMAIN table : table[j] = r
        BY <1>1 DEF Range
      <3>2. DOMAIN table = 1..Len(table) /\ i \in Nat /\ j \in Nat
        BY <1>1
      <3>3. i < j
        <4>1. j # i /\ HasPrefix(m, table[j].prefix)
          BY <2>4, <3>1
        <4>2. j \notin 1..(i - 1)
          BY <2>1, <4>1
        <4>3. j \in Nat /\ j >= 1 /\ i \in Nat /\ i >= 1
          BY <3>2
        <4>4. QED
          BY <4>1, <4>2, <4>3
      <3>4. /\ r.prefix \in Seq(Symbols) /\ table[i].prefix \in Seq(Symbols)
        <4>1. table[i] \in Route /\ r \in Route
          BY <1>1, <3>1
        <4>2. QED
          BY <4>1 DEF Route
      <3>5. Len(table[i].prefix) >= Len(r.prefix)
        BY <1>1, <3>1, <3>3 DEF LongestFirst
      <3>6. table[i].prefix # r.prefix
        BY <1>1, <2>2, <2>4
      <3>7. Len(table[i].prefix) # Len(r.prefix)
        BY <1>0, <2>1, <2>4, <3>4, <3>6, EqualPrefixes
      <3>8. QED
        BY <3>4, <3>5, <3>7
    <2>5. QED
      BY <1>0, <2>1, <2>3, <2>4 DEF Fits, HasPrefix, IsPrefix
  <1>6. ASSUME answer' = NoRoute
        PROVE  \A r \in Range(routes) : ~Fits(r)'
    <2>1. \A i \in DOMAIN table : table[i] \in Route
      BY <1>1
    <2>2. \A i \in DOMAIN table : ~HasPrefix(m, table[i].prefix)
      BY <1>6, <2>1, RoutingAssumption DEF Match
    <2>3. QED
      <3> SUFFICES ASSUME NEW r \in Range(routes), HasPrefix(m, r.prefix) PROVE FALSE
        BY <1>0 DEF Fits, HasPrefix, IsPrefix
      <3>1. PICK i \in DOMAIN table : table[i] = r
        BY <1>1 DEF Range
      <3>2. QED
        BY <2>2, <3>1
  <1>7. LongestWins'
    BY <1>0, <1>5, <1>6 DEF LongestWins
  <1>8. QED
    BY <1>3, <1>4, <1>7 DEF IInv

\* The strengthening holds in every state: the table is a rearrangement of the
\* routes, each prefix once, the longest first.
THEOREM Invariance == Spec => []IInv
  <1>1. IInv /\ [Next]_vars => IInv'
    <2>1. ASSUME IInv, UNCHANGED vars PROVE IInv'
      <3>1. UNCHANGED <<routes, phase, turn, copied, table, method, answer>>
        BY <2>1 DEF vars
      <3>2. TypeOK'
        BY <2>1, <3>1 DEF IInv, TypeOK
      <3>3. Tabled'
        BY <2>1, <3>1 DEF IInv, Tabled
      <3>4. \A r : Fits(r)' <=> Fits(r)
        BY <3>1 DEF Fits, HasPrefix, IsPrefix
      <3>5. LongestWins'
        BY <2>1, <3>1, <3>4 DEF IInv, LongestWins, Fits
      <3>6. QED
        BY <3>2, <3>3, <3>5 DEF IInv
    <2>2. QED
      BY <2>1, AddKeeps, SortKeeps, MatchKeeps DEF Next
  <1>2. QED
    BY InvInit, <1>1, PTL DEF Spec

\* The first match is the longest, for any table and any method.
THEOREM RoutesByLongest == Spec => []LongestWins
  <1>1. IInv => LongestWins
    BY DEF IInv
  <1>2. QED
    BY Invariance, <1>1, PTL
=============================================================================
