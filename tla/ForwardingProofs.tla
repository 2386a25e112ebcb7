--------------------------- MODULE ForwardingProofs ---------------------------
(***************************************************************************)
(* Proofs about Forwarding: what each layer has established when the call  *)
(* leaves it, and from that who an upstream is told a call is for.         *)
(***************************************************************************)
EXTENDS Forwarding, TLAPS

Blocks == [kind : {"interim", "header", "trailer"}, ids : Seq(Ids \cup {Minted})]
Held == Ids \cup {Minted} \cup Users \cup Tokens \cup Values

-----------------------------------------------------------------------------
(***************************************************************************)
(* Where the layers are in the chain, and what the helpers return.         *)
(***************************************************************************)
LEMMA Places ==
  /\ Len(Chain) = 5 /\ Upstream = 6 /\ Over = 7
  /\ Chain[1] = "id" /\ Chain[2] = "log" /\ Chain[3] = "jwt"
  /\ Chain[4] = "limit" /\ Chain[5] = "proxy"
  BY DEF Chain, Upstream, Over

\* The layer in which a call is, by its place.
LEMMA Layer ==
  ASSUME at \in 1..7
  PROVE  /\ In("id") <=> at = 1
         /\ In("log") <=> at = 2
         /\ In("jwt") <=> at = 3
         /\ In("limit") <=> at = 4
         /\ In("proxy") <=> at = 5
  BY Places DEF In

\* An accepted id is one of Ids, and never the mark of none.
LEMMA GivenId ==
  ASSUME NEW ids
  PROVE  /\ IncomingRequestID(ids) \in Ids \cup {None}
         /\ None \notin Ids \cup {Minted}
  BY ForwardingAssumption DEF IncomingRequestID

\* A token that Validate accepts speaks for a user, now.
LEMMA AcceptedVouches ==
  ASSUME NEW t \in Tokens, Validate(t)
  PROVE  /\ t.user \in Users /\ t.user # None
         /\ Vouches(t, t.user, clock)
  BY ForwardingAssumption DEF Validate, Vouches, Token

\* Sequences of none and of one.
LEMMA Short ==
  ASSUME NEW S
  PROVE  <<>> \in Seq(S) /\ \A x \in S : <<x>> \in Seq(S)
  OBVIOUS

\* Appending keeps what was there, and adds one block.
LEMMA Appended ==
  ASSUME NEW s \in Seq(Blocks), NEW b \in Blocks
  PROVE  /\ Append(s, b) \in Seq(Blocks)
         /\ Len(Append(s, b)) = Len(s) + 1
         /\ \A i \in 1..Len(s) : Append(s, b)[i] = s[i]
         /\ Append(s, b)[Len(s) + 1] = b
  OBVIOUS

\* The ids of one, of none, and of two sequences joined.
LEMMA IdsOf ==
  /\ ToSet(<<>>) = {}
  /\ \A x : ToSet(<<x>>) = {x}
<1>1. DOMAIN <<>> = {}
  OBVIOUS
<1>2. \A x : DOMAIN <<x>> = {1} /\ <<x>>[1] = x
  OBVIOUS
<1> QED
  BY <1>1, <1>2 DEF ToSet

LEMMA IdsJoined ==
  ASSUME NEW S, NEW s \in Seq(S), NEW t \in Seq(S)
  PROVE  ToSet(s \o t) = ToSet(s) \cup ToSet(t)
<1> DEFINE j == s \o t
<1>1. /\ Len(s) \in Nat /\ Len(t) \in Nat
      /\ DOMAIN s = 1..Len(s) /\ DOMAIN t = 1..Len(t)
      /\ DOMAIN j = 1..(Len(s) + Len(t))
      /\ \A i \in 1..(Len(s) + Len(t)) :
           j[i] = IF i <= Len(s) THEN s[i] ELSE t[i - Len(s)]
  OBVIOUS
<1> HIDE DEF j
<1>2. ASSUME NEW i \in DOMAIN j PROVE j[i] \in ToSet(s) \cup ToSet(t)
  <2>1. CASE i <= Len(s)
    BY <1>1, <2>1 DEF ToSet
  <2>2. CASE i > Len(s)
    <3>1. i - Len(s) \in DOMAIN t /\ j[i] = t[i - Len(s)]
      BY <1>1, <2>2
    <3> QED
      BY <3>1 DEF ToSet
  <2> QED
    BY <1>1, <2>1, <2>2
<1>3. ASSUME NEW i \in DOMAIN s PROVE s[i] \in ToSet(j)
  <2>1. i \in DOMAIN j /\ j[i] = s[i]
    BY <1>1
  <2> QED
    BY <2>1 DEF ToSet
<1>4. ASSUME NEW i \in DOMAIN t PROVE t[i] \in ToSet(j)
  <2>1. i + Len(s) \in DOMAIN j /\ j[i + Len(s)] = t[i]
    BY <1>1
  <2> QED
    BY <2>1 DEF ToSet
<1>5. ToSet(j) = ToSet(s) \cup ToSet(t)
  BY <1>2, <1>3, <1>4 DEF ToSet
<1> QED
  BY <1>5 DEF j

-----------------------------------------------------------------------------
(***************************************************************************)
(* The blocks of an answer.  Until the last one all are interim.           *)
(***************************************************************************)
Interims(bs) == \A i \in DOMAIN bs : bs[i].kind = "interim"

\* OneId's claim about the blocks bs of a call that is logged under l.
Fine(bs, l) ==
  \A i \in DOMAIN bs :
    /\ bs[i].kind = "header" =>
         IF \E j \in DOMAIN bs : bs[j].kind = "interim"
         THEN ToSet(bs[i].ids) \subseteq {l} ELSE ToSet(bs[i].ids) = {l}
    /\ bs[i].kind = "trailer" /\ client.proto = "grpc" => ToSet(bs[i].ids) = {}

\* A final block ends an answer well: it has the id, or an interim block went
\* before it and it has no other.
Final(bs, b, l) ==
  /\ b.kind = "header"
  /\ \/ ToSet(b.ids) = {l}
     \/ ToSet(b.ids) = {} /\ bs # <<>>

LEMMA FinalFine ==
  ASSUME NEW bs \in Seq(Blocks), Interims(bs), NEW b \in Blocks, NEW l,
         Final(bs, b, l)
  PROVE  Fine(Append(bs, b), l)
<1> DEFINE all == Append(bs, b)
<1>1. /\ Len(bs) \in Nat /\ DOMAIN bs = 1..Len(bs) /\ DOMAIN all = 1..(Len(bs) + 1)
      /\ \A i \in 1..Len(bs) : all[i] = bs[i]
      /\ all[Len(bs) + 1] = b
      /\ bs # <<>> => Len(bs) # 0
  OBVIOUS
<1> HIDE DEF all
<1>2. bs # <<>> => \E j \in DOMAIN all : all[j].kind = "interim"
  <2> SUFFICES ASSUME bs # <<>> PROVE \E j \in DOMAIN all : all[j].kind = "interim"
    OBVIOUS
  <2>1. 1 \in 1..Len(bs)
    BY <1>1
  <2>2. 1 \in DOMAIN bs /\ 1 \in DOMAIN all /\ all[1] = bs[1]
    BY <1>1, <2>1
  <2> QED
    BY <2>2 DEF Interims
<1>3. ASSUME NEW i \in DOMAIN all, all[i].kind # "interim" PROVE i = Len(bs) + 1
  BY <1>1, <1>3 DEF Interims
<1>4. Fine(all, l)
  BY <1>1, <1>2, <1>3 DEF Fine, Final
<1> QED
  BY <1>4 DEF all

LEMMA WithTrailerFine ==
  ASSUME NEW bs \in Seq(Blocks), Interims(bs), NEW b \in Blocks, NEW l,
         Final(bs, b, l), NEW t \in Blocks, t.kind = "trailer",
         client.proto = "grpc" => ToSet(t.ids) = {}
  PROVE  Fine(bs \o <<b, t>>, l)
<1> DEFINE all == bs \o <<b, t>>
<1>1. /\ Len(bs) \in Nat /\ DOMAIN bs = 1..Len(bs) /\ DOMAIN all = 1..(Len(bs) + 2)
      /\ \A i \in 1..Len(bs) : all[i] = bs[i]
      /\ all[Len(bs) + 1] = b /\ all[Len(bs) + 2] = t
      /\ bs # <<>> => Len(bs) # 0
  OBVIOUS
<1> HIDE DEF all
<1>2. bs # <<>> => \E j \in DOMAIN all : all[j].kind = "interim"
  <2> SUFFICES ASSUME bs # <<>> PROVE \E j \in DOMAIN all : all[j].kind = "interim"
    OBVIOUS
  <2>1. 1 \in 1..Len(bs)
    BY <1>1
  <2>2. 1 \in DOMAIN bs /\ 1 \in DOMAIN all /\ all[1] = bs[1]
    BY <1>1, <2>1
  <2> QED
    BY <2>2 DEF Interims
<1>3. ASSUME NEW i \in DOMAIN all, all[i].kind # "interim"
      PROVE  i = Len(bs) + 1 \/ i = Len(bs) + 2
  BY <1>1, <1>3 DEF Interims
<1>4. Fine(all, l)
  BY <1>1, <1>2, <1>3 DEF Fine, Final
<1> QED
  BY <1>4 DEF all

-----------------------------------------------------------------------------
(***************************************************************************)
(* The inductive invariant, one lemma per action.                          *)
(***************************************************************************)
LEMMA InitInv == Init => IInv
<1> SUFFICES ASSUME Init PROVE IInv
  OBVIOUS
<1>1. Nothing \in Headers /\ headers \in Headers
  BY ForwardingAssumption DEF Init, Nothing, Headers
<1>2. TypeOK
  BY <1>1, ForwardingAssumption, Places DEF Init, TypeOK
<1>3. Known
  BY Places DEF Init, Known
<1>4. Told
  BY Places DEF Init, Told
<1>5. Named
  BY Places DEF Init, Named
<1>6. OneId
  BY <1>5, Places DEF Init, OneId, Reached
<1> QED
  BY <1>2, <1>3, <1>4, <1>5, <1>6 DEF IInv

\* Before the upstream nothing is answered and nothing told: OneId holds.
LEMMA QuietOneId ==
  ASSUME answers = <<>>, sent = Nothing
  PROVE  OneId
  BY DEF OneId, Reached

LEMMA RequestIDStep == IInv /\ RequestID => IInv'
<1> SUFFICES ASSUME IInv, RequestID PROVE IInv'
  OBVIOUS
<1> USE DEF IInv
<1>1. at = 1 /\ at' = 2
  BY Layer, Places DEF TypeOK, RequestID, Pass
<1>2. PICK id \in Ids \cup {Minted} :
        ctx' = [ctx EXCEPT !.id = id] /\ pending' = <<id>>
  BY GivenId DEF RequestID
<1>3. ctx'.id = id /\ ctx'.user = ctx.user /\ id # None
  BY <1>2, GivenId DEF TypeOK
<1>4. sent = Nothing /\ answers = <<>>
  BY <1>1, Places DEF Told, Named
<1>5. TypeOK'
  <2>1. ctx' \in [id : Ids \cup {Minted, None}, user : Users \cup {None}]
    BY <1>2 DEF TypeOK
  <2>2. pending' \in Seq(Ids \cup {Minted})
    BY <1>2
  <2> QED
    BY <1>1, <2>1, <2>2, Places DEF TypeOK, RequestID, Pass
<1>6. Known'
  BY <1>1, <1>3, Places DEF Known, RequestID, Vouches
<1>7. Told'
  BY <1>1, <1>4, Places DEF Told, RequestID
<1>8. Named'
  BY <1>1, <1>2, <1>3, <1>4, Places DEF Named, RequestID, Pass
<1>9. OneId'
  BY <1>4 DEF OneId, Reached, RequestID, Pass, Nothing
<1> QED
  BY <1>5, <1>6, <1>7, <1>8, <1>9

LEMMA AccessLogStep == IInv /\ AccessLog => IInv'
<1> SUFFICES ASSUME IInv, AccessLog PROVE IInv'
  OBVIOUS
<1> USE DEF IInv
<1>1. at = 2 /\ at' = 3
  BY Layer, Places DEF TypeOK, AccessLog, Pass
<1>2. sent = Nothing /\ answers = <<>>
  BY <1>1, Places DEF Told, Named
<1>3. logged' = ctx.id /\ ctx.id # None
  BY <1>1 DEF Known, AccessLog
<1>4. TypeOK'
  BY <1>1, <1>3, Places DEF TypeOK, AccessLog, Pass
<1>5. Known'
  BY <1>1, <1>3, Places DEF Known, AccessLog, Vouches
<1>6. Told'
  BY <1>1, <1>2, Places DEF Told, AccessLog
<1>7. Named'
  BY <1>1, <1>2, Places DEF Named, AccessLog, Pass
<1>8. OneId'
  BY <1>2 DEF OneId, Reached, AccessLog, Pass, Nothing
<1> QED
  BY <1>4, <1>5, <1>6, <1>7, <1>8

LEMMA SkipStep == IInv /\ Skip => IInv'
<1> SUFFICES ASSUME IInv, Skip PROVE IInv'
  OBVIOUS
<1> USE DEF IInv
<1>1. /\ (at = 3 /\ ~config.jwt) \/ (at = 4 /\ ~config.limit)
      /\ at' = at + 1
  BY Layer, Places DEF TypeOK, Skip, Pass
<1>2. sent = Nothing /\ answers = <<>>
  BY <1>1, Places DEF Told, Named
<1>3. TypeOK'
  BY <1>1, Places DEF TypeOK, Skip, Pass
<1>4. Known'
  BY <1>1, Places DEF Known, Skip, Vouches
<1>5. Told'
  BY <1>1, <1>2, Places DEF Told, Skip
<1>6. Named'
  BY <1>1, <1>2, Places DEF Named, Skip, Pass
<1>7. OneId'
  BY <1>2 DEF OneId, Reached, Skip, Pass, Nothing
<1> QED
  BY <1>3, <1>4, <1>5, <1>6, <1>7

-----------------------------------------------------------------------------
(***************************************************************************)
(* Answers that the gateway makes itself.                                  *)
(***************************************************************************)
\* Once a call has its id, what the client has got of it is interim.
LEMMA OnlyInterims ==
  ASSUME TypeOK, Named, at \in 2..6
  PROVE  Interims(answers) /\ answers \in Seq(Blocks)
<1>1. CASE at < Upstream
  BY <1>1 DEF Named, Interims, TypeOK, Blocks
<1>2. CASE at = Upstream
  BY <1>2 DEF Named, Interims, TypeOK, Blocks
<1> QED
  BY <1>1, <1>2, Places

\* The header map, with the upstream's id or none added, ends the answer well.
LEMMA PendingFinal ==
  ASSUME TypeOK, Known, Named, at \in 3..6,
         NEW i \in {<<>>, <<logged>>}
  PROVE  /\ Block("header", pending \o i) \in Blocks
         /\ Final(answers, Block("header", pending \o i), logged)
<1>1. logged = ctx.id /\ logged \in Ids \cup {Minted}
  BY Places DEF Known, TypeOK
<1>2. pending \in {<<>>, <<logged>>} /\ (pending = <<>> => answers # <<>>)
  BY <1>1 DEF Named
<1>3. pending \in Seq(Ids \cup {Minted}) /\ i \in Seq(Ids \cup {Minted})
  <2>1. <<logged>> \in Seq(Ids \cup {Minted}) /\ <<>> \in Seq(Ids \cup {Minted})
    BY <1>1
  <2> QED
    BY <2>1 DEF TypeOK
<1>4. pending \o i \in Seq(Ids \cup {Minted})
  BY <1>3
<1>5. ToSet(pending \o i) = ToSet(pending) \cup ToSet(i)
  BY <1>3, IdsJoined
<1>6. /\ ToSet(i) \in {{}, {logged}}
      /\ ToSet(pending) = IF pending = <<>> THEN {} ELSE {logged}
  BY <1>2, IdsOf
<1>7. \/ ToSet(pending \o i) = {logged}
      \/ ToSet(pending \o i) = {} /\ answers # <<>>
  <2>1. CASE pending = <<>>
    BY <1>2, <1>5, <1>6, <2>1
  <2>2. CASE pending # <<>>
    BY <1>5, <1>6, <2>2
  <2> QED
    BY <2>1, <2>2
<1>8. /\ Block("header", pending \o i) \in Blocks
      /\ Block("header", pending \o i).kind = "header"
      /\ Block("header", pending \o i).ids = pending \o i
  BY <1>4 DEF Block, Blocks
<1> QED
  BY <1>7, <1>8 DEF Final

LEMMA RefuseInv ==
  ASSUME IInv, at \in 3..6, Refuse,
         UNCHANGED <<client, logged, pending, ctx>>, sent' = sent,
         at < 6 => sent = Nothing
  PROVE  at' = 7 /\ answers' \in Seq(Blocks) /\ Named' /\ OneId'
<1> USE DEF IInv
<1> DEFINE b == Block("header", pending)
<1>1. at' = 7 /\ answers' = Append(answers, b)
  BY Places DEF Refuse
<1>2. pending \o <<>> = pending
  BY DEF TypeOK
<1>3. b \in Blocks /\ Final(answers, b, logged)
  BY <1>2, PendingFinal
<1>4. Interims(answers) /\ answers \in Seq(Blocks)
  BY OnlyInterims
<1> HIDE DEF b
<1>5. answers' \in Seq(Blocks) /\ Fine(answers', logged)
  BY <1>1, <1>3, <1>4, FinalFine, Appended
<1>6. OneId'
  BY <1>5 DEF OneId, Fine, Reached, Nothing
<1>7. Named'
  <2>1. ASSUME pending = <<>>
        PROVE  \E i \in DOMAIN answers' : answers'[i].kind = "interim"
    <3>1. PICK i \in DOMAIN answers : answers[i].kind = "interim"
      BY <2>1 DEF Named
    <3>2. i \in DOMAIN answers' /\ answers'[i] = answers[i]
      BY <1>1, <1>3, <1>4, <3>1, Appended
    <3> QED
      BY <3>1, <3>2
  <2> QED
    BY <1>1, <2>1, Places DEF Named
<1> QED
  BY <1>1, <1>5, <1>6, <1>7

\* The authorization is the client's: an accepted token speaks for its user.
LEMMA JWTAuthStep == IInv /\ JWTAuth => IInv'
<1> SUFFICES ASSUME IInv, JWTAuth PROVE IInv'
  OBVIOUS
<1> USE DEF IInv
<1>1. /\ at = 3 /\ config.jwt /\ sent = Nothing /\ answers = <<>>
      /\ ctx.user = None /\ ctx.id # None /\ logged = ctx.id
      /\ headers.auth = client.headers.auth
  BY Layer, Places DEF TypeOK, JWTAuth, Told, Named, Known
<1>2. headers' \in Headers /\ headers'.auth = headers.auth
  <2>1. headers' \in {headers, [headers EXCEPT !.user = <<>>]}
    BY DEF JWTAuth
  <2>2. /\ DOMAIN headers = Header
        /\ \A f \in Header : headers[f] \in Seq(Held)
        /\ headers \in [Header -> Seq(Held)]
    BY DEF TypeOK, Headers, Held
  <2>3. <<>> \in Seq(Held)
    BY Short
  <2>4. /\ [headers EXCEPT !.user = <<>>] \in [Header -> Seq(Held)]
        /\ [headers EXCEPT !.user = <<>>].auth = headers.auth
    BY <2>2, <2>3 DEF Header
  <2> QED
    BY <2>1, <2>2, <2>4 DEF Headers, Held
<1>3. CASE client.public /\ Pass /\ UNCHANGED ctx
  <2>1. at' = 4
    BY <1>1, <1>3 DEF Pass
  <2>2. TypeOK'
    BY <1>2, <1>3, <2>1, Places DEF TypeOK, JWTAuth, Pass
  <2>3. Known'
    BY <1>1, <1>2, <1>3, <2>1, Places DEF Known, JWTAuth, Vouches
  <2>4. Told' /\ Named' /\ OneId'
    BY <1>1, <1>3, <2>1, Places
       DEF Told, Named, OneId, Reached, JWTAuth, Pass, Nothing
  <2> QED
    BY <2>2, <2>3, <2>4
<1>4. ASSUME ~client.public,
             First(headers.auth) \in Tokens, Validate(First(headers.auth)),
             ctx' = [ctx EXCEPT !.user = First(headers.auth).user],
             Pass
      PROVE  IInv'
  <2> DEFINE t == First(headers.auth)
  <2>1. t = Head(client.headers.auth)
    BY <1>1, <1>4, ForwardingAssumption DEF First
  <2>2. t.user \in Users /\ t.user # None /\ Vouches(t, t.user, clock)
    BY <1>4, AcceptedVouches
  <2> HIDE DEF t
  <2>3. ctx'.id = ctx.id /\ ctx'.user = t.user
    BY <1>4 DEF TypeOK, t
  <2>4. at' = 4
    BY <1>1, <1>4 DEF Pass
  <2>5. TypeOK'
    <3>1. ctx' \in [id : Ids \cup {Minted, None}, user : Users \cup {None}]
      BY <1>4, <2>2 DEF TypeOK, t
    <3> QED
      BY <1>2, <1>4, <2>4, <3>1, Places DEF TypeOK, JWTAuth, Pass
  <2>6. \E m \in (began..clock)' : Vouches(Head(client.headers.auth), ctx.user, m)'
    <3>1. clock \in began..clock
      BY DEF TypeOK
    <3>2. Vouches(Head(client.headers.auth), ctx.user, clock)'
      BY <2>1, <2>2, <2>3 DEF Vouches, JWTAuth
    <3> QED
      BY <3>1, <3>2 DEF JWTAuth
  <2>7. Known'
    BY <1>1, <1>2, <1>4, <2>2, <2>3, <2>4, <2>6, Places DEF Known, JWTAuth
  <2>8. Told' /\ Named' /\ OneId'
    BY <1>1, <1>4, <2>3, <2>4, Places
       DEF Told, Named, OneId, Reached, JWTAuth, Pass, Nothing
  <2> QED
    BY <2>5, <2>7, <2>8
<1>5. CASE Refuse /\ UNCHANGED ctx
  <2>1. at' = 7 /\ answers' \in Seq(Blocks) /\ Named' /\ OneId'
    BY <1>1, <1>5, RefuseInv DEF JWTAuth
  <2>2. TypeOK'
    BY <1>2, <1>5, <2>1, Places DEF TypeOK, JWTAuth, Blocks
  <2>3. Known'
    BY <1>1, <1>2, <1>5, <2>1, Places DEF Known, JWTAuth, Vouches
  <2>4. Told'
    BY <1>1, <2>1, Places DEF Told, Reached, JWTAuth, Nothing
  <2> QED
    BY <2>1, <2>2, <2>3, <2>4
<1> QED
  BY <1>3, <1>4, <1>5 DEF JWTAuth

LEMMA RateLimitStep == IInv /\ RateLimit => IInv'
<1> SUFFICES ASSUME IInv, RateLimit PROVE IInv'
  OBVIOUS
<1> USE DEF IInv
<1>1. /\ at = 4 /\ config.limit /\ sent = Nothing /\ answers = <<>>
  BY Layer, Places DEF TypeOK, RateLimit, Told, Named
<1>2. charged' = ctx.user /\ charged' \in Users \cup {None}
  BY DEF RateLimit, TypeOK
<1>3. CASE Pass
  <2>1. at' = 5
    BY <1>1, <1>3 DEF Pass
  <2>2. TypeOK'
    BY <1>2, <1>3, <2>1, Places DEF TypeOK, RateLimit, Pass
  <2>3. Known'
    BY <1>1, <1>2, <2>1, Places DEF Known, RateLimit, Vouches
  <2>4. Told' /\ Named' /\ OneId'
    BY <1>1, <1>3, <2>1, Places
       DEF Told, Named, OneId, Reached, RateLimit, Pass, Nothing
  <2> QED
    BY <2>2, <2>3, <2>4
<1>4. CASE Refuse
  <2>1. at' = 7 /\ answers' \in Seq(Blocks) /\ Named' /\ OneId'
    BY <1>1, <1>4, RefuseInv DEF RateLimit
  <2>2. TypeOK'
    BY <1>2, <2>1, Places DEF TypeOK, RateLimit, Blocks
  <2>3. Known'
    BY <1>1, <1>2, <2>1, Places DEF Known, RateLimit, Vouches
  <2>4. Told'
    BY <1>1, <2>1, Places DEF Told, Reached, RateLimit, Nothing
  <2> QED
    BY <2>1, <2>2, <2>3, <2>4
<1> QED
  BY <1>3, <1>4 DEF RateLimit

-----------------------------------------------------------------------------
(***************************************************************************)
(* The proxies.                                                            *)
(***************************************************************************)
\* Both make the same three headers from the context.
LEMMA Forwarded ==
  ASSUME TypeOK, ctx.id # None
  PROVE  LET h == IF client.proto = "http" THEN Rewrite(headers)
                  ELSE WithRequestIDMetadata(ProxyMetadata(headers)) IN
         /\ h \in Headers
         /\ h.id = <<ctx.id>> /\ h.user = Only(ctx.user)
         /\ h.auth = IF ForwardAuthorization THEN headers.auth ELSE <<>>
<1> DEFINE a == IF ForwardAuthorization THEN headers.auth ELSE <<>>
           h == [headers EXCEPT !.id = <<ctx.id>>, !.user = Only(ctx.user),
                                !.auth = a]
<1>1. /\ DOMAIN headers = Header
      /\ \A f \in Header : headers[f] \in Seq(Held)
      /\ headers = [f \in Header |-> headers[f]]
  BY DEF TypeOK, Headers, Held
<1>2. Only(ctx.id) = <<ctx.id>> /\ <<ctx.id>> \in Seq(Held)
  BY DEF TypeOK, Only, Held
<1>3. Only(ctx.user) \in Seq(Held)
  BY Short DEF TypeOK, Only, Held
<1>4. a \in Seq(Held)
  BY <1>1, Short DEF Header
<1>5. Rewrite(headers) = h
  BY <1>1, <1>2 DEF Rewrite, Header
<1>6. WithRequestIDMetadata(ProxyMetadata(headers)) = h
  BY <1>1, <1>2 DEF WithRequestIDMetadata, ProxyMetadata, Header
<1> HIDE DEF a
<1>7. /\ h \in Headers
      /\ h.id = <<ctx.id>> /\ h.user = Only(ctx.user) /\ h.auth = a
  BY <1>1, <1>2, <1>3, <1>4 DEF Headers, Header, Held
<1> QED
  BY <1>5, <1>6, <1>7 DEF a

LEMMA ForwardStep == IInv /\ Forward => IInv'
<1> SUFFICES ASSUME IInv, Forward PROVE IInv'
  OBVIOUS
<1> USE DEF IInv
<1>1. /\ at = 5 /\ at' = 6 /\ answers = <<>>
      /\ ctx.id # None /\ logged = ctx.id
      /\ config.jwt /\ ~client.public => ctx.user # None
      /\ config.limit => charged = ctx.user
      /\ headers.auth = client.headers.auth
  BY Layer, Places DEF TypeOK, Forward, Named, Known
<1>2. /\ sent' \in Headers
      /\ sent'.id = <<ctx.id>> /\ sent'.user = Only(ctx.user)
      /\ sent'.auth = IF ForwardAuthorization THEN client.headers.auth ELSE <<>>
  BY <1>1, Forwarded DEF Forward
<1>3. TypeOK'
  BY <1>1, <1>2, Places DEF TypeOK, Forward
<1>4. Known'
  BY <1>1, Places DEF Known, Forward, Vouches
<1>5. Told'
  BY <1>1, <1>2, Places DEF Told, Forward, Only, ForwardAuthorization
<1>6. Named'
  BY <1>1, Places DEF Named, Forward
<1>7. OneId'
  BY <1>1, <1>2 DEF OneId, Forward
<1> QED
  BY <1>3, <1>4, <1>5, <1>6, <1>7

LEMMA UnroutableStep == IInv /\ Unroutable => IInv'
<1> SUFFICES ASSUME IInv, Unroutable PROVE IInv'
  OBVIOUS
<1> USE DEF IInv
<1>1. at = 5 /\ sent = Nothing
  BY Layer, Places DEF TypeOK, Unroutable, Told
<1>2. at' = 7 /\ answers' \in Seq(Blocks) /\ Named' /\ OneId'
  BY <1>1, RefuseInv DEF Unroutable
<1>3. TypeOK'
  BY <1>2, Places DEF TypeOK, Unroutable, Blocks
<1>4. Known'
  BY <1>1, <1>2, Places DEF Known, Unroutable, Vouches
<1>5. Told'
  BY <1>1, <1>2, Places DEF Told, Reached, Unroutable, Nothing
<1> QED
  BY <1>2, <1>3, <1>4, <1>5

LEMMA UpstreamFailsStep == IInv /\ UpstreamFails => IInv'
<1> SUFFICES ASSUME IInv, UpstreamFails PROVE IInv'
  OBVIOUS
<1> USE DEF IInv
<1>1. at = 6
  BY Places DEF UpstreamFails
<1>2. at' = 7 /\ answers' \in Seq(Blocks) /\ Named' /\ OneId'
  BY <1>1, RefuseInv DEF UpstreamFails
<1>3. TypeOK'
  BY <1>2, Places DEF TypeOK, UpstreamFails, Blocks
<1>4. Known'
  BY <1>1, <1>2, Places DEF Known, UpstreamFails, Vouches
<1>5. Told'
  BY <1>1, <1>2, Places
     DEF Told, Reached, UpstreamFails, Only, ForwardAuthorization, Nothing
<1> QED
  BY <1>2, <1>3, <1>4, <1>5

-----------------------------------------------------------------------------
(***************************************************************************)
(* What the upstream sends back, and time.                                 *)
(***************************************************************************)
LEMMA InterimStep == IInv /\ Interim => IInv'
<1> SUFFICES ASSUME IInv, Interim PROVE IInv'
  OBVIOUS
<1> USE DEF IInv
<1>1. at = 6 /\ at' = 6 /\ answers = <<>> /\ pending' = <<>>
  BY Places DEF Interim
<1>2. PICK i \in {<<>>} \cup {<<x>> : x \in Ids} :
        answers' = Append(answers, Block("interim", pending \o i))
  BY DEF Interim
<1> DEFINE b == Block("interim", pending \o i)
<1>3. b \in Blocks /\ b.kind = "interim"
  <2>1. i \in Seq(Ids \cup {Minted})
    BY Short
  <2>2. pending \o i \in Seq(Ids \cup {Minted})
    BY <2>1 DEF TypeOK
  <2> QED
    BY <2>2 DEF Block, Blocks
<1> HIDE DEF b
<1>4. /\ answers' \in Seq(Blocks) /\ DOMAIN answers' = {1} /\ answers'[1] = b
      /\ pending' \in Seq(Ids \cup {Minted})
  <2>1. answers' = <<b>>
    BY <1>1, <1>2 DEF b
  <2> QED
    BY <1>1, <1>3, <2>1, Short
<1>5. TypeOK'
  BY <1>1, <1>4, Places DEF TypeOK, Interim, Blocks
<1>6. Known'
  BY <1>1, Places DEF Known, Interim, Vouches
<1>7. Told'
  BY <1>1, Places
     DEF Told, Interim, Reached, Only, ForwardAuthorization, Nothing
<1>8. Named'
  BY <1>1, <1>3, <1>4, Places DEF Named
<1>9. OneId'
  BY <1>3, <1>4 DEF OneId, Interim, Reached, Nothing
<1> QED
  BY <1>5, <1>6, <1>7, <1>8, <1>9

\* Both protocols end an answered call with a header and a trailer.
LEMMA AnswerInv ==
  ASSUME IInv, at = 6, at' = 7, sent' = sent,
         UNCHANGED <<client, logged, pending, ctx>>,
         NEW i \in {<<>>, <<logged>>}, NEW t \in Blocks, t.kind = "trailer",
         client.proto = "grpc" => ToSet(t.ids) = {},
         answers' = answers \o <<Block("header", pending \o i), t>>
  PROVE  answers' \in Seq(Blocks) /\ Named' /\ OneId'
<1> USE DEF IInv
<1> DEFINE b == Block("header", pending \o i)
<1>1. b \in Blocks /\ Final(answers, b, logged)
  <2>1. TypeOK /\ Known /\ Named /\ at \in 3..6
    OBVIOUS
  <2> QED
    BY <2>1, PendingFinal
<1>2. Interims(answers) /\ answers \in Seq(Blocks)
  BY OnlyInterims
<1>3. answers' = answers \o <<b, t>>
  OBVIOUS
<1> HIDE DEF b
<1>4. Fine(answers', logged)
  BY <1>1, <1>2, <1>3, WithTrailerFine
<1>5. /\ answers' \in Seq(Blocks)
      /\ \A j \in DOMAIN answers : j \in DOMAIN answers' /\ answers'[j] = answers[j]
  <2>1. <<b, t>> \in Seq(Blocks)
    BY <1>1
  <2> QED
    BY <1>2, <1>3, <2>1
<1>6. OneId'
  BY <1>4 DEF OneId, Fine, Reached, Nothing
<1>7. Named'
  BY <1>5, Places DEF Named
<1> QED
  BY <1>5, <1>6, <1>7

LEMMA HttpAnswerStep == IInv /\ HttpAnswer => IInv'
<1> SUFFICES ASSUME IInv, HttpAnswer PROVE IInv'
  OBVIOUS
<1> USE DEF IInv
<1>1. at = 6 /\ at' = 7 /\ client.proto = "http"
  BY Places DEF HttpAnswer
<1>2. PICK up, trailer \in {<<>>} \cup {<<x>> : x \in Ids} :
        answers' = answers \o <<Block("header", pending \o ModifyResponse(up)),
                                Block("trailer", trailer)>>
  BY DEF HttpAnswer
<1>3. ModifyResponse(up) = <<logged>>
  BY <1>1, Places DEF ModifyResponse, Known
<1>4. /\ Block("trailer", trailer) \in Blocks
      /\ Block("trailer", trailer).kind = "trailer"
  <2>1. trailer \in Seq(Ids \cup {Minted})
    BY Short
  <2> QED
    BY <2>1 DEF Block, Blocks
<1>5. answers' \in Seq(Blocks) /\ Named' /\ OneId'
  BY <1>1, <1>2, <1>3, <1>4, AnswerInv DEF HttpAnswer
<1>6. TypeOK'
  BY <1>1, <1>5, Places DEF TypeOK, HttpAnswer, Blocks
<1>7. Known'
  BY <1>1, Places DEF Known, HttpAnswer, Vouches
<1>8. Told'
  BY <1>1, Places
     DEF Told, Reached, HttpAnswer, Only, ForwardAuthorization, Nothing
<1> QED
  BY <1>5, <1>6, <1>7, <1>8

LEMMA GrpcAnswerStep == IInv /\ GrpcAnswer => IInv'
<1> SUFFICES ASSUME IInv, GrpcAnswer PROVE IInv'
  OBVIOUS
<1> USE DEF IInv
<1>1. at = 6 /\ at' = 7
  BY Places DEF GrpcAnswer
<1>2. answers' = answers \o <<Block("header", pending \o <<>>),
                              Block("trailer", <<>>)>>
  BY DEF GrpcAnswer, Stripped
<1>3. /\ Block("trailer", <<>>) \in Blocks
      /\ Block("trailer", <<>>).kind = "trailer"
      /\ ToSet(Block("trailer", <<>>).ids) = {}
  BY Short, IdsOf DEF Block, Blocks
<1>4. answers' \in Seq(Blocks) /\ Named' /\ OneId'
  BY <1>1, <1>2, <1>3, AnswerInv DEF GrpcAnswer
<1>5. TypeOK'
  BY <1>1, <1>4, Places DEF TypeOK, GrpcAnswer, Blocks
<1>6. Known'
  BY <1>1, Places DEF Known, GrpcAnswer, Vouches
<1>7. Told'
  BY <1>1, Places
     DEF Told, Reached, GrpcAnswer, Only, ForwardAuthorization, Nothing
<1> QED
  BY <1>4, <1>5, <1>6, <1>7

\* The moments that a call has lived through only grow.
LEMMA TickStep == IInv /\ Tick => IInv'
<1> SUFFICES ASSUME IInv, Tick PROVE IInv'
  OBVIOUS
<1> USE DEF IInv
<1>1. /\ clock' = clock + 1 /\ clock' \in 0..MaxTime
      /\ UNCHANGED <<config, client, began, at, headers, ctx, logged, charged,
                     pending, sent, answers>>
  BY ForwardingAssumption DEF Tick, TypeOK
<1>2. TypeOK'
  BY <1>1, Places DEF TypeOK
<1>3. Known'
  <2>1. \A m \in began..clock : m \in began'..clock'
    BY <1>1 DEF TypeOK
  <2> QED
    BY <1>1, <2>1 DEF Known, Vouches
<1>4. Told' /\ Named' /\ OneId'
  BY <1>1 DEF Told, Named, OneId, Reached, ForwardAuthorization, Only, Nothing
<1> QED
  BY <1>2, <1>3, <1>4

-----------------------------------------------------------------------------
(***************************************************************************)
(* The theorems.                                                           *)
(***************************************************************************)
LEMMA StepInv == IInv /\ [Next]_vars => IInv'
<1> SUFFICES ASSUME IInv, [Next]_vars PROVE IInv'
  OBVIOUS
<1>1. CASE UNCHANGED vars
  <2> USE <1>1 DEF vars, IInv
  <2>1. TypeOK'
    BY DEF TypeOK, Over, Chain
  <2>2. Known'
    BY DEF Known, Vouches, Upstream, Chain
  <2>3. Told'
    BY DEF Told, Reached, ForwardAuthorization, Only, Nothing, Upstream, Chain
  <2>4. Named'
    BY DEF Named, Upstream, Chain
  <2>5. OneId'
    BY DEF OneId, Reached, Nothing
  <2> QED
    BY <2>1, <2>2, <2>3, <2>4, <2>5
<1>2. CASE Next
  BY <1>2, RequestIDStep, AccessLogStep, SkipStep, JWTAuthStep, RateLimitStep,
     ForwardStep, UnroutableStep, InterimStep, HttpAnswerStep, GrpcAnswerStep,
     UpstreamFailsStep, TickStep DEF Next
<1> QED
  BY <1>1, <1>2

\* The inductive invariant: at every layer, what the layers behind it have
\* found out about the call is what the context, the log, the limiter, the
\* upstream and the client were told.
THEOREM Invariant == Spec => []IInv
  BY InitInv, StepInv, PTL DEF Spec

\* Where headers have reached the upstream, Told speaks of them.
LEMMA ReachedIsTold ==
  ASSUME IInv, Reached
  PROVE  /\ sent.id = <<ctx.id>> /\ sent.user = Only(ctx.user)
         /\ sent.auth = IF ForwardAuthorization THEN client.headers.auth ELSE <<>>
         /\ config.jwt /\ ~client.public => ctx.user # None
         /\ config.limit => charged = ctx.user
  BY DEF IInv, Told, Reached

\* The upstream is told of no user but one whom the client's token spoke for
\* while the call lasted, whatever the client puts in its headers: both
\* middlewares, Rewrite, proxyMetadata.
THEOREM UserIsVouched == Spec => []TrustedHeaders
<1>1. ASSUME IInv, Reached PROVE TrustedHeaders
  <2> USE <1>1
  <2>1. CASE config.jwt /\ ~client.public
    <3>1. ctx.user \in Users /\ sent.user = <<ctx.user>>
      BY <2>1, ReachedIsTold DEF IInv, TypeOK, Only
    <3>2. PICK m \in began..clock : Vouches(Head(client.headers.auth), ctx.user, m)
      BY <2>1, ReachedIsTold DEF IInv, Known
    <3>3. sent.auth = IF ~config.forward THEN <<>> ELSE client.headers.auth
      BY <2>1, ReachedIsTold DEF ForwardAuthorization
    <3> QED
      BY <2>1, <3>1, <3>2, <3>3 DEF TrustedHeaders
  <2>2. CASE ~(config.jwt /\ ~client.public)
    <3>1. ctx.user = None
      BY <2>2 DEF IInv, Known
    <3>2. sent.user = <<>>
      BY <3>1, ReachedIsTold DEF Only
    <3>3. sent.auth = IF config.jwt /\ ~config.forward THEN <<>>
                      ELSE client.headers.auth
      BY ReachedIsTold DEF ForwardAuthorization
    <3> QED
      BY <2>2, <3>2, <3>3 DEF TrustedHeaders
  <2> QED
    BY <2>1, <2>2
<1>2. IInv => TrustedHeaders
  BY <1>1 DEF TrustedHeaders
<1> QED
  BY <1>2, Invariant, PTL

\* The limiter inside of authentication charges the user that the upstream
\* is told of.
THEOREM PayerIsTold == Spec => []ChargedAsTold
<1>1. IInv => ChargedAsTold
  BY ReachedIsTold DEF ChargedAsTold
<1> QED
  BY <1>1, Invariant, PTL

\* One call, one id: in the access log, upstream, and in the final answer.
THEOREM SameId == Spec => []OneId
<1>1. IInv => OneId
  BY DEF IInv
<1> QED
  BY <1>1, Invariant, PTL
=============================================================================
