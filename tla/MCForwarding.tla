---------------------------- MODULE MCForwarding ----------------------------
(***************************************************************************)
(* Forwarding with tokens that differ from a sound one in one respect      *)
(* each, and clients that send none, one or two ids, good and bad, claim   *)
(* to be somebody, and hold any of the tokens, another one or none.        *)
(***************************************************************************)
EXTENDS Forwarding

CONSTANTS id1, id2, alice, bob, junk

Sound == [alg |-> "HS256", signed |-> TRUE, expires |-> 1, notBefore |-> 0,
          addressed |-> TRUE, user |-> alice]
MCTokens ==
  {Sound, [Sound EXCEPT !.expires = 0], [Sound EXCEPT !.expires = None],
   [Sound EXCEPT !.notBefore = 2, !.expires = 4],
   [Sound EXCEPT !.alg = "other"], [Sound EXCEPT !.signed = FALSE],
   [Sound EXCEPT !.addressed = FALSE], [Sound EXCEPT !.user = None]}
MCConfigs ==
  [jwt : BOOLEAN, forward : BOOLEAN, addressed : BOOLEAN, limit : BOOLEAN]
MCClients ==
  [proto : {"http", "grpc"}, public : BOOLEAN,
   headers : {[id |-> i, user |-> u, auth |-> a] :
                i \in {<<>>, <<id1>>, <<id1, id2>>, <<junk, id1>>},
                u \in {<<>>, <<bob>>},
                a \in {<<>>, <<junk>>} \cup {<<t>> : t \in MCTokens}}]
=============================================================================
