-------------------------- MODULE MCInboundTrust --------------------------
(***************************************************************************)
(* Subscribers, records and messages for InboundTrust.                     *)
(***************************************************************************)
EXTENDS InboundTrust, TLC

a == <<<<"bap">>, <<"k", "_", "1">>>>
b == <<<<"bpp">>, <<"k", "_", "1">>>>
unknown == <<<<"bpp">>, <<"k9">>>>

\* Joined with "_", its ids are those of b.
likeB == <<<<"bpp", "_", "k">>, <<"1">>>>

MCPairs == {a, b, likeB}
MCNetworks == {<<"n1">>, <<"n2">>}
MCAgnostic == {b[1]}

Record(subscriber, key, status, members, ttl) ==
  [exists |-> TRUE, subscriber |-> subscriber, key |-> key,
   ed25519 |-> key \notin {"", "malformed"}, status |-> status,
   members |-> members, ttl |-> ttl, validUntil |-> ttl]

\* a changes its key and leaves n2; the key of b, the catalog service, is revoked
\* and garbled, of which DeDi's records show the latter; likeB has none.
MCRecords ==
  [p \in MCPairs |->
     CASE p = a -> <<Record(a[1], "A1", "usable", {<<"n1">>, <<"n2">>}, 0),
                     Record(Blank, "A2", "usable", {<<"n1">>}, 0)>>
       [] p = b -> <<Record(b[1], "B1", "usable", {}, 2),
                     Record(b[1], "malformed", "unusable", {}, 0)>>
       [] p = likeB -> <<Record(likeB[1], "", "usable", {}, 0)>>]

MCConfigs ==
  {[plugin |-> "registry", vault |-> FALSE, allowed |-> {}, ttl |-> 1],
   [plugin |-> "dedi", vault |-> TRUE, allowed |-> {<<"n1">>}, ttl |-> 1]}

Signed(p, by, created, expires) ==
  [wellFormed |-> TRUE, pair |-> p, by |-> by, created |-> created, expires |-> expires]
Message(headers, network, caller) ==
  [headers |-> headers, network |-> network, caller |-> caller]

\* The third is b's signature under a's name, the fourth comes through a gateway, the
\* last is b's signature under the ids that collide with its own.
MCMessages ==
  {Message(<<Signed(a, "A1", 0, 1)>>, <<"n2">>, a[1]),
   Message(<<Signed(a, "A2", 2, 2)>>, <<"n1">>, Blank),
   Message(<<Signed(a, "B1", 0, 2)>>, Blank, Blank),
   Message(<<Signed(a, "A1", 0, 2), Signed(b, "B1", 1, 2)>>, <<"n2">>, b[1]),
   Message(<<[Signed(a, "A1", 0, 2) EXCEPT !.wellFormed = FALSE]>>, Blank, Blank),
   Message(<<Signed(<<Blank, <<"k1">>>>, "A1", 0, 2)>>, Blank, Blank),
   Message(<<Signed(likeB, "B1", 0, 2)>>, Blank, likeB[1])}

LookerSymmetry == Permutations(Lookers)

MCArtifacts == {b, unknown, <<Blank, <<"k1">>>>}
=============================================================================
