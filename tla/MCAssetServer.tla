--------------------------- MODULE MCAssetServer ---------------------------
(* Instances of AssetServer for TLC.                                       *)
EXTENDS AssetServer

CONSTANTS user, peer,         \* connections
          i1, i2, bad,        \* ids; bad is no valid uuid
          a1, m1, b2, c2, v   \* assets: m1 is with the peers, v has no valid id

MCUuid == (a1 :> i1) @@ (m1 :> i1) @@ (b2 :> i2) @@ (c2 :> i2) @@ (v :> bad)

\* b2 takes the whole cache, c2 is too large for it.
MCSize == (a1 :> 1) @@ (m1 :> 1) @@ (b2 :> 2) @@ (c2 :> 3) @@ (v :> 1)

MCPeerHas == (i1 :> m1) @@ (i2 :> NoAsset)

Req(types, ids) == [type : types, id : ids]
Put(assets) == {[type |-> "PUT", id |-> MCUuid[a], asset |-> a] : a \in assets}

\* Two connections read and write two assets.
Storing ==
  [c \in Clients |-> Req({"GET"}, {i1, i2}) \cup Put({a1, b2})]

\* One connection asks for everything the protocol has.
Everything ==
  [c \in Clients |->
     IF c = user
     THEN Req({"GET", "GET_DONTCACHE", "TEST", "PURGE"}, {i1, bad})
          \cup Req({"PURGELOCALS", "STATUS", "IDS", "INVALID"}, {bad})
          \cup Put({a1, c2, v})
     ELSE {}]

AllMenus == {Storing, Everything}
=============================================================================
