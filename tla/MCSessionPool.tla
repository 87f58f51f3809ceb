---------------------------- MODULE MCSessionPool ----------------------------
(***************************************************************************)
(* Instances of SessionPool for TLC: small sets of URIs, and the key and   *)
(* the peer of each URI as Endpoint computes them.                         *)
(***************************************************************************)
EXTENDS SessionPool

E == INSTANCE Endpoint

Url(scheme, host, port) == [scheme |-> scheme, host |-> host, port |-> port]

\* Two hosts with their ports written out, and a URI without an authority.
ExplicitUris ==
  {Url("http", "a", 80), Url("http", "b", 8080), Url("http", None, None)}

\* One host and the URI without an authority.
OneHostUris == {Url("http", "a", 80), Url("http", None, None)}

\* One host over http and https, the port left to the scheme.
DefaultPortUris == {Url("http", "a", None), Url("https", "a", None)}

KeysOf(S)    == {E!Authority(u) : u \in S} \ {NoKey}
KeyTable(S)  == [u \in S |-> E!Authority(u)]
PeerTable(S) == [u \in S |-> E!Peer(u)]

ExplicitKeys    == KeysOf(ExplicitUris)
ExplicitKeyOf   == KeyTable(ExplicitUris)
ExplicitPeerOf  == PeerTable(ExplicitUris)

OneHostKeys     == KeysOf(OneHostUris)
OneHostKeyOf    == KeyTable(OneHostUris)
OneHostPeerOf   == PeerTable(OneHostUris)

DefaultPortKeys   == KeysOf(DefaultPortUris)
DefaultPortKeyOf  == KeyTable(DefaultPortUris)
DefaultPortPeerOf == PeerTable(DefaultPortUris)

\* All keys in one shard, or host "a" in the first and the others in the second.
OneShard  == {1}
TwoShards == {1, 2}
SameShard(S)   == [k \in KeysOf(S) |-> 1]
OwnShard(S)    == [k \in KeysOf(S) |-> IF k[1] = "a" THEN 1 ELSE 2]
ExplicitShards    == OwnShard(ExplicitUris)
OneHostShard      == SameShard(OneHostUris)
DefaultPortShard  == SameShard(DefaultPortUris)

Nobody      == {}
HostASilent == {E!Authority(Url("http", "a", 80))}
=============================================================================
