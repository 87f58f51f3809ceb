------------------------------- MODULE Endpoint -------------------------------
(***************************************************************************)
(* What the client and its transports read off a request's URI: the        *)
(* authority that is the pool's key (src/base_service.rs), and the peer    *)
(* that TokioTransport::connect or IrohTransport::connect makes out of it. *)
(* A URI is a record  [scheme, host, port]  where host or port is None     *)
(* when the URI does not write it.                                         *)
(***************************************************************************)
EXTENDS Naturals

CONSTANTS NoKey, None

\* uri.authority(): host and port exactly as the URI writes them.
Authority(u) ==
  IF u.host = None THEN NoKey ELSE << u.host, u.port >>

\* uri.port_u16(), or the default of the scheme.
DialedPort(u) ==
  IF u.port # None THEN u.port
  ELSE IF u.scheme = "https" THEN 443 ELSE 80

\* Only https layers TLS, with the host as the server's name, over the stream
\* that open_bidirectional makes.  This is a build with the feature "tls".
UsesTls(u) == u.scheme = "https"

\* What a TokioConnection holds: the address that every open_bidirectional
\* dials, and whether it speaks TLS there.
Peer(u) ==
  IF u.host = None THEN None
  ELSE [host |-> u.host, port |-> DialedPort(u), tls |-> UsesTls(u)]

\* What an IrohConnection is connected to: the endpoint whose public key is the
\* host.  The port and the scheme are not looked at.
IrohPeer(u, publicKeys) ==
  IF u.host \in publicKeys THEN [key |-> u.host] ELSE None
=============================================================================
