----------------------------- MODULE Negotiation -----------------------------
(***************************************************************************)
(* Which HTTP version HyperApp::handshake speaks (navar-hyper/src/lib.rs), *)
(* from its configuration and from the ALPN that the transport's stream    *)
(* reports.                                                                *)
(***************************************************************************)

CONSTANT None  \* no ALPN

Protocols  == {"auto", "http1", "http2"}
Transports == {"tcp", "tls", "iroh"}

\* What the transport offers of the ALPNs it was made with: a TLS client all of
\* them, an Iroh endpoint the first, or its own if there is none.
OfferedOverTls(alpns)  == {alpns[i] : i \in DOMAIN alpns}
OfferedOverIroh(alpns) == {IF alpns = << >> THEN "n0/navar" ELSE alpns[1]}

\* What connection.alpn_protocol() and stream.alpn_protocol() report when the
\* peers agreed on `negotiated`.  Plain TCP negotiates nothing; TokioConnection
\* has no method of its own; an Iroh stream does not pass on what its
\* connection knows.
ConnectionAlpn(transport, negotiated) ==
  IF transport = "iroh" THEN negotiated ELSE None
StreamAlpn(transport, negotiated) ==
  IF transport = "tls" THEN negotiated ELSE None

\* match (self.protocol, alpn)
UseH2(protocol, alpn) ==
  protocol = "http2" \/ (protocol = "auto" /\ alpn = "h2")
=============================================================================
