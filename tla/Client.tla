-------------------------------- MODULE Client --------------------------------
(***************************************************************************)
(* A request from end to end (src/lib.rs, service.rs, bound_request.rs,    *)
(* base_service.rs, response_helpers.rs, over a transport and an           *)
(* application): built, sent through the Pipeline to BaseService, which    *)
(* finds or makes the session of its authority, answered, and read by one  *)
(* of the response helpers.                                                *)
(*                                                                         *)
(* The composition of the parts that have modules of their own, each at    *)
(* the level of its promise: the pool as in SharedSession, where a request *)
(* waits while another makes the session of its key (how it waits for a    *)
(* shard is SessionPool's matter), and a session as in OneSession.         *)
(***************************************************************************)
EXTENDS Naturals, Sequences, FiniteSets, SequencesExt

CONSTANTS
  Requests,    \* calls of send(), each with its own request
  Asks,        \* what a caller may ask:  [uri, headers, kind, helper]
  Workloads,   \* the sets of requests that are made:  SUBSET [Requests -> Asks]
  Setups,      \* the clients:  [transport, app, protocol, alpns]
  Hoarders,    \* requests whose caller may keep a response without reading it
  PublicKeys,  \* the hosts that are an Iroh public key
  BodySizes,   \* how many frames a response may have
  NoKey, None, Malformed

E == INSTANCE Endpoint
N == INSTANCE Negotiation
B == INSTANCE RequestBuilder

\* A request is asked for with a sequence of headers, by build or with a typed body.
ASSUME ClientAssumption ==
  /\ Workloads \subseteq [Requests -> Asks]
  /\ Hoarders \subseteq Requests
  /\ BodySizes \subseteq Nat
  /\ None \notin Requests /\ Malformed # "other"
  /\ \A s \in Setups : s.transport \in {"tokio", "iroh", "mock"}
  /\ \A a \in Asks : /\ a.headers \in Seq(ToSet(a.headers))
                     /\ a.kind \in {"build", "body"} \cup DOMAIN B!TypeOfBody

VARIABLES
  setup,      \* the client that this run is about
  ask,        \* [Requests -> Asks]
  req,        \* what the builder makes of each:  [uri, error, types]
  pc,         \* where each request is
  bound,      \* the session that a request got, named by the request that made it
  pool,       \* [Keys -> Requests \cup {None}], the sessions
  link,       \* [Keys -> peers \cup {None}], where each session's connection leads
  exclusive,  \* [Keys -> BOOLEAN], the session speaks HTTP/1.1
  conn,       \* [Keys -> {"none", "open", "closed", "refused"}]
  busy,       \* [Keys -> SUBSET Requests], the exchanges of each connection
  total,      \* frames in the body of each response
  got         \* of these, the frames that the helper has read

fixed       == << setup, ask, req >>
poolVars    == << bound, pool, link, exclusive >>
sessionVars == << conn, busy >>
bodyVars    == << total, got >>
vars == << fixed, pc, poolVars, sessionVars, bodyVars >>

-----------------------------------------------------------------------------
Keys == {E!Authority(a.uri) : a \in {b \in Asks : b.uri # Malformed}} \ {NoKey}

Built(a) == B!BuiltFrom(a.uri, a.headers, a.kind)
Key(r) == IF req[r].error THEN NoKey ELSE E!Authority(req[r].uri)
Of(k)  == {r \in Requests : Key(r) = k}

\* ndjson serializes while it is sent, and what body() is given may fail as it likes;
\* the other bodies are all there when the request is built.
Faulty == {r \in Requests : ask[r].kind \in {"ndjson", "body"}}

\* The session, named by its key, that a request goes over.
Over(r) == Key(bound[r])

\* What TransportPlugin::connect makes of the URI; None is an error.
Peer(uri) ==
  CASE setup.transport = "tokio" -> E!Peer(uri)
    [] setup.transport = "iroh"  -> E!IrohPeer(uri, PublicKeys)
    [] setup.transport = "mock"  -> "anywhere"

\* The streams a handshake opens, and those that a connection gives.  An
\* unsupported stream is an error at once.
Opened(app) == CASE app = "hyper" -> {"bi"} [] app = "h3" -> {"uni"} [] app = "mock" -> {}
Gives(transport) == IF transport = "tokio" THEN {"bi"} ELSE {"bi", "uni"}
Unsupported == ~(Opened(setup.app) \subseteq Gives(setup.transport))

\* The ALPNs that the peer may settle on, and the version that follows.
Kind(peer) ==
  IF setup.transport # "tokio" THEN setup.transport
  ELSE IF peer.tls THEN "tls" ELSE "tcp"
Agreeable(kind) ==
  CASE kind = "tls"  -> N!OfferedOverTls(setup.alpns) \cup {None}
    [] kind = "iroh" -> N!OfferedOverIroh(setup.alpns)
    [] OTHER         -> {None}
SpeaksHttp1(kind, alpn) ==
  setup.app = "hyper" /\ ~N!UseH2(setup.protocol, N!StreamAlpn(kind, alpn))

\* The client that examples/navar_fetch.rs makes for a URI's scheme.
SetupOf(scheme) ==
  [transport |-> IF scheme \in {"http", "https"} THEN "tokio" ELSE "iroh",
   app       |-> IF scheme = "iroh+h3" THEN "h3" ELSE "hyper",
   protocol  |-> "auto",
   alpns     |-> IF scheme \in {"http", "https"} THEN << "h2", "http/1.1" >>
                 ELSE << scheme >>]

-----------------------------------------------------------------------------
Init ==
  /\ setup \in Setups
  /\ ask \in Workloads
  /\ req = [r \in Requests |-> Built(ask[r])]
  /\ pc = [r \in Requests |-> "new"]
  /\ bound = [r \in Requests |-> None]
  /\ pool = [k \in Keys |-> None]
  /\ link = [k \in Keys |-> None]
  /\ exclusive = [k \in Keys |-> FALSE]
  /\ conn = [k \in Keys |-> "none"]
  /\ busy = [k \in Keys |-> {}]
  /\ total = [r \in Requests |-> 0]
  /\ got = [r \in Requests |-> 0]

Establishing == {"connecting", "shaking"}
Ended == {"done", "broken", "dropped", "failed", "cancelled", "abandoned"}

Move(r, from, to) ==
  /\ pc[r] \in from
  /\ pc' = [pc EXCEPT ![r] = to]

-----------------------------------------------------------------------------
(***************************************************************************)
(* Building and sending.  An operator whose name has an underscore is a    *)
(* faulty variant of the one after it; the model never uses it.            *)
(***************************************************************************)

\* A request that does not build, or has no authority, goes nowhere.
Rejected(r) ==
  /\ Key(r) = NoKey
  /\ Move(r, {"new"}, "failed")
  /\ UNCHANGED << fixed, poolVars, sessionVars, bodyVars >>

\* Client::send, the Pipeline and the pool's lookup: the pool does not ask what
\* became of a session.
Lookup_Live(k) == IF conn[k] = "open" THEN pool[k] ELSE None
Lookup_SameHost(k) ==
  IF \E j \in Keys : j[1] = k[1] /\ pool[j] # None
  THEN pool[CHOOSE j \in Keys : j[1] = k[1] /\ pool[j] # None]
  ELSE None
Lookup(k) == pool[k]

\* A vacant entry belongs to one request until it has a session or fails.
Taken_Leaked(k) == \E s \in Of(k) : pc[s] \in Establishing \cup {"failed"}
Taken(k) == \E s \in Of(k) : pc[s] \in Establishing

Share(r) ==
  /\ Move(r, {"new"}, "waiting")
  /\ Key(r) \in Keys /\ Lookup(Key(r)) # None
  /\ bound' = [bound EXCEPT ![r] = Lookup(Key(r))]
  /\ UNCHANGED << fixed, pool, link, exclusive, sessionVars, bodyVars >>

Miss(r) ==
  /\ Move(r, {"new"}, "connecting")
  /\ Key(r) \in Keys /\ Lookup(Key(r)) = None /\ ~Taken(Key(r))
  /\ UNCHANGED << fixed, poolVars, sessionVars, bodyVars >>

Connected(r) ==
  /\ Move(r, {"connecting"}, "shaking")
  /\ Peer(req[r].uri) # None
  /\ UNCHANGED << fixed, poolVars, sessionVars, bodyVars >>

\* connect or handshake fails, as it must or because the peer cannot be reached.
Unreached(r) ==
  /\ Move(r, Establishing, "failed")
  /\ setup.transport # "mock"
  /\ UNCHANGED << fixed, poolVars, sessionVars, bodyVars >>

\* The handshake is done: the driver is spawned, the session pooled and used.
Insert(r, k) ==
  /\ bound' = [bound EXCEPT ![r] = r]
  /\ pool' = [pool EXCEPT ![k] = r]
  /\ link' = [link EXCEPT ![k] = Peer(req[r].uri)]
  /\ conn' = [conn EXCEPT ![k] = "open"]

Shaken(r) ==
  /\ ~Unsupported
  /\ Move(r, {"shaking"}, "waiting")
  /\ Insert(r, Key(r))
  /\ LET kind == Kind(Peer(req[r].uri)) IN
       \E alpn \in Agreeable(kind) :
         exclusive' = [exclusive EXCEPT ![Key(r)] = SpeaksHttp1(kind, alpn)]
  /\ UNCHANGED << fixed, busy, bodyVars >>

\* The caller drops the future of send(), which the mocks never leave pending.
Cancel(r) ==
  /\ setup.app # "mock"
  /\ \/ Move(r, Establishing \cup {"waiting"}, "cancelled")
     \/ Move(r, {"sent"}, "abandoned")
  /\ UNCHANGED << fixed, poolVars, sessionVars, bodyVars >>

-----------------------------------------------------------------------------
(***************************************************************************)
(* The exchange over the session that the request got.                     *)
(***************************************************************************)
Free_Unlocked(k) == TRUE
Free(k) == exclusive[k] => busy[k] = {}

Send(r) ==
  /\ Move(r, {"waiting"}, "sent")
  /\ conn[Over(r)] = "open" /\ Free(Over(r))
  /\ busy' = [busy EXCEPT ![Over(r)] = @ \cup {r}]
  /\ UNCHANGED << fixed, poolVars, conn, bodyVars >>

Refused(r) ==
  /\ Move(r, {"waiting"}, "failed")
  /\ conn[Over(r)] # "open"
  /\ UNCHANGED << fixed, poolVars, sessionVars, bodyVars >>

Done(r) == busy' = [busy EXCEPT ![Over(r)] = @ \ {r}]

\* The request fails over a connection that carries on: its own body is in error,
\* or its HTTP/2 or HTTP/3 stream is reset.
FailsAlone(r) ==
  /\ Move(r, {"sent"}, "failed")
  /\ setup.app # "mock"
  /\ conn[Over(r)] = "open" /\ ~exclusive[Over(r)]
  /\ Done(r)
  /\ UNCHANGED << fixed, poolVars, conn, bodyVars >>

\* The head of the response.  The mock session answers with an empty body.
Respond(r, n) ==
  /\ Move(r, {"sent"}, "answered")
  /\ conn[Over(r)] = "open"
  /\ setup.app = "mock" => n = 0
  /\ total' = [total EXCEPT ![r] = n]
  /\ (n = 0 /\ Done(r)) \/ UNCHANGED busy
  /\ UNCHANGED << fixed, poolVars, conn, got >>

-----------------------------------------------------------------------------
(***************************************************************************)
(* Reading.  bytes, text and json collect the body, bytes_stream passes    *)
(* its frames on; text and json may not accept what they collected.        *)
(***************************************************************************)
More_PastEnd(r) == got[r] <= total[r]
More(r) == got[r] < total[r]

ReadFrame(r) ==
  /\ pc[r] = "answered" /\ More(r)
  /\ got' = [got EXCEPT ![r] = @ + 1]
  /\ UNCHANGED << fixed, pc, poolVars, sessionVars, total >>

Outcomes(helper) == IF helper \in {"text", "json"} THEN {"done", "broken"} ELSE {"done"}

ReadEnd(r) ==
  /\ \E outcome \in Outcomes(ask[r].helper) : Move(r, {"answered"}, outcome)
  /\ ~More(r)
  /\ Done(r)
  /\ UNCHANGED << fixed, poolVars, conn, bodyVars >>

\* The rest of the body is lost with the connection, or with its HTTP/2 or
\* HTTP/3 stream: `?` in collect, an Err item in bytes_stream.
OnError_AsEnd == "done"
OnError == "broken"
ReadError(r) ==
  /\ Move(r, {"answered"}, OnError)
  /\ More(r)
  /\ conn[Over(r)] # "open" \/ ~exclusive[Over(r)]
  /\ Done(r)
  /\ UNCHANGED << fixed, poolVars, conn, bodyVars >>

\* The response or the stream is dropped.
DropBody(r) ==
  /\ Move(r, {"answered"}, "dropped")
  /\ UNCHANGED << fixed, poolVars, sessionVars, bodyVars >>

-----------------------------------------------------------------------------
(***************************************************************************)
(* The connections (external): exchanges whose caller is gone are drained  *)
(* or reset, or over HTTP/1.1 cost the connection; the server may close.   *)
(***************************************************************************)
Left(r) == pc[r] \in Ended

Discard(k, r) ==
  /\ r \in busy[k] /\ Left(r)
  /\ pc[r] = "abandoned" => ~exclusive[k]
  /\ busy' = [busy EXCEPT ![k] = @ \ {r}]
  /\ UNCHANGED << fixed, pc, poolVars, conn, bodyVars >>

Close(k, how) ==
  /\ conn[k] = "open"
  /\ conn' = [conn EXCEPT ![k] = how]
  /\ busy' = [busy EXCEPT ![k] = {}]
  /\ pc' = [r \in Requests |->
              IF pc[r] = "sent" /\ Over(r) = k THEN "failed" ELSE pc[r]]
  /\ UNCHANGED << fixed, poolVars, bodyVars >>

GiveUp(k) ==
  /\ exclusive[k] /\ \E r \in busy[k] : Left(r)
  /\ Close(k, "closed")

\* HTTP/1.1 cannot end a request whose body is in error, and closes.
BodyBreaks(k) ==
  /\ exclusive[k] /\ busy[k] \cap Faulty # {}
  /\ Close(k, "closed")

ServerCloses(k) == setup.app # "mock" /\ Close(k, "refused")

-----------------------------------------------------------------------------
Handle(r) ==
  \/ Rejected(r) \/ Share(r) \/ Miss(r) \/ Connected(r) \/ Unreached(r) \/ Shaken(r)
  \/ Send(r) \/ Refused(r) \/ \E n \in BodySizes : Respond(r, n)

Read(r) == ReadFrame(r) \/ ReadEnd(r) \/ ReadError(r) \/ DropBody(r)

ConnStep(k) == GiveUp(k) \/ \E r \in Requests : Discard(k, r)

Next ==
  \/ \E r \in Requests : Handle(r) \/ Read(r) \/ Cancel(r) \/ FailsAlone(r)
  \/ \E k \in Keys : ConnStep(k) \/ BodyBreaks(k) \/ ServerCloses(k)

Spec == Init /\ [][Next]_vars

\* Tasks and drivers are polled when they are woken, peers answer in the end, and
\* all but the hoarders read or drop what they get.
FairSpec ==
  /\ Spec
  /\ \A r \in Requests : WF_vars(Handle(r)) /\ WF_vars(r \notin Hoarders /\ Read(r))
  /\ \A k \in Keys : WF_vars(ConnStep(k))

-----------------------------------------------------------------------------
(***************************************************************************)
(* Properties.                                                             *)
(***************************************************************************)

\* The shape of the state.
TypeOK ==
  /\ setup \in Setups /\ ask \in Workloads
  /\ pc \in [Requests -> {"new", "waiting", "sent", "answered"} \cup Establishing \cup Ended]
  /\ bound \in [Requests -> Requests \cup {None}]
  /\ pool \in [Keys -> Requests \cup {None}]
  /\ DOMAIN link = Keys
  /\ exclusive \in [Keys -> BOOLEAN]
  /\ conn \in [Keys -> {"none", "open", "closed", "refused"}]
  /\ busy \in [Keys -> SUBSET Requests]
  /\ total \in [Requests -> BodySizes \cup {0}]
  /\ got \in [Requests -> Nat] /\ \A r \in Requests : got[r] <= total[r]

\* The requests of an authority, whichever builders, transports and helpers they
\* go through, use one session, and it keeps the promise of OneSession to them.
Phase(r) ==
  IF bound[r] = None THEN "new"
  ELSE IF pc[r] = "abandoned" THEN "cancelled"
  ELSE IF pc[r] \in {"done", "broken", "dropped"} THEN "over"
  ELSE pc[r]
Promise(k) == INSTANCE OneSession WITH
                Callers <- Requests,
                faulty <- Faulty,
                exclusive <- exclusive[k],
                phase <- [r \in Requests |-> IF r \in Of(k) THEN Phase(r) ELSE "new"],
                busy <- busy[k],
                conn <- conn[k]
ImplementsOneSession ==
  /\ \A k \in Keys : Promise(k)!SessionInit
  /\ [][\A k \in Keys : [Promise(k)!SessionNext]_(Promise(k)!sessionVars)]_vars

\* The pool of a client, too, is the one that SessionPool implements: a connection that
\* closes may fail several requests at once, and none of it touches the sessions.
Standing(r) ==
  CASE pc[r] \in {"waiting", "sent"} -> "bound"
    [] pc[r] \in {"answered", "done", "broken", "dropped"} -> "served"
    [] pc[r] \in {"failed", "cancelled", "abandoned"} -> "failed"
    [] OTHER -> "waiting"
Pooled == INSTANCE SharedSession WITH
            KeyOfUri <- [k \in Keys \cup {NoKey} |-> k],
            uri <- [r \in Requests |-> Key(r)],
            sessionOf <- pool,
            status <- [r \in Requests |-> Standing(r)]
ImplementsSharedSession == Pooled!AbstractSpec

\* Giving up one request over HTTP/1.1 after it was sent ends its authority for
\* this client: hyper closes the connection, the pool keeps the session, and no
\* other request of the authority is answered again.  Over HTTP/2 and HTTP/3 it
\* concerns nobody else.
Abandoned(k) == \E r \in Of(k) : pc[r] = "abandoned"
AbandonmentIsFinal ==
  [][\A r \in Requests :
       Key(r) \in Keys /\ exclusive[Key(r)] /\ Abandoned(Key(r)) /\ pc[r] # "answered"
         => pc'[r] # "answered"]_vars

\* A request over a session fails only by what happens at its own authority: the
\* server closed that connection; or HTTP/1.1 did, over a request of the authority that
\* was given up, dropped or in error; or the request failed alone, on a connection
\* that is not HTTP/1.1's.  No other authority's requests can fail it, and none that
\* only waits for its turn.
Tried(r) == bound[r] # None /\ pc[r] \notin {"waiting", "cancelled"}
Blamed(r) == pc[r] \in {"abandoned", "dropped"} \/ (r \in Faulty /\ Tried(r))
OwnMisfortune ==
  \A r \in Requests :
    LET k == Key(r) IN
    pc[r] = "failed" /\ bound[r] # None =>
      \/ conn[k] = "refused"
      \/ conn[k] = "closed" /\ \E s \in Of(k) : Blamed(s)
      \/ conn[k] = "open" /\ ~exclusive[k]

\* A request goes to the peer that its own URI names, though another request of its
\* authority dialled it; but the key has no scheme, so TokioTransport, where that was
\* another, has dialled the same host, and the same port only if the URI writes it.
OwnPeer ==
  \A r \in Requests :
    LET own == req[r].uri
        maker == req[bound[r]].uri
        peer == link[Over(r)] IN
    bound[r] # None =>
      IF setup.transport = "tokio" /\ own.scheme # maker.scheme
      THEN peer.host = own.host /\ (own.port # None => peer.port = own.port)
      ELSE peer = Peer(own)

\* What reaches a session was built without an error; a Content-Type that the
\* caller set stands as it is, and a typed body has its own, once, if there was none.
ContentTypes(headers) == ToSet(headers) \ {"other"}
SentAsAsked ==
  \A r \in Requests :
    LET own == ContentTypes(ask[r].headers)
        sent == req[r].types
        kind == ask[r].kind IN
    bound[r] # None =>
      /\ ~req[r].error
      /\ own # {} => ToSet(sent) = own
      /\ own = {} /\ kind \in DOMAIN B!TypeOfBody => sent = << B!TypeOfBody[kind] >>

\* A response helper that ends without an error has read the whole body.
WholeOrError ==
  \A r \in Requests : pc[r] = "done" => got[r] = total[r]

\* Every request comes to its end, also where the transport cannot carry the
\* application or the URI names nobody, unless the owner of another response of its
\* authority keeps it, unread, over HTTP/1.1.
Hoarded(k) == exclusive[k] /\ \E h \in Hoarders \cap busy[k] : pc[h] = "answered"
Ends ==
  \A r \in Requests \ Hoarders :
    <>(pc[r] \in Ended \/ (Key(r) \in Keys /\ Hoarded(Key(r))))
=============================================================================
