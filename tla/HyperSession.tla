----------------------------- MODULE HyperSession -----------------------------
(***************************************************************************)
(* HyperSender::send_request (navar-hyper/src/lib.rs): one session, cloned *)
(* to every caller, over one hyper connection.                             *)
(*                                                                         *)
(* Over HTTP/1.1 the clones share a tokio Mutex.  A caller holds it from   *)
(* before ready() until the head of its response has come; the body is     *)
(* read, or dropped, or kept, after the guard is gone.  Over HTTP/2 there  *)
(* is no lock and the connection multiplexes.                              *)
(*                                                                         *)
(* The connection, driven by the task that the pool spawned, is hyper's    *)
(* and external; it is modelled by what send_request relies on: ready()    *)
(* returns when the connection wants a request, a request handed over      *)
(* before that is refused, a request that cannot be finished, because its  *)
(* caller gave it up in flight or its own body is in error, costs HTTP/1.1 *)
(* the connection and HTTP/2 one stream.  An exchange is over when its     *)
(* response is: the request's body is taken to have ended by then.  Every  *)
(* caller calls send_request once.                                         *)
(***************************************************************************)
EXTENDS Naturals, Sequences, FiniteSets, SequencesExt, Negotiation

CONSTANTS
  Callers,     \* tasks with a clone of the session
  Hoarders,    \* callers that may keep a response and never read its body
  Faulty,      \* callers whose request's body may yield an error
  Protocol,    \* HyperApp::protocol
  Transport,   \* the transport below
  Alpns,       \* what the peers may agree on by ALPN; None is no agreement
  Error        \* an answer that is an error

ASSUME HyperAssumption ==
  /\ Hoarders \subseteq Callers
  /\ Faulty \subseteq Callers
  /\ {None, Error} \cap Callers = {}
  /\ None # Error
  /\ Protocol \in Protocols
  /\ Transport \in Transports

VARIABLES
  negotiated, \* the ALPN the peers agreed on
  pc,        \* where each caller is
  answer,    \* what the connection told it: None, Error, or whose response
  queue,     \* the Mutex: its holder, then those who wait for it
  wanted,    \* the HTTP/1.1 connection asked for a request
  channel,   \* requests handed to the connection and not yet taken by it
  exchange,  \* requests taken, whose responses are not over
  wire,      \* requests sent that the server has not answered
  conn,      \* "open", "closed", or "refused" when the server closed it
  broken,    \* history: the callers whose own misfortune cost them the response,
             \* or HTTP/1.1 its connection
  asked,     \* history: the callers in the order they asked for the session
  handed     \* history: the callers in the order their requests were handed over

vars == << negotiated, pc, answer, queue, wanted, channel, exchange, wire, conn,
           broken, asked, handed >>
callerVars == << pc, queue, asked, handed >>
connVars   == << negotiated, answer, wanted, channel, exchange, wire, conn,
                 broken >>

-----------------------------------------------------------------------------
IsH2 == UseH2(Protocol, StreamAlpn(Transport, negotiated))

Init ==
  /\ negotiated \in Alpns
  /\ pc = [c \in Callers |-> "new"]
  /\ answer = [c \in Callers |-> None]
  /\ queue = << >>
  /\ wanted = FALSE
  /\ channel = << >>
  /\ exchange = {}
  /\ wire = << >>
  /\ conn = "open"
  /\ broken = {}
  /\ asked = << >>
  /\ handed = << >>

\* A caller is after its response; its future may still be dropped.
Calling == {"queued", "readying", "inflight"}

Goto(c, place) == pc' = [pc EXCEPT ![c] = place]

-----------------------------------------------------------------------------
(***************************************************************************)
(* The callers.  An operator whose name has an underscore is a faulty      *)
(* variant of the one after it; the model never uses it.                   *)
(***************************************************************************)

\* The tokio Mutex is first come, first served, and goes from its holder
\* straight to the next.  A dropped future leaves it, from wherever it stands.
Join_Front(c) == << c >> \o queue
Join(c) == Append(queue, c)
Release_Leaked(c) == queue
Release(c) == RemoveFirst(queue, c)
Holder(c) == queue # << >> /\ Head(queue) = c

\* sender.lock(): HTTP/2 has no lock, and goes on to ready().
Ask(c) ==
  /\ pc[c] = "new"
  /\ asked' = Append(asked, c)
  /\ IF IsH2
     THEN Goto(c, "readying") /\ UNCHANGED queue
     ELSE Goto(c, "queued") /\ queue' = Join(c)
  /\ UNCHANGED << connVars, handed >>

Locked(c) ==
  /\ pc[c] = "queued" /\ Holder(c)
  /\ Goto(c, "readying")
  /\ UNCHANGED << connVars, queue, asked, handed >>

\* sender.ready(): HTTP/1.1 waits until the connection wants a request.
Ready_Skipped == TRUE
Ready == IsH2 \/ wanted

\* A request handed over is what the connection wanted.
Satisfied_StillWanted == wanted
Satisfied == FALSE

\* ready() succeeded.  In the same poll the request goes into the channel, if
\* the connection lets it.
Send(c) ==
  /\ pc[c] = "readying" /\ conn = "open" /\ Ready
  /\ IF IsH2 \/ wanted
     THEN /\ Goto(c, "inflight")
          /\ channel' = Append(channel, c)
          /\ handed' = Append(handed, c)
          /\ wanted' = Satisfied
          /\ UNCHANGED queue
     ELSE /\ Goto(c, "failed")
          /\ queue' = Release(c)
          /\ UNCHANGED << channel, handed, wanted >>
  /\ UNCHANGED << negotiated, answer, exchange, wire, conn, broken, asked >>

\* ready() failed: `?` returns and drops the guard.
NotReady(c) ==
  /\ pc[c] = "readying" /\ conn # "open"
  /\ Goto(c, "failed")
  /\ queue' = Release(c)
  /\ UNCHANGED << connVars, asked, handed >>

\* send_request returns, with the head of a response or with an error; either
\* way the guard goes.
Return(c) ==
  /\ pc[c] = "inflight" /\ answer[c] # None
  /\ Goto(c, IF answer[c] = Error THEN "failed" ELSE "reading")
  /\ queue' = Release(c)
  /\ UNCHANGED << connVars, asked, handed >>

\* The future of send_request is dropped.
Cancel(c) ==
  /\ pc[c] \in Calling
  /\ Goto(c, "cancelled")
  /\ queue' = Release(c)
  /\ UNCHANGED << connVars, asked, handed >>

\* The body is read to its end, or to the error of a closed connection or of a
\* stream that broke off.
ReadBody(c) ==
  /\ pc[c] = "reading"
  /\ Goto(c, "done")
  /\ exchange' = exchange \ {c}
  /\ UNCHANGED << negotiated, answer, queue, wanted, channel, wire, conn, broken,
                  asked, handed >>

\* The response is dropped, perhaps before the end of its body.
DropBody(c) ==
  /\ pc[c] = "reading"
  /\ Goto(c, "dropped")
  /\ UNCHANGED << connVars, queue, asked, handed >>

-----------------------------------------------------------------------------
(***************************************************************************)
(* The connection (external: hyper's client connection, and the server).   *)
(***************************************************************************)

\* Whoever still waits for the connection learns that it is gone.
Close(how) ==
  /\ conn' = how
  /\ answer' = [c \in Callers |->
                  IF answer[c] = None /\ c \in ToSet(channel) \cup exchange
                  THEN Error ELSE answer[c]]
  /\ wanted' = FALSE
  /\ channel' = << >>
  /\ exchange' = {}
  /\ wire' = << >>
  /\ UNCHANGED << negotiated, callerVars >>

\* An HTTP/1.1 connection between two exchanges asks for the next request.
Want ==
  /\ conn = "open" /\ ~IsH2
  /\ channel = << >> /\ exchange = {} /\ ~wanted
  /\ wanted' = TRUE
  /\ UNCHANGED << negotiated, callerVars, answer, channel, exchange, wire, conn,
                  broken >>

\* A request is taken from the channel and sent.
Take ==
  /\ conn = "open" /\ channel # << >>
  /\ pc[Head(channel)] # "cancelled"
  /\ channel' = Tail(channel)
  /\ exchange' = exchange \cup {Head(channel)}
  /\ wire' = Append(wire, Head(channel))
  /\ UNCHANGED << negotiated, callerVars, answer, wanted, conn, broken >>

\* It was given up before that: HTTP/2 skips it, HTTP/1.1 closes.
TakeCancelled ==
  /\ conn = "open" /\ channel # << >>
  /\ pc[Head(channel)] = "cancelled"
  /\ IF IsH2
     THEN /\ channel' = Tail(channel)
          /\ UNCHANGED << negotiated, callerVars, answer, wanted, exchange, wire, conn >>
     ELSE Close("closed")
  /\ UNCHANGED broken

\* The server answers: HTTP/1.1 in the order of the requests, and hyper gives
\* the head to the one exchange it has; HTTP/2 by stream.
Answer(c, asker, hasBody) ==
  /\ conn = "open"
  /\ IF IsH2 THEN c \in ToSet(wire) /\ asker = c
             ELSE wire # << >> /\ Head(wire) = c
  /\ asker \in exchange /\ answer[asker] = None /\ pc[asker] # "cancelled"
  /\ answer' = [answer EXCEPT ![asker] = c]
  /\ wire' = RemoveFirst(wire, c)
  /\ exchange' = IF hasBody THEN exchange ELSE exchange \ {asker}
  /\ UNCHANGED << negotiated, callerVars, wanted, channel, conn, broken >>

\* The connection sees that the caller of an unanswered request is gone: HTTP/2
\* resets the stream, HTTP/1.1 closes.
Forget_KeepAlive(c) ==
  /\ exchange' = exchange \ {c}
  /\ UNCHANGED << negotiated, callerVars, answer, wanted, channel, wire, conn >>
Forget(c) ==
  IF IsH2
  THEN /\ exchange' = exchange \ {c}
       /\ wire' = RemoveFirst(wire, c)
       /\ UNCHANGED << negotiated, callerVars, answer, wanted, channel, conn >>
  ELSE Close("closed")

Abandoned(c) ==
  /\ c \in exchange /\ answer[c] = None /\ pc[c] = "cancelled"
  /\ Forget(c)
  /\ UNCHANGED broken

\* The body of an answered request was dropped: what is left of it is drained,
\* or, over HTTP/1.1, the connection closes.
Drained(c) ==
  /\ c \in exchange /\ answer[c] # None /\ pc[c] \in {"cancelled", "dropped"}
  /\ \/ /\ exchange' = exchange \ {c}
        /\ UNCHANGED << negotiated, callerVars, answer, wanted, channel, wire, conn >>
     \/ ~IsH2 /\ Close("closed")
  /\ UNCHANGED broken

\* One stream of an HTTP/2 connection ends: a caller that waits for the head of
\* its response gets the error, and one that has it finds the body cut short.
LoseStream(c) ==
  /\ exchange' = exchange \ {c}
  /\ wire' = RemoveFirst(wire, c)
  /\ IF answer[c] = None
     THEN answer' = [answer EXCEPT ![c] = Error] /\ broken' = broken \cup {c}
     ELSE UNCHANGED << answer, broken >>
  /\ UNCHANGED << negotiated, callerVars, wanted, channel, conn >>

\* The body of a request is in error when the connection polls it: HTTP/2 resets
\* that stream, HTTP/1.1 cannot end the request and closes.
BodyFails(c) ==
  /\ c \in Faulty \cap exchange
  /\ IF IsH2 THEN LoseStream(c) ELSE Close("closed") /\ broken' = broken \cup {c}

\* The server resets one HTTP/2 stream.
StreamReset(c) ==
  /\ IsH2 /\ c \in exchange
  /\ LoseStream(c)

\* The server, or the network, ends the connection.
ServerCloses == conn = "open" /\ Close("refused") /\ UNCHANGED broken

-----------------------------------------------------------------------------
CallerStep(c) ==
  Ask(c) \/ Locked(c) \/ Send(c) \/ NotReady(c) \/ Return(c)

BodyStep(c) == ReadBody(c) \/ DropBody(c)

ConnStep ==
  \/ Want
  \/ Take
  \/ TakeCancelled
  \/ \E c, asker \in Callers, hasBody \in BOOLEAN : Answer(c, asker, hasBody)
  \/ \E c \in Callers : Abandoned(c) \/ Drained(c)

Mishap ==
  \/ ServerCloses
  \/ \E c \in Callers : BodyFails(c) \/ StreamReset(c)

Next ==
  \/ \E c \in Callers : CallerStep(c) \/ BodyStep(c) \/ Cancel(c)
  \/ ConnStep
  \/ Mishap

Spec == Init /\ [][Next]_vars

\* Callers and the driver are tasks that an executor polls when they are woken;
\* the server answers.  Those who are no Hoarders end their responses.  Nobody
\* need cancel, and no mishap need happen.
FairSpec ==
  /\ Spec
  /\ WF_vars(ConnStep)
  /\ \A c \in Callers :
       /\ WF_vars(CallerStep(c))
       /\ WF_vars(c \notin Hoarders /\ BodyStep(c))

-----------------------------------------------------------------------------
(***************************************************************************)
(* Properties.                                                             *)
(***************************************************************************)

\* The shape of the state; the channel to an HTTP/1.1 connection has room for
\* one request.
TypeOK ==
  /\ negotiated \in Alpns
  /\ pc \in [Callers -> {"new", "reading", "done", "dropped", "failed",
                         "cancelled"} \cup Calling]
  /\ answer \in [Callers -> Callers \cup {None, Error}]
  /\ {queue, channel, wire, asked, handed} \subseteq Seq(Callers)
  /\ {exchange, broken} \subseteq SUBSET Callers
  /\ wanted \in BOOLEAN
  /\ conn \in {"open", "closed", "refused"}
  /\ ~IsH2 => Len(channel) <= 1

\* Nobody gets the response to another's request, whatever was cancelled in
\* the queue, in the channel or in flight before it.
OwnResponse == \A c \in Callers : answer[c] \in {c, None, Error}

\* The Mutex is in the hands of, and waited for by, exactly the callers inside
\* send_request: no path out of it, an error or a dropped future, leaks it.
LockedByCallers ==
  ~IsH2 =>
    /\ \A c \in Callers : pc[c] \in Calling <=> c \in ToSet(queue)
    /\ \A i \in 2..Len(queue) : pc[queue[i]] = "queued"

\* A request fails only because the server closed the connection, or, over
\* HTTP/2, because its own stream broke off (its own body was in error, or the
\* server reset it), or, over HTTP/1.1, because some request could not be
\* finished: it was given up after it had been handed over, or its body was in
\* error.  A caller that gives up while it waits for its turn harms nobody, no
\* HTTP/2 request suffers from another's, and the connection never refuses a
\* request for coming too early.
GivenUp(c) == c \in ToSet(handed) /\ pc[c] \in {"cancelled", "dropped"}
FailsForAReason ==
  \A c \in Callers : pc[c] = "failed" =>
    \/ conn = "refused"
    \/ IsH2 /\ c \in broken
    \/ ~IsH2 /\ \E d \in Callers : GivenUp(d) \/ d \in broken

\* HTTP/1.1 requests are handed over in the order in which they were made.
Place(s, c) == SelectInSeq(s, LAMBDA d : d = c)
FirstComeFirstServed ==
  ~IsH2 => \A i, j \in 1..Len(handed) :
             i < j => Place(asked, handed[i]) < Place(asked, handed[j])

\* A connection whose peers agreed on "h2" is used for HTTP/2, so that nobody
\* waits for a turn, unless the configuration says otherwise ("HTTP/2 is
\* preferred when ALPN negotiation indicates support", navar-hyper lib.rs:49).
PrefersH2 == Protocol = "auto" /\ negotiated = "h2" => queue = << >>

\* Every send_request returns or is given up, unless HTTP/1.1 waits for the end
\* of a body that its owner keeps and does not read.  Over HTTP/2 no one waits
\* for another's body (as long as the bodies kept fit in the connection's
\* flow-control window, which is not modelled).
Waiting(c) == pc[c] \in Calling
Hoarded    == ~IsH2 /\ \E h \in Hoarders : pc[h] = "reading"
Returns    == \A c \in Callers : Waiting(c) ~> ~Waiting(c) \/ Hoarded

\* The session keeps the promise of OneSession: whatever the Mutex, the wants
\* and the channel do, requests are exclusive over HTTP/1.1, answered once, and
\* refused only by a connection that closed; over HTTP/1.1 a request that was
\* handed over and cannot be finished costs the connection, and a request fails
\* in no other way; over HTTP/2 it fails alone.
Phase(c) ==
  IF pc[c] \in {"done", "dropped"} \/ (pc[c] = "cancelled" /\ answer[c] = c) THEN "over"
  ELSE IF pc[c] \in {"queued", "readying"} THEN "waiting"
  ELSE IF pc[c] = "inflight" /\ answer[c] = None THEN "sent"
  ELSE IF pc[c] = "inflight" /\ answer[c] = Error THEN "failed"
  ELSE IF pc[c] \in {"inflight", "reading"} THEN "answered"
  ELSE pc[c]
Promise == INSTANCE OneSession WITH
             faulty <- Faulty,
             exclusive <- ~IsH2,
             phase <- [c \in Callers |-> Phase(c)],
             busy <- ToSet(channel) \cup exchange
ImplementsOneSession == Promise!SessionSpec
=============================================================================
