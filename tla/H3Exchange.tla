------------------------------ MODULE H3Exchange ------------------------------
(***************************************************************************)
(* One request over HTTP/3: H3Session::send_request and H3ResponseBody     *)
(* (navar-h3/src/lib.rs) on top of H3BidiStream (adapter.rs), which        *)
(* buffers what the h3 crate sends until the transport takes it.           *)
(*                                                                         *)
(* The h3 crate, the QUIC transport and the server are external.  h3 gives *)
(* send_data one frame and polls poll_ready until the buffer is empty; its *)
(* frame headers and padding frames are left out.  A QUIC send stream that *)
(* is dropped without a reset ends as if it had been finished.             *)
(***************************************************************************)
EXTENDS Naturals, Sequences, SequencesExt

CONSTANTS
  Units,      \* bytes of bodies
  Head0,      \* the encoded request head, sent before the body
  Bodies,     \* the request bodies considered: sequences of body frames
  Responses,  \* the response bodies considered: sequences of Units
  EarlyAnswer \* whether the server may answer before the end of the request

\* The frames of a body: data in contiguous pieces, trailers, or an error.
Frames == [kind : {"data"}, chunks : Seq(Seq(Units))] \cup [kind : {"trailers", "error"}]

ASSUME H3Assumption ==
  /\ Head0 \notin Units
  /\ Bodies \subseteq Seq(Frames)
  /\ Responses \subseteq Seq(Units)
  /\ EarlyAnswer \in BOOLEAN

VARIABLES
  request,   \* the request body
  body,      \* the frames of it not yet polled
  pc,        \* where send_request, then the reader of the response, is
  sendBuf,   \* H3BidiStream::send_buf
  sent,      \* history: everything given to send_data
  wire,      \* what the transport accepted
  fin,       \* the transport saw the end of the request stream
  server,    \* "reading" the request, "answering", "ended" or "broken"
  response,  \* the response body
  inbox,     \* bytes of it the transport has for the reader
  got        \* bytes of it the reader has

vars == << request, body, pc, sendBuf, sent, wire, fin, server, response,
           inbox, got >>
sendVars   == << request, body, sendBuf, sent, wire, fin >>
serverVars == << server, response, inbox, got >>

Init ==
  /\ request \in Bodies
  /\ body = request
  /\ pc = "opening"
  /\ sendBuf = << >>
  /\ sent = << >>
  /\ wire = << >>
  /\ fin = FALSE
  /\ server = "reading"
  /\ response \in Responses
  /\ inbox = << >>
  /\ got = << >>

Draining == {"head", "data", "finish"}
Over     == {"done", "failed", "dropped"}

-----------------------------------------------------------------------------
(***************************************************************************)
(* The sending side.  An operator whose name has an underscore is a faulty *)
(* variant of the one after it; the model never uses it.                   *)
(***************************************************************************)

\* data.chunk(): the first of the contiguous pieces a Buf is made of.
FirstChunk_ByCapacity(frame) ==  \* with the unused byte behind the last
  IF frame.chunks = << >> THEN << >> ELSE Append(Head(frame.chunks), 0)
FirstChunk(frame) == IF frame.chunks = << >> THEN << >> ELSE Head(frame.chunks)

\* send_data: the buffer grows; h3 then waits for poll_ready.
SendData(bytes, place) ==
  /\ sendBuf' = sendBuf \o bytes
  /\ sent' = sent \o bytes
  /\ pc' = place
  /\ UNCHANGED << request, wire, fin, serverVars >>

\* The stream is dropped with all that holds it; unless it is broken, the
\* server sees it end.
DropStream(outcome) ==
  /\ pc' = outcome
  /\ fin' = (fin \/ server # "broken")
  /\ sendBuf' = << >>
  /\ UNCHANGED << request, body, sent, wire, serverVars >>

\* poll_open_bidi gave a stream: the head goes first.
Opened ==
  /\ pc = "opening"
  /\ SendData(<< Head0 >>, "head")
  /\ UNCHANGED body

\* It gave an error, or send_request was dropped before it gave anything.
OpenFails ==
  /\ pc = "opening"
  /\ pc' \in {"failed", "dropped"}
  /\ UNCHANGED << sendVars, serverVars >>

\* poll_ready: the transport takes some of the buffer.
Advance_All(n) == << >>
Advance(n) == SubSeq(sendBuf, n + 1, Len(sendBuf))
Write ==
  /\ pc \in Draining
  /\ \E n \in 1..Len(sendBuf) :
       /\ wire' = wire \o SubSeq(sendBuf, 1, n)
       /\ sendBuf' = Advance(n)
  /\ UNCHANGED << request, body, pc, sent, fin, serverVars >>

\* poll_ready: all is written; send_request goes on.
Drained ==
  /\ pc \in {"head", "data"} /\ sendBuf = << >>
  /\ pc' = "frame"
  /\ UNCHANGED << sendVars, serverVars >>

\* body.frame(): a data frame is sent, as far as its first chunk goes.
SendFrame ==
  /\ pc = "frame" /\ body # << >> /\ Head(body).kind = "data"
  /\ body' = Tail(body)
  /\ SendData(FirstChunk(Head(body)), "data")

\* A frame of trailers is discarded; the rest of the body is sent.
SkipTrailers_End == pc' = "finish"
SkipTrailers == UNCHANGED pc
SkipFrame ==
  /\ pc = "frame" /\ body # << >> /\ Head(body).kind = "trailers"
  /\ body' = Tail(body)
  /\ SkipTrailers
  /\ UNCHANGED << request, sendBuf, sent, wire, fin, serverVars >>

\* The body fails: `return Err` drops the stream.
BodyFails ==
  /\ pc = "frame" /\ body # << >> /\ Head(body).kind = "error"
  /\ DropStream("failed")

\* The body is over: stream.finish().
BodyEnds ==
  /\ pc = "frame" /\ body = << >>
  /\ pc' = "finish"
  /\ UNCHANGED << sendVars, serverVars >>

\* poll_finish: poll_ready, then poll_flush; the transport is not told that
\* the stream is over.
Finish_Acknowledged ==
  /\ pc = "finish" /\ sendBuf = << >> /\ fin
  /\ pc' = "response"
  /\ UNCHANGED << sendVars, serverVars >>
Finish ==
  /\ pc = "finish" /\ sendBuf = << >>
  /\ pc' = "response"
  /\ UNCHANGED << sendVars, serverVars >>

\* poll_write, poll_flush or recv_response fails, as a broken stream makes them.
SendFails ==
  /\ pc \in Draining \cup {"response"}
  /\ server = "broken"
  /\ DropStream("failed")

\* The future of send_request, or the response, is dropped.
Drop ==
  /\ pc \notin Over \cup {"opening"}
  /\ DropStream("dropped")

-----------------------------------------------------------------------------
(***************************************************************************)
(* The receiving side.                                                     *)
(***************************************************************************)

\* recv_response: the head of the response is there.
Responded ==
  /\ pc = "response" /\ server \in {"answering", "ended"}
  /\ pc' = "reading"
  /\ UNCHANGED << sendVars, serverVars >>

\* poll_frame through poll_data: some of the bytes that are there.
ReadData ==
  /\ pc = "reading"
  /\ \E n \in 1..Len(inbox) :
       /\ got' = got \o SubSeq(inbox, 1, n)
       /\ inbox' = SubSeq(inbox, n + 1, Len(inbox))
  /\ UNCHANGED << pc, sendVars, server, response >>

\* poll_data read 0 bytes: the body is over, and its owner drops the stream.
ReadEnd ==
  /\ pc = "reading" /\ inbox = << >> /\ server = "ended"
  /\ DropStream("done")

\* poll_read failed: the error ends the body.
Broken_AsEnd == "done"
Broken == "failed"
ReadFails ==
  /\ pc = "reading" /\ server = "broken"
  /\ DropStream(Broken)

-----------------------------------------------------------------------------
(***************************************************************************)
(* The server (external).                                                  *)
(***************************************************************************)

Unsent == SubSeq(response, Len(got) + Len(inbox) + 1, Len(response))

\* It has the head of the request, and all of it if that is what it waits for.
ServerAnswers ==
  /\ server = "reading" /\ wire # << >>
  /\ EarlyAnswer \/ fin
  /\ server' = "answering"
  /\ UNCHANGED << pc, sendVars, response, inbox, got >>

ServerSends ==
  /\ server = "answering"
  /\ \E n \in 1..Len(Unsent) : inbox' = inbox \o SubSeq(Unsent, 1, n)
  /\ UNCHANGED << pc, sendVars, server, response, got >>

ServerEnds ==
  /\ server = "answering" /\ Unsent = << >>
  /\ server' = "ended"
  /\ UNCHANGED << pc, sendVars, response, inbox, got >>

\* The stream or the connection breaks: what was not read is lost.
StreamBreaks ==
  /\ server \in {"reading", "answering"}
  /\ server' = "broken"
  /\ inbox' = << >>
  /\ UNCHANGED << pc, sendVars, response, got >>

-----------------------------------------------------------------------------
ClientStep ==
  Opened \/ Write \/ Drained \/ SendFrame \/ SkipFrame \/ BodyFails \/ BodyEnds
    \/ Finish \/ SendFails \/ Responded \/ ReadData \/ ReadEnd \/ ReadFails

ServerStep == ServerAnswers \/ ServerSends \/ ServerEnds

Ended == pc \in Over /\ UNCHANGED vars

Next ==
  ClientStep \/ OpenFails \/ Drop \/ ServerStep \/ StreamBreaks \/ Ended

Spec == Init /\ [][Next]_vars

\* The client's task is polled when it is woken, the request body has its next
\* frame in time, and the server reads, answers and ends.
FairSpec == Spec /\ WF_vars(ClientStep) /\ WF_vars(ServerStep)

-----------------------------------------------------------------------------
(***************************************************************************)
(* Properties.                                                             *)
(***************************************************************************)

\* The bytes of a body: all the pieces of all its data frames, in order.
WithFrame(bytes, frame) ==
  IF frame.kind = "data" THEN bytes \o FlattenSeq(frame.chunks) ELSE bytes
Bytes(frames) == FoldLeft(WithFrame, << >>, frames)

\* The shape of the state.
TypeOK ==
  /\ pc \in {"opening", "frame", "response", "reading"} \cup Draining \cup Over
  /\ {sendBuf, sent, wire} \subseteq Seq(Units \cup {Head0})
  /\ fin \in BOOLEAN
  /\ server \in {"reading", "answering", "ended", "broken"}
  /\ {response, inbox, got} \subseteq Seq(Units)

\* However the transport cuts the writes, what it took and what is buffered
\* are, in order, what send_data was given: nothing is lost, sent twice or
\* left behind when poll_ready comes back.
WritesKeepOrder ==
  pc \notin Over => sent = wire \o sendBuf

\* When send_request begins to wait for the response, all the data of the request has
\* left ("Sends a request and asynchronously returns the corresponding response",
\* application.rs:43).  Its trailers, which SkipFrame discards, never leave; they keep
\* no data from leaving.
AllDataSent ==
  pc \in {"response", "reading"} => wire = << Head0 >> \o Bytes(request)

\* The reader gets the bytes of the response in order, and a body that ends
\* without an error is the whole body.
ResponseFaithful ==
  /\ IsPrefix(got, response)
  /\ pc = "done" => got = response

\* send_request, once it has a stream, returns.
Answered == pc \in Draining \cup {"frame", "response"} ~> pc \in {"reading"} \cup Over
=============================================================================
