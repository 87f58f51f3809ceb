----------------------------- MODULE RequestBody -----------------------------
(***************************************************************************)
(* The bodies of requests: what the methods that end the building of a     *)
(* request attach to it (src/bound_request.rs, bound_request/json.rs), as  *)
(* the frames that a session polls.  Client::send boxes the data of every  *)
(* frame and turns every error into an anyhow::Error; it neither joins nor *)
(* cuts nor drops a frame, so what is attached is what the session polls.  *)
(***************************************************************************)
EXTENDS Sequences

CONSTANTS
  NewLine,        \* the byte that ends an NDJSON line
  Unserializable  \* a value that serde_json::to_vec refuses

\* A frame of data is a Buf, in one or more contiguous pieces.
Frame(chunks) == [kind |-> "data", chunks |-> chunks]
TrailersFrame == [kind |-> "trailers"]
ErrorFrame    == [kind |-> "error"]

\* build: http_body_util's Empty.
EmptyBody == << >>

\* http_body_util's Full: one frame in one piece, none if there is nothing in it.
Full(bytes) == IF bytes = << >> THEN << >> ELSE << Frame(<< bytes >>) >>

\* text and bytes.
FromBytes(texts) == {Full(t) : t \in texts}

\* json serializes before there is a request: a value that cannot be gives none.
FromJson(values) == {Full(v) : v \in values \ {Unserializable}}

\* ndjson serializes a value when its frame is polled: one that cannot be is an
\* error in the middle of the body.
Line(value) ==
  IF value = Unserializable THEN ErrorFrame ELSE Frame(<< Append(value, NewLine) >>)
FromNdjson(values) == [i \in DOMAIN values |-> Line(values[i])]
=============================================================================
