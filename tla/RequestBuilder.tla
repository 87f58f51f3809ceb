--------------------------- MODULE RequestBuilder ---------------------------
(***************************************************************************)
(* BoundRequestBuilder (src/bound_request.rs, bound_request/json.rs): the  *)
(* calls that build a request, as functions on what http::request::Builder *)
(* holds.  An error stays in the builder until the request is asked for.   *)
(* Of the headers only Content-Type matters to the builder itself.         *)
(***************************************************************************)
EXTENDS Sequences, SequencesExt

CONSTANT Malformed  \* a URI, a header's name or value that does not convert

\* Request::builder().method(method).uri(uri)
NewRequest(uri) == [uri |-> uri, error |-> uri = Malformed, types |-> << >>]

\* header() appends.  Headers other than Content-Type are "other".
Header(b, value) ==
  CASE b.error            -> b
    [] value = Malformed  -> [b EXCEPT !.error = TRUE]
    [] value = "other"    -> b
    [] OTHER              -> [b EXCEPT !.types = Append(@, value)]

\* A builder in error has no headers to look at; its header() does nothing.
EnsureContentType_Always(b, value) == Header(b, value)
EnsureContentType(b, value) ==
  IF b.error \/ b.types = << >> THEN Header(b, value) ELSE b

\* The Content-Type of what text, bytes, json and ndjson attach; build and
\* body() set none.
TypeOfBody ==
  [text |-> "text/plain", bytes |-> "application/octet-stream",
   json |-> "application/json", ndjson |-> "application/x-ndjson"]

Attach(b, kind) ==
  IF kind \in DOMAIN TypeOfBody THEN EnsureContentType(b, TypeOfBody[kind]) ELSE b

\* The request that the calls `headers`, then `kind`, come to.
BuiltFrom(uri, headers, kind) ==
  Attach(FoldLeft(Header, NewRequest(uri), headers), kind)
=============================================================================
