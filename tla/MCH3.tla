--------------------------------- MODULE MCH3 ---------------------------------
(***************************************************************************)
(* Instances of H3Exchange for TLC: a few bodies of each kind that a       *)
(* request can have.                                                       *)
(***************************************************************************)
EXTENDS H3Exchange, RequestBody

\* What build, text, bytes, json and ndjson attach.
BuiltBodies ==
  {EmptyBody} \cup FromBytes({<< >>, << 1, 2, 3 >>})
    \cup FromJson({<< 1, 2 >>, Unserializable})
    \cup {FromNdjson(<< << 1 >>, << 2, 3 >> >>)}

\* What body() takes as well: trailers, after the data and before it, and an
\* empty frame.
OtherBodies ==
  { << Frame(<< << 1, 2 >> >>), Frame(<< << 3 >> >>), TrailersFrame >>,
    << TrailersFrame, Frame(<< << 1, 2 >> >>) >>,
    << Frame(<< << 1 >> >>), Frame(<< >>), Frame(<< << 2, 3 >> >>) >> }

WholeBodies == BuiltBodies \cup OtherBodies

\* A value in the middle cannot be serialized.
FailingBodies == {FromNdjson(<< << 1 >>, Unserializable, << 2 >> >>)}

\* What body() takes, too: a Buf in two pieces.
ChainedBodies == {<< Frame(<< << 1 >>, << 2 >> >>) >>}

WholeOrFailing == WholeBodies \cup FailingBodies

ShortResponses == {<< >>, << 1 >>, << 1, 2, 3 >>}
EmptyResponse  == {<< >>}
=============================================================================
