------------------------------ MODULE ItemStream ------------------------------
(***************************************************************************)
(* What SseStream and NdjsonStream (src/response_helpers/sse.rs,           *)
(* ndjson.rs) promise to who polls them, with no bytes, frames, buffer or  *)
(* waker: the body is lines that come in order; the items are those that   *)
(* the parser makes of the lines, given one by one; and the stream ends    *)
(* only when all of them have been given, and then for good.               *)
(***************************************************************************)
EXTENDS Naturals, Sequences, SequencesExt

CONSTANTS
  Idle,         \* the parser of a new stream, a record with a field `ready`
  OnLine(_, _)  \* the parser after one more line

VARIABLES
  lines,  \* the lines that have come
  items,  \* the items that were given
  ended   \* the stream gave None

streamVars == << lines, items, ended >>

Meaning(ls) == FoldLeft(OnLine, Idle, ls).ready

StreamInit ==
  /\ lines = << >>
  /\ items = << >>
  /\ ended = FALSE

\* The next of the items that the lines mean.
Give ==
  /\ Len(items) < Len(Meaning(lines'))
  /\ items' = Append(items, Meaning(lines')[Len(items) + 1])

\* Lines may come, and an item may be given.
Poll ==
  /\ ~ended /\ UNCHANGED ended
  /\ IsPrefix(lines, lines')
  /\ Give \/ UNCHANGED items

End ==
  /\ ~ended /\ items = Meaning(lines)
  /\ ended' = TRUE
  /\ UNCHANGED << lines, items >>

StreamNext == Poll \/ End

StreamSpec == StreamInit /\ [][StreamNext]_streamVars
=============================================================================
