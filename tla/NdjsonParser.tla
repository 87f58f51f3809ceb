---------------------------- MODULE NdjsonParser ----------------------------
(***************************************************************************)
(* What NdjsonStream does with a line (src/response_helpers/ndjson.rs):    *)
(* deserialize it and queue the outcome.                                   *)
(***************************************************************************)
EXTENDS Sequences, SequencesExt

CONSTANT Garbage   \* a symbol that no JSON text contains

\* NdjsonStream::new: nothing queued.
IdleNdjson == [ready |-> << >>]

\* from_slice::<T>(&buf): the value the line spells, or an error.  The empty
\* line spells no value.
FromSlice(line) ==
  IF line = << >> \/ Contains(line, Garbage)
  THEN [error |-> line]
  ELSE [value |-> line]

OnNdjsonLine(p, line) == [p EXCEPT !.ready = Append(@, FromSlice(line))]
=============================================================================
