------------------------------- MODULE MCNdjson -------------------------------
(***************************************************************************)
(* The NDJSON stream: LineStream with NdjsonParser, over every short body  *)
(* of values, garbage and line ends.                                       *)
(***************************************************************************)
EXTENDS LineStream, NdjsonParser

NewLine  == "nl"
Alphabet == {"v", Garbage, NewLine}
ShortBodies == BoundedSeq(Alphabet, 4)
LongBodies ==
  { << "v", NewLine, "v", "v", NewLine, NewLine >>,
    << "v", "v", "v", NewLine, Garbage, NewLine, "v" >> }
AllBodies == ShortBodies \cup LongBodies
=============================================================================
