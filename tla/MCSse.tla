--------------------------------- MODULE MCSse ---------------------------------
(***************************************************************************)
(* The SSE stream over bodies made of a few lines.                         *)
(***************************************************************************)
EXTENDS SseStream

NewLine == "nl"
Alphabet == {"data", "id", "event", "x", ":", " ", NewLine}

Blank == << >>
DataX == << "data", ":", " ", "x" >>
DataNone == << "data", ":" >>
DataPadded == << "data", ":", " ", " ", "x", " " >>
IdX == << "id", ":", "x" >>
EventX == << "event", ":", " ", "x" >>
Comment == << ":", "x" >>
White == << " " >>

Terminated(line) == Append(line, NewLine)
Text(lines) == FlattenSeq([i \in DOMAIN lines |-> Terminated(lines[i])])

\* Bodies of up to three lines of a set, and one that is cut off.
BodiesOf(lines) ==
  {Text(ls) : ls \in BoundedSeq(lines, 3)} \cup {Text(<< DataX, Blank >>) \o IdX}

PlainBodies == BodiesOf({Blank, DataX, IdX, Comment})
SpacedBodies == BodiesOf({Blank, DataX, DataNone, DataPadded, White})

\* Event streams as the examples of the tests write them, and some with an event
\* after one that has an id, or no data.
UsualBodies ==
  { Text(<< DataX, Blank, EventX, DataX, IdX, Blank >>),
    Text(<< DataX, DataX, Blank, Comment, DataX, Blank >>),
    Text(<< IdX, DataX, Blank, DataX, Blank >>) \o << "data" >>,
    Text(<< EventX, IdX, Blank, DataX, Blank >>) }

AllBodies == PlainBodies \cup SpacedBodies \cup UsualBodies
=============================================================================
