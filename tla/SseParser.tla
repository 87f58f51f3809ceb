------------------------------ MODULE SseParser ------------------------------
(***************************************************************************)
(* What SseStream does with a line (src/response_helpers/sse.rs,           *)
(* process_line), and what the specification of server-sent events says a  *)
(* stream of lines means.                                                  *)
(***************************************************************************)
EXTENDS Naturals, Sequences, SequencesExt

CONSTANTS
  Colon, Space, LF,  \* ':', white space, and the '\n' inside an event's data
  None               \* Option::None

-----------------------------------------------------------------------------
(***************************************************************************)
(* process_line.                                                           *)
(***************************************************************************)

NewEvent == [id |-> None, event |-> None, data |-> << >>]

\* SseStream::new
IdleSse == [ready |-> << >>, pending |-> NewEvent, lastId |-> None]

NotSpace(c) == c # Space

TrimStart(s) ==
  LET first == SelectInSeq(s, NotSpace)
  IN  IF first = 0 THEN << >> ELSE SubSeq(s, first, Len(s))
TrimEnd(s) == SubSeq(s, 1, SelectLastInSeq(s, NotSpace))

\* line.splitn(2, ':')
IsColon(c) == c = Colon
ColonAt(line) == SelectInSeq(line, IsColon)
FieldName(line) ==
  IF ColonAt(line) = 0 THEN line ELSE SubSeq(line, 1, ColonAt(line) - 1)
AfterColon(line) ==
  IF ColonAt(line) = 0 THEN << >> ELSE SubSeq(line, ColonAt(line) + 1, Len(line))
FieldValue(line) == TrimStart(AfterColon(line))

\* The "data" field: values are joined by '\n', but not to empty data.
AddData_NoSeparator(data, value) == data \o value
AddData(data, value) ==
  IF data = << >> THEN value ELSE data \o << LF >> \o value

\* A blank line completes the pending event, whatever is in it.
Dispatch(p) ==
  [p EXCEPT !.ready = Append(@, p.pending), !.pending = NewEvent]

SetField(p, name, value) ==
  CASE name = << "data" >> -> [p EXCEPT !.pending.data = AddData(@, value)]
    [] name = << "id" >> -> [p EXCEPT !.pending.id = value, !.lastId = value]
    [] name = << "event" >> -> [p EXCEPT !.pending.event = value]
    [] OTHER -> p

\* process_line(line.trim_end())
OnSseLine(p, untrimmed) ==
  LET line == TrimEnd(untrimmed)
  IN  IF line = << >> THEN Dispatch(p)
      ELSE SetField(p, FieldName(line), FieldValue(line))

-----------------------------------------------------------------------------
(***************************************************************************)
(* The specification of server-sent events (the WHATWG HTML standard, "9.2 *)
(* Server-sent events"), for the same lines.  It gathers data with a '\n'  *)
(* after every value, drops the last one, and dispatches nothing when      *)
(* there was no data; it takes one space off the value.  The id of an      *)
(* event is the last that came, in one of its own lines or earlier.        *)
(***************************************************************************)

SpecValue(line) ==
  LET value == AfterColon(line)
  IN  IF value # << >> /\ Head(value) = Space THEN Tail(value) ELSE value

\* An event is named when an id is among its own lines.
SpecDispatch(p) ==
  LET data == p.pending.data
      event == [id |-> p.lastId, named |-> p.pending.id # None,
                event |-> p.pending.event, data |-> Front(data)]
  IN  [p EXCEPT !.pending = NewEvent,
                !.ready = IF data = << >> THEN @ ELSE Append(@, event)]

SpecField(p, name, value) ==
  CASE name = << "data" >> ->
         [p EXCEPT !.pending.data = @ \o value \o << LF >>]
    [] name = << "id" >> -> [p EXCEPT !.pending.id = value, !.lastId = value]
    [] name = << "event" >> -> [p EXCEPT !.pending.event = value]
    [] OTHER -> p

OnLineAsSpecified(p, line) ==
  IF line = << >> THEN SpecDispatch(p)
  ELSE SpecField(p, FieldName(line), SpecValue(line))

Specified(lines) == FoldLeft(OnLineAsSpecified, IdleSse, lines)
=============================================================================
